---------------------------- MODULE RunnerProofs ----------------------------
(***************************************************************************)
(* Proofs about Runner, for any finite set of jobs, any projects, hosts    *)
(* and contexts, and any limits.                                           *)
(***************************************************************************)
EXTENDS RunnerRefinement, FiniteSetTheorems, TLAPS

-----------------------------------------------------------------------------
(* What the invariant says of the limits and of the sets it counts.        *)

\* A non-positive setting is replaced by a positive default (New and
\* getHostSemaphore), so both limits are positive numbers.
LEMMA LimitsPositive == Workers \in Nat \ {0} /\ HostLimit \in Nat \ {0}
  BY LimitsAssumption DEF Workers, HostLimit

\* The sets the counters stand for are finite.
LEMMA CountedFinite ==
  /\ IsFiniteSet(Live) /\ IsFiniteSet(Running)
  /\ \A n : IsFiniteSet(Holders(n))
  /\ \A h : IsFiniteSet(HoldersOn(h))
  <1>1. \A S : S \subseteq Jobs => IsFiniteSet(S)
    BY JobsAssumption, FS_Subset
  <1> QED BY <1>1 DEF Live, Running, Holders, HoldersOn

\* The same in the next state.
LEMMA CountedFinitePrime ==
  /\ IsFiniteSet(Live') /\ IsFiniteSet(Running')
  /\ \A n : IsFiniteSet(Holders(n)')
  /\ \A h : IsFiniteSet(HoldersOn(h)')
  <1>1. \A S : S \subseteq Jobs => IsFiniteSet(S)
    BY JobsAssumption, FS_Subset
  <1> QED BY <1>1 DEF Live, Running, Holders, HoldersOn

\* A step that touches no slot and no lock keeps their counts.
LEMMA LocksFrame ==
  ASSUME SlotsCounted, LocksCounted, UNCHANGED <<held, locks>>
  PROVE  SlotsCounted' /\ LocksCounted'
  BY DEF SlotsCounted, LocksCounted, Holders, HoldersOn, locks

\* A job that moves between two places of its goroutine keeps the WaitGroup.
LEMMA LiveFrame ==
  ASSUME TypeOK, GoroutinesCounted, UNCHANGED <<waitGroup, dispatcher>>,
         NEW j \in Jobs, NEW to, pc' = [pc EXCEPT ![j] = to],
         pc[j] \in LivePcs <=> to \in LivePcs
  PROVE  GoroutinesCounted'
  <1>1. Live' = Live
    BY DEF Live, TypeOK
  <1> QED BY <1>1 DEF GoroutinesCounted

\* A job that is not queued may move anywhere else without disturbing the
\* channel.
LEMMA QueueFrame ==
  ASSUME TypeOK, QueueMatchesPc, UNCHANGED jobChannel,
         NEW j \in Jobs, NEW to, pc' = [pc EXCEPT ![j] = to],
         pc[j] # "queued"
  PROVE  QueueMatchesPc'
  BY DEF QueueMatchesPc, TypeOK

\* Initially no slot, lock or goroutine but the dispatcher's is in use.
LEMMA InitIndInv == Init => IndInv
  <1> SUFFICES ASSUME Init PROVE IndInv
    OBVIOUS
  <1>1. TypeOK
    BY LimitsPositive, LimitsAssumption DEF Init, TypeOK, JobPcs, LivePcs, Outcomes, StopPcs
  <1>2. Holders(1) = {} /\ Holders(3) = {} /\ Live = {} /\ \A h : HoldersOn(h) = {}
    BY DEF Init, Holders, HoldersOn, Live, LivePcs
  <1>e. Cardinality({}) = 0
    BY FS_EmptySet
  <1>3. SlotsCounted
    <2>1. \A h \in Hosts : hostSemaphores[h] = Cardinality(HoldersOn(h))
      BY <1>2, <1>e DEF Init
    <2> QED BY <1>2, <1>e, <2>1 DEF Init, SlotsCounted
  <1>g. GoroutinesCounted
    BY <1>2, <1>e DEF Init, GoroutinesCounted
  <1>4. LocksCounted
    BY <1>2 DEF Init, LocksCounted
  <1>5. HeldMatchesPc /\ QueueMatchesPc /\ StopOrder
    BY DEF Init, HeldMatchesPc, QueueMatchesPc, StopOrder, LivePcs
  <1> QED BY <1>1, <1>3, <1>4, <1>5, <1>g DEF IndInv

-----------------------------------------------------------------------------
(* Each action preserves the invariant.                                    *)

\* Submit moves a job into the channel or refuses it; it owns nothing yet.
LEMMA SubmitIndInv ==
  ASSUME IndInv, NEW j \in Jobs, Submit(j)
  PROVE  IndInv'
  <1> USE DEF IndInv
  <1>1. CASE SubmitCheck(j) \/ SubmitAbort(j)
    <2>1. PICK to \in {"refused", "sending"} : pc' = [pc EXCEPT ![j] = to]
      BY <1>1 DEF SubmitCheck, SubmitAbort, Goto
    <2>2. pc[j] \in {"new", "sending"}
      BY <1>1 DEF SubmitCheck, SubmitAbort, Goto
    <2>3. UNCHANGED <<held, outcome, jobChannel, locks, waitGroup, dispatcher, stopPc, results, ctxDone>>
      BY <1>1 DEF SubmitCheck, SubmitAbort
    <2>4. TypeOK' /\ HeldMatchesPc' /\ StopOrder'
      BY <2>1, <2>2, <2>3 DEF TypeOK, HeldMatchesPc, StopOrder, JobPcs, LivePcs, locks
    <2>5. GoroutinesCounted'
      BY <2>1, <2>2, <2>3, LiveFrame DEF LivePcs
    <2>6. QueueMatchesPc'
      BY <2>1, <2>2, <2>3, QueueFrame
    <2> QED BY <2>3, <2>4, <2>5, <2>6, LocksFrame
  <1>2. CASE SubmitSend(j)
    <2> USE <1>2 DEF SubmitSend, Goto
    <2>a. /\ jobChannel' \in Seq(Jobs)
          /\ Len(jobChannel') = Len(jobChannel) + 1
          /\ jobChannel'[Len(jobChannel) + 1] = j
          /\ \A n \in 1..Len(jobChannel) : jobChannel'[n] = jobChannel[n]
      BY DEF TypeOK
    <2>b. Len(jobChannel) \in Nat
      BY DEF TypeOK
    <2>0. TypeOK'
      BY <2>a, <2>b, LimitsAssumption DEF TypeOK, JobPcs, LivePcs, locks
    <2>1. HeldMatchesPc' /\ StopOrder'
      BY DEF TypeOK, HeldMatchesPc, StopOrder, LivePcs
    <2>2. GoroutinesCounted'
      BY LiveFrame DEF LivePcs
    <2>3. QueueMatchesPc'
      <3>1. \A n \in 1..Len(jobChannel') : n \in 1..Len(jobChannel) \/ n = Len(jobChannel) + 1
        BY <2>a, <2>b
      <3>2. \A n \in 1..Len(jobChannel) : jobChannel[n] # j /\ jobChannel[n] \in Jobs
        BY DEF QueueMatchesPc, TypeOK
      <3>3. \A n \in 1..Len(jobChannel') : pc'[jobChannel'[n]] = "queued"
        BY <2>a, <3>1, <3>2 DEF QueueMatchesPc, TypeOK
      <3>4. \A m, n \in 1..Len(jobChannel') : jobChannel'[m] = jobChannel'[n] => m = n
        BY <2>a, <3>1, <3>2 DEF QueueMatchesPc
      <3> QED BY <3>3, <3>4 DEF QueueMatchesPc
    <2> QED BY <2>0, <2>1, <2>2, <2>3, LocksFrame
  <1> QED BY <1>1, <1>2 DEF Submit

\* The dispatcher gives a queued job its goroutine, or exits.
LEMMA DispatchIndInv ==
  ASSUME IndInv, Dispatch \/ DispatchExit
  PROVE  IndInv'
  <1> USE DEF IndInv
  <1>1. CASE Dispatch
    <2> DEFINE j == Head(jobChannel)
    <2> USE <1>1 DEF Dispatch
    <2>1. j \in Jobs /\ pc[j] = "queued" /\ j = jobChannel[1] /\ 1 \in 1..Len(jobChannel)
      BY DEF TypeOK, QueueMatchesPc
    <2>a. /\ jobChannel' \in Seq(Jobs)
          /\ Len(jobChannel') <= JobBuffer
          /\ waitGroup' \in Nat
          /\ pc' \in [Jobs -> JobPcs]
      BY <2>1, LimitsAssumption DEF TypeOK, JobPcs, LivePcs
    <2>b. TypeOK'
      BY <2>a DEF TypeOK, locks
    <2>2. HeldMatchesPc'
      BY <2>1 DEF TypeOK, HeldMatchesPc, LivePcs
    <2>3. /\ Len(jobChannel') = Len(jobChannel) - 1
          /\ \A n \in 1..Len(jobChannel') : n+1 \in 1..Len(jobChannel) /\ jobChannel'[n] = jobChannel[n+1]
      BY DEF TypeOK
    <2>4. QueueMatchesPc'
      <3>1. \A n \in 1..Len(jobChannel') : jobChannel'[n] # j
        BY <2>1, <2>3 DEF QueueMatchesPc, TypeOK
      <3>2. \A n \in 1..Len(jobChannel') : pc'[jobChannel'[n]] = "queued"
        BY <2>1, <2>3, <3>1 DEF QueueMatchesPc, TypeOK
      <3>3. \A m, n \in 1..Len(jobChannel') : jobChannel'[m] = jobChannel'[n] => m = n
        <4> TAKE m, n \in 1..Len(jobChannel')
        <4>1. m+1 \in 1..Len(jobChannel) /\ n+1 \in 1..Len(jobChannel)
          BY <2>3
        <4>2. jobChannel'[m] = jobChannel'[n] => m+1 = n+1
          BY <2>3, <4>1 DEF QueueMatchesPc
        <4> QED BY <4>2
      <3> QED BY <3>2, <3>3 DEF QueueMatchesPc
    <2>5. Live' = Live \cup {j} /\ j \notin Live
      BY <2>1 DEF Live, LivePcs, TypeOK
    <2>6. GoroutinesCounted'
      BY <2>5, CountedFinite, FS_AddElement, FS_CardinalityType DEF GoroutinesCounted, TypeOK
    <2>7. StopOrder'
      BY <2>1, CountedFinite, FS_CardinalityType DEF StopOrder, GoroutinesCounted, TypeOK
    <2> QED BY <2>b, <2>2, <2>4, <2>6, <2>7, LocksFrame
  <1>2. CASE DispatchExit
    <2> USE <1>2 DEF DispatchExit
    <2>1. Cardinality(Live) \in Nat
      BY CountedFinite, FS_CardinalityType
    <2>2. Live' = Live
      BY DEF Live
    <2>3. GoroutinesCounted' /\ StopOrder' /\ waitGroup' \in Nat
      BY <2>1, <2>2 DEF GoroutinesCounted, StopOrder, TypeOK
    <2>4. TypeOK' /\ HeldMatchesPc' /\ QueueMatchesPc'
      BY <2>3 DEF TypeOK, HeldMatchesPc, QueueMatchesPc, locks
    <2> QED BY <2>3, <2>4, LocksFrame
  <1> QED BY <1>1, <1>2

\* Steps of a job's goroutine that neither take nor give back anything:
\* every early return, the run itself, OnComplete and the result.
LEMMA ProgressIndInv ==
  ASSUME IndInv, NEW j \in Jobs,
         \/ ExecuteBegin(j) \/ GiveUp(j) \/ LockCancelled(j) \/ RunBegin(j)
         \/ RunReturn(j) \/ OnComplete(j) \/ Report(j)
  PROVE  IndInv'
  <1> USE DEF IndInv
  <1>1. UNCHANGED <<held, locks, jobChannel, waitGroup, dispatcher, stopPc, ctxDone>>
    BY DEF ExecuteBegin, GiveUp, LockCancelled, RunBegin, RunReturn, OnComplete, Report
  <1>2. /\ pc[j] \in LivePcs
        /\ \E to \in LivePcs : pc' = [pc EXCEPT ![j] = to]
    BY DEF ExecuteBegin, GiveUp, LockCancelled, RunBegin, RunReturn, OnComplete, Report,
           FinishWith, Goto, LivePcs
  <1>3. results' \in 0..JobBuffer /\ outcome' \in [Jobs -> Outcomes]
    BY LimitsAssumption DEF ExecuteBegin, GiveUp, LockCancelled, RunBegin, RunReturn, OnComplete, Report,
           FinishWith, Goto, TypeOK, Outcomes
  <1>4. TypeOK'
    BY <1>1, <1>2, <1>3 DEF TypeOK, locks, JobPcs
  <1>5. HeldMatchesPc'
    BY DEF ExecuteBegin, GiveUp, LockCancelled, RunBegin, RunReturn, OnComplete, Report,
           FinishWith, Goto, LivePcs, HeldMatchesPc, TypeOK
  <1>6. GoroutinesCounted'
    BY <1>1, <1>2, LiveFrame
  <1>7. QueueMatchesPc'
    BY <1>1, <1>2, QueueFrame DEF LivePcs
  <1>8. StopOrder'
    BY <1>1 DEF StopOrder
  <1> QED BY <1>1, <1>4, <1>5, <1>6, <1>7, <1>8, LocksFrame

\* The three acquisitions, each of which makes the job a holder.
LEMMA AcquireIndInv ==
  ASSUME IndInv, NEW j \in Jobs, AcquireGlobal(j) \/ AcquireHost(j) \/ AcquireLock(j)
  PROVE  IndInv'
  <1> USE DEF IndInv
  <1>1. UNCHANGED <<outcome, jobChannel, waitGroup, dispatcher, stopPc, results, ctxDone>>
    BY DEF AcquireGlobal, AcquireHost, AcquireLock
  <1>2. /\ pc[j] \in LivePcs
        /\ \E to \in LivePcs : pc' = [pc EXCEPT ![j] = to]
    BY DEF AcquireGlobal, AcquireHost, AcquireLock, Goto, LivePcs
  <1>3. HeldMatchesPc'
    BY DEF AcquireGlobal, AcquireHost, AcquireLock, Goto, LivePcs, HeldMatchesPc, TypeOK
  <1>4. GoroutinesCounted'
    BY <1>1, <1>2, LiveFrame
  <1>5. QueueMatchesPc'
    BY <1>1, <1>2, QueueFrame DEF LivePcs
  <1>6. StopOrder'
    BY <1>1 DEF StopOrder
  <1>7. HostOf[j] \in Hosts /\ Key(j) \in Keys
    BY DEF Hosts, Keys
  <1>8. TypeOK'
    <2>1. pc' \in [Jobs -> JobPcs]
      BY <1>2 DEF TypeOK, JobPcs
    <2>5. held' \in [Jobs -> 0..3]
      <3>1. \E n \in 0..3 : held' = [held EXCEPT ![j] = n]
        BY DEF AcquireGlobal, AcquireHost, AcquireLock
      <3> QED BY <3>1 DEF TypeOK
    <2>2. globalSemaphore' \in 0..Workers
      BY LimitsPositive DEF TypeOK, AcquireGlobal, AcquireHost, AcquireLock
    <2>3. hostSemaphores' \in [Hosts -> 0..HostLimit]
      BY <1>7, LimitsPositive DEF TypeOK, AcquireGlobal, AcquireHost, AcquireLock
    <2>4. projectLock' \in [Keys -> {0, 1}]
      BY DEF TypeOK, AcquireGlobal, AcquireHost, AcquireLock
    <2> QED BY <1>1, <2>1, <2>2, <2>3, <2>4, <2>5 DEF TypeOK
  <1>9. CASE AcquireGlobal(j)
    <2> USE <1>9 DEF AcquireGlobal, Goto
    <2>1. held[j] = 0 /\ held' = [held EXCEPT ![j] = 1]
      BY DEF HeldMatchesPc
    <2>2. Holders(1)' = Holders(1) \cup {j} /\ j \notin Holders(1)
      BY <2>1 DEF Holders, TypeOK
    <2>3. Holders(3)' = Holders(3) /\ \A h : HoldersOn(h)' = HoldersOn(h)
      BY <2>1 DEF Holders, HoldersOn, TypeOK
    <2>4. SlotsCounted'
      BY <2>2, <2>3, CountedFinite, FS_AddElement DEF SlotsCounted
    <2>5. LocksCounted'
      BY <2>3 DEF LocksCounted
    <2> QED BY <1>3, <1>4, <1>5, <1>6, <1>8, <2>4, <2>5
  <1>10. CASE AcquireHost(j)
    <2> USE <1>10 DEF AcquireHost, Goto
    <2>1. held[j] = 1 /\ held' = [held EXCEPT ![j] = 2]
      BY DEF HeldMatchesPc
    <2>2. Holders(1)' = Holders(1) /\ Holders(3)' = Holders(3)
      BY <2>1 DEF Holders, TypeOK
    <2>3. /\ HoldersOn(HostOf[j])' = HoldersOn(HostOf[j]) \cup {j}
          /\ j \notin HoldersOn(HostOf[j])
          /\ \A h : h # HostOf[j] => HoldersOn(h)' = HoldersOn(h)
      BY <2>1 DEF HoldersOn, TypeOK
    <2>4. Cardinality(HoldersOn(HostOf[j])') = Cardinality(HoldersOn(HostOf[j])) + 1
      BY <2>3, CountedFinite, FS_AddElement
    <2>5. SlotsCounted'
      BY <2>2, <2>3, <2>4, <1>7 DEF SlotsCounted, TypeOK
    <2>6. LocksCounted'
      BY <2>2 DEF LocksCounted
    <2> QED BY <1>3, <1>4, <1>5, <1>6, <1>8, <2>5, <2>6
  <1>11. CASE AcquireLock(j)
    <2> USE <1>11 DEF AcquireLock, Goto
    <2>1. held[j] = 2 /\ held' = [held EXCEPT ![j] = 3]
      BY DEF HeldMatchesPc
    <2>2. Holders(1)' = Holders(1) /\ \A h : HoldersOn(h)' = HoldersOn(h)
      BY <2>1 DEF Holders, HoldersOn, TypeOK
    <2>3. Holders(3)' = Holders(3) \cup {j}
      BY <2>1 DEF Holders, TypeOK
    <2>4. SlotsCounted'
      BY <2>2 DEF SlotsCounted
    <2>5. \A i \in Holders(3) : Key(i) # Key(j)
      BY <1>7 DEF LocksCounted
    <2>6. LocksCounted'
      BY <2>3, <2>5, <1>7 DEF LocksCounted, TypeOK
    <2> QED BY <1>3, <1>4, <1>5, <1>6, <1>8, <2>4, <2>6
  <1> QED BY <1>9, <1>10, <1>11

\* The deferred releases: the job is a holder, so the counter it gives back
\* to is positive.
LEMMA UnwindIndInv ==
  ASSUME IndInv, NEW j \in Jobs, Unwind(j)
  PROVE  IndInv'
  <1> USE DEF IndInv
  <1>1. pc[j] = "unwind" /\ held[j] \in 1..3
    BY DEF Unwind, TypeOK
  <1>2. /\ held' = [held EXCEPT ![j] = held[j] - 1]
        /\ UNCHANGED <<pc, outcome, jobChannel, waitGroup, dispatcher, stopPc, results, ctxDone>>
    BY DEF Unwind
  <1>3. HeldMatchesPc'
    BY <1>1, <1>2 DEF HeldMatchesPc, TypeOK, LivePcs
  <1>4. GoroutinesCounted' /\ QueueMatchesPc' /\ StopOrder'
    BY <1>2 DEF GoroutinesCounted, QueueMatchesPc, StopOrder, Live
  <1>5. HostOf[j] \in Hosts /\ Key(j) \in Keys
    BY DEF Hosts, Keys
  <1>6. held' \in [Jobs -> 0..3]
    BY <1>1, <1>2 DEF TypeOK
  <1>7. CASE held[j] = 3
    <2>1. /\ projectLock' = [projectLock EXCEPT ![Key(j)] = 1]
          /\ UNCHANGED <<globalSemaphore, hostSemaphores>>
      BY <1>7 DEF Unwind
    <2>2. Holders(1)' = Holders(1) /\ \A h : HoldersOn(h)' = HoldersOn(h)
      BY <1>2, <1>7 DEF Holders, HoldersOn, TypeOK
    <2>3. Holders(3)' = Holders(3) \ {j} /\ j \in Holders(3)
      BY <1>2, <1>7 DEF Holders, TypeOK
    <2>4. SlotsCounted'
      BY <2>1, <2>2 DEF SlotsCounted
    <2>5. LocksCounted'
      BY <1>5, <2>1, <2>3 DEF LocksCounted, TypeOK
    <2>6. TypeOK'
      BY <1>2, <1>6, <2>1 DEF TypeOK
    <2> QED BY <1>3, <1>4, <2>4, <2>5, <2>6
  <1>8. CASE held[j] = 2
    <2>1. /\ hostSemaphores' = [hostSemaphores EXCEPT ![HostOf[j]] = hostSemaphores[HostOf[j]] - 1]
          /\ UNCHANGED <<globalSemaphore, projectLock>>
      BY <1>8 DEF Unwind
    <2>2. Holders(1)' = Holders(1) /\ Holders(3)' = Holders(3)
      BY <1>2, <1>8 DEF Holders, TypeOK
    <2>3. /\ HoldersOn(HostOf[j])' = HoldersOn(HostOf[j]) \ {j}
          /\ j \in HoldersOn(HostOf[j])
          /\ \A h : h # HostOf[j] => HoldersOn(h)' = HoldersOn(h)
      BY <1>2, <1>8 DEF HoldersOn, TypeOK
    <2>4. /\ Cardinality(HoldersOn(HostOf[j])') = Cardinality(HoldersOn(HostOf[j])) - 1
          /\ Cardinality(HoldersOn(HostOf[j])') \in Nat
      BY <2>3, CountedFinite, FS_RemoveElement, FS_CardinalityType
    <2>5. SlotsCounted'
      BY <1>5, <2>1, <2>2, <2>3, <2>4 DEF SlotsCounted, TypeOK
    <2>6. LocksCounted'
      BY <2>1, <2>2 DEF LocksCounted
    <2>7. hostSemaphores[HostOf[j]] - 1 \in 0..HostLimit
      BY <1>5, <2>4, LimitsPositive DEF SlotsCounted, TypeOK
    <2>8. TypeOK'
      BY <1>2, <1>6, <2>1, <2>7 DEF TypeOK
    <2> QED BY <1>3, <1>4, <2>5, <2>6, <2>8
  <1>9. CASE held[j] = 1
    <2>1. /\ globalSemaphore' = globalSemaphore - 1
          /\ UNCHANGED <<hostSemaphores, projectLock>>
      BY <1>9 DEF Unwind
    <2>2. Holders(1)' = Holders(1) \ {j} /\ j \in Holders(1)
      BY <1>2, <1>9 DEF Holders, TypeOK
    <2>3. Holders(3)' = Holders(3) /\ \A h : HoldersOn(h)' = HoldersOn(h)
      BY <1>2, <1>9 DEF Holders, HoldersOn, TypeOK
    <2>4. /\ Cardinality(Holders(1)') = Cardinality(Holders(1)) - 1
          /\ Cardinality(Holders(1)') \in Nat
      BY <2>2, CountedFinite, FS_RemoveElement, FS_CardinalityType
    <2>5. SlotsCounted'
      BY <2>1, <2>3, <2>4 DEF SlotsCounted
    <2>6. LocksCounted'
      BY <2>1, <2>3 DEF LocksCounted
    <2>7. globalSemaphore' \in 0..Workers
      BY <2>1, <2>4, LimitsPositive DEF SlotsCounted, TypeOK
    <2>8. TypeOK'
      BY <1>2, <1>6, <2>1, <2>7 DEF TypeOK
    <2> QED BY <1>3, <1>4, <2>5, <2>6, <2>8
  <1> QED BY <1>1, <1>7, <1>8, <1>9

\* The goroutine of a job ends and is no longer counted.
LEMMA JobExitIndInv ==
  ASSUME IndInv, NEW j \in Jobs, JobExit(j)
  PROVE  IndInv'
  <1> USE DEF IndInv, JobExit, Goto
  <1>1. Live' = Live \ {j} /\ j \in Live
    BY DEF Live, LivePcs, TypeOK
  <1>2. /\ Cardinality(Live') = Cardinality(Live) - 1
        /\ Cardinality(Live') \in Nat
    BY <1>1, CountedFinite, FS_RemoveElement, FS_CardinalityType
  <1>a. UNCHANGED <<dispatcher, stopPc>> /\ waitGroup' = waitGroup - 1
    OBVIOUS
  <1>b. Cardinality(Live) \in Nat
    BY CountedFinite, FS_CardinalityType
  <1>c. GoroutinesCounted'
    BY <1>2, <1>a, <1>b DEF GoroutinesCounted
  <1>d. waitGroup' \in Nat
    BY <1>2, <1>a, <1>c DEF GoroutinesCounted
  <1>3. GoroutinesCounted' /\ StopOrder' /\ waitGroup' \in Nat
    BY <1>a, <1>c, <1>d DEF StopOrder, TypeOK
  <1>4. HeldMatchesPc'
    BY DEF HeldMatchesPc, TypeOK, LivePcs
  <1>5. QueueMatchesPc'
    BY QueueFrame
  <1>6. TypeOK'
    BY <1>3 DEF TypeOK, JobPcs, locks
  <1> QED BY <1>3, <1>4, <1>5, <1>6, LocksFrame

\* Stop only drains jobs that own nothing, and only once nothing is live.
LEMMA StopIndInv ==
  ASSUME IndInv, Stop
  PROVE  IndInv'
  <1> USE DEF IndInv
  <1>1. CASE StopMark \/ StopClose \/ StopWait \/ StopFinish
    <2>1. UNCHANGED <<pc, held, outcome, jobChannel, locks, waitGroup, dispatcher, results, ctxDone>>
      BY <1>1 DEF StopMark, StopClose, StopWait, StopFinish, StopStep
    <2>2. stopPc' \in StopPcs /\ StopOrder'
      BY <1>1 DEF StopMark, StopClose, StopWait, StopFinish, StopStep, StopPcs, StopOrder
    <2>3. TypeOK' /\ HeldMatchesPc' /\ QueueMatchesPc'
      BY <2>1, <2>2 DEF TypeOK, HeldMatchesPc, QueueMatchesPc, locks
    <2>4. GoroutinesCounted'
      BY <2>1 DEF GoroutinesCounted, Live
    <2> QED BY <2>1, <2>2, <2>3, <2>4, LocksFrame
  <1>2. CASE StopDrain
    <2> DEFINE j == Head(jobChannel)
    <2> USE <1>2 DEF StopDrain, StopStep
    <2>1. j \in Jobs /\ pc[j] = "queued" /\ j = jobChannel[1] /\ 1 \in 1..Len(jobChannel)
      BY DEF TypeOK, QueueMatchesPc
    <2>2. /\ jobChannel' \in Seq(Jobs)
          /\ Len(jobChannel') <= JobBuffer
          /\ pc' \in [Jobs -> JobPcs]
      BY <2>1, LimitsAssumption DEF TypeOK, JobPcs
    <2>3. TypeOK'
      BY <2>2 DEF TypeOK, locks
    <2>4. HeldMatchesPc'
      BY <2>1 DEF TypeOK, HeldMatchesPc, LivePcs
    <2>5. /\ Len(jobChannel') = Len(jobChannel) - 1
          /\ \A n \in 1..Len(jobChannel') : n+1 \in 1..Len(jobChannel) /\ jobChannel'[n] = jobChannel[n+1]
      BY DEF TypeOK
    <2>6. QueueMatchesPc'
      <3>1. \A n \in 1..Len(jobChannel') : jobChannel'[n] # j
        BY <2>1, <2>5 DEF QueueMatchesPc, TypeOK
      <3>2. \A n \in 1..Len(jobChannel') : pc'[jobChannel'[n]] = "queued"
        BY <2>1, <2>5, <3>1 DEF QueueMatchesPc, TypeOK
      <3>3. \A m, n \in 1..Len(jobChannel') : jobChannel'[m] = jobChannel'[n] => m = n
        <4> TAKE m, n \in 1..Len(jobChannel')
        <4>1. m+1 \in 1..Len(jobChannel) /\ n+1 \in 1..Len(jobChannel)
          BY <2>5
        <4>2. jobChannel'[m] = jobChannel'[n] => m+1 = n+1
          BY <2>5, <4>1 DEF QueueMatchesPc
        <4> QED BY <4>2
      <3> QED BY <3>2, <3>3 DEF QueueMatchesPc
    <2>7. GoroutinesCounted'
      BY <2>1, LiveFrame DEF LivePcs
    <2>8. StopOrder'
      BY DEF StopOrder
    <2> QED BY <2>3, <2>4, <2>6, <2>7, <2>8, LocksFrame
  <1> QED BY <1>1, <1>2 DEF Stop

\* The reader of the results, the contexts, and stuttering touch no counter.
LEMMA EnvironmentIndInv ==
  ASSUME IndInv, DrainResults \/ (\E c \in Contexts : Cancel(c)) \/ Terminated \/ UNCHANGED vars
  PROVE  IndInv'
  <1> USE DEF IndInv
  <1>1. UNCHANGED <<pc, held, outcome, jobChannel, locks, waitGroup, dispatcher, stopPc>>
    BY DEF DrainResults, Cancel, Terminated, vars, locks
  <1>2. results' \in 0..JobBuffer /\ ctxDone' \in SUBSET Contexts
    BY LimitsAssumption DEF DrainResults, Cancel, Terminated, vars, TypeOK
  <1>3. TypeOK' /\ HeldMatchesPc' /\ QueueMatchesPc' /\ StopOrder'
    BY <1>1, <1>2 DEF TypeOK, HeldMatchesPc, QueueMatchesPc, StopOrder, locks
  <1>4. GoroutinesCounted'
    BY <1>1 DEF GoroutinesCounted, Live
  <1> QED BY <1>1, <1>3, <1>4, LocksFrame

-----------------------------------------------------------------------------
(* The theorems.                                                           *)

\* Every step keeps the invariant.
LEMMA NextIndInv == IndInv /\ [Next]_vars => IndInv'
  <1> SUFFICES ASSUME IndInv, [Next]_vars PROVE IndInv'
    OBVIOUS
  <1>1. ASSUME NEW j \in Jobs, Submit(j) \/ Execute(j) PROVE IndInv'
    BY <1>1, SubmitIndInv, ProgressIndInv, AcquireIndInv, UnwindIndInv, JobExitIndInv
       DEF Execute
  <1> QED BY <1>1, DispatchIndInv, StopIndInv, EnvironmentIndInv DEF Next

\* In every reachable state each counter of the runner (globalSemaphore,
\* hostSemaphores, the KeyedMutex channels, waitGroup, jobChannel) equals
\* what it stands for.
THEOREM CountersExact == Spec => []IndInv
  BY InitIndInv, NextIndInv, PTL DEF Spec

\* Type correctness of the runner; the semaphores stay within capacity and
\* the WaitGroup counter never goes negative (which would panic).
THEOREM TypeCorrect == Spec => []TypeOK
  <1>1. IndInv => TypeOK
    BY DEF IndInv
  <1> QED BY <1>1, CountersExact, PTL

\* The running jobs are holders of the lock and of both slots.
LEMMA RunningHold ==
  ASSUME IndInv
  PROVE  /\ Running \subseteq Holders(3)
         /\ Holders(3) \subseteq Holders(1)
         /\ \A h : {j \in Holders(3) : HostOf[j] = h} \subseteq HoldersOn(h)
  BY DEF IndInv, HeldMatchesPc, Running, Holders, HoldersOn, TypeOK

\* Two deploys of one project on one host never overlap (execute's
\* projectLock), for any number of jobs.
THEOREM Exclusive == Spec => []MutualExclusion
  <1>1. IndInv => MutualExclusion
    BY RunningHold DEF IndInv, LocksCounted, MutualExclusion
  <1> QED BY <1>1, CountersExact, PTL

\* The configured limits on simultaneous deploys hold, overall and per host.
THEOREM WithinLimits == Spec => []ConcurrencyCaps
  <1>1. ASSUME IndInv PROVE ConcurrencyCaps
    <2>1. Cardinality(Running) <= Cardinality(Holders(1))
      BY <1>1, RunningHold, CountedFinite, FS_Subset
    <2>2. Cardinality(Holders(1)) <= Workers /\ Cardinality(Holders(1)) \in Nat
      BY <1>1 DEF IndInv, TypeOK, SlotsCounted
    <2>3. ASSUME NEW h \in Hosts
          PROVE  Cardinality({j \in Running : HostOf[j] = h}) <= HostLimit
      <3>1. {j \in Running : HostOf[j] = h} \in SUBSET HoldersOn(h)
        BY <1>1, RunningHold
      <3>2. Cardinality({j \in Running : HostOf[j] = h}) <= Cardinality(HoldersOn(h))
        BY <3>1, CountedFinite, FS_Subset
      <3>3. Cardinality({j \in Running : HostOf[j] = h}) \in Nat
        BY <3>1, CountedFinite, FS_Subset, FS_CardinalityType
      <3>4. Cardinality(HoldersOn(h)) \in 0..HostLimit
        BY <1>1 DEF IndInv, TypeOK, SlotsCounted
      <3> QED BY <3>2, <3>3, <3>4, LimitsPositive
    <2>4. Cardinality(Running) \in Nat
      BY CountedFinite, FS_CardinalityType
    <2> QED BY <2>1, <2>2, <2>3, <2>4, LimitsPositive DEF ConcurrencyCaps
  <1> QED BY <1>1, CountersExact, PTL

\* Nothing runs, calls back or sends on results once Stop is past its wait.
THEOREM Quiesces == Spec => []StopQuiesces
  <1>1. ASSUME IndInv PROVE StopQuiesces
    <2>1. Cardinality(Live) \in Nat /\ (Cardinality(Live) = 0 <=> Live = {})
      BY CountedFinite, FS_CardinalityType, FS_EmptySet
    <2> QED BY <1>1, <2>1 DEF IndInv, TypeOK, StopOrder, GoroutinesCounted, StopQuiesces
  <1> QED BY <1>1, CountersExact, PTL

\* Every slot and lock is given back on every path of execute.
THEOREM NothingLeaks == Spec => []NoLeak
  <1>1. ASSUME IndInv, Live = {} PROVE NoLeak
    <2>1. \A j \in Jobs : held[j] = 0
      BY <1>1 DEF IndInv, HeldMatchesPc, Live
    <2>2. Holders(1) = {} /\ Holders(3) = {} /\ \A h : HoldersOn(h) = {}
      BY <2>1 DEF Holders, HoldersOn
    <2>3. Cardinality({}) = 0
      BY FS_EmptySet
    <2>4. globalSemaphore = 0
      BY <1>1, <2>2, <2>3 DEF IndInv, SlotsCounted
    <2>5. \A h \in Hosts : hostSemaphores[h] = 0
      BY <1>1, <2>2, <2>3 DEF IndInv, SlotsCounted
    <2>6. \A k \in Keys : projectLock[k] = 1
      BY <1>1, <2>2 DEF IndInv, LocksCounted, TypeOK
    <2> QED BY <2>4, <2>5, <2>6 DEF NoLeak
  <1>2. IndInv => NoLeak
    BY <1>1 DEF NoLeak
  <1> QED BY <1>2, CountersExact, PTL
-----------------------------------------------------------------------------
(* Refinement: the runner implements JobPool.                              *)

PoolStatus == [j \in Jobs |-> JobStatus(j)]

\* What the mapping gives at each place.
LEMMA StatusByPc ==
  ASSUME NEW j \in Jobs
  PROVE  /\ pc[j] \in {"new", "sending"} => JobStatus(j) = "new"
         /\ pc[j] = "refused" => JobStatus(j) = "refused"
         /\ pc[j] = "dropped" => JobStatus(j) = "lost"
         /\ pc[j] \in {"queued", "spawned", "global", "host", "lock", "check"} => JobStatus(j) = "accepted"
         /\ pc[j] = "running" => JobStatus(j) = "running"
         /\ pc[j] = "finish" /\ outcome[j] \in {"ok", "failed"} => JobStatus(j) = "running"
         /\ pc[j] = "finish" /\ outcome[j] \notin {"ok", "failed"} => JobStatus(j) = "accepted"
         /\ pc[j] \in {"report", "unwind", "done"} => JobStatus(j) = Final(outcome[j])
  BY DEF JobStatus

\* The same in the next state.
LEMMA StatusByPcPrime ==
  ASSUME NEW j \in Jobs
  PROVE  /\ pc'[j] \in {"new", "sending"} => JobStatus(j)' = "new"
         /\ pc'[j] = "refused" => JobStatus(j)' = "refused"
         /\ pc'[j] = "dropped" => JobStatus(j)' = "lost"
         /\ pc'[j] \in {"queued", "spawned", "global", "host", "lock", "check"} => JobStatus(j)' = "accepted"
         /\ pc'[j] = "running" => JobStatus(j)' = "running"
         /\ pc'[j] = "finish" /\ outcome'[j] \in {"ok", "failed"} => JobStatus(j)' = "running"
         /\ pc'[j] = "finish" /\ outcome'[j] \notin {"ok", "failed"} => JobStatus(j)' = "accepted"
         /\ pc'[j] \in {"report", "unwind", "done"} => JobStatus(j)' = Final(outcome'[j])
  BY DEF JobStatus

\* A step of one job changes the status of that job only.
LEMMA StatusFrame ==
  ASSUME TypeOK, NEW j \in Jobs, NEW to, pc' = [pc EXCEPT ![j] = to],
         \A i \in Jobs \ {j} : outcome'[i] = outcome[i]
  PROVE  PoolStatus' = [PoolStatus EXCEPT ![j] = JobStatus(j)']
  <1>1. \A i \in Jobs \ {j} : pc'[i] = pc[i]
    BY DEF TypeOK
  <1>2. \A i \in Jobs \ {j} : JobStatus(i)' = JobStatus(i)
    BY <1>1 DEF JobStatus
  <1> QED BY <1>2 DEF PoolStatus

\* A job that runs in the pool holds its lock and slots in the runner.
LEMMA PoolRunningHold ==
  ASSUME IndInv
  PROVE  Pool!RunningJobs \subseteq {j \in Holders(3) : pc[j] \in {"running", "finish"}}
  <1> SUFFICES ASSUME NEW j \in Jobs, JobStatus(j) = "running"
               PROVE  held[j] = 3 /\ pc[j] \in {"running", "finish"}
    BY DEF Pool!RunningJobs, Holders
  <1>1. pc[j] = "running" \/ (pc[j] = "finish" /\ outcome[j] \in {"ok", "failed"})
    BY StatusByPc DEF IndInv, TypeOK, JobPcs, LivePcs, Final
  <1> QED BY <1>1 DEF IndInv, HeldMatchesPc
\* How a step of one job shows in the pool: a move of that job, or nothing.
LEMMA JobMoves ==
  ASSUME TypeOK, NEW j \in Jobs, NEW to, pc' = [pc EXCEPT ![j] = to],
         \A i \in Jobs \ {j} : outcome'[i] = outcome[i], UNCHANGED stopPc
  PROVE  /\ JobStatus(j)' = JobStatus(j) => UNCHANGED Pool!vars
         /\ \A from, dest : JobStatus(j) = from /\ JobStatus(j)' = dest
                            => Pool!Move(j, from, dest)
  <1>1. PoolStatus' = [PoolStatus EXCEPT ![j] = JobStatus(j)']
    BY StatusFrame
  <1>2. UNCHANGED <<StopFlag, ResultsClosed>>
    BY DEF StopFlag, ResultsClosed
  <1>3. JobStatus(j)' = JobStatus(j) => PoolStatus' = PoolStatus
    BY <1>1 DEF PoolStatus
  <1> QED BY <1>1, <1>2, <1>3 DEF Pool!vars, Pool!Move, PoolStatus

\* While a job's goroutine exists the pool is not closed.
LEMMA LiveNotClosed ==
  ASSUME IndInv, NEW j \in Jobs, pc[j] \in LivePcs
  PROVE  ~ResultsClosed
  <1>1. j \in Live /\ Live # {}
    BY DEF Live
  <1>2. Cardinality(Live) \in Nat /\ Cardinality(Live) # 0
    BY <1>1, CountedFinite, FS_CardinalityType, FS_EmptySet
  <1> QED BY <1>2 DEF IndInv, TypeOK, StopOrder, GoroutinesCounted, ResultsClosed

\* The pool counts with the same Cardinality.
LEMMA PoolCardinality == \A S : Pool!Cardinality(S) = Cardinality(S)
  BY DEF Pool!Cardinality, Cardinality

\* The step that calls DeployFunc satisfies Start's guard: it holds the
\* lock and a slot of each semaphore, as every running job does.
LEMMA StartAllowed ==
  ASSUME IndInv, NEW j \in Jobs, pc[j] = "check"
  PROVE  /\ \A i \in Pool!RunningJobs : Key(i) # Key(j)
         /\ Cardinality(Pool!RunningJobs) < Workers
         /\ Cardinality(Pool!RunningOn(Host(j))) < HostLimit
  <1> DEFINE R == Pool!RunningJobs
             RH == Pool!RunningOn(Host(j))
             H1 == Holders(1)
             H2 == HoldersOn(HostOf[j])
  <1>1. held[j] = 3 /\ j \in Holders(3) /\ j \in H1 /\ j \in H2
    BY DEF IndInv, HeldMatchesPc, Holders, HoldersOn
  <1>2. j \notin R /\ R \subseteq Holders(3)
    BY PoolRunningHold
  <1>3. \A i \in R : Key(i) # Key(j)
    BY <1>1, <1>2 DEF IndInv, LocksCounted
  <1>4. R \subseteq H1 \ {j} /\ RH \subseteq H2 \ {j}
    <2>5. held \in [Jobs -> 0..3]
      BY DEF IndInv, TypeOK
    <2>1. \A i \in Holders(3) : i \in Jobs /\ held[i] >= 1 /\ held[i] >= 2
      BY <2>5 DEF Holders
    <2>2. \A i \in RH : i \in R /\ HostOf[i] = HostOf[j]
      BY DEF Pool!RunningOn, Host
    <2>3. \A i \in R : i \in H1
      BY <1>2, <2>1 DEF Holders
    <2>4. \A i \in RH : i \in H2
      BY <1>2, <2>1, <2>2 DEF HoldersOn
    <2> HIDE DEF R, RH, H1, H2
    <2> QED
      BY <1>2, <2>2, <2>3, <2>4
  <1>5. IsFiniteSet(H1) /\ IsFiniteSet(H2)
    BY CountedFinite
  <1>6. /\ IsFiniteSet(H1 \ {j}) /\ Cardinality(H1 \ {j}) = Cardinality(H1) - 1
        /\ IsFiniteSet(H2 \ {j}) /\ Cardinality(H2 \ {j}) = Cardinality(H2) - 1
    BY <1>1, <1>5, FS_RemoveElement
  <1>7. /\ Cardinality(R) <= Cardinality(H1) - 1
        /\ Cardinality(RH) <= Cardinality(H2) - 1
    BY <1>4, <1>6, FS_Subset
  <1>8. Cardinality(R) \in Nat /\ Cardinality(RH) \in Nat
    BY <1>4, <1>6, FS_Subset, FS_CardinalityType
  <1>9. HostOf[j] \in Hosts
    BY DEF Hosts
  <1>10. Cardinality(H1) \in 0..Workers /\ Cardinality(H2) \in 0..HostLimit
    BY <1>9 DEF IndInv, TypeOK, SlotsCounted
  <1>11. Cardinality(R) < Workers /\ Cardinality(RH) < HostLimit
    BY <1>7, <1>8, <1>10, LimitsPositive
  <1> HIDE DEF R, RH
  <1> QED BY <1>3, <1>11 DEF R, RH

\* Every step of a submitter is an Accept, a Refuse or nothing.
LEMMA SubmitRefines ==
  ASSUME IndInv, NEW j \in Jobs, Submit(j)
  PROVE  Pool!Next \/ UNCHANGED Pool!vars
  <1>1. PICK to : /\ pc' = [pc EXCEPT ![j] = to]
                  /\ \/ pc[j] = "new" /\ to \in {"sending", "refused"}
                     \/ pc[j] = "sending" /\ to \in {"queued", "refused"}
    BY DEF Submit, SubmitCheck, SubmitSend, SubmitAbort, Goto
  <1>2. UNCHANGED <<outcome, stopPc>> /\ TypeOK
    BY DEF Submit, SubmitCheck, SubmitSend, SubmitAbort, IndInv
  <1>3. pc'[j] = to /\ JobStatus(j) = "new"
    BY <1>1, <1>2, StatusByPc DEF TypeOK
  <1>4. CASE to = "sending"
    BY <1>1, <1>2, <1>3, <1>4, StatusByPcPrime, JobMoves
  <1>5. CASE to = "queued"
    <2>1. Pool!Accept(j)
      BY <1>1, <1>2, <1>3, <1>5, StatusByPcPrime, JobMoves DEF Pool!Accept
    <2> QED BY <2>1 DEF Pool!Next
  <1>6. CASE to = "refused"
    <2>1. Pool!Refuse(j)
      BY <1>1, <1>2, <1>3, <1>6, StatusByPcPrime, JobMoves DEF Pool!Refuse
    <2> QED BY <2>1 DEF Pool!Next
  <1> QED BY <1>1, <1>4, <1>5, <1>6

\* RunBegin starts the job, OnComplete completes or skips it; every other
\* step of its goroutine is invisible.
LEMMA ExecuteRefines ==
  ASSUME IndInv, NEW j \in Jobs, Execute(j)
  PROVE  Pool!Next \/ UNCHANGED Pool!vars
  <1>1. TypeOK /\ UNCHANGED stopPc
    BY DEF IndInv, Execute, ExecuteBegin, AcquireGlobal, AcquireHost, GiveUp, AcquireLock,
           LockCancelled, RunBegin, RunReturn, OnComplete, Report, Unwind, JobExit
  <1>2. CASE \/ ExecuteBegin(j) \/ AcquireGlobal(j) \/ AcquireHost(j) \/ GiveUp(j)
             \/ AcquireLock(j) \/ LockCancelled(j) \/ (RunBegin(j) /\ Cancelled(j))
    <2>1. PICK to \in {"global", "host", "lock", "check", "finish"} :
             /\ pc' = [pc EXCEPT ![j] = to]
             /\ pc[j] \in {"spawned", "global", "host", "lock", "check"}
             /\ \/ to # "finish" /\ outcome' = outcome
                \/ \E res \in {"cancelled", "stopped"} : outcome' = [outcome EXCEPT ![j] = res]
      BY <1>2 DEF ExecuteBegin, AcquireGlobal, AcquireHost, GiveUp, AcquireLock,
                  LockCancelled, RunBegin, FinishWith, Goto
    <2>2. JobStatus(j) = "accepted"
      BY <2>1, StatusByPc
    <2>3. pc'[j] = to /\ (to = "finish" => outcome'[j] \notin {"ok", "failed"})
      BY <1>1, <2>1 DEF TypeOK
    <2>4. JobStatus(j)' = "accepted"
      BY <2>1, <2>3, StatusByPcPrime
    <2>5. \A i \in Jobs \ {j} : outcome'[i] = outcome[i]
      BY <1>1, <2>1 DEF TypeOK
    <2> QED BY <1>1, <2>1, <2>2, <2>4, <2>5, JobMoves
  <1>3. CASE RunBegin(j) /\ ~Cancelled(j)
    <2>1. pc[j] = "check" /\ pc' = [pc EXCEPT ![j] = "running"] /\ outcome' = outcome
      BY <1>3 DEF RunBegin, Goto
    <2>2. pc'[j] = "running"
      BY <1>1, <2>1 DEF TypeOK
    <2>3. Pool!Move(j, "accepted", "running")
      BY <1>1, <2>1, <2>2, StatusByPc, StatusByPcPrime, JobMoves
    <2>4. ~ResultsClosed
      BY <2>1, LiveNotClosed DEF LivePcs
    <2>5. Pool!Start(j)
      BY <2>1, <2>3, <2>4, StartAllowed, PoolCardinality DEF Pool!Start
    <2> QED BY <2>5 DEF Pool!Next
  <1>4. CASE RunReturn(j)
    <2>1. PICK res \in {"ok", "failed"} :
             /\ pc[j] = "running" /\ pc' = [pc EXCEPT ![j] = "finish"]
             /\ outcome' = [outcome EXCEPT ![j] = res]
      BY <1>4 DEF RunReturn, FinishWith, Goto
    <2>2. pc'[j] = "finish" /\ outcome'[j] = res /\ \A i \in Jobs \ {j} : outcome'[i] = outcome[i]
      BY <1>1, <2>1 DEF TypeOK
    <2>3. JobStatus(j) = "running" /\ JobStatus(j)' = "running"
      BY <2>1, <2>2, StatusByPc, StatusByPcPrime
    <2> QED BY <1>1, <2>1, <2>2, <2>3, JobMoves
  <1>5. CASE OnComplete(j)
    <2>1. pc[j] = "finish" /\ pc' = [pc EXCEPT ![j] = "report"] /\ outcome' = outcome
      BY <1>5 DEF OnComplete, Goto
    <2>2. pc'[j] = "report" /\ JobStatus(j)' = Final(outcome[j])
      BY <1>1, <2>1, StatusByPcPrime DEF TypeOK
    <2>3. ~ResultsClosed
      BY <2>1, LiveNotClosed DEF LivePcs
    <2>4. CASE outcome[j] \in {"ok", "failed"}
      <3>1. JobStatus(j) = "running" /\ JobStatus(j)' \in {"succeeded", "failed"}
        BY <2>1, <2>2, <2>4, StatusByPc DEF Final
      <3>2. Pool!Move(j, "running", JobStatus(j)')
        BY <1>1, <2>1, <3>1, JobMoves
      <3>3. Pool!Complete(j)
        BY <2>3, <3>1, <3>2 DEF Pool!Complete
      <3> QED BY <3>3 DEF Pool!Next
    <2>5. CASE outcome[j] \notin {"ok", "failed"}
      <3>1. JobStatus(j) = "accepted" /\ JobStatus(j)' = "skipped"
        BY <2>1, <2>2, <2>5, StatusByPc DEF Final
      <3>2. Pool!Skip(j)
        BY <1>1, <2>1, <2>3, <3>1, JobMoves DEF Pool!Skip
      <3> QED BY <3>2 DEF Pool!Next
    <2> QED BY <2>4, <2>5
  <1>6. CASE Report(j) \/ Unwind(j) \/ JobExit(j)
    <2>1. PICK to \in {"unwind", "done"} :
             /\ pc' = [pc EXCEPT ![j] = to]
             /\ pc[j] \in {"report", "unwind"} /\ outcome' = outcome
      BY <1>1, <1>6 DEF Report, Unwind, JobExit, Goto, TypeOK
    <2>2. JobStatus(j) = Final(outcome[j]) /\ JobStatus(j)' = Final(outcome[j])
      BY <1>1, <2>1, StatusByPc, StatusByPcPrime DEF TypeOK
    <2> QED BY <1>1, <2>1, <2>2, JobMoves
  <1> QED BY <1>2, <1>3, <1>4, <1>5, <1>6 DEF Execute

\* Stop announces itself, loses what is queued once nothing is live, and
\* closes the pool.
LEMMA StopRefines ==
  ASSUME IndInv, Stop
  PROVE  Pool!Next \/ UNCHANGED Pool!vars
  <1>1. CASE StopMark
    <2>1. UNCHANGED <<pc, outcome, ResultsClosed>> /\ ~StopFlag /\ StopFlag' = TRUE
      BY <1>1 DEF StopMark, StopStep, StopFlag, ResultsClosed
    <2>2. Pool!BeginStop
      BY <2>1 DEF Pool!BeginStop, JobStatus, StopFlag
    <2> QED BY <2>2 DEF Pool!Next
  <1>2. CASE StopClose \/ StopWait
    <2>1. UNCHANGED <<pc, outcome>> /\ {stopPc, stopPc'} \subseteq {"marked", "waiting", "draining"}
      BY <1>2 DEF StopClose, StopWait, StopStep
    <2>2. UNCHANGED <<StopFlag, ResultsClosed>>
      BY <2>1 DEF StopFlag, ResultsClosed
    <2>3. \A j \in Jobs : JobStatus(j)' = JobStatus(j)
      BY <2>1 DEF JobStatus
    <2> QED BY <2>2, <2>3 DEF Pool!vars
  <1>3. CASE StopDrain
    <2>1. PICK j \in Jobs :
             /\ pc[j] = "queued" /\ TypeOK
             /\ pc' = [pc EXCEPT ![j] = "dropped"] /\ UNCHANGED <<outcome, stopPc>>
             /\ stopPc = "draining"
      <3>1. Head(jobChannel) \in Jobs /\ pc[Head(jobChannel)] = "queued"
        BY <1>3 DEF StopDrain, StopStep, IndInv, TypeOK, QueueMatchesPc
      <3> QED BY <1>3, <3>1 DEF StopDrain, StopStep, IndInv
    <2>2. Live = {}
      BY <2>1, CountedFinite, FS_CardinalityType, FS_EmptySet
         DEF IndInv, StopOrder, GoroutinesCounted, TypeOK
    <2>3. Pool!RunningJobs = {}
      BY <2>2, PoolRunningHold DEF Live, LivePcs, Holders
    <2>4. JobStatus(j) = "accepted" /\ JobStatus(j)' = "lost"
      BY <2>1, StatusByPc, StatusByPcPrime DEF TypeOK
    <2>5. Pool!Lose(j)
      <3>1. Pool!Move(j, "accepted", "lost")
        BY <2>1, <2>4, JobMoves
      <3>2. StopFlag /\ ~ResultsClosed
        BY <2>1 DEF StopFlag, ResultsClosed
      <3> QED BY <2>3, <3>1, <3>2 DEF Pool!Lose
    <2> QED BY <2>1, <2>5 DEF Pool!Next
  <1>4. CASE StopFinish
    <2>1. UNCHANGED <<pc, outcome>> /\ stopPc = "draining" /\ stopPc' = "stopped"
      BY <1>4 DEF StopFinish, StopStep
    <2>2. Live = {}
      BY <2>1, CountedFinite, FS_CardinalityType, FS_EmptySet
         DEF IndInv, StopOrder, GoroutinesCounted, TypeOK
    <2>3. Pool!RunningJobs = {}
      BY <2>2, PoolRunningHold DEF Live, LivePcs, Holders
    <2>4. Pool!Close
      BY <2>1, <2>3 DEF Pool!Close, JobStatus, StopFlag, ResultsClosed
    <2> QED BY <2>4 DEF Pool!Next
  <1> QED BY <1>1, <1>2, <1>3, <1>4 DEF Stop

\* Dispatching and everything outside the runner's promise is invisible.
LEMMA QuietRefines ==
  ASSUME IndInv,
         \/ Dispatch \/ DispatchExit \/ DrainResults \/ (\E c \in Contexts : Cancel(c))
         \/ Terminated \/ UNCHANGED vars
  PROVE  UNCHANGED Pool!vars
  <1>1. CASE Dispatch
    <2>1. PICK j \in Jobs :
             /\ pc[j] = "queued" /\ TypeOK
             /\ pc' = [pc EXCEPT ![j] = "spawned"] /\ UNCHANGED <<outcome, stopPc>>
      <3>1. Head(jobChannel) \in Jobs /\ pc[Head(jobChannel)] = "queued"
        BY <1>1 DEF Dispatch, IndInv, TypeOK, QueueMatchesPc
      <3> QED BY <1>1, <3>1 DEF Dispatch, IndInv
    <2>2. JobStatus(j) = "accepted" /\ JobStatus(j)' = "accepted"
      BY <2>1, StatusByPc, StatusByPcPrime DEF TypeOK
    <2> QED BY <2>1, <2>2, JobMoves
  <1>2. CASE ~Dispatch
    <2>1. UNCHANGED <<pc, outcome, stopPc>>
      BY <1>2 DEF DispatchExit, DrainResults, Cancel, Terminated, vars
    <2> QED BY <2>1 DEF Pool!vars, JobStatus, StopFlag, ResultsClosed
  <1> QED BY <1>1, <1>2

\* The runner implements JobPool: whatever Submit, execute, finish and Stop
\* do concurrently, callers see exclusive runs within the limits, exactly
\* one completion per run or skipped job, losses only by stopping, and
\* nothing after Stop has returned.
THEOREM RunnerImplementsJobPool == Spec => ImplementsJobPool
  <1>1. Init => Pool!Init
    BY DEF Init, Pool!Init, JobStatus, StopFlag, ResultsClosed
  <1>2. IndInv /\ [Next]_vars => [Pool!Next]_(Pool!vars)
    BY SubmitRefines, ExecuteRefines, StopRefines, QuietRefines DEF Next
  <1> QED BY <1>1, <1>2, CountersExact, PTL DEF Spec, ImplementsJobPool, Pool!Spec
=============================================================================
