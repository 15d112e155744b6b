-------------------------- MODULE FileStoreProofs --------------------------
(***************************************************************************)
(* The store keeps its promises for any number of deployments, targets,    *)
(* failed writes and crashes.  IndInv of FileStore is inductive; each      *)
(* action's proof looks at the conjuncts it can disturb.  EntriesOwn is    *)
(* inductive beside it as long as no write fails.                          *)
(***************************************************************************)
EXTENDS FileStore, TLAPS

\* A deployment's target is one of the targets.
LEMMA TargetOfType == \A d \in Deployments : TargetOf[d] \in Targets
BY DEF Targets

LEMMA InitInv == Init => IndInv
<1> SUFFICES ASSUME Init PROVE IndInv
    OBVIOUS
<1> USE StoreAssumption, TargetOfType DEF Init, NoEntry
<1>1. TypeOK
    BY DEF TypeOK, Entries, Terminal, Ended
<1>2. IndexBacked /\ NoStaleRunning
    BY DEF IndexBacked, NoStaleRunning
<1>3. ActiveWhenUp /\ OneActive
    BY DEF ActiveWhenUp, OneActive, Active
<1>4. SaveUnderWay /\ RecordMatchesPc /\ MarkingOrder
    BY DEF SaveUnderWay, RecordMatchesPc, MarkingOrder
<1> QED
    BY <1>1, <1>2, <1>3, <1>4 DEF IndInv

\* One write at most fails in a step, within the bound.
LEMMA FaultsType ==
    ASSUME TypeOK, WriteFails
    PROVE  faults' \in 0..MaxFaults /\ crashes' \in 0..MaxCrashes /\ clean' \in BOOLEAN
<1>1. faults' \in 0..MaxFaults
    BY StoreAssumption DEF TypeOK, WriteFails
<1>2. crashes' \in 0..MaxCrashes /\ clean' = FALSE
    BY DEF TypeOK, WriteFails
<1> QED
    BY <1>1, <1>2

\* After a save the goroutine is where DeployTarget goes on.
LEMMA AfterSaveType ==
    ASSUME TypeOK, NEW d \in Deployments, AfterSave(d)
    PROVE  /\ pc' \in [Deployments -> {"new", "start", "deploying", "finish", "done", "dead"}]
           /\ pc'[d] = IF pc[d] = "start" THEN "deploying" ELSE "done"
           /\ \A e \in Deployments \ {d} : pc'[e] = pc[e]
BY DEF TypeOK, AfterSave

LEMMA StartDeploymentStep ==
    ASSUME IndInv, NEW d \in Deployments, StartDeployment(d) PROVE IndInv'
<1> USE DEF IndInv, StartDeployment, disk, budget
<1>1. TypeOK'
    BY DEF TypeOK
<1>2. /\ pc'[d] = "start" /\ pc[d] = "new"
      /\ \A e \in Deployments \ {d} : pc'[e] = pc[e] /\ status'[e] = status[e]
      /\ status'[d] = "running"
    BY DEF TypeOK
<1> HIDE DEF StartDeployment
<1>3. UNCHANGED <<runs, index, op, stale, phase, clean>> /\ phase = "up" /\ TargetIdle(TargetOf[d])
    BY DEF StartDeployment
<1>4. \A e \in Deployments : Active(e) => Active(e)'
    BY <1>2 DEF Active
<1>5. IndexBacked' /\ MarkingOrder'
    BY <1>3 DEF IndexBacked, MarkingOrder
<1>6. NoStaleRunning'
    BY <1>3, <1>4 DEF NoStaleRunning, TypeOK, Entries, NoEntry, Terminal
<1>7. ActiveWhenUp' /\ OneActive'
    BY <1>2, <1>3 DEF ActiveWhenUp, OneActive, Active, TargetIdle
<1>8. SaveUnderWay'
    BY <1>2, <1>3 DEF SaveUnderWay, TypeOK
<1>9. RecordMatchesPc'
    BY <1>2, <1>3, <1>8, StoreAssumption DEF RecordMatchesPc, SaveUnderWay
<1> QED
    BY <1>1, <1>5, <1>6, <1>7, <1>8, <1>9

LEMMA FinishDeploymentStep ==
    ASSUME IndInv, NEW d \in Deployments, FinishDeployment(d) PROVE IndInv'
<1> USE DEF IndInv, FinishDeployment, disk, budget
<1>1. TypeOK'
    BY DEF TypeOK, Terminal
<1>2. /\ pc'[d] = "finish" /\ pc[d] = "deploying"
      /\ \A e \in Deployments \ {d} : pc'[e] = pc[e] /\ status'[e] = status[e]
      /\ status'[d] \in Terminal
    BY DEF TypeOK
<1> HIDE DEF FinishDeployment
<1>3. UNCHANGED <<runs, index, op, stale, phase, clean>>
    BY DEF FinishDeployment
<1>4. \A e \in Deployments : Active(e)' <=> Active(e)
    BY <1>2 DEF Active
<1>5. IndexBacked' /\ MarkingOrder'
    BY <1>3 DEF IndexBacked, MarkingOrder
<1>6. NoStaleRunning'
    BY <1>3, <1>4 DEF NoStaleRunning, TypeOK, Entries, NoEntry, Terminal
<1>7. ActiveWhenUp' /\ OneActive'
    BY <1>3, <1>4 DEF ActiveWhenUp, OneActive
<1>8. SaveUnderWay'
    BY <1>2, <1>3 DEF SaveUnderWay, TypeOK
<1>9. RecordMatchesPc'
    BY <1>2, <1>3 DEF RecordMatchesPc
<1> QED
    BY <1>1, <1>5, <1>6, <1>7, <1>8, <1>9

\* The run file is written, or the write fails and DeployTarget goes on.
LEMMA SaveDeploymentStep ==
    ASSUME IndInv, NEW d \in Deployments, SaveDeployment(d) PROVE IndInv'
<1> USE DEF IndInv
<1>1. CASE runs' = [runs EXCEPT ![d] = status[d]] /\ op' = d /\ UNCHANGED <<pc, clean, budget>>
    <2>1. UNCHANGED <<index, started, status, stale, phase, pc, clean, faults, crashes>>
          /\ pc[d] \in {"start", "finish"}
        BY <1>1, SaveDeployment(d) DEF SaveDeployment, budget
    <2>2. /\ runs'[d] = status[d]
          /\ \A e \in Deployments \ {d} : runs'[e] = runs[e]
        BY <1>1 DEF TypeOK
    <2>3. TypeOK'
        BY <1>1, <2>1 DEF TypeOK, Ended
    <2>4. IndexBacked'
        BY <2>1, <2>2 DEF IndexBacked, RecordMatchesPc, TypeOK, Entries, NoEntry
    <2>5. NoStaleRunning' /\ ActiveWhenUp' /\ OneActive'
        BY <2>1 DEF NoStaleRunning, ActiveWhenUp, OneActive, Active
    <2>6. SaveUnderWay'
        BY <1>1, <2>1, <2>2 DEF SaveUnderWay
    <2>7. RecordMatchesPc'
        BY <1>1, <2>1, <2>2, StoreAssumption, SaveDeployment(d) DEF SaveDeployment, Unlocked, RecordMatchesPc
    <2>8. MarkingOrder'
        BY <2>1 DEF MarkingOrder, ActiveWhenUp, Active
    <2> QED
        BY <2>3, <2>4, <2>5, <2>6, <2>7, <2>8
<1>2. CASE WriteFails /\ AfterSave(d) /\ UNCHANGED <<runs, op>>
    <2>1. UNCHANGED <<runs, index, started, status, stale, phase, op>>
          /\ pc[d] \in {"start", "finish"} /\ op = NoDeployment /\ ~clean'
        BY <1>2, SaveDeployment(d) DEF SaveDeployment, WriteFails, Unlocked
    <2>2. TypeOK'
        BY <1>2, <2>1, FaultsType, AfterSaveType DEF TypeOK
    <2>3. IndexBacked' /\ NoStaleRunning' /\ SaveUnderWay' /\ MarkingOrder'
        BY <2>1 DEF IndexBacked, NoStaleRunning, SaveUnderWay, MarkingOrder
    <2>4. ActiveWhenUp' /\ OneActive'
        BY <1>2, <2>1, AfterSaveType DEF ActiveWhenUp, OneActive, Active
    <2>5. RecordMatchesPc'
        BY <1>2, <2>1, AfterSaveType DEF RecordMatchesPc
    <2> QED
        BY <2>2, <2>3, <2>4, <2>5
<1> QED
    BY <1>1, <1>2 DEF SaveDeployment

\* The index is written: the entry is the deployment's own, or an older one.
LEMMA UpdateIndexStep ==
    ASSUME IndInv, NEW d \in Deployments, updateProjectsIndex(d) PROVE IndInv'
<1> USE TargetOfType DEF IndInv
<1>1. /\ UNCHANGED <<runs, started, status, stale, phase>>
      /\ op = d /\ op' = NoDeployment /\ AfterSave(d)
      /\ pc[d] \in {"start", "finish"} /\ runs[d] = status[d]
      /\ phase = "up" /\ op # NoDeployment
    BY StoreAssumption DEF updateProjectsIndex, SaveUnderWay, ActiveWhenUp, Active
<1>2. status[d] \in {"running"} \cup Terminal /\ (pc[d] = "start" => status[d] = "running")
      /\ (pc[d] = "finish" => status[d] \in Terminal)
    BY <1>1 DEF RecordMatchesPc
<1>3. SaveUnderWay' /\ MarkingOrder'
    BY <1>1 DEF SaveUnderWay, MarkingOrder
<1>4. ActiveWhenUp' /\ OneActive'
    BY <1>1, AfterSaveType DEF ActiveWhenUp, OneActive, Active
<1>5. CASE index' = [index EXCEPT ![TargetOf[d]] = [id |-> d, status |-> status[d]]]
           /\ (UNCHANGED <<clean, budget>> \/ WriteFails)
    <2>1. /\ index'[TargetOf[d]] = [id |-> d, status |-> status[d]]
          /\ \A t \in Targets \ {TargetOf[d]} : index'[t] = index[t]
        BY <1>5 DEF TypeOK
    <2>2. index' \in [Targets -> Entries]
        BY <1>2, <1>5 DEF TypeOK, Entries
    <2>3. TypeOK'
        BY <1>1, <1>5, <2>2, FaultsType, AfterSaveType DEF TypeOK, budget
    <2>4. IndexBacked'
        BY <1>1, <1>2, <2>1 DEF IndexBacked
    <2>5. NoStaleRunning'
        <3>1. ASSUME NEW t \in Targets, clean', index'[t].status = "running"
              PROVE  Active(index[t].id)'
            <4>1. CASE t = TargetOf[d]
                BY <1>1, <1>2, <2>1, <3>1, <4>1, AfterSaveType DEF Active, Terminal
            <4>2. CASE t # TargetOf[d]
                <5>1. index'[t] = index[t] /\ clean
                    BY <1>5, <2>1, <3>1, <4>2 DEF WriteFails
                <5>2. index[t].id \in Deployments /\ Active(index[t].id) /\ TargetOf[index[t].id] = t
                    BY <1>1, <3>1, <5>1 DEF NoStaleRunning, IndexBacked, TypeOK, Entries, NoEntry
                <5> QED
                    BY <1>1, <4>2, <5>1, <5>2, AfterSaveType DEF Active
            <4> QED
                BY <4>1, <4>2
        <3> QED
            BY <3>1 DEF NoStaleRunning
    <2>6. RecordMatchesPc'
        BY <1>1, <1>2, <2>1, AfterSaveType, StoreAssumption DEF RecordMatchesPc
    <2> QED
        BY <1>3, <1>4, <2>3, <2>4, <2>5, <2>6
<1>6. CASE UNCHANGED index /\ (UNCHANGED <<clean, budget>> \/ WriteFails)
           /\ (~clean' \/ ~Supersedes(d))
    <2>1. TypeOK'
        BY <1>1, <1>6, FaultsType, AfterSaveType DEF TypeOK, budget
    <2>2. IndexBacked'
        BY <1>1, <1>6 DEF IndexBacked
    <2>3. index[TargetOf[d]].id = d => Supersedes(d)
        BY DEF Supersedes
    <2>4. NoStaleRunning'
        <3>1. ASSUME NEW t \in Targets, clean', index'[t].status = "running"
              PROVE  Active(index[t].id)'
            <4>1. clean /\ index'[t] = index[t] /\ ~Supersedes(d)
                BY <1>6, <3>1 DEF WriteFails
            <4>2. index[t].id \in Deployments /\ Active(index[t].id) /\ TargetOf[index[t].id] = t
                BY <1>1, <3>1, <4>1 DEF NoStaleRunning, IndexBacked, TypeOK, Entries, NoEntry
            <4>3. index[t].id # d
                BY <2>3, <4>1, <4>2
            <4> QED
                BY <1>1, <4>1, <4>2, <4>3, AfterSaveType DEF Active
        <3> QED
            BY <3>1 DEF NoStaleRunning
    <2>5. RecordMatchesPc'
        BY <1>1, <1>6, AfterSaveType, StoreAssumption DEF RecordMatchesPc
    <2> QED
        BY <1>3, <1>4, <2>1, <2>2, <2>4, <2>5
<1> QED
    BY <1>5, <1>6 DEF updateProjectsIndex, WriteFails

LEMMA DeleteLatestStep ==
    ASSUME IndInv, NEW t \in Targets, DeleteLatestDeployment(t) PROVE IndInv'
<1> USE TargetOfType DEF IndInv
<1>1. UNCHANGED <<runs, started, pc, status, op, stale, phase>> /\ phase = "up" /\ TargetIdle(t)
    BY DEF DeleteLatestDeployment, memory
<1>2. /\ \A u \in Targets : index'[u] = index[u] \/ index'[u] = NoEntry
      /\ index' \in [Targets -> Entries]
    BY DEF DeleteLatestDeployment, TypeOK, Entries
<1>3. clean' => clean
    BY DEF DeleteLatestDeployment, WriteFails
<1>4. TypeOK'
    <2>1. faults' \in 0..MaxFaults /\ crashes' \in 0..MaxCrashes /\ clean' \in BOOLEAN
        BY FaultsType DEF DeleteLatestDeployment, TypeOK, budget
    <2> QED
        BY <1>1, <1>2, <2>1 DEF TypeOK
<1>5. IndexBacked'
    BY <1>1, <1>2 DEF IndexBacked
<1>6. NoStaleRunning'
    BY <1>1, <1>2, <1>3 DEF NoStaleRunning, NoEntry, Active
<1>7. ActiveWhenUp' /\ OneActive' /\ SaveUnderWay' /\ MarkingOrder'
    BY <1>1 DEF ActiveWhenUp, OneActive, SaveUnderWay, MarkingOrder, Active
<1>8. RecordMatchesPc'
    BY <1>1, <1>2, StoreAssumption DEF RecordMatchesPc, NoEntry
<1> QED
    BY <1>4, <1>5, <1>6, <1>7, <1>8

LEMMA MarkRunFailedStep ==
    ASSUME IndInv, NEW t \in Targets, MarkRunFailed(t) PROVE IndInv'
<1> USE DEF IndInv
<1>1. /\ UNCHANGED <<index, started, pc, status, op, phase, clean, faults, crashes>>
      /\ phase = "mark" /\ t \in stale /\ stale' = stale \ {t}
      /\ index[t].status = "running" /\ index[t].id \in Deployments
      /\ TargetOf[index[t].id] = t
    BY DEF MarkRunFailed, memory, budget, MarkingOrder, IndexBacked, TypeOK, Entries, NoEntry
<1>2. /\ runs'[index[t].id] = "failed"
      /\ \A e \in Deployments \ {index[t].id} : runs'[e] = runs[e]
      /\ runs' \in [Deployments -> {"none", "running"} \cup Ended]
    BY <1>1 DEF MarkRunFailed, TypeOK, Terminal, Ended
<1>3. TypeOK'
    BY <1>1, <1>2 DEF TypeOK
<1>4. IndexBacked'
    BY <1>1, <1>2 DEF IndexBacked, TypeOK, Entries, NoEntry, Terminal
<1>5. NoStaleRunning' /\ ActiveWhenUp' /\ OneActive'
    BY <1>1 DEF NoStaleRunning, ActiveWhenUp, OneActive, Active
<1>6. \A e \in Deployments : ~Active(e)
    BY <1>1 DEF ActiveWhenUp
<1>7. SaveUnderWay'
    BY <1>1, <1>6 DEF SaveUnderWay, Active, TypeOK
<1>8. RecordMatchesPc'
    BY <1>1, <1>2, <1>6 DEF RecordMatchesPc, Active
<1>9. MarkingOrder'
    BY <1>1, <1>2 DEF MarkingOrder, IndexBacked, TypeOK, Entries, NoEntry
<1> QED
    BY <1>3, <1>4, <1>5, <1>7, <1>8, <1>9

\* The sweep only removes files; no invariant asks for one that is old.
LEMMA CleanStep ==
    ASSUME IndInv, NEW d \in Deployments, cleanDir(d) PROVE IndInv'
<1> USE DEF IndInv
<1>1. /\ UNCHANGED <<index, started, pc, status, op, stale, phase, clean, faults, crashes>>
      /\ phase = "up" /\ op # d /\ runs[d] \in {"running"} \cup Terminal
    BY DEF cleanDir, memory, budget
<1>2. /\ runs'[d] = "expired"
      /\ \A e \in Deployments \ {d} : runs'[e] = runs[e]
      /\ runs' \in [Deployments -> {"none", "running"} \cup Ended]
    BY DEF cleanDir, TypeOK, Ended
<1>3. TypeOK'
    BY <1>1, <1>2 DEF TypeOK
<1>4. IndexBacked'
    BY <1>1, <1>2 DEF IndexBacked, TypeOK, Entries, NoEntry
<1>5. NoStaleRunning' /\ ActiveWhenUp' /\ OneActive' /\ MarkingOrder'
    BY <1>1 DEF NoStaleRunning, ActiveWhenUp, OneActive, Active, MarkingOrder
<1>6. SaveUnderWay'
    BY <1>1, <1>2 DEF SaveUnderWay, TypeOK
<1>7. RecordMatchesPc'
    BY <1>1, <1>2 DEF RecordMatchesPc, Terminal
<1> QED
    BY <1>3, <1>4, <1>5, <1>6, <1>7

LEMMA CrashStep == ASSUME IndInv, Crash PROVE IndInv'
<1> USE DEF IndInv
<1>1. /\ UNCHANGED <<runs, index, started, status, clean, faults>>
      /\ phase' = "down" /\ op' = NoDeployment /\ stale' = {}
    BY DEF Crash, disk
<1>2. /\ \A e \in Deployments : pc'[e] = IF Active(e) THEN "dead" ELSE pc[e]
      /\ pc' \in [Deployments -> {"new", "start", "deploying", "finish", "done", "dead"}]
    BY DEF Crash, TypeOK
<1>3. \A e \in Deployments : ~Active(e)'
    BY <1>2 DEF Active
<1>4. TypeOK'
    <2>1. crashes' \in 0..MaxCrashes
        BY StoreAssumption DEF Crash, TypeOK
    <2> QED
        BY <1>1, <1>2, <2>1 DEF TypeOK
<1>5. IndexBacked' /\ NoStaleRunning' /\ SaveUnderWay' /\ MarkingOrder'
    BY <1>1 DEF IndexBacked, NoStaleRunning, SaveUnderWay, MarkingOrder
<1>6. ActiveWhenUp' /\ OneActive'
    BY <1>3 DEF ActiveWhenUp, OneActive
<1>7. RecordMatchesPc'
    BY <1>1, <1>2 DEF RecordMatchesPc, Active
<1> QED
    BY <1>4, <1>5, <1>6, <1>7

LEMMA RestartStep == ASSUME IndInv, Restart PROVE IndInv'
<1> USE DEF IndInv
<1>1. /\ UNCHANGED <<runs, index, started, pc, status, op, clean, faults, crashes>>
      /\ phase = "down" /\ phase' = "mark"
      /\ stale' = {t \in Targets : index[t].status = "running"}
    BY DEF Restart, disk, memory, budget
<1>2. TypeOK'
    BY <1>1 DEF TypeOK
<1>3. IndexBacked' /\ NoStaleRunning' /\ SaveUnderWay' /\ MarkingOrder' /\ RecordMatchesPc'
    BY <1>1 DEF IndexBacked, NoStaleRunning, SaveUnderWay, MarkingOrder, RecordMatchesPc
<1>4. ActiveWhenUp' /\ OneActive'
    BY <1>1 DEF ActiveWhenUp, OneActive, Active
<1> QED
    BY <1>2, <1>3, <1>4

\* The index is rewritten when every run file is, or startup goes on with an
\* error and the stale entries.
LEMMA MarkStaleStep == ASSUME IndInv, MarkStaleRunningDeploymentsFailed PROVE IndInv'
<1> USE TargetOfType DEF IndInv
<1>1. /\ UNCHANGED <<runs, started, pc, status, op>>
      /\ phase = "mark" /\ phase' = "up" /\ stale' = {}
    BY DEF MarkStaleRunningDeploymentsFailed, memory
<1>2. \A e \in Deployments : ~Active(e) /\ ~Active(e)'
    BY <1>1 DEF ActiveWhenUp, Active
<1>3. ActiveWhenUp' /\ OneActive' /\ SaveUnderWay' /\ MarkingOrder'
    BY <1>1, <1>2 DEF ActiveWhenUp, OneActive, SaveUnderWay, MarkingOrder
<1>4. CASE stale = {} /\ index' = MarkedIndex /\ clean' = TRUE /\ UNCHANGED budget
    <2>1. ASSUME NEW t \in Targets
          PROVE  \/ index[t].status # "running" /\ index'[t] = index[t]
                 \/ /\ index[t].status = "running" /\ index'[t].id = index[t].id
                    /\ index'[t].status = "failed" /\ runs[index[t].id] = "failed"
                    /\ index'[t] \in Entries
        BY <1>1, <1>4, <2>1 DEF MarkedIndex, MarkingOrder, TypeOK, Entries, NoEntry, Terminal
    <2>2. index' \in [Targets -> Entries]
        BY <1>4, <2>1 DEF TypeOK, MarkedIndex
    <2>3. TypeOK'
        BY <1>1, <1>4, <2>2 DEF TypeOK, budget
    <2>4. IndexBacked'
        BY <1>1, <2>1 DEF IndexBacked, NoEntry
    <2>5. NoStaleRunning'
        BY <2>1 DEF NoStaleRunning
    <2>6. RecordMatchesPc'
        BY <1>1, <1>2, <2>1 DEF RecordMatchesPc, Active
    <2> QED
        BY <1>3, <2>3, <2>4, <2>5, <2>6
<1>5. CASE WriteFails /\ UNCHANGED index
    <2>1. TypeOK'
        BY <1>1, <1>5, FaultsType DEF TypeOK
    <2>2. IndexBacked' /\ NoStaleRunning' /\ RecordMatchesPc'
        BY <1>1, <1>5 DEF IndexBacked, NoStaleRunning, RecordMatchesPc, WriteFails
    <2> QED
        BY <1>3, <2>1, <2>2
<1> QED
    BY <1>4, <1>5 DEF MarkStaleRunningDeploymentsFailed

LEMMA StutterStep == ASSUME IndInv, UNCHANGED vars PROVE IndInv'
<1> USE DEF IndInv, vars, disk, memory, budget
<1>1. TypeOK' /\ IndexBacked' /\ SaveUnderWay' /\ MarkingOrder' /\ RecordMatchesPc'
    BY DEF TypeOK, IndexBacked, SaveUnderWay, MarkingOrder, RecordMatchesPc
<1>2. NoStaleRunning' /\ ActiveWhenUp' /\ OneActive'
    BY DEF NoStaleRunning, ActiveWhenUp, OneActive, Active
<1> QED
    BY <1>1, <1>2

\* The inductive invariant holds in every reachable state.
THEOREM StoreInvariant == Spec => []IndInv
<1>1. ASSUME IndInv, [Next]_vars PROVE IndInv'
    BY <1>1, StartDeploymentStep, FinishDeploymentStep, SaveDeploymentStep, UpdateIndexStep,
       DeleteLatestStep, CleanStep, MarkRunFailedStep, CrashStep, RestartStep, MarkStaleStep, StutterStep
       DEF Next
<1> QED
    BY <1>1, InitInv, PTL DEF Spec

\* Whatever crashes and failed writes happen, every index entry has its run
\* file until that is swept, and never a result the run file does not have.
THEOREM IndexAlwaysBacked == Spec => []IndexBacked
<1>1. IndInv => IndexBacked
    BY DEF IndInv
<1> QED
    BY <1>1, StoreInvariant, PTL

\* After a startup whose marking succeeded, and as long as no write fails,
\* "running" in the index means a running deployment.
THEOREM NoEntryStaysRunning == Spec => []NoStaleRunning
<1>1. IndInv => NoStaleRunning
    BY DEF IndInv
<1> QED
    BY <1>1, StoreInvariant, PTL

\* No step turns the run file of an ended run, or a swept one, back into
\* "running".
THEOREM RunsStayEnded == Spec => RunsNeverReopen
<1> DEFINE Kept == \A d \in Deployments : runs[d] \in Ended => runs'[d] \in Ended
<1>1. ASSUME IndInv, [Next]_vars PROVE [Kept]_vars
    <2>1. ASSUME NEW e \in Deployments, SaveDeployment(e) PROVE Kept
        <3>1. runs[e] \in Ended => status[e] \in Terminal
            BY <1>1, <2>1, StoreAssumption
               DEF SaveDeployment, Unlocked, IndInv, RecordMatchesPc, Terminal, Ended
        <3> QED
            BY <1>1, <2>1, <3>1 DEF SaveDeployment, IndInv, TypeOK, Ended
    <2>2. ASSUME NEW t \in Targets, MarkRunFailed(t) PROVE Kept
        BY <1>1, <2>2 DEF MarkRunFailed, IndInv, TypeOK, Terminal, Ended
    <2>3. ASSUME NEW e \in Deployments, cleanDir(e) PROVE Kept
        BY <1>1, <2>3 DEF cleanDir, IndInv, TypeOK, Ended
    <2>4. CASE UNCHANGED runs
        BY <2>4
    <2> QED
        BY <1>1, <2>1, <2>2, <2>3, <2>4 DEF Next, StartDeployment, FinishDeployment,
           updateProjectsIndex, DeleteLatestDeployment, Crash, Restart,
           MarkStaleRunningDeploymentsFailed, disk
<1> QED
    BY <1>1, StoreInvariant, PTL DEF Spec, RunsNeverReopen

-----------------------------------------------------------------------------
(* The index shows the latest deployment while no write fails.             *)

Youngest(d) ==
    \A e \in Deployments : TargetOf[e] = TargetOf[d] => started[e] <= started[d]

\* From the first save on, until the last, the entry is the youngest
\* deployment's own; a finished deployment is shown with its result.
EntriesOwn ==
    \A d \in Deployments : LET entry == index[TargetOf[d]] IN
        /\ pc[d] \in {"deploying", "finish"} /\ Youngest(d) => entry = [id |-> d, status |-> "running"]
        /\ pc[d] = "done" => status[d] \in Terminal /\ (entry.id = d => entry.status = status[d])

FaultFree == faults = 0 => EntriesOwn

\* Without a failed write the bound of faults is not touched.
LEMMA NoFaultBefore ==
    ASSUME IndInv, Next, faults' = 0
    PROVE  faults = 0 /\ ~WriteFails
<1>1. faults \in Nat
    BY StoreAssumption DEF IndInv, TypeOK
<1>2. ~WriteFails
    BY <1>1 DEF WriteFails
<1>3. UNCHANGED faults
    BY <1>2 DEF Next, StartDeployment, FinishDeployment, SaveDeployment, updateProjectsIndex, cleanDir,
       DeleteLatestDeployment, MarkRunFailed, Crash, Restart, MarkStaleRunningDeploymentsFailed, budget
<1> QED
    BY <1>2, <1>3

\* A start is the only step that changes a start time, on an idle target.
LEMMA StartOwn ==
    ASSUME IndInv, EntriesOwn, NEW d \in Deployments, StartDeployment(d)
    PROVE  EntriesOwn'
<1>1. /\ pc'[d] = "start" /\ UNCHANGED index /\ TargetIdle(TargetOf[d])
      /\ \A e \in Deployments \ {d} : pc'[e] = pc[e] /\ status'[e] = status[e] /\ started'[e] = started[e]
    BY DEF StartDeployment, IndInv, TypeOK, disk
<1>2. ASSUME NEW e \in Deployments, pc'[e] \in {"deploying", "finish"}, Youngest(e)'
      PROVE  index[TargetOf[e]] = [id |-> e, status |-> "running"]
    <2>1. e # d /\ pc[e] = pc'[e] /\ Active(e)
        BY <1>1, <1>2 DEF Active
    <2>2. TargetOf[e] # TargetOf[d]
        BY <1>1, <2>1 DEF TargetIdle
    <2>3. Youngest(e)
        BY <1>1, <1>2, <2>1, <2>2 DEF Youngest
    <2> QED
        BY <1>2, <2>1, <2>3 DEF EntriesOwn
<1>3. ASSUME NEW e \in Deployments, pc'[e] = "done"
      PROVE  status'[e] \in Terminal /\ (index[TargetOf[e]].id = e => index[TargetOf[e]].status = status'[e])
    BY <1>1, <1>3 DEF EntriesOwn
<1> QED
    BY <1>1, <1>2, <1>3 DEF EntriesOwn

LEMMA FinishOwn ==
    ASSUME IndInv, EntriesOwn, NEW d \in Deployments, FinishDeployment(d)
    PROVE  EntriesOwn'
<1>1. /\ pc[d] = "deploying" /\ pc'[d] = "finish" /\ UNCHANGED <<index, started>>
      /\ \A e \in Deployments \ {d} : pc'[e] = pc[e] /\ status'[e] = status[e]
    BY DEF FinishDeployment, IndInv, TypeOK, disk
<1>2. \A e \in Deployments : Youngest(e)' <=> Youngest(e)
    BY <1>1 DEF Youngest
<1> QED
    BY <1>1, <1>2 DEF EntriesOwn

\* The first save of the youngest deployment takes the entry over; the last
\* one writes the result into its own entry.
LEMMA UpdateOwn ==
    ASSUME IndInv, EntriesOwn, NEW d \in Deployments, updateProjectsIndex(d), ~WriteFails
    PROVE  EntriesOwn'
<1> USE TargetOfType DEF IndInv
<1>1. /\ op = d /\ UNCHANGED <<started, status>> /\ AfterSave(d)
      /\ index' = IF Supersedes(d)
                  THEN [index EXCEPT ![TargetOf[d]] = [id |-> d, status |-> status[d]]] ELSE index
      /\ pc[d] \in {"start", "finish"}
    BY StoreAssumption DEF updateProjectsIndex, SaveUnderWay
<1>2. /\ pc'[d] = IF pc[d] = "start" THEN "deploying" ELSE "done"
      /\ \A e \in Deployments \ {d} : pc'[e] = pc[e]
    BY <1>1, AfterSaveType
<1>3. (pc[d] = "start" => status[d] = "running") /\ (pc[d] = "finish" => status[d] \in Terminal)
    BY <1>1 DEF RecordMatchesPc
<1>4. /\ \A t \in Targets \ {TargetOf[d]} : index'[t] = index[t]
      /\ Supersedes(d) => index'[TargetOf[d]] = [id |-> d, status |-> status[d]]
      /\ ~Supersedes(d) => index'[TargetOf[d]] = index[TargetOf[d]]
    BY <1>1 DEF TypeOK
<1>5. \A e \in Deployments : Youngest(e)' <=> Youngest(e)
    BY <1>1 DEF Youngest
<1>6. Active(d)
    BY <1>1 DEF Active
<1>7. Youngest(d) => Supersedes(d)
    <2>1. SUFFICES ASSUME Youngest(d), NEW e \in Deployments, index[TargetOf[d]].id = e
                   PROVE  started[d] >= started[e]
        BY DEF Supersedes
    <2>2. index[TargetOf[d]] # NoEntry
        BY <2>1, StoreAssumption DEF NoEntry
    <2>3. TargetOf[e] = TargetOf[d]
        BY <2>1, <2>2 DEF IndexBacked
    <2>4. started[d] \in Nat /\ started[e] \in Nat /\ started[e] <= started[d]
        BY <2>1, <2>3, StoreAssumption DEF Youngest, TypeOK
    <2> QED
        BY <2>4
<1>8. index[TargetOf[d]].id = d => Supersedes(d)
    BY DEF Supersedes
<1>9. ASSUME NEW e \in Deployments, pc'[e] \in {"deploying", "finish"}, Youngest(e)'
      PROVE  index'[TargetOf[e]] = [id |-> e, status |-> "running"]
    <2>1. CASE e = d
        BY <1>2, <1>3, <1>4, <1>5, <1>7, <1>9, <2>1, <1>1
    <2>2. CASE e # d
        <3>1. pc[e] = pc'[e] /\ Active(e)
            BY <1>2, <1>9, <2>2 DEF Active
        <3>2. TargetOf[e] # TargetOf[d]
            BY <1>6, <2>2, <3>1 DEF OneActive
        <3> QED
            BY <1>4, <1>5, <1>9, <3>1, <3>2 DEF EntriesOwn
    <2> QED
        BY <2>1, <2>2
<1>10. ASSUME NEW e \in Deployments, pc'[e] = "done"
       PROVE  status[e] \in Terminal /\ (index'[TargetOf[e]].id = e => index'[TargetOf[e]].status = status[e])
    <2>1. CASE e = d
        BY <1>1, <1>2, <1>3, <1>4, <1>8, <1>10, <2>1
    <2>2. CASE e # d
        <3>1. pc[e] = "done"
            BY <1>2, <1>10, <2>2
        <3>2. status[e] \in Terminal /\ (index[TargetOf[e]].id = e => index[TargetOf[e]].status = status[e])
            BY <3>1 DEF EntriesOwn
        <3>3. index'[TargetOf[e]] = index[TargetOf[e]] \/ index'[TargetOf[e]].id = d
            BY <1>4
        <3> QED
            BY <2>2, <3>2, <3>3
    <2> QED
        BY <2>1, <2>2
<1> QED
    BY <1>1, <1>9, <1>10 DEF EntriesOwn

LEMMA DeleteOwn ==
    ASSUME IndInv, EntriesOwn, NEW t \in Targets, DeleteLatestDeployment(t), ~WriteFails
    PROVE  EntriesOwn'
<1> USE TargetOfType, StoreAssumption DEF IndInv
<1>1. /\ UNCHANGED <<started, pc, status>> /\ TargetIdle(t)
      /\ index' = [index EXCEPT ![t] = NoEntry]
    BY DEF DeleteLatestDeployment, memory
<1>2. /\ \A u \in Targets \ {t} : index'[u] = index[u]
      /\ index'[t].id = NoDeployment
    BY <1>1 DEF TypeOK, NoEntry
<1>3. \A e \in Deployments : Youngest(e)' <=> Youngest(e)
    BY <1>1 DEF Youngest
<1>4. \A e \in Deployments : pc[e] \in {"deploying", "finish"} => TargetOf[e] # t
    BY <1>1 DEF TargetIdle, Active
<1>5. ASSUME NEW e \in Deployments, pc[e] \in {"deploying", "finish"}, Youngest(e)
      PROVE  index'[TargetOf[e]] = [id |-> e, status |-> "running"]
    BY <1>2, <1>4, <1>5 DEF EntriesOwn
<1>6. ASSUME NEW e \in Deployments, pc[e] = "done"
      PROVE  status[e] \in Terminal /\ (index'[TargetOf[e]].id = e => index'[TargetOf[e]].status = status[e])
    <2>1. index'[TargetOf[e]] = index[TargetOf[e]] \/ index'[TargetOf[e]].id # e
        BY <1>2
    <2> QED
        BY <1>6, <2>1 DEF EntriesOwn
<1> QED
    BY <1>1, <1>3, <1>5, <1>6 DEF EntriesOwn

\* Startup marks entries of deployments that died, never a finished one.
LEMMA MarkOwn ==
    ASSUME IndInv, EntriesOwn, MarkStaleRunningDeploymentsFailed, ~WriteFails
    PROVE  EntriesOwn'
<1> USE TargetOfType DEF IndInv
<1>1. UNCHANGED <<started, pc, status>> /\ phase = "mark" /\ index' = MarkedIndex
    BY DEF MarkStaleRunningDeploymentsFailed, memory
<1>2. \A e \in Deployments : pc[e] \notin {"deploying", "finish"}
    BY <1>1 DEF ActiveWhenUp, Active
<1>3. \A t \in Targets : /\ index[t].status # "running" => index'[t] = index[t]
                         /\ index'[t].id = index[t].id
    BY <1>1 DEF MarkedIndex, TypeOK, Entries, NoEntry
<1>4. ASSUME NEW e \in Deployments, pc[e] = "done"
      PROVE  status[e] \in Terminal /\ (index'[TargetOf[e]].id = e => index'[TargetOf[e]].status = status[e])
    BY <1>3, <1>4 DEF EntriesOwn, Terminal
<1> QED
    BY <1>1, <1>2, <1>4 DEF EntriesOwn

LEMMA NextOwn ==
    ASSUME IndInv, EntriesOwn, Next, ~WriteFails
    PROVE  EntriesOwn'
<1>1. ASSUME UNCHANGED <<index, started, pc, status>> PROVE EntriesOwn'
    BY <1>1 DEF EntriesOwn, Youngest
<1>2. ASSUME NEW d \in Deployments, SaveDeployment(d) \/ cleanDir(d) PROVE EntriesOwn'
    BY <1>1, <1>2 DEF SaveDeployment, cleanDir, memory
<1>3. ASSUME NEW t \in Targets, MarkRunFailed(t) PROVE EntriesOwn'
    BY <1>1, <1>3 DEF MarkRunFailed, memory
<1>4. CASE Restart
    BY <1>1, <1>4 DEF Restart, disk, memory
<1>5. CASE Crash
    <2>1. UNCHANGED <<index, started, status>>
          /\ \A e \in Deployments : pc'[e] = IF Active(e) THEN "dead" ELSE pc[e]
        BY <1>5 DEF Crash, disk
    <2> QED
        BY <2>1 DEF EntriesOwn, Active
<1> QED
    BY <1>2, <1>3, <1>4, <1>5, StartOwn, FinishOwn, UpdateOwn, DeleteOwn, MarkOwn DEF Next

\* An entry gives way to the same or a later deployment, or to none.
LEMMA EntriesAdvance ==
    ASSUME IndInv, IndInv', Next, ~WriteFails, NEW t \in Targets, index[t] # NoEntry, index'[t] # NoEntry
    PROVE  started'[index[t].id] <= started'[index'[t].id]
<1> USE TargetOfType DEF IndInv
<1>1. index[t].id \in Deployments /\ TargetOf[index[t].id] = t
    BY DEF TypeOK, Entries, IndexBacked
<1>2. \A e \in Deployments : started'[e] \in Nat
    BY StoreAssumption DEF TypeOK
<1>3. ASSUME index'[t].id = index[t].id PROVE started'[index[t].id] <= started'[index'[t].id]
    BY <1>1, <1>2, <1>3
<1>4. ASSUME NEW d \in Deployments, updateProjectsIndex(d)
      PROVE  started'[index[t].id] <= started'[index'[t].id]
    <2>1. /\ started' = started
          /\ index' = IF Supersedes(d)
                      THEN [index EXCEPT ![TargetOf[d]] = [id |-> d, status |-> status[d]]] ELSE index
        BY <1>4 DEF updateProjectsIndex
    <2>2. CASE t = TargetOf[d] /\ Supersedes(d) /\ index[t].id # d
        <3>1. index'[t].id = d
            BY <2>1, <2>2 DEF TypeOK
        <3>2. started[d] >= started[index[t].id]
            BY <1>1, <2>2 DEF Supersedes
        <3> QED
            BY <1>1, <1>2, <2>1, <3>1, <3>2
    <2>3. CASE ~(t = TargetOf[d] /\ Supersedes(d) /\ index[t].id # d)
        <3>1. index'[t].id = index[t].id
            BY <2>1, <2>3 DEF TypeOK
        <3> QED
            BY <1>3, <3>1
    <2> QED
        BY <2>2, <2>3
<1>5. ASSUME NEW u \in Targets, DeleteLatestDeployment(u)
      PROVE  started'[index[t].id] <= started'[index'[t].id]
    <2>1. index' = [index EXCEPT ![u] = NoEntry]
        BY <1>5 DEF DeleteLatestDeployment
    <2>2. index'[t] = index[t]
        BY <2>1 DEF TypeOK
    <2> QED
        BY <1>3, <2>2
<1>6. CASE MarkStaleRunningDeploymentsFailed
    <2>1. index'[t].id = index[t].id
        BY <1>1, <1>6 DEF MarkStaleRunningDeploymentsFailed, MarkedIndex, TypeOK, Entries, NoEntry
    <2> QED
        BY <1>3, <2>1
<1>7. CASE UNCHANGED index
    BY <1>3, <1>7
<1> QED
    BY <1>4, <1>5, <1>6, <1>7 DEF Next, StartDeployment, FinishDeployment, SaveDeployment, cleanDir,
       MarkRunFailed, Crash, Restart, disk

\* While no write fails, the index shows the youngest deployment in progress
\* and the true result of a finished one, and only moves on to deployments
\* that were not started earlier.
THEOREM IndexStaysLatest == Spec => IndexIsLatest
<1> DEFINE Shown ==
        faults = 0 => \A d \in Deployments :
            LET entry == index[TargetOf[d]]
                youngest == \A e \in Deployments :
                               TargetOf[e] = TargetOf[d] => started[e] <= started[d]
            IN /\ pc[d] = "deploying" /\ youngest => entry = [id |-> d, status |-> "running"]
               /\ pc[d] = "done" /\ entry.id = d => entry.status = status[d]
           Advance ==
        faults' = 0 => \A t \in Targets :
            index[t] # NoEntry /\ index'[t] # NoEntry =>
                started'[index[t].id] <= started'[index'[t].id]
<1>1. Init => FaultFree
    BY DEF Init, FaultFree, EntriesOwn
<1>2. IndInv /\ FaultFree /\ [Next]_vars => FaultFree'
    <2> SUFFICES ASSUME IndInv, FaultFree, [Next]_vars PROVE FaultFree'
        OBVIOUS
    <2>1. CASE Next
        BY <2>1, NoFaultBefore, NextOwn DEF FaultFree
    <2>2. CASE UNCHANGED vars
        BY <2>2 DEF FaultFree, EntriesOwn, Youngest, vars, disk, memory, budget
    <2> QED
        BY <2>1, <2>2
<1>3. FaultFree => Shown
    BY DEF FaultFree, EntriesOwn, Youngest
<1>4. IndInv /\ IndInv' /\ [Next]_vars => [Advance]_vars
    BY NoFaultBefore, EntriesAdvance
<1>5. IndexIsLatest <=> []Shown /\ [][Advance]_vars
    BY DEF IndexIsLatest
<1> HIDE DEF Shown, Advance
<1> QED
    BY <1>1, <1>2, <1>3, <1>4, <1>5, StoreInvariant, PTL DEF Spec
=============================================================================
