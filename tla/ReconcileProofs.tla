-------------------------- MODULE ReconcileProofs --------------------------
(***************************************************************************)
(* What runs on a host is in the deployment index, and a broken            *)
(* configuration takes nothing down, for any history of configurations     *)
(* and any faults, crashes, pushes and order of jobs.  Inv is inductive:   *)
(* it adds which targets a pass has left to work on, which jobs there may  *)
(* be under the configuration in effect, and how far the job under each    *)
(* target's lock has come with the containers and the record.              *)
(***************************************************************************)
EXTENDS Reconcile, TLAPS

\* What is left to do of a pass is what its two configurations ask for.
LoopSound ==
    /\ loop.pc \in {"removals", "additions", "changes"} =>
          /\ {loop.old, loop.new} \subseteq DOMAIN History
          /\ version \notin Broken
    /\ loop.pc = "removals" => loop.todo \subseteq FindTeardownTargets(History[loop.old], History[loop.new])
    /\ loop.pc = "additions" => loop.todo \subseteq FindAddedDeployTargets(History[loop.old], History[loop.new])
    /\ loop.pc = "changes" => loop.todo \subseteq ChangedTargets(History[loop.old], History[loop.new])

\* A deploy has a commit; there are no teardowns under a broken configuration.
Allowed == {j \in AJob : IF j.kind = "deploy" THEN j.sha # 0 ELSE version \notin Broken}

JobsAllowed ==
    /\ jobs \in [Targets -> Seq(Allowed)]
    /\ \A t \in Targets : run[t] # NoRun => run[t].job \in Allowed

\* A process that is down has neither a pass nor jobs.
NothingWhenDown ==
    phase = "down" => /\ loop = IdleLoop
                      /\ \A t \in Targets : jobs[t] = <<>> /\ run[t] = NoRun

\* The job r, the containers u and the record d of a target; lost says that
\* the last write of the record failed. A deploy has written the record
\* before it touches the containers, a teardown has stopped them before it
\* removes the record.
TargetSound(r, u, d, lost) ==
    /\ r.pc = "up" /\ r.job.kind = "deploy" => lost \/ d # NoRecord
    /\ r.pc = "remove" /\ r.job.kind = "teardown" => u = NotUp
    /\ lost \/ (u # NotUp => d # NoRecord)

TargetsSound == \A t \in Targets : TargetSound(run[t], up[t], record[t], t \in unsaved)

Inv == TypeOK /\ LoopSound /\ JobsAllowed /\ NothingWhenDown /\ TargetsSound

LoopStates ==
    [pc : {"idle", "pass", "removals", "additions", "changes"},
     old : 0..Len(History), new : 0..Len(History), todo : SUBSET Targets, wait : SUBSET Targets]

RunStates ==
    [pc : {"check", "record", "up", "save", "failed", "down", "remove"}, job : AJob]

Records == [sha : 0..MaxCommit, status : {"none", "running", "success", "failed"}]
Ups == {NotUp} \cup [at : Placements, sha : 1..MaxCommit]

-----------------------------------------------------------------------------
(* Lemmas about the helpers.                                               *)

LEMMA SeqGrows ==
    ASSUME NEW S, NEW s \in Seq(S), NEW x \in S
    PROVE  Append(s, x) \in Seq(S)
OBVIOUS

LEMMA EmptySeqType == \A S : <<>> \in Seq(S)
OBVIOUS

LEMMA RemoveAtType ==
    ASSUME NEW S, NEW s \in Seq(S), NEW n \in DOMAIN s
    PROVE  RemoveAt(s, n) \in Seq(S) /\ s[n] \in S
<1>1. Len(s) \in Nat /\ n \in 1..Len(s)
  OBVIOUS
<1>2. SubSeq(s, 1, n - 1) \in Seq(S) /\ SubSeq(s, n + 1, Len(s)) \in Seq(S)
  BY <1>1
<1>3. s[n] \in S
  BY <1>1
<1> QED
  BY <1>2, <1>3 DEF RemoveAt

LEMMA SeqMonotone ==
    ASSUME NEW S, NEW T, S \subseteq T, NEW s \in Seq(S)
    PROVE  s \in Seq(T)
<1>1. Len(s) \in Nat /\ s \in [1..Len(s) -> S]
  OBVIOUS
<1>2. s \in [1..Len(s) -> T]
  BY <1>1
<1> QED
  BY <1>1, <1>2

\* A configuration that is given places a target in a real directory, or not
\* at all.
LEMMA ConfigFacts ==
    ASSUME TypeOK, NEW v \in DOMAIN History, NEW t \in Targets
    PROVE  History[v][t] # Absent => History[v][t] \in Placements
<1>1. History \in Seq(Configs)
  BY ReconcileAssumption DEF TypeOK, History
<1>2. History[v] \in Configs
  BY <1>1
<1> QED
  BY <1>2 DEF Configs

LEMMA HistoryFacts ==
    ASSUME TypeOK
    PROVE  Len(History) \in Nat /\ DOMAIN History = 1..Len(History)
<1>1. History \in Seq(Configs)
  BY ReconcileAssumption DEF TypeOK, History
<1> QED
  BY <1>1

LEMMA AllowedJobs == Allowed \subseteq AJob
BY DEF Allowed

LEMMA DeployJobAllowed ==
    ASSUME NEW at \in Placements, NEW sha \in 1..MaxCommit, NEW redeploy \in BOOLEAN
    PROVE  DeployJob(at, sha, redeploy) \in Allowed
<1>1. sha \in 0..MaxCommit /\ sha # 0
  BY ReconcileAssumption
<1>2. DeployJob(at, sha, redeploy) \in AJob
  BY <1>1 DEF DeployJob, AJob
<1> QED
  BY <1>1, <1>2 DEF Allowed, DeployJob

LEMMA DispatchedType ==
    ASSUME JobsAllowed, NEW t \in Targets, NEW job \in Allowed
    PROVE  Dispatched(t, job) \in Seq(Allowed)
BY SeqGrows DEF JobsAllowed, Dispatched

LEMMA BudgetType ==
    ASSUME TypeOK, Fault \/ UNCHANGED budget, UNCHANGED scenario
    PROVE  faults' \in 0..scenario'.faults /\ crashes' \in 0..scenario'.crashes
<1>1. scenario.faults \in Nat
  BY ReconcileAssumption DEF TypeOK
<1>2. CASE Fault
  BY <1>1, <1>2 DEF TypeOK, Fault
<1>3. CASE UNCHANGED budget
  BY <1>3 DEF TypeOK, budget
<1> QED
  BY <1>2, <1>3

-----------------------------------------------------------------------------
(* The invariant is preserved.                                             *)

LEMMA InitInv == Init => Inv
<1> SUFFICES ASSUME Init PROVE Inv
  OBVIOUS
<1>1. scenario \in Scenarios
  BY DEF Init
<1>2. History \in Seq(Configs) /\ History # <<>> /\ 1 \notin Broken
  BY <1>1, ReconcileAssumption DEF History, Broken
<1>3. Len(History) \in Nat /\ 1 \in DOMAIN History
  BY <1>2
<1>4. \A t \in Targets : Desired(t) => config[t] \in Placements
  <2>1. config \in Configs
    BY <1>2, <1>3 DEF config, Init
  <2> QED
    BY <2>1 DEF Desired, Configs
<1>5. TypeOK
  <2>1. loop \in LoopStates
    BY <1>3 DEF Init, IdleLoop, LoopStates
  <2>2. jobs \in [Targets -> Seq(AJob)]
    BY DEF Init
  <2>3. run \in [Targets -> {NoRun} \cup RunStates]
    BY DEF Init
  <2>4. files \in [Targets -> SUBSET Dirs]
    BY <1>4 DEF Init, Placements
  <2>5. up \in [Targets -> Ups]
    <3>1. \A t \in Targets : (IF Desired(t) THEN [at |-> config[t], sha |-> 1] ELSE NotUp) \in Ups
      BY <1>4, ReconcileAssumption DEF Ups
    <3> QED
      BY <3>1 DEF Init
  <2>6. record \in [Targets -> Records]
    BY ReconcileAssumption DEF Init, Records, NoRecord
  <2>7. faults \in 0..scenario.faults /\ crashes \in 0..scenario.crashes
    BY <1>1, ReconcileAssumption DEF Init
  <2>8. head \in 1..MaxCommit
    BY ReconcileAssumption DEF Init
  <2>9. {version, saved} \subseteq DOMAIN History /\ applied \in 0..Len(History)
    BY <1>3 DEF Init
  <2>10. unsaved \subseteq Targets /\ phase \in {"down", "starting", "up"} /\ trigger \in BOOLEAN
    BY DEF Init
  <2> QED
    BY <1>1, <2>1, <2>2, <2>3, <2>4, <2>5, <2>6, <2>7, <2>8, <2>9, <2>10
       DEF TypeOK, LoopStates, RunStates, Records, Ups
<1>6. LoopSound /\ NothingWhenDown
  BY DEF Init, LoopSound, NothingWhenDown, IdleLoop
<1>7. JobsAllowed
  BY DEF Init, JobsAllowed
<1>8. TargetsSound
  BY DEF Init, TargetsSound, TargetSound, NoRun, NoRecord, NotUp
<1> QED
  BY <1>5, <1>6, <1>7, <1>8 DEF Inv

\* The loop, a push and the resume fan-out: passes go on and jobs are added,
\* the jobs under way and the hosts are left alone.
LEMMA IntakeStep ==
    ASSUME Inv, phase # "down", phase' \in {"starting", "up"},
           UNCHANGED <<scenario, version, run, remote>>,
           trigger' \in BOOLEAN, head' \in 1..MaxCommit,
           applied' \in 0..Len(History), saved' \in DOMAIN History,
           jobs' \in [Targets -> Seq(Allowed)], loop' \in LoopStates,
           Fault \/ UNCHANGED budget, LoopSound'
    PROVE  Inv'
<1> USE DEF Inv
<1>1. /\ scenario' = scenario /\ version' = version /\ run' = run /\ files' = files /\ up' = up
      /\ record' = record /\ unsaved' = unsaved
  BY DEF remote, host, index
<1>2. History' = History /\ Allowed' = Allowed
  BY <1>1 DEF History, Broken, Allowed
<1>3. jobs' \in [Targets -> Seq(AJob)]
  BY AllowedJobs, SeqMonotone
<1>4. TypeOK'
  <2>1. faults' \in 0..scenario'.faults /\ crashes' \in 0..scenario'.crashes
    BY <1>1, BudgetType
  <2>2. loop' \in LoopStates'
    BY <1>2 DEF LoopStates
  <2>3. {version', saved'} \subseteq DOMAIN History' /\ applied' \in 0..Len(History')
    BY <1>1, <1>2 DEF TypeOK
  <2> QED
    BY <1>1, <1>3, <2>1, <2>2, <2>3 DEF TypeOK, LoopStates
<1>5. JobsAllowed'
  BY <1>1, <1>2 DEF JobsAllowed
<1>6. NothingWhenDown'
  BY DEF NothingWhenDown
<1>7. TargetsSound'
  BY <1>1 DEF TargetsSound
<1> QED
  BY <1>4, <1>5, <1>6, <1>7

\* A step of the job under the lock of a target: only what belongs to the
\* target changes, and what it leaves there is sound.
LEMMA JobStep ==
    ASSUME Inv, NEW t \in Targets,
           UNCHANGED <<intake, applied, saved, phase>>,
           phase # "down",
           jobs' \in [Targets -> Seq(Allowed)],
           loop' = loop \/ loop' = [loop EXCEPT !.wait = @ \ {t}],
           NEW r \in {NoRun} \cup RunStates, r # NoRun => r.job \in Allowed,
           run' = [run EXCEPT ![t] = r],
           files' \in [Targets -> SUBSET Dirs],
           NEW u \in Ups, up' = [up EXCEPT ![t] = u],
           NEW d \in Records, record' = [record EXCEPT ![t] = d],
           unsaved' \in {unsaved, unsaved \cup {t}, unsaved \ {t}},
           Fault \/ UNCHANGED budget,
           TargetSound(r, u, d, t \in unsaved')
    PROVE  Inv'
<1> USE DEF Inv
<1>1. /\ scenario' = scenario /\ version' = version /\ trigger' = trigger /\ head' = head
      /\ applied' = applied /\ saved' = saved /\ phase' = phase
  BY DEF intake
<1>2. History' = History /\ Allowed' = Allowed /\ Broken' = Broken
  BY <1>1 DEF History, Broken, Allowed
<1>3. /\ run \in [Targets -> {NoRun} \cup RunStates] /\ up \in [Targets -> Ups]
      /\ record \in [Targets -> Records] /\ loop \in LoopStates
  BY DEF TypeOK, RunStates, Ups, Records, LoopStates
<1>4. loop' \in LoopStates /\ loop'.pc = loop.pc /\ loop'.old = loop.old /\ loop'.new = loop.new
      /\ loop'.todo = loop.todo
  BY <1>3 DEF LoopStates
<1>5. TypeOK'
  <2>1. faults' \in 0..scenario'.faults /\ crashes' \in 0..scenario'.crashes
    BY <1>1, BudgetType
  <2>2. loop' \in LoopStates'
    BY <1>2, <1>4 DEF LoopStates
  <2>3. /\ scenario' \in Scenarios
        /\ {version', saved'} \subseteq DOMAIN History' /\ applied' \in 0..Len(History')
    BY <1>1, <1>2 DEF TypeOK
  <2>4. jobs' \in [Targets -> Seq(AJob)]
    BY AllowedJobs, SeqMonotone
  <2>5. run' \in [Targets -> {NoRun} \cup RunStates]
    BY <1>3
  <2>6. up' \in [Targets -> Ups] /\ record' \in [Targets -> Records]
    BY <1>3
  <2>7. unsaved' \subseteq Targets
    BY DEF TypeOK
  <2>8. trigger' \in BOOLEAN /\ head' \in 1..MaxCommit /\ phase' \in {"down", "starting", "up"}
    BY <1>1 DEF TypeOK
  <2> QED
    BY <2>1, <2>2, <2>3, <2>4, <2>5, <2>6, <2>7, <2>8 DEF TypeOK, LoopStates, RunStates, Ups, Records
<1>6. LoopSound'
  BY <1>1, <1>2, <1>4 DEF LoopSound
<1>7. JobsAllowed'
  <2>1. ASSUME NEW s \in Targets, run'[s] # NoRun PROVE run'[s].job \in Allowed
    <3>1. CASE s = t
      BY <1>3, <2>1, <3>1
    <3>2. CASE s # t
      BY <1>3, <2>1, <3>2 DEF JobsAllowed
    <3> QED
      BY <3>1, <3>2
  <2> QED
    BY <1>2, <2>1 DEF JobsAllowed
<1>8. NothingWhenDown'
  BY <1>1 DEF NothingWhenDown
<1>9. TargetsSound'
  <2>1. ASSUME NEW s \in Targets PROVE TargetSound(run'[s], up'[s], record'[s], s \in unsaved')
    <3>1. CASE s = t
      BY <1>3, <3>1
    <3>2. CASE s # t
      <4>1. (s \in unsaved') <=> (s \in unsaved)
        BY <3>2
      <4>2. run'[s] = run[s] /\ up'[s] = up[s] /\ record'[s] = record[s]
        BY <1>3, <3>2
      <4>3. TargetSound(run[s], up[s], record[s], s \in unsaved)
        BY DEF TargetsSound
      <4> QED
        BY <4>1, <4>2, <4>3 DEF TargetSound
    <3> QED
      BY <3>1, <3>2
  <2> QED
    BY <2>1 DEF TargetsSound
<1> QED
  BY <1>5, <1>6, <1>7, <1>8, <1>9

-----------------------------------------------------------------------------
(* The reconcile loop, pushes and the resume fan-out.                      *)

\* The types that IntakeStep asks for, when nothing changes.
LEMMA IntakeTypes ==
    ASSUME Inv
    PROVE  /\ trigger \in BOOLEAN /\ head \in 1..MaxCommit
           /\ applied \in 0..Len(History) /\ saved \in DOMAIN History /\ version \in DOMAIN History
           /\ jobs \in [Targets -> Seq(Allowed)] /\ loop \in LoopStates
           /\ phase \in {"down", "starting", "up"}
           /\ loop.pc # "idle" => phase # "down"
BY DEF Inv, TypeOK, JobsAllowed, LoopStates, NothingWhenDown, IdleLoop

LEMMA IdleLoopType == ASSUME Inv PROVE IdleLoop \in LoopStates
BY HistoryFacts DEF Inv, IdleLoop, LoopStates

LEMMA LoopReceiveInv == ASSUME Inv, LoopReceive PROVE Inv'
<1>1. /\ phase # "down" /\ loop.pc = "idle" /\ trigger' = FALSE /\ loop' = [loop EXCEPT !.pc = "pass"]
      /\ UNCHANGED <<scenario, version, head, applied, saved, jobs, run, remote, phase, budget>>
  BY DEF LoopReceive
<1>2. loop' \in LoopStates /\ loop'.pc = "pass"
  BY <1>1, IntakeTypes DEF LoopStates
<1>3. LoopSound'
  BY <1>2 DEF LoopSound
<1> QED
  BY <1>1, <1>2, <1>3, IntakeTypes, IntakeStep

\* An adopted configuration is one of the history.
LEMMA AdoptEffect ==
    ASSUME Inv, NEW v \in DOMAIN History, Adopt(v)
    PROVE  /\ loop' \in LoopStates /\ LoopSound'
           /\ applied' \in 0..Len(History) /\ saved' \in DOMAIN History
           /\ Fault \/ UNCHANGED budget
<1>1. loop' = IdleLoop /\ applied' = v /\ (Fault \/ UNCHANGED budget) /\ saved' \in {v, saved}
  BY DEF Adopt
<1>2. LoopSound'
  BY <1>1 DEF LoopSound, IdleLoop
<1>3. applied' \in 0..Len(History)
  BY <1>1, HistoryFacts DEF Inv
<1> QED
  BY <1>1, <1>2, <1>3, IdleLoopType, IntakeTypes

LEMMA PassInv == ASSUME Inv, Pass PROVE Inv'
<1>1. loop.pc = "pass" /\ UNCHANGED <<scenario, version, trigger, head, jobs, run, remote, phase>>
  BY DEF Pass, intake
<1>2. CASE Adopt(version)
  BY <1>1, <1>2, IntakeTypes, AdoptEffect, IntakeStep
<1>3. CASE loop' = IdleLoop /\ UNCHANGED <<applied, saved, budget>>
  <2>1. LoopSound'
    BY <1>3 DEF LoopSound, IdleLoop
  <2> QED
    BY <1>1, <1>3, <2>1, IntakeTypes, IdleLoopType, IntakeStep
<1>4. CASE applied # 0 /\ version \notin Broken /\ reconcileOnce /\ UNCHANGED <<applied, saved, budget>>
  <2>1. loop' = [pc |-> "removals", old |-> applied, new |-> version, wait |-> {},
                 todo |-> FindTeardownTargets(History[applied], History[version])]
    BY <1>4 DEF reconcileOnce, config
  <2>2. applied \in DOMAIN History /\ applied \in 0..Len(History) /\ version \in 0..Len(History)
    BY <1>4, IntakeTypes, HistoryFacts DEF Inv
  <2>3. FindTeardownTargets(History[applied], History[version]) \subseteq Targets
    BY DEF FindTeardownTargets
  <2>4. loop' \in LoopStates
    BY <2>1, <2>2, <2>3 DEF LoopStates
  <2>5. History' = History /\ Broken' = Broken
    BY <1>1 DEF History, Broken
  <2>6. LoopSound'
    BY <1>1, <1>4, <2>1, <2>2, <2>5, IntakeTypes DEF LoopSound
  <2> QED
    BY <1>1, <1>4, <2>4, <2>6, IntakeTypes, IntakeStep
<1> QED
  BY <1>2, <1>3, <1>4 DEF Pass

\* A teardown is submitted for the place where the old configuration had the
\* target.
LEMMA ReconcileRemovalsInv == ASSUME Inv, NEW t \in Targets, ReconcileRemovals(t) PROVE Inv'
<1>1. /\ loop.pc = "removals" /\ t \in loop.todo
      /\ UNCHANGED <<scenario, version, trigger, head, applied, saved, run, remote, phase, budget>>
  BY DEF ReconcileRemovals, intake
<1>2. loop \in LoopStates
  BY IntakeTypes
<1>3. /\ loop' \in LoopStates /\ loop'.pc = loop.pc /\ loop'.old = loop.old /\ loop'.new = loop.new
      /\ loop'.todo = loop.todo \ {t}
  <2>1. \/ loop' = [loop EXCEPT !.todo = @ \ {t}]
        \/ loop' = [loop EXCEPT !.todo = @ \ {t}, !.wait = @ \cup {t}]
    BY DEF ReconcileRemovals
  <2>2. CASE loop' = [loop EXCEPT !.todo = @ \ {t}]
    BY <1>2, <2>2 DEF LoopStates
  <2>3. CASE loop' = [loop EXCEPT !.todo = @ \ {t}, !.wait = @ \cup {t}]
    <3>1. loop' = [pc |-> loop.pc, old |-> loop.old, new |-> loop.new,
                   todo |-> loop.todo \ {t}, wait |-> loop.wait \cup {t}]
      BY <1>2, <2>3 DEF LoopStates
    <3> QED
      BY <1>2, <3>1 DEF LoopStates
  <2> QED
    BY <2>1, <2>2, <2>3
<1>4. History' = History /\ Broken' = Broken
  BY <1>1 DEF History, Broken
<1>5. LoopSound'
  BY <1>1, <1>3, <1>4 DEF LoopSound, Inv
<1>6. jobs' \in [Targets -> Seq(Allowed)]
  <2>1. CASE UNCHANGED jobs
    BY <2>1, IntakeTypes
  <2>2. CASE jobs' = [jobs EXCEPT ![t] = Append(@,
                   [kind |-> "teardown", at |-> History[loop.old][t], sha |-> 0, redeploy |-> FALSE,
                    removeState |-> History[loop.new][t] = Absent])]
    <3>1. History[loop.old][t] # Absent /\ loop.old \in DOMAIN History /\ version \notin Broken
      BY <1>1 DEF LoopSound, FindTeardownTargets, Inv
    <3>2. History[loop.old][t] \in Placements
      BY <3>1, ConfigFacts DEF Inv
    <3>3. [kind |-> "teardown", at |-> History[loop.old][t], sha |-> 0, redeploy |-> FALSE,
           removeState |-> History[loop.new][t] = Absent] \in AJob
      BY <3>2, ReconcileAssumption DEF AJob
    <3>4. [kind |-> "teardown", at |-> History[loop.old][t], sha |-> 0, redeploy |-> FALSE,
           removeState |-> History[loop.new][t] = Absent] \in Allowed
      BY <3>1, <3>3 DEF Allowed
    <3> QED
      BY <2>2, <3>4, IntakeTypes, SeqGrows
  <2> QED
    BY <2>1, <2>2 DEF ReconcileRemovals
<1> QED
  BY <1>1, <1>3, <1>5, <1>6, IntakeTypes, IntakeStep

LEMMA RemovalsDoneInv == ASSUME Inv, RemovalsDone PROVE Inv'
<1>1. /\ loop.pc = "removals"
      /\ loop' = [loop EXCEPT !.pc = "additions",
                      !.todo = FindAddedDeployTargets(History[loop.old], History[loop.new])]
      /\ UNCHANGED <<scenario, version, trigger, head, applied, saved, jobs, run, remote, phase, budget>>
  BY DEF RemovalsDone, intake
<1>2. loop \in LoopStates /\ FindAddedDeployTargets(History[loop.old], History[loop.new]) \subseteq Targets
  BY IntakeTypes DEF FindAddedDeployTargets
<1>3. /\ loop' \in LoopStates /\ loop'.pc = "additions" /\ loop'.old = loop.old /\ loop'.new = loop.new
      /\ loop'.todo = FindAddedDeployTargets(History[loop.old], History[loop.new])
  BY <1>1, <1>2 DEF LoopStates
<1>4. History' = History /\ Broken' = Broken
  BY <1>1 DEF History, Broken
<1>5. LoopSound'
  BY <1>1, <1>3, <1>4 DEF LoopSound, Inv
<1> QED
  BY <1>1, <1>3, <1>5, IntakeTypes, IntakeStep

LEMMA AdditionsDoneInv == ASSUME Inv, AdditionsDone PROVE Inv'
<1>1. /\ loop.pc = "additions"
      /\ loop' = [loop EXCEPT !.pc = "changes",
                      !.todo = ChangedTargets(History[loop.old], History[loop.new])]
      /\ UNCHANGED <<scenario, version, trigger, head, applied, saved, jobs, run, remote, phase, budget>>
  BY DEF AdditionsDone, intake
<1>2. loop \in LoopStates /\ ChangedTargets(History[loop.old], History[loop.new]) \subseteq Targets
  BY IntakeTypes DEF ChangedTargets
<1>3. /\ loop' \in LoopStates /\ loop'.pc = "changes" /\ loop'.old = loop.old /\ loop'.new = loop.new
      /\ loop'.todo = ChangedTargets(History[loop.old], History[loop.new])
  BY <1>1, <1>2 DEF LoopStates
<1>4. History' = History /\ Broken' = Broken
  BY <1>1 DEF History, Broken
<1>5. LoopSound'
  BY <1>1, <1>3, <1>4 DEF LoopSound, Inv
<1> QED
  BY <1>1, <1>3, <1>5, IntakeTypes, IntakeStep

\* Added and changed targets are deployed where the new configuration wants
\* them.
LEMMA ReconcileDeploysInv ==
    ASSUME Inv, NEW t \in Targets, ReconcileAdditions(t) \/ ReconcileProjectChanges(t)
    PROVE  Inv'
<1>1. /\ loop.pc \in {"additions", "changes"} /\ t \in loop.todo
      /\ loop' = [loop EXCEPT !.todo = @ \ {t}]
      /\ \E redeploy \in BOOLEAN :
            jobs' = [jobs EXCEPT ![t] = Dispatched(t, DeployJob(History[loop.new][t], head, redeploy))]
      /\ UNCHANGED <<scenario, version, trigger, head, applied, saved, run, remote, phase, budget>>
  BY DEF ReconcileAdditions, ReconcileProjectChanges, intake
<1>2. loop \in LoopStates
  BY IntakeTypes
<1>3. /\ loop' \in LoopStates /\ loop'.pc = loop.pc /\ loop'.old = loop.old /\ loop'.new = loop.new
      /\ loop'.todo = loop.todo \ {t}
  BY <1>1, <1>2 DEF LoopStates
<1>4. History' = History /\ Broken' = Broken
  BY <1>1 DEF History, Broken
<1>5. LoopSound'
  BY <1>1, <1>3, <1>4 DEF LoopSound, Inv
<1>6. jobs' \in [Targets -> Seq(Allowed)]
  <2>1. History[loop.new][t] # Absent /\ loop.new \in DOMAIN History
    BY <1>1 DEF LoopSound, FindAddedDeployTargets, ChangedTargets, Inv
  <2>2. History[loop.new][t] \in Placements
    BY <2>1, ConfigFacts DEF Inv
  <2>3. \A redeploy \in BOOLEAN :
            Dispatched(t, DeployJob(History[loop.new][t], head, redeploy)) \in Seq(Allowed)
    BY <2>2, IntakeTypes, DeployJobAllowed, DispatchedType DEF Inv
  <2> QED
    BY <1>1, <2>3, IntakeTypes
<1> QED
  BY <1>1, <1>3, <1>5, <1>6, IntakeTypes, IntakeStep

LEMMA PassDoneInv == ASSUME Inv, PassDone PROVE Inv'
<1>1. /\ loop.pc = "changes" /\ Adopt(loop.new)
      /\ UNCHANGED <<scenario, version, trigger, head, jobs, run, remote, phase>>
  BY DEF PassDone, intake
<1>2. loop.new \in DOMAIN History
  BY <1>1 DEF Inv, LoopSound
<1> QED
  BY <1>1, <1>2, IntakeTypes, AdoptEffect, IntakeStep

\* A fan-out of deploys of the targets that are configured, at a commit.
LEMMA FanOutType ==
    ASSUME Inv, NEW sha \in 1..MaxCommit
    PROVE  [t \in Targets |-> IF Desired(t) THEN Dispatched(t, DeployJob(config[t], sha, FALSE))
                                            ELSE jobs[t]] \in [Targets -> Seq(Allowed)]
<1>1. ASSUME NEW t \in Targets, Desired(t)
      PROVE  Dispatched(t, DeployJob(config[t], sha, FALSE)) \in Seq(Allowed)
  <2>1. config[t] \in Placements
    BY <1>1, IntakeTypes, ConfigFacts DEF Inv, config, Desired
  <2>2. DeployJob(config[t], sha, FALSE) \in Allowed
    BY <2>1, DeployJobAllowed
  <2> QED
    BY <2>2, DispatchedType DEF Inv
<1>2. \A t \in Targets : jobs[t] \in Seq(Allowed)
  BY IntakeTypes
<1> QED
  BY <1>1, <1>2

LEMMA SameLoopSound ==
    ASSUME LoopSound, UNCHANGED <<scenario, version, loop>>
    PROVE  LoopSound'
BY DEF LoopSound, History, Broken

LEMMA PushInv == ASSUME Inv, Push PROVE Inv'
<1>1. /\ phase = "up" /\ head < MaxCommit /\ head' = head + 1
      /\ UNCHANGED <<scenario, version, trigger, applied, saved, loop, run, remote, phase, budget>>
  BY DEF Push
<1>2. head' \in 1..MaxCommit
  BY <1>1, IntakeTypes, ReconcileAssumption
<1>3. jobs' \in [Targets -> Seq(Allowed)]
  BY <1>2, FanOutType DEF Push
<1>4. LoopSound'
  BY <1>1, SameLoopSound DEF Inv
<1> QED
  BY <1>1, <1>2, <1>3, <1>4, IntakeTypes, IntakeStep

LEMMA ResumeInv == ASSUME Inv, ResumeIncompleteDeploys PROVE Inv'
<1>1. /\ phase = "starting" /\ phase' = "up"
      /\ UNCHANGED <<scenario, version, trigger, head, applied, saved, loop, run, remote, budget>>
  BY DEF ResumeIncompleteDeploys, intake
<1>2. jobs' \in [Targets -> Seq(Allowed)]
  BY IntakeTypes, FanOutType DEF ResumeIncompleteDeploys
<1>3. LoopSound'
  BY <1>1, SameLoopSound DEF Inv
<1> QED
  BY <1>1, <1>2, <1>3, IntakeTypes, IntakeStep

-----------------------------------------------------------------------------
(* The jobs.                                                               *)

\* A job is under way only in a running process.
LEMMA RunFacts ==
    ASSUME Inv, NEW t \in Targets, run[t].pc # "none"
    PROVE  /\ run[t] \in RunStates /\ run[t].job \in Allowed /\ run[t].job \in AJob
           /\ phase # "down"
<1>1. run[t] # NoRun
  BY DEF NoRun
<1> QED
  BY <1>1, AllowedJobs DEF Inv, TypeOK, JobsAllowed, NothingWhenDown, RunStates

LEMMA HostTypes ==
    ASSUME Inv
    PROVE  /\ run \in [Targets -> {NoRun} \cup RunStates] /\ up \in [Targets -> Ups]
           /\ record \in [Targets -> Records] /\ files \in [Targets -> SUBSET Dirs]
           /\ \A t \in Targets : TargetSound(run[t], up[t], record[t], t \in unsaved)
BY DEF Inv, TypeOK, RunStates, Ups, Records, TargetsSound

LEMMA Unchanged ==
    ASSUME NEW S, NEW f \in [Targets -> S], NEW t \in Targets
    PROVE  f = [f EXCEPT ![t] = f[t]] /\ f[t] \in S
OBVIOUS

\* JobStep for a job that goes on.
LEMMA GotoStep ==
    ASSUME Inv, NEW t \in Targets, run[t].pc # "none",
           NEW where \in {"check", "record", "up", "save", "failed", "down", "remove"}, JobGoto(t, where),
           files' \in [Targets -> SUBSET Dirs],
           NEW u \in Ups, up' = [up EXCEPT ![t] = u],
           NEW d \in Records, record' = [record EXCEPT ![t] = d],
           unsaved' \in {unsaved, unsaved \cup {t}, unsaved \ {t}},
           Fault \/ UNCHANGED budget,
           TargetSound([pc |-> where, job |-> run[t].job], u, d, t \in unsaved')
    PROVE  Inv'
<1>1. run[t] \in RunStates /\ run[t].job \in Allowed /\ run[t].job \in AJob /\ phase # "down"
  BY RunFacts
<1>2. run' = [run EXCEPT ![t] = [pc |-> where, job |-> run[t].job]]
  <2>1. [run[t] EXCEPT !.pc = where] = [pc |-> where, job |-> run[t].job]
    BY <1>1 DEF RunStates
  <2>2. run' = [run EXCEPT ![t] = [run[t] EXCEPT !.pc = where]]
    BY DEF JobGoto
  <2> QED
    BY <2>1, <2>2
<1>3. [pc |-> where, job |-> run[t].job] \in RunStates
  BY <1>1 DEF RunStates
<1>4. UNCHANGED <<intake, applied, saved, phase>> /\ loop' = loop /\ jobs' \in [Targets -> Seq(Allowed)]
  BY IntakeTypes DEF JobGoto
<1> DEFINE r == [pc |-> where, job |-> run[t].job]
<1>5. r \in {NoRun} \cup RunStates /\ r.job \in Allowed /\ run' = [run EXCEPT ![t] = r]
  BY <1>1, <1>2, <1>3
<1>6. TargetSound(r, u, d, t \in unsaved')
  OBVIOUS
<1> HIDE DEF r
<1> QED
  BY <1>1, <1>4, <1>5, <1>6, JobStep

\* JobStep for a job that ends.
LEMMA DoneStep ==
    ASSUME Inv, NEW t \in Targets, run[t].pc # "none", JobDone(t),
           files' \in [Targets -> SUBSET Dirs],
           NEW u \in Ups, up' = [up EXCEPT ![t] = u],
           NEW d \in Records, record' = [record EXCEPT ![t] = d],
           unsaved' \in {unsaved, unsaved \cup {t}, unsaved \ {t}},
           Fault \/ UNCHANGED budget,
           t \in unsaved' \/ (u # NotUp => d # NoRecord)
    PROVE  Inv'
<1>1. phase # "down"
  BY RunFacts
<1>2. /\ UNCHANGED <<intake, applied, saved, phase>> /\ jobs' \in [Targets -> Seq(Allowed)]
      /\ loop' = loop \/ loop' = [loop EXCEPT !.wait = @ \ {t}]
      /\ run' = [run EXCEPT ![t] = NoRun]
  BY IntakeTypes DEF JobDone
<1>3. TargetSound(NoRun, u, d, t \in unsaved')
  BY DEF TargetSound, NoRun
<1> QED
  BY <1>1, <1>2, <1>3, JobStep

\* What SaveDeployment leaves: the new record, or the old one and the knowledge
\* that it is not the latest.
LEMMA SaveEffect ==
    ASSUME Inv, NEW t \in Targets, run[t].pc # "none",
           NEW status \in {"running", "success", "failed"}, SaveDeployment(t, status)
    PROVE  /\ Fault \/ UNCHANGED budget
           /\ \E d \in Records :
                 /\ record' = [record EXCEPT ![t] = d]
                 /\ unsaved' \in {unsaved, unsaved \cup {t}, unsaved \ {t}}
                 /\ t \in unsaved' \/ d # NoRecord
<1>1. record[t] \in Records /\ record = [record EXCEPT ![t] = record[t]]
  BY HostTypes, Unchanged
<1>2. CASE Fault /\ unsaved' = unsaved \cup {t} /\ UNCHANGED record
  BY <1>1, <1>2
<1>3. CASE /\ record' = [record EXCEPT ![t] = [sha |-> run[t].job.sha, status |-> status]]
           /\ unsaved' = unsaved \ {t} /\ UNCHANGED budget
  <2>1. run[t].job.sha \in 0..MaxCommit
    BY RunFacts DEF AJob
  <2>2. [sha |-> run[t].job.sha, status |-> status] \in Records
    BY <2>1 DEF Records
  <2>3. [sha |-> run[t].job.sha, status |-> status] # NoRecord
    BY DEF NoRecord
  <2> QED
    BY <1>3, <2>2, <2>3
<1> QED
  BY <1>2, <1>3 DEF SaveDeployment

LEMMA JobStartInv == ASSUME Inv, NEW t \in Targets, NEW n \in DOMAIN jobs[t], JobStart(t, n) PROVE Inv'
<1>1. /\ run[t] = NoRun
      /\ jobs' = [jobs EXCEPT ![t] = RemoveAt(@, n)]
      /\ run' = [run EXCEPT ![t] = [pc |-> "check", job |-> jobs[t][n]]]
      /\ UNCHANGED <<intake, applied, saved, loop, remote, phase, budget>>
  BY DEF JobStart
<1>2. jobs[t] \in Seq(Allowed) /\ jobs[t] # <<>>
  BY IntakeTypes
<1>3. RemoveAt(jobs[t], n) \in Seq(Allowed) /\ jobs[t][n] \in Allowed
  BY <1>2, RemoveAtType
<1>4. jobs' \in [Targets -> Seq(Allowed)]
  BY <1>1, <1>3, IntakeTypes
<1>5. phase # "down"
  BY <1>2 DEF Inv, NothingWhenDown
<1>6. [pc |-> "check", job |-> jobs[t][n]] \in RunStates
  BY <1>3, AllowedJobs DEF RunStates
<1>7. files' = files /\ up' = up /\ record' = record /\ unsaved' = unsaved
  BY <1>1 DEF remote, host, index
<1>8. TargetSound([pc |-> "check", job |-> jobs[t][n]], up[t], record[t], t \in unsaved')
  BY <1>7, HostTypes DEF TargetSound
<1>9. /\ up[t] \in Ups /\ up' = [up EXCEPT ![t] = up[t]]
      /\ record[t] \in Records /\ record' = [record EXCEPT ![t] = record[t]]
  BY <1>7, HostTypes, Unchanged
<1> DEFINE r == [pc |-> "check", job |-> jobs[t][n]]
<1>10. r \in {NoRun} \cup RunStates /\ r.job \in Allowed /\ run' = [run EXCEPT ![t] = r]
  BY <1>1, <1>3, <1>6
<1>11. TargetSound(r, up[t], record[t], t \in unsaved')
  BY <1>8
<1> HIDE DEF r
<1> QED
  BY <1>1, <1>4, <1>5, <1>7, <1>9, <1>10, <1>11, HostTypes, JobStep

\* The steps that look before they act: nothing changes on the host.
LEMMA CheckStep ==
    ASSUME Inv, NEW t \in Targets, run[t].pc # "none", UNCHANGED remote, Fault \/ UNCHANGED budget,
           NEW where \in {"record", "failed", "down"}, JobGoto(t, where) \/ JobDone(t)
    PROVE  Inv'
<1>1. files' = files /\ up' = up /\ record' = record /\ unsaved' = unsaved
  BY DEF remote, host, index
<1>2. /\ up[t] \in Ups /\ up' = [up EXCEPT ![t] = up[t]]
      /\ record[t] \in Records /\ record' = [record EXCEPT ![t] = record[t]]
      /\ files' \in [Targets -> SUBSET Dirs]
  BY <1>1, HostTypes, Unchanged
<1>3. t \in unsaved' \/ (up[t] # NotUp => record[t] # NoRecord)
  BY <1>1, HostTypes DEF TargetSound
<1>4. TargetSound([pc |-> where, job |-> run[t].job], up[t], record[t], t \in unsaved')
  BY <1>3 DEF TargetSound
<1>7. where \in {"check", "record", "up", "save", "failed", "down", "remove"}
  OBVIOUS
<1>8. unsaved' \in {unsaved, unsaved \cup {t}, unsaved \ {t}}
  BY <1>1
<1>5. CASE JobGoto(t, where)
  BY <1>2, <1>4, <1>5, <1>7, <1>8, GotoStep, Zenon
<1>6. CASE JobDone(t)
  BY <1>1, <1>2, <1>3, <1>6, DoneStep
<1> QED
  BY <1>5, <1>6

LEMMA DeployRecordInv == ASSUME Inv, NEW t \in Targets, DeployRecord(t) PROVE Inv'
<1>1. run[t].pc # "none" /\ JobGoto(t, "up") /\ SaveDeployment(t, "running") /\ files' = files /\ up' = up
  BY DEF DeployRecord, JobAt, host
<1>2. PICK d \in Records :
         /\ record' = [record EXCEPT ![t] = d]
         /\ unsaved' \in {unsaved, unsaved \cup {t}, unsaved \ {t}}
         /\ t \in unsaved' \/ d # NoRecord
  BY <1>1, SaveEffect
<1>3. Fault \/ UNCHANGED budget
  BY <1>1, SaveEffect
<1>4. up[t] \in Ups /\ up' = [up EXCEPT ![t] = up[t]] /\ files' \in [Targets -> SUBSET Dirs]
  BY <1>1, HostTypes, Unchanged
<1>5. TargetSound([pc |-> "up", job |-> run[t].job], up[t], d, t \in unsaved')
  BY <1>2 DEF TargetSound
<1> QED
  BY <1>1, <1>2, <1>3, <1>4, <1>5, GotoStep

LEMMA DeployUpInv == ASSUME Inv, NEW t \in Targets, DeployUp(t) PROVE Inv'
<1>1. /\ run[t].pc = "up" /\ run[t].job.kind = "deploy" /\ JobGoto(t, "save")
      /\ files' = [files EXCEPT ![t] = @ \cup {run[t].job.at.dir}]
      /\ up' = [up EXCEPT ![t] = [at |-> run[t].job.at, sha |-> run[t].job.sha]]
      /\ record' = record /\ unsaved' = unsaved /\ UNCHANGED budget
  BY DEF DeployUp, JobAt, index
<1>2. run[t].job.at \in Placements /\ run[t].job.sha \in 1..MaxCommit
  <2>1. run[t].job \in Allowed /\ run[t].job \in AJob
    BY <1>1, RunFacts
  <2>2. run[t].job.sha \in 0..MaxCommit /\ run[t].job.sha # 0
    BY <1>1, <2>1 DEF Allowed, AJob
  <2> QED
    BY <2>1, <2>2, ReconcileAssumption DEF AJob
<1>3. run[t].job.at.dir \in Dirs
  BY <1>2 DEF Placements
<1>4. files' \in [Targets -> SUBSET Dirs]
  BY <1>1, <1>3, HostTypes
<1>5. [at |-> run[t].job.at, sha |-> run[t].job.sha] \in Ups
  BY <1>2 DEF Ups
<1>6. record[t] \in Records /\ record' = [record EXCEPT ![t] = record[t]]
  BY <1>1, HostTypes, Unchanged
<1>7. t \in unsaved' \/ record[t] # NoRecord
  BY <1>1, HostTypes DEF TargetSound
<1>8. TargetSound([pc |-> "save", job |-> run[t].job],
                  [at |-> run[t].job.at, sha |-> run[t].job.sha], record[t], t \in unsaved')
  BY <1>7 DEF TargetSound
<1> DEFINE u == [at |-> run[t].job.at, sha |-> run[t].job.sha]
<1>9. u \in Ups /\ up' = [up EXCEPT ![t] = u]
      /\ TargetSound([pc |-> "save", job |-> run[t].job], u, record[t], t \in unsaved')
  BY <1>1, <1>5, <1>8
<1> HIDE DEF u
<1> QED
  BY <1>1, <1>4, <1>6, <1>9, GotoStep

LEMMA DeployEndInv == ASSUME Inv, NEW t \in Targets, DeployEnd(t) PROVE Inv'
<1>1. PICK status \in {"success", "failed"} : SaveDeployment(t, status)
  BY DEF DeployEnd
<1>2. run[t].pc # "none" /\ JobDone(t) /\ files' = files /\ up' = up
  BY DEF DeployEnd, JobAt, host
<1>3. PICK d \in Records :
         /\ record' = [record EXCEPT ![t] = d]
         /\ unsaved' \in {unsaved, unsaved \cup {t}, unsaved \ {t}}
         /\ t \in unsaved' \/ d # NoRecord
  BY <1>1, <1>2, SaveEffect
<1>4. Fault \/ UNCHANGED budget
  BY <1>1, <1>2, SaveEffect
<1>5. up[t] \in Ups /\ up' = [up EXCEPT ![t] = up[t]] /\ files' \in [Targets -> SUBSET Dirs]
  BY <1>2, HostTypes, Unchanged
<1> QED
  BY <1>2, <1>3, <1>4, <1>5, DoneStep

LEMMA TeardownDownInv == ASSUME Inv, NEW t \in Targets, TeardownDown(t) PROVE Inv'
<1>1. /\ run[t].pc # "none" /\ JobGoto(t, "remove") /\ up' = [up EXCEPT ![t] = NotUp]
      /\ files' = files /\ record' = record /\ unsaved' = unsaved /\ UNCHANGED budget
  BY DEF TeardownDown, JobAt, index
<1>2. /\ record[t] \in Records /\ record' = [record EXCEPT ![t] = record[t]]
      /\ files' \in [Targets -> SUBSET Dirs] /\ NotUp \in Ups
  BY <1>1, HostTypes, Unchanged DEF Ups
<1>3. TargetSound([pc |-> "remove", job |-> run[t].job], NotUp, record[t], t \in unsaved')
  BY DEF TargetSound
<1> QED
  BY <1>1, <1>2, <1>3, GotoStep

\* The record goes only when the containers are gone.
LEMMA TeardownRemoveInv == ASSUME Inv, NEW t \in Targets, TeardownRemove(t) PROVE Inv'
<1>1. /\ run[t].pc = "remove" /\ run[t].job.kind = "teardown" /\ JobDone(t)
      /\ files' = [files EXCEPT ![t] = @ \ {run[t].job.at.dir}]
      /\ record' = [record EXCEPT ![t] = NoRecord] \/ record' = record
      /\ up' = up /\ unsaved' = unsaved /\ (Fault \/ UNCHANGED budget)
  BY DEF TeardownRemove, JobAt
<1>2. up[t] = NotUp
  BY <1>1, HostTypes DEF TargetSound
<1>3. up[t] \in Ups /\ up' = [up EXCEPT ![t] = up[t]] /\ files' \in [Targets -> SUBSET Dirs]
  BY <1>1, HostTypes, Unchanged
<1>4. PICK d \in Records : record' = [record EXCEPT ![t] = d]
  <2>1. NoRecord \in Records
    BY ReconcileAssumption DEF NoRecord, Records
  <2>2. record[t] \in Records /\ record = [record EXCEPT ![t] = record[t]]
    BY HostTypes, Unchanged
  <2> QED
    BY <1>1, <2>1, <2>2
<1> QED
  BY <1>1, <1>2, <1>3, <1>4, DoneStep

LEMMA JobInv == ASSUME Inv, NEW t \in Targets, Job(t) PROVE Inv'
<1>1. CASE \E n \in DOMAIN jobs[t] : JobStart(t, n)
  BY <1>1, JobStartInv
<1>2. CASE DeployCheck(t)
  BY <1>2, CheckStep DEF DeployCheck, JobAt
<1>3. CASE DeployRecord(t)
  BY <1>3, DeployRecordInv
<1>4. CASE DeployUp(t)
  BY <1>4, DeployUpInv
<1>5. CASE DeployFails(t)
  BY <1>5, CheckStep DEF DeployFails, JobAt
<1>6. CASE DeployEnd(t)
  BY <1>6, DeployEndInv
<1>7. CASE TeardownCheck(t)
  BY <1>7, CheckStep DEF TeardownCheck, JobAt
<1>8. CASE TeardownDown(t)
  BY <1>8, TeardownDownInv
<1>9. CASE TeardownFails(t)
  BY <1>9, CheckStep DEF TeardownFails, JobAt
<1>10. CASE TeardownRemove(t)
  BY <1>10, TeardownRemoveInv
<1> QED
  BY <1>1, <1>2, <1>3, <1>4, <1>5, <1>6, <1>7, <1>8, <1>9, <1>10 DEF Job

-----------------------------------------------------------------------------
(* Reloads, crashes and starts.                                            *)

\* What is under way keeps the jobs allowed when the configuration that comes
\* in has no blocking issues; while the daemon is down nothing is under way.
LEMMA ReloadInv == ASSUME Inv, Reload PROVE Inv'
<1> USE DEF Inv
<1>1. /\ phase \in {"up", "down"} /\ version' \in version + 1 .. Len(History)
      /\ phase = "up" => version' \notin Broken
      /\ trigger' \in BOOLEAN
      /\ UNCHANGED <<scenario, applied, saved, loop, head, jobs, run, files, up, record, unsaved,
                     phase, faults, crashes>>
  BY DEF Reload, remote, host, index, budget
<1>2. History' = History /\ Broken' = Broken
  BY <1>1 DEF History, Broken
<1>3. version' \in DOMAIN History
  <2>1. version \in 1..Len(History) /\ Len(History) \in Nat /\ DOMAIN History = 1..Len(History)
    BY HistoryFacts, IntakeTypes
  <2> QED
    BY <1>1, <2>1
<1>4. TypeOK'
  BY <1>1, <1>2, <1>3 DEF TypeOK
<1>5. LoopSound'
  <2>1. CASE phase = "up"
    BY <1>1, <1>2, <2>1 DEF LoopSound
  <2>2. CASE phase = "down"
    BY <1>1, <2>2 DEF LoopSound, NothingWhenDown, IdleLoop
  <2> QED
    BY <1>1, <2>1, <2>2
<1>6. JobsAllowed'
  <2>1. CASE phase = "up"
    <3>1. Allowed \subseteq Allowed'
      BY <1>1, <1>2, <2>1 DEF Allowed
    <3>2. jobs' \in [Targets -> Seq(Allowed')]
      BY <1>1, <3>1, SeqMonotone DEF JobsAllowed
    <3>3. \A t \in Targets : run'[t] # NoRun => run'[t].job \in Allowed'
      BY <1>1, <3>1 DEF JobsAllowed
    <3> QED
      BY <3>2, <3>3 DEF JobsAllowed
  <2>2. CASE phase = "down"
    <3>0. \A t \in Targets : jobs'[t] = <<>> /\ run'[t] = NoRun
      BY <1>1, <2>2 DEF NothingWhenDown
    <3>1. \A t \in Targets : jobs'[t] \in Seq(Allowed')
      BY <3>0, EmptySeqType
    <3>2. jobs' \in [Targets -> Seq(Allowed')]
      BY <1>1, <3>1 DEF JobsAllowed
    <3> QED
      BY <3>0, <3>2 DEF JobsAllowed
  <2> QED
    BY <1>1, <2>1, <2>2
<1>7. NothingWhenDown' /\ TargetsSound'
  BY <1>1 DEF NothingWhenDown, TargetsSound
<1> QED
  BY <1>4, <1>5, <1>6, <1>7

LEMMA CrashInv == ASSUME Inv, Crash PROVE Inv'
<1> USE DEF Inv
<1>1. /\ crashes < scenario.crashes /\ crashes' = crashes + 1 /\ phase' = "down"
      /\ trigger' = FALSE /\ loop' = IdleLoop /\ applied' = 0
      /\ jobs' = [t \in Targets |-> <<>>] /\ run' = [t \in Targets |-> NoRun]
      /\ UNCHANGED <<scenario, version, head, saved, files, up, record, unsaved, faults>>
  BY DEF Crash, remote, host, index
<1>2. History' = History
  BY <1>1 DEF History
<1>3. TypeOK'
  <2>1. crashes' \in 0..scenario.crashes
    BY <1>1, ReconcileAssumption DEF TypeOK
  <2>2. loop' \in LoopStates'
    BY <1>1, <1>2, IdleLoopType DEF LoopStates
  <2>3. applied' \in 0..Len(History)
    BY <1>1, HistoryFacts
  <2>4. jobs' \in [Targets -> Seq(AJob)] /\ run' \in [Targets -> {NoRun} \cup RunStates]
    BY <1>1
  <2> QED
    BY <1>1, <1>2, <2>1, <2>2, <2>3, <2>4 DEF TypeOK, LoopStates, RunStates
<1>4. LoopSound' /\ NothingWhenDown'
  BY <1>1 DEF LoopSound, NothingWhenDown, IdleLoop
<1>5. JobsAllowed'
  BY <1>1 DEF JobsAllowed
<1>6. TargetsSound'
  BY <1>1, HostTypes DEF TargetsSound, TargetSound, NoRun
<1> QED
  BY <1>3, <1>4, <1>5, <1>6

LEMMA RestartInv == ASSUME Inv, Restart PROVE Inv'
<1> USE DEF Inv
<1>1. /\ phase = "down" /\ phase' = "starting" /\ trigger' = TRUE /\ applied' \in {saved, 0}
      /\ (Fault \/ UNCHANGED budget)
      /\ record' = [t \in Targets |-> IF record[t].status = "running"
                                      THEN [record[t] EXCEPT !.status = "failed"] ELSE record[t]]
      /\ UNCHANGED <<scenario, version, head, saved, loop, jobs, run, files, up, unsaved>>
  BY DEF Restart, host
<1>2. History' = History /\ Broken' = Broken /\ Allowed' = Allowed
  BY <1>1 DEF History, Broken, Allowed
<1>3. ASSUME NEW t \in Targets
      PROVE  record'[t] \in Records /\ (record[t] # NoRecord => record'[t] # NoRecord)
  <2>1. record[t] \in Records
    BY HostTypes
  <2>2. CASE record[t].status = "running"
    <3>1. record'[t] = [sha |-> record[t].sha, status |-> "failed"]
      BY <1>1, <2>1, <2>2 DEF Records
    <3> QED
      BY <2>1, <3>1 DEF Records, NoRecord
  <2>3. CASE record[t].status # "running"
    BY <1>1, <2>1, <2>3
  <2> QED
    BY <2>2, <2>3
<1>4. TypeOK'
  <2>1. faults' \in 0..scenario'.faults /\ crashes' \in 0..scenario'.crashes
    BY <1>1, BudgetType
  <2>2. record' \in [Targets -> Records]
    BY <1>1, <1>3
  <2>3. applied' \in 0..Len(History)
    BY <1>1, HistoryFacts, IntakeTypes
  <2> QED
    BY <1>1, <1>2, <2>1, <2>2, <2>3 DEF TypeOK, Records
<1>5. LoopSound' /\ NothingWhenDown'
  BY <1>1, SameLoopSound DEF NothingWhenDown
<1>6. JobsAllowed'
  BY <1>1, <1>2 DEF JobsAllowed
<1>7. TargetsSound'
  <2>1. ASSUME NEW t \in Targets PROVE TargetSound(run[t], up[t], record'[t], t \in unsaved)
    BY <1>3, HostTypes DEF TargetSound
  <2> QED
    BY <1>1, <2>1 DEF TargetsSound
<1> QED
  BY <1>4, <1>5, <1>6, <1>7

LEMMA NextInv == Inv /\ [Next]_vars => Inv'
<1> SUFFICES ASSUME Inv, [Next]_vars PROVE Inv'
  OBVIOUS
<1>1. CASE Reload
  BY <1>1, ReloadInv
<1>2. CASE Push
  BY <1>2, PushInv
<1>3. CASE Loop
  BY <1>3, LoopReceiveInv, PassInv, RemovalsDoneInv, AdditionsDoneInv, PassDoneInv,
     ReconcileRemovalsInv, ReconcileDeploysInv DEF Loop
<1>4. CASE \E t \in Targets : Job(t)
  BY <1>4, JobInv
<1>5. CASE Crash
  BY <1>5, CrashInv
<1>6. CASE Startup
  BY <1>6, RestartInv, ResumeInv DEF Startup
<1>7. CASE UNCHANGED vars
  <2>1. UNCHANGED <<scenario, version, trigger, head, applied, saved, loop, jobs, run, files, up,
                    record, unsaved, phase, faults, crashes>>
    BY <1>7 DEF vars, intake, remote, host, index, budget
  <2>2. History' = History /\ Allowed' = Allowed
    BY <2>1 DEF History, Broken, Allowed
  <2>3. LoopSound'
    BY <2>1, SameLoopSound DEF Inv
  <2>4. TypeOK'
    BY <2>1, <2>2 DEF TypeOK, Inv
  <2>5. (JobsAllowed /\ NothingWhenDown /\ TargetsSound)'
    BY <2>1, <2>2 DEF JobsAllowed, NothingWhenDown, TargetsSound, Inv
  <2> QED
    BY <2>3, <2>4, <2>5 DEF Inv
<1> QED
  BY <1>1, <1>2, <1>3, <1>4, <1>5, <1>6, <1>7 DEF Next

-----------------------------------------------------------------------------
(* Theorems.                                                               *)

\* What a pass of the reconcile loop has left, which jobs there are and how
\* far each has come, in every reachable state.
THEOREM ReconcileInvariant == Spec => []Inv
BY InitInv, NextInv, PTL DEF Spec

\* The types hold; with them, every teardown and deploy job of the loop, of a
\* push and of the resume fan-out has a real placement to work on.
THEOREM JobsHavePlaces == Spec => []TypeOK
<1>1. Inv => TypeOK
  BY DEF Inv
<1> QED
  BY <1>1, ReconcileInvariant, PTL

\* deployTarget writes the record before the containers come up, and teardown
\* deletes it after they are down: what runs is always in the index.
THEOREM RunningStaysRecorded == Spec => []RunningIsRecorded
<1>1. Inv => RunningIsRecorded
  BY DEF Inv, TargetsSound, TargetSound, RunningIsRecorded
<1> QED
  BY <1>1, ReconcileInvariant, PTL

\* A teardown stops containers only under a configuration without blocking
\* issues (reconcileOnce, applyConfigChange), whatever was queued before.
THEOREM BrokenTakesNothingDown == Spec => BrokenKeepsRunning
<1> DEFINE A == \A t \in Targets : version \in Broken /\ up[t] # NotUp => up'[t] # NotUp
<1>1. Inv /\ [Next]_vars => [A]_vars
  <2> SUFFICES ASSUME Inv, Next, NEW t \in Targets, version \in Broken, up[t] # NotUp
               PROVE  up'[t] # NotUp
    OBVIOUS
  <2>1. CASE UNCHANGED up
    BY <2>1
  <2>2. ASSUME NEW s \in Targets, DeployUp(s) PROVE up'[t] # NotUp
    <3>1. CASE s # t
      BY <2>2, <3>1, HostTypes DEF DeployUp
    <3>2. CASE s = t
      <4>1. run[t].job.sha # 0
        BY <2>2, <3>2, RunFacts DEF DeployUp, JobAt, Allowed
      <4>2. up'[t] = [at |-> run[t].job.at, sha |-> run[t].job.sha]
        BY <2>2, <3>2, HostTypes DEF DeployUp
      <4> QED
        BY <4>1, <4>2 DEF NotUp
    <3> QED
      BY <3>1, <3>2
  <2>3. ASSUME NEW s \in Targets, TeardownDown(s) PROVE FALSE
    BY <2>3, RunFacts DEF TeardownDown, JobAt, Allowed
  <2>4. \/ UNCHANGED up
        \/ \E s \in Targets : DeployUp(s) \/ TeardownDown(s)
    <3>1. CASE \E s \in Targets : Job(s)
      BY <3>1 DEF Job, JobStart, DeployCheck, DeployRecord, DeployFails, DeployEnd, TeardownCheck,
         TeardownFails, TeardownRemove, remote, host
    <3>2. CASE Loop
      BY <3>2 DEF Loop, LoopReceive, Pass, RemovalsDone, AdditionsDone, PassDone, ReconcileRemovals,
         ReconcileAdditions, ReconcileProjectChanges, remote, host
    <3>3. CASE Reload \/ Push \/ Crash \/ Startup
      BY <3>3 DEF Reload, Push, Crash, Startup, Restart, ResumeIncompleteDeploys, remote, host
    <3> QED
      BY <3>1, <3>2, <3>3 DEF Next
  <2> QED
    BY <2>1, <2>2, <2>3, <2>4
<1>2. BrokenKeepsRunning <=> [][A]_vars
  BY DEF BrokenKeepsRunning
<1> QED
  BY <1>1, <1>2, ReconcileInvariant, PTL DEF Spec
=============================================================================
