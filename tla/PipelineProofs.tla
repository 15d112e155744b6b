--------------------------- MODULE PipelineProofs ---------------------------
(***************************************************************************)
(* The records of the deploy pipeline can be relied on, for any number of  *)
(* targets, commits, manual deploys, faults and crashes, in every trigger  *)
(* mode and with jobs in any order.  Inv is inductive: it adds to the two  *)
(* promises that commits are known to the remote before anybody works on   *)
(* them, and how far the job under each project lock has come.             *)
(***************************************************************************)
EXTENDS Pipeline, TLAPS

ProcStates ==
    [pc : {"idle", "reload", "read", "save", "decide", "plan", "fanout"},
     sha : Shas, copy : Shas, todo : SUBSET Targets]

\* A goroutine that works has a commit, and that of a delivery has its own;
\* none has a commit that the Git server does not have.
GoodProc(p, state, known) ==
    /\ state \in ProcStates
    /\ state.sha <= known /\ state.copy <= known
    /\ state.pc # "idle" => state.sha # 0
    /\ p \in Commits /\ state.pc # "idle" => state.sha = p

KnownCommits ==
    /\ mirror <= remote /\ lastDeployed <= remote
    /\ \A p \in Procs : GoodProc(p, proc[p], remote)

JobsUpTo(c) == [sha : 1..c, redeploy : BOOLEAN]

KnownJobs ==
    /\ jobs \in [Targets -> Seq(JobsUpTo(remote))]
    /\ \A t \in Targets : run[t].job.sha <= remote

\* A process that is down has neither goroutines nor jobs.
NothingWhenDown ==
    phase = "down" => /\ \A p \in Procs : proc[p] = Idle
                      /\ \A t \in Targets : jobs[t] = <<>> /\ run[t] = NoRun

\* The job under the lock has its commit in the mirror once it fetched, and its
\* containers on the host once it brought them up.
JobProgress ==
    \A t \in Targets :
        /\ run[t].pc = "none" => run[t] = NoRun
        /\ run[t].pc \in {"up", "save"} => run[t].job.sha <= mirror
        /\ run[t].pc = "save" => host[t] = run[t].job.sha

Inv ==
    /\ TypeOK /\ KnownCommits /\ KnownJobs /\ NothingWhenDown /\ JobProgress
    /\ RunningMeansLocked /\ SuccessMatchesHost

-----------------------------------------------------------------------------
(* Lemmas about the helpers.                                               *)

LEMMA SeqMonotone ==
    ASSUME NEW S, NEW T, S \subseteq T, NEW s \in Seq(S)
    PROVE  s \in Seq(T)
<1>1. Len(s) \in Nat /\ s \in [1..Len(s) -> S]
  OBVIOUS
<1>2. s \in [1..Len(s) -> T]
  BY <1>1
<1> QED
  BY <1>1, <1>2

LEMMA RemoveAtType ==
    ASSUME NEW S, NEW s \in Seq(S), NEW n \in DOMAIN s
    PROVE  RemoveAt(s, n) \in Seq(S)
<1>1. Len(s) \in Nat /\ n \in 1..Len(s)
  OBVIOUS
<1>2. SubSeq(s, 1, n - 1) \in Seq(S) /\ SubSeq(s, n + 1, Len(s)) \in Seq(S)
  BY <1>1
<1> QED
  BY <1>2 DEF RemoveAt

LEMMA BudgetType ==
    ASSUME TypeOK, Fault \/ UNCHANGED budget
    PROVE  manual' \in 0..MaxManual /\ faults' \in 0..MaxFaults /\ crashes' \in 0..MaxCrashes
BY PipelineAssumption DEF TypeOK, Fault, budget

\* The jobs that there are stay good when the branch grows.
LEMMA JobsGrow ==
    ASSUME NEW c \in Nat, NEW d \in Nat, c <= d, NEW s \in Seq(JobsUpTo(c))
    PROVE  s \in Seq(JobsUpTo(d))
<1>1. JobsUpTo(c) \subseteq JobsUpTo(d)
  BY DEF JobsUpTo
<1> QED
  BY <1>1, SeqMonotone

LEMMA Numbers ==
    ASSUME TypeOK
    PROVE  /\ MaxCommit \in Nat \ {0}
           /\ remote \in Nat /\ remote \in 1..MaxCommit
           /\ mirror \in Nat /\ mirror \in 0..MaxCommit
           /\ lastDeployed \in Nat /\ lastDeployed \in 0..MaxCommit
           /\ Poller \in Procs /\ Resume \in Procs /\ Manual \in Procs /\ Commits \subseteq Procs
           /\ Poller \notin Commits /\ Resume \notin Commits /\ Manual \notin Commits
BY PipelineAssumption DEF TypeOK, Commits, Shas, Poller, Resume, Manual, Procs

\* Jobs up to the head are the jobs of TypeOK.
LEMMA JobsType ==
    ASSUME NEW c \in 1..MaxCommit, NEW js \in [Targets -> Seq(JobsUpTo(c))]
    PROVE  js \in [Targets -> Seq([sha : Commits, redeploy : BOOLEAN])]
<1>1. ASSUME NEW t \in Targets PROVE js[t] \in Seq([sha : Commits, redeploy : BOOLEAN])
  <2>1. js[t] \in Seq(JobsUpTo(MaxCommit))
    BY PipelineAssumption, JobsGrow
  <2> QED
    BY <2>1 DEF JobsUpTo, Commits
<1> QED
  BY <1>1

LEMMA ProcUpdate ==
    ASSUME NEW known, NEW p \in Procs, NEW state, GoodProc(p, state, known),
           \A q \in Procs : GoodProc(q, proc[q], known),
           proc \in [Procs -> ProcStates],
           proc' = [proc EXCEPT ![p] = state]
    PROVE  proc' \in [Procs -> ProcStates] /\ \A q \in Procs : GoodProc(q, proc'[q], known)
<1>1. state \in ProcStates
  BY DEF GoodProc
<1> QED
  BY <1>1

-----------------------------------------------------------------------------
(* Intake: what goroutines do before their jobs exist.                     *)

\* Goroutine p goes on as state; records, host and running jobs are left alone.
LEMMA IntakeStep ==
    ASSUME Inv, NEW p \in Procs, NEW state, GoodProc(p, state, remote),
           proc' = [proc EXCEPT ![p] = state],
           phase # "down", phase' \in {"up", "resume"},
           mirror' \in 0..MaxCommit, mirror <= mirror', mirror' <= remote,
           lastDeployed' \in 0..MaxCommit, lastDeployed' <= remote,
           jobs' \in [Targets -> Seq(JobsUpTo(remote))],
           manual' \in 0..MaxManual, faults' \in 0..MaxFaults, crashes' \in 0..MaxCrashes,
           UNCHANGED <<remote, index, unsaved, host, run>>
    PROVE  Inv'
<1>1. proc' \in [Procs -> ProcStates] /\ \A q \in Procs : GoodProc(q, proc'[q], remote)
  BY ProcUpdate DEF Inv, KnownCommits, TypeOK, ProcStates
<1>2. jobs' \in [Targets -> Seq([sha : Commits, redeploy : BOOLEAN])]
  BY Numbers, JobsType DEF Inv
<1>3. TypeOK'
  BY <1>1, <1>2 DEF Inv, TypeOK, ProcStates, Shas
<1>4. KnownCommits' /\ KnownJobs'
  BY <1>1 DEF KnownCommits, KnownJobs, Inv
<1>5. NothingWhenDown'
  BY DEF NothingWhenDown
<1>6. mirror \in Nat /\ mirror' \in Nat
  BY Numbers DEF Inv
<1>7. JobProgress'
  <2> SUFFICES ASSUME NEW t \in Targets, run[t].pc \in {"up", "save"} PROVE run[t].job.sha <= mirror'
    BY DEF Inv, JobProgress
  <2>1. run[t].job \in [sha : Shas, redeploy : BOOLEAN]
    BY DEF Inv, TypeOK
  <2>2. run[t].job.sha \in 0..MaxCommit
    BY <2>1 DEF Shas
  <2>3. run[t].job.sha <= mirror
    BY DEF Inv, JobProgress
  <2> QED
    BY <1>6, <2>2, <2>3
<1>8. RunningMeansLocked'
  BY DEF Inv, RunningMeansLocked
<1>9. SuccessMatchesHost'
  <2> SUFFICES ASSUME NEW t \in Targets \ unsaved, index[t].status = "success"
               PROVE  host[t] = index[t].sha /\ host[t] <= mirror'
    BY DEF SuccessMatchesHost
  <2>1. host[t] \in 0..MaxCommit
    BY DEF Inv, TypeOK, Shas
  <2>2. host[t] = index[t].sha /\ host[t] <= mirror
    BY DEF Inv, SuccessMatchesHost
  <2> QED
    BY <1>6, <2>1, <2>2
<1> QED
  BY <1>3, <1>4, <1>5, <1>7, <1>8, <1>9 DEF Inv

\* What IntakeStep asks of the variables that a step leaves alone.
LEMMA Standing ==
    ASSUME Inv
    PROVE  /\ mirror \in 0..MaxCommit /\ mirror <= mirror /\ mirror <= remote
           /\ lastDeployed \in 0..MaxCommit /\ lastDeployed <= remote
           /\ jobs \in [Targets -> Seq(JobsUpTo(remote))]
           /\ manual \in 0..MaxManual /\ faults \in 0..MaxFaults /\ crashes \in 0..MaxCrashes
<1>1. mirror \in 0..MaxCommit /\ mirror <= mirror /\ lastDeployed \in 0..MaxCommit
  BY Numbers DEF Inv
<1> QED
  BY <1>1 DEF Inv, TypeOK, KnownCommits, KnownJobs

LEMMA WorkingMeansUp ==
    ASSUME Inv, NEW p \in Procs, proc[p].pc # "idle"
    PROVE  /\ phase # "down" /\ phase \in {"up", "resume"}
           /\ GoodProc(p, proc[p], remote) /\ proc[p].sha \in 1..remote
<1>1. phase # "down" /\ phase \in {"up", "resume"}
  BY DEF Inv, NothingWhenDown, Idle, TypeOK
<1>2. GoodProc(p, proc[p], remote)
  BY DEF Inv, KnownCommits
<1>3. proc[p].sha \in 1..remote
  BY <1>2, Numbers DEF GoodProc, ProcStates, Shas, Inv
<1> QED
  BY <1>1, <1>2, <1>3

LEMMA IdleIsGood ==
    ASSUME Inv, NEW p
    PROVE  GoodProc(p, Idle, remote)
BY Numbers DEF GoodProc, Idle, ProcStates, Shas, Inv

\* What Planned makes of a goroutine.
PlannedState(sha, todo) ==
    IF todo = {} THEN Idle ELSE [pc |-> "fanout", sha |-> sha, copy |-> 0, todo |-> todo]

LEMMA PlannedIsGood ==
    ASSUME Inv, NEW p \in Procs, NEW sha \in 1..remote, NEW todo \in SUBSET Targets,
           p \in Commits => sha = p, Planned(p, sha, todo)
    PROVE  /\ GoodProc(p, PlannedState(sha, todo), remote)
           /\ proc' = [proc EXCEPT ![p] = PlannedState(sha, todo)]
<1>1. proc' = [proc EXCEPT ![p] = PlannedState(sha, todo)]
  BY DEF Planned, PlannedState
<1>2. sha \in Shas /\ sha # 0 /\ 0 \in Shas /\ 0 <= remote /\ sha <= remote
  BY Numbers DEF Inv, Shas
<1>3. CASE todo = {}
  BY <1>1, <1>3, IdleIsGood DEF PlannedState
<1>4. CASE todo # {}
  BY <1>1, <1>2, <1>4 DEF PlannedState, GoodProc, ProcStates
<1> QED
  BY <1>3, <1>4

\* Each step of a goroutine leaves what IntakeStep asks to be left alone.
LEMMA MakePushHandlerStep ==
    ASSUME Inv, NEW p \in Procs, MakePushHandler(p)
    PROVE  Inv'
<1>1. proc[p].pc = "fanout" /\ UNCHANGED <<remote, mirror, lastDeployed, index, unsaved, host, phase, run, manual, faults, crashes>>
  BY DEF MakePushHandler, durable, records, budget
<1>2. PICK t \in proc[p].todo :
          /\ Planned(p, proc[p].sha, proc[p].todo \ {t})
          /\ jobs' = IF p # Manual /\ ShouldSkipDeploy(t, proc[p].sha) THEN jobs
                     ELSE [jobs EXCEPT ![t] = Append(@, [sha |-> proc[p].sha, redeploy |-> p = Manual])]
  BY DEF MakePushHandler
<1>3. /\ phase # "down" /\ phase \in {"up", "resume"} /\ proc[p].sha \in 1..remote
      /\ p \in Commits => proc[p].sha = p
      /\ proc[p].todo \in SUBSET Targets
  BY <1>1, WorkingMeansUp DEF GoodProc, ProcStates
<1>4. jobs' \in [Targets -> Seq(JobsUpTo(remote))]
  <2>1. [sha |-> proc[p].sha, redeploy |-> p = Manual] \in JobsUpTo(remote)
    BY <1>3 DEF JobsUpTo
  <2>2. jobs \in [Targets -> Seq(JobsUpTo(remote))] /\ t \in Targets
    BY <1>3 DEF Inv, KnownJobs
  <2>3. Append(jobs[t], [sha |-> proc[p].sha, redeploy |-> p = Manual]) \in Seq(JobsUpTo(remote))
    BY <2>1, <2>2
  <2> QED
    BY <1>2, <2>2, <2>3
<1>5. /\ GoodProc(p, PlannedState(proc[p].sha, proc[p].todo \ {t}), remote)
      /\ proc' = [proc EXCEPT ![p] = PlannedState(proc[p].sha, proc[p].todo \ {t})]
  BY <1>2, <1>3, PlannedIsGood
<1> QED
  BY <1>1, <1>3, <1>4, <1>5, IntakeStep, Standing

LEMMA buildDeployFuncStep ==
    ASSUME Inv, buildDeployFunc
    PROVE  Inv'
<1>1. /\ phase = "up" /\ resolveMirror # 0
      /\ UNCHANGED <<remote, mirror, lastDeployed, index, unsaved, host, phase, jobs, run, faults, crashes>>
  BY DEF buildDeployFunc, Listening, durable, records
<1>2. PICK todo \in SUBSET Targets : Planned(Manual, resolveMirror, todo)
  BY DEF buildDeployFunc
<1>3. manual' \in 0..MaxManual
  BY PipelineAssumption DEF buildDeployFunc, Inv, TypeOK
<1>4. resolveMirror \in 1..remote /\ Manual \in Procs /\ Manual \notin Commits
  BY <1>1, Numbers DEF resolveMirror, Inv, KnownCommits
<1>5. /\ GoodProc(Manual, PlannedState(resolveMirror, todo), remote)
      /\ proc' = [proc EXCEPT ![Manual] = PlannedState(resolveMirror, todo)]
  BY <1>2, <1>4, PlannedIsGood
<1> QED
  BY <1>1, <1>3, <1>4, <1>5, IntakeStep, Standing

\* SaveRepoState stores the commit it is given, or nothing.
LEMMA SaveRepoStateEffect ==
    ASSUME Inv, NEW sha \in 0..remote, SaveRepoState(sha)
    PROVE  /\ lastDeployed' \in 0..MaxCommit /\ lastDeployed' <= remote
           /\ manual' \in 0..MaxManual /\ faults' \in 0..MaxFaults /\ crashes' \in 0..MaxCrashes
<1>1. Fault \/ UNCHANGED budget
  BY DEF SaveRepoState
<1>2. lastDeployed' \in {sha, lastDeployed}
  BY DEF SaveRepoState
<1> QED
  BY <1>1, <1>2, BudgetType, Numbers DEF Inv, KnownCommits

LEMMA WebhookStep ==
    ASSUME Inv, NEW c \in Commits, Webhook(c)
    PROVE  Inv'
<1>1. c \in Procs /\ proc[c].pc # "idle"
  BY Numbers DEF Webhook, WebhookReload, WebhookRead, WebhookSave, Inv
<1>2. /\ phase # "down" /\ phase \in {"up", "resume"}
      /\ GoodProc(c, proc[c], remote) /\ proc[c].sha \in 1..remote /\ proc[c].sha = c
  BY <1>1, WorkingMeansUp DEF GoodProc
<1>3. proc[c] \in ProcStates /\ proc[c].copy <= remote
  BY <1>2 DEF GoodProc
<1>4. CASE WebhookReload(c)
  <2>1. /\ UNCHANGED <<remote, mirror, lastDeployed, index, unsaved, host, phase, jobs, run>>
        /\ Fault \/ UNCHANGED budget
    BY <1>4 DEF WebhookReload, durable, records
  <2>2. \/ proc' = [proc EXCEPT ![c] = Idle]
        \/ proc' = [proc EXCEPT ![c] = [proc[c] EXCEPT !.pc = "read"]]
    BY <1>4 DEF WebhookReload
  <2>3. GoodProc(c, [proc[c] EXCEPT !.pc = "read"], remote)
    BY <1>2, <1>3 DEF GoodProc, ProcStates
  <2> QED
    BY <1>1, <1>2, <2>1, <2>2, <2>3, IdleIsGood, IntakeStep, BudgetType, Standing DEF Inv
<1>5. CASE WebhookRead(c)
  <2>1. UNCHANGED <<remote, mirror, lastDeployed, index, unsaved, host, phase, jobs, run, manual, faults, crashes>>
    BY <1>5 DEF WebhookRead, durable, records, budget
  <2> DEFINE state == [proc[c] EXCEPT !.pc = "save", !.copy = lastDeployed]
  <2>2. proc' = [proc EXCEPT ![c] = state]
    BY <1>5 DEF WebhookRead
  <2>3. GoodProc(c, state, remote)
    <3>1. lastDeployed \in Shas /\ lastDeployed <= remote
      BY Standing DEF Shas
    <3>2. state \in ProcStates
      BY <1>3, <3>1 DEF ProcStates
    <3>3. state.sha = proc[c].sha /\ state.copy = lastDeployed
      BY <1>3 DEF ProcStates
    <3> QED
      BY <1>2, <3>1, <3>2, <3>3 DEF GoodProc
  <2> HIDE DEF state
  <2> QED
    BY <1>1, <1>2, <2>1, <2>2, <2>3, IntakeStep, Standing
<1>6. CASE WebhookSave(c)
  <2> DEFINE todo == IF proc[c].copy = 0 THEN Targets ELSE Touches[c]
  <2>1. /\ UNCHANGED <<remote, mirror, index, unsaved, host, phase, jobs, run>>
        /\ SaveRepoState(c) /\ Planned(c, c, todo)
    BY <1>6 DEF WebhookSave, records
  <2>2. c \in 1..remote /\ c \in 0..remote /\ todo \in SUBSET Targets
    BY <1>2, PipelineAssumption, Numbers DEF Inv, Commits
  <2>3. /\ GoodProc(c, PlannedState(c, todo), remote)
        /\ proc' = [proc EXCEPT ![c] = PlannedState(c, todo)]
    BY <1>1, <2>1, <2>2, PlannedIsGood
  <2> HIDE DEF todo
  <2> QED
    BY <1>1, <1>2, <2>1, <2>2, <2>3, SaveRepoStateEffect, IntakeStep, Standing
<1> QED
  BY <1>4, <1>5, <1>6 DEF Webhook

\* The targets a head is planned for are targets.
LEMMA PendingAreTargets ==
    ASSUME NEW head
    PROVE  PendingTargetsForHead(head) \in SUBSET Targets
BY DEF PendingTargetsForHead

LEMMA PollTickStep ==
    ASSUME Inv, PollTick
    PROVE  Inv'
<1>1. /\ phase = "up"
      /\ UNCHANGED <<remote, mirror, lastDeployed, index, unsaved, host, phase, jobs, run>>
      /\ Fault \/ UNCHANGED budget
  BY DEF PollTick, Listening, durable, records
<1>2. PICK sha \in 1..remote : proc' = [proc EXCEPT ![Poller] = [Idle EXCEPT !.pc = "read", !.sha = sha]]
  BY DEF PollTick
<1> DEFINE state == [Idle EXCEPT !.pc = "read", !.sha = sha]
<1>3. Poller \in Procs /\ Poller \notin Commits /\ sha \in Shas /\ 0 \in Shas /\ sha <= remote /\ 0 <= remote /\ sha # 0
  BY Numbers DEF Inv, Shas
<1>4. state \in ProcStates /\ state.sha = sha /\ state.copy = 0
  BY <1>3 DEF Idle, ProcStates
<1>5. GoodProc(Poller, state, remote)
  BY <1>3, <1>4 DEF GoodProc
<1>6. proc' = [proc EXCEPT ![Poller] = state]
  BY <1>2
<1> HIDE DEF state
<1> QED
  BY <1>1, <1>3, <1>5, <1>6, IntakeStep, Standing, BudgetType DEF Inv

LEMMA PollStep ==
    ASSUME Inv, Poll
    PROVE  Inv'
<1>1. Poller \in Procs /\ Poller \notin Commits /\ proc[Poller].pc # "idle"
  BY Numbers DEF Poll, PollRead, PollReturn, PollDefer, PollFetch, PollPlan, PollSave, Inv
<1> DEFINE me == proc[Poller]
<1>2. /\ phase # "down" /\ phase \in {"up", "resume"}
      /\ GoodProc(Poller, me, remote) /\ me.sha \in 1..remote
  BY <1>1, WorkingMeansUp
<1>3. me \in ProcStates /\ me.copy <= remote /\ me.copy \in 0..remote /\ me.sha \in 0..remote
  BY <1>2, Numbers DEF GoodProc, ProcStates, Shas, Inv
<1>4. CASE PollRead
  <2> DEFINE state == [me EXCEPT !.pc = "decide", !.copy = lastDeployed]
  <2>1. UNCHANGED <<remote, mirror, lastDeployed, index, unsaved, host, phase, jobs, run, manual, faults, crashes>>
    BY <1>4 DEF PollRead, durable, records, budget
  <2>2. proc' = [proc EXCEPT ![Poller] = state]
    BY <1>4 DEF PollRead
  <2>3. lastDeployed \in Shas /\ lastDeployed <= remote
    BY Standing DEF Shas
  <2>4. state \in ProcStates /\ state.sha = me.sha /\ state.copy = lastDeployed
    BY <1>3, <2>3 DEF ProcStates
  <2>5. GoodProc(Poller, state, remote)
    BY <1>1, <1>2, <2>3, <2>4 DEF GoodProc
  <2> HIDE DEF state
  <2> QED
    BY <1>1, <1>2, <2>1, <2>2, <2>5, IntakeStep, Standing
<1>5. CASE PollReturn
  <2>1. /\ UNCHANGED <<remote, mirror, index, unsaved, host, phase, jobs, run>>
        /\ SaveRepoState(me.copy) /\ proc' = [proc EXCEPT ![Poller] = Idle]
    BY <1>5 DEF PollReturn, PollGiveUp, records
  <2> QED
    BY <1>1, <1>2, <1>3, <2>1, IdleIsGood, SaveRepoStateEffect, IntakeStep, Standing
<1>6. CASE PollDefer
  <2>1. /\ UNCHANGED <<remote, mirror, index, unsaved, host, phase, jobs, run>>
        /\ lastDeployed' \in {me.copy, lastDeployed} /\ proc' = [proc EXCEPT ![Poller] = Idle]
        /\ Fault
    BY <1>6 DEF PollDefer, PollGiveUp, records
  <2>2. lastDeployed' \in 0..MaxCommit /\ lastDeployed' <= remote
    BY <1>3, <2>1, Standing, Numbers DEF Inv
  <2> QED
    BY <1>1, <1>2, <2>1, <2>2, IdleIsGood, BudgetType, IntakeStep, Standing DEF Inv
<1>7. CASE PollFetch
  <2> DEFINE state == [me EXCEPT !.pc = "plan"]
  <2>1. UNCHANGED <<remote, lastDeployed, index, unsaved, host, phase, jobs, run, manual, faults, crashes>>
    BY <1>7 DEF PollFetch, records, budget
  <2>2. proc' = [proc EXCEPT ![Poller] = state] /\ mirror' \in {mirror, remote}
    BY <1>7 DEF PollFetch
  <2>3. GoodProc(Poller, state, remote)
    BY <1>1, <1>2, <1>3 DEF GoodProc, ProcStates
  <2>4. mirror' \in 0..MaxCommit /\ mirror <= mirror' /\ mirror' <= remote
    BY <2>2, Standing, Numbers DEF Inv
  <2> HIDE DEF state
  <2> QED
    BY <1>1, <1>2, <2>1, <2>2, <2>3, <2>4, IntakeStep, Standing
<1>8. CASE PollPlan
  <2> DEFINE state == [me EXCEPT !.pc = "save", !.todo = PendingTargetsForHead(me.sha)]
  <2>1. UNCHANGED <<remote, mirror, lastDeployed, index, unsaved, host, phase, jobs, run, manual, faults, crashes>>
    BY <1>8 DEF PollPlan, durable, records, budget
  <2>2. proc' = [proc EXCEPT ![Poller] = state]
    BY <1>8 DEF PollPlan
  <2>3. state \in ProcStates /\ state.sha = me.sha /\ state.copy = me.copy
    BY <1>3, PendingAreTargets DEF ProcStates
  <2>4. GoodProc(Poller, state, remote)
    BY <1>1, <1>2, <1>3, <2>3 DEF GoodProc
  <2> HIDE DEF state
  <2> QED
    BY <1>1, <1>2, <2>1, <2>2, <2>4, IntakeStep, Standing
<1>9. CASE PollSave
  <2>1. /\ UNCHANGED <<remote, mirror, index, unsaved, host, phase, jobs, run>>
        /\ SaveRepoState(me.sha) /\ Planned(Poller, me.sha, me.todo)
    BY <1>9 DEF PollSave, records
  <2>2. me.todo \in SUBSET Targets
    BY <1>3 DEF ProcStates
  <2>3. /\ GoodProc(Poller, PlannedState(me.sha, me.todo), remote)
        /\ proc' = [proc EXCEPT ![Poller] = PlannedState(me.sha, me.todo)]
    BY <1>1, <1>2, <2>1, <2>2, PlannedIsGood
  <2> QED
    BY <1>1, <1>2, <1>3, <2>1, <2>3, SaveRepoStateEffect, IntakeStep, Standing
<1> QED
  BY <1>4, <1>5, <1>6, <1>7, <1>8, <1>9 DEF Poll

\* The head resume works at, if there is one, is a commit of the branch.
LEMMA ResumeStep ==
    ASSUME Inv, ResumeIncompleteDeploys
    PROVE  Inv'
<1> DEFINE todo == IF resolveMirror = 0 THEN {} ELSE PendingTargetsForHead(resolveMirror)
<1>1. /\ phase = "resume" /\ phase' = "up" /\ Planned(Resume, resolveMirror, todo)
      /\ UNCHANGED <<remote, mirror, lastDeployed, index, unsaved, host, jobs, run, manual, faults, crashes>>
  BY DEF ResumeIncompleteDeploys, durable, records, budget
<1>2. Resume \in Procs /\ Resume \notin Commits /\ todo \in SUBSET Targets
  BY Numbers, PendingAreTargets DEF Inv
<1>3. CASE resolveMirror = 0
  <2>1. proc' = [proc EXCEPT ![Resume] = Idle]
    BY <1>1, <1>3 DEF Planned
  <2> QED
    BY <1>1, <1>2, <2>1, IdleIsGood, IntakeStep, Standing
<1>4. CASE resolveMirror # 0
  <2>1. resolveMirror \in 1..remote
    BY <1>4, Numbers, Standing DEF resolveMirror, Inv
  <2>2. /\ GoodProc(Resume, PlannedState(resolveMirror, todo), remote)
        /\ proc' = [proc EXCEPT ![Resume] = PlannedState(resolveMirror, todo)]
    BY <1>1, <1>2, <2>1, PlannedIsGood
  <2> HIDE DEF todo
  <2> QED
    BY <1>1, <1>2, <2>2, IntakeStep, Standing
<1> QED
  BY <1>3, <1>4

\* A push: everybody's commits stay known, and the delivery has the new one.
LEMMA PushStep ==
    ASSUME Inv, Push
    PROVE  Inv'
<1>1. /\ remote' = remote + 1 /\ remote < MaxCommit
      /\ UNCHANGED <<mirror, lastDeployed, index, unsaved, host, phase, jobs, run, manual, faults, crashes>>
  BY DEF Push, records, budget
<1>2. /\ remote \in Nat /\ remote' \in Commits /\ remote' \in Procs /\ remote' \in Shas /\ remote' # 0
      /\ remote <= remote' /\ remote' <= remote' /\ 0 \in Shas /\ 0 <= remote'
  BY <1>1, Numbers DEF Inv, Commits, Shas
<1>3. \A p \in Procs : GoodProc(p, proc[p], remote')
  <2> SUFFICES ASSUME NEW p \in Procs PROVE GoodProc(p, proc[p], remote')
    OBVIOUS
  <2>1. GoodProc(p, proc[p], remote) /\ proc[p].sha \in Nat /\ proc[p].copy \in Nat
    BY DEF Inv, KnownCommits, GoodProc, ProcStates, Shas
  <2> QED
    BY <1>1, <1>2, <2>1 DEF GoodProc
<1> DEFINE state == [Idle EXCEPT !.pc = "reload", !.sha = remote']
<1>4. state \in ProcStates /\ state.sha = remote' /\ state.copy = 0
  BY <1>2 DEF Idle, ProcStates
<1>5. GoodProc(remote', state, remote')
  BY <1>2, <1>4 DEF GoodProc
<1>6. \/ UNCHANGED proc
      \/ phase = "up" /\ proc' = [proc EXCEPT ![remote'] = state]
  BY DEF Push, Listening
<1> HIDE DEF state
<1>7. proc' \in [Procs -> ProcStates] /\ \A p \in Procs : GoodProc(p, proc'[p], remote')
  <2>1. proc \in [Procs -> ProcStates]
    BY DEF Inv, TypeOK, ProcStates
  <2>2. CASE UNCHANGED proc
    BY <1>3, <2>1, <2>2
  <2>3. CASE proc' = [proc EXCEPT ![remote'] = state]
    BY <1>2, <1>3, <1>4, <1>5, <2>1, <2>3
  <2> QED
    BY <1>6, <2>2, <2>3
<1>8. TypeOK'
  BY <1>1, <1>2, <1>7 DEF Inv, TypeOK, ProcStates
<1>9. KnownCommits'
  BY <1>1, <1>2, <1>7, Standing, Numbers DEF Inv, KnownCommits
<1>10. KnownJobs'
  <2>1. \A t \in Targets : jobs[t] \in Seq(JobsUpTo(remote'))
    BY <1>1, <1>2, JobsGrow DEF Inv, KnownJobs
  <2>2. jobs' \in [Targets -> Seq(JobsUpTo(remote'))]
    BY <1>1, <2>1 DEF Inv, KnownJobs
  <2>3. \A t \in Targets : run[t].job.sha \in Nat /\ run[t].job.sha <= remote
    BY DEF Inv, KnownJobs, TypeOK, Shas
  <2> QED
    BY <1>1, <1>2, <2>2, <2>3 DEF KnownJobs
<1>11. NothingWhenDown' /\ JobProgress' /\ RunningMeansLocked' /\ SuccessMatchesHost'
  BY <1>1, <1>6 DEF Inv, NothingWhenDown, JobProgress, RunningMeansLocked, SuccessMatchesHost
<1> QED
  BY <1>8, <1>9, <1>10, <1>11 DEF Inv

-----------------------------------------------------------------------------
(* The job under the lock of target t.                                     *)

Runs == [pc : {"none", "fetch", "up", "save", "failed"}, job : [sha : Shas, redeploy : BOOLEAN]]

\* What the invariant says of one target.
TargetInv(t) ==
    /\ run[t].job.sha <= remote
    /\ run[t].pc = "none" => run[t] = NoRun
    /\ run[t].pc \in {"up", "save"} => run[t].job.sha <= mirror
    /\ run[t].pc = "save" => host[t] = run[t].job.sha
    /\ t \notin unsaved =>
          /\ index[t].status = "running" <=> run[t] # NoRun
          /\ index[t].status = "success" => host[t] = index[t].sha /\ host[t] <= mirror

\* Commits are numbers.
LEMMA ShaNumbers ==
    ASSUME Inv, NEW t \in Targets
    PROVE  run[t].job.sha \in Nat /\ host[t] \in Nat
<1>1. run[t] \in Runs /\ host[t] \in Shas
  BY DEF Inv, TypeOK, Runs
<1>2. run[t].job.sha \in Shas
  BY <1>1 DEF Runs
<1> QED
  BY <1>1, <1>2, PipelineAssumption DEF Shas

\* A job's step has to be looked at for its own target: it touches nothing of
\* the others, and the mirror only grows.
LEMMA JobStepOfOne ==
    ASSUME Inv, NEW t \in Targets, phase # "down",
           UNCHANGED <<remote, lastDeployed, phase, proc>>,
           mirror' \in 0..MaxCommit, mirror <= mirror', mirror' <= remote,
           index' \in [Targets -> [sha : Shas, status : Statuses]],
           unsaved' \in SUBSET Targets, host' \in [Targets -> Shas], run' \in [Targets -> Runs],
           jobs' \in [Targets -> Seq(JobsUpTo(remote))],
           manual' \in 0..MaxManual, faults' \in 0..MaxFaults, crashes' \in 0..MaxCrashes,
           \A u \in Targets \ {t} : /\ index'[u] = index[u] /\ (u \in unsaved' <=> u \in unsaved)
                                   /\ host'[u] = host[u] /\ run'[u] = run[u],
           TargetInv(t)'
    PROVE  Inv'
<1>1. jobs' \in [Targets -> Seq([sha : Commits, redeploy : BOOLEAN])]
  BY Numbers, JobsType DEF Inv
<1>2. TypeOK'
  BY <1>1 DEF Inv, TypeOK, Runs, Shas
<1>3. ASSUME NEW u \in Targets \ {t} PROVE TargetInv(u)'
  <2>1. TargetInv(u)
    BY DEF Inv, KnownJobs, JobProgress, RunningMeansLocked, SuccessMatchesHost, TargetInv
  <2>2. run[u].job.sha \in Nat /\ host[u] \in Nat /\ mirror \in Nat /\ mirror' \in Nat
    BY Numbers, ShaNumbers DEF Inv
  <2>3. /\ run'[u] = run[u] /\ host'[u] = host[u] /\ index'[u] = index[u]
        /\ (u \in unsaved' <=> u \in unsaved) /\ remote' = remote
    OBVIOUS
  <2>4. run[u].job.sha <= mirror => run[u].job.sha <= mirror'
    BY <2>2
  <2>5. host[u] <= mirror => host[u] <= mirror'
    BY <2>2
  <2> QED
    BY <2>1, <2>3, <2>4, <2>5 DEF TargetInv
<1>4. \A u \in Targets : TargetInv(u)'
  BY <1>3
<1>5. KnownCommits' /\ NothingWhenDown'
  BY DEF Inv, KnownCommits, NothingWhenDown
<1>6. KnownJobs' /\ JobProgress'
  BY <1>4 DEF KnownJobs, JobProgress, TargetInv
<1>7. RunningMeansLocked' /\ SuccessMatchesHost'
  BY <1>4 DEF RunningMeansLocked, SuccessMatchesHost, TargetInv
<1> QED
  BY <1>2, <1>5, <1>6, <1>7 DEF Inv

\* The variables of the targets, for the steps that leave them alone.
LEMMA TargetStanding ==
    ASSUME Inv, NEW t \in Targets
    PROVE  /\ index \in [Targets -> [sha : Shas, status : Statuses]] /\ unsaved \in SUBSET Targets
           /\ host \in [Targets -> Shas] /\ run \in [Targets -> Runs]
           /\ run[t] # NoRun => phase # "down"
           /\ phase # "down" => TargetInv(t)
           /\ mirror \in Nat /\ remote \in Nat /\ run[t].job.sha \in Nat
<1>1. mirror \in Nat /\ remote \in Nat /\ run[t].job.sha \in Nat
  BY Numbers, ShaNumbers DEF Inv
<1>2. phase # "down" => TargetInv(t)
  BY DEF Inv, KnownJobs, JobProgress, RunningMeansLocked, SuccessMatchesHost, TargetInv
<1>3. run[t] # NoRun => phase # "down"
  BY DEF Inv, NothingWhenDown
<1> QED
  BY <1>1, <1>2, <1>3 DEF Inv, TypeOK, Runs

LEMMA SaveEffect ==
    ASSUME Inv, NEW t \in Targets, NEW sha \in Shas, NEW status \in Statuses,
           SaveDeployment(t, sha, status)
    PROVE  /\ index' \in [Targets -> [sha : Shas, status : Statuses]] /\ unsaved' \in SUBSET Targets
           /\ \A u \in Targets \ {t} : index'[u] = index[u] /\ (u \in unsaved' <=> u \in unsaved)
           /\ t \notin unsaved' => index'[t] = [sha |-> sha, status |-> status]
           /\ manual' \in 0..MaxManual /\ faults' \in 0..MaxFaults /\ crashes' \in 0..MaxCrashes
<1>1. Fault \/ UNCHANGED budget
  BY DEF SaveDeployment
<1>2. manual' \in 0..MaxManual /\ faults' \in 0..MaxFaults /\ crashes' \in 0..MaxCrashes
  BY <1>1, BudgetType DEF Inv
<1>3. /\ index' \in [Targets -> [sha : Shas, status : Statuses]] /\ unsaved' \in SUBSET Targets
      /\ \A u \in Targets \ {t} : index'[u] = index[u] /\ (u \in unsaved' <=> u \in unsaved)
      /\ t \notin unsaved' => index'[t] = [sha |-> sha, status |-> status]
  <2>1. index \in [Targets -> [sha : Shas, status : Statuses]] /\ unsaved \in SUBSET Targets
    BY TargetStanding
  <2>2. CASE index' = [index EXCEPT ![t] = [sha |-> sha, status |-> status]] /\ unsaved' = unsaved \ {t}
    BY <2>1, <2>2
  <2>3. CASE unsaved' = unsaved \cup {t} /\ UNCHANGED index
    BY <2>1, <2>3
  <2> QED
    BY <2>2, <2>3 DEF SaveDeployment
<1> QED
  BY <1>2, <1>3

LEMMA JobStartStep ==
    ASSUME Inv, NEW t \in Targets, NEW n \in DOMAIN jobs[t], JobStart(t, n)
    PROVE  Inv'
<1> DEFINE job == jobs[t][n]
<1>1. /\ run[t] = NoRun /\ jobs' = [jobs EXCEPT ![t] = RemoveAt(@, n)]
      /\ UNCHANGED <<remote, mirror, lastDeployed, host, phase, proc>>
  BY DEF JobStart
<1>2. jobs \in [Targets -> Seq(JobsUpTo(remote))] /\ jobs[t] \in Seq(JobsUpTo(remote))
  BY DEF Inv, KnownJobs
<1>3. jobs' \in [Targets -> Seq(JobsUpTo(remote))]
  BY <1>1, <1>2, RemoveAtType
<1>4. job \in JobsUpTo(remote)
  BY <1>2
<1>5. job \in [sha : Shas, redeploy : BOOLEAN] /\ job.sha \in Shas /\ job.sha <= remote
  BY <1>4, Numbers DEF JobsUpTo, Shas, Inv
<1>6. phase # "down"
  BY DEF Inv, NothingWhenDown
<1> HIDE DEF job
<1>7. CASE DuplicateJob(t, job)
  <2>1. UNCHANGED <<run, index, unsaved, manual, faults, crashes>>
    BY <1>7 DEF JobStart, job, records, budget
  <2>2. TargetInv(t)'
    BY <1>1, <1>6, <2>1, TargetStanding DEF TargetInv
  <2> QED
    BY <1>1, <1>3, <1>6, <2>1, <2>2, JobStepOfOne, Standing, TargetStanding
<1>8. CASE ~DuplicateJob(t, job)
  <2>1. run' = [run EXCEPT ![t] = [pc |-> "fetch", job |-> job]] /\ SaveDeployment(t, job.sha, "running")
    BY <1>8 DEF JobStart, job
  <2>2. "running" \in Statuses
    BY DEF Statuses
  <2>3. /\ run' \in [Targets -> Runs] /\ run'[t] = [pc |-> "fetch", job |-> job]
        /\ \A u \in Targets \ {t} : run'[u] = run[u]
    BY <1>5, <2>1, TargetStanding DEF Runs
  <2>4. run'[t] # NoRun /\ run'[t].pc = "fetch" /\ run'[t].job.sha = job.sha
    BY <2>3 DEF NoRun
  <2>5. t \notin unsaved' => index'[t].status = "running"
    <3>1. t \notin unsaved' => index'[t] = [sha |-> job.sha, status |-> "running"]
      BY <1>5, <2>1, <2>2, SaveEffect
    <3> QED
      BY <3>1
  <2>6. TargetInv(t)'
    BY <1>1, <1>5, <2>4, <2>5 DEF TargetInv
  <2> QED
    BY <1>1, <1>3, <1>5, <1>6, <2>1, <2>2, <2>3, <2>6, JobStepOfOne, Standing, TargetStanding, SaveEffect
<1> QED
  BY <1>7, <1>8

\* The job under a lock goes on to another state.
LEMMA RunGoesOn ==
    ASSUME Inv, NEW t \in Targets, run[t].pc # "none",
           NEW where \in {"up", "save", "failed"}, run' = [run EXCEPT ![t].pc = where]
    PROVE  /\ phase # "down" /\ TargetInv(t) /\ run[t] # NoRun
           /\ run' \in [Targets -> Runs] /\ run'[t].pc = where /\ run'[t].job = run[t].job /\ run'[t] # NoRun
           /\ \A u \in Targets \ {t} : run'[u] = run[u]
<1>1. run[t] # NoRun
  BY DEF NoRun
<1>2. phase # "down" /\ TargetInv(t) /\ run \in [Targets -> Runs]
  BY <1>1, TargetStanding
<1>3. run' \in [Targets -> Runs] /\ \A u \in Targets \ {t} : run'[u] = run[u]
  BY <1>2 DEF Runs
<1>4. run'[t].pc = where /\ run'[t].job = run[t].job
  BY <1>2 DEF Runs
<1>5. run'[t] # NoRun
  BY <1>4 DEF NoRun
<1> QED
  BY <1>1, <1>2, <1>3, <1>4, <1>5

LEMMA JobFetchStep ==
    ASSUME Inv, NEW t \in Targets, JobFetch(t)
    PROVE  Inv'
<1>1. /\ run[t].pc = "fetch" /\ run' = [run EXCEPT ![t].pc = "up"]
      /\ mirror' = IF HasCommit(run[t].job.sha) THEN mirror ELSE remote
      /\ UNCHANGED <<remote, lastDeployed, index, unsaved, host, phase, proc, jobs, manual, faults, crashes>>
  BY DEF JobFetch, records, budget
<1>2. /\ phase # "down" /\ TargetInv(t) /\ run[t] # NoRun
      /\ run' \in [Targets -> Runs] /\ run'[t].pc = "up" /\ run'[t].job = run[t].job /\ run'[t] # NoRun
      /\ \A u \in Targets \ {t} : run'[u] = run[u]
  BY <1>1, RunGoesOn
<1>3. /\ mirror' \in 0..MaxCommit /\ mirror <= mirror' /\ mirror' <= remote
      /\ run[t].job.sha <= mirror'
  BY <1>1, <1>2, Standing, TargetStanding, Numbers DEF HasCommit, TargetInv, Inv
<1>4. TargetInv(t)'
  BY <1>1, <1>2, <1>3 DEF TargetInv
<1> QED
  BY <1>1, <1>2, <1>3, <1>4, JobStepOfOne, Standing, TargetStanding

LEMMA JobUpStep ==
    ASSUME Inv, NEW t \in Targets, JobUp(t)
    PROVE  Inv'
<1>1. /\ run[t].pc = "up" /\ run' = [run EXCEPT ![t].pc = "save"]
      /\ host' = [host EXCEPT ![t] = run[t].job.sha]
      /\ UNCHANGED <<remote, mirror, lastDeployed, index, unsaved, phase, proc, jobs, manual, faults, crashes>>
  BY DEF JobUp, records, budget
<1>2. /\ phase # "down" /\ TargetInv(t) /\ run[t] # NoRun
      /\ run' \in [Targets -> Runs] /\ run'[t].pc = "save" /\ run'[t].job = run[t].job /\ run'[t] # NoRun
      /\ \A u \in Targets \ {t} : run'[u] = run[u]
  BY <1>1, RunGoesOn
<1>3. run[t].job.sha \in Shas /\ host \in [Targets -> Shas]
  BY TargetStanding DEF Runs
<1>4. /\ host' \in [Targets -> Shas] /\ host'[t] = run[t].job.sha
      /\ \A u \in Targets \ {t} : host'[u] = host[u]
  BY <1>1, <1>3
<1>5. TargetInv(t)'
  BY <1>1, <1>2, <1>4 DEF TargetInv
<1> QED
  BY <1>1, <1>2, <1>4, <1>5, JobStepOfOne, Standing, TargetStanding

LEMMA JobFailsStep ==
    ASSUME Inv, NEW t \in Targets, JobFails(t)
    PROVE  Inv'
<1>1. /\ run[t].pc \in {"fetch", "up", "save"} /\ run' = [run EXCEPT ![t].pc = "failed"]
      /\ UNCHANGED <<remote, mirror, lastDeployed, index, unsaved, host, phase, proc, jobs>>
      /\ Fault
  BY DEF JobFails, durable, records
<1>2. /\ phase # "down" /\ TargetInv(t) /\ run[t] # NoRun
      /\ run' \in [Targets -> Runs] /\ run'[t].pc = "failed" /\ run'[t].job = run[t].job /\ run'[t] # NoRun
      /\ \A u \in Targets \ {t} : run'[u] = run[u]
  BY <1>1, RunGoesOn
<1>3. TargetInv(t)'
  BY <1>1, <1>2 DEF TargetInv
<1> QED
  BY <1>1, <1>2, <1>3, JobStepOfOne, Standing, TargetStanding, BudgetType DEF Inv

\* The record of success is written with the commit's containers on the host.
LEMMA JobSaveStep ==
    ASSUME Inv, NEW t \in Targets, JobSave(t)
    PROVE  Inv'
<1>1. /\ run[t].pc \in {"save", "failed"} /\ run' = [run EXCEPT ![t] = NoRun]
      /\ UNCHANGED <<remote, mirror, lastDeployed, host, phase, proc, jobs>>
  BY DEF JobSave
<1>2. PICK status \in {"success", "failed"} :
          /\ SaveDeployment(t, run[t].job.sha, status)
          /\ status = "success" => run[t].pc = "save"
  BY DEF JobSave
<1>3. run[t] # NoRun /\ run \in [Targets -> Runs] /\ phase # "down" /\ TargetInv(t)
  BY <1>1, TargetStanding DEF NoRun
<1>4. run[t].job.sha \in Shas /\ status \in Statuses /\ 0 <= remote
  BY <1>3, TargetStanding DEF Runs, Statuses
<1>5. NoRun \in Runs /\ NoRun.pc = "none" /\ NoRun.job.sha = 0
  BY PipelineAssumption DEF NoRun, NoJob, Runs, Shas
<1>6. run' \in [Targets -> Runs] /\ run'[t] = NoRun /\ \A u \in Targets \ {t} : run'[u] = run[u]
  BY <1>1, <1>3, <1>5
<1>7. t \notin unsaved' => index'[t].status = status /\ index'[t].sha = run[t].job.sha
  <2>1. t \notin unsaved' => index'[t] = [sha |-> run[t].job.sha, status |-> status]
    BY <1>2, <1>4, SaveEffect
  <2> QED
    BY <2>1
<1>8. TargetInv(t)'
  BY <1>1, <1>2, <1>3, <1>4, <1>5, <1>6, <1>7 DEF TargetInv
<1> QED
  BY <1>1, <1>2, <1>3, <1>4, <1>6, <1>8, JobStepOfOne, Standing, TargetStanding, SaveEffect

-----------------------------------------------------------------------------
(* Crash and startup.                                                      *)

LEMMA CrashStep ==
    ASSUME Inv, Crash
    PROVE  Inv'
<1>1. /\ phase' = "down"
      /\ proc' = [p \in Procs |-> Idle] /\ jobs' = [t \in Targets |-> <<>>]
      /\ run' = [t \in Targets |-> NoRun]
      /\ UNCHANGED <<remote, mirror, lastDeployed, index, unsaved, host, manual, faults>>
  BY DEF Crash, durable, records
<1>2. crashes' \in 0..MaxCrashes
  BY PipelineAssumption DEF Crash, Inv, TypeOK
<1>3. NoRun \in Runs /\ NoRun.pc = "none" /\ NoRun.job.sha = 0 /\ 0 <= remote
  BY PipelineAssumption, Numbers DEF NoRun, NoJob, Runs, Shas, Inv
<1>4. \A p \in Procs : GoodProc(p, proc'[p], remote)
  BY <1>1, IdleIsGood
<1>5. proc' \in [Procs -> ProcStates]
  BY <1>1, IdleIsGood DEF GoodProc
<1>6. run' \in [Targets -> Runs]
  BY <1>1, <1>3
<1>7. jobs' \in [Targets -> Seq([sha : Commits, redeploy : BOOLEAN])] /\ jobs' \in [Targets -> Seq(JobsUpTo(remote))]
  BY <1>1
<1>8. TypeOK'
  BY <1>1, <1>2, <1>5, <1>6, <1>7 DEF Inv, TypeOK, ProcStates, Runs
<1>9. KnownCommits' /\ KnownJobs' /\ NothingWhenDown'
  BY <1>1, <1>3, <1>4, <1>7 DEF Inv, KnownCommits, KnownJobs, NothingWhenDown
<1>10. JobProgress'
  BY <1>1, <1>3 DEF JobProgress
<1>11. RunningMeansLocked' /\ SuccessMatchesHost'
  BY <1>1 DEF Inv, RunningMeansLocked, SuccessMatchesHost
<1> QED
  BY <1>8, <1>9, <1>10, <1>11 DEF Inv

\* After the marking no record says "running", and no job runs.
LEMMA RestartStep ==
    ASSUME Inv, Restart
    PROVE  Inv'
<1>1. /\ phase = "down" /\ phase' = "resume" /\ index' = MarkStaleRunningDeploymentsFailed
      /\ UNCHANGED <<remote, mirror, lastDeployed, unsaved, host, proc, jobs, run, manual, faults, crashes>>
  BY DEF Restart, budget
<1>2. \A t \in Targets :
          /\ index'[t] \in [sha : Shas, status : Statuses]
          /\ index'[t].status # "running"
          /\ index'[t].status = "success" => index[t].status = "success" /\ index'[t].sha = index[t].sha
  <2> SUFFICES ASSUME NEW t \in Targets
               PROVE  /\ index'[t] \in [sha : Shas, status : Statuses]
                      /\ index'[t].status # "running"
                      /\ index'[t].status = "success" =>
                            index[t].status = "success" /\ index'[t].sha = index[t].sha
    OBVIOUS
  <2>1. index[t] \in [sha : Shas, status : Statuses]
    BY DEF Inv, TypeOK
  <2>2. index'[t] = IF index[t].status = "running"
                    THEN [index[t] EXCEPT !.status = "interrupted"] ELSE index[t]
    BY <1>1 DEF MarkStaleRunningDeploymentsFailed
  <2>3. CASE index[t].status = "running"
    <3>1. index'[t] = [sha |-> index[t].sha, status |-> "interrupted"]
      BY <2>1, <2>2, <2>3
    <3>2. index[t].sha \in Shas /\ "interrupted" \in Statuses
      BY <2>1 DEF Statuses
    <3> QED
      BY <3>1, <3>2
  <2>4. CASE index[t].status # "running"
    BY <2>1, <2>2, <2>4
  <2> QED
    BY <2>3, <2>4
<1>3. index' \in [Targets -> [sha : Shas, status : Statuses]]
  BY <1>1, <1>2 DEF MarkStaleRunningDeploymentsFailed
<1>4. TypeOK'
  BY <1>1, <1>3 DEF Inv, TypeOK
<1>5. KnownCommits' /\ KnownJobs' /\ NothingWhenDown' /\ JobProgress'
  BY <1>1 DEF Inv, KnownCommits, KnownJobs, NothingWhenDown, JobProgress
<1>6. RunningMeansLocked'
  BY <1>1, <1>2 DEF Inv, NothingWhenDown, RunningMeansLocked
<1>7. SuccessMatchesHost'
  BY <1>1, <1>2 DEF Inv, SuccessMatchesHost
<1> QED
  BY <1>4, <1>5, <1>6, <1>7 DEF Inv

LEMMA InitInv == Init => Inv
<1> SUFFICES ASSUME Init PROVE Inv
  OBVIOUS
<1>1. NoRun \in Runs /\ NoRun.pc = "none" /\ NoRun.job.sha = 0 /\ 0 \in Shas /\ 1 \in Commits
  BY PipelineAssumption DEF NoRun, NoJob, Runs, Shas, Commits
<1>2. Idle \in ProcStates /\ Idle.pc = "idle" /\ Idle.sha = 0 /\ Idle.copy = 0
  BY <1>1 DEF Idle, ProcStates
<1>3. TypeOK
  <2>1. proc \in [Procs -> ProcStates] /\ run \in [Targets -> Runs]
    BY <1>1, <1>2 DEF Init
  <2>2. index \in [Targets -> [sha : Shas, status : Statuses]]
    BY <1>1 DEF Init, Statuses
  <2>3. manual \in 0..MaxManual /\ faults \in 0..MaxFaults /\ crashes \in 0..MaxCrashes
    BY PipelineAssumption DEF Init
  <2>4. host \in [Targets -> Shas] /\ mirror \in Shas /\ lastDeployed \in Shas /\ remote \in Commits
    BY <1>1 DEF Init
  <2> QED
    BY <2>1, <2>2, <2>3, <2>4 DEF Init, TypeOK, ProcStates, Runs
<1>4. KnownCommits
  BY <1>2 DEF Init, KnownCommits, GoodProc
<1>5. KnownJobs /\ JobProgress
  BY <1>1 DEF Init, KnownJobs, JobProgress
<1>6. NothingWhenDown /\ RunningMeansLocked /\ SuccessMatchesHost
  BY DEF Init, NothingWhenDown, RunningMeansLocked, SuccessMatchesHost
<1> QED
  BY <1>3, <1>4, <1>5, <1>6 DEF Inv

-----------------------------------------------------------------------------
LEMMA JobStep ==
    ASSUME Inv, NEW t \in Targets, Job(t)
    PROVE  Inv'
BY JobStartStep, JobFetchStep, JobUpStep, JobFailsStep, JobSaveStep DEF Job

LEMMA StutterStep ==
    ASSUME Inv, UNCHANGED vars
    PROVE  Inv'
<1>1. UNCHANGED <<remote, mirror, lastDeployed, index, unsaved, host, phase, proc, jobs, run, manual, faults, crashes>>
  BY DEF vars, durable, records, budget
<1> QED
  BY <1>1 DEF Inv, TypeOK, KnownCommits, KnownJobs, NothingWhenDown, JobProgress, RunningMeansLocked, SuccessMatchesHost

\* Inv is inductive: pushes, deliveries, polls, manual deploys, jobs in any order,
\* failed writes, crashes and starts keep it.
THEOREM PipelineInvariant == Spec => []Inv
<1>1. Inv /\ [Next]_vars => Inv'
  <2> SUFFICES ASSUME Inv, [Next]_vars PROVE Inv'
    OBVIOUS
  <2>1. CASE UNCHANGED vars
    BY <2>1, StutterStep
  <2>2. CASE Next
    BY <2>2, PushStep, MakePushHandlerStep, WebhookStep, PollTickStep, PollStep, JobStep, CrashStep, RestartStep,
       ResumeStep, buildDeployFuncStep DEF Next, Startup
  <2> QED
    BY <2>1, <2>2
<1> QED
  BY <1>1, InitInv, PTL DEF Spec

\* A record of success names the commit that runs on the host.
THEOREM SuccessIsOnHost == Spec => []SuccessMatchesHost
BY PipelineInvariant, PTL DEF Inv

\* A record is "running" exactly while its deploy holds the lock.
THEOREM RunningIsLocked == Spec => []RunningMeansLocked
BY PipelineInvariant, PTL DEF Inv

\* What a step does that gives a lock to a job: it starts one that is not a
\* duplicate.
LEMMA LockTaken ==
    ASSUME Inv, [Next]_vars, NEW t \in Targets, run[t] = NoRun, run'[t] # NoRun
    PROVE  ~DuplicateJob(t, run'[t].job)
<1>1. run \in [Targets -> Runs]
  BY TargetStanding
<1>2. ~UNCHANGED run
  OBVIOUS
<1>3. ~UNCHANGED vars /\ ~Push /\ ~(\E p \in Procs : MakePushHandler(p)) /\ ~buildDeployFunc
  BY <1>2 DEF vars, Push, MakePushHandler, buildDeployFunc
<1>4. ~(\E c \in Commits : Webhook(c)) /\ ~PollTick /\ ~Poll
  BY <1>2 DEF Webhook, WebhookReload, WebhookRead, WebhookSave, PollTick, Poll, PollRead, PollReturn, PollDefer,
     PollFetch, PollPlan, PollSave, PollGiveUp
<1>5. ~Crash /\ ~Startup
  BY <1>2 DEF Crash, Startup, Restart, ResumeIncompleteDeploys
<1>6. PICK u \in Targets : Job(u)
  BY <1>3, <1>4, <1>5 DEF Next
<1>7. ~JobFetch(u) /\ ~JobUp(u) /\ ~JobFails(u)
  <2>1. ASSUME JobFetch(u) \/ JobUp(u) \/ JobFails(u) PROVE FALSE
    <3>1. run[u].pc # "none" /\ \E where : run' = [run EXCEPT ![u].pc = where]
      BY <2>1 DEF JobFetch, JobUp, JobFails
    <3>2. u # t
      BY <3>1 DEF NoRun
    <3> QED
      BY <1>1, <3>1, <3>2
  <2> QED
    BY <2>1
<1>8. ~JobSave(u)
  BY <1>1 DEF JobSave
<1>9. PICK n \in DOMAIN jobs[u] : JobStart(u, n)
  BY <1>6, <1>7, <1>8 DEF Job
<1>10. ~DuplicateJob(u, jobs[u][n]) /\ run' = [run EXCEPT ![u] = [pc |-> "fetch", job |-> jobs[u][n]]]
  BY <1>2, <1>9 DEF JobStart
<1>11. u = t
  BY <1>1, <1>10
<1>12. run'[t] = [pc |-> "fetch", job |-> jobs[u][n]]
  BY <1>1, <1>10, <1>11
<1> QED
  BY <1>10, <1>11, <1>12

\* No deploy begins of a commit that the target runs successfully already,
\* unless an operator asked for it.
THEOREM NeverDeploysTwice == Spec => NoDoubleDeploy
<1> DEFINE Once ==
      \A t \in Targets :
          run[t] = NoRun /\ run'[t] # NoRun =>
              \/ run'[t].job.redeploy
              \/ ~(index[t].status = "success" /\ index[t].sha = run'[t].job.sha)
<1>1. Inv /\ [Next]_vars => [Once]_vars
  <2> SUFFICES ASSUME Inv, [Next]_vars, NEW t \in Targets, run[t] = NoRun, run'[t] # NoRun
               PROVE  \/ run'[t].job.redeploy
                      \/ ~(index[t].status = "success" /\ index[t].sha = run'[t].job.sha)
    OBVIOUS
  <2>1. ~DuplicateJob(t, run'[t].job)
    BY LockTaken
  <2> QED
    BY <2>1 DEF DuplicateJob, ShouldSkipDeploy
<1>2. NoDoubleDeploy <=> [][Once]_vars
  BY DEF NoDoubleDeploy
<1> QED
  BY <1>1, <1>2, PipelineInvariant, PTL DEF Spec
=============================================================================
