----------------------------- MODULE Reconcile -----------------------------
(***************************************************************************)
(* What a new configuration does to the targets (project, host): the       *)
(* reloader stores it and triggers the reconcile loop, whose passes tear   *)
(* down what was removed or moved, deploy what was added and redeploy what *)
(* changed, while pushes, crashes and further reloads go on.  Teardowns    *)
(* and deploys are jobs of the runner, one at a time per target.           *)
(*                                                                         *)
(* A configuration gives each target a placement: the remote directory,    *)
(* and a spec that stands for every other setting a deploy depends on.     *)
(***************************************************************************)
EXTENDS Naturals, Sequences, SequencesExt

CONSTANTS
    Targets,
    Dirs, Specs,
    MaxCommit,    \* bound: commits on the branch
    Scenarios     \* what the operator writes and what may go wrong meanwhile:
                  \* history, the configurations, in this order;
                  \* broken, the positions of those with blocking issues;
                  \* inOrder, TRUE if the jobs of a target start in the order of submission;
                  \* faults, bound: failed deploys, teardowns, reads and writes of the state files;
                  \* crashes, bound: crashes or shutdowns

Absent == [dir |-> "none", spec |-> "none"]
Placements == [dir : Dirs, spec : Specs]
Configs == [Targets -> Placements \cup {Absent}]

ASSUME ReconcileAssumption ==
    /\ "none" \notin Dirs /\ "none" \notin Specs
    /\ MaxCommit \in Nat \ {0}
    /\ \A s \in Scenarios :
          /\ s.history \in Seq(Configs) /\ s.history # <<>>
          /\ s.broken \subseteq DOMAIN s.history /\ 1 \notin s.broken
          /\ s.inOrder \in BOOLEAN /\ s.faults \in Nat /\ s.crashes \in Nat

VARIABLES
    scenario,  \* the member of Scenarios that this behaviour follows
    version,   \* the configuration in effect is History[version]: app.config
    applied,   \* loop.applied, the version the last pass reconciled to; 0 is nil
    saved,     \* applied_config.json
    trigger,   \* a token in the triggers channel
    loop,      \* the pass under way
    head,      \* newest commit, in the mirror and in the repo state
    jobs,      \* submitted jobs of each target
    run,       \* the job that holds the target's lock
    files,     \* project directories on the target's host
    up,        \* placement and commit of the containers that run there
    record,    \* latest deployment in the index
    unsaved,   \* targets the last write of whose record failed
    phase,     \* "down", "starting" until the resume fan-out is over, "up"
    faults, crashes

History == scenario.history
Broken == scenario.broken

intake == <<scenario, version, trigger, head>>
host == <<files, up>>
index == <<record, unsaved>>
remote == <<host, index>>
budget == <<faults, crashes>>
vars == <<intake, applied, saved, loop, jobs, run, remote, phase, budget>>

config == History[version]
Desired(t) == config[t] # Absent

NotUp == [at |-> Absent, sha |-> 0]
NoRecord == [sha |-> 0, status |-> "none"]
IdleLoop == [pc |-> "idle", old |-> 0, new |-> 0, todo |-> {}, wait |-> {}]
NoRun == [pc |-> "none"]

\* The daemon has run with the first configuration for a while.
Init ==
    /\ scenario \in Scenarios
    /\ version = 1 /\ applied = 1 /\ saved = 1
    /\ trigger = FALSE /\ loop = IdleLoop
    /\ head = 1
    /\ jobs = [t \in Targets |-> <<>>]
    /\ run = [t \in Targets |-> NoRun]
    /\ files = [t \in Targets |-> IF Desired(t) THEN {config[t].dir} ELSE {}]
    /\ up = [t \in Targets |-> IF Desired(t) THEN [at |-> config[t], sha |-> 1] ELSE NotUp]
    /\ record = [t \in Targets |-> IF Desired(t) THEN [sha |-> 1, status |-> "success"] ELSE NoRecord]
    /\ unsaved = {}
    /\ phase = "up" /\ faults = 0 /\ crashes = 0

Fault == faults < scenario.faults /\ faults' = faults + 1 /\ UNCHANGED crashes

DeployJob(at, sha, redeploy) ==
    [kind |-> "deploy", at |-> at, sha |-> sha, redeploy |-> redeploy, removeState |-> FALSE]

ShouldSkipDeploy(t, sha) == record[t].sha = sha /\ record[t].status \in {"running", "success"}

\* MakePushHandler for one forced target: the duplicate check, then Submit.
Dispatched(t, job) ==
    IF ~job.redeploy /\ ShouldSkipDeploy(t, job.sha) THEN jobs[t] ELSE Append(jobs[t], job)

-----------------------------------------------------------------------------
(* Reloads and pushes.                                                     *)

\* applyConfigChange: a running daemon keeps its configuration when the new
\* one has blocking issues. A startup takes what it finds in the file.
Reload ==
    /\ phase \in {"up", "down"}
    /\ version' \in (version + 1 .. Len(History)) \ (IF phase = "up" THEN Broken ELSE {})
    /\ trigger' = (phase = "up")
    /\ UNCHANGED <<scenario, applied, saved, loop, head, jobs, run, remote, phase, budget>>

\* A new commit touches every target; its jobs keep today's placement.
Push ==
    /\ phase = "up" /\ head < MaxCommit
    /\ head' = head + 1
    /\ jobs' = [t \in Targets |-> IF Desired(t)
                                  THEN Dispatched(t, DeployJob(config[t], head', FALSE))
                                  ELSE jobs[t]]
    /\ UNCHANGED <<scenario, version, trigger, applied, saved, loop, run, remote, phase, budget>>

-----------------------------------------------------------------------------
(* The reconcile loop, one goroutine.                                      *)

FindTeardownTargets(old, new) ==
    {t \in Targets : old[t] # Absent /\ (new[t] = Absent \/ new[t].dir # old[t].dir)}

FindAddedDeployTargets(old, new) ==
    {t \in Targets : old[t] = Absent /\ new[t] # Absent}

ChangedTargets(old, new) ==
    {t \in Targets : old[t] # Absent /\ new[t] # Absent /\ old[t] # new[t]}

LoopReceive ==
    /\ phase # "down" /\ loop.pc = "idle" /\ trigger
    /\ trigger' = FALSE
    /\ loop' = [loop EXCEPT !.pc = "pass"]
    /\ UNCHANGED <<scenario, version, head, applied, saved, jobs, run, remote, phase, budget>>

\* loop.applied = current, persisted if the write succeeds (else logged).
Adopt(v) ==
    /\ loop' = IdleLoop
    /\ applied' = v
    /\ \/ saved' = v /\ UNCHANGED budget
       \/ Fault /\ UNCHANGED saved

reconcileOnce ==
    loop' = [pc |-> "removals", old |-> applied, new |-> version, wait |-> {},
             todo |-> FindTeardownTargets(History[applied], config)]

\* Mutation: a pass does not look at the issues of the configuration.
PassUnguarded ==
    /\ loop.pc = "pass"
    /\ \/ applied = 0 /\ Adopt(version)
       \/ /\ applied # 0
          /\ IF History[applied] = config THEN loop' = IdleLoop ELSE reconcileOnce
          /\ UNCHANGED <<applied, saved, budget>>
    /\ UNCHANGED <<intake, jobs, run, remote, phase>>

\* A pass works on the configuration it finds, however often it was triggered;
\* a broken one is left alone, a first one adopted as it is.
Pass ==
    /\ loop.pc = "pass"
    /\ \/ applied = 0 /\ version \notin Broken /\ Adopt(version)
       \/ /\ applied # 0 \/ version \in Broken
          /\ IF version \in Broken \/ History[applied] = config THEN loop' = IdleLoop ELSE reconcileOnce
          /\ UNCHANGED <<applied, saved, budget>>
    /\ UNCHANGED <<intake, jobs, run, remote, phase>>

\* ReconcileRemovals submits a teardown for each target with a record...
ReconcileRemovals(t) ==
    /\ loop.pc = "removals" /\ t \in loop.todo
    /\ IF record[t] = NoRecord
       THEN loop' = [loop EXCEPT !.todo = @ \ {t}] /\ UNCHANGED jobs
       ELSE /\ loop' = [loop EXCEPT !.todo = @ \ {t}, !.wait = @ \cup {t}]
            /\ jobs' = [jobs EXCEPT ![t] = Append(@,
                   [kind |-> "teardown", at |-> History[loop.old][t], sha |-> 0, redeploy |-> FALSE,
                    removeState |-> History[loop.new][t] = Absent])]
    /\ UNCHANGED <<intake, applied, saved, run, remote, phase, budget>>

\* ... and waits for all of them before anything is deployed.
RemovalsDone ==
    /\ loop.pc = "removals" /\ loop.todo = {} /\ loop.wait = {}
    /\ loop' = [loop EXCEPT !.pc = "additions",
                            !.todo = FindAddedDeployTargets(History[loop.old], History[loop.new])]
    /\ UNCHANGED <<intake, applied, saved, jobs, run, remote, phase, budget>>

ReconcileAdditions(t) ==
    /\ loop.pc = "additions" /\ t \in loop.todo
    /\ loop' = [loop EXCEPT !.todo = @ \ {t}]
    /\ jobs' = [jobs EXCEPT ![t] = Dispatched(t, DeployJob(History[loop.new][t], head, FALSE))]
    /\ UNCHANGED <<intake, applied, saved, run, remote, phase, budget>>

AdditionsDone ==
    /\ loop.pc = "additions" /\ loop.todo = {}
    /\ loop' = [loop EXCEPT !.pc = "changes",
                            !.todo = ChangedTargets(History[loop.old], History[loop.new])]
    /\ UNCHANGED <<intake, applied, saved, jobs, run, remote, phase, budget>>

\* Mutation: the redeploy goes through the duplicate check.
ChangesDeduped(t) ==
    /\ loop.pc = "changes" /\ t \in loop.todo
    /\ loop' = [loop EXCEPT !.todo = @ \ {t}]
    /\ jobs' = [jobs EXCEPT ![t] = Dispatched(t, DeployJob(History[loop.new][t], head, FALSE))]
    /\ UNCHANGED <<intake, applied, saved, run, remote, phase, budget>>

ReconcileProjectChanges(t) ==
    /\ loop.pc = "changes" /\ t \in loop.todo
    /\ loop' = [loop EXCEPT !.todo = @ \ {t}]
    /\ jobs' = [jobs EXCEPT ![t] = Dispatched(t, DeployJob(History[loop.new][t], head, TRUE))]
    /\ UNCHANGED <<intake, applied, saved, run, remote, phase, budget>>

\* The pass is over, whatever became of its jobs.
PassDone ==
    /\ loop.pc = "changes" /\ loop.todo = {}
    /\ Adopt(loop.new)
    /\ UNCHANGED <<intake, jobs, run, remote, phase>>

-----------------------------------------------------------------------------
(* The jobs, under the target's lock.                                      *)

\* The job ends; a teardown counts down the pass that waits for it.
JobDone(t) ==
    /\ run' = [run EXCEPT ![t] = NoRun]
    /\ loop' = IF run[t].job.kind = "teardown" THEN [loop EXCEPT !.wait = @ \ {t}] ELSE loop
    /\ UNCHANGED <<intake, applied, saved, jobs, phase>>

JobStart(t, n) ==
    /\ run[t] = NoRun
    /\ scenario.inOrder => n = 1
    /\ jobs' = [jobs EXCEPT ![t] = RemoveAt(@, n)]
    /\ run' = [run EXCEPT ![t] = [pc |-> "check", job |-> jobs[t][n]]]
    /\ UNCHANGED <<intake, applied, saved, loop, remote, phase, budget>>

JobAt(t, where, kind) == run[t].pc = where /\ run[t].job.kind = kind

JobGoto(t, where) ==
    /\ run' = [run EXCEPT ![t].pc = where]
    /\ UNCHANGED <<intake, applied, saved, loop, jobs, phase>>

\* A deploy looks whether the target is configured, not where.
DeployCheck(t) ==
    LET job == run[t].job IN
    /\ JobAt(t, "check", "deploy")
    /\ IF Desired(t) /\ (job.redeploy \/ ~ShouldSkipDeploy(t, job.sha))
       THEN JobGoto(t, "record") ELSE JobDone(t)
    /\ UNCHANGED <<remote, budget>>

\* SaveDeployment; a write that fails is only logged.
SaveDeployment(t, status) ==
    \/ /\ record' = [record EXCEPT ![t] = [sha |-> run[t].job.sha, status |-> status]]
       /\ unsaved' = unsaved \ {t}
       /\ UNCHANGED budget
    \/ Fault /\ unsaved' = unsaved \cup {t} /\ UNCHANGED record

\* Mutation: the record is written only when the deploy is over.
DeployRecordLate(t) ==
    /\ JobAt(t, "record", "deploy")
    /\ JobGoto(t, "up")
    /\ UNCHANGED <<remote, budget>>

DeployRecord(t) ==
    /\ JobAt(t, "record", "deploy")
    /\ JobGoto(t, "up")
    /\ SaveDeployment(t, "running")
    /\ UNCHANGED host

\* The compose project has the same name in whichever directory, so the
\* containers of the old placement are replaced.
DeployUp(t) ==
    LET job == run[t].job IN
    /\ JobAt(t, "up", "deploy")
    /\ JobGoto(t, "save")
    /\ files' = [files EXCEPT ![t] = @ \cup {job.at.dir}]
    /\ up' = [up EXCEPT ![t] = [at |-> job.at, sha |-> job.sha]]
    /\ UNCHANGED <<index, budget>>

\* runDeploy fails, before or after it changed the containers.
DeployFails(t) ==
    /\ JobAt(t, "up", "deploy") \/ JobAt(t, "save", "deploy")
    /\ JobGoto(t, "failed")
    /\ Fault
    /\ UNCHANGED remote

DeployEnd(t) ==
    /\ \/ JobAt(t, "save", "deploy") /\ SaveDeployment(t, "success")
       \/ JobAt(t, "failed", "deploy") /\ SaveDeployment(t, "failed")
    /\ JobDone(t)
    /\ UNCHANGED host

\* Level-triggered: skipped when the configuration wants this very directory.
TeardownCheck(t) ==
    /\ JobAt(t, "check", "teardown")
    /\ IF Desired(t) /\ config[t].dir = run[t].job.at.dir
       THEN JobDone(t) ELSE JobGoto(t, "down")
    /\ UNCHANGED <<remote, budget>>

\* docker compose down: needs the directory, stops the project by its name.
TeardownDown(t) ==
    /\ JobAt(t, "down", "teardown") /\ run[t].job.at.dir \in files[t]
    /\ JobGoto(t, "remove")
    /\ up' = [up EXCEPT ![t] = NotUp]
    /\ UNCHANGED <<files, index, budget>>

\* The dial or `cd` or `down` fails, or `rm -rf` does after `down`.
TeardownFails(t) ==
    /\ \/ JobAt(t, "down", "teardown") /\ run[t].job.at.dir \notin files[t] /\ UNCHANGED budget
       \/ (JobAt(t, "down", "teardown") \/ JobAt(t, "remove", "teardown")) /\ Fault
    /\ JobDone(t)
    /\ UNCHANGED remote

\* rm -rf, then DeleteLatestDeployment when the target is gone for good.
TeardownRemove(t) ==
    /\ JobAt(t, "remove", "teardown")
    /\ files' = [files EXCEPT ![t] = @ \ {run[t].job.at.dir}]
    /\ \/ /\ record' = IF run[t].job.removeState THEN [record EXCEPT ![t] = NoRecord] ELSE record
          /\ UNCHANGED budget
       \/ run[t].job.removeState /\ Fault /\ UNCHANGED record
    /\ JobDone(t)
    /\ UNCHANGED <<up, unsaved>>

-----------------------------------------------------------------------------
(* Crash and startup.                                                      *)

Crash ==
    /\ phase # "down" /\ crashes < scenario.crashes
    /\ crashes' = crashes + 1
    /\ phase' = "down"
    /\ trigger' = FALSE /\ loop' = IdleLoop /\ applied' = 0
    /\ jobs' = [t \in Targets |-> <<>>]
    /\ run' = [t \in Targets |-> NoRun]
    /\ UNCHANGED <<scenario, version, head, saved, remote, faults>>

\* Stale records are marked, the applied configuration is loaded (without it
\* this counts as a first start) and the loop is started and triggered,
\* before the resume fan-out.
Restart ==
    /\ phase = "down"
    /\ phase' = "starting"
    /\ trigger' = TRUE
    /\ \/ applied' = saved /\ UNCHANGED budget
       \/ Fault /\ applied' = 0
    /\ record' = [t \in Targets |-> IF record[t].status = "running"
                                    THEN [record[t] EXCEPT !.status = "failed"] ELSE record[t]]
    /\ UNCHANGED <<scenario, version, head, saved, loop, jobs, run, host, unsaved>>

\* PendingTargetsForHead keeps what is not at the head of the mirror: every
\* commit touches every target.
ResumeIncompleteDeploys ==
    /\ phase = "starting"
    /\ phase' = "up"
    /\ jobs' = [t \in Targets |-> IF Desired(t)
                                  THEN Dispatched(t, DeployJob(config[t], head, FALSE))
                                  ELSE jobs[t]]
    /\ UNCHANGED <<intake, applied, saved, loop, run, remote, budget>>

-----------------------------------------------------------------------------
Loop ==
    \/ LoopReceive \/ Pass \/ RemovalsDone \/ AdditionsDone \/ PassDone
    \/ \E t \in Targets :
          ReconcileRemovals(t) \/ ReconcileAdditions(t) \/ ReconcileProjectChanges(t)

Job(t) ==
    \/ \E n \in DOMAIN jobs[t] : JobStart(t, n)
    \/ DeployCheck(t) \/ DeployRecord(t) \/ DeployUp(t) \/ DeployFails(t) \/ DeployEnd(t)
    \/ TeardownCheck(t) \/ TeardownDown(t) \/ TeardownFails(t) \/ TeardownRemove(t)

Startup == Restart \/ ResumeIncompleteDeploys

Next == Reload \/ Push \/ Loop \/ (\E t \in Targets : Job(t)) \/ Crash \/ Startup

Spec == Init /\ [][Next]_vars

\* The loop's goroutine runs, the runner completes its jobs, a supervisor
\* restarts the daemon. Nobody has to push or to edit the configuration.
LiveSpec == Spec /\ WF_vars(Loop) /\ WF_vars(Startup) /\ \A t \in Targets : WF_vars(Job(t))

-----------------------------------------------------------------------------
(* Properties.                                                             *)

AJob == [kind : {"deploy", "teardown"}, at : Placements, sha : 0..MaxCommit,
         redeploy : BOOLEAN, removeState : BOOLEAN]

\* Configurations, jobs and records stay in their types: a job always has a
\* real placement to deploy to or to tear down (ReconcileRemovals takes the old
\* one, the others the new one).
TypeOK ==
    /\ scenario \in Scenarios
    /\ {version, saved} \subseteq DOMAIN History /\ applied \in 0..Len(History)
    /\ trigger \in BOOLEAN /\ head \in 1..MaxCommit
    /\ loop \in [pc : {"idle", "pass", "removals", "additions", "changes"},
                 old : 0..Len(History), new : 0..Len(History),
                 todo : SUBSET Targets, wait : SUBSET Targets]
    /\ jobs \in [Targets -> Seq(AJob)]
    /\ run \in [Targets -> {NoRun} \cup
           [pc : {"check", "record", "up", "save", "failed", "down", "remove"}, job : AJob]]
    /\ files \in [Targets -> SUBSET Dirs]
    /\ up \in [Targets -> {NotUp} \cup [at : Placements, sha : 1..MaxCommit]]
    /\ record \in [Targets -> [sha : 0..MaxCommit, status : {"none", "running", "success", "failed"}]]
    /\ unsaved \subseteq Targets
    /\ phase \in {"down", "starting", "up"}
    /\ faults \in 0..scenario.faults /\ crashes \in 0..scenario.crashes

\* Whatever runs on a host is in the deployment index, through any crash,
\* failed teardown, reload and order of jobs: ReconcileRemovals passes over
\* a target without a record, so its containers would never be removed. (When
\* the write fails this is the case, until a later write succeeds.)
RunningIsRecorded == \A t \in Targets \ unsaved : up[t] # NotUp => record[t] # NoRecord

\* A configuration with blocking issues takes nothing down, whatever it
\* lacks: "Never reconcile against a broken/unconfigured config", neither by
\* a reload nor by a start with a broken file.
BrokenKeepsRunning ==
    [][\A t \in Targets : version \in Broken /\ up[t] # NotUp => up'[t] # NotUp]_vars

\* The hosts run what the configuration in effect says, at the newest commit,
\* and keep no directory of another placement.
Matches ==
    \A t \in Targets :
        IF Desired(t) THEN up[t] = [at |-> config[t], sha |-> head] /\ files[t] = {config[t].dir}
                      ELSE up[t] = NotUp /\ files[t] = {}

\* Once the operator stops editing, the hosts come to match the last
\* configuration, whatever reload or push came in the middle of a pass: the
\* loop reconciles from the configuration it applied last, and a redeploy is
\* not a duplicate. (Stated where nothing fails and jobs keep their order: a
\* failed removal is not retried, and a pass saves its baseline before the
\* jobs it dispatched have run, so a crash loses them.)
Calm == scenario.inOrder /\ scenario.faults = 0 /\ scenario.crashes = 0
Converges == Calm => <>[]Matches
=============================================================================
