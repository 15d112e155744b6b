------------------------------ MODULE Pipeline ------------------------------
(***************************************************************************)
(* From a push to a running deployment, for one repository and the targets *)
(* (project, host) that it deploys to: the webhook handler, the poller, a  *)
(* manual deploy, the fan-out of an event into jobs, the deploy of one     *)
(* target, and what survives a crash: the deployment index, the repo       *)
(* state, the mirror, the hosts.  Startup resume picks up what a crash or  *)
(* a shutdown dropped.                                                     *)
(*                                                                         *)
(* Commits are numbered along the branch; 0 stands for "none".  The jobs   *)
(* of one target run one at a time; Runner promises no order, and InOrder  *)
(* says whether the Go scheduler happens to keep the order of submission.  *)
(* The configuration does not change here.                                 *)
(***************************************************************************)
EXTENDS Naturals, Sequences, SequencesExt

CONSTANTS
    Targets,      \* the deploy targets of the repository
    MaxCommit,    \* bound: commits ever pushed
    Touches,      \* Touches[c]: targets whose watched paths commit c changes
    TriggerMode,  \* repo.trigger_mode
    InOrder,      \* TRUE: the jobs of a target start in the order of submission
    StaleHeads,   \* TRUE: ls-remote may answer with an older head
    MaxManual,    \* bound: manual deploys
    MaxFaults,    \* bound: failed fetches, config reloads, deploys and writes of the state files
    MaxCrashes    \* bound: crashes or shutdowns of the daemon

Commits == 1..MaxCommit
Shas == 0..MaxCommit

\* "interrupted" is StatusFailed with the error text of startup's marking;
\* no code tells the two apart, the properties do.
Statuses == {"none", "running", "success", "failed", "interrupted"}

ASSUME PipelineAssumption ==
    /\ MaxCommit \in Nat \ {0} /\ MaxManual \in Nat /\ MaxFaults \in Nat /\ MaxCrashes \in Nat
    /\ Touches \in [Commits -> SUBSET Targets]
    /\ TriggerMode \in {"poll", "webhook", "hybrid"}
    /\ InOrder \in BOOLEAN /\ StaleHeads \in BOOLEAN

\* The goroutines that turn commits into jobs: the poller, startup resume, a
\* manual deploy of the admin API, and one webhook delivery per commit.
Poller == 0
Resume == MaxCommit + 1
Manual == MaxCommit + 2
Procs == {Poller, Resume, Manual} \cup Commits

VARIABLES
    remote,        \* head of the branch on the Git server
    mirror,        \* newest commit in the local mirror, 0 before the clone
    lastDeployed,  \* RepoState.LastDeployedSha on disk
    index,         \* latest deployment record of each target on disk
    unsaved,       \* targets the last write of whose record failed
    host,          \* commit whose containers run on the target's host
    phase,         \* "up", "down", or "resume" during startup
    proc,          \* local state of each goroutine
    jobs,          \* the submitted, not yet started jobs of each target
    run,           \* the job that holds the target's project lock
    manual, faults, crashes

records == <<index, unsaved>>
durable == <<remote, mirror, lastDeployed, records, host>>
budget == <<manual, faults, crashes>>
vars == <<durable, phase, proc, jobs, run, budget>>

Idle == [pc |-> "idle", sha |-> 0, copy |-> 0, todo |-> {}]
NoJob == [sha |-> 0, redeploy |-> FALSE]
NoRun == [pc |-> "none", job |-> NoJob]

Init ==
    /\ remote = 1
    /\ mirror = 0 /\ lastDeployed = 0
    /\ index = [t \in Targets |-> [sha |-> 0, status |-> "none"]]
    /\ unsaved = {}
    /\ host = [t \in Targets |-> 0]
    /\ phase = "up"
    /\ proc = [p \in Procs |-> Idle]
    /\ jobs = [t \in Targets |-> <<>>]
    /\ run = [t \in Targets |-> NoRun]
    /\ manual = 0 /\ faults = 0 /\ crashes = 0

Fault == faults < MaxFaults /\ faults' = faults + 1 /\ UNCHANGED <<manual, crashes>>

\* SaveRepoState and SaveDeployment: a write that fails is only logged.
SaveRepoState(sha) ==
    \/ lastDeployed' = sha /\ UNCHANGED budget
    \/ Fault /\ UNCHANGED lastDeployed

SaveDeployment(t, sha, status) ==
    \/ /\ index' = [index EXCEPT ![t] = [sha |-> sha, status |-> status]]
       /\ unsaved' = unsaved \ {t}
       /\ UNCHANGED budget
    \/ Fault /\ unsaved' = unsaved \cup {t} /\ UNCHANGED index

HasCommit(c) == c <= mirror

ShouldSkipDeploy(t, c) ==
    index[t].sha = c /\ index[t].status \in {"running", "success"}

\* Some commit between the two, in either direction, touches t.
DiffTouches(t, a, b) ==
    \E c \in Commits : t \in Touches[c] /\ (c \in (a+1)..b \/ c \in (b+1)..a)

targetUntouchedSinceLastDeploy(t, head) ==
    /\ mirror # 0
    /\ index[t].status = "success"
    /\ index[t].sha # head
    /\ HasCommit(index[t].sha) /\ HasCommit(head)
    /\ ~DiffTouches(t, index[t].sha, head)

PendingTargetsForHead(head) ==
    {t \in Targets : /\ ~ShouldSkipDeploy(t, head)
                     /\ ~targetUntouchedSinceLastDeploy(t, head)}

-----------------------------------------------------------------------------
(* The environment: pushes, and the webhook delivery that may get lost.    *)

\* Webhooks and polling start when the resume fan-out has returned.
Listening == phase = "up" /\ proc[Resume].pc = "idle"
Webhooks == TriggerMode \in {"webhook", "hybrid"}
Polling == TriggerMode \in {"poll", "hybrid"}

Push ==
    /\ remote < MaxCommit
    /\ remote' = remote + 1
    /\ \/ UNCHANGED proc
       \/ /\ Webhooks /\ Listening
          /\ proc' = [proc EXCEPT ![remote'] = [Idle EXCEPT !.pc = "reload", !.sha = remote']]
    /\ UNCHANGED <<mirror, lastDeployed, records, host, phase, jobs, run, budget>>

-----------------------------------------------------------------------------
(* Fan-out: the onDeploy callback submits one job per planned target.      *)

\* What a goroutine goes on with once it has planned these targets.
Planned(p, sha, todo) ==
    proc' = [proc EXCEPT ![p] = IF todo = {} THEN Idle
                                ELSE [pc |-> "fanout", sha |-> sha, copy |-> 0, todo |-> todo]]

MakePushHandler(p) ==
    /\ proc[p].pc = "fanout"
    /\ \E t \in proc[p].todo :
          /\ Planned(p, proc[p].sha, proc[p].todo \ {t})
          /\ jobs' = IF p # Manual /\ ShouldSkipDeploy(t, proc[p].sha) THEN jobs
                     ELSE [jobs EXCEPT ![t] = Append(@, [sha |-> proc[p].sha,
                                                         redeploy |-> p = Manual])]
    /\ UNCHANGED <<durable, phase, run, budget>>

\* The head of the local mirror wins over the recorded commit.
resolveMirror == IF mirror # 0 THEN mirror ELSE lastDeployed

\* POST /api/v1/deploy: some or all targets of a project, at the newest commit
\* the daemon knows, refused when there is none. The fan-out comes later: the
\* commit may be an older one by then.
buildDeployFunc ==
    /\ Listening /\ proc[Manual].pc = "idle" /\ manual < MaxManual
    /\ resolveMirror # 0
    /\ \E todo \in SUBSET Targets \ {{}} : Planned(Manual, resolveMirror, todo)
    /\ manual' = manual + 1
    /\ UNCHANGED <<durable, phase, jobs, run, faults, crashes>>

-----------------------------------------------------------------------------
(* The webhook handler, one goroutine per delivery.                        *)

\* A failed reload of the config repo drops the delivery.
WebhookReload(c) ==
    /\ proc[c].pc = "reload"
    /\ \/ proc' = [proc EXCEPT ![c].pc = "read"] /\ UNCHANGED budget
       \/ proc' = [proc EXCEPT ![c] = Idle] /\ Fault
    /\ UNCHANGED <<durable, phase, jobs, run>>

WebhookRead(c) ==
    /\ proc[c].pc = "read"
    /\ proc' = [proc EXCEPT ![c].pc = "save", ![c].copy = lastDeployed]
    /\ UNCHANGED <<durable, phase, jobs, run, budget>>

\* The commit counts as deployed before its jobs exist; the first commit
\* ever seen goes to every target.
WebhookSave(c) ==
    /\ proc[c].pc = "save"
    /\ SaveRepoState(c)
    /\ Planned(c, c, IF proc[c].copy = 0 THEN Targets ELSE Touches[c])
    /\ UNCHANGED <<remote, mirror, records, host, phase, jobs, run>>

-----------------------------------------------------------------------------
(* The poller, one goroutine.                                              *)

\* ls-remote; a lagging replica of the Git server costs one of the faults.
PollTick ==
    /\ Polling /\ Listening /\ proc[Poller].pc = "idle"
    /\ \E sha \in 1..remote :
          /\ proc' = [proc EXCEPT ![Poller] = [Idle EXCEPT !.pc = "read", !.sha = sha]]
          /\ \/ sha = remote /\ UNCHANGED budget
             \/ sha # remote /\ StaleHeads /\ Fault
    /\ UNCHANGED <<durable, phase, jobs, run>>

PollRead ==
    /\ proc[Poller].pc = "read"
    /\ proc' = [proc EXCEPT ![Poller].pc = "decide", ![Poller].copy = lastDeployed]
    /\ UNCHANGED <<durable, phase, jobs, run, budget>>

isStalePoll(sha, deployed) ==
    deployed # 0 /\ HasCommit(sha) /\ HasCommit(deployed) /\ sha < deployed

\* HandleSHA returns early, after writing back the state it read.
PollGiveUp ==
    /\ proc' = [proc EXCEPT ![Poller] = Idle]
    /\ UNCHANGED <<remote, mirror, records, host, phase, jobs, run>>

NoChange == LET me == proc[Poller] IN me.sha = me.copy \/ isStalePoll(me.sha, me.copy)

PollReturn ==
    /\ proc[Poller].pc = "decide" /\ NoChange
    /\ SaveRepoState(proc[Poller].copy)
    /\ PollGiveUp

\* The config reload or the fetch fails, the write perhaps as well.
PollDefer ==
    /\ proc[Poller].pc = "decide" /\ ~NoChange
    /\ Fault
    /\ lastDeployed' \in {proc[Poller].copy, lastDeployed}
    /\ PollGiveUp

\* A mirror that exists fetches the commit; whether the poll is stale is not
\* asked again with what the fetch brought.
PollFetch ==
    /\ proc[Poller].pc = "decide" /\ ~NoChange
    /\ proc' = [proc EXCEPT ![Poller].pc = "plan"]
    /\ mirror' = IF mirror = 0 \/ HasCommit(proc[Poller].sha) THEN mirror ELSE remote
    /\ UNCHANGED <<remote, lastDeployed, records, host, phase, jobs, run, budget>>

PollPlan ==
    /\ proc[Poller].pc = "plan"
    /\ proc' = [proc EXCEPT ![Poller].pc = "save",
                            ![Poller].todo = PendingTargetsForHead(proc[Poller].sha)]
    /\ UNCHANGED <<durable, phase, jobs, run, budget>>

PollSave ==
    /\ proc[Poller].pc = "save"
    /\ SaveRepoState(proc[Poller].sha)
    /\ Planned(Poller, proc[Poller].sha, proc[Poller].todo)
    /\ UNCHANGED <<remote, mirror, records, host, phase, jobs, run>>

-----------------------------------------------------------------------------
(* The deploy of one target, under its project lock.                       *)

\* A manual deploy is never a duplicate.
DuplicateJob(t, job) == ~job.redeploy /\ ShouldSkipDeploy(t, job.sha)

\* Mutation: the duplicate check happens only at dispatch.
JobStartNoCheck(t, n) ==
    /\ run[t] = NoRun
    /\ InOrder => n = 1
    /\ jobs' = [jobs EXCEPT ![t] = RemoveAt(@, n)]
    /\ run' = [run EXCEPT ![t] = [pc |-> "fetch", job |-> jobs[t][n]]]
    /\ SaveDeployment(t, jobs[t][n].sha, "running")
    /\ UNCHANGED <<remote, mirror, lastDeployed, host, phase, proc>>

\* Mutation: the record is written only when the deploy is over.
JobStartNoRecord(t, n) ==
    /\ run[t] = NoRun
    /\ InOrder => n = 1
    /\ jobs' = [jobs EXCEPT ![t] = RemoveAt(@, n)]
    /\ IF DuplicateJob(t, jobs[t][n])
       THEN UNCHANGED run
       ELSE run' = [run EXCEPT ![t] = [pc |-> "fetch", job |-> jobs[t][n]]]
    /\ UNCHANGED <<durable, phase, proc, budget>>

\* The duplicate check is repeated under the lock; then the record is saved.
JobStart(t, n) ==
    LET job == jobs[t][n] IN
    /\ run[t] = NoRun
    /\ InOrder => n = 1
    /\ jobs' = [jobs EXCEPT ![t] = RemoveAt(@, n)]
    /\ IF DuplicateJob(t, job)
       THEN UNCHANGED <<run, records, budget>>
       ELSE /\ run' = [run EXCEPT ![t] = [pc |-> "fetch", job |-> job]]
            /\ SaveDeployment(t, job.sha, "running")
    /\ UNCHANGED <<remote, mirror, lastDeployed, host, phase, proc>>

\* mirror.Open clones on first use, EnsureCommit fetches a missing commit.
JobFetch(t) ==
    /\ run[t].pc = "fetch"
    /\ run' = [run EXCEPT ![t].pc = "up"]
    /\ mirror' = IF HasCommit(run[t].job.sha) THEN mirror ELSE remote
    /\ UNCHANGED <<remote, lastDeployed, records, host, phase, proc, jobs, budget>>

JobUp(t) ==
    /\ run[t].pc = "up"
    /\ run' = [run EXCEPT ![t].pc = "save"]
    /\ host' = [host EXCEPT ![t] = run[t].job.sha]
    /\ UNCHANGED <<remote, mirror, lastDeployed, records, phase, proc, jobs, budget>>

\* A deploy may fail at any point, after the containers changed as well.
JobFails(t) ==
    /\ run[t].pc \in {"fetch", "up", "save"}
    /\ run' = [run EXCEPT ![t].pc = "failed"]
    /\ Fault
    /\ UNCHANGED <<durable, phase, proc, jobs>>

JobSave(t) ==
    /\ \/ run[t].pc = "save" /\ SaveDeployment(t, run[t].job.sha, "success")
       \/ run[t].pc = "failed" /\ SaveDeployment(t, run[t].job.sha, "failed")
    /\ run' = [run EXCEPT ![t] = NoRun]
    /\ UNCHANGED <<remote, mirror, lastDeployed, host, phase, proc, jobs>>

-----------------------------------------------------------------------------
(* Crash or shutdown, and startup.                                         *)

Crash ==
    /\ phase # "down" /\ crashes < MaxCrashes
    /\ crashes' = crashes + 1
    /\ phase' = "down"
    /\ proc' = [p \in Procs |-> Idle]
    /\ jobs' = [t \in Targets |-> <<>>]
    /\ run' = [t \in Targets |-> NoRun]
    /\ UNCHANGED <<durable, manual, faults>>

\* Mutation: records of interrupted deploys are left as they are.
MarkNothing == index

MarkStaleRunningDeploymentsFailed ==
    [t \in Targets |-> IF index[t].status = "running"
                       THEN [index[t] EXCEPT !.status = "interrupted"] ELSE index[t]]

Restart ==
    /\ phase = "down"
    /\ phase' = "resume"
    /\ index' = MarkStaleRunningDeploymentsFailed
    /\ UNCHANGED <<remote, mirror, lastDeployed, unsaved, host, proc, jobs, run, budget>>

\* Mutation: startup plans nothing.
ResumeNothing ==
    /\ phase = "resume"
    /\ phase' = "up"
    /\ UNCHANGED <<durable, proc, jobs, run, budget>>

ResumeIncompleteDeploys ==
    /\ phase = "resume"
    /\ phase' = "up"
    /\ Planned(Resume, resolveMirror,
               IF resolveMirror = 0 THEN {} ELSE PendingTargetsForHead(resolveMirror))
    /\ UNCHANGED <<durable, jobs, run, budget>>

-----------------------------------------------------------------------------
Webhook(c) == WebhookReload(c) \/ WebhookRead(c) \/ WebhookSave(c)
Poll == PollRead \/ PollReturn \/ PollDefer \/ PollFetch \/ PollPlan \/ PollSave
Job(t) == (\E n \in DOMAIN jobs[t] : JobStart(t, n)) \/ JobFetch(t) \/ JobUp(t)
          \/ JobFails(t) \/ JobSave(t)
Startup == Restart \/ ResumeIncompleteDeploys

Next ==
    \/ Push
    \/ \E p \in Procs : MakePushHandler(p)
    \/ \E c \in Commits : Webhook(c)
    \/ PollTick
    \/ Poll
    \/ \E t \in Targets : Job(t)
    \/ Crash
    \/ Startup
    \/ buildDeployFunc

Spec == Init /\ [][Next]_vars

\* The goroutines run, the ticker ticks, every submitted job gets its turn
\* (Runner!AcceptedCompletes), and a supervisor restarts the daemon.
\* Nobody has to push.
Fairness ==
    /\ \A p \in Procs : WF_vars(MakePushHandler(p))
    /\ \A c \in Commits : WF_vars(Webhook(c))
    /\ WF_vars(PollTick) /\ WF_vars(Poll) /\ WF_vars(Startup)
    /\ \A t \in Targets : WF_vars(Job(t))

LiveSpec == Spec /\ Fairness

-----------------------------------------------------------------------------
(* Properties.                                                             *)

\* Commits, records, mirror and goroutines stay in their types: every record a
\* crash or the startup marking leaves behind has a status the store knows.
TypeOK ==
    /\ remote \in Commits /\ mirror \in Shas /\ lastDeployed \in Shas
    /\ index \in [Targets -> [sha : Shas, status : Statuses]]
    /\ unsaved \subseteq Targets
    /\ host \in [Targets -> Shas]
    /\ phase \in {"up", "down", "resume"}
    /\ proc \in [Procs -> [pc : {"idle", "reload", "read", "save", "decide", "plan", "fanout"},
                           sha : Shas, copy : Shas, todo : SUBSET Targets]]
    /\ jobs \in [Targets -> Seq([sha : Commits, redeploy : BOOLEAN])]
    /\ run \in [Targets -> [pc : {"none", "fetch", "up", "save", "failed"},
                            job : [sha : Shas, redeploy : BOOLEAN]]]
    /\ manual \in 0..MaxManual /\ faults \in 0..MaxFaults /\ crashes \in 0..MaxCrashes

\* A record that says "success" names the commit whose containers run on
\* the host, through any crash, failure or reordering of jobs: that is what
\* the duplicate check and the resume baseline rely on (DeployTarget saves
\* "running" before it touches the host). When a write fails it is not so until
\* a later one succeeds.
SuccessMatchesHost ==
    \A t \in Targets \ unsaved : index[t].status = "success" =>
        host[t] = index[t].sha /\ host[t] <= mirror

\* A record is "running" exactly while its deploy holds the lock, except
\* between a crash and the next startup: nothing skips a commit on account
\* of a deploy that died. (One whose last write failed is skipped until the
\* next startup marks it.)
RunningMeansLocked ==
    phase # "down" => \A t \in Targets \ unsaved :
        index[t].status = "running" <=> run[t] # NoRun

\* A step never begins to deploy a commit that the target already runs
\* successfully, however webhook, poller and resume overlap (ShouldSkipDeploy
\* at dispatch and again under the lock), unless an operator asked for it.
NoDoubleDeploy ==
    [][\A t \in Targets :
          run[t] = NoRun /\ run'[t] # NoRun =>
              \/ run'[t].job.redeploy
              \/ ~(index[t].status = "success" /\ index[t].sha = run'[t].job.sha)]_vars

\* The newest commit that touches t and is on the branch.
Wanted(t) == {c \in Commits : c <= remote /\ t \in Touches[c]}

\* The target's containers are at least as new as every commit that touches
\* it, or its last deploy failed, and was not merely interrupted. (What became
\* of it is unknown when the record could not be written.)
Settled(t) == t \in unsaved \/ index[t].status = "failed" \/ \A c \in Wanted(t) : c <= host[t]

\* Every target eventually settles at the newest commit that touches it,
\* whatever crashes happen between detecting the commit, recording it,
\* fetching, dispatching and deploying: HandleSHA "reconciles each of its
\* targets to it", ResumeIncompleteDeploys makes up for what was dropped.
Converges == \A t \in Targets : <>[]Settled(t)
=============================================================================
