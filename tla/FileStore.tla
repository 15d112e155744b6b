----------------------------- MODULE FileStore -----------------------------
(***************************************************************************)
(* The durable deployment history of internal/state: one run file per      *)
(* deployment and an index, projects.json, with the latest deployment of   *)
(* each target (project, host).  Every operation holds the store's mutex,  *)
(* so nothing interleaves with it but a crash; each file is replaced       *)
(* atomically (utils.AtomicWrite), two files are not.                      *)
(*                                                                         *)
(* The callers are DeployTarget, which saves a deployment when it starts   *)
(* and when it ends and only logs a failed save, the teardown of a target, *)
(* and startup.  The runner's project lock keeps them apart per target.    *)
(* The retention sweep of internal/runlog deletes old run files beside     *)
(* them, without the mutex and without a look at the index.                *)
(***************************************************************************)
EXTENDS Naturals, FiniteSets

CONSTANTS
    Deployments,  \* deployment IDs
    TargetOf,     \* the target each is a deployment of
    MaxTime,      \* bound: StartedAt of a deployment
    ClockSteps,   \* TRUE: the wall clock may be set back between deployments
    Retention,    \* TRUE: DEEPLO_LOG_RETENTION_DAYS is not zero
    MaxFaults,    \* bound: failed writes
    MaxCrashes    \* bound: crashes

Targets == {TargetOf[d] : d \in Deployments}

CONSTANT NoDeployment  \* the index has no entry for the target
ASSUME StoreAssumption ==
    /\ IsFiniteSet(Deployments) /\ NoDeployment \notin Deployments
    /\ MaxTime \in Nat /\ ClockSteps \in BOOLEAN /\ Retention \in BOOLEAN
    /\ MaxFaults \in Nat /\ MaxCrashes \in Nat

VARIABLES
    runs,     \* history/runs/<id>.json: the status it records; "expired" once swept
    index,    \* state/projects.json: id and status of the latest deployment
    started,  \* StartedAt, 0 before the deployment starts
    pc,       \* where the goroutine of each deployment is
    status,   \* Deployment.Status in that goroutine's memory
    op,       \* the deployment whose index write is due: the mutex is held
    stale,    \* targets whose run file MarkStaleRunningDeploymentsFailed has to rewrite
    phase,    \* "down", "mark" during startup, "up"
    clean,    \* no write has failed since startup last marked the stale entries
    faults, crashes

disk == <<runs, index>>
memory == <<started, pc, status, op>>
budget == <<faults, crashes>>
vars == <<disk, memory, stale, phase, clean, budget>>

Terminal == {"success", "failed"}
Ended == Terminal \cup {"expired"}
NoEntry == [id |-> NoDeployment, status |-> "none"]
Entries == {NoEntry} \cup [id : Deployments, status : {"running"} \cup Terminal]

Init ==
    /\ runs = [d \in Deployments |-> "none"]
    /\ index = [t \in Targets |-> NoEntry]
    /\ started = [d \in Deployments |-> 0]
    /\ pc = [d \in Deployments |-> "new"]
    /\ status = [d \in Deployments |-> "none"]
    /\ op = NoDeployment
    /\ stale = {}
    /\ phase = "up"
    /\ clean = TRUE
    /\ faults = 0 /\ crashes = 0

Unlocked == op = NoDeployment

\* The goroutine runs DeployTarget, under its target's project lock.
Active(d) == pc[d] \in {"start", "deploying", "finish"}

TargetIdle(t) == \A d \in Deployments : TargetOf[d] = t => ~Active(d)

\* A write returns an error; AtomicWrite leaves the old file.
WriteFails == faults < MaxFaults /\ faults' = faults + 1 /\ clean' = FALSE /\ UNCHANGED crashes

-----------------------------------------------------------------------------
(* DeployTarget's use of the store.                                        *)

StartDeployment(d) ==
    /\ phase = "up" /\ pc[d] = "new" /\ TargetIdle(TargetOf[d])
    /\ pc' = [pc EXCEPT ![d] = "start"]
    /\ status' = [status EXCEPT ![d] = "running"]
    /\ \E now \in 1..MaxTime :
          /\ ClockSteps \/ \A e \in Deployments : started[e] <= now
          /\ started' = [started EXCEPT ![d] = now]
    /\ UNCHANGED <<disk, op, stale, phase, clean, budget>>

FinishDeployment(d) ==
    /\ pc[d] = "deploying"
    /\ pc' = [pc EXCEPT ![d] = "finish"]
    /\ \E s \in Terminal : status' = [status EXCEPT ![d] = s]
    /\ UNCHANGED <<disk, started, op, stale, phase, clean, budget>>

\* The goroutine goes on after SaveDeployment, whether or not it failed.
AfterSave(d) == pc' = [pc EXCEPT ![d] = IF pc[d] = "start" THEN "deploying" ELSE "done"]

\* Mutation: SaveDeployment writes the index first.
SaveIndexFirst(d) ==
    /\ Unlocked /\ pc[d] \in {"start", "finish"}
    /\ \/ /\ index' = [index EXCEPT ![TargetOf[d]] = [id |-> d, status |-> status[d]]]
          /\ op' = d
          /\ UNCHANGED <<runs, pc, clean, budget>>
       \/ WriteFails /\ AfterSave(d) /\ UNCHANGED <<disk, op>>
    /\ UNCHANGED <<started, status, stale, phase>>

\* SaveDeployment: the run file first.
SaveDeployment(d) ==
    /\ Unlocked /\ pc[d] \in {"start", "finish"}
    /\ \/ runs' = [runs EXCEPT ![d] = status[d]] /\ op' = d /\ UNCHANGED <<pc, clean, budget>>
       \/ WriteFails /\ AfterSave(d) /\ UNCHANGED <<runs, op>>
    /\ UNCHANGED <<index, started, status, stale, phase>>

\* Mutation: an equal start time, or one's own entry, does not supersede.
SupersedesStrictly(d) ==
    LET current == index[TargetOf[d]].id
    IN current \in Deployments => started[d] > started[current]

\* The entry gives way to its own deployment and to one not started earlier.
Supersedes(d) ==
    LET current == index[TargetOf[d]].id
    IN current \in Deployments \ {d} => started[d] >= started[current]

updateProjectsIndex(d) ==
    /\ op = d /\ op' = NoDeployment
    /\ AfterSave(d)
    /\ \/ /\ index' = IF Supersedes(d)
                      THEN [index EXCEPT ![TargetOf[d]] = [id |-> d, status |-> status[d]]]
                      ELSE index
          /\ UNCHANGED <<clean, budget>>
       \/ WriteFails /\ UNCHANGED index
    /\ UNCHANGED <<runs, started, status, stale, phase>>

\* After a teardown, which is a job under the target's project lock.
DeleteLatestDeployment(t) ==
    /\ phase = "up" /\ Unlocked /\ TargetIdle(t) /\ index[t] # NoEntry
    /\ \/ index' = [index EXCEPT ![t] = NoEntry] /\ UNCHANGED <<clean, budget>>
       \/ WriteFails /\ UNCHANGED index
    /\ UNCHANGED <<runs, memory, stale, phase>>

\* cleanDir removes a run file whose last write is past the retention, that
\* of a deploy still under way as well. One that was written moments ago, by
\* a save that is not over, is not that old: the retention is a day or more.
cleanDir(d) ==
    /\ Retention /\ phase = "up"
    /\ runs[d] \in {"running"} \cup Terminal /\ op # d
    /\ runs' = [runs EXCEPT ![d] = "expired"]
    /\ UNCHANGED <<index, memory, stale, phase, clean, budget>>

-----------------------------------------------------------------------------
(* Crash and startup.                                                      *)

Crash ==
    /\ phase # "down" /\ crashes < MaxCrashes
    /\ crashes' = crashes + 1
    /\ phase' = "down"
    /\ pc' = [d \in Deployments |-> IF Active(d) THEN "dead" ELSE pc[d]]
    /\ op' = NoDeployment /\ stale' = {}
    /\ UNCHANGED <<disk, started, status, clean, faults>>

Restart ==
    /\ phase = "down" /\ phase' = "mark"
    /\ stale' = {t \in Targets : index[t].status = "running"}
    /\ UNCHANGED <<disk, memory, clean, budget>>

\* Mutation: the run file is rewritten before the status is changed.
MarkRunTooEarly(t) ==
    /\ phase = "mark" /\ t \in stale
    /\ runs' = [runs EXCEPT ![index[t].id] = index[t].status]
    /\ stale' = stale \ {t}
    /\ UNCHANGED <<index, memory, phase, clean, budget>>

\* The loop over the running entries rewrites their run files.
MarkRunFailed(t) ==
    /\ phase = "mark" /\ t \in stale
    /\ runs' = [runs EXCEPT ![index[t].id] = "failed"]
    /\ stale' = stale \ {t}
    /\ UNCHANGED <<index, memory, phase, clean, budget>>

\* Mutation: only the run files are marked.
MarkNoIndex == index

MarkedIndex ==
    [t \in Targets |-> IF index[t].status = "running"
                       THEN [index[t] EXCEPT !.status = "failed"] ELSE index[t]]

\* Then one write of the index; the daemon starts even after an error.
MarkStaleRunningDeploymentsFailed ==
    /\ phase = "mark" /\ phase' = "up" /\ stale' = {}
    /\ \/ stale = {} /\ index' = MarkedIndex /\ clean' = TRUE /\ UNCHANGED budget
       \/ WriteFails /\ UNCHANGED index
    /\ UNCHANGED <<runs, memory>>

-----------------------------------------------------------------------------
Next ==
    \/ \E d \in Deployments : \/ StartDeployment(d) \/ FinishDeployment(d)
                              \/ SaveDeployment(d) \/ updateProjectsIndex(d)
                              \/ cleanDir(d)
    \/ \E t \in Targets : DeleteLatestDeployment(t) \/ MarkRunFailed(t)
    \/ Crash \/ Restart \/ MarkStaleRunningDeploymentsFailed

Spec == Init /\ [][Next]_vars

-----------------------------------------------------------------------------
(* Properties.                                                             *)

\* Run files, index entries and the clock stay in their types.
TypeOK ==
    /\ runs \in [Deployments -> {"none", "running"} \cup Ended]
    /\ index \in [Targets -> Entries]
    /\ started \in [Deployments -> 0..MaxTime]
    /\ pc \in [Deployments -> {"new", "start", "deploying", "finish", "done", "dead"}]
    /\ status \in [Deployments -> {"none", "running"} \cup Terminal]
    /\ op \in Deployments \cup {NoDeployment}
    /\ stale \in SUBSET Targets
    /\ phase \in {"down", "mark", "up"} /\ clean \in BOOLEAN
    /\ faults \in 0..MaxFaults /\ crashes \in 0..MaxCrashes

\* The index never promises more than the history held: its entry has a run
\* file of that target, with the same status or, where a crash or a failed
\* write came between the two writes of SaveDeployment, a later one, as long
\* as the retention sweep has left it there.
IndexBacked ==
    \A t \in Targets : index[t] # NoEntry =>
        /\ TargetOf[index[t].id] = t
        /\ \/ runs[index[t].id] = index[t].status
           \/ index[t].status = "running" /\ runs[index[t].id] \in Terminal
           \/ runs[index[t].id] = "expired"

\* While the daemon is up, an entry says "running" only if its deployment
\* is: a stale one would make ShouldSkipDeploy refuse its commit for good.
\* (Saves and the startup marking that failed and were only logged do
\* leave one behind, until the next startup.)
NoStaleRunning ==
    phase = "up" /\ clean => \A t \in Targets :
        index[t].status = "running" => Active(index[t].id)

\* As long as no write fails, through crashes and clock steps: a deployment
\* in progress has replaced the entry of the previous one, unless the clock
\* was set back before it started; a finished one is never shown with another
\* result than its own; and an entry gives way only to a deployment that was
\* not started earlier (updateProjectsIndex), or to a teardown.
IndexIsLatest ==
    /\ [](faults = 0 => \A d \in Deployments :
            LET entry == index[TargetOf[d]]
                youngest == \A e \in Deployments :
                               TargetOf[e] = TargetOf[d] => started[e] <= started[d]
            IN /\ pc[d] = "deploying" /\ youngest => entry = [id |-> d, status |-> "running"]
               /\ pc[d] = "done" /\ entry.id = d => entry.status = status[d])
    /\ [][faults' = 0 => \A t \in Targets :
            index[t] # NoEntry /\ index'[t] # NoEntry =>
                started'[index[t].id] <= started'[index'[t].id]]_vars

\* The inductive invariant behind the properties: only a running daemon has
\* deployments, one per target; a started save has written the run file; the
\* entry of a deployment exists only after its first save and stays
\* "running" until its last; startup has marked what is no longer on its list.
ActiveWhenUp == \A d \in Deployments : Active(d) => phase = "up"

OneActive ==
    \A d, e \in Deployments :
        Active(d) /\ Active(e) /\ TargetOf[d] = TargetOf[e] => d = e

SaveUnderWay == op # NoDeployment => pc[op] \in {"start", "finish"} /\ runs[op] = status[op]

RecordMatchesPc ==
    \A d \in Deployments : LET entry == index[TargetOf[d]] IN
        /\ pc[d] = "new" => runs[d] = "none" /\ entry.id # d
        /\ pc[d] = "start" => /\ status[d] = "running" /\ entry.id # d
                             /\ runs[d] = IF op = d THEN "running" ELSE "none"
        /\ pc[d] \in {"deploying", "finish"} /\ entry.id = d => entry.status = "running"
        /\ pc[d] = "finish" => status[d] \in Terminal

MarkingOrder ==
    phase = "mark" => \A t \in Targets :
        /\ t \in stale => index[t].status = "running"
        /\ index[t].status = "running" /\ t \notin stale => runs[index[t].id] = "failed"

\* What every reachable state of the store satisfies.
IndInv == /\ TypeOK /\ IndexBacked /\ NoStaleRunning /\ ActiveWhenUp /\ OneActive
          /\ SaveUnderWay /\ RecordMatchesPc /\ MarkingOrder

\* A run file never goes back to "running" once its run has ended or the
\* file was swept: neither startup's marking, which writes a swept file
\* anew, nor a late save brings back a run that looks alive.
RunsNeverReopen ==
    [][\A d \in Deployments : runs[d] \in Ended => runs'[d] \in Ended]_vars
=============================================================================
