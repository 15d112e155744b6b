----------------------------- MODULE Lifecycle -----------------------------
(***************************************************************************)
(* The goroutines of the daemon from the first poll to the release of its  *)
(* lock: repository watchers, one generation per configuration, the        *)
(* reloads that replace them, the reconcile worker, the runner's jobs and  *)
(* the shutdown sequence, with its two contexts and the grace timer.       *)
(***************************************************************************)
EXTENDS Naturals, FiniteSets

CONSTANTS
    Deploys,      \* jobs that polls and requests hand to the runner
    Grace,        \* TRUE: DEEPLO_SHUTDOWN_GRACE is not zero
    MaxReloads    \* bound: configuration reloads

ASSUME LifecycleAssumption ==
    /\ "teardown" \notin Deploys
    /\ Grace \in BOOLEAN /\ MaxReloads \in Nat

Generations == 1..MaxReloads + 1
NoReload == [pc |-> "none", by |-> 0]

VARIABLES
    watcher,    \* generation -> "none", "new", "polling", "cancelled", "stopped"
    busy,       \* generations whose goroutine is inside its handlers
    instance,   \* managedWatcher.instance
    stopping,   \* generations a `go old.Stop()` is under way for
    reload,     \* the reload that holds applyMutex; `by` is 0 for a request
    push,       \* a push goroutine of the webhook or an admin request
    trigger, loop,   \* reconcile worker: "idle", "pass", "exited"
    jobs,       \* jobs the runner has accepted and not finished
    offered,    \* deploys that were handed over already
    accepting,  \* the runner takes jobs
    intake, ops,     \* the contexts intakeCtx and opsCtx are live
    stage,      \* how far shutdown has come
    stopped,    \* the watcher that shutdown stops
    lock        \* the single-instance lock is held

lifeVars == <<watcher, busy, instance, stopping, reload, push, trigger, loop, jobs, offered,
              accepting, intake, ops, stage, stopped, lock>>

watchers == <<watcher, busy, instance, stopping>>
worker == <<trigger, loop>>
contexts == <<intake, ops>>
closing == <<stage, stopped, lock>>

\* Run has started the first watcher and triggered the first pass.
LifeInit ==
    /\ watcher = [g \in Generations |-> IF g = 1 THEN "polling" ELSE "none"]
    /\ busy = {} /\ instance = 1 /\ stopping = {}
    /\ reload = NoReload /\ push = FALSE
    /\ trigger = TRUE /\ loop = "idle"
    /\ jobs = {} /\ offered = {} /\ accepting = TRUE
    /\ intake = TRUE /\ ops = TRUE
    /\ stage = "run" /\ stopped = 0 /\ lock = TRUE

-----------------------------------------------------------------------------
(* A watcher: one poll group of its generation.                            *)

\* ls-remote found a commit; without one nothing happens.
PollBegin(g) ==
    /\ watcher[g] = "polling" /\ g \notin busy
    /\ busy' = busy \cup {g}
    /\ UNCHANGED <<watcher, instance, stopping, reload, push, worker, jobs, offered, accepting, contexts, closing>>

\* HandleSHA submits a deploy under opsCtx; a stopped runner refuses.
PollSubmit(g, d) ==
    /\ g \in busy /\ d \notin offered
    /\ offered' = offered \cup {d}
    /\ jobs' = IF accepting THEN jobs \cup {d} ELSE jobs
    /\ UNCHANGED <<watchers, reload, push, worker, accepting, contexts, closing>>

PollEnd(g) ==
    /\ g \in busy /\ reload.by # g
    /\ busy' = busy \ {g}
    /\ UNCHANGED <<watcher, instance, stopping, reload, push, worker, jobs, offered, accepting, contexts, closing>>

\* The group sees its context cancelled between two polls.
PollExit(g) ==
    /\ watcher[g] = "cancelled" /\ g \notin busy
    /\ watcher' = [watcher EXCEPT ![g] = "stopped"]
    /\ UNCHANGED <<busy, instance, stopping, reload, push, worker, jobs, offered, accepting, contexts, closing>>

Cancelled(g) ==
    [watcher EXCEPT ![g] = IF @ = "polling" THEN "cancelled" ELSE @]

-----------------------------------------------------------------------------
(* A reload: from a watcher's own handler or from a request.               *)

\* The servers accept a request; the goroutine of a push outlives it.
Request ==
    /\ stage \in {"run", "stop watcher", "wait watcher"} /\ ~push
    /\ push' = TRUE
    /\ UNCHANGED <<watchers, reload, worker, jobs, offered, accepting, contexts, closing>>

RequestEnd ==
    /\ push /\ (reload = NoReload \/ reload.by # 0)
    /\ push' = FALSE
    /\ UNCHANGED <<watchers, reload, worker, jobs, offered, accepting, contexts, closing>>

\* A push or a manual deploy fans out under opsCtx, however late in the
\* shutdown its goroutine comes to it.
RequestSubmit(d) ==
    /\ push /\ d \notin offered /\ (reload = NoReload \/ reload.by # 0)
    /\ offered' = offered \cup {d}
    /\ jobs' = IF accepting THEN jobs \cup {d} ELSE jobs
    /\ UNCHANGED <<watchers, reload, push, worker, accepting, contexts, closing>>

\* applyMutex is taken for a changed configuration, buildWatcher follows.
ReloadBegin(by) ==
    /\ reload = NoReload
    /\ IF by = 0 THEN push ELSE by \in busy
    /\ \E g \in Generations :
          /\ watcher[g] = "none" /\ \A h \in Generations : h < g => watcher[h] # "none"
          /\ watcher' = [watcher EXCEPT ![g] = "new"]
          /\ reload' = [pc |-> "swap", by |-> by, new |-> g, old |-> 0]
    /\ UNCHANGED <<busy, instance, stopping, push, worker, jobs, offered, accepting, contexts, closing>>

\* restart: the pointer is swapped first...
RestartSwap ==
    /\ reload.pc = "swap"
    /\ reload' = [reload EXCEPT !.pc = "start", !.old = instance]
    /\ instance' = reload.new
    /\ UNCHANGED <<watcher, busy, stopping, push, worker, jobs, offered, accepting, contexts, closing>>

\* ... then the new watcher is started, whoever may have stopped it...
RestartStart ==
    /\ reload.pc = "start"
    /\ reload' = [reload EXCEPT !.pc = "stop old"]
    /\ watcher' = [watcher EXCEPT ![reload.new] = "polling"]
    /\ UNCHANGED <<busy, instance, stopping, push, worker, jobs, offered, accepting, contexts, closing>>

\* Mutation: the old watcher is waited for.
RestartStopWaiting ==
    /\ reload.pc = "stop old"
    /\ IF watcher[reload.old] = "stopped"
       THEN reload' = NoReload /\ trigger' = TRUE /\ UNCHANGED watcher
       ELSE watcher' = Cancelled(reload.old) /\ UNCHANGED <<reload, trigger>>
    /\ UNCHANGED <<busy, instance, stopping, push, loop, jobs, offered, accepting, contexts, closing>>

\* ... and the old one is stopped on the side; the worker is triggered.
RestartStop ==
    /\ reload.pc = "stop old"
    /\ stopping' = stopping \cup {reload.old}
    /\ trigger' = TRUE
    /\ reload' = NoReload
    /\ UNCHANGED <<watcher, busy, instance, push, loop, jobs, offered, accepting, contexts, closing>>

\* go old.Stop()
StopOld(g) ==
    /\ g \in stopping
    /\ stopping' = stopping \ {g}
    /\ watcher' = Cancelled(g)
    /\ UNCHANGED <<busy, instance, reload, push, worker, jobs, offered, accepting, contexts, closing>>

-----------------------------------------------------------------------------
(* The reconcile worker and the jobs.                                      *)

\* A pass may begin with the context cancelled: select picks either case.
\* Its teardown is waited for.
LoopPass ==
    /\ loop = "idle" /\ trigger
    /\ trigger' = FALSE /\ loop' = "pass"
    /\ jobs' = IF accepting THEN jobs \cup {"teardown"} ELSE jobs
    /\ UNCHANGED <<watchers, reload, push, offered, accepting, contexts, closing>>

LoopPassEnd ==
    /\ loop = "pass" /\ "teardown" \notin jobs
    /\ loop' = "idle"
    /\ UNCHANGED <<watchers, reload, push, trigger, jobs, offered, accepting, contexts, closing>>

LoopExit ==
    /\ loop = "idle" /\ ~intake
    /\ loop' = "exited"
    /\ UNCHANGED <<watchers, reload, push, trigger, jobs, offered, accepting, contexts, closing>>

JobEnd(j) ==
    /\ j \in jobs
    /\ jobs' = jobs \ {j}
    /\ UNCHANGED <<watchers, reload, push, worker, offered, accepting, contexts, closing>>

-----------------------------------------------------------------------------
(* App.shutdown.                                                           *)

Signal ==
    /\ stage = "run"
    /\ stage' = "stop watcher" /\ stopped' = instance
    /\ UNCHANGED <<watchers, reload, push, worker, jobs, offered, accepting, contexts, lock>>

StopWatcher ==
    /\ stage = "stop watcher"
    /\ stage' = "wait watcher"
    /\ watcher' = Cancelled(stopped)
    /\ UNCHANGED <<busy, instance, stopping, reload, push, worker, jobs, offered, accepting, contexts, stopped, lock>>

\* Wait returns at once for a watcher that was not started yet. Then the
\* servers go down: in-flight requests have thirty seconds.
WaitWatcher ==
    /\ stage = "wait watcher" /\ watcher[stopped] \in {"new", "stopped"}
    /\ stage' = "servers down"
    /\ UNCHANGED <<watchers, reload, push, worker, jobs, offered, accepting, contexts, stopped, lock>>

CancelIntake ==
    /\ stage = "servers down"
    /\ stage' = "wait loop"
    /\ intake' = FALSE
    /\ ops' = Grace
    /\ UNCHANGED <<watchers, reload, push, worker, jobs, offered, accepting, stopped, lock>>

\* Mutation: the timer is disarmed when the worker is done.
GraceForWorker ==
    /\ Grace /\ ops /\ stage = "wait loop"
    /\ ops' = FALSE
    /\ UNCHANGED <<watchers, reload, push, worker, jobs, offered, accepting, intake, closing>>

GraceElapsed ==
    /\ Grace /\ ops /\ stage \in {"wait loop", "stop runner"}
    /\ ops' = FALSE
    /\ UNCHANGED <<watchers, reload, push, worker, jobs, offered, accepting, intake, closing>>

WaitLoop ==
    /\ stage = "wait loop" /\ loop = "exited"
    /\ stage' = "stop runner"
    /\ accepting' = FALSE
    /\ UNCHANGED <<watchers, reload, push, worker, jobs, offered, contexts, stopped, lock>>

\* Mutation: the lock is released with the runner still at work.
FinishEarly ==
    /\ stage = "stop runner"
    /\ stage' = "done"
    /\ ops' = FALSE /\ lock' = FALSE
    /\ UNCHANGED <<watchers, reload, push, worker, jobs, offered, accepting, intake, stopped>>

\* runner.Stop has waited for its goroutines; the lock is closed last.
Finish ==
    /\ stage = "stop runner" /\ jobs = {}
    /\ stage' = "done"
    /\ ops' = FALSE /\ lock' = FALSE
    /\ UNCHANGED <<watchers, reload, push, worker, jobs, offered, accepting, intake, stopped>>

-----------------------------------------------------------------------------
Poll(g) == PollBegin(g) \/ PollEnd(g) \/ PollExit(g) \/ \E d \in Deploys : PollSubmit(g, d)
Restart == RestartSwap \/ RestartStart \/ RestartStop
Worker == LoopPass \/ LoopPassEnd \/ LoopExit
Shutdown == StopWatcher \/ WaitWatcher \/ CancelIntake \/ WaitLoop \/ Finish

LifeNext ==
    \/ \E g \in Generations : Poll(g) \/ StopOld(g)
    \/ Request \/ RequestEnd \/ (\E d \in Deploys : RequestSubmit(d)) \/ (\E by \in Generations \cup {0} : ReloadBegin(by)) \/ Restart
    \/ Worker \/ (\E j \in Deploys \cup {"teardown"} : JobEnd(j))
    \/ Signal \/ Shutdown \/ GraceElapsed

LifeSpec == LifeInit /\ [][LifeNext]_lifeVars

\* Goroutines run and handlers return (git commands end); a job is only sure
\* to end once its context is cancelled: DEEPLO_DEPLOY_TIMEOUT is off by default.
LiveSpec ==
    /\ LifeSpec
    /\ \A g \in Generations :
          WF_lifeVars(PollEnd(g)) /\ WF_lifeVars(PollExit(g)) /\ WF_lifeVars(StopOld(g))
    /\ WF_lifeVars(Restart) /\ WF_lifeVars(LoopPass) /\ WF_lifeVars(LoopPassEnd) /\ WF_lifeVars(LoopExit)
    /\ WF_lifeVars(Shutdown) /\ WF_lifeVars(GraceElapsed)
    /\ \A j \in Deploys \cup {"teardown"} : WF_lifeVars(~ops /\ JobEnd(j))

-----------------------------------------------------------------------------
(* Properties.                                                             *)

\* The goroutines and stages stay in their types; only a watcher that was
\* started and has not ended is inside its handlers.
LifeTypeOK ==
    /\ watcher \in [Generations -> {"none", "new", "polling", "cancelled", "stopped"}]
    /\ busy \subseteq {g \in Generations : watcher[g] \in {"polling", "cancelled"}}
    /\ instance \in Generations /\ stopping \subseteq Generations
    /\ jobs \subseteq Deploys \cup {"teardown"} /\ offered \subseteq Deploys
    /\ loop \in {"idle", "pass", "exited"}
    /\ {push, trigger, accepting, intake, ops, lock} \subseteq BOOLEAN
    /\ stage \in {"run", "stop watcher", "wait watcher", "servers down", "wait loop",
                  "stop runner", "done"}

\* The lock outlives every deploy and teardown, also the ones that polls,
\* pushes, manual deploys or passes submitted in the middle of a shutdown: the next daemon on this data
\* directory does not meet them.
LockCoversJobs == ~lock => jobs = {}

\* At most one watcher is in charge: a generation that a reload replaced
\* stops, even when its own handler asked for the reload.
ReplacedStops ==
    \A g \in Generations :
        (watcher[g] = "polling" /\ instance > g) ~> (watcher[g] = "stopped")

\* Once the watcher is told to stop, the daemon comes to its end, with jobs
\* that hang until they are cancelled, a pass that waits for one of them,
\* reloads and new watchers under way.
ShutdownEnds ==
    (stage = "wait watcher" /\ watcher[stopped] \in {"cancelled", "stopped"}) ~> (stage = "done")
=============================================================================
