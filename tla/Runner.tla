------------------------------- MODULE Runner -------------------------------
(***************************************************************************)
(* The concurrent job dispatcher of internal/runner: a buffered job        *)
(* channel, one dispatch goroutine, one goroutine per dispatched job, a     *)
(* global semaphore, one semaphore per host, one lock per (project, host), *)
(* and the Stop protocol that closes the results channel.                  *)
(*                                                                         *)
(* Every blocking point of the Go code (channel send or receive, select,   *)
(* WaitGroup.Wait) is the boundary of a step, so TLC interleaves the       *)
(* submitters, the dispatcher, the jobs, the stopper and the consumer of   *)
(* the results exactly where the scheduler may.                            *)
(***************************************************************************)
EXTENDS Integers, Sequences, FiniteSets

CONSTANTS
    Jobs,                \* every job some caller may Submit, each once
    ProjectOf,           \* Job.Project
    HostOf,              \* Job.Host
    CtxOf,               \* the context a job is submitted with
    MaxWorkers,          \* Config.MaxWorkers, <= 0 means NumCPU
    NumCPU,              \* runtime.NumCPU()
    MaxHostConcurrency,  \* Config.MaxHostConcurrency, <= 0 means 1
    JobBuffer            \* capacity of jobChannel and of results (512 in the code)

ASSUME JobsAssumption == IsFiniteSet(Jobs)
ASSUME LimitsAssumption == /\ MaxWorkers \in Int
                           /\ MaxHostConcurrency \in Int
                           /\ NumCPU \in Nat \ {0}
                           /\ JobBuffer \in Nat \ {0}

\* Every job is the one deploy or teardown of a project on a host.
Key(j) == <<ProjectOf[j], HostOf[j]>>
Keys == {Key(j) : j \in Jobs}
Hosts == {HostOf[j] : j \in Jobs}
Contexts == {CtxOf[j] : j \in Jobs}

\* Capacity of the global semaphore: the default of a non-positive setting.
Workers == IF MaxWorkers <= 0 THEN NumCPU ELSE MaxWorkers

\* Capacity of each host's semaphore.
HostLimit == IF MaxHostConcurrency <= 0 THEN 1 ELSE MaxHostConcurrency

VARIABLES
    pc,               \* where each job is: its submitter, then its goroutine
    held,             \* deferred releases the job still owes, in acquisition order:
                      \* 0 none, 1 global, 2 global and host, 3 and the project lock
    outcome,          \* the error its Result carries
    jobChannel,       \* queued jobs
    globalSemaphore,  \* slots taken
    hostSemaphores,   \* slots taken per host
    projectLock,      \* tokens in each KeyedMutex channel: 1 free, 0 taken
    waitGroup,        \* the WaitGroup counter
    dispatcher,       \* "loop" or "exited"
    stopPc,           \* progress of Stop
    results,          \* results buffered in the results channel
    ctxDone           \* contexts that are cancelled or past their deadline

vars == <<pc, held, outcome, jobChannel, globalSemaphore, hostSemaphores,
          projectLock, waitGroup, dispatcher, stopPc, results, ctxDone>>

\* The goroutine of a job exists, so the WaitGroup counts it.
LivePcs == {"spawned", "global", "host", "lock", "check", "running",
            "finish", "report", "unwind"}
JobPcs == {"new", "sending", "queued", "refused", "dropped", "done"} \cup LivePcs
Outcomes == {"none", "ok", "failed", "cancelled", "stopped"}
StopPcs == {"idle", "marked", "waiting", "draining", "stopped"}

Live == {j \in Jobs : pc[j] \in LivePcs}
Running == {j \in Jobs : pc[j] = "running"}

\* runner.stopped.Load(), stopChannel is closed, results is closed.
StopFlag == stopPc # "idle"
StopChannelClosed == stopPc \in {"waiting", "draining", "stopped"}
ResultsClosed == stopPc = "stopped"
Cancelled(j) == CtxOf[j] \in ctxDone

Init ==
    /\ pc = [j \in Jobs |-> "new"]
    /\ held = [j \in Jobs |-> 0]
    /\ outcome = [j \in Jobs |-> "none"]
    /\ jobChannel = <<>>
    /\ globalSemaphore = 0
    /\ hostSemaphores = [h \in Hosts |-> 0]
    /\ projectLock = [k \in Keys |-> 1]
    /\ waitGroup = 1                       \* Start adds the dispatcher
    /\ dispatcher = "loop"
    /\ stopPc = "idle"
    /\ results = 0
    /\ ctxDone = {}

Goto(j, from, to) == pc[j] = from /\ pc' = [pc EXCEPT ![j] = to]

locks == <<globalSemaphore, hostSemaphores, projectLock>>

\* The job will finish with this result; deferred releases come after finish.
FinishWith(j, from, res) ==
    /\ Goto(j, from, "finish")
    /\ outcome' = [outcome EXCEPT ![j] = res]

\* One step of the goroutine that called Stop.
StopStep(from, to) ==
    /\ stopPc = from
    /\ stopPc' = to
    /\ UNCHANGED <<held, outcome, locks, waitGroup, dispatcher, results, ctxDone>>

-----------------------------------------------------------------------------
(* Mutations: bugs this code could plausibly have. None is part of Next;   *)
(* each shows that a property below would notice the bug.                  *)

\* Submit's select without its stopChannel case.
SubmitAbortNoStop(j) ==
    /\ Goto(j, "sending", "refused")
    /\ Cancelled(j)
    /\ UNCHANGED <<held, outcome, jobChannel, locks, waitGroup, dispatcher,
                   stopPc, results, ctxDone>>

\* waitGroup.Add forgotten before the job's goroutine starts.
DispatchNoAdd ==
    /\ dispatcher = "loop"
    /\ jobChannel # <<>>
    /\ pc' = [pc EXCEPT ![Head(jobChannel)] = "spawned"]
    /\ jobChannel' = Tail(jobChannel)
    /\ UNCHANGED <<held, outcome, locks, waitGroup, dispatcher, stopPc,
                   results, ctxDone>>

\* A host semaphore made one slot too large.
AcquireHostOffByOne(j) ==
    /\ Goto(j, "host", "lock")
    /\ hostSemaphores[HostOf[j]] <= HostLimit
    /\ hostSemaphores' = [hostSemaphores EXCEPT ![HostOf[j]] = @ + 1]
    /\ held' = [held EXCEPT ![j] = 2]
    /\ UNCHANGED <<outcome, jobChannel, globalSemaphore, projectLock, waitGroup,
                   dispatcher, stopPc, results, ctxDone>>

\* The early returns forget the slot acquired so far.
GiveUpNoRelease(j) ==
    /\ \E from \in {"global", "host"} :
          \/ StopChannelClosed /\ FinishWith(j, from, "stopped")
          \/ Cancelled(j) /\ FinishWith(j, from, "cancelled")
    /\ held' = [held EXCEPT ![j] = 0]
    /\ UNCHANGED <<jobChannel, locks, waitGroup, dispatcher, stopPc,
                   results, ctxDone>>

\* Lock returns although another job has the token.
AcquireLockNoWait(j) ==
    /\ Goto(j, "lock", "check")
    /\ projectLock' = [projectLock EXCEPT ![Key(j)] = 0]
    /\ held' = [held EXCEPT ![j] = 3]
    /\ UNCHANGED <<outcome, jobChannel, globalSemaphore, hostSemaphores,
                   waitGroup, dispatcher, stopPc, results, ctxDone>>

\* execute does not defer the unlock.
AcquireLockNoDefer(j) ==
    /\ Goto(j, "lock", "check")
    /\ projectLock[Key(j)] = 1
    /\ projectLock' = [projectLock EXCEPT ![Key(j)] = 0]
    /\ UNCHANGED <<held, outcome, jobChannel, globalSemaphore, hostSemaphores,
                   waitGroup, dispatcher, stopPc, results, ctxDone>>

\* The deferred waitGroup.Done is missing.
JobExitNoDone(j) ==
    /\ Goto(j, "unwind", "done")
    /\ held[j] = 0
    /\ UNCHANGED <<held, outcome, jobChannel, locks, waitGroup, dispatcher,
                   stopPc, results, ctxDone>>

\* Stop does not wait for the goroutines.
StopWaitNoWait == StopStep("waiting", "draining") /\ UNCHANGED <<pc, jobChannel>>

-----------------------------------------------------------------------------
(* Submit, run by the caller of the runner.                                *)

\* The stopped flag is read before the select, not under any lock.
SubmitCheck(j) ==
    /\ pc[j] = "new"
    /\ pc' = [pc EXCEPT ![j] = IF StopFlag THEN "refused" ELSE "sending"]
    /\ UNCHANGED <<held, outcome, jobChannel, locks, waitGroup, dispatcher,
                   stopPc, results, ctxDone>>

SubmitSend(j) ==
    /\ Goto(j, "sending", "queued")
    /\ Len(jobChannel) < JobBuffer
    /\ jobChannel' = Append(jobChannel, j)
    /\ UNCHANGED <<held, outcome, locks, waitGroup, dispatcher, stopPc,
                   results, ctxDone>>

SubmitAbort(j) ==
    /\ Goto(j, "sending", "refused")
    /\ StopChannelClosed \/ Cancelled(j)
    /\ UNCHANGED <<held, outcome, jobChannel, locks, waitGroup, dispatcher,
                   stopPc, results, ctxDone>>

-----------------------------------------------------------------------------
(* The dispatch goroutine. Once stopChannel is closed the select may still *)
(* pick a queued job.                                                      *)

Dispatch ==
    /\ dispatcher = "loop"
    /\ jobChannel # <<>>
    /\ pc' = [pc EXCEPT ![Head(jobChannel)] = "spawned"]
    /\ jobChannel' = Tail(jobChannel)
    /\ waitGroup' = waitGroup + 1
    /\ UNCHANGED <<held, outcome, locks, dispatcher, stopPc, results, ctxDone>>

DispatchExit ==
    /\ dispatcher = "loop"
    /\ StopChannelClosed
    /\ dispatcher' = "exited"
    /\ waitGroup' = waitGroup - 1
    /\ UNCHANGED <<pc, held, outcome, jobChannel, locks, stopPc, results, ctxDone>>

-----------------------------------------------------------------------------
(* execute and finish, run by the goroutine of job j.                      *)

ExecuteBegin(j) ==
    /\ \/ Cancelled(j) /\ FinishWith(j, "spawned", "cancelled")
       \/ ~Cancelled(j) /\ Goto(j, "spawned", "global") /\ UNCHANGED outcome
    /\ UNCHANGED <<held, jobChannel, locks, waitGroup, dispatcher, stopPc,
                   results, ctxDone>>

AcquireGlobal(j) ==
    /\ Goto(j, "global", "host")
    /\ globalSemaphore < Workers
    /\ globalSemaphore' = globalSemaphore + 1
    /\ held' = [held EXCEPT ![j] = 1]
    /\ UNCHANGED <<outcome, jobChannel, hostSemaphores, projectLock, waitGroup,
                   dispatcher, stopPc, results, ctxDone>>

AcquireHost(j) ==
    /\ Goto(j, "host", "lock")
    /\ hostSemaphores[HostOf[j]] < HostLimit
    /\ hostSemaphores' = [hostSemaphores EXCEPT ![HostOf[j]] = @ + 1]
    /\ held' = [held EXCEPT ![j] = 2]
    /\ UNCHANGED <<outcome, jobChannel, globalSemaphore, projectLock, waitGroup,
                   dispatcher, stopPc, results, ctxDone>>

\* Both semaphore selects also watch stopChannel and the context.
GiveUp(j) ==
    /\ \E from \in {"global", "host"} :
          \/ StopChannelClosed /\ FinishWith(j, from, "stopped")
          \/ Cancelled(j) /\ FinishWith(j, from, "cancelled")
    /\ UNCHANGED <<held, jobChannel, locks, waitGroup, dispatcher, stopPc,
                   results, ctxDone>>

\* KeyedMutex.Lock watches the context only, never stopChannel.
AcquireLock(j) ==
    /\ Goto(j, "lock", "check")
    /\ projectLock[Key(j)] = 1
    /\ projectLock' = [projectLock EXCEPT ![Key(j)] = 0]
    /\ held' = [held EXCEPT ![j] = 3]
    /\ UNCHANGED <<outcome, jobChannel, globalSemaphore, hostSemaphores,
                   waitGroup, dispatcher, stopPc, results, ctxDone>>

LockCancelled(j) ==
    /\ Cancelled(j)
    /\ FinishWith(j, "lock", "cancelled")
    /\ UNCHANGED <<held, jobChannel, locks, waitGroup, dispatcher, stopPc,
                   results, ctxDone>>

RunBegin(j) ==
    /\ \/ Cancelled(j) /\ FinishWith(j, "check", "cancelled")
       \/ ~Cancelled(j) /\ Goto(j, "check", "running") /\ UNCHANGED outcome
    /\ UNCHANGED <<held, jobChannel, locks, waitGroup, dispatcher, stopPc,
                   results, ctxDone>>

\* Job.DeployFunc returns.
RunReturn(j) ==
    /\ \E res \in {"ok", "failed"} : FinishWith(j, "running", res)
    /\ UNCHANGED <<held, jobChannel, locks, waitGroup, dispatcher, stopPc,
                   results, ctxDone>>

\* finish calls Job.OnComplete before it publishes the result.
OnComplete(j) ==
    /\ Goto(j, "finish", "report")
    /\ UNCHANGED <<held, outcome, jobChannel, locks, waitGroup, dispatcher,
                   stopPc, results, ctxDone>>

Report(j) ==
    /\ Goto(j, "report", "unwind")
    /\ \/ results < JobBuffer /\ results' = results + 1
       \/ StopChannelClosed /\ UNCHANGED results
    /\ UNCHANGED <<held, outcome, jobChannel, locks, waitGroup, dispatcher,
                   stopPc, ctxDone>>

\* The deferred releases, last acquired first, each a step of its own.
Unwind(j) ==
    /\ pc[j] = "unwind"
    /\ held[j] > 0
    /\ held' = [held EXCEPT ![j] = @ - 1]
    /\ \/ /\ held[j] = 3
          /\ projectLock' = [projectLock EXCEPT ![Key(j)] = 1]
          /\ UNCHANGED <<globalSemaphore, hostSemaphores>>
       \/ /\ held[j] = 2
          /\ hostSemaphores' = [hostSemaphores EXCEPT ![HostOf[j]] = @ - 1]
          /\ UNCHANGED <<globalSemaphore, projectLock>>
       \/ /\ held[j] = 1
          /\ globalSemaphore' = globalSemaphore - 1
          /\ UNCHANGED <<hostSemaphores, projectLock>>
    /\ UNCHANGED <<pc, outcome, jobChannel, waitGroup, dispatcher, stopPc,
                   results, ctxDone>>

JobExit(j) ==
    /\ Goto(j, "unwind", "done")
    /\ held[j] = 0
    /\ waitGroup' = waitGroup - 1
    /\ UNCHANGED <<held, outcome, jobChannel, locks, dispatcher, stopPc,
                   results, ctxDone>>

-----------------------------------------------------------------------------
(* Stop: the flag, then the channel, then the wait, the drain, the close.  *)

StopMark == StopStep("idle", "marked") /\ UNCHANGED <<pc, jobChannel>>
StopClose == StopStep("marked", "waiting") /\ UNCHANGED <<pc, jobChannel>>
StopWait == /\ waitGroup = 0
            /\ StopStep("waiting", "draining")
            /\ UNCHANGED <<pc, jobChannel>>

\* A drained job is only counted: neither OnComplete nor a result follows.
StopDrain ==
    /\ jobChannel # <<>>
    /\ StopStep("draining", "draining")
    /\ pc' = [pc EXCEPT ![Head(jobChannel)] = "dropped"]
    /\ jobChannel' = Tail(jobChannel)

StopFinish == /\ jobChannel = <<>>
              /\ StopStep("draining", "stopped")
              /\ UNCHANGED <<pc, jobChannel>>

Stop == StopMark \/ StopClose \/ StopWait \/ StopDrain \/ StopFinish

-----------------------------------------------------------------------------
(* The rest of the daemon: the reader of the results, and the contexts.    *)

DrainResults ==
    /\ results > 0
    /\ results' = results - 1
    /\ UNCHANGED <<pc, held, outcome, jobChannel, locks, waitGroup, dispatcher,
                   stopPc, ctxDone>>

Cancel(c) ==
    /\ c \notin ctxDone
    /\ ctxDone' = ctxDone \cup {c}
    /\ UNCHANGED <<pc, held, outcome, jobChannel, locks, waitGroup, dispatcher,
                   stopPc, results>>

\* Nothing is left to do; a job sent after the drain stays in jobChannel.
Settled == {"refused", "dropped", "done", "queued"}
Terminated ==
    /\ stopPc = "stopped"
    /\ \A j \in Jobs : pc[j] \in Settled
    /\ UNCHANGED vars

Submit(j) == SubmitCheck(j) \/ SubmitSend(j) \/ SubmitAbort(j)
Execute(j) == \/ ExecuteBegin(j) \/ AcquireGlobal(j) \/ AcquireHost(j)
              \/ GiveUp(j) \/ AcquireLock(j) \/ LockCancelled(j)
              \/ RunBegin(j) \/ RunReturn(j) \/ OnComplete(j) \/ Report(j)
              \/ Unwind(j) \/ JobExit(j)

Next ==
    \/ \E j \in Jobs : Submit(j) \/ Execute(j)
    \/ Dispatch
    \/ DispatchExit
    \/ Stop
    \/ DrainResults
    \/ \E c \in Contexts : Cancel(c)
    \/ Terminated

Spec == Init /\ [][Next]_vars

(***************************************************************************)
(* Fairness. Every goroutine that can move eventually does. A goroutine    *)
(* blocked on a channel waits in that channel's FIFO queue and is handed   *)
(* the slot or token directly, so the steps of one job, of which only the  *)
(* alternatives of one blocking point are ever enabled together, are       *)
(* strongly fair. DeployFunc                                               *)
(* returns: the deploy timeout and the SSH session bound it. Nobody has to *)
(* call Submit or Stop, and no context has to be cancelled.                *)
(***************************************************************************)
Fairness ==
    /\ WF_vars(Dispatch \/ DispatchExit)
    /\ WF_vars(StopClose \/ StopWait \/ StopDrain \/ StopFinish)
    /\ WF_vars(DrainResults)
    /\ \A j \in Jobs : SF_vars(SubmitSend(j) \/ SubmitAbort(j) \/ Execute(j))

LiveSpec == Spec /\ Fairness

-----------------------------------------------------------------------------
(* Properties.                                                             *)

\* Every variable of the dispatcher stays in its type; in particular the
\* semaphores never exceed their capacity and no lock holds two tokens.
TypeOK ==
    /\ pc \in [Jobs -> JobPcs]
    /\ held \in [Jobs -> 0..3]
    /\ outcome \in [Jobs -> Outcomes]
    /\ jobChannel \in Seq(Jobs) /\ Len(jobChannel) <= JobBuffer
    /\ globalSemaphore \in 0..Workers
    /\ hostSemaphores \in [Hosts -> 0..HostLimit]
    /\ projectLock \in [Keys -> {0, 1}]
    /\ waitGroup \in Nat
    /\ dispatcher \in {"loop", "exited"}
    /\ stopPc \in StopPcs
    /\ results \in 0..JobBuffer
    /\ ctxDone \in SUBSET Contexts

\* The DeployFuncs of one project on one host never overlap, whichever
\* submitters raced and whatever was cancelled while waiting (execute's
\* projectLock).
MutualExclusion ==
    \A i, j \in Running : Key(i) = Key(j) => i = j

\* At most MaxWorkers DeployFuncs run at once, at most MaxHostConcurrency of
\* them against one host (globalSemaphore and getHostSemaphore).
ConcurrencyCaps ==
    /\ Cardinality(Running) <= Workers
    /\ \A h \in Hosts : Cardinality({j \in Running : HostOf[j] = h}) <= HostLimit

\* Once Stop is past its WaitGroup.Wait no dispatcher and no job goroutine
\* exists, so nothing deploys, calls OnComplete or sends on results after
\* Stop has closed it (a send on a closed channel panics).
StopQuiesces ==
    stopPc \in {"draining", "stopped"} => Live = {} /\ dispatcher = "exited"

\* Nothing leaks: when no job goroutine is left, every semaphore slot and
\* every project lock has been given back, whichever path of execute each
\* job took (early return, cancellation at any wait, stop).
NoLeak ==
    Live = {} => /\ globalSemaphore = 0
                 /\ \A h \in Hosts : hostSemaphores[h] = 0
                 /\ \A k \in Keys : projectLock[k] = 1

-----------------------------------------------------------------------------
(* The inductive invariant: what the counters count.                       *)

Holders(n) == {j \in Jobs : held[j] >= n}
HoldersOn(h) == {j \in Jobs : held[j] >= 2 /\ HostOf[j] = h}

HeldMatchesPc ==
    \A j \in Jobs :
        /\ pc[j] \notin LivePcs => held[j] = 0
        /\ pc[j] \in {"spawned", "global"} => held[j] = 0
        /\ pc[j] = "host" => held[j] = 1
        /\ pc[j] = "lock" => held[j] = 2
        /\ pc[j] \in {"check", "running"} => held[j] = 3
        /\ pc[j] = "finish" /\ outcome[j] \in {"ok", "failed"} => held[j] = 3

SlotsCounted ==
    /\ globalSemaphore = Cardinality(Holders(1))
    /\ \A h \in Hosts : hostSemaphores[h] = Cardinality(HoldersOn(h))

LocksCounted ==
    /\ \A i, j \in Holders(3) : Key(i) = Key(j) => i = j
    /\ \A k \in Keys : projectLock[k] = 0 <=> \E j \in Holders(3) : Key(j) = k

GoroutinesCounted ==
    waitGroup = Cardinality(Live) + (IF dispatcher = "loop" THEN 1 ELSE 0)

QueueMatchesPc ==
    /\ \A n \in 1..Len(jobChannel) : pc[jobChannel[n]] = "queued"
    /\ \A m, n \in 1..Len(jobChannel) : jobChannel[m] = jobChannel[n] => m = n

StopOrder == stopPc \in {"draining", "stopped"} => waitGroup = 0

\* Each counter of the runner equals what it stands for in every reachable
\* state: semaphore slots their holders, lock tokens the absence of a
\* holder, the WaitGroup the goroutines, the channel the queued jobs.
IndInv == /\ TypeOK
          /\ HeldMatchesPc
          /\ SlotsCounted
          /\ LocksCounted
          /\ GoroutinesCounted
          /\ QueueMatchesPc
          /\ StopOrder

-----------------------------------------------------------------------------
(* Liveness.                                                               *)

\* A job whose Submit returned nil gets its OnComplete, unless Stop was
\* called: MakePushHandler counts on it to close its WaitGroup.
AcceptedCompletes ==
    \A j \in Jobs : pc[j] = "queued" ~> (pc[j] = "done" \/ StopFlag)

\* Stop returns: no job can hold it up for ever, although a job that waits
\* for a project lock does not watch stopChannel.
StopReturns == StopFlag ~> stopPc = "stopped"

\* Submit returns even when the channel is full.
SubmitReturns == \A j \in Jobs : pc[j] = "sending" ~> pc[j] # "sending"
=============================================================================
