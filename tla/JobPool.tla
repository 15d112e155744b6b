------------------------------ MODULE JobPool ------------------------------
(***************************************************************************)
(* What internal/runner promises its callers, with no channel, semaphore   *)
(* or goroutine in sight: a job is accepted or refused; an accepted job    *)
(* runs at most once, alone on its (project, host) and within the limits,  *)
(* or is skipped; each run or skipped job is completed exactly once; jobs  *)
(* are lost only by stopping, and after the pool is closed nothing runs    *)
(* and nobody is called back.                                              *)
(***************************************************************************)
EXTENDS Naturals, FiniteSets

CONSTANTS Jobs, Key(_), Host(_), Workers, HostLimit

VARIABLES status, stopping, closed
vars == <<status, stopping, closed>>

Statuses == {"new", "refused", "accepted", "running",
             "succeeded", "failed", "skipped", "lost"}

RunningJobs == {j \in Jobs : status[j] = "running"}
RunningOn(h) == {j \in RunningJobs : Host(j) = h}

Init == /\ status = [j \in Jobs |-> "new"]
        /\ stopping = FALSE
        /\ closed = FALSE

Move(j, from, to) == /\ status[j] = from
                     /\ status' = [status EXCEPT ![j] = to]
                     /\ UNCHANGED <<stopping, closed>>

\* Submit may still accept a job while the pool stops, and even just after.
Accept(j) == Move(j, "new", "accepted")
Refuse(j) == Move(j, "new", "refused")

Start(j) == /\ ~closed
            /\ \A i \in RunningJobs : Key(i) # Key(j)
            /\ Cardinality(RunningJobs) < Workers
            /\ Cardinality(RunningOn(Host(j))) < HostLimit
            /\ Move(j, "accepted", "running")

Complete(j) == /\ ~closed
               /\ \E res \in {"succeeded", "failed"} : Move(j, "running", res)

\* Cancelled, or overtaken by Stop, before its turn came.
Skip(j) == ~closed /\ Move(j, "accepted", "skipped")

\* Only a stopping pool in which nothing runs any more loses jobs.
Lose(j) == /\ stopping /\ ~closed
           /\ RunningJobs = {}
           /\ Move(j, "accepted", "lost")

BeginStop == ~stopping /\ stopping' = TRUE /\ UNCHANGED <<status, closed>>

Close == /\ stopping /\ ~closed
         /\ RunningJobs = {}
         /\ closed' = TRUE
         /\ UNCHANGED <<status, stopping>>

Next == \/ \E j \in Jobs : \/ Accept(j) \/ Refuse(j) \/ Start(j)
                           \/ Complete(j) \/ Skip(j) \/ Lose(j)
        \/ BeginStop
        \/ Close

Spec == Init /\ [][Next]_vars
=============================================================================
