-------------------------- MODULE RunnerRefinement --------------------------
(***************************************************************************)
(* The runner implements JobPool. A job counts as running from the step    *)
(* that calls DeployFunc to the one that calls OnComplete: the project     *)
(* lock is released only after that, which is what makes Start's guard     *)
(* hold.                                                                   *)
(***************************************************************************)
EXTENDS Runner

Final(res) == CASE res = "ok" -> "succeeded"
                [] res = "failed" -> "failed"
                [] OTHER -> "skipped"

JobStatus(j) ==
    CASE pc[j] \in {"new", "sending"} -> "new"
      [] pc[j] = "refused" -> "refused"
      [] pc[j] = "dropped" -> "lost"
      [] pc[j] \in {"queued", "spawned", "global", "host", "lock", "check"} -> "accepted"
      [] pc[j] = "running" -> "running"
      [] pc[j] = "finish" -> IF outcome[j] \in {"ok", "failed"}
                             THEN "running" ELSE "accepted"
      [] pc[j] \in {"report", "unwind", "done"} -> Final(outcome[j])

Host(j) == HostOf[j]

Pool == INSTANCE JobPool WITH
            status <- [j \in Jobs |-> JobStatus(j)],
            stopping <- StopFlag,
            closed <- ResultsClosed

\* The runner is a job pool: exclusive runs within the limits, exactly one
\* completion per run or skipped job, no callback after Stop returned
\* (Submit, execute, finish and Stop together).
ImplementsJobPool == Pool!Spec
=============================================================================
