------------------------------ MODULE MCRunner ------------------------------
(***************************************************************************)
(* Instances of Runner for TLC. Three jobs on one host: a and b are the    *)
(* same project (two pushes in a row), c another one; the limits keep them *)
(* apart. The pair of one project has slots for both and only the project  *)
(* lock between them.                                                      *)
(***************************************************************************)
EXTENDS RunnerRefinement
CONSTANTS a, b, c

MCJobs == {a, b, c}
MCProjectOf == [j \in MCJobs |-> IF j = c THEN "api" ELSE "web"]
MCOneHost == [j \in MCJobs |-> "h1"]
MCCtxOf == [j \in MCJobs |-> IF j = a THEN "c1" ELSE "c2"]

MCJobPair == {a, b}
MCPairProjectOf == [j \in MCJobPair |-> "web"]
MCPairHostOf == [j \in MCJobPair |-> "h1"]
MCPairCtxOf == [j \in MCJobPair |-> IF j = a THEN "c1" ELSE "c2"]
=============================================================================
