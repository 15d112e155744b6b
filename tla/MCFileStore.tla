---------------------------- MODULE MCFileStore ----------------------------
(***************************************************************************)
(* Instance of FileStore for TLC: two deployments of one target and one of *)
(* another, so that both the succession of deployments and the startup     *)
(* loop over several entries occur.                                        *)
(***************************************************************************)
EXTENDS FileStore
CONSTANTS d1, d2, d3

MCDeployments == {d1, d2, d3}
MCTargetOf == [d \in MCDeployments |-> IF d = d3 THEN "api/h1" ELSE "web/h1"]
=============================================================================
