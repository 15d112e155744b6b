---------------------------- MODULE MCLifecycle ----------------------------
(***************************************************************************)
(* One deploy; the generations of watchers are bounded by the reloads.     *)
(***************************************************************************)
EXTENDS Lifecycle
CONSTANTS d1
MCDeploys == {d1}
=============================================================================
