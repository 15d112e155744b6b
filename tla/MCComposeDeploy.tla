-------------------------- MODULE MCComposeDeploy --------------------------
(***************************************************************************)
(* Instance of ComposeDeploy for TLC: commit 1 ships the compose file and  *)
(* a config file and leaves .env to the operator, commit 2 ships its own   *)
(* .env (extra_files names it in the configuration of that time), commit 3 *)
(* is rejected by preflight.                                               *)
(***************************************************************************)
EXTENDS ComposeDeploy

MCFiles == {"compose.yml", "app.conf", ".env"}
MCComposeFiles == {"compose.yml"}
MCPersistFiles == {".env"}
MCBundleOf == <<{"compose.yml", "app.conf"}, {"compose.yml", ".env"}, {"compose.yml"}>>
MCValidCommits == {1, 2}
=============================================================================
