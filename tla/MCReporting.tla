---------------------------- MODULE MCReporting ----------------------------
(***************************************************************************)
(* Two deploys of one commit: to one target one after the other, to two    *)
(* hosts, or of two projects on one host.                                  *)
(***************************************************************************)
EXTENDS Reporting, TLC
CONSTANTS d1, d2

MCDeploys == {d1, d2}
MCProjects == {"p", "q"}
MCHosts == {"h1", "h2"}
MCShas == {1}

Of(p, h) == [project |-> p, host |-> h, sha |-> 1]
OneTarget == (d1 :> Of("p", "h1")) @@ (d2 :> Of("p", "h1"))
TwoHosts == (d1 :> Of("p", "h1")) @@ (d2 :> Of("p", "h2"))
TwoProjects == (d1 :> Of("p", "h1")) @@ (d2 :> Of("q", "h1"))

MCSetups ==
    {s \in [enabled : BOOLEAN, environmentHost : BOOLEAN, onGitHub : BOOLEAN,
            info : {OneTarget, TwoHosts, TwoProjects}] :
        (s.enabled /\ s.onGitHub) \/ (s.info = OneTarget /\ s.environmentHost)}
=============================================================================
