---------------------------- MODULE MCReconcile ----------------------------
(***************************************************************************)
(* Scenarios for TLC: histories of configurations and what goes wrong.     *)
(***************************************************************************)
EXTENDS Reconcile
CONSTANTS t1, t2, t3

MCTargets == {t1, t2, t3}
MCDirs == {"a", "b"}
MCSpecs == {"s1", "s2"}

At(d, s) == [dir |-> d, spec |-> s]

\* One target moves, then changes its settings; one is added, one removed.
\* Nothing fails.
Changing ==
    [history |-> << (t1 :> At("a", "s1")) @@ (t2 :> Absent) @@ (t3 :> At("a", "s1")),
                    (t1 :> At("b", "s1")) @@ (t2 :> At("a", "s1")) @@ (t3 :> Absent),
                    (t1 :> At("b", "s2")) @@ (t2 :> At("a", "s1")) @@ (t3 :> Absent) >>,
     broken |-> {}, inOrder |-> TRUE, faults |-> 0, crashes |-> 0]

\* The only target is removed and comes back elsewhere; then the file loses
\* it by mistake; at last it moves home again.
Only(p) == (t1 :> p) @@ (t2 :> Absent) @@ (t3 :> Absent)
Returning ==
    [history |-> << Only(At("a", "s1")), Only(Absent), Only(At("b", "s1")), Only(Absent), Only(At("a", "s1")) >>,
     broken |-> {4}, inOrder |-> FALSE, faults |-> 2, crashes |-> 1]

MCScenarios == {Changing, Returning}
=============================================================================
