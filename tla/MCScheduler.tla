---------------------------- MODULE MCScheduler ----------------------------
(* Instances of Scheduler for TLC. *)
EXTENDS Scheduler, TLC

CONSTANTS d1, d2, d3, p1

OneKey == [d \in Deploys |-> p1]

Only(kinds) == [k \in Kinds |-> IF k \in kinds THEN 1 ELSE 0]

\* Three kinds of trouble at a time, once each; with a disk that answers and
\* clients that stay, viewers that come late as well.
Troubles == {Only({"storage", "disconnect", "crash"}),
             Only({"disconnect", "panic", "removal"}),
             Only({"storage", "panic", "removal"}),
             Only({"crash", "removal", "latecomer"})}

OneCrash == {Only({"crash"})}

Symmetry == Permutations(Deploys)
=============================================================================
