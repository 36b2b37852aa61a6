----------------------------- MODULE MCIngress -----------------------------
(* Instances of Ingress for TLC. *)
EXTENDS Ingress, TLC

CONSTANTS h1, h2, h3, p1, p2

Each(kinds, n) == [k \in Kinds |-> IF k \in kinds THEN n ELSE 0]

\* One at a time, all that can happen to an operation; two that meet, with all
\* that fails or one that is cut off.
Troubles == {Each(Kinds \ {"overlap"}, 1),
             Each({"overlap", "dns", "restart"}, 1),
             Each({"overlap", "file", "disk"}, 1),
             Each({"overlap", "drop"}, 1),
             Each({"overlap", "crash"}, 1),
             Each({"overlap"}, 2)}

Symmetry == Permutations(Hosts) \cup Permutations(Ports)
=============================================================================
