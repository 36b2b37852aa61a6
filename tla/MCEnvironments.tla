--------------------------- MODULE MCEnvironments ---------------------------
(* Instances of Environments for TLC. *)
EXTENDS Environments

CONSTANTS b, e, g, hb, he, hg, f

\* One hostname and one compose path for each key.
Steady == [k \in Keys |-> {[host |-> CASE k = b -> hb [] k = e -> he [] OTHER -> hg, file |-> f]}]

Zero == [kind \in Kinds |-> 0]

\* What ends a sequence in the middle.
Troubles == [Zero EXCEPT !["deploy"] = 3, !["failure"] = 1, !["broken"] = 1,
                         !["removal"] = 2, !["crash"] = 1]

\* Deployments that fail, while removals and resets run to their end.
Lifetimes == [Zero EXCEPT !["deploy"] = 4, !["failure"] = 1, !["removal"] = 1,
                          !["reset"] = 1, !["age"] = 2]
=============================================================================
