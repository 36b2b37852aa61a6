--------------------------- MODULE MCSecretFiles ---------------------------
(* Instances of SecretFiles for TLC. *)
EXTENDS SecretFiles, TLC

CONSTANTS g1, v1, f1, f2, d1, d2, a1

\* The group is declared, or not any more.
Lists == {<<>>, <<g1>>}

Pushes == {{v1, f1}, {f2}, {v1}}

Zero == [kind \in Kinds |-> 0]

\* One injector at a time, cut short once; two at a time; one over a thread
\* left running.
Troubles == {[Zero EXCEPT !["edit"] = 2, !["disk"] = 1],
             [Zero EXCEPT !["edit"] = 3],
             [Zero EXCEPT !["edit"] = 2, !["drop"] = 1],
             [Zero EXCEPT !["edit"] = 2, !["crash"] = 1],
             [Zero EXCEPT !["edit"] = 1, !["overlap"] = 1, !["drop"] = 1]}

Symmetry == Permutations(Deploys)
=============================================================================
