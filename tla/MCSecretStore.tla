--------------------------- MODULE MCSecretStore ---------------------------
(* Instances of SecretStore for TLC. *)
EXTENDS SecretStore, TLC

CONSTANTS g1, k1, c1, c2, c3

Only(kinds) == [kind \in Kinds |-> IF kind \in kinds THEN 1 ELSE 0]

\* One disconnect or one crash, each with one failure of the disk.
Troubles == {Only({"drop", "disk"}), Only({"crash", "disk"})}

Symmetry == Permutations(Clients)
=============================================================================
