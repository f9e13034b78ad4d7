--------------------------- MODULE MCModelCapacity ---------------------------
(* Small instances of ModelCapacity for TLC. *)
EXTENDS ModelCapacity, TLC
Symmetry == Permutations(Key) \cup Permutations(Call)
=============================================================================
