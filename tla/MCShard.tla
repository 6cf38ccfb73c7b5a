-------------------------------- MODULE MCShard --------------------------------
(* Model values and symmetry for the model checker. *)
EXTENDS Shard, TLC

CONSTANTS k1, k2

KeySymmetry == Permutations(Keys)

==============================================================================
