---------------------------- MODULE MCValueBufferPool ----------------------------
(* ValueBufferPool with interchangeable threads and keys. *)
EXTENDS ValueBufferPool, TLC

Symmetry == Permutations(Threads) \cup Permutations(Keys)
==================================================================================
