------------------------------ MODULE MCLruMap ------------------------------
(***************************************************************************)
(* LruMap with threads, keys and slots that may be exchanged.              *)
(***************************************************************************)
EXTENDS LruMap, TLC

Symmetry == Permutations(Thread) \cup Permutations(Key) \cup Permutations(Slot)
=============================================================================
