--------------------------- MODULE MCTaskActions ----------------------------
(* Small instances of TaskActions for TLC. *)
EXTENDS TaskActions, TLC
Sym == Permutations(Requests)
=============================================================================
