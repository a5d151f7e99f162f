--------------------------- MODULE MCUserSessions ----------------------------
(* Small instances of UserSessions for TLC. *)
EXTENDS UserSessions, TLC
Sym == Permutations(Users) \cup Permutations(Slots)
=============================================================================
