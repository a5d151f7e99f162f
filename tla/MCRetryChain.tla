----------------------------- MODULE MCRetryChain ----------------------------
(* Small instances of RetryChain for TLC. *)
EXTENDS RetryChain, TLC
Sym == Permutations(Handlers)
=============================================================================
