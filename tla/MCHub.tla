------------------------------- MODULE MCHub -------------------------------
(* Hub for TLC: the tokens, codes and handler slots are interchangeable.   *)
EXTENDS Hub, TLC

Interchangeable == Permutations(Codes) \cup Permutations(Peers) \cup Permutations(Subs)
=============================================================================
