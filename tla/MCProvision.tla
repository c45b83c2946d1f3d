---------------------------- MODULE MCProvision ----------------------------
(* Provision for TLC.                                                       *)
EXTENDS Provision, TLC

Interchangeable == Permutations(Secrets)
=============================================================================
