----------------------------- MODULE MCSession -------------------------------
(***************************************************************************)
(* Finite instances of Session.                                            *)
(***************************************************************************)
EXTENDS Session, TLC

Interchangeable == Permutations(Managers) \cup Permutations(Tokens)
==============================================================================
