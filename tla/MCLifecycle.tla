----------------------------- MODULE MCLifecycle ------------------------------
(***************************************************************************)
(* Finite instances of Lifecycle with Login.                               *)
(***************************************************************************)
EXTENDS Lifecycle, TLC

\* Every name can be typed in two ways.
Typed == Ids \X {"Name", "name"}
LowerCase == [n \in Typed |-> n[1]]

Interchangeable == Permutations(UserFlows) \cup Permutations(Ids)
==============================================================================
