------------------------------- MODULE MCEntry -------------------------------
(***************************************************************************)
(* Finite instances of Entry.                                              *)
(***************************************************************************)
EXTENDS Entry, TLC

\* The second form drops a tunnel; unconfigured, the default count is in force.
Counts == [f \in Forms \cup {None} |-> IF f = 1 THEN 1 ELSE MaxSlots]

Interchangeable == Permutations(Certs) \cup Permutations(Tasks) \cup Permutations(Stamps)
==============================================================================
