--------------------------- MODULE MCProvisioning ---------------------------
(***************************************************************************)
(* Finite instances of Provisioning.                                       *)
(***************************************************************************)
EXTENDS Provisioning, TLC

\* Issued serials are interchangeable; so are the foreign ones, and the calls.
Interchangeable ==
  Permutations(Serials \ Foreign) \cup Permutations(Calls)

=============================================================================
