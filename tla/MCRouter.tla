------------------------------ MODULE MCRouter -------------------------------
(***************************************************************************)
(* Finite instances of Router.                                             *)
(***************************************************************************)
EXTENDS Router

OneCert == {1}
NoCidr == {}
OneCidr == {1}
==============================================================================
