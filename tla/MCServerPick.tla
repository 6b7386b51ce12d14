---------------------------- MODULE MCServerPick -----------------------------
(***************************************************************************)
(* A finite instance of ServerPick: three servers with unique names on two *)
(* entry IPs, one of them without a score.                                 *)
(***************************************************************************)
EXTENDS ServerPick, TLC

CONSTANTS x1, x2, x3, any

ThreeServers == {x1, x2, x3}
Names3 == x1 :> "UK1" @@ x2 :> "UK2" @@ x3 :> "UK3"
EntryIPs == x1 :> "a" @@ x2 :> "a" @@ x3 :> "b"
Scores == x1 :> 1 @@ x2 :> 2 @@ x3 :> 0
Tiers == x1 :> 0 @@ x2 :> 2 @@ x3 :> 2
InOneCountry == [x \in ThreeServers |-> "gb"]
NoCountries == {}
Interchangeable == Permutations(Calls)
==============================================================================
