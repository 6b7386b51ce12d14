---------------------------- MODULE EgressSwitch -----------------------------
(***************************************************************************)
(* What the VPN egress switch promises, without a word about how: one      *)
(* request at a time; while it is carried out the router's egress may be   *)
(* anything in between; a request that succeeds leaves the router exactly  *)
(* as requested and records that as the desired state; one that fails      *)
(* records nothing; and with no request in flight the egress stays as it   *)
(* is.  Router implements it.                                              *)
(***************************************************************************)
VARIABLES
  desired,   \* the state kept in the entry's options
  request,   \* the request being carried out
  effect     \* what the router does: all of "on", all of "off", or neither

vars == <<desired, request, effect>>

Effects == {"on", "off", "mixed"}

Init ==
  /\ desired \in {"on", "off"}
  /\ request = "none"
  /\ effect \in Effects

\* A request for "on" names the slots and the bypass list anew, which decides
\* what "on" means: a router that is not off may or may not fit them.
Request(to) ==
  /\ request = "none"
  /\ request' = to
  /\ effect' \in IF to = "on" /\ effect # "off" THEN {"on", "mixed"} ELSE {effect}
  /\ UNCHANGED desired

Proceed ==
  /\ request # "none"
  /\ effect' \in Effects
  /\ UNCHANGED <<desired, request>>

Succeed ==
  /\ request # "none"
  /\ effect = request
  /\ desired' = request
  /\ request' = "none"
  /\ UNCHANGED effect

Fail ==
  /\ request # "none"
  /\ request' = "none"
  /\ UNCHANGED <<desired, effect>>

Next == Request("on") \/ Request("off") \/ Proceed \/ Succeed \/ Fail

Safety == Init /\ [][Next]_vars

Spec == Safety /\ WF_vars(Succeed \/ Fail)
==============================================================================
