------------------------------ MODULE SlotStore ------------------------------
(***************************************************************************)
(* What a call of async_provision_wireguard promises about the slots on    *)
(* the config entry, without a word about how it comes by what it stores:  *)
(* it works on its own reading of the entry; it renews the slots it is     *)
(* asked for, all of them or none, keeps the other active ones as it has   *)
(* read them and drops the rest; a call that fails or is cut off changes   *)
(* nothing; and what it stores anew nobody has had.                        *)
(*                                                                         *)
(* Provisioning, ServerPick and Entry each contain these calls, at the     *)
(* grain of requests to Proton, of the choice of servers and of awaits,    *)
(* and each implements this module.                                        *)
(***************************************************************************)
EXTENDS Naturals

CONSTANTS
  MaxSlots,  \* MAX_TUNNEL_COUNT
  Calls,     \* calls that can be in flight
  Values,    \* what a slot can hold
  None,      \* the slot holds nothing
  Unique     \* are new values (certificates) ones that nobody has, or may
             \* they be in use already (servers)?

Slots == 1 .. MaxSlots
AllSlots == 0

VARIABLES
  stored,  \* what the entry holds, by slot
  count,   \* tunnel_count option
  call     \* call[c]: the slots call c renews and what it keeps

vars == <<stored, count, call>>

Nothing == [s \in Slots |-> None]
Free == [wanted |-> {}, kept |-> Nothing]

Held(table) == {table[s] : s \in Slots} \ {None}
InUse == Held(stored) \cup UNION {Held(call[c].kept) : c \in Calls}

\* A call for slot t that reads this table.
Reading(t, table) ==
  [wanted |-> IF t = AllSlots THEN 1 .. count ELSE {t},
   kept |-> [s \in Slots |-> IF t \in {AllSlots, s} \/ s > count THEN None ELSE table[s]]]

Init ==
  /\ \E v \in Values \cup {None} : stored = [Nothing EXCEPT ![1] = v]
  /\ count \in Slots
  /\ call = [c \in Calls |-> Free]

Begin(c) ==
  /\ call[c] = Free
  /\ UNCHANGED <<stored, count>>
  /\ \E t \in 0 .. count : call' = [call EXCEPT ![c] = Reading(t, stored)]

\* All that was asked for is written at once, over whatever is stored now.
Renewed(c, new) ==
  /\ \A r, s \in call[c].wanted : new[r] = new[s] => r = s
  /\ Unique => \A s \in call[c].wanted : new[s] \notin InUse
  /\ stored' = [s \in Slots |-> IF s \in call[c].wanted THEN new[s] ELSE call[c].kept[s]]

\* The call returns, or goes on with the next slot of a renewal, from what
\* is stored now.
Store(c) ==
  /\ call[c] # Free
  /\ \E next \in {Free} \cup {Reading(t, stored') : t \in 1 .. count} :
       call' = [call EXCEPT ![c] = next]
  /\ \E new \in [call[c].wanted -> Values] : Renewed(c, new)
  /\ UNCHANGED count

Fail(c) ==
  /\ call[c] # Free
  /\ call' = [call EXCEPT ![c] = Free]
  /\ UNCHANGED <<stored, count>>

\* The options form is saved.
Configure == UNCHANGED <<call, stored>> /\ count' \in Slots

\* A new login replaces the entry's data.
Reauthenticate == stored' = Nothing /\ UNCHANGED <<count, call>>

Crash == call' = [c \in Calls |-> Free] /\ UNCHANGED <<stored, count>>

Next ==
  \/ Configure \/ Reauthenticate \/ Crash
  \/ \E c \in Calls : Begin(c) \/ Fail(c) \/ Store(c)

Safety == Init /\ [][Next]_vars
==============================================================================
