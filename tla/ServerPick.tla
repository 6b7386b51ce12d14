----------------------------- MODULE ServerPick ------------------------------
(***************************************************************************)
(* Which Proton server every tunnel slot gets (list_logical_servers,       *)
(* pick_best_servers and provision_wireguard_slots in wg_credentials.py).  *)
(*                                                                         *)
(* A call of async_provision_wireguard reads the entry, asks Proton for    *)
(* the servers, picks some of them and, long after its reading, stores the *)
(* whole assignment back.  Calls overlap, and the list of servers, the     *)
(* tunnel count and the country change between them.  Here the creation of *)
(* a certificate always succeeds or ends the call; Provisioning models it. *)
(***************************************************************************)
EXTENDS Naturals, FiniteSets

CONSTANTS
  MaxSlots,    \* MAX_TUNNEL_COUNT
  Calls,       \* calls of async_provision_wireguard that can be in flight
  Servers,     \* logical servers of Proton
  Name,        \* Name[x], EntryIP[x], Score[x], Country[x], Tier[x]: of server x
  EntryIP,
  Score,       \* 0 also stands for a score the answer leaves out
  Country,
  Tier,
  Countries,   \* ExitCountry codes the options form is given
  AnyCountry,  \* the country option "any"
  None         \* the slot has no server

Slots == 1 .. MaxSlots
AllSlots == 0
WorstScore == 100   \* in place of a missing score

ASSUME ConstantsAssumption ==
  /\ MaxSlots \in Nat \ {0}
  /\ IsFiniteSet(Servers)
  /\ None \notin Servers
  /\ AnyCountry \notin Countries
  /\ Score \in [Servers -> Nat]
  /\ Tier \in [Servers -> Nat]
  /\ DOMAIN Country = Servers
  /\ DOMAIN Name = Servers
  /\ DOMAIN EntryIP = Servers

Assignments == [Slots -> Servers \cup {None}]

VARIABLES
  slots,    \* slots[s]: the server stored for slot s (endpoint_host, server_name)
  count,    \* tunnel_count option
  country,  \* vpn_exit_country option
  pc,       \* pc[c]: what call c does next
  ask,      \* ask[c]: its slot argument, tunnel count and country
  kept,     \* kept[c]: what it carries over from the entry
  pool,     \* pool[c]: servers it has yet to consider, best first
  usable,   \* usable[c]: the servers it found
  picked,   \* picked[c]: the servers it has picked, by slot
  shared,   \* history: slots whose server had to be one already in use
  sharing   \* history: the same for what call c will store

callVars == <<pc, ask, kept, pool, usable, picked, sharing>>
vars == <<slots, count, country, shared, callVars>>

Nothing == [s \in Slots |-> None]
NoRequest == [slot |-> AllSlots, count |-> 1, country |-> AnyCountry]
Requests == [slot: Slots \cup {AllSlots}, count: Slots, country: Countries \cup {AnyCountry}]

TypeOK ==
  /\ slots \in Assignments
  /\ count \in Slots
  /\ country \in Countries \cup {AnyCountry}
  /\ pc \in [Calls -> {"idle", "list", "pick", "store"}]
  /\ ask \in [Calls -> Requests]
  /\ kept \in [Calls -> Assignments]
  /\ pool \in [Calls -> SUBSET Servers]
  /\ usable \in [Calls -> SUBSET Servers]
  /\ picked \in [Calls -> Assignments]
  /\ shared \subseteq Slots
  /\ sharing \in [Calls -> SUBSET Slots]

Init ==
  /\ slots = Nothing
  /\ count \in Slots
  /\ country \in Countries \cup {AnyCountry}
  /\ pc = [c \in Calls |-> "idle"]
  /\ ask = [c \in Calls |-> NoRequest]
  /\ kept = [c \in Calls |-> Nothing]
  /\ pool = [c \in Calls |-> {}]
  /\ usable = [c \in Calls |-> {}]
  /\ picked = [c \in Calls |-> Nothing]
  /\ shared = {}
  /\ sharing = [c \in Calls |-> {}]

-----------------------------------------------------------------------------
Used(assignment) == {s \in Slots : assignment[s] # None}
IPs(assignment) == {EntryIP[assignment[s]] : s \in Used(assignment)}
Names(assignment) == {Name[assignment[s]] : s \in Used(assignment)}

\* Variant: the others are carried over whatever the tunnel count.
AllCarriedOver(t) ==
  [s \in Slots |-> IF t # AllSlots /\ s # t THEN slots[s] ELSE None]

\* A call for one slot carries the others up to the tunnel count over.
CarriedOver(t) ==
  [s \in Slots |-> IF t # AllSlots /\ s # t /\ s <= count THEN slots[s] ELSE None]

\* Event loop: the call reads the options and the stored slots.
Begin(c, t) ==
  /\ pc[c] = "idle"
  /\ t <= count
  /\ pc' = [pc EXCEPT ![c] = "list"]
  /\ ask' = [ask EXCEPT ![c] = [slot |-> t, count |-> count, country |-> country]]
  /\ kept' = [kept EXCEPT ![c] = CarriedOver(t)]
  /\ sharing' = [sharing EXCEPT ![c] = Used(CarriedOver(t)) \cap shared]
  /\ UNCHANGED <<slots, count, country, pool, usable, picked, shared>>

\* The call returns or raises, and its locals are gone.
Return(c) ==
  /\ pc' = [pc EXCEPT ![c] = "idle"]
  /\ ask' = [ask EXCEPT ![c] = NoRequest]
  /\ kept' = [kept EXCEPT ![c] = Nothing]
  /\ pool' = [pool EXCEPT ![c] = {}]
  /\ usable' = [usable EXCEPT ![c] = {}]
  /\ picked' = [picked EXCEPT ![c] = Nothing]
  /\ sharing' = [sharing EXCEPT ![c] = {}]

\* The filters of list_logical_servers on the servers that are online, plain
\* (no Secure Core, no TOR) and have a WireGuard key.
Suitable(online, tiers, wanted) ==
  {x \in online : Tier[x] \in tiers /\ wanted \in {AnyCountry, Country[x]}}

\* Variants: the servers of the other tunnels are not avoided; those of all
\* stored tunnels are, in every call.
NoneAvoided(c, found) == found
StoredAvoided(c, found) == {x \in found : EntryIP[x] \notin IPs(slots)}

\* A call for one slot avoids the entry IPs of the other tunnels.
Candidates(c, found) == {x \in found : EntryIP[x] \notin IPs(kept[c])}

\* The account's tier, or every tier when it cannot be fetched; then the list.
\* A call for one slot falls back on servers in use when no other is left.
ListServers(c) ==
  /\ pc[c] = "list"
  /\ \E online \in SUBSET Servers, tiers \in {0 .. k : k \in {Tier[x] : x \in Servers}} :
       LET found == Suitable(online, tiers, ask[c].country)
           free == Candidates(c, found)
       IN  /\ found # {}
           /\ usable' = [usable EXCEPT ![c] = found]
           /\ pool' = [pool EXCEPT ![c] = IF free = {} THEN found ELSE free]
           /\ sharing' = [sharing EXCEPT ![c] =
                @ \cup (IF free = {} THEN {ask[c].slot} ELSE {})]
  /\ pc' = [pc EXCEPT ![c] = "pick"]
  /\ UNCHANGED <<slots, count, country, ask, kept, picked, shared>>

EffectiveScore(x) == IF Score[x] = 0 THEN WorstScore ELSE Score[x]

\* Variant: sorted the other way round.
WorstFirst(x, y) == EffectiveScore(x) >= EffectiveScore(y)

\* May the loop consider x before y?
Better(x, y) == EffectiveScore(x) <= EffectiveScore(y)

\* Neither the name nor the entry IP has been picked by this call.
Distinct(c, x) == Name[x] \notin Names(picked[c]) /\ EntryIP[x] \notin IPs(picked[c])

\* The slots the call picks servers for, and the next of them.
Wanted(c) == IF ask[c].slot = AllSlots THEN 1 .. ask[c].count ELSE {ask[c].slot}
NextSlot(c, s) == s \in Wanted(c) \ Used(picked[c])
                  /\ \A u \in Wanted(c) \ Used(picked[c]) : s <= u

\* One turn of the loop of pick_best_servers, on the best server left.
Consider(c) ==
  /\ pc[c] = "pick"
  /\ \E x \in pool[c], s \in Slots :
       /\ \A y \in pool[c] : Better(x, y)
       /\ NextSlot(c, s)
       /\ pool' = [pool EXCEPT ![c] = @ \ {x}]
       /\ picked' = IF Distinct(c, x) THEN [picked EXCEPT ![c][s] = x] ELSE picked
       /\ pc' = IF Distinct(c, x) /\ Wanted(c) \ Used(picked[c]) = {s}
                THEN [pc EXCEPT ![c] = "store"] ELSE pc
  /\ UNCHANGED <<slots, count, country, ask, kept, usable, shared, sharing>>

\* "not enough distinct Proton servers": the call raises.
NotEnough(c) ==
  /\ pc[c] = "pick"
  /\ pool[c] = {}
  /\ Return(c)
  /\ UNCHANGED <<slots, count, country, shared>>

\* A request fails or finds no server at all: the call raises.
Raise(c) ==
  /\ pc[c] \in {"list", "store"}
  /\ Return(c)
  /\ UNCHANGED <<slots, count, country, shared>>

\* Event loop: what was carried over and picked replaces the stored slots.
Store(c) ==
  /\ pc[c] = "store"
  /\ slots' = [s \in Slots |-> IF picked[c][s] # None THEN picked[c][s] ELSE kept[c][s]]
  /\ shared' = sharing[c]
  /\ Return(c)
  /\ UNCHANGED <<count, country>>

\* The options form is saved.
Configure(n, k) ==
  /\ <<n, k>> # <<count, country>>
  /\ count' = n
  /\ country' = k
  /\ UNCHANGED <<slots, callVars, shared>>

Step(c) == ListServers(c) \/ Consider(c) \/ NotEnough(c) \/ Raise(c) \/ Store(c)

Next ==
  \/ \E c \in Calls, t \in Slots \cup {AllSlots} : Begin(c, t)
  \/ \E c \in Calls : Step(c)
  \/ \E n \in Slots, k \in Countries \cup {AnyCountry} : Configure(n, k)

Spec == Init /\ [][Next]_vars

-----------------------------------------------------------------------------
(***************************************************************************)
(* Properties                                                              *)
(***************************************************************************)
\* Two tunnels share an entry IP only if one of them was provisioned when no
\* other server was left: although calls overlap, each works with its own
\* reading of the entry, and the tunnel count goes up and down in between.
DistinctEndpoints ==
  \A s, t \in Used(slots) \ shared :
    s # t => EntryIP[slots[s]] # EntryIP[slots[t]]

\* The greedy loop is optimal: a call for all tunnels leaves a server out
\* only if no picked one is worse, or if a picked one that is no worse has
\* its name or its entry IP.
BestPicked ==
  \A c \in Calls :
    pc[c] = "store" /\ ask[c].slot = AllSlots =>
      \A x \in usable[c] :
        \/ \E s \in Used(picked[c]) :
             /\ EffectiveScore(picked[c][s]) <= EffectiveScore(x)
             /\ Name[picked[c][s]] = Name[x] \/ EntryIP[picked[c][s]] = EntryIP[x]
        \/ \A s \in Used(picked[c]) : EffectiveScore(picked[c][s]) <= EffectiveScore(x)

\* README: provisioning "fails if fewer than tunnel_count distinct servers
\* match".  With names that are unique it fails for want of servers only then.
FailsOnlyIfTooFew ==
  [][\A c \in Calls : NotEnough(c) =>
       Cardinality({EntryIP[x] : x \in usable[c]}) < Cardinality(Wanted(c))]_vars

Abstract == INSTANCE SlotStore WITH
  Values <- Servers, Unique <- FALSE, stored <- slots,
  call <- [c \in Calls |-> [wanted |-> IF pc[c] = "idle" THEN {} ELSE Wanted(c), kept |-> kept[c]]]

\* The greedy loop finds a server for every slot it was asked for, no server
\* twice, or the call changes nothing; the other slots keep theirs.
ImplementsSlotStore == Abstract!Safety
==============================================================================
