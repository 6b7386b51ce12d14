-------------------------- MODULE ServerPickProofs --------------------------
(***************************************************************************)
(* Theorems about ServerPick, for every number of slots and calls and any  *)
(* set of servers: types, tunnels on distinct entry IPs, the best choice   *)
(* of the greedy loop, that it fails only for want of servers, and that    *)
(* the calls implement SlotStore.                                          *)
(***************************************************************************)
EXTENDS ServerPick, FiniteSetTheorems, TLAPS

\* What a call has in hand: it keeps other slots than it picks for, a call
\* for all tunnels keeps none, and apart from the slots that had to share,
\* the servers kept, picked and still to be considered have distinct IPs.
KeptDistinct(c) ==
  \A s, t \in Used(kept[c]) \ sharing[c] :
    s # t => EntryIP[kept[c][s]] # EntryIP[kept[c][t]]

PickedDistinct(c) ==
  \A s, t \in Used(picked[c]) : s # t => EntryIP[picked[c][s]] # EntryIP[picked[c][t]]

PoolAvoidsKept(c) ==
  \A x \in pool[c], s \in Used(kept[c]) :
    EntryIP[x] # EntryIP[kept[c][s]] \/ ask[c].slot \in sharing[c]

PickedAvoidKept(c) ==
  \A t \in Used(picked[c]), s \in Used(kept[c]) :
    EntryIP[picked[c][t]] # EntryIP[kept[c][s]] \/ t \in sharing[c]

CallInv(c) ==
  /\ ask[c].slot = AllSlots => Used(kept[c]) = {}
  /\ ask[c].slot \notin Used(kept[c])
  /\ ask[c].slot # AllSlots => Used(picked[c]) \subseteq {ask[c].slot}
  /\ pc[c] \in {"idle", "list"} => Used(picked[c]) = {} /\ pool[c] = {}
  /\ KeptDistinct(c)
  /\ PickedDistinct(c)
  /\ PoolAvoidsKept(c)
  /\ PickedAvoidKept(c)

\* The inductive invariant.
PickInv ==
  /\ TypeOK
  /\ DistinctEndpoints
  /\ \A c \in Calls : CallInv(c)

-----------------------------------------------------------------------------
\* Slots are positive numbers.
LEMMA SlotsPositive == Slots \subseteq Nat /\ AllSlots \notin Slots /\ 1 \in Slots
  BY ConstantsAssumption DEF Slots, AllSlots

\* The empty assignment uses no slot, and every call may start from it.
LEMMA NothingUsed == Nothing \in Assignments /\ Used(Nothing) = {}
  BY DEF Nothing, Assignments, Used

\* A request is well typed, and so are its parts.
LEMMA RequestTyped == NoRequest \in Requests /\ NoRequest.slot = AllSlots
  BY SlotsPositive DEF NoRequest, Requests, AllSlots

\* What a call carries over are stored servers of slots other than its own.
LEMMA CarriedOverIs ==
  ASSUME slots \in Assignments, count \in Slots, NEW t \in Slots \cup {AllSlots}
  PROVE  /\ CarriedOver(t) \in Assignments
         /\ Used(CarriedOver(t)) \subseteq Used(slots) \ {t}
         /\ \A s \in Used(CarriedOver(t)) : CarriedOver(t)[s] = slots[s]
         /\ t = AllSlots => Used(CarriedOver(t)) = {}
  BY SlotsPositive DEF CarriedOver, Assignments, Used

\* The state of a call that has just begun.
LEMMA FreshCall ==
  ASSUME NEW c \in Calls, TypeOK, ask[c].slot = AllSlots, kept[c] = Nothing,
         pool[c] = {}, picked[c] = Nothing
  PROVE  CallInv(c)
  BY NothingUsed, SlotsPositive
     DEF CallInv, KeptDistinct, PickedDistinct, PoolAvoidsKept, PickedAvoidKept, AllSlots

\* The initial states satisfy the invariant.
LEMMA PickInit == Init => PickInv
<1> SUFFICES ASSUME Init PROVE PickInv
  OBVIOUS
<1>1. TypeOK
  BY NothingUsed, RequestTyped, SlotsPositive DEF Init, TypeOK
<1>2. DistinctEndpoints
  BY NothingUsed DEF Init, DistinctEndpoints
<1>3. \A c \in Calls : CallInv(c)
  BY <1>1, FreshCall, RequestTyped DEF Init
<1> QED BY <1>1, <1>2, <1>3 DEF PickInv

\* A call whose locals a step leaves alone keeps its part of the invariant.
LEMMA OtherCall ==
  ASSUME NEW c, CallInv(c), pc'[c] = pc[c], ask'[c] = ask[c], kept'[c] = kept[c],
         pool'[c] = pool[c], picked'[c] = picked[c], sharing'[c] = sharing[c]
  PROVE  CallInv(c)'
  BY DEF CallInv, KeptDistinct, PickedDistinct, PoolAvoidsKept, PickedAvoidKept, Used, AllSlots

\* Beginning a call: it keeps part of the entry and has picked nothing.
LEMMA BeginKeeps ==
  ASSUME PickInv, NEW c \in Calls, NEW t \in Slots \cup {AllSlots}, Begin(c, t)
  PROVE  PickInv'
<1> USE DEF PickInv
<1>0. /\ slots \in Assignments /\ count \in Slots
      /\ CarriedOver(t) \in Assignments
      /\ Used(CarriedOver(t)) \subseteq Used(slots) \ {t}
      /\ \A s \in Used(CarriedOver(t)) : CarriedOver(t)[s] = slots[s]
      /\ t = AllSlots => Used(CarriedOver(t)) = {}
  BY CarriedOverIs DEF TypeOK
<1>1. TypeOK'
  <2>1. [slot |-> t, count |-> count, country |-> country] \in Requests
    BY DEF TypeOK, Requests
  <2>2. Used(CarriedOver(t)) \cap shared \subseteq Slots
    BY DEF Used
  <2> QED BY <1>0, <2>1, <2>2 DEF TypeOK, Begin
<1>2. DistinctEndpoints'
  BY DEF Begin, DistinctEndpoints, Used
<1>3. ASSUME NEW d \in Calls PROVE CallInv(d)'
  <2>1. CASE d # c
    BY <2>1, OtherCall DEF Begin, TypeOK
  <2>2. CASE d = c
    <3>1. /\ ask'[c].slot = t /\ kept'[c] = CarriedOver(t)
          /\ sharing'[c] = Used(CarriedOver(t)) \cap shared
          /\ picked'[c] = picked[c] /\ pool'[c] = pool[c] /\ pc'[c] = "list"
      BY DEF Begin, TypeOK
    <3>2. Used(picked[c]) = {} /\ pool[c] = {}
      BY DEF CallInv, Begin
    <3>3. KeptDistinct(c)'
      <4> SUFFICES ASSUME NEW s \in Used(CarriedOver(t)), NEW u \in Used(CarriedOver(t)),
                          s \notin shared, u \notin shared, s # u
                   PROVE  EntryIP[CarriedOver(t)[s]] # EntryIP[CarriedOver(t)[u]]
        BY <3>1 DEF KeptDistinct, Used
      <4> QED BY <1>0 DEF DistinctEndpoints
    <3>4. (Used(picked[c]))' = {} /\ (Used(kept[c]))' = Used(CarriedOver(t))
      BY <3>1, <3>2 DEF Used
    <3> QED BY <1>0, <2>2, <3>1, <3>2, <3>3, <3>4
            DEF CallInv, PickedDistinct, PoolAvoidsKept, PickedAvoidKept, AllSlots
  <2> QED BY <2>1, <2>2
<1> QED BY <1>1, <1>2, <1>3

\* The pool of a call for one slot avoids the kept tunnels or is marked.
LEMMA ListServersKeeps ==
  ASSUME PickInv, NEW c \in Calls, ListServers(c)
  PROVE  PickInv'
<1> USE DEF PickInv
<1>0. PICK online \in SUBSET Servers, tiers \in {0 .. k : k \in {Tier[x] : x \in Servers}} :
        LET found == Suitable(online, tiers, ask[c].country)
            free == Candidates(c, found)
        IN  /\ found # {}
            /\ usable' = [usable EXCEPT ![c] = found]
            /\ pool' = [pool EXCEPT ![c] = IF free = {} THEN found ELSE free]
            /\ sharing' = [sharing EXCEPT ![c] =
                 @ \cup (IF free = {} THEN {ask[c].slot} ELSE {})]
  BY DEF ListServers
<1> DEFINE found == Suitable(online, tiers, ask[c].country)
           free == Candidates(c, found)
<1>a. found \subseteq Servers /\ free \subseteq found
  BY DEF Suitable, Candidates
<1>b. free = {} => ask[c].slot \in Slots
  <2>1. ask[c].slot \in Slots \cup {AllSlots}
    BY DEF TypeOK, Requests
  <2>2. ask[c].slot = AllSlots => free = found
    BY DEF CallInv, Candidates, IPs
  <2> QED BY <1>0, <2>1, <2>2
<1>c. UNCHANGED <<slots, count, country, ask, kept, picked, shared>>
      /\ pc' = [pc EXCEPT ![c] = "pick"]
  BY DEF ListServers
<1>1. TypeOK'
  <2>1. /\ usable' \in [Calls -> SUBSET Servers]
        /\ pool' \in [Calls -> SUBSET Servers]
    BY <1>0, <1>a DEF TypeOK
  <2>2. sharing' \in [Calls -> SUBSET Slots]
    BY <1>0, <1>b DEF TypeOK
  <2>3. pc' \in [Calls -> {"idle", "list", "pick", "store"}]
    BY <1>c DEF TypeOK
  <2> QED BY <1>c, <2>1, <2>2, <2>3 DEF TypeOK
<1>2. DistinctEndpoints'
  BY <1>c DEF DistinctEndpoints, Used
<1>3. ASSUME NEW d \in Calls PROVE CallInv(d)'
  <2>1. CASE d # c
    <3>1. pc'[d] = pc[d] /\ ask'[d] = ask[d] /\ kept'[d] = kept[d] /\ picked'[d] = picked[d]
      BY <1>c, <2>1 DEF TypeOK
    <3>2. pool'[d] = pool[d] /\ sharing'[d] = sharing[d]
      BY <1>0, <2>1 DEF TypeOK
    <3> QED BY <3>1, <3>2, OtherCall
  <2>2. CASE d = c
    <3>1. /\ pool'[c] = (IF free = {} THEN found ELSE free)
          /\ sharing'[c] = sharing[c] \cup (IF free = {} THEN {ask[c].slot} ELSE {})
          /\ pc'[c] = "pick"
      BY <1>0, <1>c DEF TypeOK
    <3>2. PoolAvoidsKept(c)'
      <4> SUFFICES ASSUME NEW x \in pool'[c], NEW s \in Used(kept[c]), free # {}
                   PROVE  EntryIP[x] # EntryIP[kept[c][s]]
        BY <1>c, <3>1 DEF PoolAvoidsKept, Used
      <4>1. EntryIP[x] \notin IPs(kept[c])
        BY <3>1 DEF Candidates
      <4> QED BY <4>1 DEF IPs
    <3>3. Used(picked[c]) = {}
      BY DEF CallInv, ListServers
    <3>4. KeptDistinct(c)'
      BY <1>c, <3>1 DEF CallInv, KeptDistinct, Used
    <3>5. PickedDistinct(c)' /\ PickedAvoidKept(c)'
      BY <1>c, <3>3 DEF PickedDistinct, PickedAvoidKept, Used
    <3> QED BY <1>c, <2>2, <3>1, <3>2, <3>3, <3>4, <3>5 DEF CallInv, Used
  <2> QED BY <2>1, <2>2
<1> QED BY <1>1, <1>2, <1>3

\* One turn of the loop picks a server whose IP no other pick has.
LEMMA ConsiderKeeps ==
  ASSUME PickInv, NEW c \in Calls, Consider(c)
  PROVE  PickInv'
<1> USE DEF PickInv
<1>0. PICK x \in pool[c], s \in Slots :
        /\ NextSlot(c, s)
        /\ pool' = [pool EXCEPT ![c] = @ \ {x}]
        /\ picked' = IF Distinct(c, x) THEN [picked EXCEPT ![c][s] = x] ELSE picked
        /\ pc' = IF Distinct(c, x) /\ Wanted(c) \ Used(picked[c]) = {s}
                 THEN [pc EXCEPT ![c] = "store"] ELSE pc
  BY DEF Consider
<1>a. pc[c] = "pick" /\ UNCHANGED <<slots, count, country, ask, kept, usable, shared, sharing>>
  BY DEF Consider
<1>b. x \in Servers /\ picked[c] \in Assignments /\ pool[c] \subseteq Servers
  BY DEF TypeOK
<1>1. TypeOK'
  <2>1. pool' \in [Calls -> SUBSET Servers]
    BY <1>0, <1>b DEF TypeOK
  <2>2. picked' \in [Calls -> Assignments]
    <3>1. [picked[c] EXCEPT ![s] = x] \in Assignments
      BY <1>b DEF Assignments
    <3> QED BY <1>0, <3>1 DEF TypeOK
  <2>3. pc' \in [Calls -> {"idle", "list", "pick", "store"}]
    BY <1>0 DEF TypeOK
  <2> QED BY <1>a, <2>1, <2>2, <2>3 DEF TypeOK
<1>2. DistinctEndpoints'
  BY <1>a DEF DistinctEndpoints, Used
<1>3. ASSUME NEW d \in Calls PROVE CallInv(d)'
  <2>1. CASE d # c
    <3>1. pc'[d] = pc[d] /\ pool'[d] = pool[d] /\ picked'[d] = picked[d]
      BY <1>0, <2>1 DEF TypeOK
    <3> QED BY <1>a, <3>1, OtherCall
  <2>2. CASE d = c
    <3>0. pool'[c] \subseteq pool[c] /\ pc'[c] \in {"pick", "store"}
      BY <1>0, <1>a DEF TypeOK
    <3>1. CASE ~Distinct(c, x)
      <4>1. picked'[c] = picked[c]
        BY <1>0, <3>1
      <4> QED BY <1>a, <2>2, <3>0, <4>1
              DEF CallInv, KeptDistinct, PickedDistinct, PoolAvoidsKept, PickedAvoidKept, Used, AllSlots
    <3>2. CASE Distinct(c, x)
      <4>1. picked'[c] = [picked[c] EXCEPT ![s] = x]
        BY <1>0, <3>2 DEF TypeOK
      <4>2. /\ picked'[c][s] = x
            /\ \A t \in Slots \ {s} : picked'[c][t] = picked[c][t]
            /\ Used(picked'[c]) = Used(picked[c]) \cup {s}
            /\ s \notin Used(picked[c]) /\ s \in Wanted(c)
        BY <1>0, <1>b, <4>1, ConstantsAssumption DEF Assignments, Used, NextSlot
      <4>3. \A t \in Used(picked[c]) : t \in Slots /\ EntryIP[picked[c][t]] # EntryIP[x]
        BY <3>2 DEF Distinct, IPs, Used
      <4>4. PickedDistinct(c)'
        <5> SUFFICES ASSUME NEW t \in Used(picked[c]) \cup {s}, NEW u \in Used(picked[c]) \cup {s}, t # u
                     PROVE  EntryIP[picked'[c][t]] # EntryIP[picked'[c][u]]
          BY <4>2 DEF PickedDistinct, Used
        <5> QED BY <4>2, <4>3 DEF CallInv, PickedDistinct
      <4>5. ask[c].slot # AllSlots => s = ask[c].slot
        BY <4>2 DEF Wanted
      <4>6. PickedAvoidKept(c)'
        <5> SUFFICES ASSUME NEW t \in Used(picked[c]) \cup {s}, NEW u \in Used(kept[c])
                     PROVE  EntryIP[picked'[c][t]] # EntryIP[kept[c][u]] \/ t \in sharing[c]
          BY <1>a, <4>2 DEF PickedAvoidKept, Used
        <5>1. CASE t = s
          <6>1. ask[c].slot # AllSlots
            BY DEF CallInv
          <6> QED BY <4>2, <4>5, <5>1, <6>1 DEF CallInv, PoolAvoidsKept
        <5>2. CASE t # s
          <6>1. picked'[c][t] = picked[c][t]
            BY <4>2, <4>3, <5>2
          <6> QED BY <5>2, <6>1 DEF CallInv, PickedAvoidKept
        <5> QED BY <5>1, <5>2
      <4>7. KeptDistinct(c)' /\ PoolAvoidsKept(c)'
        BY <1>a, <3>0 DEF CallInv, KeptDistinct, PoolAvoidsKept, Used
      <4>8. ask[c].slot # AllSlots => Used(picked'[c]) \subseteq {ask[c].slot}
        BY <4>2, <4>5 DEF CallInv
      <4> QED BY <1>a, <2>2, <3>0, <4>4, <4>6, <4>7, <4>8 DEF CallInv, Used, AllSlots
    <3> QED BY <3>1, <3>2
  <2> QED BY <2>1, <2>2
<1> QED BY <1>1, <1>2, <1>3

\* A call that is over holds nothing.
LEMMA ReturnKeeps ==
  ASSUME PickInv, NEW c \in Calls, Return(c), slots' \in Assignments, shared' \subseteq Slots,
         DistinctEndpoints', UNCHANGED <<count, country>>
  PROVE  PickInv'
<1> USE DEF PickInv
<1>1. TypeOK'
  BY NothingUsed, RequestTyped, SlotsPositive DEF TypeOK, Return
<1>2. ASSUME NEW d \in Calls PROVE CallInv(d)'
  <2>1. CASE d # c
    BY <2>1, OtherCall DEF Return, TypeOK
  <2>2. CASE d = c
    <3>1. /\ ask'[c] = NoRequest /\ kept'[c] = Nothing /\ pool'[c] = {}
          /\ picked'[c] = Nothing /\ pc'[c] = "idle"
      BY DEF Return, TypeOK
    <3>2. (Used(kept[c]))' = {} /\ (Used(picked[c]))' = {}
      BY <3>1, NothingUsed DEF Used
    <3> QED BY <2>2, <3>1, <3>2, RequestTyped
            DEF CallInv, KeptDistinct, PickedDistinct, PoolAvoidsKept, PickedAvoidKept, AllSlots
  <2> QED BY <2>1, <2>2
<1> QED BY <1>1, <1>2

\* Storing replaces the entry by servers kept and picked, which are distinct.
LEMMA StoreKeeps ==
  ASSUME PickInv, NEW c \in Calls, Store(c)
  PROVE  PickInv'
<1> USE DEF PickInv
<1>1. /\ slots' = [s \in Slots |-> IF picked[c][s] # None THEN picked[c][s] ELSE kept[c][s]]
      /\ shared' = sharing[c] /\ Return(c) /\ UNCHANGED <<count, country>>
  BY DEF Store
<1>2. slots' \in Assignments /\ shared' \subseteq Slots
  BY <1>1 DEF TypeOK, Assignments
<1>3. DistinctEndpoints'
  <2> SUFFICES ASSUME NEW s \in Slots, NEW t \in Slots, s # t,
                      slots'[s] # None, slots'[t] # None,
                      s \notin sharing[c], t \notin sharing[c]
               PROVE  EntryIP[slots'[s]] # EntryIP[slots'[t]]
    BY <1>1 DEF DistinctEndpoints, Used
  <2> DEFINE FromPick(u) == u \in Used(picked[c]) /\ slots'[u] = picked[c][u]
             FromKept(u) == u \in Used(kept[c]) /\ slots'[u] = kept[c][u]
  <2>1. /\ FromPick(s) \/ FromKept(s)
        /\ FromPick(t) \/ FromKept(t)
    BY <1>1 DEF Used
  <2>2. CASE FromPick(s) /\ FromPick(t)
    BY <2>2 DEF CallInv, PickedDistinct
  <2>3. CASE FromKept(s) /\ FromKept(t)
    BY <2>3 DEF CallInv, KeptDistinct
  <2>4. CASE FromPick(s) /\ FromKept(t)
    BY <2>4 DEF CallInv, PickedAvoidKept
  <2>5. CASE FromKept(s) /\ FromPick(t)
    BY <2>5 DEF CallInv, PickedAvoidKept
  <2> QED BY <2>1, <2>2, <2>3, <2>4, <2>5
<1> QED BY <1>1, <1>2, <1>3, ReturnKeeps

\* Every step preserves the invariant.
LEMMA PickStep == PickInv /\ [Next]_vars => PickInv'
<1> SUFFICES ASSUME PickInv, [Next]_vars PROVE PickInv'
  OBVIOUS
<1>1. ASSUME NEW c \in Calls, NEW t \in Slots \cup {AllSlots}, Begin(c, t) PROVE PickInv'
  BY <1>1, BeginKeeps
<1>2. ASSUME NEW c \in Calls, ListServers(c) PROVE PickInv'
  BY <1>2, ListServersKeeps
<1>3. ASSUME NEW c \in Calls, Consider(c) PROVE PickInv'
  BY <1>3, ConsiderKeeps
<1>4. ASSUME NEW c \in Calls, NotEnough(c) \/ Raise(c) PROVE PickInv'
  <2>1. Return(c) /\ UNCHANGED <<slots, count, country, shared>>
    BY <1>4 DEF NotEnough, Raise
  <2>2. slots' \in Assignments /\ shared' \subseteq Slots /\ DistinctEndpoints'
    BY <2>1 DEF PickInv, TypeOK, DistinctEndpoints, Used
  <2> QED BY <2>1, <2>2, ReturnKeeps
<1>5. ASSUME NEW c \in Calls, Store(c) PROVE PickInv'
  BY <1>5, StoreKeeps
<1>6. ASSUME NEW n \in Slots, NEW k \in Countries \cup {AnyCountry}, Configure(n, k) PROVE PickInv'
  BY <1>6 DEF Configure, callVars, PickInv, TypeOK, DistinctEndpoints, CallInv, KeptDistinct,
              PickedDistinct, PoolAvoidsKept, PickedAvoidKept, Used, AllSlots
<1>7. CASE UNCHANGED vars
  BY <1>7 DEF vars, callVars, PickInv, TypeOK, DistinctEndpoints, CallInv, KeptDistinct,
              PickedDistinct, PoolAvoidsKept, PickedAvoidKept, Used, AllSlots
<1> QED BY <1>1, <1>2, <1>3, <1>4, <1>5, <1>6, <1>7 DEF Next, Step

-----------------------------------------------------------------------------
\* Types: in particular a call for all tunnels never falls back on servers in
\* use, which is why its mark is always a slot.
THEOREM TypeCorrect == Spec => []TypeOK
<1>1. PickInv => TypeOK
  BY DEF PickInv
<1> QED BY <1>1, PickInit, PickStep, PTL DEF Spec

\* Tunnels have distinct entry IPs unless one had to share, however many calls
\* overlap.
THEOREM EndpointsDistinct == Spec => []DistinctEndpoints
<1>1. PickInv => DistinctEndpoints
  BY DEF PickInv
<1> QED BY <1>1, PickInit, PickStep, PTL DEF Spec
-----------------------------------------------------------------------------
(* The greedy loop. *)

\* A picked server that is no worse has the name or the entry IP of x.
Beaten(c, x) ==
  \E s \in Used(picked[c]) :
    /\ EffectiveScore(picked[c][s]) <= EffectiveScore(x)
    /\ Name[picked[c][s]] = Name[x] \/ EntryIP[picked[c][s]] = EntryIP[x]

\* What is still to be considered is no better than what has been picked, and
\* what a call for all tunnels has passed over is beaten; while the loop runs
\* a slot is missing, and the first server of the pool is always taken.
GreedyInv(c) ==
  /\ pc[c] \in {"pick", "store"} =>
       /\ pool[c] \subseteq usable[c]
       /\ \A x \in pool[c], s \in Used(picked[c]) :
            EffectiveScore(picked[c][s]) <= EffectiveScore(x)
       /\ ask[c].slot = AllSlots => \A x \in usable[c] \ pool[c] : Beaten(c, x)
  /\ pc[c] = "pick" =>
       /\ Used(picked[c]) \subseteq Wanted(c) /\ Used(picked[c]) # Wanted(c)
       /\ Used(picked[c]) = {} => pool[c] # {}

LoopInv == PickInv /\ \A c \in Calls : GreedyInv(c)

\* A step leaves the loops of the other calls alone.
LEMMA OtherLoop ==
  ASSUME NEW c, GreedyInv(c), pc'[c] = pc[c], ask'[c] = ask[c], usable'[c] = usable[c],
         pool'[c] = pool[c], picked'[c] = picked[c]
  PROVE  GreedyInv(c)'
  BY DEF GreedyInv, Beaten, Used, Wanted, AllSlots

\* The loop starts with nothing picked and something to consider.
LEMMA ListServersLoops ==
  ASSUME LoopInv, NEW c \in Calls, ListServers(c), NEW d \in Calls
  PROVE  GreedyInv(d)'
<1>0. PICK online \in SUBSET Servers, tiers \in {0 .. k : k \in {Tier[x] : x \in Servers}} :
        LET found == Suitable(online, tiers, ask[c].country)
            free == Candidates(c, found)
        IN  /\ found # {}
            /\ usable' = [usable EXCEPT ![c] = found]
            /\ pool' = [pool EXCEPT ![c] = IF free = {} THEN found ELSE free]
  BY DEF ListServers
<1> DEFINE found == Suitable(online, tiers, ask[c].country)
           free == Candidates(c, found)
<1>a. /\ UNCHANGED <<ask, kept, picked>> /\ pc' = [pc EXCEPT ![c] = "pick"] /\ pc[c] = "list"
      /\ TypeOK /\ CallInv(c) /\ GreedyInv(d)
  BY DEF ListServers, LoopInv, PickInv
<1>1. CASE d # c
  <2>1. pc'[d] = pc[d] /\ pool'[d] = pool[d] /\ usable'[d] = usable[d]
    BY <1>0, <1>a, <1>1 DEF TypeOK
  <2> QED BY <1>a, <2>1, OtherLoop
<1>2. CASE d = c
  <2>1. usable'[c] = found /\ pool'[c] = (IF free = {} THEN found ELSE free) /\ pc'[c] = "pick"
    BY <1>0, <1>a DEF TypeOK
  <2>2. free \subseteq found /\ found # {}
    BY <1>0 DEF Candidates
  <2>3. ask[c].slot = AllSlots => free = found
    BY <1>a DEF CallInv, Candidates, IPs
  <2>4. (Used(picked[c]))' = {}
    BY <1>a DEF CallInv, Used
  <2>5. (Wanted(c))' # {}
    <3>1. ask[c] \in Requests
      BY <1>a DEF TypeOK
    <3>2. ask[c].count \in Nat /\ 1 <= ask[c].count
      BY <3>1, ConstantsAssumption DEF Requests, Slots
    <3>3. 1 \in 1 .. ask[c].count /\ ask[c].slot \in {ask[c].slot}
      BY <3>2
    <3>4. ask' = ask
      BY <1>a
    <3> QED BY <3>3, <3>4 DEF Wanted, AllSlots
  <2> QED BY <1>2, <2>1, <2>2, <2>3, <2>4, <2>5, <1>a DEF GreedyInv
<1> QED BY <1>1, <1>2

\* One turn takes the best server left, or passes over one that is beaten.
LEMMA ConsiderLoops ==
  ASSUME LoopInv, NEW c \in Calls, Consider(c), NEW d \in Calls
  PROVE  GreedyInv(d)'
<1>0. PICK x \in pool[c], s \in Slots :
        /\ \A y \in pool[c] : Better(x, y)
        /\ NextSlot(c, s)
        /\ pool' = [pool EXCEPT ![c] = @ \ {x}]
        /\ picked' = IF Distinct(c, x) THEN [picked EXCEPT ![c][s] = x] ELSE picked
        /\ pc' = IF Distinct(c, x) /\ Wanted(c) \ Used(picked[c]) = {s}
                 THEN [pc EXCEPT ![c] = "store"] ELSE pc
  BY DEF Consider
<1>a. /\ pc[c] = "pick" /\ UNCHANGED <<ask, usable>>
      /\ TypeOK /\ GreedyInv(c) /\ GreedyInv(d)
  BY DEF Consider, LoopInv, PickInv
<1>1. CASE d # c
  <2>1. pc'[d] = pc[d] /\ pool'[d] = pool[d] /\ picked'[d] = picked[d]
    BY <1>0, <1>1, <1>a DEF TypeOK
  <2> QED BY <1>a, <2>1, OtherLoop
<1>2. CASE d = c
  <2>0. /\ pool'[c] = pool[c] \ {x} /\ pc'[c] \in {"pick", "store"}
        /\ x \in Servers /\ picked[c] \in Assignments
        /\ (Wanted(c))' = Wanted(c)
    BY <1>0, <1>a DEF TypeOK, Wanted, AllSlots
  <2>1. CASE ~Distinct(c, x)
    <3>1. picked'[c] = picked[c] /\ pc'[c] = pc[c]
      BY <1>0, <2>1
    <3>2. /\ (Used(picked[c]))' = Used(picked[c])
          /\ \A y : Beaten(c, y)' <=> Beaten(c, y)
      BY <3>1 DEF Used, Beaten
    <3>3. Beaten(c, x)
      <4>1. PICK s1 \in Used(picked[c]) :
              Name[picked[c][s1]] = Name[x] \/ EntryIP[picked[c][s1]] = EntryIP[x]
        BY <2>1 DEF Distinct, Names, IPs
      <4> QED BY <1>a, <4>1 DEF Beaten, GreedyInv
    <3>4. Used(picked[c]) # {}
      BY <3>3 DEF Beaten
    <3> QED BY <1>2, <1>a, <2>0, <3>1, <3>2, <3>3, <3>4 DEF GreedyInv
  <2>2. CASE Distinct(c, x)
    <3>1. picked'[c] = [picked[c] EXCEPT ![s] = x]
      BY <1>0, <1>a, <2>2 DEF TypeOK
    <3>2. /\ picked'[c][s] = x
          /\ \A t \in Slots \ {s} : picked'[c][t] = picked[c][t]
          /\ (Used(picked[c]))' = Used(picked[c]) \cup {s}
          /\ s \notin Used(picked[c]) /\ s \in Wanted(c)
      BY <1>0, <2>0, <3>1, ConstantsAssumption DEF Assignments, Used, NextSlot
    <3>3. \A t \in Used(picked[c]) : picked'[c][t] = picked[c][t]
      BY <3>2 DEF Used
    <3>4. \A y \in pool[c] \ {x}, t \in Used(picked[c]) \cup {s} :
            EffectiveScore(picked'[c][t]) <= EffectiveScore(y)
      BY <1>0, <1>a, <3>2, <3>3 DEF Better, GreedyInv
    <3>5. \A y : Beaten(c, y) => Beaten(c, y)'
      BY <3>2, <3>3 DEF Beaten
    <3>6. Beaten(c, x)'
      <4>1. EffectiveScore(x) <= EffectiveScore(x)
        BY <1>0 DEF Better
      <4> QED BY <3>2, <4>1 DEF Beaten
    <3>7. pc'[c] = "pick" => Used(picked[c]) \cup {s} # Wanted(c)
      BY <1>0, <1>a, <2>2, <3>2 DEF TypeOK
    <3>8. /\ pool'[c] \subseteq usable'[c]
          /\ \A y \in pool'[c], t \in (Used(picked[c]))' :
               EffectiveScore(picked'[c][t]) <= EffectiveScore(y)
          /\ ask'[c].slot = AllSlots => \A y \in usable'[c] \ pool'[c] : Beaten(c, y)'
      BY <1>a, <2>0, <3>2, <3>4, <3>5, <3>6 DEF GreedyInv
    <3>9. /\ (Used(picked[c]))' \subseteq Wanted(c) /\ (Used(picked[c]))' # {}
          /\ pc'[c] = "pick" => (Used(picked[c]))' # Wanted(c)
      BY <1>a, <3>2, <3>7 DEF GreedyInv
    <3> QED BY <1>2, <2>0, <3>8, <3>9 DEF GreedyInv, AllSlots
  <2> QED BY <2>1, <2>2
<1> QED BY <1>1, <1>2

\* Every step preserves the invariant of the loop.
LEMMA LoopStep == LoopInv /\ [Next]_vars => LoopInv'
<1> SUFFICES ASSUME LoopInv, [Next]_vars, NEW d \in Calls PROVE GreedyInv(d)'
  BY PickStep DEF LoopInv
<1>0. TypeOK /\ GreedyInv(d)
  BY DEF LoopInv, PickInv
<1>1. ASSUME NEW c \in Calls, NEW t \in Slots \cup {AllSlots}, Begin(c, t) PROVE GreedyInv(d)'
  <2>1. CASE d = c
    <3>1. pc'[d] = "list"
      BY <1>0, <1>1, <2>1 DEF Begin, TypeOK
    <3> QED BY <3>1 DEF GreedyInv
  <2>2. CASE d # c
    BY <1>0, <1>1, <2>2, OtherLoop DEF Begin, TypeOK
  <2> QED BY <2>1, <2>2
<1>2. ASSUME NEW c \in Calls, ListServers(c) PROVE GreedyInv(d)'
  BY <1>2, ListServersLoops
<1>3. ASSUME NEW c \in Calls, Consider(c) PROVE GreedyInv(d)'
  BY <1>3, ConsiderLoops
<1>4. ASSUME NEW c \in Calls, NotEnough(c) \/ Raise(c) \/ Store(c) PROVE GreedyInv(d)'
  <2>1. Return(c)
    BY <1>4 DEF NotEnough, Raise, Store
  <2>2. CASE d = c
    <3>1. pc'[d] = "idle"
      BY <1>0, <2>1, <2>2 DEF Return, TypeOK
    <3> QED BY <3>1 DEF GreedyInv
  <2>3. CASE d # c
    BY <1>0, <2>1, <2>3, OtherLoop DEF Return, TypeOK
  <2> QED BY <2>2, <2>3
<1>5. ASSUME NEW n \in Slots, NEW k \in Countries \cup {AnyCountry}, Configure(n, k) PROVE GreedyInv(d)'
  BY <1>0, <1>5, OtherLoop DEF Configure, callVars
<1>6. CASE UNCHANGED vars
  BY <1>0, <1>6, OtherLoop DEF vars, callVars
<1> QED BY <1>1, <1>2, <1>3, <1>4, <1>5, <1>6 DEF Next, Step

\* The invariant of the loop holds throughout.
LEMMA LoopInvariant == Spec => []LoopInv
<1>1. Init => LoopInv
  <2> SUFFICES ASSUME Init, NEW c \in Calls PROVE GreedyInv(c)
    BY PickInit DEF LoopInv
  <2> QED BY DEF Init, GreedyInv
<1> QED BY <1>1, LoopStep, PTL DEF Spec

\* The choice is the best there is, whatever the servers and their ties.
THEOREM BestIsPicked == Spec => []BestPicked
<1>1. LoopInv => BestPicked
  <2> SUFFICES ASSUME LoopInv, NEW c \in Calls, pc[c] = "store", ask[c].slot = AllSlots,
                      NEW x \in usable[c],
                      ~ \A s \in Used(picked[c]) : EffectiveScore(picked[c][s]) <= EffectiveScore(x)
               PROVE  Beaten(c, x)
    BY DEF BestPicked, Beaten
  <2> QED BY DEF LoopInv, GreedyInv
<1> QED BY <1>1, LoopInvariant, PTL

-----------------------------------------------------------------------------
\* A function of a set onto its images, which are no more.
LEMMA IPsBound ==
  ASSUME NEW assignment, IsFiniteSet(Used(assignment))
  PROVE  IsFiniteSet(IPs(assignment)) /\ Cardinality(IPs(assignment)) <= Cardinality(Used(assignment))
<1> DEFINE f == [s \in Used(assignment) |-> EntryIP[assignment[s]]]
<1>1. f \in Surjection(Used(assignment), IPs(assignment))
  BY DEF Surjection, IPs
<1> QED BY <1>1, FS_Surjection

\* With unique names a call raises for want of servers only if the addresses
\* of those it found are fewer than the tunnels it was asked for.
THEOREM FailsForWant ==
  ASSUME \A x, y \in Servers : Name[x] = Name[y] => x = y
  PROVE  Spec => FailsOnlyIfTooFew
<1>1. ASSUME LoopInv, NEW c \in Calls, NotEnough(c)
      PROVE  Cardinality({EntryIP[x] : x \in usable[c]}) < Cardinality(Wanted(c))
  <2> DEFINE addresses == {EntryIP[x] : x \in usable[c]}
             used == Used(picked[c])
  <2>1. /\ pc[c] = "pick" /\ pool[c] = {} /\ GreedyInv(c) /\ CallInv(c)
        /\ picked[c] \in Assignments /\ ask[c] \in Requests /\ usable[c] \subseteq Servers
    BY <1>1 DEF NotEnough, LoopInv, PickInv, TypeOK
  <2>2. used # {} /\ used \subseteq Wanted(c) /\ used # Wanted(c)
    BY <2>1 DEF GreedyInv
  <2>3. ask[c].slot = AllSlots
    BY <2>2 DEF Wanted
  <2>4. addresses \subseteq IPs(picked[c])
    <3> SUFFICES ASSUME NEW x \in usable[c] PROVE EntryIP[x] \in IPs(picked[c])
      OBVIOUS
    <3>1. PICK s \in used : Name[picked[c][s]] = Name[x] \/ EntryIP[picked[c][s]] = EntryIP[x]
      BY <2>1, <2>3 DEF GreedyInv, Beaten
    <3>2. picked[c][s] \in Servers
      BY <2>1 DEF Assignments, Used
    <3>3. EntryIP[picked[c][s]] = EntryIP[x]
      BY <2>1, <3>1, <3>2
    <3> QED BY <3>3 DEF IPs
  <2>5. IsFiniteSet(Wanted(c))
    <3>1. 1 \in Int /\ ask[c].count \in Int
      BY <2>1 DEF Requests, Slots
    <3> QED BY <2>3, <3>1, FS_Interval DEF Wanted
  <2>6. /\ IsFiniteSet(used) /\ Cardinality(used) <= Cardinality(Wanted(c))
        /\ Cardinality(used) # Cardinality(Wanted(c))
    BY <2>2, <2>5, FS_Subset
  <2>7. IsFiniteSet(IPs(picked[c])) /\ Cardinality(IPs(picked[c])) <= Cardinality(used)
    BY <2>6, IPsBound
  <2>8. IsFiniteSet(addresses) /\ Cardinality(addresses) <= Cardinality(IPs(picked[c]))
    BY <2>4, <2>7, FS_Subset
  <2>9. /\ Cardinality(addresses) \in Nat /\ Cardinality(IPs(picked[c])) \in Nat
        /\ Cardinality(used) \in Nat /\ Cardinality(Wanted(c)) \in Nat
    BY <2>5, <2>6, <2>7, <2>8, FS_CardinalityType
  <2> QED BY <2>6, <2>7, <2>8, <2>9
<1>2. LoopInv /\ [Next]_vars =>
        [\A c \in Calls : NotEnough(c) =>
           Cardinality({EntryIP[x] : x \in usable[c]}) < Cardinality(Wanted(c))]_vars
  BY <1>1
<1> QED BY <1>2, LoopInvariant, PTL DEF Spec, FailsOnlyIfTooFew

-----------------------------------------------------------------------------
(***************************************************************************)
(* ServerPick implements SlotStore.                                        *)
(***************************************************************************)
\* An idle call keeps nothing, and one that stores has a server for every
\* slot it was asked for.
AllPicked(c) ==
  /\ pc[c] = "idle" => kept[c] = Nothing
  /\ pc[c] = "store" => Used(picked[c]) = Wanted(c)

StoreInv == LoopInv /\ \A c \in Calls : AllPicked(c)

Asked(c) == [wanted |-> IF pc[c] = "idle" THEN {} ELSE Wanted(c), kept |-> kept[c]]
Asking == [c \in Calls |-> Asked(c)]
NotAsking == [wanted |-> {}, kept |-> Nothing]

\* The actions of SlotStore in terms of these.
LEMMA AbstractIs ==
  /\ Abstract!Configure <=> Asking' = Asking /\ slots' = slots /\ count' \in Slots
  /\ \A c : Abstract!Begin(c) <=>
       /\ Asking[c] = NotAsking
       /\ slots' = slots /\ count' = count
       /\ \E t \in 0 .. count : Asking' = [Asking EXCEPT ![c] = Abstract!Reading(t, slots)]
  /\ \A c : Abstract!Fail(c) <=>
       /\ Asking[c] # NotAsking
       /\ Asking' = [Asking EXCEPT ![c] = NotAsking]
       /\ slots' = slots /\ count' = count
  BY DEF Asking, Asked, NotAsking, Nothing, Slots, Abstract!Configure, Abstract!Begin,
         Abstract!Fail, Abstract!Free, Abstract!Nothing, Abstract!Slots

LEMMA ReadingIs ==
  ASSUME TypeOK, NEW t \in Slots \cup {AllSlots}
  PROVE  Abstract!Reading(t, slots) =
           [wanted |-> IF t = AllSlots THEN 1 .. count ELSE {t}, kept |-> CarriedOver(t)]
<1>1. Abstract!Slots = Slots /\ Abstract!AllSlots = AllSlots
  BY DEF Abstract!Slots, Abstract!AllSlots, Slots, AllSlots
<1>2. \A s \in Slots : s \in Nat /\ count \in Nat /\ (s > count <=> ~ (s <= count))
  BY SlotsPositive DEF TypeOK
<1>3. [s \in Slots |-> IF t \in {AllSlots, s} \/ s > count THEN None ELSE slots[s]] = CarriedOver(t)
  BY <1>2 DEF CarriedOver
<1> QED BY <1>1, <1>3 DEF Abstract!Reading

LEMMA AbstractStoreIs ==
  ASSUME NEW c, Asking[c] # NotAsking, Asking' = [Asking EXCEPT ![c] = NotAsking], count' = count,
         NEW new \in [Asking[c].wanted -> Servers],
         \A r, s \in Asking[c].wanted : new[r] = new[s] => r = s,
         slots' = [s \in Slots |-> IF s \in Asking[c].wanted THEN new[s] ELSE Asking[c].kept[s]]
  PROVE  Abstract!Store(c)
<1>1. NotAsking = Abstract!Free
  BY DEF NotAsking, Nothing, Slots, Abstract!Free, Abstract!Nothing, Abstract!Slots
<1>2. Abstract!Renewed(c, new)
  BY DEF Abstract!Renewed, Abstract!Slots, Slots, Asking, Asked
<1> QED BY <1>1, <1>2 DEF Abstract!Store, Asking, Asked

\* A call in flight asks for some slot.
LEMMA WantedIs ==
  ASSUME TypeOK, NEW c \in Calls
  PROVE  Wanted(c) # {} /\ Wanted(c) \subseteq Slots
<1>1. ask[c].slot \in Slots \cup {AllSlots} /\ ask[c].count \in Slots
  BY DEF TypeOK, Requests
<1>2. ask[c].count \in Nat /\ 1 <= ask[c].count /\ ask[c].count <= MaxSlots /\ MaxSlots \in Nat
  BY <1>1, ConstantsAssumption DEF Slots
<1>3. 1 \in 1 .. ask[c].count /\ 1 .. ask[c].count \subseteq Slots
  BY <1>2 DEF Slots
<1> QED BY <1>1, <1>3 DEF Wanted

\* A step leaves what the other calls were asked for alone.
LEMMA AskedAgain ==
  ASSUME NEW c, pc'[c] = pc[c], ask'[c] = ask[c], kept'[c] = kept[c], picked'[c] = picked[c]
  PROVE  /\ Asked(c)' = Asked(c)
         /\ AllPicked(c) => AllPicked(c)'
  BY DEF Asked, AllPicked, Wanted, Used, AllSlots, Nothing

LEMMA StoreInvInit == Init => StoreInv /\ Abstract!Init
<1> SUFFICES ASSUME Init PROVE StoreInv /\ Abstract!Init
  OBVIOUS
<1>1. LoopInv
  <2> SUFFICES ASSUME NEW c \in Calls PROVE GreedyInv(c)
    BY PickInit DEF LoopInv
  <2> QED BY DEF Init, GreedyInv
<1>2. \A c \in Calls : AllPicked(c) /\ Asked(c) = NotAsking
  BY DEF Init, AllPicked, Asked, NotAsking
<1>3. Abstract!Init
  <2>1. slots = [Nothing EXCEPT ![1] = None]
    BY DEF Init, Nothing
  <2> QED BY <1>2, <2>1 DEF Init, Abstract!Init, Abstract!Free, Abstract!Nothing, Abstract!Slots,
                            Slots, Nothing, Asked, NotAsking
<1> QED BY <1>1, <1>2, <1>3 DEF StoreInv

LEMMA StoreBegins ==
  ASSUME StoreInv, NEW c \in Calls, NEW t \in Slots \cup {AllSlots}, Begin(c, t)
  PROVE  (\A d \in Calls : AllPicked(d)') /\ Abstract!Begin(c)
<1>0. TypeOK /\ AllPicked(c) /\ pc[c] = "idle" /\ t \in 0 .. count
  BY SlotsPositive DEF StoreInv, LoopInv, PickInv, Begin, TypeOK, AllSlots
<1>1. /\ pc'[c] = "list" /\ ask'[c].slot = t /\ ask'[c].count = count
      /\ kept'[c] = CarriedOver(t) /\ slots' = slots /\ count' = count
  BY <1>0 DEF Begin, TypeOK
<1>2. \A d \in Calls : d # c => AllPicked(d)' /\ Asked(d)' = Asked(d)
  <2> SUFFICES ASSUME NEW d \in Calls, d # c PROVE AllPicked(d)' /\ Asked(d)' = Asked(d)
    OBVIOUS
  <2>1. pc'[d] = pc[d] /\ ask'[d] = ask[d] /\ kept'[d] = kept[d] /\ picked'[d] = picked[d]
    BY <1>0 DEF Begin, TypeOK
  <2> QED BY <2>1, AskedAgain DEF StoreInv
<1>3. Asked(c)' = Abstract!Reading(t, slots)
  BY <1>0, <1>1, ReadingIs DEF Asked, Wanted, AllSlots
<1>4. AllPicked(c)'
  BY <1>1 DEF AllPicked
<1>5. Asking[c] = NotAsking
  BY <1>0 DEF Asking, Asked, NotAsking, AllPicked
<1>6. Asking' = [Asking EXCEPT ![c] = Abstract!Reading(t, slots)]
  BY <1>2, <1>3 DEF Asking
<1> QED BY <1>0, <1>1, <1>2, <1>4, <1>5, <1>6, AbstractIs

\* A call is over.
LEMMA ReturnIs ==
  ASSUME StoreInv, NEW c \in Calls, Return(c), pc[c] # "idle"
  PROVE  /\ \A d \in Calls : AllPicked(d)'
         /\ Asking[c] # NotAsking /\ Asking' = [Asking EXCEPT ![c] = NotAsking]
<1>0. TypeOK
  BY DEF StoreInv, LoopInv, PickInv
<1>1. pc'[c] = "idle" /\ kept'[c] = Nothing
  BY <1>0 DEF Return, TypeOK
<1>2. Asked(c)' = NotAsking /\ AllPicked(c)'
  BY <1>1 DEF Asked, NotAsking, AllPicked, Nothing
<1>3. \A d \in Calls : d # c => AllPicked(d)' /\ Asked(d)' = Asked(d)
  <2> SUFFICES ASSUME NEW d \in Calls, d # c PROVE AllPicked(d)' /\ Asked(d)' = Asked(d)
    OBVIOUS
  <2>1. pc'[d] = pc[d] /\ ask'[d] = ask[d] /\ kept'[d] = kept[d] /\ picked'[d] = picked[d]
    BY <1>0 DEF Return, TypeOK
  <2> QED BY <2>1, AskedAgain DEF StoreInv
<1>4. Asking[c] # NotAsking
  BY <1>0, WantedIs DEF Asking, Asked, NotAsking
<1> QED BY <1>2, <1>3, <1>4 DEF Asking

\* What is stored are servers for all slots asked for, no server twice.
LEMMA StoreStores ==
  ASSUME StoreInv, NEW c \in Calls, Store(c)
  PROVE  (\A d \in Calls : AllPicked(d)') /\ Abstract!Store(c)
<1>0. /\ TypeOK /\ CallInv(c) /\ AllPicked(c) /\ pc[c] = "store" /\ Return(c) /\ count' = count
      /\ slots' = [s \in Slots |-> IF picked[c][s] # None THEN picked[c][s] ELSE kept[c][s]]
  BY DEF StoreInv, LoopInv, PickInv, Store
<1>1. Asking[c] # NotAsking /\ Asking' = [Asking EXCEPT ![c] = NotAsking]
      /\ \A d \in Calls : AllPicked(d)'
  BY <1>0, ReturnIs
<1>2. Asking[c] = [wanted |-> Used(picked[c]), kept |-> kept[c]]
  BY <1>0 DEF Asking, Asked, AllPicked
<1>3. PICK new : new = [s \in Used(picked[c]) |-> picked[c][s]]
  OBVIOUS
<1>4. new \in [Used(picked[c]) -> Servers]
  BY <1>0, <1>3 DEF TypeOK, Assignments, Used
<1>5. \A r, s \in Used(picked[c]) : new[r] = new[s] => r = s
  BY <1>0, <1>3 DEF CallInv, PickedDistinct
<1>6. slots' = [s \in Slots |-> IF s \in Used(picked[c]) THEN new[s] ELSE kept[c][s]]
  BY <1>0, <1>3 DEF Used
<1>7. /\ new \in [Asking[c].wanted -> Servers]
      /\ \A r, s \in Asking[c].wanted : new[r] = new[s] => r = s
      /\ slots' = [s \in Slots |-> IF s \in Asking[c].wanted THEN new[s] ELSE Asking[c].kept[s]]
  BY <1>2, <1>4, <1>5, <1>6
<1>8. Abstract!Store(c)
  BY <1>0, <1>1, <1>7, AbstractStoreIs
<1> QED BY <1>1, <1>8

\* The loop ends with the last slot it was asked for.
LEMMA StoreConsiders ==
  ASSUME StoreInv, NEW c \in Calls, Consider(c)
  PROVE  (\A d \in Calls : AllPicked(d)') /\ Asking' = Asking
<1>0. PICK x \in pool[c], s \in Slots :
        /\ picked' = IF Distinct(c, x) THEN [picked EXCEPT ![c][s] = x] ELSE picked
        /\ pc' = IF Distinct(c, x) /\ Wanted(c) \ Used(picked[c]) = {s}
                 THEN [pc EXCEPT ![c] = "store"] ELSE pc
  BY DEF Consider
<1>1. /\ pc[c] = "pick" /\ UNCHANGED <<ask, kept>>
      /\ TypeOK /\ GreedyInv(c) /\ x \in Servers
  BY DEF Consider, StoreInv, LoopInv, PickInv, TypeOK
<1>2. \A d \in Calls : d # c => AllPicked(d)'
  <2> SUFFICES ASSUME NEW d \in Calls, d # c PROVE AllPicked(d)'
    OBVIOUS
  <2>1. pc'[d] = pc[d] /\ ask'[d] = ask[d] /\ kept'[d] = kept[d] /\ picked'[d] = picked[d]
    BY <1>0, <1>1 DEF TypeOK
  <2> QED BY <2>1, AskedAgain DEF StoreInv
<1>3. AllPicked(c)'
  <2>1. CASE pc'[c] # "store"
    BY <1>0, <1>1, <2>1 DEF AllPicked, TypeOK
  <2>2. CASE pc'[c] = "store"
    <3>1. Distinct(c, x) /\ Wanted(c) \ Used(picked[c]) = {s}
      <4> SUFFICES ASSUME ~ (Distinct(c, x) /\ Wanted(c) \ Used(picked[c]) = {s}) PROVE FALSE
        OBVIOUS
      <4>1. pc' = pc
        BY <1>0
      <4> QED BY <1>1, <2>2, <4>1
    <3>2. picked'[c] = [picked[c] EXCEPT ![s] = x]
      BY <1>0, <1>1, <3>1 DEF TypeOK
    <3>3. (Used(picked[c]))' = Used(picked[c]) \cup {s}
      BY <1>1, <3>2, ConstantsAssumption DEF Used, TypeOK, Assignments
    <3>4. (Wanted(c))' = Wanted(c)
      BY <1>1 DEF Wanted, AllSlots
    <3>5. Used(picked[c]) \subseteq Wanted(c)
      BY <1>1 DEF GreedyInv
    <3> QED BY <2>2, <3>1, <3>3, <3>4, <3>5 DEF AllPicked
  <2> QED BY <2>1, <2>2
<1>4. \A d \in Calls : pc'[d] = "idle" <=> pc[d] = "idle"
  BY <1>0, <1>1 DEF TypeOK
<1>5. \A d \in Calls : Asked(d)' = Asked(d)
  BY <1>1, <1>4 DEF Asked, Wanted, AllSlots
<1> QED BY <1>2, <1>3, <1>5 DEF Asking

LEMMA StoreInvNext == StoreInv /\ [Next]_vars => StoreInv' /\ [Abstract!Next]_(Abstract!vars)
<1> SUFFICES ASSUME StoreInv, [Next]_vars
             PROVE  (\A d \in Calls : AllPicked(d)') /\ [Abstract!Next]_(Abstract!vars)
  BY LoopStep DEF StoreInv
<1>0. TypeOK /\ Abstract!Slots = Slots /\ count \in Slots
  BY DEF StoreInv, LoopInv, PickInv, TypeOK, Abstract!Slots, Slots
<1>1. ASSUME NEW c \in Calls, NEW t \in Slots \cup {AllSlots}, Begin(c, t)
      PROVE  (\A d \in Calls : AllPicked(d)') /\ Abstract!Next
  BY <1>1, StoreBegins DEF Abstract!Next
<1>2. ASSUME NEW c \in Calls, ListServers(c)
      PROVE  (\A d \in Calls : AllPicked(d)') /\ Abstract!Next
  <2>1. /\ pc[c] = "list" /\ pc' = [pc EXCEPT ![c] = "pick"]
        /\ UNCHANGED <<slots, count, ask, kept, picked>>
    BY <1>2 DEF ListServers
  <2>2. \A d \in Calls : Asked(d)' = Asked(d) /\ AllPicked(d)'
    BY <1>0, <2>1 DEF StoreInv, Asked, AllPicked, Wanted, AllSlots, Used, TypeOK
  <2> QED BY <1>0, <2>1, <2>2, AbstractIs DEF Abstract!Next, Asking
<1>3. ASSUME NEW c \in Calls, Consider(c)
      PROVE  (\A d \in Calls : AllPicked(d)') /\ Abstract!Next
  <2>1. UNCHANGED <<slots, count>>
    BY <1>3 DEF Consider
  <2> QED BY <1>0, <1>3, <2>1, StoreConsiders, AbstractIs DEF Abstract!Next
<1>4. ASSUME NEW c \in Calls, NotEnough(c) \/ Raise(c)
      PROVE  (\A d \in Calls : AllPicked(d)') /\ Abstract!Next
  <2>1. Return(c) /\ pc[c] # "idle" /\ UNCHANGED <<slots, count>>
    BY <1>4 DEF NotEnough, Raise
  <2> QED BY <2>1, ReturnIs, AbstractIs DEF Abstract!Next
<1>5. ASSUME NEW c \in Calls, Store(c)
      PROVE  (\A d \in Calls : AllPicked(d)') /\ Abstract!Next
  BY <1>5, StoreStores DEF Abstract!Next
<1>6. ASSUME NEW n \in Slots, NEW k \in Countries \cup {AnyCountry}, Configure(n, k)
      PROVE  (\A d \in Calls : AllPicked(d)') /\ Abstract!Next
  <2>1. /\ \A d \in Calls : /\ pc'[d] = pc[d] /\ ask'[d] = ask[d]
                            /\ kept'[d] = kept[d] /\ picked'[d] = picked[d]
        /\ slots' = slots /\ count' \in Slots
    BY <1>6 DEF Configure, callVars
  <2>2. \A d \in Calls : Asked(d)' = Asked(d) /\ AllPicked(d)'
    BY <2>1, AskedAgain DEF StoreInv
  <2> QED BY <2>1, <2>2, AbstractIs DEF Abstract!Next, Asking
<1>7. CASE UNCHANGED vars
  <2>1. /\ \A d \in Calls : /\ pc'[d] = pc[d] /\ ask'[d] = ask[d]
                            /\ kept'[d] = kept[d] /\ picked'[d] = picked[d]
        /\ slots' = slots /\ count' = count
    BY <1>7 DEF vars, callVars
  <2>2. \A d \in Calls : Asked(d)' = Asked(d) /\ AllPicked(d)'
    BY <2>1, AskedAgain DEF StoreInv
  <2> QED BY <2>1, <2>2 DEF Abstract!vars, Asked
<1> QED BY <1>1, <1>2, <1>3, <1>4, <1>5, <1>6, <1>7 DEF Next, Step

\* However calls overlap and whatever servers there are: a call that stores
\* has found a server for every slot it was asked for, no server twice, and
\* keeps the other active slots as it read them.
THEOREM ImplementsStore == Spec => ImplementsSlotStore
  BY StoreInvInit, StoreInvNext, PTL DEF Spec, ImplementsSlotStore, Abstract!Safety
==============================================================================
