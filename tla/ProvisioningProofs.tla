------------------------- MODULE ProvisioningProofs -------------------------
(***************************************************************************)
(* Theorems about Provisioning, for every number of slots, calls and       *)
(* serials: the type invariant and ForeignKept whatever overlaps;          *)
(* StoredLive and CleanupComplete when calls do not overlap; and, again    *)
(* whatever overlaps, that the calls implement SlotStore.                  *)
(***************************************************************************)
EXTENDS Provisioning, TLAPS

\* What ForeignKept needs: nothing marked for deletion is foreign.
KeptInv ==
  /\ TypeOK
  /\ ForeignKept
  /\ \A c \in Calls : doomed[c] \cap Foreign = {}

\* The safety part of the specification.
SafetySpec == Init /\ [][Next]_vars

-----------------------------------------------------------------------------
(* Lemmas on the helpers. *)

\* Slots and the credentials of a call for slot t are well typed.
LEMMA SlotsTyped == /\ Slots \subseteq Nat /\ 0 \notin Slots /\ AllSlots \notin Slots
                    /\ \A n \in Slots : 1 .. n \subseteq Slots
  BY ConstantsAssumption DEF Slots, AllSlots

\* Held finds exactly the serials among the credentials.
LEMMA HeldIs ==
  ASSUME NEW creds \in Credentials
  PROVE  /\ Held(creds) \subseteq Serials
         /\ \A s \in Slots : creds[s] \in Held(creds) \cup {NoCert}
         /\ \A x \in Held(creds) : \E s \in Slots : creds[s] = x
  BY DEF Held, Credentials

\* A call carries over credentials of the entry or nothing.
LEMMA CarriedOverIs ==
  ASSUME slots \in Credentials, count \in Slots, NEW t \in Slots \cup {AllSlots}
  PROVE  /\ CarriedOver(t) \in Credentials
         /\ \A s \in Slots : CarriedOver(t)[s] \in {slots[s], NoCert}
  BY DEF CarriedOver, Credentials

LEMMA NothingTyped == /\ Nothing \in Credentials
                      /\ Held(Nothing) = {}
                      /\ \A s \in Slots : Nothing[s] = NoCert
  BY DEF Nothing, Credentials, Held

\* A fresh serial is one that nobody refers to.
LEMMA FreshIs ==
  ASSUME NEW n \in Fresh
  PROVE  /\ n \in Serials /\ n \notin live /\ n \notin Held(slots)
         /\ \A c \in Calls : n \notin Held(result[c]) /\ n \notin doomed[c]
  BY DEF Fresh, Referenced

-----------------------------------------------------------------------------
(* The type invariant. *)

LEMMA TypeOKInit == Init => TypeOK
  BY NothingTyped, ConstantsAssumption
  DEF Init, TypeOK, Nothing, Credentials, AllSlots

LEMMA TypeOKReturn ==
  ASSUME TypeOK, NEW c \in Calls, Return(c)
  PROVE  /\ pc' \in [Calls -> {"idle", "select", "create", "list", "clean"}]
         /\ target' \in [Calls -> Slots \cup {AllSlots}]
         /\ todo' \in [Calls -> SUBSET Slots]
         /\ result' \in [Calls -> Credentials]
         /\ doomed' \in [Calls -> SUBSET Serials]
         /\ failed' \in [Calls -> BOOLEAN]
  BY NothingTyped DEF TypeOK, Return

LEMMA TypeOKNext == TypeOK /\ [Next]_vars => TypeOK'
<1> SUFFICES ASSUME TypeOK, [Next]_vars PROVE TypeOK'
  OBVIOUS
<1>1. CASE UNCHANGED vars
  BY <1>1 DEF TypeOK, vars, callVars
<1>2. ASSUME NEW c \in Calls, NEW t \in Slots \cup {AllSlots}, Begin(c, t)
      PROVE  TypeOK'
  <2>1. CarriedOver(t) \in Credentials
    BY CarriedOverIs DEF TypeOK
  <2>2. SlotsToProvision(t) \subseteq Slots
    BY SlotsTyped DEF SlotsToProvision, TypeOK
  <2> QED
    BY <1>2, <2>1, <2>2 DEF Begin, TypeOK
<1>3. ASSUME NEW c \in Calls, Step(c) PROVE TypeOK'
  <2>1. CASE SelectServers(c)
    BY <2>1 DEF SelectServers, TypeOK
  <2>2. CASE Create(c)
    <3>1. PICK n \in Fresh, s \in todo[c] :
            /\ live' = live \cup {n}
            /\ result' = [result EXCEPT ![c][s] = n]
            /\ todo' = [todo EXCEPT ![c] = @ \ {s}]
      BY <2>2 DEF Create
    <3>2. n \in Serials /\ s \in Slots
      BY FreshIs DEF TypeOK
    <3>3. result' \in [Calls -> Credentials]
      BY <3>1, <3>2 DEF TypeOK, Credentials
    <3> QED
      BY <2>2, <3>1, <3>2, <3>3 DEF Create, TypeOK
  <2>3. CASE CreateRefused(c)
    BY <2>3, TypeOKReturn DEF CreateRefused, TypeOK
  <2>4. CASE CreateLost(c)
    BY <2>4, TypeOKReturn, FreshIs DEF CreateLost, TypeOK
  <2>5. CASE Raise(c)
    BY <2>5, TypeOKReturn DEF Raise, TypeOK
  <2>6. CASE ListCertificates(c)
    BY <2>6 DEF ListCertificates, Stale, TypeOK
  <2>7. CASE Delete(c)
    BY <2>7 DEF Delete, TypeOK
  <2>8. CASE Store(c)
    BY <2>8, TypeOKReturn DEF Store, TypeOK
  <2> QED
    BY <1>3, <2>1, <2>2, <2>3, <2>4, <2>5, <2>6, <2>7, <2>8 DEF Step
<1>4. ASSUME NEW n \in Slots, SetTunnelCount(n) PROVE TypeOK'
  BY <1>4 DEF SetTunnelCount, TypeOK, callVars
<1>5. CASE Crash
  BY <1>5, NothingTyped DEF Crash, Replaced, TypeOK
<1> QED
  BY <1>1, <1>2, <1>3, <1>4, <1>5 DEF Next

\* Every reachable state is well typed.
THEOREM TypeCorrect == Spec => []TypeOK
<1>1. SafetySpec => []TypeOK
  BY TypeOKInit, TypeOKNext, PTL DEF SafetySpec
<1> QED
  BY <1>1, PTL DEF Spec, SafetySpec

-----------------------------------------------------------------------------
(* Certificates that are not ours. *)

LEMMA KeptInvNext == KeptInv /\ [Next]_vars => KeptInv'
<1> SUFFICES ASSUME KeptInv, [Next]_vars
    PROVE  /\ ForeignKept'
           /\ \A c \in Calls : doomed'[c] \cap Foreign = {}
  BY TypeOKNext DEF KeptInv
<1>1. CASE UNCHANGED vars
  BY <1>1 DEF KeptInv, ForeignKept, vars, callVars
<1>2. ASSUME NEW c \in Calls, NEW t \in Slots \cup {AllSlots}, Begin(c, t)
      PROVE  UNCHANGED <<live, doomed>>
  BY <1>2 DEF Begin
<1>3. ASSUME NEW c \in Calls, SelectServers(c) PROVE UNCHANGED <<live, doomed>>
  BY <1>3 DEF SelectServers
<1>4. ASSUME NEW c \in Calls, Create(c)
      PROVE  live \subseteq live' /\ UNCHANGED doomed
  BY <1>4 DEF Create
<1>5. ASSUME NEW c \in Calls,
             CreateRefused(c) \/ CreateLost(c) \/ Raise(c) \/ Store(c)
      PROVE  live \subseteq live' /\ doomed' = [doomed EXCEPT ![c] = {}]
  BY <1>5 DEF CreateRefused, CreateLost, Raise, Store, Return
<1>6. ASSUME NEW c \in Calls, ListCertificates(c)
      PROVE  /\ live' = live
             /\ \A d \in Calls : doomed'[d] \cap Foreign = {}
  BY <1>6 DEF ListCertificates, Stale, KeptInv, TypeOK
<1>7. ASSUME NEW c \in Calls, Delete(c)
      PROVE  /\ live \cap Foreign \subseteq live'
             /\ \A d \in Calls : doomed'[d] \cap Foreign = {}
  BY <1>7 DEF Delete, KeptInv, TypeOK
<1>8. ASSUME NEW n \in Slots, SetTunnelCount(n) PROVE UNCHANGED <<live, doomed>>
  BY <1>8 DEF SetTunnelCount, callVars
<1>9. CASE Crash
  BY <1>9 DEF Crash, KeptInv, ForeignKept
<1> QED
  BY <1>1, <1>2, <1>3, <1>4, <1>5, <1>6, <1>7, <1>8, <1>9
  DEF Next, Step, KeptInv, ForeignKept, TypeOK

\* Certificates whose device name is not ours are never revoked, however
\* many calls overlap, whatever fails and wherever Home Assistant stops.
THEOREM ForeignCertificatesKept == Spec => []ForeignKept
<1>1. Init => KeptInv
  BY TypeOKInit DEF KeptInv, ForeignKept, Init
<1>2. SafetySpec => []KeptInv
  BY <1>1, KeptInvNext, PTL DEF SafetySpec
<1>3. KeptInv => ForeignKept
  BY DEF KeptInv
<1> QED
  BY <1>2, <1>3, PTL DEF Spec, SafetySpec

-----------------------------------------------------------------------------
(* Stored credentials, when calls do not overlap. *)

LEMMA IInvInit == Init => IInv
<1> SUFFICES ASSUME Init PROVE IInv
  OBVIOUS
<1>1. TypeOK
  BY TypeOKInit
<1>2. ForeignKept /\ SoleCall /\ IdleHoldsNothing
  BY DEF Init, ForeignKept, SoleCall, IdleHoldsNothing, Busy
<1>3. DoomedOurs /\ ResultLive /\ StoredLive /\ AccountKnown
  BY NothingTyped DEF Init, DoomedOurs, ResultLive, StoredLive, AccountKnown
<1> QED
  BY <1>1, <1>2, <1>3 DEF IInv

\* A call that ends without storing anything gives up what it held.
LEMMA IInvGiveUp ==
  ASSUME IInv, TypeOK', NEW c \in Calls,
         Busy(c), pc[c] # "clean", Return(c),
         live \subseteq live', UNCHANGED <<slots, count, torn>>
  PROVE  IInv'
<1>1. ForeignKept'
  BY DEF IInv, ForeignKept
<1>2. SoleCall' /\ IdleHoldsNothing'
  BY DEF IInv, SoleCall, IdleHoldsNothing, TypeOK, Return, Busy, Nothing
<1>3. DoomedOurs'
  BY DEF IInv, DoomedOurs, TypeOK, Return, Held
<1>4. ResultLive'
  BY NothingTyped DEF IInv, ResultLive, TypeOK, Return
<1>5. StoredLive'
  BY DEF IInv, StoredLive, TypeOK, Return, Replaced, Held
<1>6. AccountKnown'
  <2> SUFFICES ASSUME NEW d \in Calls, pc'[d] = "clean", ~failed'[d]
      PROVE  FALSE
    BY DEF AccountKnown
  <2>1. d # c /\ pc[d] = "clean"
    BY DEF IInv, TypeOK, Return
  <2> QED
    BY <2>1 DEF IInv, SoleCall, Busy
<1> QED
  BY <1>1, <1>2, <1>3, <1>4, <1>5, <1>6 DEF IInv

LEMMA IInvBegin ==
  ASSUME IInv, TypeOK', ~Overlap,
         NEW c \in Calls, NEW t \in Slots \cup {AllSlots}, Begin(c, t)
  PROVE  IInv'
<1>1. \A d \in Calls : ~Busy(d) /\ pc[d] # "clean"
  BY DEF Begin, Busy
<1>2. \A d \in Calls : doomed'[d] = {} /\ pc'[d] # "clean"
  BY <1>1 DEF Begin, IInv, TypeOK, IdleHoldsNothing
<1>3. ForeignKept'
  BY DEF IInv, ForeignKept, Begin
<1>4. SoleCall' /\ IdleHoldsNothing'
  BY <1>1, <1>2 DEF Begin, IInv, SoleCall, IdleHoldsNothing, TypeOK, Busy, Nothing
<1>5. DoomedOurs' /\ AccountKnown'
  BY <1>2 DEF DoomedOurs, AccountKnown
<1>6. StoredLive'
  BY <1>1 DEF Begin, IInv, StoredLive
<1>7. ResultLive'
  <2> SUFFICES ASSUME NEW d \in Calls, NEW s \in Slots
      PROVE  \/ result'[d][s] \in live \cup {NoCert}
             \/ result'[d][s] = slots[s] /\ s \in torn
    BY DEF ResultLive, Begin
  <2>1. CASE d = c
    <3>1. result'[d][s] \in {slots[s], NoCert}
      BY <2>1, CarriedOverIs DEF Begin, IInv, TypeOK
    <3>2. slots[s] \in live \cup {NoCert} \/ s \in torn
      BY <1>1 DEF IInv, StoredLive
    <3> QED
      BY <3>1, <3>2
  <2>2. CASE d # c
    BY <2>2 DEF Begin, IInv, TypeOK, ResultLive
  <2> QED
    BY <2>1, <2>2
<1> QED
  BY <1>3, <1>4, <1>5, <1>6, <1>7 DEF IInv

LEMMA IInvCreate ==
  ASSUME IInv, TypeOK', NEW c \in Calls, Create(c)
  PROVE  IInv'
<1>1. PICK n \in Fresh, s \in todo[c] :
        /\ live' = live \cup {n}
        /\ result' = [result EXCEPT ![c][s] = n]
  BY DEF Create
<1>2. n \in Serials /\ n \notin Held(slots) /\ s \in Slots
  BY FreshIs DEF IInv, TypeOK
<1>3. pc[c] = "create" /\ pc'[c] \in {"create", "list"} /\ doomed[c] = {}
  BY DEF Create, IInv, IdleHoldsNothing, TypeOK
<1>4. \A d \in Calls : d # c => pc'[d] = pc[d] /\ result'[d] = result[d]
  BY <1>1 DEF Create, IInv, TypeOK
<1>5. UNCHANGED <<slots, doomed, failed, torn>>
  BY DEF Create
<1>6. ForeignKept'
  BY <1>1 DEF IInv, ForeignKept
<1>7. SoleCall' /\ IdleHoldsNothing'
  BY <1>3, <1>4, <1>5 DEF IInv, SoleCall, IdleHoldsNothing, Busy, Nothing
<1>8. DoomedOurs'
  <2> SUFFICES ASSUME NEW d \in Calls
      PROVE  doomed[d] \cap (Foreign \cup Held(result'[d])) = {}
    BY <1>5 DEF DoomedOurs
  <2>1. CASE d = c
    BY <2>1, <1>3
  <2>2. CASE d # c
    BY <2>2, <1>4 DEF IInv, DoomedOurs
  <2> QED
    BY <2>1, <2>2
<1>9. ResultLive'
  <2> SUFFICES ASSUME NEW d \in Calls, NEW u \in Slots
      PROVE  \/ result'[d][u] \in live' \cup {NoCert}
             \/ result'[d][u] = slots[u] /\ u \in torn
    BY <1>5 DEF ResultLive
  <2>1. result'[d][u] \in {result[d][u], n}
    BY <1>1, <1>2 DEF IInv, TypeOK, Credentials
  <2> QED
    BY <1>1, <2>1 DEF IInv, ResultLive
<1>10. StoredLive'
  BY <1>1, <1>3, <1>4, <1>5 DEF IInv, StoredLive, Replaced
<1>11. AccountKnown'
  <2> SUFFICES ASSUME NEW d \in Calls, pc'[d] = "clean" PROVE FALSE
    BY DEF AccountKnown
  <2>1. d # c /\ pc[d] = "clean"
    BY <1>3, <1>4
  <2> QED
    BY <2>1, <1>3 DEF IInv, SoleCall, Busy
<1> QED
  BY <1>6, <1>7, <1>8, <1>9, <1>10, <1>11 DEF IInv

LEMMA IInvList ==
  ASSUME IInv, TypeOK', NEW c \in Calls, ListCertificates(c)
  PROVE  IInv'
<1>1. pc[c] = "list" /\ pc'[c] = "clean" /\ doomed'[c] = Stale(c)
  BY DEF ListCertificates, IInv, TypeOK
<1>2. \A d \in Calls : d # c => pc'[d] = pc[d] /\ doomed'[d] = doomed[d]
  BY DEF ListCertificates, IInv, TypeOK
<1>3. UNCHANGED <<live, slots, result, failed, torn>>
  BY DEF ListCertificates
<1>4. ForeignKept' /\ ResultLive'
  BY <1>3 DEF IInv, ForeignKept, ResultLive
<1>5. SoleCall' /\ IdleHoldsNothing'
  BY <1>1, <1>2, <1>3 DEF IInv, SoleCall, IdleHoldsNothing, Busy, Nothing
<1>6. DoomedOurs'
  BY <1>1, <1>2, <1>3 DEF IInv, DoomedOurs, Stale, Keep, Held
<1>7. StoredLive'
  BY <1>1, <1>2, <1>3 DEF IInv, StoredLive, Replaced, Held
<1>8. AccountKnown'
  BY <1>1, <1>2, <1>3 DEF IInv, AccountKnown, Stale, Keep, Held
<1> QED
  BY <1>4, <1>5, <1>6, <1>7, <1>8 DEF IInv

LEMMA IInvDelete ==
  ASSUME IInv, TypeOK', NEW c \in Calls, Delete(c)
  PROVE  IInv'
<1>1. PICK x \in doomed[c] :
        /\ doomed' = [doomed EXCEPT ![c] = @ \ {x}]
        /\ \/ live' = live \ {x} /\ UNCHANGED failed
           \/ /\ live' \in {live, live \ {x}}
              /\ failed' = [failed EXCEPT ![c] = TRUE]
  BY DEF Delete
<1>2. pc[c] = "clean" /\ UNCHANGED <<slots, pc, result, torn>>
  BY DEF Delete
<1>3. x \in Serials /\ x \notin Foreign /\ x \notin Held(result[c])
  BY DEF IInv, TypeOK, DoomedOurs
<1>4. \A d \in Calls : d # c => ~Busy(d) /\ result[d] = Nothing
  BY <1>2 DEF IInv, SoleCall, IdleHoldsNothing, Busy
<1>5. ForeignKept'
  BY <1>1, <1>3 DEF IInv, ForeignKept
<1>6. SoleCall' /\ IdleHoldsNothing'
  BY <1>1, <1>2 DEF IInv, TypeOK, SoleCall, IdleHoldsNothing, Busy, Nothing
<1>7. DoomedOurs'
  BY <1>1, <1>2 DEF IInv, TypeOK, DoomedOurs, Held
<1>8. ResultLive'
  <2> SUFFICES ASSUME NEW d \in Calls, NEW s \in Slots
      PROVE  \/ result[d][s] \in live' \cup {NoCert}
             \/ result[d][s] = slots[s] /\ s \in torn
    BY <1>2 DEF ResultLive
  <2>1. CASE d = c
    <3>1. result[c][s] \in Held(result[c]) \cup {NoCert}
      BY HeldIs DEF IInv, TypeOK
    <3>2. result[c][s] # x
      BY <1>3, <3>1, ConstantsAssumption
    <3> QED
      BY <2>1, <3>2, <1>1 DEF IInv, ResultLive
  <2>2. CASE d # c
    BY <2>2, <1>4, NothingTyped
  <2> QED
    BY <2>1, <2>2
<1>9. StoredLive'
  <2> SUFFICES ASSUME NEW s \in Slots, s \notin torn, slots[s] \notin live' \cup {NoCert}
      PROVE  \E d \in Calls : pc[d] = "clean" /\ s \in Replaced(slots, result[d])
    BY <1>2 DEF StoredLive, Replaced, Held
  <2>1. CASE slots[s] = x
    BY <2>1, <1>2, <1>3 DEF Replaced
  <2>2. CASE slots[s] # x
    BY <2>2, <1>1 DEF IInv, StoredLive
  <2> QED
    BY <2>1, <2>2
<1>10. AccountKnown'
  <2> SUFFICES ASSUME NEW d \in Calls, pc[d] = "clean", ~failed'[d]
      PROVE  live' \ Foreign \subseteq Held(result[d]) \cup doomed'[d]
    BY <1>2 DEF AccountKnown, Held
  <2>1. d = c
    BY <1>2 DEF IInv, SoleCall, Busy
  <2>2. live' = live \ {x} /\ ~failed[c] /\ doomed'[c] = doomed[c] \ {x}
    BY <1>1, <2>1 DEF IInv, TypeOK
  <2> QED
    BY <1>2, <2>1, <2>2 DEF IInv, AccountKnown
<1> QED
  BY <1>5, <1>6, <1>7, <1>8, <1>9, <1>10 DEF IInv

LEMMA IInvStore ==
  ASSUME IInv, TypeOK', NEW c \in Calls, Store(c)
  PROVE  IInv'
<1>1. /\ pc[c] = "clean" /\ doomed[c] = {} /\ Return(c)
      /\ slots' = result[c] /\ UNCHANGED live
      /\ torn' = {s \in torn : result[c][s] = slots[s]}
  BY DEF Store
<1>2. \A d \in Calls : pc'[d] = "idle" /\ result'[d] = Nothing /\ doomed'[d] = {}
  BY <1>1 DEF IInv, SoleCall, IdleHoldsNothing, Busy, TypeOK, Return
<1>3. ForeignKept'
  BY <1>1 DEF IInv, ForeignKept
<1>4. SoleCall' /\ IdleHoldsNothing' /\ DoomedOurs' /\ AccountKnown'
  BY <1>2 DEF SoleCall, IdleHoldsNothing, DoomedOurs, AccountKnown, Busy, Nothing
<1>5. ResultLive'
  BY <1>2, NothingTyped DEF ResultLive
<1>6. StoredLive'
  BY <1>1 DEF IInv, StoredLive, ResultLive
<1> QED
  BY <1>3, <1>4, <1>5, <1>6 DEF IInv

LEMMA IInvCrash ==
  ASSUME IInv, TypeOK', Crash
  PROVE  IInv'
<1>1. \A d \in Calls : pc'[d] = "idle" /\ result'[d] = Nothing /\ doomed'[d] = {}
  BY DEF Crash
<1>2. torn \subseteq torn' /\ UNCHANGED <<live, slots>>
  BY DEF Crash
<1>3. ForeignKept'
  BY <1>2 DEF IInv, ForeignKept
<1>4. SoleCall' /\ IdleHoldsNothing' /\ DoomedOurs' /\ AccountKnown'
  BY <1>1 DEF SoleCall, IdleHoldsNothing, DoomedOurs, AccountKnown, Busy, Nothing, Held
<1>5. ResultLive'
  BY <1>1, NothingTyped DEF ResultLive
<1>6. StoredLive'
  BY <1>2 DEF IInv, StoredLive, Crash
<1> QED
  BY <1>3, <1>4, <1>5, <1>6 DEF IInv

LEMMA IInvNext == ~Overlap /\ IInv /\ [Next]_vars => IInv'
<1> SUFFICES ASSUME ~Overlap, IInv, [Next]_vars PROVE IInv'
  OBVIOUS
<1>1. TypeOK'
  BY TypeOKNext DEF IInv
<1>2. CASE UNCHANGED vars
  BY <1>1, <1>2 DEF IInv, ForeignKept, SoleCall, IdleHoldsNothing, DoomedOurs,
    ResultLive, StoredLive, AccountKnown, Busy, Nothing, Replaced, Held, vars, callVars
<1>3. ASSUME NEW c \in Calls, NEW t \in Slots \cup {AllSlots}, Begin(c, t)
      PROVE  IInv'
  BY <1>1, <1>3, IInvBegin
<1>4. ASSUME NEW c \in Calls, Step(c) PROVE IInv'
  <2>1. CASE SelectServers(c)
    <3>1. /\ pc[c] = "select" /\ pc' = [pc EXCEPT ![c] = "create"]
          /\ UNCHANGED <<live, slots, result, doomed, failed, torn>>
      BY <2>1 DEF SelectServers
    <3>2. SoleCall' /\ IdleHoldsNothing'
      BY <3>1 DEF IInv, TypeOK, SoleCall, IdleHoldsNothing, Busy, Nothing
    <3>3. StoredLive' /\ AccountKnown'
      BY <3>1 DEF IInv, TypeOK, StoredLive, AccountKnown, Replaced, Held
    <3> QED
      BY <1>1, <3>1, <3>2, <3>3 DEF IInv, ForeignKept, DoomedOurs, ResultLive, Held
  <2>2. CASE Create(c)
    BY <1>1, <2>2, IInvCreate
  <2>3. CASE CreateRefused(c) \/ CreateLost(c) \/ Raise(c)
    <3>1. /\ Busy(c) /\ pc[c] # "clean" /\ Return(c)
          /\ live \subseteq live' /\ UNCHANGED <<slots, count, torn>>
      BY <2>3 DEF CreateRefused, CreateLost, Raise, Busy
    <3> QED
      BY <1>1, <3>1, IInvGiveUp
  <2>4. CASE ListCertificates(c)
    BY <1>1, <2>4, IInvList
  <2>5. CASE Delete(c)
    BY <1>1, <2>5, IInvDelete
  <2>6. CASE Store(c)
    BY <1>1, <2>6, IInvStore
  <2> QED
    BY <1>4, <2>1, <2>2, <2>3, <2>4, <2>5, <2>6 DEF Step
<1>5. ASSUME NEW n \in Slots, SetTunnelCount(n) PROVE IInv'
  BY <1>1, <1>5 DEF SetTunnelCount, IInv, ForeignKept, SoleCall, IdleHoldsNothing,
    DoomedOurs, ResultLive, StoredLive, AccountKnown, Busy, Nothing, Replaced, Held,
    callVars
<1>6. CASE Crash
  BY <1>1, <1>6, IInvCrash
<1> QED
  BY <1>2, <1>3, <1>4, <1>5, <1>6 DEF Next

LEMMA IInvAlways ==
  ASSUME ~Overlap
  PROVE  Spec => []IInv
<1>1. IInv /\ [Next]_vars => IInv'
  BY IInvNext
<1>2. SafetySpec => []IInv
  BY <1>1, IInvInit, PTL DEF SafetySpec
<1> QED
  BY <1>2, PTL DEF Spec, SafetySpec

\* While calls do not overlap, a stored credential stays accepted by Proton
\* until a call that has its replacement is deleting it, or a crash cut such
\* a call short.
THEOREM StoredCredentialsLive ==
  ASSUME ~Overlap
  PROVE  Spec => []StoredLive
<1>1. IInv => StoredLive
  BY DEF IInv
<1> QED
  BY <1>1, IInvAlways, PTL

\* While calls do not overlap, a call whose deletions all succeeded leaves
\* none of our certificates on the account but the stored ones.
THEOREM CleanupIsComplete ==
  ASSUME ~Overlap
  PROVE  Spec => CleanupComplete
<1>1. IInv /\ [Next]_vars
        => [\A c \in Calls :
             Store(c) /\ ~failed[c] => live' \ Foreign \subseteq Held(slots')]_vars
  <2> SUFFICES ASSUME IInv, NEW c \in Calls, Store(c), ~failed[c]
      PROVE  live' \ Foreign \subseteq Held(slots')
    OBVIOUS
  <2> QED
    BY DEF Store, IInv, AccountKnown, Held
<1>2. Spec => [][Next]_vars
  BY PTL DEF Spec
<1> QED
  BY <1>1, <1>2, IInvAlways, PTL DEF CleanupComplete

-----------------------------------------------------------------------------
(***************************************************************************)
(* Provisioning implements SlotStore, whatever overlaps.                   *)
(***************************************************************************)

\* A call in flight has something to renew and, for each slot of that, the
\* certificate or yet to create it; an idle one holds nothing.
Progress(c) ==
  /\ ~Busy(c) => target[c] = AllSlots /\ todo[c] = {} /\ result[c] = Nothing
  /\ Busy(c) => Asked(c).wanted # {}
  /\ pc[c] \in {"list", "clean"} => todo[c] = {}
  /\ \A s \in todo[c] : result[c][s] = NoCert
  /\ target[c] # AllSlots => todo[c] = IF result[c][target[c]] = NoCert THEN {target[c]} ELSE {}

StoreInv ==
  /\ TypeOK
  /\ NewAlone
  /\ \A c \in Calls : Progress(c)

Asking == [c \in Calls |-> Asked(c)]
NotAsking == [wanted |-> {}, kept |-> Nothing]

\* The actions of SlotStore in terms of these.
LEMMA AbstractIs ==
  /\ Abstract!Configure <=> Asking' = Asking /\ slots' = slots /\ count' \in Slots
  /\ Abstract!Crash <=> Asking' = [c \in Calls |-> NotAsking] /\ slots' = slots /\ count' = count
  /\ \A c : Abstract!Begin(c) <=>
       /\ Asking[c] = NotAsking
       /\ slots' = slots /\ count' = count
       /\ \E t \in 0 .. count : Asking' = [Asking EXCEPT ![c] = Abstract!Reading(t, slots)]
  /\ \A c : Abstract!Fail(c) <=>
       /\ Asking[c] # NotAsking
       /\ Asking' = [Asking EXCEPT ![c] = NotAsking]
       /\ slots' = slots /\ count' = count
  BY DEF Asking, NotAsking, Nothing, Slots, Abstract!Configure, Abstract!Crash, Abstract!Begin,
         Abstract!Fail, Abstract!Free, Abstract!Nothing, Abstract!Slots

LEMMA ReadingIs ==
  ASSUME TypeOK, NEW t \in Slots \cup {AllSlots}
  PROVE  Abstract!Reading(t, slots) = [wanted |-> SlotsToProvision(t), kept |-> CarriedOver(t)]
<1>1. Abstract!Slots = Slots /\ Abstract!AllSlots = AllSlots
  BY DEF Abstract!Slots, Abstract!AllSlots, Slots, AllSlots
<1>2. \A s \in Slots : s \in Nat /\ count \in Nat /\ (s > count <=> ~ (s <= count))
  BY SlotsTyped DEF TypeOK
<1>3. [s \in Slots |-> IF t \in {AllSlots, s} \/ s > count THEN NoCert ELSE slots[s]] = CarriedOver(t)
  BY <1>2 DEF CarriedOver
<1> QED BY <1>1, <1>3 DEF Abstract!Reading, SlotsToProvision

LEMMA AbstractStoreIs ==
  ASSUME NEW c, Asking[c] # NotAsking, Asking' = [Asking EXCEPT ![c] = NotAsking], count' = count,
         NEW new \in [Asking[c].wanted -> Serials],
         \A r, s \in Asking[c].wanted : new[r] = new[s] => r = s,
         \A s \in Asking[c].wanted : /\ new[s] \notin Held(slots)
                                     /\ \A d \in Calls : new[s] \notin Held(Asking[d].kept),
         slots' = [s \in Slots |-> IF s \in Asking[c].wanted THEN new[s] ELSE Asking[c].kept[s]]
  PROVE  Abstract!Store(c)
<1>1. NotAsking = Abstract!Free
  BY DEF NotAsking, Nothing, Slots, Abstract!Free, Abstract!Nothing, Abstract!Slots
<1>2. \A s \in Asking[c].wanted : new[s] \notin Abstract!InUse
  BY DEF Abstract!InUse, Abstract!Held, Abstract!Slots, Held, Slots, Asking
<1>3. Abstract!Renewed(c, new)
  BY <1>2 DEF Abstract!Renewed, Abstract!Slots, Slots, Asking
<1> QED BY <1>1, <1>3 DEF Abstract!Store, Asking

\* What a call asks for is a matter of its own locals.
LEMMA AskedAgain ==
  ASSUME NEW c, pc'[c] = pc[c], target'[c] = target[c], todo'[c] = todo[c], result'[c] = result[c]
  PROVE  /\ Asked(c)' = Asked(c)
         /\ Progress(c) => Progress(c)'
  BY DEF Asked, Progress, Busy, Renews

\* A call is over.
LEMMA ReturnIs ==
  ASSUME TypeOK, NEW c \in Calls, Return(c)
  PROVE  /\ Asked(c)' = NotAsking /\ Progress(c)'
         /\ result'[c] = Nothing
         /\ \A d \in Calls : d # c =>
              /\ pc'[d] = pc[d] /\ target'[d] = target[d] /\ todo'[d] = todo[d]
              /\ result'[d] = result[d]
<1>1. pc'[c] = "idle" /\ target'[c] = AllSlots /\ todo'[c] = {} /\ result'[c] = Nothing
  BY DEF Return, TypeOK
<1>2. Asked(c)' = NotAsking
  BY <1>1 DEF Asked, NotAsking, Renews, Busy, AllSlots, Nothing
<1>3. Progress(c)'
  BY <1>1, <1>2 DEF Progress, Busy
<1> QED BY <1>1, <1>2, <1>3 DEF Return, TypeOK

\* ... without a word on the entry.
LEMMA GivesUp ==
  ASSUME StoreInv, TypeOK', NEW c \in Calls, Busy(c), Return(c), UNCHANGED <<slots, count>>
  PROVE  StoreInv' /\ Abstract!Fail(c)
<1>0. TypeOK /\ Progress(c) /\ Return(c)
  BY DEF StoreInv
<1>1. /\ Asked(c)' = NotAsking /\ Progress(c)' /\ result'[c] = Nothing
      /\ \A d \in Calls : d # c => /\ pc'[d] = pc[d] /\ target'[d] = target[d] /\ todo'[d] = todo[d]
                                   /\ result'[d] = result[d]
  BY <1>0, ReturnIs
<1>2. \A d \in Calls : Progress(d)' /\ (d # c => Asked(d)' = Asked(d))
  BY <1>1, AskedAgain DEF StoreInv
<1>3. NewAlone'
  BY <1>1, NothingTyped DEF StoreInv, NewAlone, Renews
<1>4. Asking[c] # NotAsking
  BY <1>0 DEF Asking, NotAsking, Progress
<1>5. Asking' = [Asking EXCEPT ![c] = NotAsking]
  BY <1>1, <1>2 DEF Asking
<1> QED BY <1>2, <1>3, <1>4, <1>5, AbstractIs DEF StoreInv

LEMMA StoreInvInit == Init => StoreInv /\ Abstract!Init
<1> SUFFICES ASSUME Init PROVE StoreInv /\ Abstract!Init
  OBVIOUS
<1>1. \A c \in Calls : ~Busy(c) /\ target[c] = AllSlots /\ todo[c] = {} /\ result[c] = Nothing
  BY DEF Init, Busy
<1>2. \A c \in Calls : Asked(c) = NotAsking /\ Progress(c)
  BY <1>1 DEF Asked, NotAsking, Renews, AllSlots, Nothing, Progress
<1>3. NewAlone
  BY <1>1, NothingTyped DEF NewAlone
<1>4. slots = [Nothing EXCEPT ![1] = NoCert]
  BY DEF Init, Nothing
<1>5. Abstract!Init
  BY <1>2, <1>4 DEF Init, Abstract!Init, Abstract!Free, Abstract!Nothing, Abstract!Slots, Slots, Nothing,
                    NotAsking
<1> QED BY <1>2, <1>3, <1>5, TypeOKInit DEF StoreInv

LEMMA StoreBegins ==
  ASSUME StoreInv, TypeOK', NEW c \in Calls, NEW t \in Slots \cup {AllSlots}, Begin(c, t)
  PROVE  StoreInv' /\ Abstract!Begin(c)
<1>0. TypeOK /\ Progress(c) /\ ~Busy(c) /\ t \in 0 .. count
  BY SlotsTyped DEF StoreInv, Begin, TypeOK, AllSlots
<1>1. /\ pc'[c] = "select" /\ target'[c] = t /\ todo'[c] = SlotsToProvision(t)
      /\ result'[c] = CarriedOver(t) /\ UNCHANGED <<slots, count>>
      /\ \A d \in Calls : d # c => /\ pc'[d] = pc[d] /\ target'[d] = target[d] /\ todo'[d] = todo[d]
                                   /\ result'[d] = result[d]
  BY <1>0 DEF Begin, TypeOK
<1>2. \A d \in Calls : d # c => Progress(d)' /\ Asked(d)' = Asked(d)
  BY <1>1, AskedAgain DEF StoreInv
<1>3. /\ \A s \in Slots : CarriedOver(t)[s] \in {slots[s], NoCert}
      /\ \A s \in Slots : t \in {AllSlots, s} => CarriedOver(t)[s] = NoCert
      /\ CarriedOver(t) \in Credentials
  BY <1>0, CarriedOverIs DEF TypeOK, CarriedOver
<1>4. Asked(c)' = [wanted |-> SlotsToProvision(t), kept |-> CarriedOver(t)]
  <2>1. {s \in Slots : t = AllSlots /\ CarriedOver(t)[s] # NoCert} = {}
    BY <1>3
  <2>2. Busy(c)'
    BY <1>1 DEF Busy
  <2>3. Asked(c)'.wanted = SlotsToProvision(t)
    BY <1>1, <2>1, <2>2 DEF Asked, SlotsToProvision
  <2>4. Asked(c)'.kept = CarriedOver(t)
    BY <1>1, <1>3 DEF Asked, Renews, Credentials
  <2> QED BY <2>3, <2>4 DEF Asked
<1>5. Progress(c)'
  <2>1. SlotsToProvision(t) # {} /\ SlotsToProvision(t) \subseteq Slots
    BY <1>0, SlotsTyped DEF SlotsToProvision, TypeOK, Slots, AllSlots
  <2>2. \A s \in SlotsToProvision(t) : CarriedOver(t)[s] = NoCert
    BY <1>3, <2>1 DEF SlotsToProvision
  <2>3. t # AllSlots => SlotsToProvision(t) = {t}
    BY DEF SlotsToProvision
  <2> QED BY <1>1, <1>4, <2>1, <2>2, <2>3 DEF Progress, Busy
<1>6. NewAlone'
  <2> SUFFICES ASSUME NEW d \in Calls, NEW s \in Slots, Renews(d, s)', result'[d][s] # NoCert
               PROVE  /\ result'[d][s] \notin Held(slots)'
                      /\ \A e \in Calls, r \in Slots : result'[e][r] = result'[d][s] => e = d /\ r = s
    BY DEF NewAlone
  <2>1. d # c
    BY <1>1, <1>3 DEF Renews
  <2>2. Renews(d, s) /\ result'[d][s] = result[d][s]
    BY <1>1, <2>1 DEF Renews
  <2>3. result[d][s] \notin Held(slots)
    BY <2>2 DEF StoreInv, NewAlone
  <2>4. \A r \in Slots : result'[c][r] # result[d][s]
    BY <1>1, <1>3, <2>2, <2>3 DEF Held
  <2> QED BY <1>1, <2>2, <2>3, <2>4 DEF StoreInv, NewAlone
<1>7. Asking[c] = NotAsking
  BY <1>0 DEF Asking, NotAsking, Asked, Progress, Renews, AllSlots, Nothing
<1>8. Asking' = [Asking EXCEPT ![c] = Abstract!Reading(t, slots)]
  BY <1>0, <1>2, <1>4, ReadingIs DEF Asking
<1> QED BY <1>0, <1>1, <1>2, <1>5, <1>6, <1>7, <1>8, AbstractIs DEF StoreInv

\* A certificate created is nobody's, and what the call asks for stands.
LEMMA StoreCreates ==
  ASSUME StoreInv, TypeOK', NEW c \in Calls, Create(c)
  PROVE  StoreInv' /\ Asking' = Asking
<1>1. PICK n \in Fresh, s \in todo[c] :
        /\ result' = [result EXCEPT ![c][s] = n]
        /\ todo' = [todo EXCEPT ![c] = @ \ {s}]
  BY DEF Create
<1>2. /\ n \in Serials /\ n # NoCert /\ n \notin Held(slots) /\ s \in Slots
      /\ \A d \in Calls, r \in Slots : result[d][r] # n
  BY FreshIs, ConstantsAssumption DEF StoreInv, TypeOK, Held
<1>3. /\ pc[c] = "create" /\ pc'[c] \in {"create", "list"}
      /\ pc'[c] = "list" => todo'[c] = {}
      /\ target' = target /\ slots' = slots
      /\ todo'[c] = todo[c] \ {s} /\ todo[c] \subseteq Slots
      /\ result[c] \in Credentials /\ result'[c] = [result[c] EXCEPT ![s] = n]
  BY <1>1 DEF Create, StoreInv, TypeOK
<1>4. \A d \in Calls : d # c => /\ pc'[d] = pc[d] /\ target'[d] = target[d] /\ todo'[d] = todo[d]
                                /\ result'[d] = result[d]
  BY <1>1 DEF Create, StoreInv, TypeOK
<1>5. Progress(c) /\ Busy(c) /\ Busy(c)'
  BY <1>3 DEF StoreInv, Busy
<1>6. target[c] = AllSlots \/ (target[c] = s /\ todo'[c] = {})
  BY <1>1, <1>3, <1>5 DEF Progress
<1>7. \A r \in Slots : result'[c][r] = IF r = s THEN n ELSE result[c][r]
  BY <1>2, <1>3 DEF Credentials
<1>8. Renews(c, s) /\ \A r \in Slots : Renews(c, r)' = Renews(c, r)
  BY <1>3, <1>6 DEF Renews
<1>9. Asked(c)' = Asked(c)
  <2>1. [r \in Slots |-> IF Renews(c, r)' THEN NoCert ELSE result'[c][r]]
          = [r \in Slots |-> IF Renews(c, r) THEN NoCert ELSE result[c][r]]
    BY <1>7, <1>8
  <2>2. todo'[c] \cup {r \in Slots : result'[c][r] # NoCert}
          = todo[c] \cup {r \in Slots : result[c][r] # NoCert}
    BY <1>1, <1>2, <1>3, <1>7
  <2> QED BY <1>3, <1>5, <2>1, <2>2 DEF Asked
<1>10. Progress(c)'
  <2>1. \A r \in todo'[c] : result'[c][r] = NoCert
    BY <1>3, <1>5, <1>7 DEF Progress
  <2>2. target'[c] # AllSlots => todo'[c] = IF result'[c][target'[c]] = NoCert THEN {target'[c]} ELSE {}
    BY <1>2, <1>3, <1>6, <1>7
  <2> QED BY <1>3, <1>5, <1>9, <2>1, <2>2 DEF Progress
<1>11. NewAlone'
  <2> SUFFICES ASSUME NEW d \in Calls, NEW q \in Slots, Renews(d, q)', result'[d][q] # NoCert
               PROVE  /\ result'[d][q] \notin Held(slots)
                      /\ \A e \in Calls, r \in Slots : result'[e][r] = result'[d][q] => e = d /\ r = q
    BY <1>3 DEF NewAlone, Held
  <2>1. CASE d = c /\ q = s
    BY <2>1, <1>2, <1>4, <1>7
  <2>2. CASE d # c \/ q # s
    <3>1. Renews(d, q) /\ result'[d][q] = result[d][q]
      BY <2>2, <1>3, <1>4, <1>7 DEF Renews
    <3>2. /\ result[d][q] \notin Held(slots)
          /\ \A e \in Calls, r \in Slots : result[e][r] = result[d][q] => e = d /\ r = q
      BY <3>1 DEF StoreInv, NewAlone
    <3> QED BY <3>1, <3>2, <1>2, <1>4, <1>7
  <2> QED BY <2>1, <2>2
<1>12. \A d \in Calls : Progress(d)' /\ Asked(d)' = Asked(d)
  BY <1>4, <1>9, <1>10, AskedAgain DEF StoreInv
<1> QED BY <1>11, <1>12 DEF StoreInv, Asking

\* What is stored is what was asked for, new throughout.
LEMMA StoreStores ==
  ASSUME StoreInv, TypeOK', NEW c \in Calls, Store(c)
  PROVE  StoreInv' /\ Abstract!Store(c)
<1>0. TypeOK /\ Progress(c) /\ Return(c) /\ NewAlone /\ Busy(c) /\ todo[c] = {}
      /\ slots' = result[c] /\ count' = count /\ result[c] \in Credentials
  BY DEF StoreInv, Store, Progress, Busy, TypeOK
<1>1. /\ Asked(c)' = NotAsking /\ Progress(c)' /\ result'[c] = Nothing
      /\ \A d \in Calls : d # c => /\ pc'[d] = pc[d] /\ target'[d] = target[d] /\ todo'[d] = todo[d]
                                   /\ result'[d] = result[d]
  BY <1>0, ReturnIs
<1>2. \A d \in Calls : Progress(d)' /\ (d # c => Asked(d)' = Asked(d))
  BY <1>1, AskedAgain DEF StoreInv
<1>3. Asking' = [Asking EXCEPT ![c] = NotAsking]
  BY <1>1, <1>2 DEF Asking
<1>4. NewAlone'
  <2> SUFFICES ASSUME NEW d \in Calls, NEW s \in Slots, Renews(d, s)', result'[d][s] # NoCert
               PROVE  /\ result'[d][s] \notin Held(result[c])
                      /\ \A e \in Calls, r \in Slots : result'[e][r] = result'[d][s] => e = d /\ r = s
    BY <1>0 DEF NewAlone, Held
  <2>1. d # c
    BY <1>1, NothingTyped
  <2>2. Renews(d, s) /\ result'[d][s] = result[d][s]
    BY <1>1, <2>1 DEF Renews
  <2>3. \A e \in Calls, r \in Slots : result[e][r] = result[d][s] => e = d /\ r = s
    BY <1>0, <2>2 DEF NewAlone
  <2>4. result[d][s] \notin Held(result[c])
    BY <2>1, <2>3 DEF Held
  <2> QED BY <1>1, <2>2, <2>3, <2>4, NothingTyped
<1>5. /\ Asked(c).wanted \subseteq Slots /\ Asked(c).wanted # {}
      /\ \A s \in Slots : s \in Asked(c).wanted <=> (Renews(c, s) /\ result[c][s] # NoCert)
      /\ \A s \in Slots : Asked(c).kept[s] = IF Renews(c, s) THEN NoCert ELSE result[c][s]
  <2>1. Asked(c).wanted # {}
    BY <1>0 DEF Progress
  <2>2. \A s \in Slots : Asked(c).kept[s] = IF Renews(c, s) THEN NoCert ELSE result[c][s]
    BY DEF Asked
  <2>3. CASE target[c] = AllSlots
    BY <1>0, <2>1, <2>2, <2>3 DEF Asked, Renews
  <2>4. CASE target[c] # AllSlots
    <3>1. result[c][target[c]] # NoCert /\ target[c] \in Slots
      BY <1>0, <2>4 DEF Progress, TypeOK
    <3>2. Asked(c).wanted = {target[c]}
      BY <1>0, <2>4 DEF Asked
    <3> QED BY <2>2, <2>4, <3>1, <3>2 DEF Renews
  <2> QED BY <2>3, <2>4
<1>6. \A s \in Asked(c).wanted :
        /\ result[c][s] \in Serials /\ result[c][s] \notin Held(slots)
        /\ \A d \in Calls, r \in Slots : result[d][r] = result[c][s] => d = c /\ r = s
  BY <1>0, <1>5 DEF NewAlone, Credentials
<1>7. PICK new : new = [s \in Asked(c).wanted |-> result[c][s]]
  OBVIOUS
<1>8. Asking[c] = Asked(c) /\ Asking[c] # NotAsking
  BY <1>5 DEF Asking, NotAsking
<1>9. \A s \in Asked(c).wanted, d \in Calls : new[s] \notin Held(Asking[d].kept)
  <2> SUFFICES ASSUME NEW s \in Asked(c).wanted, NEW d \in Calls, NEW r \in Slots,
                      Asking[d].kept[r] = result[c][s], result[c][s] # NoCert
               PROVE  FALSE
    BY <1>7 DEF Held
  <2>1. ~Renews(d, r) /\ result[d][r] = result[c][s]
    BY DEF Asking, Asked
  <2> QED BY <1>5, <1>6, <2>1
<1>10. slots' = [s \in Slots |-> IF s \in Asked(c).wanted THEN new[s] ELSE Asked(c).kept[s]]
  BY <1>0, <1>5, <1>7 DEF Credentials
<1>11. Abstract!Store(c)
  <2>1. new \in [Asking[c].wanted -> Serials]
    BY <1>6, <1>7, <1>8
  <2>2. \A r, s \in Asking[c].wanted : new[r] = new[s] => r = s
    BY <1>5, <1>6, <1>7, <1>8
  <2>3. \A s \in Asking[c].wanted : /\ new[s] \notin Held(slots)
                                   /\ \A d \in Calls : new[s] \notin Held(Asking[d].kept)
    BY <1>6, <1>7, <1>8, <1>9
  <2>4. slots' = [s \in Slots |-> IF s \in Asking[c].wanted THEN new[s] ELSE Asking[c].kept[s]]
    BY <1>8, <1>10
  <2> QED BY <1>0, <1>3, <1>8, <2>1, <2>2, <2>3, <2>4, AbstractStoreIs
<1> QED BY <1>1, <1>2, <1>4, <1>11 DEF StoreInv

\* Steps that the entry and the locals concerned do not show.
LEMMA StoreStutters ==
  ASSUME StoreInv, TypeOK', UNCHANGED <<slots, target, todo, result>>,
         \A c \in Calls : /\ Busy(c)' = Busy(c)
                          /\ pc'[c] \in {"list", "clean"} => pc[c] \in {"list", "clean"}
  PROVE  StoreInv' /\ Asking' = Asking /\ slots' = slots
<1>1. \A c \in Calls : Asked(c)' = Asked(c)
  BY DEF Asked, Renews
<1>2. \A c \in Calls : Progress(c)'
  BY <1>1 DEF StoreInv, Progress
<1>3. NewAlone'
  BY DEF StoreInv, NewAlone, Renews, Held
<1> QED BY <1>1, <1>2, <1>3 DEF StoreInv, Asking

LEMMA StoreInvStep ==
  ASSUME StoreInv, NEW c \in Calls, Step(c)
  PROVE  StoreInv' /\ Abstract!Next
<1>0. TypeOK /\ TypeOK' /\ count \in Slots /\ Abstract!Slots = Slots
  BY TypeOKNext DEF StoreInv, Next, TypeOK, Abstract!Slots, Slots
<1>1. CASE SelectServers(c) \/ ListCertificates(c) \/ Delete(c)
  <2>1. /\ UNCHANGED <<slots, count, target, todo, result>>
        /\ \A d \in Calls : /\ Busy(d)' = Busy(d)
                            /\ pc'[d] \in {"list", "clean"} => pc[d] \in {"list", "clean"}
    BY <1>0, <1>1 DEF SelectServers, ListCertificates, Delete, TypeOK, Busy
  <2>2. StoreInv' /\ Asking' = Asking /\ slots' = slots
    BY <1>0, <2>1, StoreStutters
  <2> QED BY <1>0, <2>1, <2>2, AbstractIs DEF Abstract!Next
<1>2. CASE Create(c)
  <2>1. slots' = slots /\ count' = count
    BY <1>2 DEF Create
  <2> QED BY <1>0, <1>2, <2>1, StoreCreates, AbstractIs DEF Abstract!Next
<1>3. CASE CreateRefused(c) \/ CreateLost(c) \/ Raise(c)
  <2>1. Busy(c) /\ Return(c) /\ UNCHANGED <<slots, count>>
    BY <1>3 DEF CreateRefused, CreateLost, Raise, Busy
  <2> QED BY <1>0, <2>1, GivesUp DEF Abstract!Next
<1>4. CASE Store(c)
  BY <1>0, <1>4, StoreStores DEF Abstract!Next
<1> QED BY <1>1, <1>2, <1>3, <1>4 DEF Step

LEMMA StoreInvNext == StoreInv /\ [Next]_vars => StoreInv' /\ [Abstract!Next]_(Abstract!vars)
<1> SUFFICES ASSUME StoreInv, [Next]_vars PROVE StoreInv' /\ [Abstract!Next]_(Abstract!vars)
  OBVIOUS
<1>0. TypeOK /\ TypeOK' /\ Abstract!Slots = Slots
  BY TypeOKNext DEF StoreInv, Abstract!Slots, Slots
<1>1. CASE UNCHANGED vars
  <2>1. /\ UNCHANGED <<slots, count, target, todo, result>>
        /\ \A c \in Calls : Busy(c)' = Busy(c) /\ pc'[c] = pc[c]
    BY <1>1 DEF vars, callVars, Busy
  <2> QED BY <1>0, <2>1, StoreStutters DEF Abstract!vars, Asking
<1>2. ASSUME NEW c \in Calls, NEW t \in Slots \cup {AllSlots}, Begin(c, t)
      PROVE  StoreInv' /\ Abstract!Next
  BY <1>0, <1>2, StoreBegins DEF Abstract!Next
<1>3. ASSUME NEW c \in Calls, Step(c) PROVE StoreInv' /\ Abstract!Next
  BY <1>3, StoreInvStep
<1>4. ASSUME NEW n \in Slots, SetTunnelCount(n) PROVE StoreInv' /\ Abstract!Next
  <2>1. /\ UNCHANGED <<slots, target, todo, result>> /\ count' \in Slots
        /\ \A c \in Calls : Busy(c)' = Busy(c) /\ pc'[c] = pc[c]
    BY <1>4 DEF SetTunnelCount, callVars, Busy
  <2> QED BY <1>0, <2>1, StoreStutters, AbstractIs DEF Abstract!Next
<1>5. CASE Crash
  <2>1. \A c \in Calls : pc'[c] = "idle" /\ target'[c] = AllSlots /\ todo'[c] = {} /\ result'[c] = Nothing
    BY <1>5 DEF Crash
  <2>2. slots' = slots /\ count' = count
    BY <1>5 DEF Crash
  <2>3. \A c \in Calls : Asked(c)' = NotAsking
    BY <2>1 DEF Asked, NotAsking, Renews, Busy, AllSlots, Nothing
  <2>4. \A c \in Calls : Progress(c)'
    BY <2>1, <2>3 DEF Progress, Busy
  <2>5. NewAlone'
    BY <2>1, NothingTyped DEF NewAlone
  <2> QED BY <1>0, <2>2, <2>3, <2>4, <2>5, AbstractIs DEF StoreInv, Abstract!Next, Asking
<1> QED BY <1>1, <1>2, <1>3, <1>4, <1>5 DEF Next

\* Whatever overlaps, fails or is cut off: a call stores all it was asked
\* for in one write, with certificates nobody else stores or keeps, next to
\* what it read of the other active slots; or it changes nothing.
THEOREM ImplementsStore == Spec => ImplementsSlotStore
<1>1. SafetySpec => [][Abstract!Next]_(Abstract!vars)
  BY StoreInvInit, StoreInvNext, PTL DEF SafetySpec
<1>2. SafetySpec => Abstract!Init
  BY StoreInvInit, PTL DEF SafetySpec
<1> QED BY <1>1, <1>2, PTL DEF Spec, SafetySpec, ImplementsSlotStore, Abstract!Safety

\* ... and so no certificate is in two hands.
THEOREM CertificatesAlone == Spec => []NewAlone
<1>1. StoreInv => NewAlone
  BY DEF StoreInv
<1>2. StoreInv /\ [Next]_vars => StoreInv'
  BY StoreInvNext
<1>3. SafetySpec => []NewAlone
  BY StoreInvInit, <1>1, <1>2, PTL DEF SafetySpec
<1> QED BY <1>3, PTL DEF Spec, SafetySpec
=============================================================================
