---------------------------- MODULE Provisioning ----------------------------
(***************************************************************************)
(* Provisioning of WireGuard certificates on a Proton account              *)
(* (wg_credentials.py) by the session manager (session_manager.py), which  *)
(* keeps the resulting credential of every tunnel slot on the config       *)
(* entry.                                                                  *)
(*                                                                         *)
(* async_provision_wireguard reads the entry on the event loop, runs       *)
(* provision_wireguard_slots on an executor thread (one HTTP request after *)
(* the other against the account) and writes the entry back on the event   *)
(* loop.  Nothing serialises two calls: the service, and the staggered     *)
(* refresh job, may be in flight together.  Each request is an action, so  *)
(* that calls, a change of the tunnel count and a crash of Home Assistant  *)
(* interleave between any two of them.                                     *)
(*                                                                         *)
(* A certificate is its serial number, a member of Serials.  A serial that *)
(* neither the account, the entry nor a call refers to any more may be     *)
(* issued again: this renames values nobody can compare with and keeps     *)
(* the model finite for any number of calls.                               *)
(***************************************************************************)
EXTENDS Naturals, FiniteSets

CONSTANTS
  MaxSlots,   \* MAX_TUNNEL_COUNT
  Calls,      \* calls of async_provision_wireguard that can be in flight
  Serials,    \* certificate serial numbers
  Foreign,    \* serials of certificates whose device name is not ours
  Cap,        \* how many certificates the account accepts
  NoCert,     \* the slot holds no credential
  Overlap,    \* may a call begin while another is in flight?
  Crashes     \* may Home Assistant stop at any moment?

Slots == 1 .. MaxSlots
AllSlots == 0   \* the call's slot argument is None: provision every tunnel

ASSUME ConstantsAssumption ==
  /\ MaxSlots \in Nat \ {0}
  /\ Cap \in Nat
  /\ IsFiniteSet(Serials)
  /\ Foreign \subseteq Serials
  /\ NoCert \notin Serials
  /\ Overlap \in BOOLEAN
  /\ Crashes \in BOOLEAN

Credentials == [Slots -> Serials \cup {NoCert}]

VARIABLES
  live,      \* serials the Proton account accepts
  slots,     \* wg_slots on the config entry
  count,     \* tunnel_count option
  pc,        \* pc[c]: what call c does next
  target,    \* target[c]: slot argument of call c
  todo,      \* todo[c]: slots call c has yet to create a certificate for
  result,    \* result[c]: the credentials call c will store
  doomed,    \* doomed[c]: listed certificates call c has yet to delete
  failed,    \* failed[c]: did Proton refuse one of the deletions of c?
  torn       \* history: slots whose replacement a crash cut short

callVars == <<pc, target, todo, result, doomed, failed>>
vars == <<live, slots, count, callVars, torn>>

Held(creds) == {creds[s] : s \in Slots} \ {NoCert}

\* The slots of creds a call that is cleaning up on behalf of res drops.
Replaced(creds, res) == {s \in Slots : creds[s] \in Serials \ Held(res)}

Referenced ==
  live \cup Held(slots) \cup UNION {Held(result[c]) \cup doomed[c] : c \in Calls}

Fresh == Serials \ Referenced

Busy(c) == pc[c] # "idle"

TypeOK ==
  /\ live \subseteq Serials
  /\ slots \in Credentials
  /\ count \in Slots
  /\ pc \in [Calls -> {"idle", "select", "create", "list", "clean"}]
  /\ target \in [Calls -> Slots \cup {AllSlots}]
  /\ todo \in [Calls -> SUBSET Slots]
  /\ result \in [Calls -> Credentials]
  /\ doomed \in [Calls -> SUBSET Serials]
  /\ failed \in [Calls -> BOOLEAN]
  /\ torn \subseteq Slots

Nothing == [s \in Slots |-> NoCert]

Init ==
  /\ live = Foreign
  /\ slots = Nothing
  /\ count \in Slots
  /\ pc = [c \in Calls |-> "idle"]
  /\ target = [c \in Calls |-> AllSlots]
  /\ todo = [c \in Calls |-> {}]
  /\ result = [c \in Calls |-> Nothing]
  /\ doomed = [c \in Calls |-> {}]
  /\ failed = [c \in Calls |-> FALSE]
  /\ torn = {}

(***************************************************************************)
(* Event loop: the call reads the tunnel count and the stored slots, then  *)
(* hands the job to an executor thread.  With a slot argument the other    *)
(* active slots are carried over; a slot above the count makes the job     *)
(* raise before its first request, which changes nothing.                  *)
(***************************************************************************)
SlotsToProvision(t) == IF t = AllSlots THEN 1 .. count ELSE {t}

\* Variant: a call for one slot takes nothing over.
NothingCarriedOver(t) == [s \in Slots |-> NoCert]

\* The slots whose credential a call for slot t takes over from the entry.
CarriedOver(t) ==
  [s \in Slots |-> IF t # AllSlots /\ s # t /\ s <= count
                   THEN slots[s] ELSE NoCert]

Begin(c, t) ==
  /\ ~Busy(c)
  /\ Overlap \/ \A d \in Calls : ~Busy(d)
  /\ t <= count
  /\ pc' = [pc EXCEPT ![c] = "select"]
  /\ target' = [target EXCEPT ![c] = t]
  /\ todo' = [todo EXCEPT ![c] = SlotsToProvision(t)]
  /\ result' = [result EXCEPT ![c] = CarriedOver(t)]
  /\ failed' = [failed EXCEPT ![c] = FALSE]
  /\ UNCHANGED <<live, slots, count, doomed, torn>>

\* The account tier, the logical servers and the choice among them.
SelectServers(c) ==
  /\ pc[c] = "select"
  /\ pc' = [pc EXCEPT ![c] = "create"]
  /\ UNCHANGED <<live, slots, count, target, todo, result, doomed, failed, torn>>

\* The call returns or raises: its thread and its locals are gone.
Return(c) ==
  /\ pc' = [pc EXCEPT ![c] = "idle"]
  /\ target' = [target EXCEPT ![c] = AllSlots]
  /\ todo' = [todo EXCEPT ![c] = {}]
  /\ result' = [result EXCEPT ![c] = Nothing]
  /\ doomed' = [doomed EXCEPT ![c] = {}]
  /\ failed' = [failed EXCEPT ![c] = FALSE]

\* POST /vpn/v1/certificate for the lowest slot that still lacks one.
Create(c) ==
  /\ pc[c] = "create"
  /\ Cardinality(live) < Cap
  /\ \E n \in Fresh, s \in todo[c] :
       /\ \A u \in todo[c] : s <= u
       /\ live' = live \cup {n}
       /\ result' = [result EXCEPT ![c][s] = n]
       /\ todo' = [todo EXCEPT ![c] = @ \ {s}]
  /\ pc' = [pc EXCEPT ![c] = IF todo'[c] = {} THEN "list" ELSE "create"]
  /\ UNCHANGED <<slots, count, target, doomed, failed, torn>>

\* The account is full: Proton's error is raised to the caller.
CreateRefused(c) ==
  /\ pc[c] = "create"
  /\ Cardinality(live) >= Cap
  /\ Return(c)
  /\ UNCHANGED <<live, slots, count, torn>>

\* The certificate is registered but the answer is lost: the call raises.
CreateLost(c) ==
  /\ pc[c] = "create"
  /\ Cardinality(live) < Cap
  /\ \E n \in Fresh : live' = live \cup {n}
  /\ Return(c)
  /\ UNCHANGED <<slots, count, torn>>

\* A request fails, or no suitable servers are left: the call raises.
Raise(c) ==
  /\ pc[c] \in {"select", "create", "list"}
  /\ Return(c)
  /\ UNCHANGED <<live, slots, count, torn>>

\* Variants of keep: the one new certificate only, as keep_serial does for a
\* single tunnel; the certificates about to be replaced as well.
KeepNewOnly(c) == Held(result[c]) \ Held(slots)
KeepStoredToo(c) == Held(result[c]) \cup Held(slots)

Keep(c) == Held(result[c])

\* Variant: the device name is not looked at.
StaleOfAnyName(c) == live \ Keep(c)

\* The certificates to delete: those with our device name that are not kept.
Stale(c) == (live \ Keep(c)) \ Foreign

\* list_persistent_certificates reads every page before the first delete.
ListCertificates(c) ==
  /\ pc[c] = "list"
  /\ pc' = [pc EXCEPT ![c] = "clean"]
  /\ doomed' = [doomed EXCEPT ![c] = Stale(c)]
  /\ UNCHANGED <<live, slots, count, target, todo, result, failed, torn>>

\* Variant: a deletion that fails is tried again.
DeleteUntilDone(c) ==
  /\ pc[c] = "clean"
  /\ \E x \in doomed[c] :
       \/ /\ live' = live \ {x}
          /\ doomed' = [doomed EXCEPT ![c] = @ \ {x}]
          /\ UNCHANGED failed
       \/ /\ failed' = [failed EXCEPT ![c] = ~@]
          /\ UNCHANGED <<live, doomed>>
  /\ UNCHANGED <<slots, count, pc, target, todo, result, torn>>

\* DELETE succeeds; or it fails, or its answer is lost, which is recorded.
Delete(c) ==
  /\ pc[c] = "clean"
  /\ \E x \in doomed[c] :
       /\ doomed' = [doomed EXCEPT ![c] = @ \ {x}]
       /\ \/ live' = live \ {x} /\ UNCHANGED failed
          \/ /\ live' \in {live, live \ {x}}
             /\ failed' = [failed EXCEPT ![c] = TRUE]
  /\ UNCHANGED <<slots, count, pc, target, todo, result, torn>>

\* Event loop: the job's result replaces the slots on the entry.
Store(c) ==
  /\ pc[c] = "clean"
  /\ doomed[c] = {}
  /\ slots' = result[c]
  /\ torn' = {s \in torn : result[c][s] = slots[s]}
  /\ Return(c)
  /\ UNCHANGED <<live, count>>

\* The options form changes the tunnel count.
SetTunnelCount(n) ==
  /\ n # count
  /\ count' = n
  /\ UNCHANGED <<live, slots, callVars, torn>>

\* Home Assistant stops: threads die, the config entry survives.
Crash ==
  /\ Crashes
  /\ torn' = torn \cup UNION {Replaced(slots, result[c]) : c \in
                              {d \in Calls : pc[d] = "clean"}}
  /\ \E c \in Calls : Busy(c)
  /\ pc' = [c \in Calls |-> "idle"]
  /\ target' = [c \in Calls |-> AllSlots]
  /\ todo' = [c \in Calls |-> {}]
  /\ result' = [c \in Calls |-> Nothing]
  /\ doomed' = [c \in Calls |-> {}]
  /\ failed' = [c \in Calls |-> FALSE]
  /\ UNCHANGED <<live, slots, count>>

\* What the executor thread and the event loop do on their own.
Step(c) ==
  \/ SelectServers(c)
  \/ Create(c)
  \/ CreateRefused(c)
  \/ CreateLost(c)
  \/ Raise(c)
  \/ ListCertificates(c)
  \/ Delete(c)
  \/ Store(c)

Next ==
  \/ \E c \in Calls, t \in Slots \cup {AllSlots} : Begin(c, t)
  \/ \E c \in Calls : Step(c)
  \/ \E n \in Slots : SetTunnelCount(n)
  \/ Crash

\* Every request carries a timeout of 30 s, so a thread never hangs.
Fairness == \A c \in Calls : WF_vars(Step(c))

Spec == Init /\ [][Next]_vars /\ Fairness

-----------------------------------------------------------------------------
(***************************************************************************)
(* Properties                                                              *)
(***************************************************************************)

\* "Non-HA configs are left alone": whatever calls do, in any overlap and
\* through any crash, a certificate whose name is not ours stays on the
\* account.
ForeignKept == Foreign \subseteq live

\* A stored credential that Proton no longer accepts is one that a call in
\* its cleanup is replacing right now, or whose replacement a crash cut
\* short between the deletions and the write of the entry.  In particular a
\* call that fails, at whatever request, and the renewal of another slot
\* never cost a stored tunnel its certificate.
StoredLive ==
  \A s \in Slots :
    \/ slots[s] \in live \cup {NoCert}
    \/ s \in torn
    \/ \E c \in Calls : pc[c] = "clean" /\ s \in Replaced(slots, result[c])

\* When a call whose deletions all succeeded stores its result, the account
\* holds none of our certificates but the stored ones: what failed calls and
\* crashes left behind is gone.
CleanupComplete ==
  [][\A c \in Calls :
       Store(c) /\ ~failed[c] => live' \ Foreign \subseteq Held(slots')]_vars

\* The strengthening that makes ForeignKept, StoredLive and CleanupComplete
\* inductive when calls do not overlap (ProvisioningProofs): an idle call
\* holds nothing, what a call keeps it has not marked for deletion, what it
\* will store Proton accepts or was torn already, and once it has listed the
\* account it knows every certificate of ours.
SoleCall == \A c, d \in Calls : Busy(c) /\ Busy(d) => c = d

IdleHoldsNothing ==
  \A c \in Calls :
    /\ ~Busy(c) => result[c] = Nothing
    /\ pc[c] # "clean" => doomed[c] = {}

DoomedOurs ==
  \A c \in Calls : doomed[c] \cap (Foreign \cup Held(result[c])) = {}

ResultLive ==
  \A c \in Calls, s \in Slots :
    \/ result[c][s] \in live \cup {NoCert}
    \/ result[c][s] = slots[s] /\ s \in torn

AccountKnown ==
  \A c \in Calls :
    pc[c] = "clean" /\ ~failed[c]
      => live \ Foreign \subseteq Held(result[c]) \cup doomed[c]

IInv ==
  /\ TypeOK
  /\ ForeignKept
  /\ SoleCall
  /\ IdleHoldsNothing
  /\ DoomedOurs
  /\ ResultLive
  /\ StoredLive
  /\ AccountKnown

\* Every call ends, however many of its deletions Proton refuses.
CallsReturn == \A c \in Calls : Busy(c) ~> ~Busy(c)

\* What a call renews and what it keeps, in the terms of SlotStore.
Renews(c, s) == target[c] \in {AllSlots, s}
Asked(c) ==
  [wanted |-> IF ~Busy(c) THEN {}
              ELSE IF target[c] = AllSlots THEN todo[c] \cup {s \in Slots : result[c][s] # NoCert}
              ELSE {target[c]},
   kept |-> [s \in Slots |-> IF Renews(c, s) THEN NoCert ELSE result[c][s]]]

Abstract == INSTANCE SlotStore WITH
  Values <- Serials, None <- NoCert, Unique <- TRUE,
  stored <- slots, call <- [c \in Calls |-> Asked(c)]

\* Requests that fail half way, crashes between any two of them and other
\* calls do not show on the entry: a call stores all it was asked for, in one
\* write, with certificates that no slot has had and that no other call
\* stores or keeps, or nothing.
ImplementsSlotStore == Abstract!Safety

\* ... for what a call has created is nobody else's, stored or in hand.
NewAlone ==
  \A c \in Calls, s \in Slots : Renews(c, s) /\ result[c][s] # NoCert =>
    /\ result[c][s] \notin Held(slots)
    /\ \A d \in Calls, r \in Slots : result[d][r] = result[c][s] => d = c /\ r = s
=============================================================================
