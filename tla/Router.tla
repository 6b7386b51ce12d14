------------------------------- MODULE Router --------------------------------
(***************************************************************************)
(* The MikroTik router's configuration and the jobs of mikrotik_wg.py that *)
(* change it, as async_apply_wireguard and async_set_egress run them.      *)
(*                                                                         *)
(* A job opens a connection of its own on an executor thread and issues    *)
(* one RouterOS command after the other: a print that finds rows, then     *)
(* adds, updates and removes by the ids it found.  Every command is an     *)
(* action here, so that jobs of different connections interleave between   *)
(* the print and the write that depends on it, and a connection may be     *)
(* lost anywhere.  RouterOS refuses to update or remove an id that is      *)
(* gone, and the job then raises.                                          *)
(*                                                                         *)
(* A row is known by its key: the table and what _upsert and the removals  *)
(* match it by (name, interface or comment), which comes down to a slot    *)
(* number.  Slot 0 stands for the names without a number that older        *)
(* versions used.  RouterOS ids stand for (table, n, copy): copy tells two *)
(* rows of one key apart.                                                  *)
(*                                                                         *)
(* What a job has yet to do is a set of commands; a command carries its    *)
(* place in the program, and the next one is the earliest of the set.      *)
(***************************************************************************)
EXTENDS Naturals, FiniteSets

CONSTANTS
  MaxSlots,    \* MAX_TUNNEL_COUNT
  Certs,       \* credentials a slot can hold, a set of positive numbers
  Cidrs,       \* entries of the bypass list, a set of positive numbers
  Appliers,    \* calls of async_apply_wireguard that can be in flight
  Switchers,   \* calls of async_set_egress that can be in flight
  Gateways,    \* what the WAN gateway option may be: "pppoe", the name of a
               \* pppoe-client interface, or "other", an address
  Reconfigure, \* may credentials, tunnel count and bypass list change?
  MaxLosses    \* bound on lost connections

Slots == 1 .. MaxSlots
Jobs == Appliers \cup Switchers
NoCert == 0

ASSUME ConstantsAssumption ==
  /\ MaxSlots \in Nat \ {0}
  /\ Certs \subseteq Nat \ {NoCert}
  /\ Cidrs \subseteq Nat \ {0}
  /\ IsFiniteSet(Jobs)
  /\ Appliers \cap Switchers = {}
  /\ Gateways \subseteq {"pppoe", "other"}
  /\ Reconfigure \in BOOLEAN
  /\ MaxLosses \in Nat

VARIABLES
  rows,      \* the router's rows that bear one of our keys
  distance,  \* default-route-distance of the pppoe-client interface
  certs,     \* certs[s]: stored credential of slot s, or NoCert
  count,     \* tunnel_count option
  bypass,    \* vpn_bypass_cidrs option
  gateway,   \* mikrotik_wan_gateway option
  enabled,   \* egress_enabled option
  job,       \* job[j]: kind, commands to do and locals of call j
  scope,     \* history: the slots and entries the last request was made for
  sole,      \* history: switch calls that no other one has overlapped
  losses

config == <<certs, count, bypass, gateway>>
history == <<scope, sole>>
vars == <<rows, distance, config, enabled, job, history, losses>>

TunnelTables == {"iface", "peer", "addr", "endpoint"}
EgressTables == {"member", "route", "masq", "cidr", "mangle", "bypassRoute"}

AnySlot == 0 .. MaxSlots

\* The numbers the rows of a table can bear.
Names(table) ==
  IF table = "cidr" THEN Cidrs
  ELSE IF table \in {"mangle", "bypassRoute"} THEN {0} ELSE AnySlot

\* The rows of a table, known by slot (or list entry) n, hold value v.
At(table, n) == {r \in rows : r.table = table /\ r.n = n}
Has(table, n) == At(table, n) # {}
Id(r) == <<r.table, r.n, r.copy>>   \* the .id of a row

Idle == [kind |-> "idle", todo |-> {}, stage |-> "look", ids |-> {},
         certs |-> [s \in {} |-> NoCert]]

Active == {s \in 1 .. count : certs[s] # NoCert}

-----------------------------------------------------------------------------
(***************************************************************************)
(* What each function of mikrotik_wg.py asks the router.  A command is     *)
(* placed by the part of the program it belongs to, the number of the slot *)
(* or list entry it is for, as those are taken in ascending order, and its *)
(* place among the commands for that one.                                  *)
(***************************************************************************)
Earlier(a, b) ==
  \/ a[1] < b[1]
  \/ a[1] = b[1] /\ a[2] < b[2]
  \/ a[1] = b[1] /\ a[2] = b[2] /\ a[3] < b[3]

\* Variant: the row is added without looking for one first.
AddAlways(at, table, n, v) == [at |-> at, op |-> "add", table |-> table, ns |-> {n}, v |-> v]

Upsert(at, table, n, v) == [at |-> at, op |-> "upsert", table |-> table, ns |-> {n}, v |-> v]
EnsureMember(at, n) == [at |-> at, op |-> "ensure", table |-> "member", ns |-> {n}, v |-> 0]
Add(at, table, n) == [at |-> at, op |-> "add", table |-> table, ns |-> {n}, v |-> 0]
RemoveAll(at, table, ns) == [at |-> at, op |-> "remove", table |-> table, ns |-> ns, v |-> 0]
SetDistance(at, wan, d) == [at |-> at, op |-> "distance", table |-> wan, ns |-> {}, v |-> d]

ApplyTunnelOnly(s, c) ==
  {Upsert(<<1, s, 1>>, "iface", s, c), Upsert(<<1, s, 2>>, "peer", s, c),
   Upsert(<<1, s, 3>>, "addr", s, 0), Upsert(<<1, s, 4>>, "endpoint", s, c)}

RemoveInterface(s) ==
  {RemoveAll(<<3, s, 1>>, "peer", {s}), RemoveAll(<<3, s, 2>>, "addr", {s}),
   RemoveAll(<<3, s, 3>>, "iface", {s})}

\* Variants: endpoint routes of inactive slots stay; the egress of inactive
\* slots is removed along with their interfaces.
KeepEndpoints(creds) ==
  (UNION {ApplyTunnelOnly(s, creds[s]) : s \in DOMAIN creds})
    \cup (UNION {RemoveInterface(s) : s \in AnySlot \ DOMAIN creds})

DropEgressToo(creds) ==
  KeepEndpoints(creds)
    \cup {RemoveAll(<<2, 0, 1>>, "endpoint", AnySlot \ DOMAIN creds),
          RemoveAll(<<2, 0, 2>>, "member", AnySlot)}

ApplySlots(creds) ==
  (UNION {ApplyTunnelOnly(s, creds[s]) : s \in DOMAIN creds})
    \cup {RemoveAll(<<2, 0, 1>>, "endpoint", AnySlot \ DOMAIN creds)}
    \cup (UNION {RemoveInterface(s) : s \in AnySlot \ DOMAIN creds})

RemoveBypass ==
  {RemoveAll(<<3, 0, 1>>, "cidr", Cidrs), RemoveAll(<<3, 0, 2>>, "mangle", {0}),
   RemoveAll(<<3, 0, 3>>, "bypassRoute", {0})}

SyncBypass(cidrs) ==
  RemoveBypass
    \cup {Add(<<4, c, 1>>, "cidr", c) : c \in cidrs}
    \cup IF cidrs = {} THEN {}
         ELSE {Upsert(<<5, 0, 1>>, "mangle", 0, 0), Upsert(<<5, 0, 2>>, "bypassRoute", 0, 0)}

EnableSlot(s) ==
  {EnsureMember(<<1, s, 1>>, s), Upsert(<<1, s, 2>>, "route", s, 0),
   Upsert(<<1, s, 3>>, "masq", s, 0)}

EnableEgress(active, cidrs, wan) ==
  (UNION {EnableSlot(s) : s \in active})
    \cup {SetDistance(<<2, 0, 1>>, wan, 2)} \cup SyncBypass(cidrs)

\* Variants: the masquerading goes before the routes; the WAN list keeps its
\* members; the distance is reset to 0.
DisableMasqFirst(wan) ==
  RemoveBypass \cup
  {RemoveAll(<<4, 0, 1>>, "masq", AnySlot), RemoveAll(<<4, 0, 2>>, "route", AnySlot),
   RemoveAll(<<4, 0, 3>>, "member", AnySlot), SetDistance(<<4, 0, 4>>, wan, 1)}
DisableKeepsMembers(wan) ==
  RemoveBypass \cup
  {RemoveAll(<<4, 0, 1>>, "route", AnySlot), RemoveAll(<<4, 0, 2>>, "masq", AnySlot),
   SetDistance(<<4, 0, 4>>, wan, 1)}
DisableToZero(wan) ==
  RemoveBypass \cup
  {RemoveAll(<<4, 0, 1>>, "route", AnySlot), RemoveAll(<<4, 0, 2>>, "masq", AnySlot),
   RemoveAll(<<4, 0, 3>>, "member", AnySlot), SetDistance(<<4, 0, 4>>, wan, 0)}

DisableEgress(wan) ==
  RemoveBypass \cup
  {RemoveAll(<<4, 0, 1>>, "route", AnySlot), RemoveAll(<<4, 0, 2>>, "masq", AnySlot),
   RemoveAll(<<4, 0, 3>>, "member", AnySlot), SetDistance(<<4, 0, 4>>, wan, 1)}

-----------------------------------------------------------------------------
Tables == TunnelTables \cup EgressTables

Commands == [at: Nat \X Nat \X Nat, op: {"upsert", "ensure", "add", "remove", "distance"},
             table: Tables \cup Gateways, ns: SUBSET Nat, v: Nat]

JobRecords == [kind: {"idle", "apply", "enable", "disable"}, todo: SUBSET Commands,
               stage: {"look", "write"}, ids: SUBSET (Tables \X Nat \X Nat),
               certs: UNION {[S -> Certs] : S \in SUBSET Slots}]

TypeOK ==
  /\ rows \subseteq [table: Tables, n: Nat, copy: Nat, v: Nat]
  /\ \A r \in rows : r.n \in Names(r.table)
  /\ \A r, q \in rows : Id(r) = Id(q) => r = q
  /\ distance \in {1, 2}
  /\ certs \in [Slots -> Certs \cup {NoCert}]
  /\ count \in Slots
  /\ bypass \subseteq Cidrs
  /\ gateway \in Gateways
  /\ enabled \in BOOLEAN
  /\ job \in [Jobs -> JobRecords]
  /\ scope \in [active: SUBSET Slots, cidrs: SUBSET Cidrs]
  /\ sole \subseteq Switchers

\* What a version without slots left on the router, with egress off and on;
\* what an entry that was deleted left, with a key that nobody has any more.
OldRows(tables, n) == [table: tables, n: {n}, copy: {0}, v: {0}]
LegacyTunnel == OldRows(TunnelTables, 0)
LegacyEgress == OldRows({"route", "masq", "member"}, 0)
DeletedTunnel == OldRows(TunnelTables, 1)

Init ==
  /\ \/ rows \in {{}, LegacyTunnel, DeletedTunnel} /\ distance = 1 /\ enabled = FALSE
     \/ rows = LegacyTunnel \cup LegacyEgress /\ distance = 2 /\ enabled = TRUE
  /\ certs \in [Slots -> Certs \cup {NoCert}]
  /\ count \in Slots
  /\ bypass \in SUBSET Cidrs
  /\ gateway \in Gateways
  /\ sole = {}
  /\ scope = [active |-> {}, cidrs |-> {}]
  /\ job = [j \in Jobs |-> Idle]
  /\ losses = 0

(***************************************************************************)
(* The event loop reads the entry and hands the job to a thread.           *)
(***************************************************************************)
Stored == [s \in Active |-> certs[s]]

BeginApply(j) ==
  /\ j \in Appliers
  /\ job[j].kind = "idle"
  /\ \E s \in Slots : certs[s] # NoCert
  /\ job' = [job EXCEPT ![j] =
       [Idle EXCEPT !.kind = "apply", !.todo = ApplySlots(Stored), !.certs = Stored]]
  /\ UNCHANGED <<rows, distance, config, enabled, history, losses>>

InFlight == {j \in Switchers : job[j].kind # "idle"}
Enter(j) == sole' = IF InFlight = {} THEN {j} ELSE {}

\* enable_egress raises before its first command when no slot is active.
BeginEnable(j) ==
  /\ j \in Switchers
  /\ job[j].kind = "idle"
  /\ Active # {}
  /\ job' = [job EXCEPT ![j] =
       [Idle EXCEPT !.kind = "enable", !.todo = EnableEgress(Active, bypass, gateway),
                    !.certs = Stored]]
  /\ scope' = [active |-> Active, cidrs |-> bypass]
  /\ Enter(j)
  /\ UNCHANGED <<rows, distance, config, enabled, losses>>

BeginDisable(j) ==
  /\ j \in Switchers
  /\ job[j].kind = "idle"
  /\ job' = [job EXCEPT ![j] = [Idle EXCEPT !.kind = "disable", !.todo = DisableEgress(gateway)]]
  /\ Enter(j)
  /\ UNCHANGED <<rows, distance, config, enabled, scope, losses>>

(***************************************************************************)
(* The commands of a job.                                                  *)
(***************************************************************************)
IsNext(j, c) == c \in job[j].todo /\ \A d \in job[j].todo \ {c} : Earlier(c.at, d.at)

NextCommand(j, c) ==
  [job EXCEPT ![j].todo = @ \ {c}, ![j].stage = "look", ![j].ids = {}]

\* Rows in the table of command c that it matches.
Matched(c) == {r \in rows : r.table = c.table /\ r.n \in c.ns}

\* RouterOS gives a new row an id that no row has and no job remembers.
KnownIds == {Id(r) : r \in rows} \cup UNION {job[j].ids : j \in Jobs}

FreshCopy(table, n) ==
  LET taken == {i[3] : i \in {h \in KnownIds : h[1] = table /\ h[2] = n}}
  IN  CHOOSE i \in 0 .. Cardinality(taken) : i \notin taken

NewRow(c) == {[table |-> c.table, n |-> n, copy |-> FreshCopy(c.table, n), v |-> c.v] : n \in c.ns}

\* RouterOS print: an upsert takes the first row found, a removal all of them.
Look(j, c) ==
  /\ job[j].stage = "look"
  /\ \/ /\ c.op = "upsert"
        /\ IF Matched(c) = {}
           THEN job' = [job EXCEPT ![j].stage = "write"]
           ELSE \E r \in Matched(c) :
                  job' = [job EXCEPT ![j].stage = "write", ![j].ids = {Id(r)}]
     \/ /\ c.op = "ensure"
        /\ job' = IF Matched(c) = {} THEN [job EXCEPT ![j].stage = "write"]
                                     ELSE NextCommand(j, c)
     \/ /\ c.op = "remove"
        /\ job' = IF Matched(c) = {} THEN NextCommand(j, c)
                  ELSE [job EXCEPT ![j].stage = "write",
                                   ![j].ids = {Id(r) : r \in Matched(c)}]
     \/ /\ c.op = "distance" /\ c.table = "pppoe"
        /\ job' = [job EXCEPT ![j].stage = "write"]
  /\ UNCHANGED <<rows, distance, config, enabled, history, losses>>

AddRow(j, c) ==
  /\ \/ job[j].stage = "write" /\ c.op \in {"upsert", "ensure"} /\ job[j].ids = {}
     \/ job[j].stage = "look" /\ c.op = "add"
  /\ rows' = rows \cup NewRow(c)
  /\ job' = NextCommand(j, c)
  /\ UNCHANGED <<distance, config, enabled, history, losses>>

UpdateRow(j, c) ==
  /\ job[j].stage = "write"
  /\ c.op = "upsert"
  /\ \E r \in Matched(c) :
       /\ Id(r) \in job[j].ids
       /\ rows' = (rows \ {r}) \cup {[r EXCEPT !.v = c.v]}
  /\ job' = NextCommand(j, c)
  /\ UNCHANGED <<distance, config, enabled, history, losses>>

\* Variant: only the first row found is removed.
RemoveFirstOnly(j, c) ==
  /\ job[j].stage = "write"
  /\ c.op = "remove"
  /\ \E r \in Matched(c) : Id(r) \in job[j].ids /\ rows' = rows \ {r}
  /\ job' = NextCommand(j, c)
  /\ UNCHANGED <<distance, config, enabled, history, losses>>

RemoveRow(j, c) ==
  /\ job[j].stage = "write"
  /\ c.op = "remove"
  /\ \E r \in Matched(c) :
       /\ Id(r) \in job[j].ids
       /\ rows' = rows \ {r}
       /\ job' = IF job[j].ids = {Id(r)} THEN NextCommand(j, c)
                 ELSE [job EXCEPT ![j].ids = @ \ {Id(r)}]
  /\ UNCHANGED <<distance, config, enabled, history, losses>>

UpdateDistance(j, c) ==
  /\ job[j].stage = "write"
  /\ c.op = "distance"
  /\ distance' = c.v
  /\ job' = NextCommand(j, c)
  /\ UNCHANGED <<rows, config, enabled, history, losses>>

\* The call raises; what its job has done so far stays on the router.
Raise(j) == job' = [job EXCEPT ![j] = Idle] /\ sole' = sole \ {j}

\* The id is gone, or the WAN gateway is no pppoe-client interface.
Refused(j, c) ==
  /\ \/ job[j].stage = "write" /\ job[j].ids \ {Id(r) : r \in Matched(c)} # {}
     \/ job[j].stage = "look" /\ c.op = "distance" /\ c.table # "pppoe"
  /\ Raise(j)
  /\ UNCHANGED <<rows, distance, config, enabled, scope, losses>>

\* The connection breaks, or Home Assistant stops.
Lost(j) ==
  /\ job[j].kind # "idle"
  /\ losses < MaxLosses
  /\ losses' = losses + 1
  /\ Raise(j)
  /\ UNCHANGED <<rows, distance, config, enabled, scope>>

\* Event loop: a switch call records the desired state.
Finish(j) ==
  /\ job[j].kind # "idle"
  /\ job[j].todo = {}
  /\ enabled' = CASE job[j].kind = "enable" -> TRUE
                  [] job[j].kind = "disable" -> FALSE
                  [] OTHER -> enabled
  /\ job' = [job EXCEPT ![j] = Idle]
  /\ sole' = sole \ {j}
  /\ UNCHANGED <<rows, distance, config, scope, losses>>

\* A slot is provisioned; the options form is saved.
Provision(s, c) ==
  /\ Reconfigure
  /\ s <= count
  /\ certs' = [certs EXCEPT ![s] = c]
  /\ UNCHANGED <<rows, distance, count, bypass, gateway, enabled, job, history, losses>>

Configure(n, b, wan) ==
  /\ Reconfigure
  /\ count' = n
  /\ bypass' = b
  /\ gateway' = wan
  /\ UNCHANGED <<rows, distance, certs, enabled, job, history, losses>>

Command(j, c) ==
  \/ Look(j, c) \/ AddRow(j, c) \/ UpdateRow(j, c) \/ RemoveRow(j, c) \/ UpdateDistance(j, c)
  \/ Refused(j, c)

Step(j) == Finish(j) \/ \E c \in job[j].todo : IsNext(j, c) /\ Command(j, c)

Next ==
  \/ \E j \in Jobs : BeginApply(j) \/ BeginEnable(j) \/ BeginDisable(j) \/ Step(j) \/ Lost(j)
  \/ \E s \in Slots, c \in Certs : Provision(s, c)
  \/ \E n \in Slots, b \in SUBSET Cidrs, wan \in Gateways : Configure(n, b, wan)

Spec == Init /\ [][Next]_vars /\ \A j \in Jobs : WF_vars(Step(j))

-----------------------------------------------------------------------------
(***************************************************************************)
(* Properties                                                              *)
(***************************************************************************)
BypassTables == {"cidr", "mangle", "bypassRoute"}

\* The router does exactly what the README's table says for "Off".
EgressOff == (\A r \in rows : r.table \notin EgressTables) /\ distance = 1

\* ... and for "On", given the active slots and the bypass list.
EgressOn(active, cidrs) ==
  /\ \A s \in active : Has("member", s) /\ Has("route", s) /\ Has("masq", s)
  /\ distance = 2
  /\ \A r \in rows : r.table \in BypassTables => cidrs # {} /\ (r.table = "cidr" => r.n \in cidrs)
  /\ \A c \in cidrs : Has("cidr", c) /\ Has("mangle", 0) /\ Has("bypassRoute", 0)

Effect ==
  IF EgressOff THEN "off"
  ELSE IF scope.active # {} /\ EgressOn(scope.active, scope.cidrs) THEN "on" ELSE "mixed"

Switch == INSTANCE EgressSwitch WITH
  desired <- IF enabled THEN "on" ELSE "off",
  request <- IF InFlight = {} THEN "none"
             ELSE IF \E j \in InFlight : job[j].kind = "enable" THEN "on" ELSE "off",
  effect <- Effect

\* A switch call that returns has left the router exactly on or off, from
\* whatever older versions, failed calls and lost connections left behind
\* and while tunnels are applied beside it; and nothing but switch calls
\* changes the egress.
ImplementsSwitch == Switch!Spec

\* The same without the promise that every call ends.
SwitchSteps == Switch!Safety

\* Switch calls that overlap may leave anything behind, duplicates and halves
\* of either state; the next one that runs alone makes it right.
SoleSwitchExact ==
  [][\A j \in sole : Finish(j) => Effect = IF job[j].kind = "enable" THEN "on" ELSE "off"]_vars

\* An apply that returns has left exactly the active tunnels on the router,
\* each with the stored key, its peer and the route that pins the peer's
\* endpoint to the WAN; inactive and legacy ones are gone.
TunnelsExact(creds) ==
  /\ \A s \in DOMAIN creds, table \in TunnelTables : Has(table, s)
  /\ \A r \in rows : r.table \in TunnelTables =>
       r.n \in DOMAIN creds /\ r.v = IF r.table = "addr" THEN 0 ELSE creds[r.n]

ApplyExact == [][\A j \in Appliers : Finish(j) => TunnelsExact(job[j].certs)]_vars

\* Nothing is configured twice, though every upsert first looks and then adds.
NoDuplicates ==
  \A r, q \in rows : r.table = q.table /\ r.n = q.n => r = q

\* While one apply and one switch call run at a time, neither fails because of
\* the other: the rows a job has found are there until it writes them itself.
FoundIsThere ==
  \A j \in Jobs : \A c \in job[j].todo : job[j].stage = "write" /\ IsNext(j, c) =>
    job[j].ids \subseteq {Id(r) : r \in Matched(c)}

\* The order of removal: no step takes a tunnel's masquerading away while its
\* default route is there, cut off or not.  (Enabling adds the route first.)
RouteGoesFirst ==
  [][\A s \in AnySlot :
       Has("masq", s) /\ ~Has("masq", s)' => ~Has("route", s)']_vars
==============================================================================
