---------------------------- MODULE RouterProofs -----------------------------
(***************************************************************************)
(* Theorems about Router, for every number of slots, jobs, credentials and *)
(* bypass entries and with connections lost anywhere: types; what an apply *)
(* and a switch call that nothing overlaps leave on the router; and that   *)
(* Router implements EgressSwitch as long as one switch call runs at a     *)
(* time.                                                                   *)
(***************************************************************************)
EXTENDS Router, FiniteSetTheorems, TLAPS

-----------------------------------------------------------------------------
(* Sets of ids. *)

LEMMA FiniteIds ==
  ASSUME NEW R, IsFiniteSet(R)
  PROVE  IsFiniteSet({Id(r) : r \in R})
<1> DEFINE f == [r \in R |-> Id(r)]
<1>1. f \in Surjection(R, {Id(r) : r \in R})
  BY DEF Surjection
<1> QED BY <1>1, FS_Surjection

\* What RouterOS and the jobs know of ids is finite, so that there is a fresh one.
FiniteIdsInv ==
  /\ IsFiniteSet(rows)
  /\ \A j \in Jobs : IsFiniteSet(job[j].ids)

LEMMA FreshIsFresh ==
  ASSUME TypeOK, FiniteIdsInv, NEW table, NEW n
  PROVE  /\ FreshCopy(table, n) \in Nat
         /\ <<table, n, FreshCopy(table, n)>> \notin KnownIds
<1> DEFINE known == {h \in KnownIds : h[1] = table /\ h[2] = n}
           taken == {i[3] : i \in known}
           remembered == {job[j].ids : j \in Jobs}
<1>1. IsFiniteSet(KnownIds)
  <2> DEFINE f == [j \in Jobs |-> job[j].ids]
  <2>1. f \in Surjection(Jobs, remembered)
    BY DEF Surjection
  <2>2. IsFiniteSet(remembered)
    BY <2>1, FS_Surjection, ConstantsAssumption
  <2>3. \A T \in remembered : IsFiniteSet(T)
    BY DEF FiniteIdsInv
  <2> HIDE DEF remembered
  <2>4. IsFiniteSet(UNION remembered)
    BY <2>2, <2>3, FS_UNION
  <2>5. IsFiniteSet({Id(r) : r \in rows})
    BY FiniteIds DEF FiniteIdsInv
  <2> QED BY <2>4, <2>5, FS_Union DEF KnownIds, remembered
<1>2. IsFiniteSet(taken) /\ Cardinality(taken) \in Nat
  <2> DEFINE g == [i \in known |-> i[3]]
  <2>1. g \in Surjection(known, taken)
    BY DEF Surjection
  <2>2. IsFiniteSet(known)
    BY <1>1, FS_Subset
  <2>3. IsFiniteSet(taken)
    BY <2>1, <2>2, FS_Surjection
  <2> QED BY <2>3, FS_CardinalityType
<1> HIDE DEF taken
<1>3. \E i \in 0 .. Cardinality(taken) : i \notin taken
  <2> SUFFICES ASSUME 0 .. Cardinality(taken) \subseteq taken PROVE FALSE
    OBVIOUS
  <2>1. Cardinality(0 .. Cardinality(taken)) = Cardinality(taken) + 1
    BY <1>2, FS_Interval
  <2>2. Cardinality(0 .. Cardinality(taken)) <= Cardinality(taken)
    BY <1>2, FS_Subset
  <2> QED BY <1>2, <2>1, <2>2
<1>4. FreshCopy(table, n) = CHOOSE i \in 0 .. Cardinality(taken) : i \notin taken
  BY DEF FreshCopy, taken
<1>5. FreshCopy(table, n) \in 0 .. Cardinality(taken) /\ FreshCopy(table, n) \notin taken
  BY <1>3, <1>4
<1>6. FreshCopy(table, n) \in Nat
  BY <1>2, <1>5
<1> HIDE DEF known
<1>7. ASSUME <<table, n, FreshCopy(table, n)>> \in KnownIds PROVE FALSE
  <2>1. <<table, n, FreshCopy(table, n)>> \in known
    BY <1>7 DEF known
  <2>2. FreshCopy(table, n) \in taken
    BY <2>1 DEF taken
  <2> QED BY <1>5, <2>2
<1> QED BY <1>6, <1>7

-----------------------------------------------------------------------------
(***************************************************************************)
(* The programs.  Each names its rows right, adds no key twice, removes a  *)
(* key before it adds it, and looks for rows or has removed them before it *)
(* adds.                                                                   *)
(***************************************************************************)
Adds(c) == c.op \in {"upsert", "ensure", "add"}
Removes(c) == c.op = "remove"
Sets(c) == c.op = "distance"

Tidy(c) ==
  /\ c \in Commands
  /\ Sets(c) => c.table \in Gateways /\ c.v \in {1, 2} /\ c.ns = {}
  /\ ~Sets(c) => c.table \in Tables /\ c.ns \subseteq Names(c.table)
  /\ Adds(c) => \E n \in Nat : c.ns = {n}

Meets(c, d) == c.table = d.table /\ c.ns \cap d.ns # {}

WellOrdered(P) ==
  /\ \A c \in P, d \in P : Adds(c) /\ Adds(d) /\ Meets(c, d) => c = d
  /\ \A c \in P, d \in P : Removes(c) /\ Adds(d) /\ Meets(c, d) => Earlier(c.at, d.at)
  /\ \A c \in P : c.op = "add" =>
       \E d \in P : Removes(d) /\ d.table = c.table /\ c.ns \subseteq d.ns /\ Earlier(d.at, c.at)
  /\ \A c \in P, d \in P : Sets(c) /\ Sets(d) => c.v = d.v

\* The tables a job works on.
Lane(j) == IF j \in Appliers THEN TunnelTables ELSE EgressTables \cup Gateways

Creds == UNION {[S -> Certs] : S \in SUBSET Slots}

LEMMA CredsTyped ==
  ASSUME NEW creds \in Creds
  PROVE  /\ DOMAIN creds \subseteq Slots
         /\ \A s \in DOMAIN creds : creds[s] \in Certs
  BY DEF Creds

LEMMA ConstantTypes ==
  /\ Slots \subseteq AnySlot /\ AnySlot \subseteq Nat /\ 0 \in AnySlot /\ 0 \notin Slots
  /\ Cidrs \subseteq Nat /\ Certs \subseteq Nat /\ 0 \notin Cidrs
  /\ Gateways \cap Tables = {}
  BY ConstantsAssumption DEF Slots, AnySlot, Tables, TunnelTables, EgressTables

LEMMA NamesTyped ==
  ASSUME NEW table
  PROVE  Names(table) \subseteq Nat
  BY ConstantTypes DEF Names

LEMMA AddsTidy ==
  ASSUME NEW at \in Nat \X Nat \X Nat, NEW table \in Tables, NEW n \in Names(table), NEW v \in Nat
  PROVE  /\ Tidy(Upsert(at, table, n, v)) /\ Upsert(at, table, n, v).op = "upsert"
         /\ table = "cidr" => Tidy(Add(at, table, n)) /\ Add(at, table, n).op = "add"
         /\ table = "member" => Tidy(EnsureMember(at, n)) /\ EnsureMember(at, n).op = "ensure"
<1>1. n \in Nat
  BY NamesTyped
<1> QED BY <1>1 DEF Upsert, Add, EnsureMember, Tidy, Adds, Sets, Commands

LEMMA RemovesTidy ==
  ASSUME NEW at \in Nat \X Nat \X Nat, NEW table \in Tables, NEW ns \in SUBSET Names(table)
  PROVE  Tidy(RemoveAll(at, table, ns)) /\ RemoveAll(at, table, ns).op = "remove"
<1>1. ns \in SUBSET Nat
  BY NamesTyped
<1> QED BY <1>1 DEF RemoveAll, Tidy, Adds, Sets, Commands

\* What the programs consist of.
LEMMA InApply ==
  ASSUME NEW creds, NEW c
  PROVE  c \in ApplySlots(creds) <=>
           \/ \E s \in DOMAIN creds : c \in ApplyTunnelOnly(s, creds[s])
           \/ c = RemoveAll(<<2, 0, 1>>, "endpoint", AnySlot \ DOMAIN creds)
           \/ \E s \in AnySlot \ DOMAIN creds : c \in RemoveInterface(s)
  BY DEF ApplySlots

LEMMA InEnable ==
  ASSUME NEW active, NEW cidrs, NEW wan, NEW c
  PROVE  c \in EnableEgress(active, cidrs, wan) <=>
           \/ \E s \in active : c \in EnableSlot(s)
           \/ c = SetDistance(<<2, 0, 1>>, wan, 2)
           \/ c \in SyncBypass(cidrs)
  BY DEF EnableEgress

LEMMA ApplyTidy ==
  ASSUME NEW creds \in Creds, NEW c \in ApplySlots(creds)
  PROVE  Tidy(c) /\ c.op \in {"upsert", "remove"} /\ c.table \in TunnelTables
<1>1. ASSUME NEW s \in DOMAIN creds, c \in ApplyTunnelOnly(s, creds[s])
      PROVE  Tidy(c) /\ c.op \in {"upsert", "remove"} /\ c.table \in TunnelTables
  <2>1. s \in Nat /\ creds[s] \in Nat /\ s \in AnySlot
    BY ConstantTypes, CredsTyped
  <2>2. PICK k \in {1, 2, 3, 4}, table \in TunnelTables, v \in Nat :
          c = Upsert(<<1, s, k>>, table, s, v)
    BY <1>1, <2>1 DEF ApplyTunnelOnly, TunnelTables
  <2>3. s \in Names(table) /\ table \in Tables /\ <<1, s, k>> \in Nat \X Nat \X Nat
    BY <2>1 DEF Names, TunnelTables, Tables
  <2>4. c.table = table
    BY <2>2 DEF Upsert
  <2> QED BY <2>2, <2>3, <2>4, AddsTidy
<1>2. CASE c = RemoveAll(<<2, 0, 1>>, "endpoint", AnySlot \ DOMAIN creds)
  <2>1. "endpoint" \in Tables /\ AnySlot \ DOMAIN creds \in SUBSET Names("endpoint")
    BY DEF Names, Tables, TunnelTables
  <2>2. c.table \in TunnelTables
    BY <1>2 DEF RemoveAll, TunnelTables
  <2> QED BY <1>2, <2>1, <2>2, RemovesTidy
<1>3. ASSUME NEW s \in AnySlot, c \in RemoveInterface(s)
      PROVE  Tidy(c) /\ c.op \in {"upsert", "remove"} /\ c.table \in TunnelTables
  <2>1. PICK k \in {1, 2, 3}, table \in {"peer", "addr", "iface"} :
          c = RemoveAll(<<3, s, k>>, table, {s})
    BY <1>3 DEF RemoveInterface
  <2>2. {s} \in SUBSET Names(table) /\ table \in Tables /\ <<3, s, k>> \in Nat \X Nat \X Nat
    BY ConstantTypes DEF Names, TunnelTables, Tables
  <2>3. c.table \in TunnelTables
    BY <2>1 DEF RemoveAll, TunnelTables
  <2> QED BY <2>1, <2>2, <2>3, RemovesTidy
<1> QED BY <1>1, <1>2, <1>3, InApply

LEMMA BypassTidy ==
  ASSUME NEW cidrs \in SUBSET Cidrs, NEW c \in SyncBypass(cidrs)
  PROVE  Tidy(c) /\ c.table \in BypassTables
<1>0. BypassTables \subseteq Tables
  BY DEF BypassTables, Tables, EgressTables
<1>1. CASE c \in RemoveBypass
  <2>1. PICK k \in {1, 2, 3}, table \in BypassTables : c = RemoveAll(<<3, 0, k>>, table, Names(table))
    BY <1>1 DEF RemoveBypass, BypassTables, Names
  <2>2. c.table = table
    BY <2>1 DEF RemoveAll
  <2> QED BY <1>0, <2>1, <2>2, RemovesTidy
<1>2. ASSUME NEW b \in cidrs, c = Add(<<4, b, 1>>, "cidr", b)
      PROVE  Tidy(c) /\ c.table \in BypassTables
  <2>1. b \in Names("cidr") /\ b \in Nat
    BY ConstantTypes DEF Names
  <2>2. <<4, b, 1>> \in Nat \X Nat \X Nat /\ "cidr" \in Tables /\ 0 \in Nat
    BY <2>1 DEF Tables, EgressTables
  <2>3. c.table = "cidr"
    BY <1>2 DEF Add
  <2> QED BY <1>2, <2>1, <2>2, <2>3, AddsTidy DEF BypassTables
<1>3. CASE c \in {Upsert(<<5, 0, 1>>, "mangle", 0, 0), Upsert(<<5, 0, 2>>, "bypassRoute", 0, 0)}
  <2>1. PICK k \in {1, 2}, table \in {"mangle", "bypassRoute"} : c = Upsert(<<5, 0, k>>, table, 0, 0)
    BY <1>3
  <2>2. 0 \in Names(table) /\ table \in BypassTables /\ <<5, 0, k>> \in Nat \X Nat \X Nat
    BY DEF Names, BypassTables
  <2>3. c.table = table
    BY <2>1 DEF Upsert
  <2> QED BY <1>0, <2>1, <2>2, <2>3, AddsTidy
<1> QED BY <1>1, <1>2, <1>3 DEF SyncBypass

LEMMA DistanceTidy ==
  ASSUME NEW at \in Nat \X Nat \X Nat, NEW wan \in Gateways, NEW d \in {1, 2}
  PROVE  Tidy(SetDistance(at, wan, d)) /\ SetDistance(at, wan, d).table = wan
  BY DEF SetDistance, Tidy, Adds, Sets, Commands

LEMMA EnableTidy ==
  ASSUME NEW active \in SUBSET Slots, NEW cidrs \in SUBSET Cidrs, NEW wan \in Gateways,
         NEW c \in EnableEgress(active, cidrs, wan)
  PROVE  Tidy(c) /\ c.table \in EgressTables \cup Gateways
<1>1. CASE c \in SyncBypass(cidrs)
  BY <1>1, BypassTidy DEF BypassTables, EgressTables
<1>2. CASE c = SetDistance(<<2, 0, 1>>, wan, 2)
  BY <1>2, DistanceTidy
<1>3. ASSUME NEW s \in active, c \in EnableSlot(s)
      PROVE  Tidy(c) /\ c.table \in EgressTables \cup Gateways
  <2>1. s \in AnySlot /\ s \in Nat
    BY ConstantTypes
  <2>2. \A k \in {1, 2, 3} : <<1, s, k>> \in Nat \X Nat \X Nat
    BY <2>1
  <2>3. \A table \in {"member", "route", "masq"} : s \in Names(table) /\ table \in Tables
    BY <2>1 DEF Names, Tables, EgressTables
  <2>4. CASE c = EnsureMember(<<1, s, 1>>, s)
    <3>1. c.table = "member"
      BY <2>4 DEF EnsureMember
    <3> QED BY <2>2, <2>3, <2>4, <3>1, AddsTidy DEF EgressTables
  <2>5. CASE c \in {Upsert(<<1, s, 2>>, "route", s, 0), Upsert(<<1, s, 3>>, "masq", s, 0)}
    <3>1. c.table \in {"route", "masq"}
      BY <2>5 DEF Upsert
    <3> QED BY <2>2, <2>3, <2>5, <3>1, AddsTidy DEF EgressTables
  <2> QED BY <1>3, <2>4, <2>5 DEF EnableSlot
<1> QED BY <1>1, <1>2, <1>3, InEnable

LEMMA DisableTidy ==
  ASSUME NEW wan \in Gateways, NEW c \in DisableEgress(wan)
  PROVE  Tidy(c) /\ c.table \in EgressTables \cup Gateways /\ ~Adds(c)
<1>1. CASE c \in RemoveBypass
  <2>1. Tidy(c) /\ c.table \in BypassTables
    BY <1>1, BypassTidy DEF SyncBypass
  <2> QED BY <1>1, <2>1 DEF RemoveBypass, RemoveAll, Adds, BypassTables, EgressTables
<1>2. CASE c = SetDistance(<<4, 0, 4>>, wan, 1)
  <2>1. ~Adds(c)
    BY <1>2 DEF SetDistance, Adds
  <2> QED BY <1>2, <2>1, DistanceTidy
<1>3. ASSUME NEW k \in {1, 2, 3}, NEW table \in {"route", "masq", "member"},
             c = RemoveAll(<<4, 0, k>>, table, AnySlot)
      PROVE  Tidy(c) /\ c.table \in EgressTables \cup Gateways /\ ~Adds(c)
  <2>1. AnySlot \in SUBSET Names(table) /\ table \in Tables /\ table \in EgressTables
    BY DEF Names, Tables, EgressTables
  <2>2. c.table = table
    BY <1>3 DEF RemoveAll
  <2> QED BY <1>3, <2>1, <2>2, RemovesTidy DEF Adds
<1> QED BY <1>1, <1>2, <1>3 DEF DisableEgress

\* An add is determined by its key.
LEMMA ApplyAdds ==
  ASSUME NEW creds \in Creds, NEW c \in ApplySlots(creds)
  PROVE  /\ Adds(c) => \E s \in DOMAIN creds : c \in ApplyTunnelOnly(s, creds[s]) /\ c.ns = {s}
         /\ Removes(c) => c.ns \cap DOMAIN creds = {}
         /\ ~Sets(c)
<1>1. ASSUME NEW s \in DOMAIN creds, c \in ApplyTunnelOnly(s, creds[s])
      PROVE  Adds(c) /\ c.ns = {s} /\ ~Removes(c) /\ ~Sets(c)
  BY <1>1 DEF ApplyTunnelOnly, Upsert, Adds, Removes, Sets
<1>2. CASE c = RemoveAll(<<2, 0, 1>>, "endpoint", AnySlot \ DOMAIN creds)
  BY <1>2 DEF RemoveAll, Adds, Removes, Sets
<1>3. ASSUME NEW s \in AnySlot \ DOMAIN creds, c \in RemoveInterface(s)
      PROVE  ~Adds(c) /\ c.ns = {s} /\ ~Sets(c)
  BY <1>3 DEF RemoveInterface, RemoveAll, Adds, Sets
<1> QED BY <1>1, <1>2, <1>3, InApply

LEMMA ApplyWellOrdered ==
  ASSUME NEW creds \in Creds
  PROVE  WellOrdered(ApplySlots(creds))
<1> DEFINE P == ApplySlots(creds)
<1>1. ASSUME NEW c \in P, NEW d \in P, Adds(c), Adds(d), Meets(c, d)
      PROVE  c = d
  <2>1. PICK s \in DOMAIN creds : c \in ApplyTunnelOnly(s, creds[s]) /\ c.ns = {s}
    BY <1>1, ApplyAdds
  <2>2. PICK t \in DOMAIN creds : d \in ApplyTunnelOnly(t, creds[t]) /\ d.ns = {t}
    BY <1>1, ApplyAdds
  <2>3. s = t /\ c.table = d.table
    BY <1>1, <2>1, <2>2 DEF Meets
  <2> QED BY <2>1, <2>2, <2>3 DEF ApplyTunnelOnly, Upsert
<1>2. ASSUME NEW c \in P, NEW d \in P, Removes(c), Adds(d)
      PROVE  ~Meets(c, d)
  BY <1>2, ApplyAdds DEF Meets
<1>3. ASSUME NEW c \in P PROVE c.op # "add" /\ ~Sets(c)
  BY <1>3, ApplyTidy, ApplyAdds
<1> HIDE DEF P
<1>4. WellOrdered(P)
  BY <1>1, <1>2, <1>3 DEF WellOrdered
<1> QED BY <1>4 DEF P

\* The bypass list is rebuilt from nothing.
BypassAdds(cidrs) ==
  {Add(<<4, b, 1>>, "cidr", b) : b \in cidrs}
    \cup {Upsert(<<5, 0, 1>>, "mangle", 0, 0), Upsert(<<5, 0, 2>>, "bypassRoute", 0, 0)}

LEMMA InBypass ==
  ASSUME NEW cidrs, NEW c \in SyncBypass(cidrs)
  PROVE  /\ c \in RemoveBypass \/ c \in BypassAdds(cidrs)
         /\ Adds(c) => c \in BypassAdds(cidrs) /\ cidrs # {}
         /\ Removes(c) => c \in RemoveBypass
  BY DEF SyncBypass, RemoveBypass, BypassAdds, RemoveAll, Add, Upsert, Adds, Removes

LEMMA EnableAdds ==
  ASSUME NEW active, NEW cidrs, NEW wan, NEW c \in EnableEgress(active, cidrs, wan)
  PROVE  /\ Adds(c) => \/ \E s \in active : c \in EnableSlot(s)
                       \/ c \in BypassAdds(cidrs)
         /\ Removes(c) => c \in RemoveBypass
         /\ Sets(c) => c = SetDistance(<<2, 0, 1>>, wan, 2)
<1>1. ASSUME NEW s \in active, c \in EnableSlot(s) PROVE ~Removes(c) /\ ~Sets(c)
  BY <1>1 DEF EnableSlot, EnsureMember, Upsert, Removes, Sets
<1>2. CASE c = SetDistance(<<2, 0, 1>>, wan, 2)
  BY <1>2 DEF SetDistance, Adds, Removes
<1>3. CASE c \in SyncBypass(cidrs)
  <2>1. ~Sets(c)
    BY <1>3, InBypass DEF RemoveBypass, BypassAdds, RemoveAll, Add, Upsert, Sets
  <2> QED BY <1>3, <2>1, InBypass
<1> QED BY <1>1, <1>2, <1>3, InEnable

LEMMA EnableWellOrdered ==
  ASSUME NEW active \in SUBSET Slots, NEW cidrs \in SUBSET Cidrs, NEW wan
  PROVE  WellOrdered(EnableEgress(active, cidrs, wan))
<1> DEFINE P == EnableEgress(active, cidrs, wan)
<1>0. ASSUME NEW s, NEW c \in EnableSlot(s)
      PROVE  c.table \in {"member", "route", "masq"} /\ c.ns = {s} /\ c.op # "add"
  BY DEF EnableSlot, EnsureMember, Upsert
<1>a. ASSUME NEW c \in BypassAdds(cidrs)
      PROVE  c.table \in BypassTables
  BY DEF BypassAdds, Add, Upsert, BypassTables
<1>1. ASSUME NEW c \in P, NEW d \in P, Adds(c), Adds(d), Meets(c, d)
      PROVE  c = d
  <2>1. CASE \E s \in active : c \in EnableSlot(s)
    <3>1. PICK s \in active : c \in EnableSlot(s)
      BY <2>1
    <3>2. d \notin BypassAdds(cidrs)
      BY <1>0, <1>1, <1>a, <3>1 DEF Meets, BypassTables
    <3>3. PICK t \in active : d \in EnableSlot(t)
      BY <1>1, <3>2, EnableAdds
    <3>4. s = t /\ c.table = d.table
      BY <1>0, <1>1, <3>1, <3>3 DEF Meets
    <3> QED BY <3>1, <3>3, <3>4 DEF EnableSlot, EnsureMember, Upsert
  <2>2. CASE c \in BypassAdds(cidrs)
    <3>1. d \in BypassAdds(cidrs)
      BY <1>0, <1>1, <1>a, <2>2, EnableAdds DEF Meets, BypassTables
    <3> QED BY <1>1, <2>2, <3>1 DEF BypassAdds, Add, Upsert, Meets
  <2> QED BY <1>1, <2>1, <2>2, EnableAdds
<1>2. ASSUME NEW c \in P, NEW d \in P, Removes(c), Adds(d), Meets(c, d)
      PROVE  Earlier(c.at, d.at)
  <2>1. c \in RemoveBypass
    BY <1>2, EnableAdds
  <2>2. c.at[1] = 3 /\ c.table \in BypassTables
    BY <2>1 DEF RemoveBypass, RemoveAll, BypassTables
  <2>3. d \in BypassAdds(cidrs)
    BY <1>0, <1>2, <2>2, EnableAdds DEF Meets, BypassTables
  <2>4. d.at[1] \in {4, 5}
    BY <2>3 DEF BypassAdds, Add, Upsert
  <2> QED BY <2>2, <2>4 DEF Earlier
<1>3. ASSUME NEW c \in P, c.op = "add"
      PROVE  \E d \in P : Removes(d) /\ d.table = c.table /\ c.ns \subseteq d.ns /\ Earlier(d.at, c.at)
  <2>1. c \in BypassAdds(cidrs)
    BY <1>0, <1>3, EnableAdds DEF Adds
  <2>2. PICK b \in cidrs : c = Add(<<4, b, 1>>, "cidr", b)
    BY <1>3, <2>1 DEF BypassAdds, Upsert
  <2> DEFINE d == RemoveAll(<<3, 0, 1>>, "cidr", Cidrs)
  <2>3. d \in P
    BY InEnable DEF SyncBypass, RemoveBypass
  <2>4. Removes(d) /\ d.table = c.table /\ c.ns \subseteq d.ns /\ d.at[1] = 3 /\ c.at[1] = 4
    BY <2>2 DEF RemoveAll, Add, Removes
  <2>5. Earlier(d.at, c.at)
    BY <2>4 DEF Earlier
  <2> QED BY <2>3, <2>4, <2>5
<1>4. ASSUME NEW c \in P, NEW d \in P, Sets(c), Sets(d)
      PROVE  c.v = d.v
  BY <1>4, EnableAdds
<1> HIDE DEF P
<1>5. WellOrdered(P)
  BY <1>1, <1>2, <1>3, <1>4 DEF WellOrdered
<1> QED BY <1>5 DEF P

LEMMA DisableWellOrdered ==
  ASSUME NEW wan \in Gateways
  PROVE  WellOrdered(DisableEgress(wan))
<1>1. \A c \in DisableEgress(wan) : ~Adds(c)
  BY DisableTidy
<1>2. \A c \in DisableEgress(wan) : Sets(c) => c.v = 1
  BY DEF DisableEgress, RemoveBypass, RemoveAll, SetDistance, Sets
<1> QED BY <1>1, <1>2 DEF WellOrdered, Adds

-----------------------------------------------------------------------------
(* What every step preserves, whatever overlaps. *)

\* A job keeps to its kind and to its tables.
Typed(j) ==
  /\ job[j].kind \in IF j \in Appliers THEN {"idle", "apply"} ELSE {"idle", "enable", "disable"}
  /\ job[j].kind = "idle" => job[j].todo = {}
  /\ job[j].stage = "look" => job[j].ids = {}
  /\ \A c \in job[j].todo : Tidy(c) /\ c.table \in Lane(j)

\* A switch call that none has overlapped is the only one in flight.
SoleInv ==
  \A j \in sole : /\ job[j].kind # "idle"
                  /\ \A k \in Switchers : job[k].kind # "idle" => k = j
                  /\ job[j].kind = "enable" => scope.active # {}

TypeInv == TypeOK /\ FiniteIdsInv /\ (\A j \in Jobs : Typed(j)) /\ SoleInv

-----------------------------------------------------------------------------
(***************************************************************************)
(* What is true of a job that is alone in its tables: an applier when it   *)
(* is the only one there is, a switch call that no other one overlaps.     *)
(***************************************************************************)
OneApplier == \A j, k \in Appliers : j = k
OneSwitcher == \A j, k \in Switchers : j = k

Alone(j) == j \in sole \/ (j \in Appliers /\ OneApplier)

\* The program that job j may be in the middle of.
Program(j, P) ==
  \/ job[j].kind = "apply" /\ P = ApplySlots(job[j].certs)
  \/ /\ job[j].kind = "enable"
     /\ \E wan \in Gateways : P = EnableEgress(scope.active, scope.cidrs, wan)
  \/ job[j].kind = "disable" /\ \E wan \in Gateways : P = DisableEgress(wan)

\* What a command has brought about still holds: a row that was added is
\* there, the rows that were removed are not, save for those added since.
Settled(c, done) ==
  /\ Adds(c) => \A n \in c.ns : Has(c.table, n)
  /\ Removes(c) => \A n \in c.ns : Has(c.table, n) =>
       \E d \in done : Adds(d) /\ d.table = c.table /\ n \in d.ns
  /\ Sets(c) => distance = c.v

\* The job has done some first part of its program.
Underway(j, P) ==
  /\ job[j].todo \subseteq P
  /\ \A c \in job[j].todo, d \in P : Earlier(c.at, d.at) => d \in job[j].todo
  /\ \A c \in P \ job[j].todo : Settled(c, P \ job[j].todo)

\* What the job found when it looked is still so.
Informed(j) ==
  \A c \in job[j].todo : job[j].stage = "write" /\ IsNext(j, c) =>
    /\ Adds(c) /\ job[j].ids = {} => Matched(c) = {}
    /\ Removes(c) => {Id(r) : r \in Matched(c)} \subseteq job[j].ids
    /\ job[j].ids \subseteq {Id(r) : r \in Matched(c)}

AloneInv ==
  \A j \in Jobs : Alone(j) /\ job[j].kind # "idle" =>
    Informed(j) /\ \E P : Program(j, P) /\ Underway(j, P)

\* No key is there twice in a set of tables.
Single(tables) == \A r, q \in rows : r.table = q.table /\ r.n = q.n /\ r.table \in tables => r = q

\* The rows an apply has written hold the values it wrote.
Written(j, P) == \A c \in P \ job[j].todo : Adds(c) => \A r \in Matched(c) : r.v = c.v
Valued == \A j \in Appliers : \A P : Program(j, P) => Written(j, P)

RouterInv ==
  /\ TypeInv
  /\ AloneInv
  /\ OneApplier => Single(TunnelTables) /\ Valued
  /\ OneSwitcher => Single(EgressTables) /\ InFlight \subseteq sole

-----------------------------------------------------------------------------
(* What a step changes. *)

Rows == [table: Tables, n: Nat, copy: Nat, v: Nat]
Ids == Tables \X Nat \X Nat

\* The slots that have a credential are typed like a job's.
LEMMA StoredTyped ==
  ASSUME TypeOK
  PROVE  Stored \in Creds /\ Active \in SUBSET Slots /\ DOMAIN Stored = Active
<1>1. Active \in SUBSET Slots
  <2>1. count \in 1 .. MaxSlots /\ MaxSlots \in Nat
    BY ConstantsAssumption DEF TypeOK, Slots
  <2> QED BY <2>1 DEF Active, Slots
<1>2. Stored \in [Active -> Certs]
  BY <1>1 DEF Stored, Active, TypeOK
<1> QED BY <1>1, <1>2 DEF Creds, Stored

LEMMA IdTyped ==
  ASSUME NEW r \in Rows
  PROVE  Id(r) \in Ids
  BY DEF Id, Rows, Ids

LEMMA JobTyped ==
  ASSUME TypeOK, NEW j \in Jobs
  PROVE  /\ job \in [Jobs -> JobRecords]
         /\ job[j] \in JobRecords
         /\ job[j].todo \in SUBSET Commands
         /\ job[j].ids \in SUBSET Ids
         /\ job[j].certs \in Creds
  BY DEF TypeOK, JobRecords, Ids, Creds

\* A new row bears the key of the command and an id that nobody knows.
LEMMA NewRowTyped ==
  ASSUME TypeOK, FiniteIdsInv, NEW c, Tidy(c), Adds(c)
  PROVE  \E q \in Rows : /\ NewRow(c) = {q}
                         /\ q.table = c.table /\ c.ns = {q.n} /\ q.v = c.v
                         /\ q.n \in Names(q.table)
                         /\ Id(q) \notin KnownIds
<1>1. PICK n \in Nat : c.ns = {n}
  BY DEF Tidy
<1>2. c.table \in Tables /\ n \in Names(c.table) /\ c.v \in Nat
  BY <1>1 DEF Tidy, Adds, Sets, Commands
<1> DEFINE q == [table |-> c.table, n |-> n, copy |-> FreshCopy(c.table, n), v |-> c.v]
<1>3. FreshCopy(c.table, n) \in Nat /\ <<c.table, n, FreshCopy(c.table, n)>> \notin KnownIds
  BY FreshIsFresh
<1>4. q \in Rows /\ Id(q) \notin KnownIds
  BY <1>2, <1>3 DEF Rows, Id
<1>5. NewRow(c) = {q}
  BY <1>1 DEF NewRow
<1> QED BY <1>1, <1>2, <1>4, <1>5

LEMMA NextCommandIs ==
  ASSUME TypeOK, NEW j \in Jobs, NEW c, job' = NextCommand(j, c)
  PROVE  /\ job' \in [Jobs -> JobRecords]
         /\ \A k \in Jobs : k # j => job'[k] = job[k]
         /\ job'[j].kind = job[j].kind /\ job'[j].certs = job[j].certs
         /\ job'[j].todo = job[j].todo \ {c}
         /\ job'[j].stage = "look" /\ job'[j].ids = {}
  BY JobTyped DEF NextCommand, JobRecords

LEMMA IdleTyped == Idle \in JobRecords
<1>1. [s \in {} |-> NoCert] \in [{} -> Certs]
  OBVIOUS
<1> QED BY <1>1 DEF Idle, JobRecords

LEMMA EarlierAsymmetric ==
  ASSUME NEW a \in Nat \X Nat \X Nat, NEW b \in Nat \X Nat \X Nat, Earlier(a, b)
  PROVE  ~Earlier(b, a)
  BY DEF Earlier

LEMMA MatchedTyped ==
  ASSUME TypeOK, FiniteIdsInv, NEW c
  PROVE  /\ Matched(c) \in SUBSET rows /\ rows \in SUBSET Rows
         /\ {Id(r) : r \in Matched(c)} \in SUBSET Ids
         /\ IsFiniteSet({Id(r) : r \in Matched(c)})
<1>1. Matched(c) \in SUBSET rows /\ rows \in SUBSET Rows
  BY DEF Matched, TypeOK, Rows
<1>2. IsFiniteSet(Matched(c))
  BY <1>1, FS_Subset DEF FiniteIdsInv
<1> QED BY <1>1, <1>2, FiniteIds, IdTyped

\* A command changes its own job: it takes the job on, or the job raises.
Onward(j, c) ==
  /\ sole' = sole
  /\ job'[j].kind = job[j].kind /\ job'[j].certs = job[j].certs
  /\ job'[j].todo \in {job[j].todo, job[j].todo \ {c}}

Raises(j, c) ==
  Refused(j, c) /\ job'[j] = Idle /\ sole' = sole \ {j} /\ UNCHANGED <<rows, distance>>

LEMMA CommandJob ==
  ASSUME TypeOK, FiniteIdsInv, NEW j \in Jobs, NEW c \in job[j].todo, Command(j, c)
  PROVE  /\ job' \in [Jobs -> JobRecords]
         /\ \A k \in Jobs : k # j => job'[k] = job[k]
         /\ IsFiniteSet(job'[j].ids)
         /\ job'[j].stage = "look" => job'[j].ids = {}
         /\ Onward(j, c) \/ Raises(j, c)
         /\ UNCHANGED <<config, enabled, scope, losses>>
<1> DEFINE Goal == /\ job' \in [Jobs -> JobRecords]
                   /\ \A k \in Jobs : k # j => job'[k] = job[k]
                   /\ IsFiniteSet(job'[j].ids)
                   /\ job'[j].stage = "look" => job'[j].ids = {}
                   /\ Onward(j, c) \/ Raises(j, c)
                   /\ UNCHANGED <<config, enabled, scope, losses>>
<1> USE JobTyped
<1>0. IsFiniteSet({}) /\ \A x : IsFiniteSet({x})
  BY FS_EmptySet, FS_Singleton
<1>1. ASSUME job' = NextCommand(j, c), UNCHANGED <<config, enabled, scope, losses, sole>>
      PROVE  Goal
  BY <1>0, <1>1, NextCommandIs DEF Onward
<1>2. ASSUME NEW ids \in SUBSET Ids, IsFiniteSet(ids),
             job' = [job EXCEPT ![j].stage = "write", ![j].ids = ids],
             UNCHANGED <<config, enabled, scope, losses, sole>>
      PROVE  Goal
  BY <1>2 DEF Onward, JobRecords, Ids
<1>3. ASSUME job' = [job EXCEPT ![j].stage = "write"],
             UNCHANGED <<config, enabled, scope, losses, sole>>
      PROVE  Goal
  <2>1. IsFiniteSet(job'[j].ids)
    BY <1>3 DEF FiniteIdsInv, JobRecords
  <2> QED BY <1>3, <2>1 DEF Onward, JobRecords
<1>4. CASE Look(j, c)
  <2>1. \A r \in Matched(c) : {Id(r)} \in SUBSET Ids
    BY MatchedTyped, IdTyped
  <2>2. UNCHANGED <<config, enabled, scope, losses, sole>>
    BY <1>4 DEF Look, history
  <2>3. \/ job' = NextCommand(j, c)
        \/ job' = [job EXCEPT ![j].stage = "write"]
        \/ \E r \in Matched(c) : job' = [job EXCEPT ![j].stage = "write", ![j].ids = {Id(r)}]
        \/ job' = [job EXCEPT ![j].stage = "write", ![j].ids = {Id(r) : r \in Matched(c)}]
    BY <1>4 DEF Look
  <2> QED BY <1>0, <1>1, <1>2, <1>3, <2>1, <2>2, <2>3, MatchedTyped
<1>5. CASE AddRow(j, c) \/ UpdateRow(j, c) \/ UpdateDistance(j, c)
  BY <1>1, <1>5 DEF AddRow, UpdateRow, UpdateDistance, history
<1>6. CASE RemoveRow(j, c)
  <2>1. PICK r \in Matched(c) : job' = IF job[j].ids = {Id(r)} THEN NextCommand(j, c)
                                       ELSE [job EXCEPT ![j].ids = @ \ {Id(r)}]
    BY <1>6 DEF RemoveRow
  <2>2. UNCHANGED <<config, enabled, scope, losses, sole>>
    BY <1>6 DEF RemoveRow, history
  <2>3. CASE job' = [job EXCEPT ![j].ids = @ \ {Id(r)}]
    <3>1. job'[j].ids = job[j].ids \ {Id(r)}
      BY <2>3 DEF JobRecords
    <3>2. IsFiniteSet(job'[j].ids)
      BY <3>1, FS_Subset DEF FiniteIdsInv
    <3>3. job'[j].stage = "write"
      BY <1>6, <2>3 DEF RemoveRow, JobRecords
    <3> QED BY <2>2, <2>3, <3>2, <3>3 DEF Onward, JobRecords
  <2> QED BY <1>1, <2>1, <2>2, <2>3
<1>7. CASE Refused(j, c)
  <2>1. job' = [job EXCEPT ![j] = Idle] /\ sole' = sole \ {j}
          /\ UNCHANGED <<rows, distance, config, enabled, scope, losses>>
    BY <1>7 DEF Refused, Raise
  <2>2. job'[j] = Idle /\ job' \in [Jobs -> JobRecords]
    BY <2>1, IdleTyped
  <2>3. IsFiniteSet(job'[j].ids) /\ job'[j].ids = {}
    BY <1>0, <2>2 DEF Idle
  <2> QED BY <1>7, <2>1, <2>2, <2>3 DEF Raises
<1> QED BY <1>4, <1>5, <1>6, <1>7 DEF Command

\* ... and rows of its own table, or the distance.
LEMMA CommandRows ==
  ASSUME TypeOK, FiniteIdsInv, NEW j, NEW c, Tidy(c), Command(j, c)
  PROVE  /\ rows' \in SUBSET Rows
         /\ IsFiniteSet(rows')
         /\ \A r \in rows' : r.n \in Names(r.table)
         /\ \A r, q \in rows' : Id(r) = Id(q) => r = q
         /\ distance' # distance => Sets(c) /\ distance' = c.v
         /\ \A r \in Rows : r.table # c.table => (r \in rows' <=> r \in rows)
<1> DEFINE Goal == /\ rows' \in SUBSET Rows
                   /\ IsFiniteSet(rows')
                   /\ \A r \in rows' : r.n \in Names(r.table)
                   /\ \A r, q \in rows' : Id(r) = Id(q) => r = q
                   /\ distance' # distance => Sets(c) /\ distance' = c.v
                   /\ \A r \in Rows : r.table # c.table => (r \in rows' <=> r \in rows)
<1>0. /\ rows \in SUBSET Rows
      /\ \A r \in rows : r.n \in Names(r.table)
      /\ \A r, q \in rows : Id(r) = Id(q) => r = q
      /\ IsFiniteSet(rows)
  BY DEF TypeOK, Rows, FiniteIdsInv
<1>1. CASE rows' = rows
  <2>1. distance' # distance => Sets(c) /\ distance' = c.v
    BY DEF Command, Look, AddRow, UpdateRow, RemoveRow, UpdateDistance, Refused, Sets
  <2> QED BY <1>0, <1>1, <2>1
<1>2. CASE AddRow(j, c)
  <2>1. Adds(c)
    BY <1>2 DEF AddRow, Adds
  <2>2. PICK q \in Rows : /\ NewRow(c) = {q} /\ q.table = c.table
                          /\ q.n \in Names(q.table) /\ Id(q) \notin KnownIds
    BY <2>1, NewRowTyped
  <2>3. rows' = rows \cup {q} /\ distance' = distance
    BY <1>2, <2>2 DEF AddRow
  <2>4. \A r \in rows : Id(r) # Id(q)
    BY <2>2 DEF KnownIds
  <2>5. IsFiniteSet(rows')
    BY <1>0, <2>3, FS_AddElement
  <2> QED BY <1>0, <2>2, <2>3, <2>4, <2>5
<1>3. CASE UpdateRow(j, c)
  <2>1. PICK r \in Matched(c) : rows' = (rows \ {r}) \cup {[r EXCEPT !.v = c.v]}
    BY <1>3 DEF UpdateRow
  <2> DEFINE q == [r EXCEPT !.v = c.v]
  <2>2. r \in rows /\ r \in Rows /\ r.table = c.table /\ distance' = distance
    BY <1>0, <1>3, <2>1 DEF Matched, UpdateRow
  <2>3. q \in Rows /\ q.table = r.table /\ q.n = r.n /\ Id(q) = Id(r)
    BY <2>2 DEF Rows, Id, Tidy, Commands
  <2>4. IsFiniteSet(rows')
    BY <1>0, <2>1, FS_AddElement, FS_RemoveElement
  <2> HIDE DEF q
  <2>5. rows' = (rows \ {r}) \cup {q}
    BY <2>1 DEF q
  <2> QED BY <1>0, <2>2, <2>3, <2>4, <2>5
<1>4. CASE RemoveRow(j, c)
  <2>1. PICK r \in Matched(c) : rows' = rows \ {r}
    BY <1>4 DEF RemoveRow
  <2>2. r.table = c.table /\ distance' = distance
    BY <1>4, <2>1 DEF Matched, RemoveRow
  <2>3. IsFiniteSet(rows')
    BY <1>0, <2>1, FS_RemoveElement
  <2> QED BY <1>0, <2>1, <2>2, <2>3
<1> QED BY <1>1, <1>2, <1>3, <1>4 DEF Command, Look, UpdateDistance, Refused

-----------------------------------------------------------------------------
(* Types. *)

LEMMA TypeInit == Init => TypeInv
<1> SUFFICES ASSUME Init PROVE TypeInv
  OBVIOUS
<1>1. ASSUME NEW tables \in SUBSET Tables, NEW n \in {0, 1}, IsFiniteSet(tables)
      PROVE  /\ OldRows(tables, n) \in SUBSET Rows
             /\ \A r \in OldRows(tables, n) : r.table \in tables /\ r.n = n /\ r.copy = 0
             /\ \A r, q \in OldRows(tables, n) : r.table = q.table => r = q
             /\ IsFiniteSet(OldRows(tables, n))
  <2> DEFINE f == [t \in tables |-> [table |-> t, n |-> n, copy |-> 0, v |-> 0]]
  <2>1. f \in Surjection(tables, OldRows(tables, n))
    BY DEF OldRows, Surjection
  <2>2. IsFiniteSet(OldRows(tables, n))
    BY <1>1, <2>1, FS_Surjection
  <2> QED BY <2>2 DEF OldRows, Rows
<1>2. IsFiniteSet(TunnelTables) /\ IsFiniteSet({"route", "masq", "member"})
  <2>1. IsFiniteSet({"peer"}) /\ IsFiniteSet({"route"}) /\ IsFiniteSet({})
    BY FS_Singleton, FS_EmptySet
  <2>2. IsFiniteSet({"peer"} \cup {"iface"}) /\ IsFiniteSet({"route"} \cup {"masq"})
    BY <2>1, FS_AddElement
  <2>3. IsFiniteSet(({"peer"} \cup {"iface"}) \cup {"addr"})
          /\ IsFiniteSet(({"route"} \cup {"masq"}) \cup {"member"})
    BY <2>2, FS_AddElement
  <2>4. IsFiniteSet((({"peer"} \cup {"iface"}) \cup {"addr"}) \cup {"endpoint"})
    BY <2>3, FS_AddElement
  <2>5. TunnelTables = (({"peer"} \cup {"iface"}) \cup {"addr"}) \cup {"endpoint"}
          /\ {"route", "masq", "member"} = ({"route"} \cup {"masq"}) \cup {"member"}
    BY DEF TunnelTables
  <2> QED BY <2>3, <2>4, <2>5
<1>3. 0 \in AnySlot /\ 1 \in AnySlot
  BY ConstantsAssumption DEF AnySlot
<1>4. \A t \in TunnelTables \cup {"route", "masq", "member"} : Names(t) = AnySlot /\ t \in Tables
  BY DEF Names, TunnelTables, EgressTables, Tables
<1>5. /\ rows \in SUBSET Rows
      /\ \A r \in rows : r.n \in Names(r.table) /\ r.copy = 0
      /\ \A r, q \in rows : r.table = q.table => r = q
      /\ IsFiniteSet(rows)
  <2>1. \A R \in {LegacyTunnel, DeletedTunnel, LegacyEgress} :
          /\ R \in SUBSET Rows
          /\ \A r \in R : r.n \in Names(r.table) /\ r.copy = 0
          /\ \A r, q \in R : r.table = q.table => r = q
          /\ IsFiniteSet(R)
    BY <1>1, <1>2, <1>3, <1>4 DEF LegacyTunnel, DeletedTunnel, LegacyEgress, Tables
  <2>2. \A r \in LegacyTunnel, q \in LegacyEgress : r.table # q.table
    BY <1>1, <1>2, <1>4 DEF LegacyTunnel, LegacyEgress, Tables, TunnelTables
  <2>3. CASE rows = LegacyTunnel \cup LegacyEgress
    <3>1. IsFiniteSet(rows)
      BY <2>1, <2>3, FS_Union
    <3> QED BY <2>1, <2>2, <2>3, <3>1
  <2>4. CASE rows \in {{}, LegacyTunnel, DeletedTunnel}
    BY <2>1, <2>4, FS_EmptySet
  <2> QED BY <2>3, <2>4 DEF Init
<1>6. \A r, q \in rows : Id(r) = Id(q) => r = q
  BY <1>5 DEF Id
<1>7. job \in [Jobs -> JobRecords]
        /\ \A j \in Jobs : job[j].kind = "idle" /\ job[j].todo = {} /\ job[j].ids = {}
  BY IdleTyped DEF Init, Idle
<1>8. TypeOK
  BY <1>5, <1>6, <1>7 DEF Init, TypeOK, Rows
<1>9. \A j \in Jobs : Typed(j)
  BY <1>7 DEF Typed
<1>10. SoleInv
  BY DEF Init, SoleInv
<1> QED BY <1>5, <1>7, <1>8, <1>9, <1>10, FS_EmptySet DEF TypeInv, FiniteIdsInv

\* A call that begins has a program for its own tables.
LEMMA BeginTyped ==
  ASSUME TypeInv, NEW j \in Jobs, NEW P, NEW creds \in Creds,
         NEW kind \in IF j \in Appliers THEN {"apply"} ELSE {"enable", "disable"},
         \A c \in P : Tidy(c) /\ c.table \in Lane(j),
         job' = [job EXCEPT ![j] = [Idle EXCEPT !.kind = kind, !.todo = P, !.certs = creds]]
  PROVE  /\ job' \in [Jobs -> JobRecords]
         /\ job'[j].kind = kind /\ job'[j].todo = P /\ job'[j].certs = creds
         /\ job'[j].stage = "look" /\ job'[j].ids = {}
         /\ \A k \in Jobs : k # j => job'[k] = job[k]
         /\ \A k \in Jobs : Typed(k)' /\ IsFiniteSet(job'[k].ids)
<1> DEFINE rec == [Idle EXCEPT !.kind = kind, !.todo = P, !.certs = creds]
<1>1. P \in SUBSET Commands /\ kind \in {"apply", "enable", "disable"}
  BY DEF Tidy
<1>2. rec \in JobRecords /\ rec.kind = kind /\ rec.todo = P /\ rec.certs = creds
        /\ rec.stage = "look" /\ rec.ids = {}
  BY <1>1 DEF Idle, JobRecords, Creds
<1> HIDE DEF rec
<1>3. job' = [job EXCEPT ![j] = rec] /\ job \in [Jobs -> JobRecords]
  BY DEF rec, TypeInv, TypeOK
<1>4. /\ job' \in [Jobs -> JobRecords] /\ job'[j] = rec
      /\ \A k \in Jobs : k # j => job'[k] = job[k]
  BY <1>2, <1>3
<1>5. \A k \in Jobs : Typed(k)'
  <2>1. Typed(j)'
    <3>1. job'[j].kind = kind /\ job'[j].todo = P /\ job'[j].ids = {}
      BY <1>2, <1>4
    <3>2. job'[j].kind # "idle" /\ j \in Appliers => job'[j].kind = "apply"
      BY <3>1
    <3>3. j \notin Appliers => job'[j].kind \in {"enable", "disable"}
      BY <3>1
    <3>4. job'[j].kind # "idle"
      BY <1>1, <3>1
    <3>5. \A c \in job'[j].todo : Tidy(c) /\ c.table \in Lane(j)
      BY <3>1
    <3>6. job'[j].kind \in IF j \in Appliers THEN {"idle", "apply"} ELSE {"idle", "enable", "disable"}
      BY <3>2, <3>3, <3>4
    <3> QED BY <3>1, <3>4, <3>5, <3>6 DEF Typed
  <2>2. ASSUME NEW k \in Jobs, k # j PROVE Typed(k)'
    BY <1>4, <2>2 DEF Typed, TypeInv
  <2> QED BY <2>1, <2>2
<1>6. \A k \in Jobs : IsFiniteSet(job'[k].ids)
  BY <1>2, <1>4, FS_EmptySet DEF TypeInv, FiniteIdsInv
<1> QED BY <1>2, <1>4, <1>5, <1>6

\* A switch call is not overlapped at its start if none is in flight.
LEMMA EnterSole ==
  ASSUME TypeInv, NEW j \in Switchers, Enter(j), job[j].kind = "idle", job'[j].kind # "idle",
         \A k \in Jobs : k # j => job'[k] = job[k],
         job'[j].kind = "enable" => scope'.active # {}
  PROVE  SoleInv' /\ sole' \in SUBSET {j}
<1>1. sole' \in SUBSET {j}
  BY DEF Enter
<1>2. ASSUME j \in sole' PROVE \A k \in Switchers : job'[k].kind # "idle" => k = j
  BY <1>2 DEF Enter, InFlight, Jobs
<1> QED BY <1>1, <1>2 DEF SoleInv

LEMMA BeginTypes ==
  ASSUME TypeInv, NEW j \in Jobs, BeginApply(j) \/ BeginEnable(j) \/ BeginDisable(j)
  PROVE  TypeInv'
<1> USE StoredTyped DEF TypeInv
<1>1. CASE BeginApply(j)
  <2>1. \A c \in ApplySlots(Stored) : Tidy(c) /\ c.table \in Lane(j)
    BY <1>1, ApplyTidy DEF BeginApply, Lane
  <2>2. /\ job' \in [Jobs -> JobRecords]
        /\ \A k \in Jobs : k # j => job'[k] = job[k]
        /\ \A k \in Jobs : Typed(k)' /\ IsFiniteSet(job'[k].ids)
    BY <1>1, <2>1, BeginTyped DEF BeginApply
  <2>3. UNCHANGED <<rows, distance, certs, count, bypass, gateway, enabled, scope, sole, losses>>
    BY <1>1 DEF BeginApply, config, history
  <2>4. j \notin Switchers
    BY <1>1, ConstantsAssumption DEF BeginApply
  <2>5. TypeOK'
    BY <2>2, <2>3 DEF TypeOK
  <2>6. SoleInv'
    BY <2>2, <2>3, <2>4 DEF SoleInv, TypeOK, Jobs
  <2> QED BY <2>2, <2>3, <2>5, <2>6 DEF FiniteIdsInv
<1>2. CASE BeginEnable(j)
  <2> DEFINE P == EnableEgress(Active, bypass, gateway)
  <2>0. j \notin Appliers /\ j \in Switchers
    BY <1>2, ConstantsAssumption DEF BeginEnable
  <2>1. \A c \in P : Tidy(c) /\ c.table \in Lane(j)
    BY <2>0, EnableTidy DEF TypeOK, Lane
  <2>2. /\ job' \in [Jobs -> JobRecords] /\ job'[j].kind = "enable"
        /\ \A k \in Jobs : k # j => job'[k] = job[k]
        /\ \A k \in Jobs : Typed(k)' /\ IsFiniteSet(job'[k].ids)
    BY <1>2, <2>0, <2>1, BeginTyped DEF BeginEnable
  <2>3. /\ UNCHANGED <<rows, distance, certs, count, bypass, gateway, enabled, losses>>
        /\ scope' = [active |-> Active, cidrs |-> bypass] /\ Active # {} /\ Enter(j)
        /\ job[j].kind = "idle"
    BY <1>2 DEF BeginEnable, config
  <2>4. SoleInv' /\ sole' \in SUBSET {j}
    BY <2>0, <2>2, <2>3, EnterSole
  <2>5. TypeOK'
    BY <2>0, <2>2, <2>3, <2>4 DEF TypeOK
  <2> QED BY <2>2, <2>3, <2>4, <2>5 DEF FiniteIdsInv
<1>3. CASE BeginDisable(j)
  <2> DEFINE P == DisableEgress(gateway)
             none == Idle.certs
  <2>0. j \notin Appliers /\ j \in Switchers
    BY <1>3, ConstantsAssumption DEF BeginDisable
  <2>1. \A c \in P : Tidy(c) /\ c.table \in Lane(j)
    BY <2>0, DisableTidy DEF TypeOK, Lane
  <2>2. none \in Creds
    BY IdleTyped DEF JobRecords, Creds
  <2>3. job' = [job EXCEPT ![j] = [Idle EXCEPT !.kind = "disable", !.todo = P, !.certs = none]]
    BY <1>3 DEF BeginDisable, Idle
  <2>4. /\ job' \in [Jobs -> JobRecords] /\ job'[j].kind = "disable"
        /\ \A k \in Jobs : k # j => job'[k] = job[k]
        /\ \A k \in Jobs : Typed(k)' /\ IsFiniteSet(job'[k].ids)
    <3> HIDE DEF P, none
    <3> QED BY <2>0, <2>1, <2>2, <2>3, BeginTyped
  <2>5. /\ UNCHANGED <<rows, distance, certs, count, bypass, gateway, enabled, losses, scope>>
        /\ Enter(j) /\ job[j].kind = "idle"
    BY <1>3 DEF BeginDisable, config
  <2>6. SoleInv' /\ sole' \in SUBSET {j}
    BY <2>0, <2>4, <2>5, EnterSole
  <2>7. TypeOK'
    BY <2>0, <2>4, <2>5, <2>6 DEF TypeOK
  <2> QED BY <2>4, <2>5, <2>6, <2>7 DEF FiniteIdsInv
<1> QED BY <1>1, <1>2, <1>3

\* The job of a call that ends keeps nothing.
LEMMA EndTypes ==
  ASSUME TypeInv, NEW j \in Jobs, job' = [job EXCEPT ![j] = Idle], sole' = sole \ {j},
         UNCHANGED <<rows, distance, config, scope>>, enabled' \in BOOLEAN
  PROVE  TypeInv'
<1>1. job' \in [Jobs -> JobRecords] /\ job'[j] = Idle /\ \A k \in Jobs : k # j => job'[k] = job[k]
  BY IdleTyped DEF TypeInv, TypeOK
<1>2. TypeOK'
  BY <1>1 DEF TypeInv, TypeOK, config
<1>3. \A k \in Jobs : Typed(k)'
  BY <1>1 DEF TypeInv, Typed, Idle
<1>4. FiniteIdsInv'
  BY <1>1, FS_EmptySet DEF TypeInv, FiniteIdsInv, Idle
<1>5. SoleInv'
  BY <1>1 DEF TypeInv, SoleInv, TypeOK, Jobs, Idle
<1> QED BY <1>2, <1>3, <1>4, <1>5 DEF TypeInv

LEMMA CommandTypes ==
  ASSUME TypeInv, NEW j \in Jobs, NEW c \in job[j].todo, Command(j, c)
  PROVE  TypeInv'
<1>0. TypeOK /\ FiniteIdsInv /\ Tidy(c) /\ job[j].kind # "idle" /\ Typed(j)
  BY DEF TypeInv, Typed
<1>1. /\ job' \in [Jobs -> JobRecords]
      /\ \A k \in Jobs : k # j => job'[k] = job[k]
      /\ IsFiniteSet(job'[j].ids)
      /\ job'[j].stage = "look" => job'[j].ids = {}
      /\ Onward(j, c) \/ Raises(j, c)
      /\ UNCHANGED <<config, enabled, scope, losses>>
  BY <1>0, CommandJob
<1>2. /\ rows' \in SUBSET Rows
      /\ IsFiniteSet(rows')
      /\ \A r \in rows' : r.n \in Names(r.table)
      /\ \A r, q \in rows' : Id(r) = Id(q) => r = q
      /\ distance' # distance => Sets(c) /\ distance' = c.v
  BY <1>0, CommandRows
<1>3. distance' \in {1, 2}
  BY <1>0, <1>2 DEF Tidy, TypeOK
<1>4. sole' \in {sole, sole \ {j}}
  BY <1>1 DEF Onward, Raises
<1>5. TypeOK'
  BY <1>0, <1>1, <1>2, <1>3, <1>4 DEF TypeOK, config, Rows
<1>6. FiniteIdsInv'
  BY <1>0, <1>1, <1>2 DEF FiniteIdsInv
<1>7. Typed(j)'
  BY <1>0, <1>1 DEF Typed, Onward, Raises, Idle
<1>8. \A k \in Jobs : Typed(k)'
  BY <1>1, <1>7 DEF TypeInv, Typed
<1>9. SoleInv'
  <2>1. CASE Onward(j, c)
    BY <1>0, <1>1, <2>1 DEF Onward, TypeInv, SoleInv, TypeOK, Jobs
  <2>2. CASE Raises(j, c)
    BY <1>0, <1>1, <2>2 DEF Raises, TypeInv, SoleInv, TypeOK, Jobs, Idle
  <2> QED BY <1>1, <2>1, <2>2
<1> QED BY <1>5, <1>6, <1>8, <1>9 DEF TypeInv

LEMMA TypeStep == TypeInv /\ [Next]_vars => TypeInv'
<1> SUFFICES ASSUME TypeInv, [Next]_vars PROVE TypeInv'
  OBVIOUS
<1>1. ASSUME NEW j \in Jobs, BeginApply(j) \/ BeginEnable(j) \/ BeginDisable(j)
      PROVE  TypeInv'
  BY <1>1, BeginTypes
<1>2. ASSUME NEW j \in Jobs, Finish(j) PROVE TypeInv'
  <2>1. enabled' \in BOOLEAN
    BY <1>2 DEF Finish, TypeInv, TypeOK
  <2> QED BY <1>2, <2>1, EndTypes DEF Finish
<1>3. ASSUME NEW j \in Jobs, NEW c \in job[j].todo, Command(j, c) PROVE TypeInv'
  BY <1>3, CommandTypes
<1>4. ASSUME NEW j \in Jobs, Lost(j) PROVE TypeInv'
  <2>1. enabled' \in BOOLEAN
    BY <1>4 DEF Lost, TypeInv, TypeOK
  <2> QED BY <1>4, <2>1, EndTypes DEF Lost, Raise
<1>5. ASSUME UNCHANGED <<rows, distance, enabled, job, history>>,
             (certs \in [Slots -> Certs \cup {NoCert}])', (count \in Slots)', (bypass \subseteq Cidrs)',
             (gateway \in Gateways)'
      PROVE  TypeInv'
  BY <1>5 DEF history, TypeInv, TypeOK, FiniteIdsInv, Typed, SoleInv
<1>6. ASSUME NEW s \in Slots, NEW c \in Certs, Provision(s, c) PROVE TypeInv'
  BY <1>5, <1>6 DEF Provision, TypeInv, TypeOK
<1>7. ASSUME NEW n \in Slots, NEW b \in SUBSET Cidrs, NEW wan \in Gateways, Configure(n, b, wan)
      PROVE  TypeInv'
  BY <1>5, <1>7 DEF Configure, TypeInv, TypeOK
<1>8. CASE UNCHANGED vars
  BY <1>5, <1>8 DEF vars, config, TypeInv, TypeOK
<1> QED BY <1>1, <1>2, <1>3, <1>4, <1>6, <1>7, <1>8 DEF Next, Step

THEOREM TypesHold == Spec => []TypeInv
<1> QED BY TypeInit, TypeStep, PTL DEF Spec

\* What the router, the options and the jobs hold is of its type: every row
\* bears a key the code can name, no two have one id, and a job that runs has
\* commands of mikrotik_wg.py to do.
THEOREM TypeCorrect == Spec => []TypeOK
<1>1. TypeInv => TypeOK
  BY DEF TypeInv
<1> QED BY <1>1, TypesHold, PTL

-----------------------------------------------------------------------------
(* A job alone in its tables. *)

\* What holds of every program.
LEMMA ProgramTyped ==
  ASSUME TypeInv, NEW j \in Jobs, NEW P, Program(j, P)
  PROVE  WellOrdered(P) /\ \A c \in P : Tidy(c) /\ c.table \in Lane(j)
<1>1. Typed(j) /\ TypeOK
  BY DEF TypeInv
<1>2. CASE job[j].kind = "apply" /\ P = ApplySlots(job[j].certs)
  <2>1. j \in Appliers
    BY <1>1, <1>2 DEF Typed
  <2> QED BY <1>1, <1>2, <2>1, JobTyped, ApplyTidy, ApplyWellOrdered DEF Lane
<1>3. CASE /\ job[j].kind = "enable"
           /\ \E wan \in Gateways : P = EnableEgress(scope.active, scope.cidrs, wan)
  <2>1. j \notin Appliers
    BY <1>1, <1>3 DEF Typed
  <2>2. scope.active \in SUBSET Slots /\ scope.cidrs \in SUBSET Cidrs
    BY <1>1 DEF TypeOK
  <2> QED BY <1>3, <2>1, <2>2, EnableTidy, EnableWellOrdered DEF Lane
<1>4. CASE job[j].kind = "disable" /\ \E wan \in Gateways : P = DisableEgress(wan)
  <2>1. j \notin Appliers
    BY <1>1, <1>4 DEF Typed
  <2> QED BY <1>4, <2>1, DisableTidy, DisableWellOrdered DEF Lane
<1> QED BY <1>2, <1>3, <1>4 DEF Program

\* There is one next command.
LEMMA NextIsOne ==
  ASSUME NEW j, NEW c, NEW d, Tidy(c), Tidy(d), IsNext(j, c), IsNext(j, d)
  PROVE  c = d
<1> SUFFICES ASSUME c # d PROVE FALSE
  OBVIOUS
<1>1. Earlier(c.at, d.at) /\ Earlier(d.at, c.at)
  BY DEF IsNext
<1>2. c.at \in Nat \X Nat \X Nat /\ d.at \in Nat \X Nat \X Nat
  BY DEF Tidy, Commands
<1> QED BY <1>1, <1>2, EarlierAsymmetric

\* A command adds or removes keys that it is for, as its kind says.
LEMMA CommandKeys ==
  ASSUME TypeInv, NEW j \in Jobs, NEW c \in job[j].todo, Command(j, c), NEW t, NEW n
  PROVE  /\ Has(t, n)' /\ ~Has(t, n) => Adds(c) /\ t = c.table /\ n \in c.ns
         /\ Has(t, n) /\ ~Has(t, n)' => Removes(c) /\ t = c.table /\ n \in c.ns
<1>0. TypeOK /\ FiniteIdsInv /\ Tidy(c)
  BY DEF TypeInv, Typed
<1>1. CASE rows' = rows
  BY <1>1 DEF Has, At
<1>2. CASE AddRow(j, c)
  <2>1. Adds(c) /\ rows' = rows \cup NewRow(c)
    BY <1>2 DEF AddRow, Adds
  <2>2. PICK q \in Rows : NewRow(c) = {q} /\ q.table = c.table /\ c.ns = {q.n}
    BY <1>0, <2>1, NewRowTyped
  <2> QED BY <2>1, <2>2 DEF Has, At
<1>3. CASE UpdateRow(j, c)
  <2>1. PICK r \in Matched(c) : rows' = (rows \ {r}) \cup {[r EXCEPT !.v = c.v]}
    BY <1>3 DEF UpdateRow
  <2>2. r \in rows /\ r \in Rows
    BY <1>0, MatchedTyped
  <2>3. [r EXCEPT !.v = c.v].table = r.table /\ [r EXCEPT !.v = c.v].n = r.n
    BY <2>2 DEF Rows
  <2> QED BY <2>1, <2>2, <2>3 DEF Has, At
<1>4. CASE RemoveRow(j, c)
  <2>1. PICK r \in Matched(c) : rows' = rows \ {r}
    BY <1>4 DEF RemoveRow
  <2> QED BY <1>4, <2>1 DEF Has, At, Matched, RemoveRow, Removes
<1> QED BY <1>1, <1>2, <1>3, <1>4 DEF Command, Look, UpdateDistance, Refused

\* A command that has been carried out has brought about what it is for.
LEMMA CommandDone ==
  ASSUME TypeInv, NEW j \in Jobs, NEW c \in job[j].todo, IsNext(j, c), Informed(j),
         Command(j, c), Onward(j, c), c \notin job'[j].todo
  PROVE  /\ Adds(c) => \A n \in c.ns : Has(c.table, n)'
         /\ Removes(c) => \A n \in c.ns : ~Has(c.table, n)'
         /\ Sets(c) => distance' = c.v
<1>0. TypeOK /\ FiniteIdsInv /\ Tidy(c) /\ Typed(j) /\ job[j].todo # {}
  BY DEF TypeInv, Typed
<1>1. CASE Look(j, c)
  <2>1. job' = NextCommand(j, c)
    BY <1>0, <1>1, JobTyped DEF Look, JobRecords
  <2>2. ~ (job' = [job EXCEPT ![j].stage = "write"])
    BY <1>0, JobTyped DEF JobRecords
  <2>3. \A i : ~ (job' = [job EXCEPT ![j].stage = "write", ![j].ids = i])
    BY <1>0, JobTyped DEF JobRecords
  <2>4. (c.op = "ensure" /\ Matched(c) # {}) \/ (c.op = "remove" /\ Matched(c) = {})
    BY <1>1, <2>2, <2>3 DEF Look
  <2>5. rows' = rows
    BY <1>1 DEF Look
  <2>6. Adds(c) => \E n \in Nat : c.ns = {n}
    BY <1>0 DEF Tidy
  <2> QED BY <2>4, <2>5, <2>6 DEF Adds, Removes, Sets, Has, At, Matched
<1>2. CASE AddRow(j, c)
  <2>1. Adds(c) /\ ~Removes(c) /\ ~Sets(c) /\ rows' = rows \cup NewRow(c)
    BY <1>2 DEF AddRow, Adds, Removes, Sets
  <2>2. PICK q \in Rows : NewRow(c) = {q} /\ q.table = c.table /\ c.ns = {q.n}
    BY <1>0, <2>1, NewRowTyped
  <2> QED BY <2>1, <2>2 DEF Has, At
<1>3. CASE UpdateRow(j, c)
  <2>1. PICK r \in Matched(c) : rows' = (rows \ {r}) \cup {[r EXCEPT !.v = c.v]}
    BY <1>3 DEF UpdateRow
  <2>2. r \in rows /\ r \in Rows /\ r.table = c.table /\ r.n \in c.ns
    BY <1>0, MatchedTyped DEF Matched
  <2>3. [r EXCEPT !.v = c.v].table = r.table /\ [r EXCEPT !.v = c.v].n = r.n
    BY <2>2 DEF Rows
  <2>4. Adds(c) /\ ~Removes(c) /\ ~Sets(c)
    BY <1>3 DEF UpdateRow, Adds, Removes, Sets
  <2>5. PICK n \in Nat : c.ns = {n}
    BY <1>0, <2>4 DEF Tidy
  <2> QED BY <2>1, <2>2, <2>3, <2>4, <2>5 DEF Has, At
<1>4. CASE RemoveRow(j, c)
  <2>1. PICK r \in Matched(c) : /\ rows' = rows \ {r}
                                /\ job' = IF job[j].ids = {Id(r)} THEN NextCommand(j, c)
                                          ELSE [job EXCEPT ![j].ids = @ \ {Id(r)}]
    BY <1>4 DEF RemoveRow
  <2>2. job[j].ids = {Id(r)}
    BY <1>0, <2>1, JobTyped DEF JobRecords
  <2>3. {Id(q) : q \in Matched(c)} \subseteq {Id(r)} /\ Removes(c) /\ ~Adds(c) /\ ~Sets(c)
    BY <1>4, <2>2 DEF Informed, RemoveRow, Removes, Adds, Sets
  <2>4. \A q \in Matched(c) : q = r
    <3>1. \A q \in Matched(c) : Id(q) = Id(r) /\ q \in rows
      BY <2>3 DEF Matched
    <3> QED BY <1>0, <2>1, <3>1 DEF TypeOK
  <2> QED BY <2>1, <2>3, <2>4 DEF Has, At, Matched
<1>5. CASE UpdateDistance(j, c)
  BY <1>5 DEF UpdateDistance, Adds, Removes, Sets
<1>6. CASE Refused(j, c)
  <2>1. job'[j] = Idle
    BY <1>6, <1>0, JobTyped DEF Refused, Raise
  <2> QED BY <1>0, <2>1 DEF Onward, Typed, Idle
<1> QED BY <1>1, <1>2, <1>3, <1>4, <1>5, <1>6 DEF Command

\* A command done takes the job one place further in its program.
LEMMA UnderwayStep ==
  ASSUME TypeInv, NEW j \in Jobs, NEW P, Program(j, P), Underway(j, P), Informed(j),
         NEW c \in job[j].todo, IsNext(j, c), Command(j, c), Onward(j, c)
  PROVE  Program(j, P)' /\ Underway(j, P)'
<1>0. /\ WellOrdered(P) /\ \A d \in P : Tidy(d)
      /\ c \in P /\ job[j].todo \subseteq P
      /\ job'[j].todo \subseteq job[j].todo
  BY ProgramTyped DEF Underway, Onward
<1> DEFINE done == P \ job[j].todo
           left == P \ job'[j].todo
<1>1. Program(j, P)'
  BY CommandJob DEF TypeInv, Program, Onward
<1>2. ASSUME NEW e \in job'[j].todo, NEW d \in P, Earlier(e.at, d.at)
      PROVE  d \in job'[j].todo
  <2>1. d \in job[j].todo
    BY <1>0, <1>2 DEF Underway
  <2>2. ASSUME job'[j].todo = job[j].todo \ {c}, d = c PROVE FALSE
    <3>1. Earlier(c.at, e.at) /\ e \in P
      BY <1>0, <1>2, <2>2 DEF IsNext
    <3>2. c.at \in Nat \X Nat \X Nat /\ e.at \in Nat \X Nat \X Nat
      BY <1>0, <3>1 DEF Tidy, Commands
    <3> QED BY <1>2, <2>2, <3>1, <3>2, EarlierAsymmetric
  <2> QED BY <2>1, <2>2 DEF Onward
<1>3. ASSUME NEW d \in done PROVE Settled(d, done)'
  <2>1. d \in P /\ d \notin job[j].todo /\ Settled(d, done)
    BY <1>3 DEF Underway
  <2>2. Adds(d) => \A n \in d.ns : Has(d.table, n)'
    <3> SUFFICES ASSUME Adds(d), NEW n \in d.ns, ~Has(d.table, n)' PROVE FALSE
      OBVIOUS
    <3>1. Has(d.table, n)
      BY <2>1 DEF Settled
    <3>2. Removes(c) /\ Meets(c, d)
      BY <3>1, CommandKeys DEF Meets
    <3>3. Earlier(c.at, d.at)
      BY <1>0, <2>1, <3>2 DEF WellOrdered
    <3> QED BY <1>0, <2>1, <3>3 DEF Underway
  <2>3. Removes(d) => \A n \in d.ns : Has(d.table, n)' =>
          \E e \in left : Adds(e) /\ e.table = d.table /\ n \in e.ns
    <3> SUFFICES ASSUME Removes(d), NEW n \in d.ns, Has(d.table, n)'
                 PROVE  \E e \in left : Adds(e) /\ e.table = d.table /\ n \in e.ns
      OBVIOUS
    <3>1. CASE Has(d.table, n)
      BY <1>0, <2>1, <3>1 DEF Settled
    <3>2. CASE ~Has(d.table, n)
      <4>1. Adds(c) /\ d.table = c.table /\ n \in c.ns
        BY <3>2, CommandKeys
      <4>2. CASE c \in left
        BY <4>1, <4>2
      <4>3. CASE c \in job'[j].todo
        <5>1. rows' = rows
          <6>1. job'[j].todo # job[j].todo \ {c}
            BY <4>3
          <6>2. TypeOK /\ ~Removes(c)
            BY <4>1 DEF TypeInv, Adds, Removes
          <6>3. job' # NextCommand(j, c)
            BY <6>1, <6>2, NextCommandIs
          <6> QED BY <6>2, <6>3 DEF Command, Look, AddRow, UpdateRow, RemoveRow, UpdateDistance,
                                    Refused, Removes
        <5> QED BY <3>2, <5>1 DEF Has, At
      <4> QED BY <1>0, <4>2, <4>3
    <3> QED BY <3>1, <3>2
  <2>4. Sets(d) => distance' = d.v
    <3>1. TypeOK /\ FiniteIdsInv /\ Tidy(c)
      BY <1>0 DEF TypeInv
    <3>2. distance' # distance => Sets(c) /\ distance' = c.v
      BY <3>1, CommandRows
    <3> QED BY <1>0, <2>1, <3>2 DEF Settled, WellOrdered
  <2>5. done' = left
    OBVIOUS
  <2> HIDE DEF done, left
  <2> QED BY <2>2, <2>3, <2>4, <2>5 DEF Settled
<1>4. ASSUME c \in left PROVE Settled(c, done)'
  <2>1. /\ Adds(c) => \A n \in c.ns : Has(c.table, n)'
        /\ Removes(c) => \A n \in c.ns : ~Has(c.table, n)'
        /\ Sets(c) => distance' = c.v
    BY <1>4, CommandDone
  <2> HIDE DEF done
  <2> QED BY <2>1 DEF Settled
<1>5. done' = left /\ left \subseteq done \cup {c}
  BY DEF Onward
<1>6. \A d \in done' : Settled(d, done)'
  <2> HIDE DEF done, left
  <2> QED BY <1>3, <1>4, <1>5
<1> QED BY <1>0, <1>1, <1>2, <1>6 DEF Underway

\* A job alone in its tables acts on what it found.
LEMMA InformedStep ==
  ASSUME TypeInv, NEW j \in Jobs, Informed(j),
         NEW c \in job[j].todo, IsNext(j, c), Command(j, c), Onward(j, c)
  PROVE  Informed(j)'
<1>0. TypeOK /\ FiniteIdsInv /\ Typed(j) /\ \A d \in job[j].todo : Tidy(d)
  BY DEF TypeInv, Typed
<1>1. CASE job' = NextCommand(j, c)
  <2>1. job'[j].stage = "look"
    BY <1>0, <1>1, NextCommandIs
  <2> QED BY <2>1 DEF Informed
<1>2. ASSUME job'[j].todo = job[j].todo,
             Adds(c) /\ job'[j].ids = {} => Matched(c)' = {},
             Removes(c) => {Id(r) : r \in Matched(c)'} \subseteq job'[j].ids,
             job'[j].ids \subseteq {Id(r) : r \in Matched(c)'}
      PROVE  Informed(j)'
  <2> SUFFICES ASSUME NEW d \in job'[j].todo, IsNext(j, d)'
               PROVE  /\ Adds(d) /\ job'[j].ids = {} => Matched(d)' = {}
                      /\ Removes(d) => {Id(r) : r \in Matched(d)'} \subseteq job'[j].ids
                      /\ job'[j].ids \subseteq {Id(r) : r \in Matched(d)'}
    BY DEF Informed
  <2>1. IsNext(j, d) /\ Tidy(d) /\ Tidy(c)
    BY <1>0, <1>2 DEF IsNext
  <2>2. d = c
    BY <2>1, NextIsOne
  <2> QED BY <1>2, <2>2
<1>3. CASE Look(j, c) /\ job' # NextCommand(j, c)
  <2>1. Matched(c)' = Matched(c)
    BY <1>3 DEF Look, Matched
  <2>2. CASE Matched(c) = {} /\ job' = [job EXCEPT ![j].stage = "write"]
    <3>1. job'[j].todo = job[j].todo /\ job'[j].ids = {}
      BY <1>0, <1>3, <2>2, JobTyped DEF Look, Typed, JobRecords
    <3> QED BY <1>2, <2>1, <2>2, <3>1
  <2>3. ASSUME NEW r \in Matched(c), job' = [job EXCEPT ![j].stage = "write", ![j].ids = {Id(r)}],
               ~Removes(c)
        PROVE  Informed(j)'
    <3>1. job'[j].todo = job[j].todo /\ job'[j].ids = {Id(r)}
      BY <1>0, <2>3, JobTyped DEF JobRecords
    <3> QED BY <1>2, <2>1, <2>3, <3>1
  <2>4. CASE job' = [job EXCEPT ![j].stage = "write", ![j].ids = {Id(r) : r \in Matched(c)}]
    <3>1. job'[j].todo = job[j].todo /\ job'[j].ids = {Id(r) : r \in Matched(c)}
      BY <1>0, <2>4, JobTyped DEF JobRecords
    <3> QED BY <1>2, <2>1, <3>1
  <2>5. CASE Sets(c) /\ job' = [job EXCEPT ![j].stage = "write"]
    <3>1. job'[j].todo = job[j].todo /\ job'[j].ids = {} /\ ~Adds(c) /\ ~Removes(c)
      BY <1>0, <1>3, <2>5, JobTyped DEF Look, Typed, JobRecords, Adds, Removes, Sets
    <3> QED BY <1>2, <3>1
  <2> QED BY <1>3, <2>2, <2>3, <2>4, <2>5 DEF Look, Removes, Sets
<1>4. CASE RemoveRow(j, c) /\ job' # NextCommand(j, c)
  <2>1. PICK r \in Matched(c) : /\ rows' = rows \ {r}
                                /\ job' = [job EXCEPT ![j].ids = @ \ {Id(r)}]
    BY <1>4 DEF RemoveRow
  <2>2. job'[j].todo = job[j].todo /\ job'[j].ids = job[j].ids \ {Id(r)}
    BY <1>0, <2>1, JobTyped DEF JobRecords
  <2>3. Removes(c) /\ ~Adds(c) /\ {Id(q) : q \in Matched(c)} \subseteq job[j].ids
    BY <1>4 DEF RemoveRow, Removes, Adds, Informed
  <2>4. \A q \in Matched(c)' : q \in Matched(c) /\ q # r
    BY <2>1 DEF Matched
  <2>5. \A q \in Matched(c)' : Id(q) \in job[j].ids /\ Id(q) # Id(r)
    BY <1>0, <2>1, <2>3, <2>4 DEF TypeOK, Matched
  <2>6. job[j].ids \subseteq {Id(q) : q \in Matched(c)}
    BY <1>4 DEF RemoveRow, Informed
  <2>7. \A i \in job'[j].ids : \E q \in Matched(c)' : i = Id(q)
    <3> SUFFICES ASSUME NEW i \in job[j].ids, i # Id(r)
                 PROVE  \E q \in Matched(c)' : i = Id(q)
      BY <2>2
    <3>1. PICK q \in Matched(c) : i = Id(q)
      BY <2>6
    <3> QED BY <2>1, <3>1 DEF Matched
  <2> QED BY <1>2, <2>2, <2>3, <2>5, <2>7
<1>5. CASE Refused(j, c)
  <2>1. job'[j].stage = "look"
    BY <1>0, <1>5, JobTyped DEF Refused, Raise, Idle
  <2> QED BY <2>1 DEF Informed
<1> QED BY <1>1, <1>3, <1>4, <1>5 DEF Command, AddRow, UpdateRow, UpdateDistance

\* A row is added only when none bears its key.
LEMMA AddsNew ==
  ASSUME TypeInv, NEW j \in Jobs, NEW P, Program(j, P), Underway(j, P), Informed(j),
         NEW c \in job[j].todo, IsNext(j, c), AddRow(j, c)
  PROVE  Matched(c) = {}
<1>1. CASE c.op \in {"upsert", "ensure"}
  BY <1>1 DEF AddRow, Informed, Adds
<1>2. CASE c.op = "add"
  <2>0. WellOrdered(P) /\ c \in P /\ job[j].todo \subseteq P /\ Tidy(c)
    BY ProgramTyped DEF Underway
  <2>1. PICK d \in P : Removes(d) /\ d.table = c.table /\ c.ns \subseteq d.ns /\ Earlier(d.at, c.at)
    BY <1>2, <2>0 DEF WellOrdered
  <2>2. d \notin job[j].todo
    <3> SUFFICES ASSUME d \in job[j].todo PROVE FALSE
      OBVIOUS
    <3>1. d # c
      BY <1>2, <2>1 DEF Removes
    <3>2. Earlier(c.at, d.at) /\ Tidy(d)
      BY <2>0, <3>1, ProgramTyped DEF IsNext
    <3>3. c.at \in Nat \X Nat \X Nat /\ d.at \in Nat \X Nat \X Nat
      BY <2>0, <3>2 DEF Tidy, Commands
    <3> QED BY <2>1, <3>2, <3>3, EarlierAsymmetric
  <2>3. Settled(d, P \ job[j].todo)
    BY <2>2 DEF Underway
  <2> SUFFICES ASSUME NEW r \in Matched(c) PROVE FALSE
    OBVIOUS
  <2>4. r.n \in d.ns /\ Has(d.table, r.n) /\ r.table = c.table /\ r.n \in c.ns
    BY <2>1 DEF Matched, Has, At
  <2>5. PICK e \in P \ job[j].todo : Adds(e) /\ e.table = d.table /\ r.n \in e.ns
    BY <2>1, <2>3, <2>4 DEF Settled
  <2>6. Adds(c) /\ Meets(c, e)
    BY <1>2, <2>1, <2>4, <2>5 DEF Adds, Meets
  <2> QED BY <2>0, <2>5, <2>6 DEF WellOrdered
<1> QED BY <1>1, <1>2 DEF AddRow

LEMMA SingleStep ==
  ASSUME TypeInv, NEW tables, Single(tables), NEW j \in Jobs, NEW c \in job[j].todo, Command(j, c),
         AddRow(j, c) /\ c.table \in tables => Matched(c) = {}
  PROVE  Single(tables)'
<1>0. TypeOK /\ FiniteIdsInv /\ Tidy(c)
  BY DEF TypeInv, Typed
<1>1. CASE rows' = rows
  BY <1>1 DEF Single
<1>2. CASE AddRow(j, c)
  <2>1. Adds(c) /\ rows' = rows \cup NewRow(c)
    BY <1>2 DEF AddRow, Adds
  <2>2. PICK q \in Rows : NewRow(c) = {q} /\ q.table = c.table /\ c.ns = {q.n}
    BY <1>0, <2>1, NewRowTyped
  <2>3. q.table \in tables => \A r \in rows : ~ (r.table = q.table /\ r.n = q.n)
    BY <1>2, <2>2 DEF Matched
  <2> QED BY <2>1, <2>2, <2>3 DEF Single
<1>3. CASE UpdateRow(j, c)
  <2>1. PICK r \in Matched(c) : rows' = (rows \ {r}) \cup {[r EXCEPT !.v = c.v]}
    BY <1>3 DEF UpdateRow
  <2>2. r \in rows /\ r \in Rows
    BY <1>0, MatchedTyped
  <2>3. PICK q : q = [r EXCEPT !.v = c.v]
    OBVIOUS
  <2>4. q.table = r.table /\ q.n = r.n /\ rows' = (rows \ {r}) \cup {q}
    BY <2>1, <2>2, <2>3 DEF Rows
  <2> QED BY <2>2, <2>4 DEF Single
<1>4. CASE RemoveRow(j, c)
  BY <1>4 DEF RemoveRow, Single
<1> QED BY <1>1, <1>2, <1>3, <1>4 DEF Command, Look, UpdateDistance, Refused

\* What an apply has written stays as it was written.
LEMMA WrittenStep ==
  ASSUME TypeInv, Single(TunnelTables), NEW j \in Appliers, NEW P, Program(j, P), Underway(j, P),
         Informed(j), Written(j, P),
         NEW c \in job[j].todo, IsNext(j, c), Command(j, c), Onward(j, c)
  PROVE  Written(j, P)'
<1>0. /\ TypeOK /\ FiniteIdsInv /\ Tidy(c) /\ j \in Jobs /\ Typed(j)
      /\ WellOrdered(P) /\ c \in P
      /\ \A d \in P : Tidy(d) /\ d.table \in Lane(j)
      /\ Lane(j) = TunnelTables
  BY ProgramTyped DEF TypeInv, Typed, Underway, Lane, Jobs
<1>1. c.op \in {"upsert", "remove"}
  <2>1. P = ApplySlots(job[j].certs)
    BY <1>0 DEF Program, Typed
  <2> QED BY <1>0, <2>1, ApplyTidy, JobTyped
<1>2. \A d \in P \ job'[j].todo : d = c \/ d \in P \ job[j].todo
  BY DEF Onward
<1>3. \A d \in P, n \in Nat :
        (Adds(d) /\ Adds(c) /\ d.table = c.table /\ n \in d.ns /\ n \in c.ns) => d = c
  BY <1>0 DEF WellOrdered, Meets
<1>4. CASE Look(j, c) \/ UpdateDistance(j, c) \/ Refused(j, c)
  <2>1. rows' = rows
    BY <1>4 DEF Look, UpdateDistance, Refused
  <2>2. Adds(c) => job'[j].todo = job[j].todo
    <3>1. CASE Look(j, c)
      BY <1>0, <1>1, <3>1, JobTyped DEF Look, Adds, JobRecords
    <3>2. CASE UpdateDistance(j, c)
      BY <1>1, <3>2 DEF UpdateDistance
    <3>3. CASE Refused(j, c)
      <4>1. job'[j].kind = "idle" /\ job[j].kind # "idle"
        BY <1>0, <3>3, JobTyped DEF Refused, Raise, Idle, Typed
      <4> QED BY <4>1 DEF Onward
    <3> QED BY <1>4, <3>1, <3>2, <3>3
  <2> QED BY <1>2, <2>1, <2>2 DEF Written, Matched
<1>5. CASE AddRow(j, c)
  <2>1. Adds(c) /\ rows' = rows \cup NewRow(c) /\ Matched(c) = {}
    BY <1>0, <1>5, AddsNew DEF AddRow, Adds
  <2>2. PICK q \in Rows : NewRow(c) = {q} /\ q.table = c.table /\ c.ns = {q.n} /\ q.v = c.v
    BY <1>0, <2>1, NewRowTyped
  <2> SUFFICES ASSUME NEW d \in P \ job'[j].todo, Adds(d), NEW r \in Matched(d)'
               PROVE  r.v = d.v
    BY DEF Written
  <2>3. r \in rows' /\ r.table = d.table /\ r.n \in d.ns
    BY DEF Matched
  <2>4. CASE r \in rows
    <3>1. d # c
      BY <2>1, <2>3, <2>4 DEF Matched
    <3> QED BY <1>2, <2>3, <2>4, <3>1 DEF Written, Matched
  <2>5. CASE r = q
    BY <1>3, <2>1, <2>2, <2>3, <2>5 DEF Rows
  <2> QED BY <2>1, <2>2, <2>3, <2>4, <2>5
<1>6. CASE UpdateRow(j, c)
  <2>1. PICK r0 \in Matched(c) : rows' = (rows \ {r0}) \cup {[r0 EXCEPT !.v = c.v]}
    BY <1>6 DEF UpdateRow
  <2>2. r0 \in rows /\ r0 \in Rows /\ r0.table = c.table /\ r0.n \in c.ns /\ Adds(c)
    BY <1>0, <1>6, MatchedTyped DEF Matched, UpdateRow, Adds
  <2>3. PICK q : q = [r0 EXCEPT !.v = c.v]
    OBVIOUS
  <2>4. q.table = r0.table /\ q.n = r0.n /\ q.v = c.v /\ rows' = (rows \ {r0}) \cup {q}
    BY <2>1, <2>2, <2>3 DEF Rows
  <2> SUFFICES ASSUME NEW d \in P \ job'[j].todo, Adds(d), NEW r \in Matched(d)'
               PROVE  r.v = d.v
    BY DEF Written
  <2>5. r \in rows' /\ r.table = d.table /\ r.n \in d.ns
    BY DEF Matched
  <2>6. CASE r = q
    BY <1>3, <2>2, <2>4, <2>5, <2>6 DEF Rows
  <2>7. CASE r \in rows /\ r # r0
    <3>1. d # c
      <4> SUFFICES ASSUME d = c PROVE FALSE
        OBVIOUS
      <4>1. PICK n \in Nat : c.ns = {n}
        BY <1>0, <2>2 DEF Tidy
      <4> QED BY <1>0, <2>2, <2>5, <2>7, <4>1 DEF Single
    <3> QED BY <1>2, <2>5, <2>7, <3>1 DEF Written, Matched
  <2> QED BY <2>4, <2>5, <2>6, <2>7
<1>7. CASE RemoveRow(j, c)
  <2>1. rows' \subseteq rows /\ ~Adds(c)
    BY <1>7 DEF RemoveRow, Adds
  <2> QED BY <1>2, <2>1 DEF Written, Matched
<1> QED BY <1>4, <1>5, <1>6, <1>7 DEF Command

\* A job is left alone by what changes other tables.
LEMMA Undisturbed ==
  ASSUME TypeInv, NEW j \in Jobs, job'[j] = job[j],
         job[j].kind = "enable" => scope' = scope,
         rows' \in SUBSET Rows,
         \A r \in Rows : r.table \in Lane(j) => (r \in rows' <=> r \in rows),
         j \notin Appliers => distance' = distance
  PROVE  /\ \A P : Program(j, P)' <=> Program(j, P)
         /\ Informed(j) => Informed(j)'
         /\ \A P : Program(j, P) /\ Underway(j, P) => Underway(j, P)'
         /\ \A P : Program(j, P) /\ Written(j, P) => Written(j, P)'
<1>0. rows \in SUBSET Rows /\ Typed(j)
  BY DEF TypeInv, TypeOK, Rows
<1>1. ASSUME NEW P PROVE Program(j, P)' <=> Program(j, P)
  BY DEF Program
<1>2. \A c : c.table \in Lane(j) => Matched(c)' = Matched(c)
  BY <1>0 DEF Matched
<1>3. \A t, n : t \in Lane(j) => (Has(t, n)' <=> Has(t, n))
  BY <1>0 DEF Has, At
<1>4. ASSUME Informed(j) PROVE Informed(j)'
  BY <1>0, <1>2, <1>4 DEF Informed, IsNext, Typed
<1>5. ASSUME NEW P, Program(j, P), Underway(j, P) PROVE Underway(j, P)'
  <2>1. \A c \in P : Tidy(c) /\ c.table \in Lane(j)
    BY <1>5, ProgramTyped
  <2>2. ASSUME NEW c \in P, Sets(c) PROVE distance' = distance
    <3>1. c.table \in Gateways /\ c.table \in Lane(j)
      BY <2>1, <2>2 DEF Tidy
    <3>2. j \notin Appliers
      BY <3>1, ConstantTypes DEF Lane, Tables
    <3> QED BY <3>2
  <2> DEFINE done == P \ job[j].todo
  <2>3. done' = done
    OBVIOUS
  <2>4. ASSUME NEW c \in done PROVE Settled(c, done)'
    <3>1. c \in P /\ Settled(c, done)
      BY <1>5, <2>4 DEF Underway
    <3> HIDE DEF done
    <3> QED BY <1>3, <2>1, <2>2, <2>3, <3>1 DEF Settled
  <2>5. \A c \in done' : Settled(c, done)'
    <3> HIDE DEF done
    <3> QED BY <2>3, <2>4
  <2> QED BY <1>5, <2>5 DEF Underway
<1>6. ASSUME NEW P, Program(j, P), Written(j, P) PROVE Written(j, P)'
  <2>1. \A c \in P : c.table \in Lane(j)
    BY <1>6, ProgramTyped
  <2> QED BY <1>2, <1>6, <2>1 DEF Written
<1> QED BY <1>1, <1>4, <1>5, <1>6

\* A command of another job does not touch the tables of one that is alone.
LEMMA LanesApart ==
  ASSUME TypeInv, NEW j \in Jobs, NEW c \in job[j].todo, Command(j, c),
         NEW k \in Jobs, k # j, Alone(k)
  PROVE  /\ c.table \notin Lane(k)
         /\ k \notin Appliers => distance' = distance
<1>1. Typed(j) /\ job[j].kind # "idle" /\ Tidy(c) /\ c.table \in Lane(j)
  BY DEF TypeInv, Typed
<1>2. TunnelTables \cap (EgressTables \cup Gateways) = {}
  BY ConstantTypes DEF TunnelTables, EgressTables, Tables
<1>3. CASE k \in sole
  <2>1. k \in Switchers /\ j \in Appliers
    BY <1>1, <1>3 DEF TypeInv, TypeOK, SoleInv, Jobs
  <2>2. k \notin Appliers
    BY <2>1, ConstantsAssumption
  <2>3. c.table \in TunnelTables
    BY <1>1, <2>1 DEF Lane
  <2>4. ~Sets(c)
    BY <1>1, <1>2, <2>3 DEF Tidy
  <2>5. distance' = distance
    BY <1>1, <2>4, CommandRows DEF TypeInv
  <2> QED BY <1>2, <2>2, <2>3, <2>5 DEF Lane
<1>4. CASE k \in Appliers /\ OneApplier
  <2>1. j \notin Appliers
    BY <1>4 DEF OneApplier
  <2> QED BY <1>1, <1>2, <1>4, <2>1 DEF Lane
<1> QED BY <1>3, <1>4 DEF Alone

LEMMA OthersKeep ==
  ASSUME TypeInv, NEW j \in Jobs, NEW c \in job[j].todo, Command(j, c),
         NEW k \in Jobs, k # j, Alone(k)
  PROVE  /\ \A P : Program(k, P)' <=> Program(k, P)
         /\ Informed(k) => Informed(k)'
         /\ \A P : Program(k, P) /\ Underway(k, P) => Underway(k, P)'
         /\ \A P : Program(k, P) /\ Written(k, P) => Written(k, P)'
<1>0. TypeOK /\ FiniteIdsInv /\ Tidy(c)
  BY DEF TypeInv, Typed
<1>1. job'[k] = job[k] /\ scope' = scope
  BY <1>0, CommandJob
<1>2. /\ c.table \notin Lane(k)
      /\ k \notin Appliers => distance' = distance
  BY LanesApart
<1>3. /\ rows' \in SUBSET Rows
      /\ \A r \in Rows : r.table \in Lane(k) => (r \in rows' <=> r \in rows)
  BY <1>0, <1>2, CommandRows
<1> QED BY <1>1, <1>2, <1>3, Undisturbed

LEMMA InvInit == Init => RouterInv
<1> SUFFICES ASSUME Init PROVE RouterInv
  OBVIOUS
<1>1. TypeInv
  BY TypeInit
<1>2. \A j \in Jobs : job[j].kind = "idle"
  BY DEF Init, Idle
<1>3. AloneInv /\ Valued
  BY <1>2 DEF AloneInv, Valued, Program, Jobs
<1>4. Single(TunnelTables) /\ Single(EgressTables)
  <2>1. \A tables, n : \A r \in OldRows(tables, n), q \in OldRows(tables, n) :
          r.table \in tables /\ (r.table = q.table => r = q)
    BY DEF OldRows
  <2>2. \A r \in LegacyTunnel, q \in LegacyEgress : r.table # q.table
    BY <2>1 DEF LegacyTunnel, LegacyEgress, TunnelTables
  <2>3. \A r, q \in rows : r.table = q.table => r = q
    BY <2>1, <2>2 DEF Init, LegacyTunnel, DeletedTunnel, LegacyEgress
  <2> QED BY <2>3 DEF Single
<1>5. InFlight = {}
  BY <1>2 DEF InFlight, Jobs
<1> QED BY <1>1, <1>3, <1>4, <1>5 DEF RouterInv

\* The other jobs when one begins or ends.
LEMMA OthersWait ==
  ASSUME RouterInv, TypeInv', NEW j \in Jobs, UNCHANGED <<rows, distance>>,
         \A k \in Jobs : k # j => job'[k] = job[k],
         \A k \in Jobs : k # j /\ Alone(k)' => Alone(k) /\ (job[k].kind = "enable" => scope' = scope),
         Alone(j)' /\ job'[j].kind # "idle" => (Informed(j) /\ \E P : Program(j, P) /\ Underway(j, P))',
         j \in Appliers /\ OneApplier => \A P : (Program(j, P) => Written(j, P))',
         OneSwitcher => (InFlight \subseteq sole)'
  PROVE  RouterInv'
<1>0. TypeInv /\ rows' \in SUBSET Rows
  BY DEF RouterInv, TypeInv, TypeOK, Rows
<1>1. ASSUME NEW k \in Jobs, k # j, Alone(k)'
      PROVE  /\ Alone(k) /\ job'[k] = job[k]
             /\ \A P : Program(k, P)' <=> Program(k, P)
             /\ Informed(k) => Informed(k)'
             /\ \A P : Program(k, P) /\ Underway(k, P) => Underway(k, P)'
             /\ \A P : Program(k, P) /\ Written(k, P) => Written(k, P)'
  <2>1. Alone(k) /\ (job[k].kind = "enable" => scope' = scope) /\ job'[k] = job[k]
    BY <1>1
  <2>2. \A r \in Rows : r.table \in Lane(k) => (r \in rows' <=> r \in rows)
    OBVIOUS
  <2> QED BY <1>0, <2>1, <2>2, Undisturbed
<1>2. ASSUME NEW k \in Jobs, Alone(k)', job'[k].kind # "idle"
      PROVE  (Informed(k) /\ \E P : Program(k, P) /\ Underway(k, P))'
  <2>1. CASE k # j
    <3>1. job[k].kind # "idle" /\ Alone(k)
      BY <1>1, <1>2, <2>1
    <3>2. Informed(k) /\ \E P : Program(k, P) /\ Underway(k, P)
      BY <3>1 DEF RouterInv, AloneInv
    <3> QED BY <1>1, <1>2, <2>1, <3>2
  <2> QED BY <1>2, <2>1
<1>3. AloneInv'
  BY <1>2 DEF AloneInv
<1>4. ASSUME OneApplier PROVE Single(TunnelTables)' /\ Valued'
  <2>1. Single(TunnelTables)'
    BY <1>4 DEF RouterInv, Single
  <2>2. ASSUME NEW k \in Appliers, NEW P, Program(k, P)' PROVE Written(k, P)'
    <3>1. CASE k # j
      <4>1. Alone(k)' /\ k \in Jobs
        BY <1>4 DEF Alone, Jobs
      <4> QED BY <1>1, <1>4, <2>2, <3>1, <4>1 DEF RouterInv, Valued
    <3> QED BY <1>4, <2>2, <3>1
  <2> QED BY <2>1, <2>2 DEF Valued
<1>5. OneSwitcher => Single(EgressTables)'
  BY DEF RouterInv, Single
<1> QED BY <1>3, <1>4, <1>5 DEF RouterInv, OneApplier, OneSwitcher

LEMMA BeginInv ==
  ASSUME RouterInv, TypeInv', NEW j \in Jobs, NEW P, Program(j, P)',
         job'[j].kind # "idle", job'[j].todo = P, job'[j].stage = "look",
         UNCHANGED <<rows, distance>>,
         \A k \in Jobs : k # j => job'[k] = job[k],
         \A k \in Jobs : k # j /\ Alone(k)' => Alone(k) /\ (job[k].kind = "enable" => scope' = scope),
         OneSwitcher => (InFlight \subseteq sole)'
  PROVE  RouterInv'
<1>1. Informed(j)'
  BY DEF Informed
<1>2. Underway(j, P)'
  BY DEF Underway
<1>3. ASSUME j \in Appliers, NEW Q, Program(j, Q)' PROVE Written(j, Q)'
  <2>1. job'[j].kind = "apply"
    BY <1>3 DEF TypeInv, Typed
  <2>2. Q = P
    BY <1>3, <2>1 DEF Program
  <2> QED BY <2>2 DEF Written
<1> QED BY <1>1, <1>2, <1>3, OthersWait

LEMMA EndInv ==
  ASSUME RouterInv, TypeInv', NEW j \in Jobs, job' = [job EXCEPT ![j] = Idle], sole' = sole \ {j},
         UNCHANGED <<rows, distance, scope>>
  PROVE  RouterInv'
<1>1. job'[j] = Idle /\ \A k \in Jobs : k # j => job'[k] = job[k]
  BY DEF RouterInv, TypeInv, TypeOK
<1>2. job'[j].kind = "idle"
  BY <1>1 DEF Idle
<1>3. \A P : ~Program(j, P)'
  BY <1>2 DEF Program
<1>4. \A k \in Jobs : Alone(k)' => Alone(k)
  BY DEF Alone, OneApplier
<1>5. OneSwitcher => (InFlight \subseteq sole)'
  BY <1>1, <1>2 DEF RouterInv, InFlight, Jobs
<1> QED BY <1>1, <1>2, <1>3, <1>4, <1>5, OthersWait

LEMMA QuietInv ==
  ASSUME RouterInv, TypeInv', UNCHANGED <<rows, distance, job, scope, sole>>
  PROVE  RouterInv'
<1>1. \A k \in Jobs : Alone(k)' <=> Alone(k)
  BY DEF Alone, OneApplier
<1>2. \A k \in Jobs : \A P : /\ Program(k, P)' <=> Program(k, P)
                             /\ Underway(k, P)' <=> Underway(k, P)
                             /\ Written(k, P)' <=> Written(k, P)
  BY DEF Program, Underway, Written, Settled, Has, At, Matched
<1>3. \A k \in Jobs : Informed(k)' <=> Informed(k)
  BY DEF Informed, IsNext, Matched
<1>4. AloneInv'
  BY <1>1, <1>2, <1>3 DEF RouterInv, AloneInv
<1>5. OneApplier => Single(TunnelTables)' /\ Valued'
  BY <1>2 DEF RouterInv, Single, Valued, Jobs
<1>6. OneSwitcher => Single(EgressTables)' /\ (InFlight \subseteq sole)'
  BY DEF RouterInv, Single, InFlight
<1> QED BY <1>4, <1>5, <1>6 DEF RouterInv, OneApplier, OneSwitcher

LEMMA BeginsInv ==
  ASSUME RouterInv, TypeInv', NEW j \in Jobs, BeginApply(j) \/ BeginEnable(j) \/ BeginDisable(j)
  PROVE  RouterInv'
<1>0. TypeInv /\ TypeOK /\ job \in [Jobs -> JobRecords] /\ job[j].kind = "idle"
  BY DEF RouterInv, TypeInv, TypeOK, BeginApply, BeginEnable, BeginDisable
<1>1. ASSUME NEW P, NEW creds \in Creds, NEW kind \in {"apply", "enable", "disable"},
             job' = [job EXCEPT ![j] = [Idle EXCEPT !.kind = kind, !.todo = P, !.certs = creds]]
      PROVE  /\ job'[j].kind = kind /\ job'[j].todo = P /\ job'[j].stage = "look"
             /\ job'[j].certs = creds
             /\ \A k \in Jobs : k # j => job'[k] = job[k]
  <2> DEFINE rec == [Idle EXCEPT !.kind = kind, !.todo = P, !.certs = creds]
  <2>1. rec.kind = kind /\ rec.todo = P /\ rec.stage = "look" /\ rec.certs = creds
    BY DEF Idle
  <2> HIDE DEF rec
  <2>2. job' = [job EXCEPT ![j] = rec]
    BY <1>1 DEF rec
  <2> QED BY <1>0, <2>1, <2>2
<1>2. CASE BeginApply(j)
  <2>0. j \notin Switchers /\ Stored \in Creds
    BY <1>0, <1>2, StoredTyped, ConstantsAssumption DEF BeginApply
  <2>1. PICK P : P = ApplySlots(Stored)
    OBVIOUS
  <2>2. /\ job'[j].kind = "apply" /\ job'[j].stage = "look"
        /\ job'[j].todo = P /\ job'[j].certs = Stored
        /\ \A k \in Jobs : k # j => job'[k] = job[k]
    BY <1>1, <1>2, <2>0, <2>1 DEF BeginApply
  <2>3. UNCHANGED <<rows, distance, scope, sole>>
    BY <1>2 DEF BeginApply, history
  <2>4. Program(j, P)'
    BY <2>1, <2>2 DEF Program
  <2>5. \A k \in Jobs : Alone(k)' => Alone(k)
    BY <2>3 DEF Alone, OneApplier
  <2>6. OneSwitcher => (InFlight \subseteq sole)'
    BY <2>0, <2>2, <2>3 DEF RouterInv, InFlight, Jobs
  <2> QED BY <2>2, <2>3, <2>4, <2>5, <2>6, BeginInv
<1>3. ASSUME j \in Switchers, Enter(j), job'[j].kind # "idle",
             \A k \in Jobs : k # j => job'[k] = job[k]
      PROVE  /\ \A k \in Jobs : k # j /\ Alone(k)' => Alone(k) /\ job[k].kind # "enable"
             /\ OneSwitcher => (InFlight \subseteq sole)'
  <2>1. sole' \subseteq {j}
    BY <1>3 DEF Enter
  <2>2. ASSUME NEW k \in Jobs, k # j, Alone(k)' PROVE Alone(k) /\ job[k].kind # "enable"
    <3>1. k \in Appliers /\ OneApplier
      BY <2>1, <2>2 DEF Alone, OneApplier
    <3> QED BY <1>0, <3>1 DEF Alone, TypeInv, Typed
  <2>3. ASSUME OneSwitcher PROVE (InFlight \subseteq sole)'
    <3>1. InFlight = {}
      BY <1>0, <1>3, <2>3 DEF InFlight, OneSwitcher
    <3>2. sole' = {j}
      BY <1>3, <3>1 DEF Enter
    <3> QED BY <1>3, <2>3, <3>2 DEF InFlight, OneSwitcher
  <2> QED BY <2>2, <2>3
<1>4. CASE BeginEnable(j)
  <2>0. Stored \in Creds
    BY <1>0, StoredTyped
  <2>1. PICK P : P = EnableEgress(Active, bypass, gateway)
    OBVIOUS
  <2>2. /\ job'[j].kind = "enable" /\ job'[j].stage = "look" /\ job'[j].todo = P
        /\ \A k \in Jobs : k # j => job'[k] = job[k]
    BY <1>1, <1>4, <2>0, <2>1 DEF BeginEnable
  <2>3. /\ UNCHANGED <<rows, distance>> /\ j \in Switchers /\ Enter(j)
        /\ scope' = [active |-> Active, cidrs |-> bypass]
    BY <1>4 DEF BeginEnable
  <2>4. gateway \in Gateways
    BY <1>0 DEF TypeOK
  <2>5. Program(j, P)'
    BY <2>1, <2>2, <2>3, <2>4 DEF Program
  <2> QED BY <1>3, <2>2, <2>3, <2>5, BeginInv
<1>5. CASE BeginDisable(j)
  <2>0. PICK none \in Creds : none = Idle.certs
    BY IdleTyped DEF JobRecords, Creds
  <2>1. PICK P : P = DisableEgress(gateway)
    OBVIOUS
  <2>2. job' = [job EXCEPT ![j] = [Idle EXCEPT !.kind = "disable", !.todo = P, !.certs = none]]
    BY <1>5, <2>0, <2>1 DEF BeginDisable, Idle
  <2>3. /\ job'[j].kind = "disable" /\ job'[j].stage = "look" /\ job'[j].todo = P
        /\ \A k \in Jobs : k # j => job'[k] = job[k]
    BY <1>1, <2>2
  <2>4. UNCHANGED <<rows, distance, scope>> /\ j \in Switchers /\ Enter(j)
    BY <1>5 DEF BeginDisable
  <2>5. gateway \in Gateways
    BY <1>0 DEF TypeOK
  <2>6. Program(j, P)'
    BY <2>1, <2>3, <2>5 DEF Program
  <2> QED BY <1>3, <2>3, <2>4, <2>6, BeginInv
<1> QED BY <1>2, <1>4, <1>5

LEMMA CommandInv ==
  ASSUME RouterInv, TypeInv', NEW j \in Jobs, NEW c \in job[j].todo, IsNext(j, c), Command(j, c)
  PROVE  RouterInv'
<1>0. TypeInv /\ TypeOK /\ FiniteIdsInv /\ Typed(j) /\ Tidy(c) /\ job[j].kind # "idle"
        /\ c.table \in Lane(j)
  BY DEF RouterInv, TypeInv, Typed
<1>1. /\ \A k \in Jobs : k # j => job'[k] = job[k]
      /\ Onward(j, c) \/ Raises(j, c)
      /\ UNCHANGED <<config, enabled, scope, losses>>
  BY <1>0, CommandJob
<1>2. CASE Raises(j, c)
  <2>1. job' = [job EXCEPT ![j] = Idle]
    BY <1>2 DEF Raises, Refused, Raise
  <2> QED BY <1>1, <1>2, <2>1, EndInv DEF Raises
<1>3. CASE Onward(j, c)
  <2>1. \A k \in Jobs : Alone(k)' <=> Alone(k)
    BY <1>3 DEF Onward, Alone, OneApplier
  <2>2. \A P : Program(j, P)' <=> Program(j, P)
    BY <1>1, <1>3 DEF Program, Onward
  <2>3. ASSUME Alone(j)
        PROVE  \E P : /\ Program(j, P) /\ Underway(j, P) /\ Informed(j)
                      /\ (Program(j, P) /\ Underway(j, P) /\ Informed(j))'
                      /\ AddRow(j, c) => Matched(c) = {}
    <3>1. PICK P : Program(j, P) /\ Underway(j, P) /\ Informed(j)
      BY <1>0, <2>3 DEF RouterInv, AloneInv
    <3> QED BY <1>0, <1>3, <3>1, UnderwayStep, InformedStep, AddsNew
  <2>4. ASSUME NEW k \in Jobs, Alone(k)', job'[k].kind # "idle"
        PROVE  Informed(k)' /\ \E P : Program(k, P)' /\ Underway(k, P)'
    <3>1. CASE k = j
      BY <2>1, <2>3, <2>4, <3>1
    <3>2. CASE k # j
      <4>1. Alone(k) /\ job[k].kind # "idle"
        BY <1>1, <2>1, <2>4, <3>2
      <4>2. Informed(k) /\ \E P : Program(k, P) /\ Underway(k, P)
        BY <4>1 DEF RouterInv, AloneInv
      <4> QED BY <1>0, <3>2, <4>1, <4>2, OthersKeep
    <3> QED BY <3>1, <3>2
  <2>5. AloneInv'
    BY <2>4 DEF AloneInv
  <2>6. ASSUME OneApplier PROVE Single(TunnelTables)' /\ Valued'
    <3>1. AddRow(j, c) /\ c.table \in TunnelTables => Matched(c) = {}
      <4>1. c.table \in TunnelTables => j \in Appliers
        BY <1>0, ConstantTypes DEF Lane, Tables, TunnelTables, EgressTables
      <4>2. j \in Appliers => Alone(j)
        BY <2>6 DEF Alone
      <4> QED BY <2>3, <4>1, <4>2
    <3>2. Single(TunnelTables) /\ Valued
      BY <2>6 DEF RouterInv
    <3>3. Single(TunnelTables)'
      BY <1>0, <3>1, <3>2, SingleStep
    <3>4. ASSUME NEW k \in Appliers, NEW Q, Program(k, Q)' PROVE Written(k, Q)'
      <4>1. k \in Jobs /\ Alone(k)
        BY <2>6 DEF Alone, Jobs
      <4>2. CASE k # j
        <5>1. Program(k, Q)
          BY <1>0, <3>4, <4>1, <4>2, OthersKeep
        <5>2. Written(k, Q)
          BY <3>2, <5>1 DEF Valued
        <5> QED BY <1>0, <4>1, <4>2, <5>1, <5>2, OthersKeep
      <4>3. CASE k = j
        <5>1. Program(j, Q)
          BY <2>2, <3>4, <4>3
        <5>2. PICK P : Program(j, P) /\ Underway(j, P) /\ Informed(j)
          BY <2>3, <4>1, <4>3
        <5>3. Q = P
          BY <1>0, <4>3, <5>1, <5>2 DEF Typed, Program
        <5>4. Written(j, Q)
          BY <3>2, <4>3, <5>1 DEF Valued
        <5> QED BY <1>0, <1>3, <3>2, <4>3, <5>1, <5>2, <5>3, <5>4, WrittenStep
      <4> QED BY <4>2, <4>3
    <3> QED BY <3>3, <3>4 DEF Valued
  <2>7. ASSUME OneSwitcher PROVE Single(EgressTables)' /\ (InFlight \subseteq sole)'
    <3>1. Single(EgressTables) /\ InFlight \subseteq sole
      BY <2>7 DEF RouterInv
    <3>2. AddRow(j, c) /\ c.table \in EgressTables => Matched(c) = {}
      <4>1. c.table \in EgressTables => j \in Switchers
        BY <1>0, ConstantTypes DEF Lane, Tables, TunnelTables, EgressTables, Jobs
      <4>2. j \in Switchers => Alone(j)
        BY <1>0, <3>1 DEF Alone, InFlight
      <4> QED BY <2>3, <4>1, <4>2
    <3>3. (InFlight \subseteq sole)'
      BY <1>1, <1>3, <3>1 DEF Onward, InFlight, Jobs
    <3> QED BY <1>0, <3>1, <3>2, <3>3, SingleStep
  <2> QED BY <2>5, <2>6, <2>7 DEF RouterInv, OneApplier, OneSwitcher
<1> QED BY <1>1, <1>2, <1>3

LEMMA InvStep == RouterInv /\ [Next]_vars => RouterInv'
<1> SUFFICES ASSUME RouterInv, [Next]_vars PROVE RouterInv'
  OBVIOUS
<1>1. TypeInv'
  BY TypeStep DEF RouterInv
<1>2. ASSUME NEW j \in Jobs, BeginApply(j) \/ BeginEnable(j) \/ BeginDisable(j) PROVE RouterInv'
  BY <1>1, <1>2, BeginsInv
<1>3. ASSUME NEW j \in Jobs, Finish(j) \/ Lost(j) PROVE RouterInv'
  BY <1>1, <1>3, EndInv DEF Finish, Lost, Raise
<1>4. ASSUME NEW j \in Jobs, NEW c \in job[j].todo, IsNext(j, c), Command(j, c) PROVE RouterInv'
  BY <1>1, <1>4, CommandInv
<1>5. ASSUME NEW s, NEW c, Provision(s, c) PROVE RouterInv'
  BY <1>1, <1>5, QuietInv DEF Provision, history
<1>6. ASSUME NEW n, NEW b, NEW wan, Configure(n, b, wan) PROVE RouterInv'
  BY <1>1, <1>6, QuietInv DEF Configure, history
<1>7. CASE UNCHANGED vars
  BY <1>1, <1>7, QuietInv DEF vars, history
<1> QED BY <1>2, <1>3, <1>4, <1>5, <1>6, <1>7 DEF Next, Step

THEOREM InvHolds == Spec => []RouterInv
<1> QED BY InvInit, InvStep, PTL DEF Spec

-----------------------------------------------------------------------------
(***************************************************************************)
(* What the invariant means for those who call.                            *)
(***************************************************************************)

\* When a program is done, what it adds is there, and of what it removes only
\* what it has added.
LEMMA DoneSettled ==
  ASSUME TypeInv, NEW j \in Jobs, job[j].todo = {}, NEW P, Program(j, P), Underway(j, P)
  PROVE  \A c \in P : Settled(c, P)
<1>1. P \ job[j].todo = P
  OBVIOUS
<1> QED BY <1>1 DEF Underway

LEMMA ApplyDone ==
  ASSUME TypeInv, NEW j \in Jobs, job[j].kind = "apply", job[j].todo = {},
         NEW P, Program(j, P), Underway(j, P), Written(j, P)
  PROVE  TunnelsExact(job[j].certs)
<1> DEFINE creds == job[j].certs
<1>0. TypeOK /\ creds \in Creds /\ P = ApplySlots(creds)
  BY JobTyped DEF TypeInv, Program
<1>1. \A c \in P : Settled(c, P)
  BY DoneSettled
<1>2. \A s \in DOMAIN creds : s \in Slots /\ creds[s] \in Certs
  BY <1>0, CredsTyped
<1>3. ASSUME NEW s \in DOMAIN creds, NEW table \in TunnelTables
      PROVE  \E c \in P : /\ Adds(c) /\ c.table = table /\ c.ns = {s}
                          /\ c.v = IF table = "addr" THEN 0 ELSE creds[s]
  <2>1. PICK c \in ApplyTunnelOnly(s, creds[s]) :
          /\ Adds(c) /\ c.table = table /\ c.ns = {s}
          /\ c.v = IF table = "addr" THEN 0 ELSE creds[s]
    BY DEF ApplyTunnelOnly, Upsert, TunnelTables, Adds
  <2> QED BY <1>0, <2>1, InApply
<1>4. ASSUME NEW s \in DOMAIN creds, NEW table \in TunnelTables PROVE Has(table, s)
  <2>1. PICK c \in P : Adds(c) /\ c.table = table /\ c.ns = {s}
    BY <1>3
  <2>2. Settled(c, P)
    BY <1>1
  <2> QED BY <2>1, <2>2 DEF Settled
<1>5. ASSUME NEW r \in rows, r.table \in TunnelTables, r.n \notin DOMAIN creds PROVE FALSE
  <2>1. r.n \in AnySlot
    BY <1>0, <1>5 DEF TypeOK, Names, TunnelTables
  <2>2. \E c \in P : Removes(c) /\ c.table = r.table /\ r.n \in c.ns
    <3>1. CASE r.table = "endpoint"
      <4> DEFINE c == RemoveAll(<<2, 0, 1>>, "endpoint", AnySlot \ DOMAIN creds)
      <4>1. c \in P /\ Removes(c) /\ c.table = "endpoint" /\ c.ns = AnySlot \ DOMAIN creds
        BY <1>0, InApply DEF RemoveAll, Removes
      <4> QED BY <1>5, <2>1, <3>1, <4>1
    <3>2. CASE r.table # "endpoint"
      <4>1. PICK c \in RemoveInterface(r.n) : Removes(c) /\ c.table = r.table /\ c.ns = {r.n}
        BY <1>5, <3>2 DEF RemoveInterface, RemoveAll, TunnelTables, Removes
      <4> QED BY <1>0, <1>5, <2>1, <4>1, InApply
    <3> QED BY <3>1, <3>2
  <2>3. PICK c \in P : Removes(c) /\ c.table = r.table /\ r.n \in c.ns
    BY <2>2
  <2>4. Has(c.table, r.n)
    BY <2>3 DEF Has, At
  <2>5. PICK d \in P : Adds(d) /\ r.n \in d.ns
    BY <1>1, <2>3, <2>4 DEF Settled
  <2>6. r.n \in DOMAIN creds
    BY <1>0, <2>5, ApplyAdds
  <2> QED BY <1>5, <2>6
<1>6. ASSUME NEW r \in rows, r.table \in TunnelTables, r.n \in DOMAIN creds
      PROVE  r.v = IF r.table = "addr" THEN 0 ELSE creds[r.n]
  <2>1. PICK c \in P : /\ Adds(c) /\ c.table = r.table /\ c.ns = {r.n}
                       /\ c.v = IF r.table = "addr" THEN 0 ELSE creds[r.n]
    BY <1>3, <1>6
  <2>2. r \in Matched(c)
    BY <2>1 DEF Matched
  <2> QED BY <2>1, <2>2 DEF Written
<1> QED BY <1>4, <1>5, <1>6 DEF TunnelsExact

LEMMA DisableDone ==
  ASSUME TypeInv, NEW j \in Jobs, job[j].kind = "disable", job[j].todo = {},
         NEW P, Program(j, P), Underway(j, P)
  PROVE  EgressOff
<1>1. PICK wan \in Gateways : P = DisableEgress(wan)
  BY DEF Program
<1>2. \A c \in P : Settled(c, P) /\ ~Adds(c)
  BY <1>1, DoneSettled, DisableTidy
<1>3. distance = 1
  <2>1. SetDistance(<<4, 0, 4>>, wan, 1) \in P
    BY <1>1 DEF DisableEgress
  <2> QED BY <1>2, <2>1 DEF Settled, SetDistance, Sets
<1>4. ASSUME NEW r \in rows, r.table \in EgressTables PROVE FALSE
  <2>1. r.n \in Names(r.table)
    BY DEF TypeInv, TypeOK
  <2>2. PICK c \in P : Removes(c) /\ c.table = r.table /\ c.ns = Names(r.table)
    BY <1>1, <1>4 DEF DisableEgress, RemoveBypass, RemoveAll, EgressTables, Names, Removes
  <2>3. Has(c.table, r.n)
    BY <2>2 DEF Has, At
  <2> QED BY <1>2, <2>1, <2>2, <2>3 DEF Settled
<1> QED BY <1>3, <1>4 DEF EgressOff

LEMMA EnableDone ==
  ASSUME TypeInv, NEW j \in Jobs, job[j].kind = "enable", job[j].todo = {},
         NEW P, Program(j, P), Underway(j, P)
  PROVE  EgressOn(scope.active, scope.cidrs)
<1>1. PICK wan \in Gateways : P = EnableEgress(scope.active, scope.cidrs, wan)
  BY DEF Program
<1> DEFINE cidrs == scope.cidrs
<1>2. \A c \in P : Settled(c, P)
  BY DoneSettled
<1>3. distance = 2
  <2>1. SetDistance(<<2, 0, 1>>, wan, 2) \in P
    BY <1>1, InEnable
  <2> QED BY <1>2, <2>1 DEF Settled, SetDistance, Sets
<1>4. ASSUME NEW c \in P, Adds(c), NEW n, c.ns = {n} PROVE Has(c.table, n)
  BY <1>2, <1>4 DEF Settled
<1>5. ASSUME NEW s \in scope.active PROVE Has("member", s) /\ Has("route", s) /\ Has("masq", s)
  <2>1. EnableSlot(s) \subseteq P
    BY <1>1, InEnable
  <2>2. \A table \in {"member", "route", "masq"} :
          \E c \in EnableSlot(s) : Adds(c) /\ c.table = table /\ c.ns = {s}
    BY DEF EnableSlot, EnsureMember, Upsert, Adds
  <2> QED BY <1>4, <2>1, <2>2
<1>6. SyncBypass(cidrs) \subseteq P
  BY <1>1, InEnable
<1>7. ASSUME NEW b \in cidrs PROVE Has("cidr", b) /\ Has("mangle", 0) /\ Has("bypassRoute", 0)
  <2>1. /\ Add(<<4, b, 1>>, "cidr", b) \in P
        /\ Upsert(<<5, 0, 1>>, "mangle", 0, 0) \in P
        /\ Upsert(<<5, 0, 2>>, "bypassRoute", 0, 0) \in P
    BY <1>6 DEF SyncBypass
  <2> QED BY <1>4, <2>1 DEF Add, Upsert, Adds
<1>8. ASSUME NEW r \in rows, r.table \in BypassTables
      PROVE  cidrs # {} /\ (r.table = "cidr" => r.n \in cidrs)
  <2>1. r.n \in Names(r.table)
    BY DEF TypeInv, TypeOK
  <2>2. PICK c \in RemoveBypass : Removes(c) /\ c.table = r.table /\ c.ns = Names(r.table)
    BY <1>8 DEF RemoveBypass, RemoveAll, BypassTables, Names, Removes
  <2>3. c \in P /\ Has(c.table, r.n)
    BY <1>6, <2>2 DEF SyncBypass, Has, At
  <2>4. PICK d \in P : Adds(d) /\ d.table = r.table /\ r.n \in d.ns
    BY <1>2, <2>1, <2>2, <2>3 DEF Settled
  <2>5. d \in SyncBypass(cidrs)
    <3>1. d.table \in BypassTables
      BY <1>8, <2>4
    <3>2. \A s : d \notin EnableSlot(s)
      BY <3>1 DEF EnableSlot, EnsureMember, Upsert, BypassTables
    <3>3. d # SetDistance(<<2, 0, 1>>, wan, 2)
      BY <2>4 DEF SetDistance, Adds
    <3> QED BY <1>1, <3>2, <3>3, InEnable
  <2>6. d \in BypassAdds(cidrs) /\ cidrs # {}
    BY <2>4, <2>5, InBypass
  <2> QED BY <2>4, <2>6 DEF BypassAdds, Add, Upsert
<1> QED BY <1>3, <1>5, <1>7, <1>8 DEF EgressOn

\* A switch call that runs alone leaves exactly what it was called for.
LEMMA FinishExact ==
  ASSUME RouterInv, NEW j \in sole, Finish(j)
  PROVE  /\ job[j].kind \in {"enable", "disable"}
         /\ Effect = IF job[j].kind = "enable" THEN "on" ELSE "off"
<1>1. TypeInv /\ TypeOK /\ j \in Jobs /\ j \in Switchers /\ j \notin Appliers
  BY ConstantsAssumption DEF RouterInv, TypeInv, TypeOK, Jobs
<1>2. job[j].kind \in {"enable", "disable"} /\ job[j].todo = {}
  BY <1>1 DEF TypeInv, Typed, Finish
<1>3. PICK P : Program(j, P) /\ Underway(j, P)
  BY <1>1, <1>2 DEF RouterInv, AloneInv, Alone
<1>4. CASE job[j].kind = "disable"
  BY <1>1, <1>2, <1>3, <1>4, DisableDone DEF Effect
<1>5. CASE job[j].kind = "enable"
  <2>1. EgressOn(scope.active, scope.cidrs)
    BY <1>1, <1>2, <1>3, <1>5, EnableDone
  <2>2. scope.active # {}
    BY <1>1, <1>5 DEF TypeInv, SoleInv
  <2>3. ~EgressOff
    BY <2>1 DEF EgressOn, EgressOff
  <2> QED BY <1>2, <1>5, <2>1, <2>2, <2>3 DEF Effect
<1> QED BY <1>2, <1>4, <1>5

\* No tunnel, route, masquerading rule or list entry is configured twice, as
\* long as one apply and one switch call run at a time: between the print of
\* an upsert and its add no row with that key appears.
THEOREM NothingTwice ==
  ASSUME OneApplier, OneSwitcher
  PROVE  Spec => []NoDuplicates
<1>1. RouterInv => NoDuplicates
  <2> SUFFICES ASSUME RouterInv PROVE NoDuplicates
    OBVIOUS
  <2>1. \A r \in rows : r.table \in TunnelTables \/ r.table \in EgressTables
    BY DEF RouterInv, TypeInv, TypeOK, Tables
  <2> QED BY <2>1 DEF RouterInv, Single, NoDuplicates
<1> QED BY <1>1, InvHolds, PTL

\* No job is refused an id, as long as one apply and one switch call run at a
\* time: what fails is the connection, or the WAN gateway is no interface.
THEOREM FoundStays ==
  ASSUME OneApplier, OneSwitcher
  PROVE  Spec => []FoundIsThere
<1>1. RouterInv => FoundIsThere
  <2> SUFFICES ASSUME RouterInv, NEW j \in Jobs, job[j].todo # {} PROVE Informed(j)
    BY DEF FoundIsThere, Informed
  <2>1. job[j].kind # "idle"
    BY DEF RouterInv, TypeInv, Typed
  <2>2. Alone(j)
    BY <2>1 DEF RouterInv, Alone, InFlight, Jobs
  <2> QED BY <2>1, <2>2 DEF RouterInv, AloneInv
<1> QED BY <1>1, InvHolds, PTL

\* An apply that returns has left exactly the active tunnels with the stored
\* keys, if no other apply can overlap it: whatever it found, and while
\* switch calls change the egress beside it.
THEOREM AppliesExact ==
  ASSUME OneApplier
  PROVE  Spec => ApplyExact
<1>1. ASSUME RouterInv, [Next]_vars
      PROVE  [\A j \in Appliers : Finish(j) => TunnelsExact(job[j].certs)]_vars
  <2> SUFFICES ASSUME NEW j \in Appliers, Finish(j) PROVE TunnelsExact(job[j].certs)
    OBVIOUS
  <2>1. TypeInv /\ j \in Jobs /\ Alone(j) /\ job[j].kind = "apply" /\ job[j].todo = {}
    BY <1>1 DEF RouterInv, TypeInv, Typed, Jobs, Alone, Finish
  <2>2. PICK P : Program(j, P) /\ Underway(j, P)
    BY <1>1, <2>1 DEF RouterInv, AloneInv
  <2>3. Written(j, P)
    BY <1>1, <2>2 DEF RouterInv, Valued
  <2> QED BY <2>1, <2>2, <2>3, ApplyDone
<1> QED BY <1>1, InvHolds, PTL DEF Spec, ApplyExact

\* A switch call that no other one overlapped leaves the router exactly as
\* the README's table says, whatever overlapping, failed or lost calls and
\* older versions left before, and however many calls there can be.
THEOREM SoleCallsExact == Spec => SoleSwitchExact
<1>1. ASSUME RouterInv, [Next]_vars
      PROVE  [\A j \in sole : Finish(j) => Effect = IF job[j].kind = "enable" THEN "on" ELSE "off"]_vars
  BY <1>1, FinishExact
<1> QED BY <1>1, InvHolds, PTL DEF Spec, SoleSwitchExact

\* Commands of a switch call that is alone: a masquerading rule goes only
\* after its route has gone.
LEMMA MasqGoesLast ==
  ASSUME RouterInv, NEW j \in Jobs, Alone(j), NEW c \in job[j].todo, IsNext(j, c), Command(j, c),
         NEW s, Has("masq", s), ~Has("masq", s)'
  PROVE  ~Has("route", s)'
<1>0. TypeInv /\ Typed(j) /\ job[j].kind # "idle"
  BY DEF RouterInv, TypeInv, Typed
<1>1. PICK P : Program(j, P) /\ Underway(j, P)
  BY <1>0 DEF RouterInv, AloneInv
<1>2. Removes(c) /\ c.table = "masq" /\ s \in c.ns /\ c \in P
  BY <1>0, <1>1, CommandKeys DEF Underway
<1>3. PICK wan \in Gateways : P = DisableEgress(wan)
  <2>1. job[j].kind # "apply"
    BY <1>0, <1>1, <1>2, ProgramTyped DEF Typed, Lane, TunnelTables
  <2>2. ASSUME job[j].kind = "enable" PROVE FALSE
    <3>1. c \in RemoveBypass
      BY <1>1, <1>2, <2>2, EnableAdds DEF Program
    <3> QED BY <1>2, <3>1 DEF RemoveBypass, RemoveAll
  <2> QED BY <1>1, <2>1, <2>2 DEF Program
<1> DEFINE d == RemoveAll(<<4, 0, 1>>, "route", AnySlot)
<1>4. c = RemoveAll(<<4, 0, 2>>, "masq", AnySlot) /\ d \in P
  BY <1>2, <1>3 DEF DisableEgress, RemoveBypass, RemoveAll, SetDistance
<1>5. d \notin job[j].todo
  <2>1. c.at = <<4, 0, 2>> /\ d.at = <<4, 0, 1>>
    BY <1>4 DEF RemoveAll
  <2> HIDE DEF d
  <2>2. ~Earlier(c.at, d.at) /\ c # d
    BY <2>1 DEF Earlier
  <2> QED BY <2>2 DEF IsNext
<1>6. Settled(d, P \ job[j].todo)
  BY <1>1, <1>4, <1>5 DEF Underway
<1>7. ~Has("route", s)
  <2>1. Removes(d) /\ d.table = "route" /\ s \in d.ns
    BY <1>2, <1>4 DEF RemoveAll, Removes
  <2>2. \A e \in P : ~Adds(e)
    BY <1>3, DisableTidy
  <2> HIDE DEF d
  <2> QED BY <1>6, <2>1, <2>2 DEF Settled
<1> QED BY <1>0, <1>2, <1>7, CommandKeys

\* No step takes a tunnel's masquerading away while its default route is there,
\* whatever applies run beside the one switch call.
THEOREM RouteFirst ==
  ASSUME OneSwitcher
  PROVE  Spec => RouteGoesFirst
<1>1. ASSUME RouterInv, [Next]_vars
      PROVE  [\A s \in AnySlot : Has("masq", s) /\ ~Has("masq", s)' => ~Has("route", s)']_vars
  <2> SUFFICES ASSUME NEW s, Has("masq", s), ~Has("masq", s)' PROVE ~Has("route", s)'
    OBVIOUS
  <2>1. rows' # rows
    BY DEF Has, At
  <2>2. PICK j \in Jobs : \E c \in job[j].todo : IsNext(j, c) /\ Command(j, c)
    BY <1>1, <2>1 DEF Next, vars, Step, BeginApply, BeginEnable, BeginDisable, Finish, Lost,
                      Provision, Configure
  <2>3. PICK c \in job[j].todo : IsNext(j, c) /\ Command(j, c)
    BY <2>2
  <2>4. TypeInv /\ Typed(j) /\ Tidy(c) /\ job[j].kind # "idle" /\ c.table \in Lane(j)
    BY <1>1 DEF RouterInv, TypeInv, Typed
  <2>5. c.table = "masq"
    BY <2>3, <2>4, CommandKeys
  <2>6. j \in Switchers
    BY <2>4, <2>5 DEF Lane, TunnelTables, Jobs
  <2>7. Alone(j)
    BY <1>1, <2>4, <2>6 DEF RouterInv, InFlight, Alone
  <2> QED BY <1>1, <2>3, <2>7, MasqGoesLast
<1> QED BY <1>1, InvHolds, PTL DEF Spec, RouteGoesFirst

-----------------------------------------------------------------------------
(***************************************************************************)
(* Router implements EgressSwitch, step by step.                           *)
(***************************************************************************)
Desired == IF enabled THEN "on" ELSE "off"
Requested ==
  IF InFlight = {} THEN "none"
  ELSE IF \E j \in InFlight : job[j].kind = "enable" THEN "on" ELSE "off"

\* A switch call in flight is the request, if it is the only one.
LEMMA RequestIs ==
  ASSUME OneSwitcher, TypeInv, NEW j \in Switchers
  PROVE  Requested = IF job[j].kind = "idle" THEN "none"
                     ELSE IF job[j].kind = "enable" THEN "on" ELSE "off"
<1>1. InFlight = IF job[j].kind = "idle" THEN {} ELSE {j}
  BY DEF OneSwitcher, InFlight
<1> QED BY <1>1 DEF Requested

LEMMA RequestKeeps ==
  ASSUME \A k \in Switchers : job'[k].kind = job[k].kind
  PROVE  Requested' = Requested
<1>1. InFlight' = InFlight
  BY DEF InFlight
<1>2. (\E k \in InFlight : job[k].kind = "enable")' <=> \E k \in InFlight : job[k].kind = "enable"
  BY <1>1 DEF InFlight
<1> QED BY <1>1, <1>2 DEF Requested

LEMMA EffectTyped == Effect \in {"on", "off", "mixed"} /\ (Effect = "off" <=> EgressOff)
  BY DEF Effect

\* The effect is a matter of the egress rows and the distance.
LEMMA EffectKeeps ==
  ASSUME TypeInv, TypeInv', UNCHANGED <<distance, scope>>,
         \A r \in Rows : r.table \in EgressTables => (r \in rows' <=> r \in rows)
  PROVE  Effect' = Effect
<1>1. rows \in SUBSET Rows /\ rows' \in SUBSET Rows
  BY DEF TypeInv, TypeOK, Rows
<1>2. \A t, n : t \in EgressTables => (Has(t, n)' <=> Has(t, n))
  BY <1>1 DEF Has, At
<1>3. EgressOff' <=> EgressOff
  BY <1>1 DEF EgressOff
<1>4. \A active, cidrs : EgressOn(active, cidrs)' <=> EgressOn(active, cidrs)
  <2>1. {"member", "route", "masq", "cidr", "mangle", "bypassRoute"} = EgressTables
    BY DEF EgressTables
  <2>2. BypassTables \subseteq EgressTables
    BY DEF BypassTables, EgressTables
  <2>3. (\A r \in rows : r.table \in BypassTables => r \in rows')
          /\ (\A r \in rows' : r.table \in BypassTables => r \in rows)
    BY <1>1, <2>2
  <2> QED BY <1>2, <2>1, <2>3 DEF EgressOn
<1> QED BY <1>3, <1>4 DEF Effect

\* The actions of EgressSwitch in terms of these.
LEMMA SwitchIs ==
  /\ Switch!Proceed <=> Requested # "none" /\ Effect' \in {"on", "off", "mixed"}
                          /\ Desired' = Desired /\ Requested' = Requested
  /\ Switch!Succeed <=> Requested # "none" /\ Effect = Requested /\ Desired' = Requested
                          /\ Requested' = "none" /\ Effect' = Effect
  /\ Switch!Fail <=> Requested # "none" /\ Requested' = "none" /\ Desired' = Desired
                       /\ Effect' = Effect
  /\ \A to : Switch!Request(to) <=>
       /\ Requested = "none" /\ Requested' = to /\ Desired' = Desired
       /\ Effect' \in IF to = "on" /\ Effect # "off" THEN {"on", "mixed"} ELSE {Effect}
  BY DEF Desired, Requested, Switch!Proceed, Switch!Succeed, Switch!Fail,
         Switch!Request, Switch!Effects

LEMMA SwitchInit == Init => Switch!Init
<1> SUFFICES ASSUME Init PROVE Switch!Init
  OBVIOUS
<1>1. InFlight = {}
  BY DEF Init, Idle, InFlight, Jobs
<1> QED BY <1>1, EffectTyped DEF Switch!Init, Switch!Effects

LEMMA SwitchStutters ==
  ASSUME Desired' = Desired, Requested' = Requested, Effect' = Effect
  PROVE  [Switch!Next]_Switch!vars
  BY DEF Switch!vars, Desired, Requested

\* A call that ends without success: the request fails, or was not one.
LEMMA SwitchFails ==
  ASSUME OneSwitcher, TypeInv, TypeInv', NEW j \in Jobs, job[j].kind # "idle",
         job' = [job EXCEPT ![j] = Idle], UNCHANGED <<rows, distance, scope, enabled>>
  PROVE  [Switch!Next]_Switch!vars
<1>1. job'[j].kind = "idle" /\ \A k \in Jobs : k # j => job'[k] = job[k]
  BY DEF TypeInv, TypeOK, Idle
<1>2. Effect' = Effect /\ Desired' = Desired
  BY EffectKeeps DEF Desired
<1>3. CASE j \in Switchers
  <2>1. Requested # "none"
    BY <1>3, RequestIs
  <2>2. Requested' = "none"
    <3>1. InFlight' = {}
      BY <1>1, <1>3 DEF InFlight, Jobs, OneSwitcher
    <3> QED BY <3>1 DEF Requested
  <2> QED BY <1>2, <2>1, <2>2, SwitchIs DEF Switch!Next
<1>4. CASE j \notin Switchers
  <2>1. \A k \in Switchers : job'[k].kind = job[k].kind
    BY <1>1, <1>4 DEF Jobs
  <2> QED BY <1>2, <2>1, RequestKeeps, SwitchStutters
<1> QED BY <1>3, <1>4

LEMMA SwitchCommand ==
  ASSUME OneSwitcher, TypeInv, TypeInv', NEW j \in Jobs, NEW c \in job[j].todo, Command(j, c)
  PROVE  [Switch!Next]_Switch!vars
<1>0. TypeOK /\ FiniteIdsInv /\ Typed(j) /\ Tidy(c) /\ c.table \in Lane(j) /\ job[j].kind # "idle"
  BY DEF TypeInv, Typed
<1>1. /\ \A k \in Jobs : k # j => job'[k] = job[k]
      /\ Onward(j, c) \/ Raises(j, c)
      /\ UNCHANGED <<config, enabled, scope, losses>>
  BY <1>0, CommandJob
<1>2. CASE Raises(j, c)
  <2>1. job' = [job EXCEPT ![j] = Idle]
    BY <1>2 DEF Raises, Refused, Raise
  <2> QED BY <1>0, <1>1, <1>2, <2>1, SwitchFails DEF Raises
<1>3. CASE Onward(j, c)
  <2>1. Requested' = Requested /\ Desired' = Desired
    <3>1. \A k \in Switchers : job'[k].kind = job[k].kind
      BY <1>1, <1>3 DEF Onward, Jobs
    <3> QED BY <1>1, <3>1, RequestKeeps DEF Desired
  <2>2. CASE j \in Switchers
    <3>1. Requested # "none"
      BY <1>0, <2>2, RequestIs
    <3>2. Effect' \in {"on", "off", "mixed"}
      BY DEF Effect
    <3> QED BY <2>1, <3>1, <3>2, SwitchIs DEF Switch!Next
  <2>3. CASE j \in Appliers
    <3>1. c.table \in TunnelTables /\ TunnelTables \cap EgressTables = {}
            /\ TunnelTables \cap Gateways = {}
      BY <1>0, <2>3, ConstantTypes DEF Lane, TunnelTables, EgressTables, Tables
    <3>2. ~Sets(c)
      BY <1>0, <3>1 DEF Tidy
    <3>3. /\ distance' = distance
          /\ \A r \in Rows : r.table \in EgressTables => (r \in rows' <=> r \in rows)
      BY <1>0, <3>1, <3>2, CommandRows
    <3>4. Effect' = Effect
      BY <1>1, <3>3, EffectKeeps
    <3> QED BY <2>1, <3>4, SwitchStutters
  <2> QED BY <2>2, <2>3 DEF Jobs
<1> QED BY <1>1, <1>2, <1>3

LEMMA SwitchBegins ==
  ASSUME OneSwitcher, TypeInv, TypeInv', NEW j \in Jobs, BeginEnable(j) \/ BeginDisable(j)
  PROVE  [Switch!Next]_Switch!vars
<1>0. /\ j \in Switchers /\ job[j].kind = "idle" /\ job \in [Jobs -> JobRecords]
      /\ UNCHANGED <<rows, distance, enabled>>
  BY DEF BeginEnable, BeginDisable, TypeInv, TypeOK
<1>1. Requested = "none" /\ Desired' = Desired
  BY <1>0, RequestIs DEF Desired
<1>2. InFlight' = IF job'[j].kind = "idle" THEN {} ELSE {j}
  BY <1>0 DEF InFlight, OneSwitcher
<1>3. EgressOff' <=> EgressOff
  BY <1>0 DEF EgressOff
<1>4. CASE BeginEnable(j)
  <2>1. job'[j].kind = "enable"
    BY <1>0, <1>4 DEF BeginEnable, Idle
  <2>2. Requested' = "on"
    BY <1>2, <2>1 DEF Requested
  <2>3. Effect' \in IF Effect # "off" THEN {"on", "mixed"} ELSE {Effect}
    BY <1>3 DEF Effect
  <2> QED BY <1>1, <2>2, <2>3, SwitchIs DEF Switch!Next
<1>5. CASE BeginDisable(j)
  <2>1. job'[j].kind = "disable"
    BY <1>0, <1>5 DEF BeginDisable, Idle
  <2>2. Requested' = "off"
    BY <1>2, <2>1 DEF Requested
  <2>3. Effect' = Effect
    BY <1>5, EffectKeeps DEF BeginDisable
  <2> QED BY <1>1, <2>2, <2>3, SwitchIs DEF Switch!Next
<1> QED BY <1>4, <1>5

LEMMA SwitchFinishes ==
  ASSUME OneSwitcher, RouterInv, TypeInv', NEW j \in Jobs, Finish(j)
  PROVE  [Switch!Next]_Switch!vars
<1>0. /\ TypeInv /\ Typed(j) /\ job[j].kind # "idle" /\ job' = [job EXCEPT ![j] = Idle]
      /\ UNCHANGED <<rows, distance, scope>>
  BY DEF RouterInv, TypeInv, Finish
<1>1. CASE j \in Appliers
  <2>1. enabled' = enabled
    BY <1>0, <1>1 DEF Finish, Typed
  <2> QED BY <1>0, <2>1, SwitchFails
<1>2. CASE j \in Switchers
  <2>1. j \in sole
    BY <1>0, <1>2 DEF RouterInv, InFlight
  <2>2. /\ job[j].kind \in {"enable", "disable"}
        /\ Effect = IF job[j].kind = "enable" THEN "on" ELSE "off"
    BY <2>1, FinishExact
  <2>3. Requested = IF job[j].kind = "enable" THEN "on" ELSE "off"
    BY <1>0, <1>2, <2>2, RequestIs
  <2>4. Desired' = IF job[j].kind = "enable" THEN "on" ELSE "off"
    BY <2>2 DEF Finish, Desired
  <2>5. Requested' = "none"
    <3>1. job'[j].kind = "idle"
      BY <1>0 DEF TypeInv, TypeOK, Idle
    <3>2. InFlight' = {}
      BY <1>2, <3>1 DEF InFlight, OneSwitcher
    <3> QED BY <3>2 DEF Requested
  <2>6. Effect' = Effect
    BY <1>0, EffectKeeps
  <2> QED BY <2>2, <2>3, <2>4, <2>5, <2>6, SwitchIs DEF Switch!Next
<1> QED BY <1>1, <1>2 DEF Jobs

LEMMA SwitchStep ==
  ASSUME OneSwitcher, RouterInv, [Next]_vars
  PROVE  [Switch!Next]_Switch!vars
<1>0. TypeInv /\ TypeInv' /\ job \in [Jobs -> JobRecords]
  BY TypeStep DEF RouterInv, TypeInv, TypeOK
<1>1. ASSUME UNCHANGED <<rows, distance, scope, enabled>>,
             \A k \in Switchers : job'[k].kind = job[k].kind
      PROVE  [Switch!Next]_Switch!vars
  <2>1. Effect' = Effect /\ Desired' = Desired
    BY <1>0, <1>1, EffectKeeps DEF Desired
  <2> QED BY <1>1, <2>1, RequestKeeps, SwitchStutters
<1>2. ASSUME NEW j \in Jobs, BeginApply(j) PROVE [Switch!Next]_Switch!vars
  <2>1. \A k \in Switchers : job'[k].kind = job[k].kind
    BY <1>0, <1>2, ConstantsAssumption DEF BeginApply, Jobs
  <2> QED BY <1>1, <1>2, <2>1 DEF BeginApply, history
<1>3. ASSUME NEW j \in Jobs, Lost(j) PROVE [Switch!Next]_Switch!vars
  BY <1>0, <1>3, SwitchFails DEF Lost, Raise
<1>4. ASSUME NEW s, NEW c, Provision(s, c) PROVE [Switch!Next]_Switch!vars
  BY <1>1, <1>4 DEF Provision, history
<1>5. ASSUME NEW n, NEW b, NEW wan, Configure(n, b, wan) PROVE [Switch!Next]_Switch!vars
  BY <1>1, <1>5 DEF Configure, history
<1>6. CASE UNCHANGED vars
  BY <1>1, <1>6 DEF vars, history
<1> QED BY <1>0, <1>2, <1>3, <1>4, <1>5, <1>6, SwitchBegins, SwitchCommand, SwitchFinishes
        DEF Next, Step

\* Every step of the router and its jobs is a step of the abstract switch or
\* none at all: a switch call that returns has left the egress as requested,
\* one that fails records nothing, and with no call in flight nothing, not
\* even an apply, changes the egress.  That every call ends is not part of it.
THEOREM ImplementsEgressSwitch ==
  ASSUME OneSwitcher
  PROVE  Spec => SwitchSteps
<1>1. RouterInv /\ [Next]_vars => [Switch!Next]_Switch!vars
  BY SwitchStep
<1> QED BY <1>1, SwitchInit, InvHolds, PTL DEF Spec, SwitchSteps, Switch!Safety
=============================================================================
