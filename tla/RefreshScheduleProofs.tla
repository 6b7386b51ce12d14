------------------------ MODULE RefreshScheduleProofs ------------------------
(***************************************************************************)
(* Theorems about RefreshSchedule for every number of slots and instances, *)
(* set of periods and bound: the stamp never lies in the future, whatever  *)
(* overlaps and fails; if calls and reloads keep out of the jobs, nothing  *)
(* but a form that waited for the router moves it back, and then, with a   *)
(* fixed tunnel count, it has advanced by what was renewed; the renewals   *)
(* go round, also beside manual calls if there is one instance.            *)
(***************************************************************************)
EXTENDS RefreshSchedule, TLAPS, FiniteSetTheorems

SafetySpec == Init /\ [][Next]_vars

-----------------------------------------------------------------------------
(* Arithmetic and the helpers of wg_refresh.py. *)

\* Whole periods never add up to more than the time they were counted in.
LEMMA WholePeriods ==
  ASSUME NEW a \in Nat, NEW b \in Nat \ {0}
  PROVE  /\ a \div b \in Nat
         /\ (a \div b) * b <= a
  OBVIOUS

LEMMA ProductInNat ==
  ASSUME NEW a \in Nat, NEW b \in Nat
  PROVE  a * b \in Nat
  OBVIOUS

LEMMA ProductMonotone ==
  ASSUME NEW a \in Nat, NEW b \in Nat, NEW c \in Nat, a <= b
  PROVE  a * c <= b * c
  OBVIOUS

\* missed_windows counts no more periods than fit between stamp and clock.
LEMMA MissedWindowsFit ==
  ASSUME now \in Nat, lastAt \in Nat, period \in Nat \ {0}, NEW cap \in Nat
  PROVE  /\ MissedWindows(cap) \in Nat
         /\ MissedWindows(cap) <= cap
         /\ lastAt <= now => lastAt + MissedWindows(cap) * period <= now
<1>1. CASE now <= lastAt
  BY <1>1 DEF MissedWindows
<1>2. CASE now > lastAt
  <2> DEFINE w == (now - lastAt) \div period
  <2>1. w \in Nat /\ w * period <= now - lastAt
    BY <1>2, WholePeriods
  <2>2. MissedWindows(cap) = IF w < cap THEN w ELSE cap
    BY <1>2 DEF MissedWindows
  <2> HIDE DEF w
  <2>3. MissedWindows(cap) \in Nat /\ MissedWindows(cap) <= w /\ MissedWindows(cap) <= cap
    BY <2>1, <2>2
  <2>4. MissedWindows(cap) * period <= w * period
    BY <2>1, <2>3, ProductMonotone
  <2> QED
    BY <2>1, <2>3, <2>4, ProductInNat
<1> QED
  BY <1>1, <1>2

\* What oldest_slots returns is no longer than it was asked for.
LEMMA OldestCount ==
  ASSUME stored \subseteq Slots, NEW n \in Nat,
         NEW targets \in SUBSET stored, IsOldest(targets, n)
  PROVE  /\ IsFiniteSet(targets)
         /\ Cardinality(targets) \in Nat
         /\ Cardinality(targets) <= n
<1>1. IsFiniteSet(Slots)
  BY FS_Interval, ConstantsAssumption DEF Slots
<1>2. IsFiniteSet(stored) /\ IsFiniteSet(targets)
  BY <1>1, FS_Subset
<1>3. Cardinality(stored) \in Nat /\ Cardinality(targets) \in Nat
  BY <1>2, FS_CardinalityType
<1> QED
  BY <1>2, <1>3 DEF IsOldest

-----------------------------------------------------------------------------
(* The type invariant. *)

LEMMA NoJobTyped == NoJob \in Jobs
  BY ConstantsAssumption DEF NoJob, Jobs, BySlot, Slots

LEMMA NoFormTyped == NoForm \in Forms /\ ~NoForm.waiting
  BY ConstantsAssumption DEF NoForm, Forms, Slots

LEMMA JobOverTyped ==
  ASSUME TypeOK, NEW m \in Managers, JobOver(m)
  PROVE  /\ phase' \in [Managers -> {"off", "setup", "idle", "renew", "apply"}]
         /\ job' \in [Managers -> Jobs]
  BY NoJobTyped DEF TypeOK, JobOver

LEMMA RenewedTyped ==
  ASSUME TypeOK, NEW s \in Slots, Renewed(s)
  PROVE  stored' \subseteq Slots /\ rank' \in [Slots -> Slots]
<1>1. stored' \subseteq Slots
  BY DEF Renewed, TypeOK
<1>2. ASSUME NEW t \in Slots
      PROVE  (IF t = s THEN MaxSlots
              ELSE IF rank[t] > rank[s] THEN rank[t] - 1 ELSE rank[t]) \in Slots
  <2>1. rank[t] \in 1 .. MaxSlots /\ rank[s] \in 1 .. MaxSlots /\ MaxSlots \in 1 .. MaxSlots
    BY ConstantsAssumption DEF TypeOK, Slots
  <2>2. rank[t] > rank[s] => rank[t] - 1 \in 1 .. MaxSlots
    BY <2>1, ConstantsAssumption
  <2> QED
    BY <2>1, <2>2 DEF Slots
<1> QED
  BY <1>1, <1>2 DEF Renewed

LEMMA TypeOKInit == Init => TypeOK
<1>1. BySlot \in [Slots -> Slots]
  BY DEF BySlot
<1> SUFFICES ASSUME Init PROVE TypeOK
  OBVIOUS
<1>2. phase \in [Managers -> {"off", "setup", "idle", "renew", "apply"}]
  BY DEF Init
<1>3. job \in [Managers -> Jobs]
  BY NoJobTyped DEF Init
<1>4. count \in Slots /\ stored \subseteq Slots /\ ahead \subseteq Slots
  BY DEF Init
<1>5. /\ now \in Nat /\ lastAt \in Nat \cup {None} /\ anchor \in Nat /\ paid \in Nat
      /\ changes \in Nat /\ forms \in Nat /\ faults \in Nat
  BY DEF Init
<1>6. /\ period \in Periods /\ configured \in BOOLEAN /\ current \in Managers
      /\ rewound \in BOOLEAN
  BY DEF Init
<1>7. form \in Forms /\ ~form.waiting
  BY NoFormTyped DEF Init
<1> QED
  BY <1>1, <1>2, <1>3, <1>4, <1>5, <1>6, <1>7 DEF Init, TypeOK

LEMMA TypeOKWork ==
  ASSUME TypeOK, NEW m \in Managers, Work(m)
  PROVE  TypeOK'
<1>1. CASE SeedStamp(m)
  BY <1>1 DEF SeedStamp, StartOver, TypeOK, bounds
<1>2. CASE SetupDone(m)
  BY <1>2 DEF SetupDone, TypeOK, entry, history, bounds
<1>3. CASE StartJob(m)
  <2>1. PICK targets \in SUBSET stored :
          /\ IsOldest(targets, MissedWindows(count))
          /\ job' = [job EXCEPT ![m] =
               [todo |-> targets, order |-> rank, base |-> lastAt,
                period |-> period, size |-> Cardinality(targets)]]
    BY <1>3 DEF StartJob
  <2>2. lastAt \in Nat /\ period \in Nat \ {0} /\ count \in Nat
    BY <1>3, ConstantsAssumption DEF StartJob, IsDue, Ready, TypeOK, Slots
  <2>3. MissedWindows(count) \in Nat
    BY <2>2, MissedWindowsFit DEF TypeOK
  <2>4. Cardinality(targets) \in Nat
    BY <2>1, <2>3, OldestCount DEF TypeOK
  <2>5. job' \in [Managers -> Jobs]
    BY <2>1, <2>2, <2>4 DEF TypeOK, Jobs
  <2>6. /\ phase' = [phase EXCEPT ![m] = "renew"]
        /\ UNCHANGED <<now, entry, current, form, history, bounds>>
    BY <1>3 DEF StartJob
  <2> QED
    BY <2>5, <2>6 DEF TypeOK, entry, history, bounds
<1>4. CASE Renew(m)
  <2>1. PICK s \in job[m].todo :
          /\ Renewed(s)
          /\ ahead' = Served(s)
          /\ job' = [job EXCEPT ![m].todo = @ \ {s}]
    BY <1>4 DEF Renew
  <2>2. s \in Slots /\ job[m] \in Jobs
    BY DEF TypeOK, Jobs
  <2>3. stored' \subseteq Slots /\ rank' \in [Slots -> Slots]
    BY <2>1, <2>2, RenewedTyped
  <2>4. ahead' \subseteq Slots
    BY <2>1, <2>2 DEF Served, TypeOK
  <2>5. job' \in [Managers -> Jobs]
    BY <2>1, <2>2 DEF TypeOK, Jobs
  <2>6. paid' \in Nat
    BY <1>4, <2>2 DEF Renew, TypeOK, Jobs
  <2>7. phase' \in [Managers -> {"off", "setup", "idle", "renew", "apply"}]
    BY <1>4 DEF Renew, TypeOK
  <2> QED
    BY <1>4, <2>3, <2>4, <2>5, <2>6, <2>7 DEF Renew, TypeOK, bounds
<1>5. CASE RenewOutOfRange(m)
  BY <1>5, JobOverTyped DEF RenewOutOfRange, GiveUp, TypeOK, entry, history, bounds
<1>6. CASE Apply(m)
  <2>1. job[m] \in Jobs
    BY DEF TypeOK
  <2>2. lastAt' \in Nat
    BY <1>6, <2>1, ProductInNat DEF Apply, AdvanceLastRefresh, Jobs
  <2> QED
    BY <1>6, <2>2, JobOverTyped DEF Apply, TypeOK, history, bounds
<1> QED
  BY <1>1, <1>2, <1>3, <1>4, <1>5, <1>6 DEF Work

LEMMA TypeOKNext == TypeOK /\ [Next]_vars => TypeOK'
<1> SUFFICES ASSUME TypeOK, [Next]_vars PROVE TypeOK'
  OBVIOUS
<1>1. CASE UNCHANGED vars
  BY <1>1 DEF TypeOK, vars, entry, history, bounds
<1>2. CASE Tick
  BY <1>2 DEF Tick, TypeOK, entry, history, bounds
<1>3. ASSUME NEW n \in Slots, NEW p \in Periods, SaveAtOnce(n, p) PROVE TypeOK'
  BY <1>3 DEF SaveAtOnce, Submit, Save, TypeOK, history
<1>10. ASSUME NEW n \in Slots, NEW p \in Periods, ReapplyFirst(n, p) PROVE TypeOK'
  <2>1. p \in Nat
    BY ConstantsAssumption
  <2>2. form' \in Forms /\ form'.period = p
    BY <1>10, <2>1 DEF ReapplyFirst, Forms, TypeOK
  <2> QED
    BY <1>10, <2>2 DEF ReapplyFirst, Submit, TypeOK, entry, history
<1>11. CASE SaveAfterwards
  <2>1. form.count \in Slots /\ form.period \in Periods /\ form.stamp \in Nat \cup {None}
    BY <1>11 DEF SaveAfterwards, TypeOK, Forms
  <2>2. rewound' \in BOOLEAN
    BY <1>11 DEF SaveAfterwards, TypeOK
  <2> QED
    BY <1>11, <2>1, <2>2, NoFormTyped DEF SaveAfterwards, Save, TypeOK, bounds
<1>12. CASE ReapplyFails
  BY <1>12, NoFormTyped DEF ReapplyFails, TypeOK, entry, history, bounds
<1>4. CASE ProvisionAll
  <2>1. 1 .. count \subseteq Slots /\ BySlot \in [Slots -> Slots]
    BY ConstantsAssumption DEF TypeOK, Slots, BySlot
  <2> QED
    BY <1>4, <2>1 DEF ProvisionAll, StartOver, TypeOK, bounds
<1>5. ASSUME NEW s \in Slots, ProvisionSlot(s) PROVE TypeOK'
  BY <1>5, RenewedTyped DEF ProvisionSlot, TypeOK, bounds
<1>6. ASSUME NEW m \in Managers, Work(m) PROVE TypeOK'
  BY <1>6, TypeOKWork
<1>7. ASSUME NEW m \in Managers, JobFails(m) PROVE TypeOK'
  BY <1>7, JobOverTyped DEF JobFails, GiveUp, TypeOK, entry, history
<1>8. ASSUME NEW m \in Managers, Reload(m) PROVE TypeOK'
  BY <1>8 DEF Reload, TypeOK, entry, history, bounds
<1>9. CASE Crash
  BY <1>9, NoJobTyped, NoFormTyped DEF Crash, TypeOK, entry, history
<1> QED
  BY <1>1, <1>2, <1>3, <1>4, <1>5, <1>6, <1>7, <1>8, <1>9, <1>10, <1>11, <1>12 DEF Next

\* Every reachable state is well typed; the stamp is never negative.
THEOREM TypeCorrect == Spec => []TypeOK
<1>1. SafetySpec => []TypeOK
  BY TypeOKInit, TypeOKNext, PTL DEF SafetySpec
<1> QED
  BY <1>1, PTL DEF Spec, SafetySpec

-----------------------------------------------------------------------------
(* The stamp and the clock. *)

\* What a job will write when it ends.
Promised(m) == job[m].base + job[m].size * job[m].period

\* What a form that waits will write.
FormNotFuture == form.waiting /\ form.stamp # None => form.stamp <= now

FutureInv ==
  /\ TypeOK
  /\ StampNotFuture
  /\ FormNotFuture
  /\ \A m \in Managers : Running(m) => Promised(m) <= now

LEMMA FutureInvWork ==
  ASSUME FutureInv, NEW m \in Managers, Work(m)
  PROVE  /\ StampNotFuture'
         /\ \A k \in Managers : Running(k)' => Promised(k)' <= now'
<1> USE DEF FutureInv
<1>1. CASE SeedStamp(m)
  BY <1>1 DEF SeedStamp, StartOver, StampNotFuture, TypeOK, Running, Promised
<1>2. CASE SetupDone(m)
  BY <1>2 DEF SetupDone, StampNotFuture, TypeOK, Running, Promised, entry
<1>3. CASE StartJob(m)
  <2>1. PICK targets \in SUBSET stored :
          /\ IsOldest(targets, MissedWindows(count))
          /\ job' = [job EXCEPT ![m] =
               [todo |-> targets, order |-> rank, base |-> lastAt,
                period |-> period, size |-> Cardinality(targets)]]
    BY <1>3 DEF StartJob
  <2>2. /\ lastAt \in Nat /\ lastAt <= now /\ now \in Nat
        /\ period \in Nat \ {0} /\ count \in Nat
    BY <1>3, ConstantsAssumption DEF StartJob, IsDue, Ready, TypeOK, Slots, StampNotFuture
  <2>3. /\ MissedWindows(count) \in Nat
        /\ lastAt + MissedWindows(count) * period <= now
    BY <2>2, MissedWindowsFit
  <2>4. Cardinality(targets) \in Nat /\ Cardinality(targets) <= MissedWindows(count)
    BY <2>1, <2>3, OldestCount DEF TypeOK
  <2>5. Cardinality(targets) * period <= MissedWindows(count) * period
    BY <2>2, <2>3, <2>4, ProductMonotone
  <2>6. lastAt + Cardinality(targets) * period <= now
    BY <2>2, <2>3, <2>4, <2>5, ProductInNat
  <2>7. UNCHANGED <<now, lastAt>> /\ phase' = [phase EXCEPT ![m] = "renew"]
    BY <1>3 DEF StartJob, entry
  <2>8. ASSUME NEW k \in Managers, Running(k)' PROVE Promised(k)' <= now'
    <3>1. CASE k = m
      BY <2>1, <2>6, <2>7, <3>1 DEF Promised, TypeOK
    <3>2. CASE k # m
      BY <2>1, <2>7, <2>8, <3>2 DEF Promised, Running, TypeOK
    <3> QED
      BY <3>1, <3>2
  <2> QED
    BY <2>7, <2>8 DEF StampNotFuture
<1>4. CASE Renew(m)
  <2>1. PICK s \in job[m].todo : job' = [job EXCEPT ![m].todo = @ \ {s}]
    BY <1>4 DEF Renew
  <2>2. \A k \in Managers : Promised(k)' = Promised(k)
    BY <2>1 DEF Promised, TypeOK, Jobs
  <2>3. \A k \in Managers : Running(k)' => Running(k)
    BY <1>4 DEF Renew, Running, TypeOK
  <2> QED
    BY <1>4, <2>2, <2>3 DEF Renew, StampNotFuture
<1>5. CASE RenewOutOfRange(m)
  BY <1>5 DEF RenewOutOfRange, GiveUp, JobOver, StampNotFuture, TypeOK, Running,
    Promised, entry
<1>6. CASE Apply(m)
  <2>1. lastAt' = Promised(m) /\ Running(m) /\ UNCHANGED now /\ JobOver(m)
    BY <1>6 DEF Apply, Promised, AdvanceLastRefresh, Running
  <2> QED
    BY <2>1 DEF JobOver, StampNotFuture, TypeOK, Running, Promised
<1> QED
  BY <1>1, <1>2, <1>3, <1>4, <1>5, <1>6 DEF Work

LEMMA FormNotFutureNext == FutureInv /\ [Next]_vars => FormNotFuture'
<1> SUFFICES ASSUME FutureInv, [Next]_vars PROVE FormNotFuture'
  OBVIOUS
<1> USE DEF FutureInv, FormNotFuture
<1>1. CASE Tick
  BY <1>1 DEF Tick, TypeOK, Forms
<1>2. ASSUME NEW n \in Slots, NEW p \in Periods, ReapplyFirst(n, p)
      PROVE  FormNotFuture'
  BY <1>2 DEF ReapplyFirst, StampNotFuture
<1>3. CASE SaveAfterwards \/ ReapplyFails \/ Crash
  BY <1>3, NoFormTyped DEF SaveAfterwards, ReapplyFails, Crash
<1>4. CASE UNCHANGED <<now, form>>
  BY <1>4
<1> QED
  BY <1>1, <1>2, <1>3, <1>4
  DEF Next, vars, SaveAtOnce, ProvisionAll, ProvisionSlot, Work, SeedStamp, SetupDone,
      StartJob, Renew, RenewOutOfRange, Apply, JobFails, Reload

LEMMA FutureInvNext == FutureInv /\ [Next]_vars => FutureInv'
<1> SUFFICES ASSUME FutureInv, [Next]_vars
    PROVE  /\ StampNotFuture'
           /\ \A m \in Managers : Running(m)' => Promised(m)' <= now'
  BY TypeOKNext, FormNotFutureNext DEF FutureInv
<1> USE DEF FutureInv
<1>1. CASE UNCHANGED vars
  BY <1>1 DEF StampNotFuture, Running, Promised, vars, entry
<1>2. CASE Tick
  <2>1. ASSUME NEW m \in Managers PROVE Promised(m) \in Nat
    <3>1. job[m].base \in Nat /\ job[m].size \in Nat /\ job[m].period \in Nat
      BY DEF TypeOK, Jobs
    <3> QED
      BY <3>1, ProductInNat DEF Promised
  <2> QED
    BY <1>2, <2>1 DEF Tick, StampNotFuture, Running, Promised, TypeOK, entry
<1>3. ASSUME NEW n \in Slots, NEW p \in Periods, SaveAtOnce(n, p) \/ ReapplyFirst(n, p)
      PROVE  UNCHANGED <<now, lastAt, phase, job>>
  BY <1>3 DEF SaveAtOnce, Save, ReapplyFirst, entry
<1>10. CASE SaveAfterwards
  BY <1>10 DEF SaveAfterwards, Save, FormNotFuture, StampNotFuture, Running, Promised
<1>11. CASE ReapplyFails
  BY <1>11 DEF ReapplyFails, StampNotFuture, Running, Promised, entry
<1>4. CASE ProvisionAll
  BY <1>4 DEF ProvisionAll, StartOver, StampNotFuture, Running, Promised, TypeOK
<1>5. ASSUME NEW s \in Slots, ProvisionSlot(s)
      PROVE  UNCHANGED <<now, lastAt, phase, job>>
  BY <1>5 DEF ProvisionSlot
<1>6. ASSUME NEW m \in Managers, Work(m)
      PROVE  /\ StampNotFuture'
             /\ \A k \in Managers : Running(k)' => Promised(k)' <= now'
  BY <1>6, FutureInvWork
<1>7. ASSUME NEW m \in Managers, JobFails(m)
      PROVE  /\ StampNotFuture'
             /\ \A k \in Managers : Running(k)' => Promised(k)' <= now'
  BY <1>7 DEF JobFails, GiveUp, JobOver, StampNotFuture, TypeOK, Running,
    Promised, entry
<1>8. ASSUME NEW m \in Managers, Reload(m)
      PROVE  /\ UNCHANGED <<now, lastAt, job>>
             /\ \A k \in Managers : Running(k)' => Running(k)
  BY <1>8 DEF Reload, Running, TypeOK, entry
<1>9. CASE Crash
  BY <1>9 DEF Crash, StampNotFuture, Running, entry
<1> QED
  BY <1>1, <1>2, <1>3, <1>4, <1>5, <1>6, <1>7, <1>8, <1>9, <1>10, <1>11
  DEF Next, StampNotFuture, Running, Promised

\* Whatever cadence, catch-up, fault, manual call, reload or stale form: the
\* stamp never lies in the future.
THEOREM StampNeverInFuture == Spec => []StampNotFuture
<1>1. Init => FutureInv
  BY TypeOKInit, NoFormTyped DEF Init, FutureInv, FormNotFuture, StampNotFuture, Running
<1>2. SafetySpec => []FutureInv
  BY <1>1, FutureInvNext, PTL DEF SafetySpec
<1>3. FutureInv => StampNotFuture
  BY DEF FutureInv
<1> QED
  BY <1>2, <1>3, PTL DEF Spec, SafetySpec

-----------------------------------------------------------------------------
(* Manual calls and reloads that keep out of the jobs. *)

OnlyCurrent == \A m \in Managers : m # current => phase[m] = "off"

\* A form that waits holds a stamp no younger than the one on the entry.
FormBehind ==
  form.waiting /\ form.stamp # None => lastAt # None /\ form.stamp <= lastAt

\* A job advances the very stamp that is on the entry, or one that a form has
\* since replaced by an older one.
Advances(m) ==
  /\ lastAt # None => lastAt <= job[m].base
  /\ ~rewound => lastAt = job[m].base

BaseInv ==
  /\ TypeOK
  /\ OnlyCurrent
  /\ FormBehind
  /\ \A m \in Managers : Running(m) => Advances(m)

\* Only the instance that was set up last does anything.
LEMMA OnlyCurrentWorks ==
  ASSUME TypeOK, OnlyCurrent, NEW m \in Managers, Work(m) \/ JobFails(m)
  PROVE  /\ m = current /\ current' = current
         /\ \A k \in Managers : k # m => phase[k] = "off" /\ phase'[k] = "off"
<1>1. phase[m] # "off"
  BY DEF Work, SeedStamp, SetupDone, StartJob, Renew, RenewOutOfRange, Apply, JobFails, Running
<1>2. current' = current /\ \A k \in Managers : k # m => phase'[k] = phase[k]
  BY DEF Work, SeedStamp, SetupDone, StartJob, Renew, RenewOutOfRange, Apply, JobFails,
         GiveUp, JobOver, TypeOK
<1> QED
  BY <1>1, <1>2 DEF OnlyCurrent

LEMMA OnlyCurrentNext ==
  ASSUME TypeOK, OnlyCurrent, ~Overlap, [Next]_vars
  PROVE  OnlyCurrent'
<1>1. ASSUME NEW m \in Managers, Work(m) \/ JobFails(m) PROVE OnlyCurrent'
  BY <1>1, OnlyCurrentWorks DEF OnlyCurrent
<1>2. ASSUME NEW m \in Managers, Reload(m) PROVE OnlyCurrent'
  BY <1>2 DEF Reload, MayCall, OnlyCurrent, TypeOK
<1>3. CASE Crash
  BY <1>3 DEF Crash, OnlyCurrent
<1> QED
  BY <1>1, <1>2, <1>3
  DEF Next, Tick, SaveAtOnce, ReapplyFirst, SaveAfterwards, ReapplyFails,
      ProvisionAll, ProvisionSlot, vars, OnlyCurrent

LEMMA FormBehindNext == ~Overlap /\ BaseInv /\ FutureInv /\ [Next]_vars => FormBehind'
<1> SUFFICES ASSUME BaseInv, FutureInv, [Next]_vars PROVE FormBehind'
  OBVIOUS
<1> USE DEF BaseInv, FormBehind
<1>1. ASSUME NEW n \in Slots, NEW p \in Periods, ReapplyFirst(n, p)
      PROVE  FormBehind'
  BY <1>1 DEF ReapplyFirst, TypeOK, entry
<1>2. CASE SaveAfterwards \/ ReapplyFails \/ Crash
  BY <1>2, NoFormTyped DEF SaveAfterwards, ReapplyFails, Crash
<1>3. ASSUME lastAt' = now, UNCHANGED form PROVE FormBehind'
  BY <1>3, ConstantsAssumption DEF FutureInv, FormNotFuture, TypeOK
<1>4. ASSUME NEW m \in Managers, Apply(m) PROVE FormBehind'
  <2>1. /\ lastAt' = job[m].base + job[m].size * job[m].period
        /\ Running(m) /\ UNCHANGED form
    BY <1>4 DEF Apply, AdvanceLastRefresh, Running
  <2>2. job[m].base \in Nat /\ job[m].size \in Nat /\ job[m].period \in Nat
    BY DEF TypeOK, Jobs
  <2>3. lastAt' \in Nat /\ job[m].base <= lastAt'
    BY <2>1, <2>2, ProductInNat
  <2>4. lastAt # None => lastAt \in Nat /\ lastAt <= job[m].base
    BY <2>1 DEF Advances, TypeOK
  <2> QED
    BY <2>1, <2>2, <2>3, <2>4, ConstantsAssumption DEF TypeOK, Forms
<1>5. CASE UNCHANGED <<lastAt, form>>
  BY <1>5
<1> QED
  BY <1>1, <1>2, <1>3, <1>4, <1>5
  DEF Next, vars, entry, Tick, SaveAtOnce, Save, ProvisionAll, ProvisionSlot, StartOver,
      Work, SeedStamp, SetupDone, StartJob, Renew, RenewOutOfRange, JobFails, Reload

LEMMA BaseInvNext == ~Overlap /\ BaseInv /\ FutureInv /\ [Next]_vars => BaseInv'
<1> SUFFICES ASSUME ~Overlap, BaseInv, FutureInv, [Next]_vars
    PROVE  \A m \in Managers : Running(m)' => Advances(m)'
  BY TypeOKNext, OnlyCurrentNext, FormBehindNext DEF BaseInv
<1> USE DEF BaseInv, Advances
<1>1. CASE UNCHANGED vars
  BY <1>1 DEF Running, vars, entry, history
<1>2. CASE Tick
  BY <1>2 DEF Tick, Running, entry, history
<1>3. ASSUME NEW n \in Slots, NEW p \in Periods, SaveAtOnce(n, p) \/ ReapplyFirst(n, p)
      PROVE  UNCHANGED <<lastAt, rewound, phase, job>>
  BY <1>3 DEF SaveAtOnce, Save, ReapplyFirst, entry, history
<1>4. CASE ProvisionAll
  BY <1>4 DEF ProvisionAll, MayCall, Running
<1>5. ASSUME NEW s \in Slots, ProvisionSlot(s)
      PROVE  UNCHANGED <<lastAt, rewound, phase, job>>
  BY <1>5 DEF ProvisionSlot
<1>6. ASSUME NEW m \in Managers, Work(m)
      PROVE  \A k \in Managers : Running(k)' => Advances(k)'
  <2>0. \A k \in Managers : Running(k)' => k = m
    BY <1>6, OnlyCurrentWorks DEF Running
  <2>1. CASE SeedStamp(m) \/ SetupDone(m) \/ RenewOutOfRange(m) \/ Apply(m)
    <3>1. phase'[m] \in {"idle", "off"}
      BY <2>1 DEF SeedStamp, SetupDone, RenewOutOfRange, Apply, GiveUp, JobOver, TypeOK
    <3> QED
      BY <2>0, <3>1 DEF Running
  <2>2. CASE StartJob(m)
    BY <2>0, <2>2 DEF StartJob, TypeOK, entry, history
  <2>3. CASE Renew(m)
    BY <2>0, <2>3 DEF Renew, TypeOK, Jobs, Running
  <2> QED
    BY <1>6, <2>1, <2>2, <2>3 DEF Work
<1>7. ASSUME NEW m \in Managers, JobFails(m)
      PROVE  \A k \in Managers : Running(k)' => Advances(k)'
  BY <1>7 DEF JobFails, GiveUp, JobOver, TypeOK, Running, entry, history
<1>8. ASSUME NEW m \in Managers, Reload(m)
      PROVE  /\ UNCHANGED <<lastAt, rewound, job>>
             /\ \A k \in Managers : Running(k)' => Running(k)
  BY <1>8 DEF Reload, Running, TypeOK, entry, history
<1>9. CASE Crash
  BY <1>9 DEF Crash, Running
<1>10. CASE SaveAfterwards
  <2>1. /\ UNCHANGED <<phase, job>> /\ lastAt' = form.stamp /\ form.waiting
        /\ rewound' = (rewound \/ form.stamp # lastAt)
    BY <1>10 DEF SaveAfterwards, Save
  <2> SUFFICES ASSUME NEW m \in Managers, Running(m) PROVE Advances(m)'
    BY <2>1 DEF Running
  <2>2. Advances(m) /\ job[m].base \in Nat
    BY DEF TypeOK, Jobs
  <2>3. ~rewound' => lastAt' = job'[m].base
    BY <2>1, <2>2
  <2>4. lastAt' # None => lastAt' <= job'[m].base
    <3>1. lastAt' # None =>
            form.stamp \in Nat /\ lastAt # None /\ lastAt \in Nat /\ form.stamp <= lastAt
      BY <2>1 DEF FormBehind, TypeOK, Forms
    <3> QED
      BY <2>1, <2>2, <3>1
  <2> QED
    BY <2>3, <2>4
<1>11. CASE ReapplyFails
  BY <1>11 DEF ReapplyFails, Running, entry, history
<1> QED
  BY <1>1, <1>2, <1>3, <1>4, <1>5, <1>6, <1>7, <1>8, <1>9, <1>10, <1>11 DEF Next, Running

LEMMA BaseAlways ==
  ASSUME ~Overlap
  PROVE  Spec => [](BaseInv /\ FutureInv)
<1>1. Init => BaseInv /\ FutureInv
  BY TypeOKInit, NoFormTyped
  DEF Init, BaseInv, OnlyCurrent, FormBehind, FutureInv, FormNotFuture, StampNotFuture, Running
<1>2. BaseInv /\ FutureInv /\ [Next]_vars => BaseInv' /\ FutureInv'
  BY BaseInvNext, FutureInvNext
<1>3. SafetySpec => [](BaseInv /\ FutureInv)
  BY <1>1, <1>2, PTL DEF SafetySpec
<1> QED
  BY <1>3, PTL DEF Spec, SafetySpec

LEMMA StampStep ==
  ASSUME BaseInv, FutureInv, [Next]_vars, lastAt # None, ~SaveAfterwards
  PROVE  lastAt' >= lastAt
<1>0. lastAt \in Nat /\ lastAt <= now /\ now \in Nat
  BY DEF BaseInv, FutureInv, TypeOK, StampNotFuture
<1>1. CASE UNCHANGED lastAt
  BY <1>0, <1>1
<1>2. CASE ProvisionAll
  BY <1>0, <1>2 DEF ProvisionAll, StartOver
<1>3. ASSUME NEW m \in Managers, Work(m), ~UNCHANGED lastAt
      PROVE  lastAt' >= lastAt
  <2>1. Apply(m)
    BY <1>0, <1>3 DEF Work, SeedStamp, SetupDone, StartJob, Renew, RenewOutOfRange, entry
  <2>2. lastAt' = job[m].base + job[m].size * job[m].period
    BY <2>1 DEF Apply, AdvanceLastRefresh
  <2>3. lastAt <= job[m].base
    BY <2>1 DEF Apply, BaseInv, Advances, Running
  <2>4. job[m].base \in Nat /\ job[m].size \in Nat /\ job[m].period \in Nat
    BY DEF BaseInv, TypeOK, Jobs
  <2> QED
    BY <1>0, <2>2, <2>3, <2>4, ProductInNat
<1> QED
  BY <1>1, <1>2, <1>3
  DEF Next, Tick, SaveAtOnce, Save, ReapplyFirst, ReapplyFails, ProvisionSlot, JobFails,
      Reload, Crash, vars, entry

\* Calls and reloads outside jobs: no failure, crash or change of cadence
\* moves the stamp back and makes the schedule repeat itself; a form that
\* waited for the router is the only thing that does.
THEOREM StampNeverBack ==
  ASSUME ~Overlap
  PROVE  Spec => StampMonotone
<1>1. BaseInv /\ FutureInv /\ [Next]_vars
        => [lastAt # None /\ ~SaveAfterwards => lastAt' >= lastAt]_vars
  BY StampStep
<1> QED
  BY <1>1, BaseAlways, PTL DEF Spec, StampMonotone

-----------------------------------------------------------------------------
(* No call or reload during a job, and a fixed tunnel count. *)

Calm == ~Overlap /\ MaxChanges = 0

\* How much of the stamp's next advance a job has already paid.
Done(m) == (job[m].size - Cardinality(job[m].todo)) * job[m].period

\* With a fixed count a form that waits holds that count.
FormCount == form.waiting => form.count = count

PaidInv ==
  /\ BaseInv
  /\ OnePerPeriod
  /\ FormCount
  /\ stored \subseteq 1 .. count
  /\ \A m \in Managers : Running(m) =>
       /\ job[m].base + Done(m) <= anchor + paid
       /\ faults = 0 /\ ~rewound => anchor + paid = job[m].base + Done(m)
       /\ IsFiniteSet(job[m].todo)
       /\ job[m].todo \subseteq 1 .. count
       /\ phase[m] = "apply" => job[m].todo = {}

LEMMA OneMoreDone ==
  ASSUME NEW a \in Int, NEW p \in Nat
  PROVE  (a + 1) * p = a * p + p
  OBVIOUS

LEMMA PaidInvStart ==
  ASSUME Calm, PaidInv, NEW m \in Managers, StartJob(m), BaseInv'
  PROVE  PaidInv'
<1> USE DEF PaidInv, Calm
<1>0. \A k \in Managers : k # m => ~Running(k) /\ ~Running(k)'
  BY OnlyCurrentWorks DEF Work, BaseInv, Running
<1>1. PICK targets \in SUBSET stored :
        /\ IsOldest(targets, MissedWindows(count))
        /\ job' = [job EXCEPT ![m] =
             [todo |-> targets, order |-> rank, base |-> lastAt,
              period |-> period, size |-> Cardinality(targets)]]
  BY DEF StartJob
<1>2. /\ lastAt \in Nat /\ lastAt # None /\ now \in Nat
      /\ period \in Nat \ {0} /\ count \in Nat
  BY ConstantsAssumption DEF StartJob, IsDue, Ready, TypeOK, Slots, BaseInv
<1>3. IsFiniteSet(targets) /\ Cardinality(targets) \in Nat
  BY <1>1, <1>2, MissedWindowsFit, OldestCount DEF BaseInv, TypeOK
<1>4. lastAt <= anchor + paid /\ (faults = 0 /\ ~rewound => lastAt = anchor + paid)
  BY <1>0, <1>2 DEF OnePerPeriod, PaidUp, StartJob, Running
<1>5. /\ job'[m].todo = targets /\ job'[m].size = Cardinality(targets)
      /\ job'[m].period = period /\ job'[m].base = lastAt
  BY <1>1 DEF BaseInv, TypeOK
<1>6. Done(m)' = 0
  BY <1>2, <1>3, <1>5 DEF Done
<1>7. /\ UNCHANGED <<lastAt, anchor, paid, rewound, stored, count, form, faults>>
      /\ phase'[m] = "renew"
  BY DEF StartJob, entry, history, bounds, BaseInv, TypeOK
<1>8. Running(m)'
  BY <1>7 DEF Running
<1>9. OnePerPeriod'
  BY <1>4, <1>7, <1>8 DEF OnePerPeriod, PaidUp
<1>10. /\ job'[m].base + Done(m)' <= anchor' + paid'
       /\ faults' = 0 /\ ~rewound' => anchor' + paid' = job'[m].base + Done(m)'
  BY <1>2, <1>4, <1>5, <1>6, <1>7
<1> QED
  BY <1>0, <1>2, <1>3, <1>5, <1>7, <1>9, <1>10 DEF FormCount

LEMMA PaidInvRenew ==
  ASSUME Calm, PaidInv, NEW m \in Managers, Renew(m), BaseInv'
  PROVE  PaidInv'
<1> USE DEF PaidInv, Calm
<1>0. \A k \in Managers : k # m => ~Running(k) /\ ~Running(k)'
  BY OnlyCurrentWorks DEF Work, BaseInv, Running
<1>1. PICK s \in job[m].todo :
        /\ Renewed(s)
        /\ job' = [job EXCEPT ![m].todo = @ \ {s}]
  BY DEF Renew
<1>2. /\ phase[m] = "renew" /\ paid' = paid + job[m].period
      /\ phase' = [phase EXCEPT ![m] = IF job'[m].todo = {} THEN "apply" ELSE "renew"]
      /\ UNCHANGED <<lastAt, count, anchor, rewound, form, faults>>
  BY DEF Renew, bounds
<1>3. Running(m) /\ Running(m)'
  BY <1>2 DEF Running, BaseInv, TypeOK
<1>4. /\ job[m] \in Jobs /\ job'[m].todo = job[m].todo \ {s}
      /\ job'[m].size = job[m].size /\ job'[m].period = job[m].period
      /\ job'[m].base = job[m].base
  BY <1>1 DEF BaseInv, TypeOK, Jobs
<1>5. /\ IsFiniteSet(job'[m].todo)
      /\ Cardinality(job[m].todo) \in Nat
      /\ Cardinality(job'[m].todo) = Cardinality(job[m].todo) - 1
  BY <1>3, <1>4, FS_RemoveElement, FS_CardinalityType
<1>6. Done(m)' = Done(m) + job[m].period
  <2> DEFINE a == job[m].size - Cardinality(job[m].todo)
  <2>1. a \in Int /\ job[m].period \in Nat /\ job[m].size \in Nat
    BY <1>4, <1>5 DEF Jobs
  <2>2. job'[m].size - Cardinality(job'[m].todo) = a + 1
    BY <1>4, <1>5, <2>1
  <2>3. Done(m)' = (a + 1) * job[m].period /\ Done(m) = a * job[m].period
    BY <1>4, <2>2 DEF Done
  <2> HIDE DEF a
  <2> QED
    BY <2>1, <2>3, OneMoreDone
<1>7. /\ anchor \in Nat /\ paid \in Nat /\ job[m].period \in Nat /\ job[m].base \in Nat
      /\ Done(m) \in Int
  <2>1. /\ job[m].size - Cardinality(job[m].todo) \in Int
        /\ job[m].period \in Nat /\ job[m].base \in Nat
    BY <1>4, <1>5 DEF Jobs
  <2> QED
    BY <1>3, <2>1 DEF BaseInv, TypeOK, Done
<1>8. /\ job'[m].base + Done(m)' <= anchor' + paid'
      /\ faults' = 0 /\ ~rewound' => anchor' + paid' = job'[m].base + Done(m)'
  BY <1>2, <1>3, <1>4, <1>6, <1>7
<1>9. stored' \subseteq 1 .. count'
  BY <1>1, <1>2, <1>3 DEF Renewed
<1>10. OnePerPeriod'
  <2>1. lastAt # None => lastAt \in Nat /\ lastAt <= anchor + paid
    BY DEF OnePerPeriod, BaseInv, TypeOK
  <2> QED
    BY <1>2, <1>3, <1>7, <2>1 DEF OnePerPeriod, PaidUp
<1>11. phase'[m] = "apply" => job'[m].todo = {}
  BY <1>2 DEF BaseInv, TypeOK
<1> QED
  BY <1>0, <1>2, <1>3, <1>4, <1>5, <1>8, <1>9, <1>10, <1>11 DEF FormCount

LEMMA PaidInvApply ==
  ASSUME Calm, PaidInv, NEW m \in Managers, Apply(m), BaseInv'
  PROVE  PaidInv'
<1> USE DEF PaidInv, Calm
<1>0. \A k \in Managers : k # m => ~Running(k) /\ ~Running(k)'
  BY OnlyCurrentWorks DEF Work, BaseInv, Running
<1>1. Running(m) /\ phase[m] = "apply" /\ job[m].todo = {}
  BY DEF Apply, Running
<1>2. lastAt' = job[m].base + job[m].size * job[m].period
  BY DEF Apply, AdvanceLastRefresh
<1>3. Done(m) = job[m].size * job[m].period
  <2>1. Cardinality(job[m].todo) = 0 /\ job[m].size \in Nat
    BY <1>1, FS_EmptySet DEF BaseInv, TypeOK, Jobs
  <2>2. job[m].size - Cardinality(job[m].todo) = job[m].size
    BY <2>1
  <2> QED
    BY <2>2 DEF Done
<1>4. /\ UNCHANGED <<anchor, paid, rewound, stored, count, form, faults>>
      /\ phase'[m] \in {"idle", "off"}
  BY DEF Apply, history, bounds, JobOver, BaseInv, TypeOK
<1>5. OnePerPeriod'
  BY <1>1, <1>2, <1>3, <1>4 DEF OnePerPeriod, PaidUp
<1> QED
  BY <1>0, <1>4, <1>5 DEF Running, FormCount

LEMMA PaidInvNext == Calm /\ PaidInv /\ FutureInv /\ [Next]_vars => PaidInv'
<1> SUFFICES ASSUME Calm, PaidInv, FutureInv, [Next]_vars PROVE PaidInv'
  OBVIOUS
<1> USE DEF PaidInv, Calm
<1>0. BaseInv'
  BY BaseInvNext
<1> DEFINE Same == UNCHANGED <<lastAt, anchor, paid, rewound, stored, count, phase, job, faults>>
<1>1. ASSUME Same, FormCount' PROVE PaidInv'
  BY <1>0, <1>1 DEF OnePerPeriod, PaidUp, Running, Done
<1>2. ASSUME NEW n \in Slots, NEW p \in Periods, SaveAtOnce(n, p) \/ ReapplyFirst(n, p)
      PROVE  Same /\ FormCount'
  <2>1. Submit(n)
    BY <1>2 DEF SaveAtOnce, ReapplyFirst
  <2>2. ~(changes < MaxChanges)
    BY DEF BaseInv, TypeOK
  <2>3. n = count /\ ~form.waiting
    BY <2>1, <2>2 DEF Submit
  <2>4. CASE SaveAtOnce(n, p)
    BY <2>3, <2>4 DEF SaveAtOnce, Save, FormCount, history
  <2>5. CASE ReapplyFirst(n, p)
    BY <2>3, <2>5 DEF ReapplyFirst, FormCount, entry, history
  <2> QED
    BY <1>2, <2>4, <2>5
<1>9. CASE SaveAfterwards
  <2>1. /\ lastAt' = form.stamp /\ count' = form.count /\ form.waiting
        /\ form' = NoForm /\ rewound' = (rewound \/ form.stamp # lastAt)
        /\ UNCHANGED <<anchor, paid, stored, phase, job, faults>>
    BY <1>9 DEF SaveAfterwards, Save, bounds
  <2>2. count' = count
    BY <2>1 DEF FormCount
  <2>3. lastAt' # None => lastAt' <= anchor' + paid'
    <3>1. lastAt' # None =>
            /\ form.stamp \in Nat /\ lastAt \in Nat
            /\ form.stamp <= lastAt /\ lastAt <= anchor + paid
      BY <2>1 DEF BaseInv, FormBehind, OnePerPeriod, TypeOK, Forms
    <3>2. anchor \in Nat /\ paid \in Nat
      BY DEF BaseInv, TypeOK
    <3> QED
      BY <2>1, <3>1, <3>2
  <2>4. OnePerPeriod'
    BY <2>1, <2>3 DEF OnePerPeriod, PaidUp, Running
  <2>5. FormCount'
    BY <2>1, NoFormTyped DEF FormCount
  <2> QED
    BY <1>0, <2>1, <2>2, <2>4, <2>5 DEF Running, Done
<1>10. CASE ReapplyFails
  BY <1>1, <1>10, NoFormTyped DEF ReapplyFails, FormCount, entry, history, bounds
<1>3. CASE ProvisionAll
  <2>1. /\ \A m \in Managers : ~Running(m) /\ ~Running(m)'
        /\ lastAt' = now /\ anchor' = now /\ paid' = 0
        /\ stored' = 1 .. count /\ UNCHANGED <<count, form>>
    BY <1>3 DEF ProvisionAll, StartOver, MayCall, Running
  <2>2. now \in Nat
    BY DEF BaseInv, TypeOK
  <2> QED
    BY <1>0, <2>1, <2>2 DEF OnePerPeriod, PaidUp, FormCount
<1>4. ASSUME NEW s \in Slots, ProvisionSlot(s) PROVE PaidInv'
  <2>1. UNCHANGED <<lastAt, anchor, paid, rewound, count, phase, job, form, faults>>
    BY <1>4 DEF ProvisionSlot, bounds
  <2>2. stored' = {t \in stored : t <= count} \cup {s} /\ s <= count
    BY <1>4 DEF ProvisionSlot, Renewed
  <2>3. s \in 1 .. count
    BY <2>2 DEF Slots, BaseInv, TypeOK
  <2> QED
    BY <1>0, <2>1, <2>2, <2>3 DEF OnePerPeriod, PaidUp, Running, Done, FormCount
<1>5. ASSUME NEW m \in Managers, Work(m) PROVE PaidInv'
  <2>0. \A k \in Managers : k # m => ~Running(k) /\ ~Running(k)'
    BY <1>5, OnlyCurrentWorks DEF BaseInv, Running
  <2>1. CASE SeedStamp(m)
    <3>1. /\ lastAt' = now /\ anchor' = now /\ paid' = 0
          /\ phase'[m] = "idle" /\ UNCHANGED <<stored, count, form>> /\ now \in Nat
      BY <2>1 DEF SeedStamp, StartOver, BaseInv, TypeOK
    <3> QED
      BY <1>0, <2>0, <3>1 DEF OnePerPeriod, PaidUp, Running, FormCount
  <2>2. CASE SetupDone(m)
    <3>1. /\ UNCHANGED <<lastAt, anchor, paid, rewound, stored, count, form, faults>>
          /\ phase[m] = "setup" /\ phase'[m] = "idle"
      BY <2>2 DEF SetupDone, entry, history, bounds, BaseInv, TypeOK
    <3> QED
      BY <1>0, <2>0, <3>1 DEF OnePerPeriod, PaidUp, Running, FormCount
  <2>3. CASE StartJob(m)
    BY <1>0, <2>3, PaidInvStart
  <2>4. CASE Renew(m)
    BY <1>0, <2>4, PaidInvRenew
  <2>5. CASE RenewOutOfRange(m)
    <3>1. PICK s \in job[m].todo : s > count
      BY <2>5 DEF RenewOutOfRange
    <3>2. s \in 1 .. count /\ count \in Int
      BY <2>5, <3>1 DEF RenewOutOfRange, Running, BaseInv, TypeOK, Slots
    <3> QED
      BY <3>1, <3>2
  <2>6. CASE Apply(m)
    BY <1>0, <2>6, PaidInvApply
  <2> QED
    BY <1>5, <2>1, <2>2, <2>3, <2>4, <2>5, <2>6 DEF Work
<1>6. ASSUME NEW m \in Managers, JobFails(m) PROVE PaidInv'
  <2>1. /\ UNCHANGED <<lastAt, anchor, paid, stored, count, form>>
        /\ faults' = faults + 1 /\ faults \in Nat
    BY <1>6 DEF JobFails, entry, history, BaseInv, TypeOK
  <2>2. \A k \in Managers : ~Running(k)'
    BY <1>6, OnlyCurrentWorks DEF JobFails, GiveUp, JobOver, Running, BaseInv, TypeOK
  <2> QED
    BY <1>0, <2>1, <2>2 DEF OnePerPeriod, FormCount
<1>7. ASSUME NEW m \in Managers, Reload(m) PROVE PaidInv'
  <2>1. /\ UNCHANGED <<lastAt, anchor, paid, rewound, stored, count, job, form, faults>>
        /\ \A k \in Managers : ~Running(k) /\ ~Running(k)'
    BY <1>7 DEF Reload, MayCall, entry, history, bounds, BaseInv, TypeOK, Running
  <2> QED
    BY <1>0, <2>1 DEF OnePerPeriod, PaidUp, FormCount
<1>8. CASE Crash
  <2>1. /\ UNCHANGED <<lastAt, anchor, paid, stored, count>>
        /\ faults' = faults + 1 /\ faults \in Nat /\ form' = NoForm
    BY <1>8 DEF Crash, entry, history, BaseInv, TypeOK
  <2>2. \A k \in Managers : ~Running(k)'
    BY <1>8 DEF Crash, Running
  <2> QED
    BY <1>0, <2>1, <2>2, NoFormTyped DEF OnePerPeriod, FormCount
<1> QED
  BY <1>1, <1>2, <1>3, <1>4, <1>5, <1>6, <1>7, <1>8, <1>9, <1>10
  DEF Next, Tick, vars, entry, history, bounds, FormCount

\* No call or reload during a job and a fixed tunnel count: through every
\* change of cadence and every catch-up the schedule makes one renewal per
\* period until something fails or a form overwrites a stamp that came while
\* it waited for the router, and then never one too few.
THEOREM RenewalsPaidFor ==
  ASSUME Calm
  PROVE  Spec => []OnePerPeriod
<1>1. Init => PaidInv
  BY TypeOKInit, NoFormTyped
  DEF Init, PaidInv, BaseInv, OnlyCurrent, FormBehind, FormCount, OnePerPeriod, PaidUp, Running
<1>2. Spec => [](BaseInv /\ FutureInv)
  BY BaseAlways DEF Calm
<1>3. PaidInv /\ (BaseInv /\ FutureInv) /\ [Next]_vars => PaidInv'
  BY PaidInvNext
<1>4. Spec => []PaidInv
  BY <1>1, <1>2, <1>3, PTL DEF Spec
<1>5. PaidInv => OnePerPeriod
  BY DEF PaidInv
<1> QED
  BY <1>4, <1>5, PTL

-----------------------------------------------------------------------------
(***************************************************************************)
(* The round: nothing but jobs that keep out of each other's way, because  *)
(* there is one instance, or because calls and reloads wait for the end.   *)
(***************************************************************************)
OneAtATime == ~Overlap \/ \A m, n \in Managers : m = n

\* No two slots have the same place in the order.
RanksDiffer == \A s, t \in Slots : rank[s] = rank[t] => s = t

\* What has been renewed in this round comes after what has not.
AheadLast == \A s \in ahead, t \in stored \ ahead : rank[t] < rank[s]

\* A job that goes on to the next round has yet to end this one first.
JobInRound(m) ==
  phase[m] = "renew" =>
    \A s \in job[m].todo \cap ahead, t \in stored \ ahead :
      t \in job[m].todo /\ Before(t, s, job[m].order)

RoundInv ==
  /\ TypeOK
  /\ ~Overlap => OnlyCurrent
  /\ RanksDiffer
  /\ AheadLast
  /\ \A m \in Managers : JobInRound(m)

\* A renewal puts its slot last and leaves the order of the others.
LEMMA RenewedOrder ==
  ASSUME TypeOK, RanksDiffer, NEW s \in Slots, Renewed(s)
  PROVE  /\ \A a \in Slots, b \in Slots \ {s} : b # a /\ (a = s \/ rank[b] < rank[a])
              => rank'[b] < rank'[a]
         /\ RanksDiffer'
<1>1. ASSUME NEW a \in Slots, NEW b \in Slots \ {s}, b # a, a = s \/ rank[b] < rank[a]
      PROVE  rank'[b] < rank'[a]
  <2>1. /\ rank[a] \in 1 .. MaxSlots /\ rank[b] \in 1 .. MaxSlots /\ rank[s] \in 1 .. MaxSlots
        /\ MaxSlots \in Nat
    BY ConstantsAssumption DEF TypeOK, Slots
  <2>2. rank[b] # rank[s]
    BY DEF RanksDiffer
  <2>3. rank'[b] = IF rank[b] > rank[s] THEN rank[b] - 1 ELSE rank[b]
    BY DEF Renewed
  <2>4. rank'[a] = IF a = s THEN MaxSlots
                   ELSE IF rank[a] > rank[s] THEN rank[a] - 1 ELSE rank[a]
    BY DEF Renewed
  <2>5. CASE a = s
    BY <2>1, <2>2, <2>3, <2>4, <2>5
  <2>6. CASE a # s
    BY <1>1, <2>1, <2>2, <2>3, <2>4, <2>6
  <2> QED
    BY <2>5, <2>6
<1>2. ASSUME NEW a \in Slots, NEW b \in Slots, a # b
      PROVE  rank'[a] # rank'[b]
  <2>1. rank[a] \in Int /\ rank[b] \in Int /\ rank[a] # rank[b]
    BY <1>2 DEF TypeOK, Slots, RanksDiffer
  <2>0. rank' \in [Slots -> Slots] /\ Slots \subseteq Int
    BY RenewedTyped DEF Slots
  <2>2. rank'[a] \in Int /\ rank'[b] \in Int
    BY <2>0
  <2>3. \/ a # s /\ (b = s \/ rank[a] < rank[b])
        \/ b # s /\ (a = s \/ rank[b] < rank[a])
    BY <1>2, <2>1
  <2> QED
    BY <1>1, <1>2, <2>2, <2>3
<1> QED
  BY <1>1, <1>2 DEF RanksDiffer

\* While nothing touches the order and the round, only the jobs matter.
LEMMA RoundKept ==
  ASSUME RoundInv, UNCHANGED <<stored, rank, ahead>>,
         \A m \in Managers : phase'[m] = "renew" => phase[m] = "renew" /\ job'[m] = job[m]
  PROVE  RanksDiffer' /\ AheadLast' /\ \A m \in Managers : JobInRound(m)'
BY DEF RoundInv, RanksDiffer, AheadLast, JobInRound, Before

LEMMA RoundInvRenew ==
  ASSUME OneAtATime, RoundInv, NEW m \in Managers, Renew(m)
  PROVE  RanksDiffer' /\ AheadLast' /\ \A k \in Managers : JobInRound(k)'
<1>1. PICK s \in job[m].todo :
        /\ Renewed(s)
        /\ ahead' = Served(s)
        /\ job' = [job EXCEPT ![m].todo = @ \ {s}]
  BY DEF Renew
<1>2. /\ TypeOK /\ s \in Slots /\ job[m].todo \subseteq Slots
      /\ stored \subseteq Slots /\ ahead \subseteq Slots
  BY DEF RoundInv, TypeOK, Jobs
<1>3. RanksDiffer'
  BY <1>1, <1>2, RenewedOrder DEF RoundInv
<1>4. ahead' = {} \/ ahead' = ahead \cup {s}
  BY <1>1 DEF Served
<1>5. stored' \subseteq stored \cup {s}
  BY <1>1 DEF Renewed
<1>6. AheadLast'
  <2> SUFFICES ASSUME NEW a \in ahead', NEW t \in stored' \ ahead'
      PROVE  rank'[t] < rank'[a]
    BY DEF AheadLast
  <2>1. ahead' = ahead \cup {s} /\ t # s /\ t # a /\ t \in stored \ ahead
    BY <1>4, <1>5
  <2>2. a = s \/ rank[t] < rank[a]
    BY <2>1 DEF RoundInv, AheadLast
  <2>3. a \in Slots /\ t \in Slots \ {s} /\ t # a
    BY <1>2, <2>1
  <2>4. TypeOK /\ RanksDiffer /\ s \in Slots /\ Renewed(s)
    BY <1>1, <1>2 DEF RoundInv
  <2> QED
    BY <2>2, <2>3, <2>4, RenewedOrder
<1>7. \A k \in Managers : k # m => phase'[k] # "renew"
  <2>1. CASE Overlap
    BY <2>1 DEF OneAtATime
  <2>2. CASE ~Overlap
    BY <1>2, <2>2, OnlyCurrentWorks DEF RoundInv, Work
  <2> QED
    BY <2>1, <2>2
<1>8. JobInRound(m)'
  <2> SUFFICES ASSUME NEW a \in job'[m].todo \cap ahead', NEW t \in stored' \ ahead'
      PROVE  t \in job'[m].todo /\ Before(t, a, job'[m].order)
    BY DEF JobInRound, Before
  <2>1. job'[m].todo = job[m].todo \ {s} /\ job'[m].order = job[m].order
    BY <1>1 DEF RoundInv, TypeOK, Jobs
  <2>2. a \in job[m].todo \cap ahead /\ t \in stored \ ahead /\ t # s
    BY <1>4, <1>5, <2>1
  <2>3. t \in job[m].todo /\ Before(t, a, job[m].order)
    BY <2>2 DEF RoundInv, JobInRound, Renew
  <2> QED
    BY <2>1, <2>2, <2>3
<1> QED
  BY <1>3, <1>6, <1>7, <1>8 DEF JobInRound

\* The oldest slots first: those that the round is waiting for.
LEMMA RoundInvStart ==
  ASSUME RoundInv, NEW m \in Managers, StartJob(m)
  PROVE  \A k \in Managers : JobInRound(k)'
<1>1. PICK targets \in SUBSET stored :
        /\ IsOldest(targets, MissedWindows(count))
        /\ job' = [job EXCEPT ![m] =
             [todo |-> targets, order |-> rank, base |-> lastAt,
              period |-> period, size |-> Cardinality(targets)]]
  BY DEF StartJob
<1>2. UNCHANGED <<stored, rank, ahead>> /\ phase' = [phase EXCEPT ![m] = "renew"]
  BY DEF StartJob, entry, history
<1>3. job'[m].todo = targets /\ job'[m].order = rank
  BY <1>1 DEF RoundInv, TypeOK
<1>4. ASSUME NEW s \in targets \cap ahead, NEW t \in stored \ ahead
      PROVE  t \in targets /\ rank[t] < rank[s]
  <2>1. rank[t] < rank[s]
    BY DEF RoundInv, AheadLast
  <2>2. rank[t] \in Int /\ rank[s] \in Int
    BY DEF RoundInv, TypeOK, Slots
  <2>3. t \notin targets => rank[s] < rank[t]
    BY <1>1 DEF IsOldest, Before
  <2> QED
    BY <2>1, <2>2, <2>3
<1>5. JobInRound(m)'
  BY <1>2, <1>3, <1>4 DEF JobInRound, Before
<1>6. ASSUME NEW k \in Managers, k # m PROVE JobInRound(k)'
  <2>1. phase'[k] = phase[k] /\ job'[k] = job[k]
    BY <1>1, <1>2, <1>6 DEF RoundInv, TypeOK
  <2> QED
    BY <1>2, <2>1 DEF RoundInv, JobInRound, Before
<1> QED
  BY <1>5, <1>6

LEMMA RoundInvNext == OneAtATime /\ RoundInv /\ [Next]_vars => RoundInv'
<1> SUFFICES ASSUME OneAtATime, RoundInv, [Next]_vars
    PROVE  RanksDiffer' /\ AheadLast' /\ \A m \in Managers : JobInRound(m)'
  BY TypeOKNext, OnlyCurrentNext DEF RoundInv
<1> DEFINE Same == /\ UNCHANGED <<stored, rank, ahead>>
                   /\ \A m \in Managers : phase'[m] = "renew" =>
                        phase[m] = "renew" /\ job'[m] = job[m]
<1>0. TypeOK
  BY DEF RoundInv
<1>a. ASSUME RanksDiffer', ahead' = {}
      PROVE  AheadLast' /\ \A m \in Managers : JobInRound(m)'
  BY <1>a DEF AheadLast, JobInRound
<1>1. CASE UNCHANGED vars
  BY <1>1, RoundKept DEF vars, entry, history
<1>2. CASE Tick
  BY <1>2, RoundKept DEF Tick, entry, history
<1>3. ASSUME NEW n \in Slots, NEW p \in Periods, SaveAtOnce(n, p) \/ ReapplyFirst(n, p)
      PROVE  Same
  BY <1>3 DEF SaveAtOnce, Save, ReapplyFirst, entry, history
<1>10. CASE SaveAfterwards \/ ReapplyFails
  BY <1>10, RoundKept DEF SaveAfterwards, Save, ReapplyFails, entry, history
<1>4. CASE ProvisionAll
  BY <1>4, <1>a DEF ProvisionAll, StartOver, RanksDiffer, BySlot
<1>5. ASSUME NEW s \in Slots, ProvisionSlot(s)
      PROVE  RanksDiffer' /\ ahead' = {}
  BY <1>0, <1>5, RenewedOrder DEF ProvisionSlot, RoundInv
<1>6. ASSUME NEW m \in Managers, Work(m)
      PROVE  RanksDiffer' /\ AheadLast' /\ \A k \in Managers : JobInRound(k)'
  <2>1. CASE SeedStamp(m)
    BY <1>a, <2>1 DEF SeedStamp, StartOver, RoundInv, RanksDiffer
  <2>2. CASE SetupDone(m)
    BY <1>0, <2>2, RoundKept DEF SetupDone, TypeOK, entry, history
  <2>3. CASE StartJob(m)
    <3>1. UNCHANGED <<stored, rank, ahead>>
      BY <2>3 DEF StartJob, entry, history
    <3> QED
      BY <2>3, <3>1, RoundInvStart DEF RoundInv, RanksDiffer, AheadLast
  <2>4. CASE Renew(m)
    BY <2>4, RoundInvRenew
  <2>5. CASE RenewOutOfRange(m)
    BY <1>0, <2>5, RoundKept DEF RenewOutOfRange, GiveUp, JobOver, TypeOK, entry, history
  <2>6. CASE Apply(m)
    BY <1>0, <2>6, RoundKept DEF Apply, JobOver, TypeOK, history
  <2> QED
    BY <1>6, <2>1, <2>2, <2>3, <2>4, <2>5, <2>6 DEF Work
<1>7. ASSUME NEW m \in Managers, JobFails(m)
      PROVE  Same
  BY <1>0, <1>7 DEF JobFails, GiveUp, JobOver, TypeOK, entry, history
<1>8. ASSUME NEW m \in Managers, Reload(m)
      PROVE  Same
  BY <1>0, <1>8 DEF Reload, TypeOK, entry, history
<1>9. CASE Crash
  BY <1>9, RoundKept DEF Crash, entry, history
<1> QED
  BY <1>1, <1>2, <1>3, <1>4, <1>5, <1>6, <1>7, <1>8, <1>9, <1>10, <1>a, RoundKept DEF Next

\* What a job renews next is not ahead, unless no active slot is behind.
LEMMA RoundStep ==
  ASSUME RoundInv, NEW m \in Managers, NEW s \in Slots, Renew(m), IsNext(m, s), s \in ahead
  PROVE  {t \in stored : t <= count} \subseteq ahead
<1> SUFFICES ASSUME NEW t \in stored \ ahead PROVE FALSE
  OBVIOUS
<1>1. s \in job[m].todo /\ phase[m] = "renew"
  BY DEF IsNext, Renew
<1>2. t \in job[m].todo \ {s} /\ Before(t, s, job[m].order)
  BY <1>1 DEF RoundInv, JobInRound
<1>3. Before(s, t, job[m].order)
  BY <1>2 DEF IsNext
<1>4. job[m] \in Jobs
  BY DEF RoundInv, TypeOK
<1>5. job[m].order \in [Slots -> Slots] /\ s \in Slots /\ t \in Slots
  BY <1>2, <1>4 DEF Jobs
<1>6. Slots \subseteq Int
  BY DEF Slots
<1>7. job[m].order[s] \in Int /\ job[m].order[t] \in Int
  BY <1>5, <1>6
<1> QED
  BY <1>2, <1>3, <1>7 DEF Before

\* async_refresh_due_slots renews round robin: no tunnel a second time while
\* an active one is still behind, whatever fails half way, and however the
\* count changes and services provision beside the job of the one instance.
THEOREM RenewalsGoRound ==
  ASSUME OneAtATime
  PROVE  Spec => RoundRobin
<1>1. Init => RoundInv
  BY TypeOKInit
  DEF Init, RoundInv, OnlyCurrent, RanksDiffer, BySlot, AheadLast, JobInRound
<1>2. RoundInv /\ [Next]_vars => RoundInv'
  BY RoundInvNext
<1>3. RoundInv /\ [Next]_vars
        => [\A m \in Managers, s \in Slots :
              Renew(m) /\ IsNext(m, s) /\ s \in ahead
                => {t \in stored : t <= count} \subseteq ahead]_vars
  BY RoundStep
<1>4. SafetySpec => []RoundInv
  BY <1>1, <1>2, PTL DEF SafetySpec
<1> QED
  BY <1>3, <1>4, PTL DEF Spec, SafetySpec, RoundRobin
==============================================================================
