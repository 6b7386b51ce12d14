--------------------------- MODULE RefreshSchedule ---------------------------
(***************************************************************************)
(* The staggered renewal of WireGuard credentials (wg_refresh.py and       *)
(* async_refresh_due_slots in session_manager.py).                         *)
(*                                                                         *)
(* An hourly check counts the refresh periods since the stamp kept in the  *)
(* entry's options and starts a job that renews as many of the oldest      *)
(* slots, one await after the other, applies the result to the router and  *)
(* only then advances the stamp.  The job works with the stamp, the period *)
(* and the order of the slots it read at its start; meanwhile services and *)
(* the options form change the entry.  The form, too, writes back a stamp  *)
(* it has read before an await, if the egress is on.  A manager instance   *)
(* owns a job: when the entry is reloaded, a new instance takes the timers *)
(* over while a job of the old one runs on.                                *)
(*                                                                         *)
(* Time is counted in checks of the hourly timer.  The renewal of one slot *)
(* is a single step here; Provisioning models what happens inside it.      *)
(* Proton gives every certificate the same lifetime, so certificates       *)
(* expire in the order in which they were issued: a new one is the last.   *)
(***************************************************************************)
EXTENDS Integers, FiniteSets

CONSTANTS
  MaxSlots,    \* MAX_TUNNEL_COUNT
  Periods,     \* the cadences' periods, in checks
  Managers,    \* instances of ProtonSessionManager that can coexist
  None,        \* the entry has no stamp
  Overlap,     \* may calls and reloads come while a job is in flight?
  MaxTime,     \* bound on the clock
  MaxChanges,  \* bound on changes of the tunnel count
  MaxForms,    \* bound on forms that are submitted while the egress is on
  MaxFaults    \* bound on failed renewals and applies, and on crashes

Slots == 1 .. MaxSlots

ASSUME ConstantsAssumption ==
  /\ MaxSlots \in Nat \ {0}
  /\ Periods \subseteq Nat \ {0}
  /\ None \notin Int
  /\ Overlap \in BOOLEAN
  /\ MaxTime \in Nat
  /\ MaxChanges \in Nat
  /\ MaxForms \in Nat
  /\ MaxFaults \in Nat

VARIABLES
  now,         \* the clock
  lastAt,      \* wg_refresh_last_at option
  period,      \* wg_refresh_interval option
  count,       \* tunnel_count option
  configured,  \* are the MikroTik options set?
  stored,      \* slots with a credential on the entry
  rank,        \* rank[s]: place of slot s in the order (expiration_time, slot)
  current,     \* the manager instance that holds the timers
  phase,       \* phase[m]: what instance m does
  job,         \* job[m]: the locals of its renewal job
  form,        \* the options form that waits for the router
  anchor,      \* history: where the schedule last started
  paid,        \* history: sum of the periods of the renewals since then
  ahead,       \* history: slots the schedule has renewed in this round
  rewound,     \* history: has a form overwritten another stamp since then?
  changes,
  forms,
  faults

entry == <<lastAt, period, count, configured, stored, rank>>
history == <<anchor, paid, ahead, rewound>>
bounds == <<changes, forms, faults>>
vars == <<now, entry, current, phase, job, form, history, bounds>>

BySlot == [s \in Slots |-> s]

NoJob == [todo |-> {}, order |-> BySlot, base |-> 0, period |-> 0, size |-> 0]

Jobs == [todo: SUBSET Slots, order: [Slots -> Slots], base: Nat,
         period: Nat, size: Nat]

NoForm == [waiting |-> FALSE, count |-> 1, period |-> 0, stamp |-> None]

Forms == [waiting: BOOLEAN, count: Slots, period: Nat, stamp: Nat \cup {None}]

Running(m) == phase[m] \in {"renew", "apply"}

TypeOK ==
  /\ now \in Nat
  /\ lastAt \in Nat \cup {None}
  /\ period \in Periods
  /\ count \in Slots
  /\ configured \in BOOLEAN
  /\ stored \subseteq Slots
  /\ rank \in [Slots -> Slots]
  /\ current \in Managers
  /\ phase \in [Managers -> {"off", "setup", "idle", "renew", "apply"}]
  /\ job \in [Managers -> Jobs]
  /\ form \in Forms
  /\ form.waiting => form.period \in Periods
  /\ anchor \in Nat
  /\ paid \in Nat
  /\ ahead \subseteq Slots
  /\ rewound \in BOOLEAN
  /\ changes \in Nat
  /\ forms \in Nat
  /\ faults \in Nat

Init ==
  /\ now = 0
  /\ lastAt = None
  /\ period \in Periods
  /\ count \in Slots
  /\ configured = FALSE
  /\ stored = {}
  /\ rank = BySlot
  /\ current \in Managers
  /\ phase = [m \in Managers |-> IF m = current THEN "idle" ELSE "off"]
  /\ job = [m \in Managers |-> NoJob]
  /\ form = NoForm
  /\ anchor = 0
  /\ paid = 0
  /\ ahead = {}
  /\ rewound = FALSE
  /\ changes = 0
  /\ forms = 0
  /\ faults = 0

(***************************************************************************)
(* The pure helpers of wg_refresh.py.                                      *)
(***************************************************************************)
\* Variant: the period that has just begun counts as missed.
MissedRoundedUp(cap) ==
  IF now <= lastAt THEN 0
  ELSE LET windows == (now - lastAt + period - 1) \div period
       IN  IF windows < cap THEN windows ELSE cap

MissedWindows(cap) ==
  IF now <= lastAt THEN 0
  ELSE LET windows == (now - lastAt) \div period
       IN  IF windows < cap THEN windows ELSE cap

\* Variant: the slots are taken in the order of their numbers.
BeforeByNumber(s, t, order) == s < t

\* The sort key (expiration_time, slot).
Before(s, t, order) == order[s] < order[t]

\* The first n stored slots, or all of them.
IsOldest(targets, n) ==
  /\ targets \subseteq stored
  /\ Cardinality(targets) =
       IF n < Cardinality(stored) THEN n ELSE Cardinality(stored)
  /\ \A s \in targets, t \in stored \ targets : Before(s, t, rank)

\* Variants: the stamp moves by one period only; it moves backwards.
AdvanceByOne(base, n, length) == base + length
AdvanceBack(base, n, length) == base - n * length

AdvanceLastRefresh(base, n, length) == base + n * length

-----------------------------------------------------------------------------
Tick ==
  /\ now < MaxTime
  /\ now' = now + 1
  /\ UNCHANGED <<entry, current, phase, job, form, history, bounds>>

(***************************************************************************)
(* The options form: connection, tunnel count and cadence, one form at a   *)
(* time.                                                                   *)
(***************************************************************************)
Submit(n) ==
  /\ ~form.waiting
  /\ n # count => changes < MaxChanges
  /\ changes' = IF n = count THEN changes ELSE changes + 1

\* Home Assistant replaces the options by the form's fields and the stamp
\* that the form took over from the previous options.
Save(n, p, at) ==
  /\ configured' = TRUE
  /\ count' = n
  /\ period' = p
  /\ lastAt' = at
  /\ UNCHANGED <<stored, rank>>

\* With the egress off, or no manager, the options are saved at once.
SaveAtOnce(n, p) ==
  /\ Submit(n)
  /\ <<configured, count, period>> # <<TRUE, n, p>>
  /\ Save(n, p, lastAt)
  /\ UNCHANGED <<now, current, phase, job, form, history, forms, faults>>

\* With the egress on, for which there must be options and slots, it is
\* applied first.
ReapplyFirst(n, p) ==
  /\ Submit(n)
  /\ forms < MaxForms
  /\ forms' = forms + 1
  /\ configured /\ stored # {}
  /\ form' = [waiting |-> TRUE, count |-> n, period |-> p, stamp |-> lastAt]
  /\ UNCHANGED <<now, entry, current, phase, job, history, faults>>

\* ... and then the previous stamp is saved along with the form.
SaveAfterwards ==
  /\ form.waiting
  /\ Save(form.count, form.period, form.stamp)
  /\ form' = NoForm
  /\ rewound' = (rewound \/ form.stamp # lastAt)
  /\ UNCHANGED <<now, current, phase, job, anchor, paid, ahead, bounds>>

\* The router cannot be reached: nothing is saved.
ReapplyFails ==
  /\ form.waiting
  /\ form' = NoForm
  /\ UNCHANGED <<now, entry, current, phase, job, history, bounds>>

\* May a service be called, or the entry be reloaded, now?
MayCall == Overlap \/ \A m \in Managers : ~Running(m)

\* The schedule starts over at the present time.
StartOver ==
  /\ lastAt' = now
  /\ anchor' = now
  /\ paid' = 0
  /\ ahead' = {}
  /\ rewound' = FALSE

\* async_provision_wireguard() succeeds: every tunnel is new.
ProvisionAll ==
  /\ MayCall
  /\ stored' = 1 .. count
  /\ rank' = BySlot
  /\ StartOver
  /\ UNCHANGED <<now, period, count, configured>>
  /\ UNCHANGED <<current, phase, job, form, bounds>>

\* async_provision_wireguard(slot=s) succeeds: slots above the count go.
Renewed(s) ==
  /\ s <= count
  /\ stored' = {t \in stored : t <= count} \cup {s}
  /\ rank' = [t \in Slots |-> IF t = s THEN MaxSlots
                           ELSE IF rank[t] > rank[s] THEN rank[t] - 1 ELSE rank[t]]

ProvisionSlot(s) ==
  /\ MayCall
  /\ Renewed(s)
  /\ ahead' = {}
  /\ UNCHANGED <<now, lastAt, period, count, configured, anchor, paid, rewound>>
  /\ UNCHANGED <<current, phase, job, form, bounds>>

\* _async_ensure_wg_refresh_stamp, and the check after it, which finds
\* nothing due.
SeedStamp(m) ==
  /\ phase[m] = "setup"
  /\ lastAt = None
  /\ stored # {}
  /\ StartOver
  /\ phase' = [phase EXCEPT ![m] = "idle"]
  /\ UNCHANGED <<now, period, count, configured, stored, rank>>
  /\ UNCHANGED <<current, job, form, bounds>>

\* Do the conditions for a renewal hold, and how many slots are due?
Ready == configured /\ stored # {} /\ lastAt # None
IsDue == Ready /\ MissedWindows(count) >= 1

\* Setup leaves the stamp alone and the check finds nothing due.
SetupDone(m) ==
  /\ phase[m] = "setup"
  /\ lastAt # None \/ stored = {}
  /\ ~IsDue
  /\ phase' = [phase EXCEPT ![m] = "idle"]
  /\ UNCHANGED <<now, entry, current, job, form, history, bounds>>

\* The hourly timer, or setup, finds slots due and starts the job.
StartJob(m) ==
  /\ m = current
  /\ phase[m] \in {"setup", "idle"}
  /\ IsDue
  /\ \E targets \in SUBSET stored :
       /\ IsOldest(targets, MissedWindows(count))
       /\ job' = [job EXCEPT ![m] =
            [todo |-> targets, order |-> rank, base |-> lastAt,
             period |-> period, size |-> Cardinality(targets)]]
  /\ phase' = [phase EXCEPT ![m] = "renew"]
  /\ UNCHANGED <<now, entry, current, form, history, bounds>>

\* Variant: _wg_refresh_running is not reset when the job fails.
LeaveRunning(m) ==
  /\ phase' = [phase EXCEPT ![m] = "stuck"]
  /\ job' = [job EXCEPT ![m] = NoJob]

\* The finally clause; an instance that was replaced disappears.
JobOver(m) ==
  /\ phase' = [phase EXCEPT ![m] = IF m = current THEN "idle" ELSE "off"]
  /\ job' = [job EXCEPT ![m] = NoJob]

GiveUp(m) == JobOver(m)

\* The history of the round once s is renewed; a round ends with its last slot.
Served(s) ==
  IF {t \in stored : t <= count} \subseteq ahead \cup {s} THEN {} ELSE ahead \cup {s}

\* The next slot in the order the job found.
IsNext(m, s) == s \in job[m].todo /\ \A t \in job[m].todo \ {s} : Before(s, t, job[m].order)

Renew(m) ==
  /\ phase[m] = "renew"
  /\ \E s \in job[m].todo :
       /\ IsNext(m, s)
       /\ Renewed(s)
       /\ ahead' = Served(s)
       /\ job' = [job EXCEPT ![m].todo = @ \ {s}]
  /\ paid' = paid + job[m].period
  /\ phase' = [phase EXCEPT ![m] = IF job'[m].todo = {} THEN "apply" ELSE "renew"]
  /\ UNCHANGED <<now, lastAt, period, count, configured, anchor, rewound>>
  /\ UNCHANGED <<current, form, bounds>>

\* provision_wireguard_slots raises: the slot is above the tunnel count.
RenewOutOfRange(m) ==
  /\ phase[m] = "renew"
  /\ \E s \in job[m].todo : IsNext(m, s) /\ s > count
  /\ GiveUp(m)
  /\ UNCHANGED <<now, entry, current, form, history, bounds>>

\* Proton fails the renewal, or the router the apply: the stamp stays.
JobFails(m) ==
  /\ Running(m)
  /\ faults < MaxFaults
  /\ faults' = faults + 1
  /\ GiveUp(m)
  /\ UNCHANGED <<now, entry, current, form, history, changes, forms>>

\* The router takes the new credentials and the stamp is advanced.
Apply(m) ==
  /\ phase[m] = "apply"
  /\ lastAt' = AdvanceLastRefresh(job[m].base, job[m].size, job[m].period)
  /\ JobOver(m)
  /\ UNCHANGED <<now, period, count, configured, stored, rank>>
  /\ UNCHANGED <<current, form, history, bounds>>

\* The entry, once it is set up, is reloaded: another instance is set up, a
\* running job goes on.
Reload(m) ==
  /\ MayCall
  /\ phase[m] = "off" /\ phase[current] # "setup"
  /\ current' = m
  /\ phase' = [phase EXCEPT ![m] = "setup",
                            ![current] = IF Running(current) THEN @ ELSE "off"]
  /\ UNCHANGED <<now, entry, job, form, history, bounds>>

\* Home Assistant stops and starts again.
Crash ==
  /\ faults < MaxFaults
  /\ faults' = faults + 1
  /\ phase' = [m \in Managers |-> IF m = current THEN "setup" ELSE "off"]
  /\ job' = [m \in Managers |-> NoJob]
  /\ form' = NoForm
  /\ UNCHANGED <<now, entry, current, history, changes, forms>>

\* What timers and running jobs do on their own.
Work(m) ==
  \/ SeedStamp(m)
  \/ SetupDone(m)
  \/ StartJob(m)
  \/ Renew(m)
  \/ RenewOutOfRange(m)
  \/ Apply(m)

Next ==
  \/ Tick
  \/ \E n \in Slots, p \in Periods : SaveAtOnce(n, p) \/ ReapplyFirst(n, p)
  \/ SaveAfterwards \/ ReapplyFails
  \/ ProvisionAll
  \/ \E s \in Slots : ProvisionSlot(s)
  \/ \E m \in Managers : Work(m) \/ JobFails(m) \/ Reload(m)
  \/ Crash

\* The timer keeps firing and every await of a job returns.
Fairness == \A m \in Managers : WF_vars(Work(m))

Spec == Init /\ [][Next]_vars /\ Fairness

-----------------------------------------------------------------------------
(***************************************************************************)
(* Properties                                                              *)
(***************************************************************************)

\* The stamp never lies in the future, where it would silence the schedule:
\* whatever cadence, catch-up or reload, the stamp advances by no more than
\* the time that has passed.
StampNotFuture == lastAt # None => lastAt <= now

\* Nothing but a form that waited for the router, and writes back the stamp
\* from before, moves the stamp back, which repeats renewals already made; a
\* job that finds its stamp rewound meanwhile does not.
StampMonotone == [][lastAt # None /\ ~SaveAfterwards => lastAt' >= lastAt]_vars

\* Every renewal since the schedule started is paid for by a period of the
\* stamp, and every period by a renewal.
PaidUp == (\A m \in Managers : ~Running(m)) /\ lastAt # None => lastAt = anchor + paid

\* "One per period": between jobs PaidUp holds as long as nothing has failed
\* and no form has overwritten a stamp that came while it waited.  After that
\* there may be renewals too many, never one too few.
OnePerPeriod ==
  /\ faults = 0 /\ ~rewound => PaidUp
  /\ lastAt # None => lastAt <= anchor + paid

\* "The oldest": the schedule goes round robin.  No tunnel is renewed again
\* while another active one has waited for a whole round, though jobs fail
\* half way, are cut short by a crash or run beside manual calls.
RoundRobin ==
  [][\A m \in Managers, s \in Slots :
       Renew(m) /\ IsNext(m, s) /\ s \in ahead
         => {t \in stored : t <= count} \subseteq ahead]_vars

\* Whatever was missed, the schedule catches up.
CatchesUp == IsDue ~> ~IsDue
==============================================================================
