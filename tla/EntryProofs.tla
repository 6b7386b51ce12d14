----------------------------- MODULE EntryProofs -----------------------------
(***************************************************************************)
(* Invariants and action properties of Entry, for any number of slots and  *)
(* of tasks in flight; and Entry implements SlotStore.                     *)
(***************************************************************************)
EXTENDS Entry, TLAPS

USE ConstantsAssumption DEF Slots

Kinds == {"none", "switch", "form", "setup", "provision", "apply", "renew"}
Tables == [Slots -> Certs \cup {None}]

-----------------------------------------------------------------------------
(* What a task is when it awaits something. *)

LEMMA NoSlotsIs == NoSlots \in Tables /\ \A s \in Slots : NoSlots[s] = None
  BY DEF NoSlots, Tables

LEMMA IdleTask == Idle \in TaskStates /\ Idle.kind = "none" /\ Idle.at = "idle" /\ ~Idle.done
  BY NoSlotsIs DEF Idle, TaskStates, Tables

LEMMA EgressTask ==
  ASSUME NEW kind \in Kinds, NEW on \in BOOLEAN
  PROVE  /\ SetEgress(kind, on) \in TaskStates
         /\ SetEgress(kind, on).kind = kind /\ SetEgress(kind, on).at = "egress"
         /\ SetEgress(kind, on).on = on /\ ~SetEgress(kind, on).done
  BY IdleTask DEF SetEgress, TaskStates, Kinds

\* The task of a form that re-applies the egress first.
FormTask(f) == [SetEgress("form", TRUE) EXCEPT !.form = f, !.stamp = stamp]

LEMMA FormTaskIs ==
  ASSUME NEW f \in Forms, stamp \in Stamps \cup {None}
  PROVE  /\ FormTask(f) \in TaskStates
         /\ FormTask(f).kind = "form" /\ FormTask(f).at = "egress" /\ FormTask(f).on = TRUE
         /\ ~FormTask(f).done /\ FormTask(f).form = f /\ FormTask(f).stamp = stamp
  <1> DEFINE p == SetEgress("form", TRUE)
  <1>1. p \in TaskStates /\ p.kind = "form" /\ p.at = "egress" /\ p.on = TRUE /\ ~p.done
    BY EgressTask DEF Kinds
  <1>2. FormTask(f) = [p EXCEPT !.form = f, !.stamp = stamp]
    BY DEF FormTask
  <1> HIDE DEF p
  <1> QED BY <1>1, <1>2 DEF TaskStates

\* The reading of the router when the switch is added.
ReadTask == [Idle EXCEPT !.kind = "setup", !.at = "read"]

LEMMA ReadTaskIs ==
  /\ ReadTask \in TaskStates
  /\ ReadTask.kind = "setup" /\ ReadTask.at = "read" /\ ~ReadTask.done /\ ReadTask # Idle
  BY IdleTask DEF ReadTask, TaskStates

LEMMA ActiveIs ==
  ASSUME NEW held \in Tables, NEW f \in Forms \cup {None}
  PROVE  /\ ActiveOf(held, f) \in Tables
         /\ \A s \in Slots : ActiveOf(held, f)[s] = IF s <= Count[f] THEN held[s] ELSE None
  BY DEF ActiveOf, Tables

\* A task about to provision has read the tunnel count and keeps no other
\* slots than the active ones.
KeepsActive(r) ==
  r.at = "provision" =>
    /\ r.count = Count[form]
    /\ \A s \in Slots : r.slot \in {0, s} \/ s > r.count => r.held[s] = None

LEMMA ProvisionTask ==
  ASSUME NEW kind \in Kinds, NEW s \in 0 .. MaxSlots, NEW todo \in SUBSET Slots,
         NEW held \in Tables, form \in Forms \cup {None}
  PROVE  /\ Provision(kind, s, todo, held) \in TaskStates
         /\ Provision(kind, s, todo, held).kind = kind
         /\ Provision(kind, s, todo, held).at = "provision" /\ ~Provision(kind, s, todo, held).done
         /\ Provision(kind, s, todo, held).slot = s
         /\ Provision(kind, s, todo, held).count = Count[form]
         /\ \A r \in Slots : s \notin {0, r} /\ r <= Count[form] =>
              Provision(kind, s, todo, held).held[r] = held[r]
         /\ KeepsActive(Provision(kind, s, todo, held))
  <1> DEFINE kept == [r \in Slots |-> IF s \in {0, r} THEN None ELSE ActiveOf(held, form)[r]]
  <1>1. kept \in Tables /\ Count[form] \in 0 .. MaxSlots
    BY ActiveIs DEF Tables
  <1>2. \A r \in Slots : kept[r] = IF s \notin {0, r} /\ r <= Count[form] THEN held[r] ELSE None
    BY ActiveIs
  <1>4. \A r \in Slots : r > Count[form] => ~(r <= Count[form])
    BY <1>1
  <1>3. Provision(kind, s, todo, held) =
          [Idle EXCEPT !.kind = kind, !.at = "provision", !.slot = s, !.todo = todo,
                       !.count = Count[form], !.held = kept]
    BY DEF Provision
  <1> HIDE DEF kept
  <1>5. /\ Provision(kind, s, todo, held) \in TaskStates
        /\ Provision(kind, s, todo, held).kind = kind
        /\ Provision(kind, s, todo, held).at = "provision" /\ ~Provision(kind, s, todo, held).done
        /\ Provision(kind, s, todo, held).slot = s
        /\ Provision(kind, s, todo, held).count = Count[form]
        /\ Provision(kind, s, todo, held).held = kept
    BY <1>1, <1>3, IdleTask DEF TaskStates, Tables, Kinds
  <1> QED BY <1>2, <1>4, <1>5 DEF KeepsActive

LEMMA ApplyTask ==
  ASSUME NEW kind \in Kinds, NEW held \in Tables, form \in Forms \cup {None}
  PROVE  /\ Apply(kind, held) \in TaskStates
         /\ Apply(kind, held).kind = kind /\ Apply(kind, held).at = "apply" /\ ~Apply(kind, held).done
         /\ Apply(kind, held).held = ActiveOf(held, form)
  <1>1. ActiveOf(held, form) \in Tables
    BY ActiveIs
  <1> QED BY <1>1, IdleTask DEF Apply, TaskStates, Tables, Kinds

LEMMA HeldIs ==
  ASSUME TypeOK
  PROVE  /\ Held \in Tables
         /\ \A s \in Slots : Held[s] = Stored(s)
         /\ flat = None => Held = slots
  BY DEF TypeOK, Held, SlotsFromData, NoSlots, Stored, Tables

\* Awaiting changes no other task.
LEMMA AwaitIs ==
  ASSUME TypeOK, NEW t \in Tasks, NEW next \in TaskStates, Await(t, next)
  PROVE  /\ task' \in [Tasks -> TaskStates] /\ task'[t] = next
         /\ \A u \in Tasks : u # t => task'[u] = task[u]
         /\ own' \subseteq Tasks /\ sole' \subseteq Tasks
         /\ own' \subseteq own \cup {t}
         /\ Busy(t) => own' \subseteq own
         /\ next = Idle => own' = own \ {t}
  BY DEF TypeOK, Await

-----------------------------------------------------------------------------
(* Types. *)

\* What a change of tasks, of the entry's state and of the switch is typed by.
Running ==
  /\ task \in [Tasks -> TaskStates]
  /\ own \subseteq Tasks
  /\ sole \subseteq Tasks
  /\ state \in {"off", "setup", "forward", "loaded", "error"}
  /\ shown \in BOOLEAN \cup {None}

LEMMA CalmType ==
  ASSUME TypeOK, NEW t \in Tasks, Reads(t) \/ Writes(t)
  PROVE  calm' \subseteq Tasks
  BY DEF TypeOK, Reads, Writes

LEMMA ForwardType ==
  ASSUME TypeOK, NEW t \in Tasks, Forward(t)
  PROVE  Running'
  <1>1. CASE form = None
    BY <1>1, AwaitIs, IdleTask DEF TypeOK, Forward, Running
  <1>2. CASE form # None
    <2>1. Await(t, ReadTask) /\ state' = "forward" /\ shown' = egress
      BY <1>2 DEF Forward, ReadTask
    <2> QED BY <2>1, AwaitIs, ReadTaskIs DEF TypeOK, Running
  <1> QED BY <1>1, <1>2

LEMMA ProceedType ==
  ASSUME TypeOK, NEW t \in Tasks, Proceed(t)
  PROVE  Running'
  <1>1. CASE Await(t, SetEgress("setup", TRUE)) /\ state' = "setup" /\ UNCHANGED shown
    BY <1>1, AwaitIs, EgressTask DEF TypeOK, Running, Kinds
  <1>2. CASE SetupFails(t)
    BY <1>2, AwaitIs, IdleTask DEF TypeOK, Running, SetupFails
  <1>3. CASE Forward(t)
    BY <1>3, ForwardType
  <1> QED BY <1>1, <1>2, <1>3 DEF Proceed

LEMMA GoOnType ==
  ASSUME TypeOK, NEW t \in Tasks, GoOn(t)
  PROVE  Running'
  BY ProceedType, AwaitIs, IdleTask DEF TypeOK, Running, GoOn

\* What a task has read of the entry is what the entry has.
Recent(r) ==
  /\ r.at = "apply" => r.held = Active
  /\ r.at = "provision" =>
       \A s \in Slots : r.slot \notin {0, s} /\ s <= r.count => r.held[s] = Held[s]
  /\ r.at = "egress" /\ r.kind = "form" => r.stamp = stamp

\* ... or will have after the step.
RecentAfter(r) ==
  /\ r.at = "apply" => r.held = Active'
  /\ r.at = "provision" =>
       \A s \in Slots : r.slot \notin {0, s} /\ s <= r.count => r.held[s] = Held'[s]
  /\ r.at = "egress" /\ r.kind = "form" => r.stamp = stamp'

\* A renewal begins with some slot.
LEMMA RenewalBegins ==
  ASSUME TypeOK, NEW t \in Tasks, NEW kind \in Kinds, BeginRenewal(t, kind)
  PROVE  \E next \in TaskStates :
           /\ Await(t, next)
           /\ next.kind = kind /\ next.at = "provision" /\ ~next.done
           /\ Recent(next) /\ KeepsActive(next)
  <1>1. PICK due \in SUBSET {s \in Slots : Held[s] # None} :
          \E s \in due : Await(t, Provision(kind, s, due \ {s}, Held))
    BY DEF BeginRenewal
  <1>2. PICK s \in due : Await(t, Provision(kind, s, due \ {s}, Held))
    BY <1>1
  <1>3. s \in 0 .. MaxSlots /\ due \ {s} \in SUBSET Slots
    OBVIOUS
  <1> DEFINE next == Provision(kind, s, due \ {s}, Held)
  <1>4. /\ next \in TaskStates /\ next.kind = kind /\ next.at = "provision" /\ ~next.done
        /\ next.slot = s /\ next.count = Count[form]
        /\ \A r \in Slots : s \notin {0, r} /\ r <= Count[form] => next.held[r] = Held[r]
        /\ KeepsActive(next)
    BY <1>3, ProvisionTask, HeldIs DEF TypeOK
  <1>5. Await(t, next)
    BY <1>2
  <1> HIDE DEF next
  <1>6. Recent(next) /\ KeepsActive(next)
    BY <1>4 DEF Recent
  <1> QED BY <1>4, <1>5, <1>6

\* The calls that read the entry and then await a thread.
Calls(t) ==
  \/ TimerFires(t) \/ CallApply(t)
  \/ \E on \in BOOLEAN : TurnSwitch(t, on)
  \/ \E f \in Forms : ReapplyFirst(t, f)
  \/ \E s \in 0 .. MaxSlots : CallProvision(t, s)

LEMMA CallsAre ==
  ASSUME TypeOK, NEW t \in Tasks, Calls(t)
  PROVE  /\ Managed /\ ~Busy(t) /\ Reads(t)
         /\ UNCHANGED <<data, options, router, state, shown, fit, synced>>
         /\ \E next \in TaskStates :
              /\ Await(t, next)
              /\ next.kind \notin {"none", "setup"} /\ next.at # "read" /\ ~next.done
              /\ next.at = "egress" =>
                   next.kind = "switch" \/ (next.kind = "form" /\ next.on /\ egress)
              /\ Recent(next) /\ KeepsActive(next)
  <1> DEFINE Good(next) ==
        /\ next \in TaskStates
        /\ next.kind \notin {"none", "setup"} /\ next.at # "read" /\ ~next.done
        /\ next.at = "egress" =>
             next.kind = "switch" \/ (next.kind = "form" /\ next.on /\ egress)
        /\ Recent(next) /\ KeepsActive(next)
  <1>1. CASE TimerFires(t)
    <2>1. PICK next \in TaskStates :
            /\ Await(t, next)
            /\ next.kind = "renew" /\ next.at = "provision" /\ ~next.done
            /\ Recent(next) /\ KeepsActive(next)
      BY <1>1, RenewalBegins DEF TimerFires, Kinds
    <2> QED BY <1>1, <2>1 DEF TimerFires
  <1>2. CASE CallApply(t)
    <2> DEFINE next == Apply("apply", Held)
    <2>1. /\ next \in TaskStates /\ next.kind = "apply" /\ next.at = "apply" /\ ~next.done
          /\ next.held = ActiveOf(Held, form)
      BY ApplyTask, HeldIs DEF TypeOK, Kinds
    <2>2. Call(t, next)
      BY <1>2 DEF CallApply
    <2> HIDE DEF next
    <2>3. Good(next)
      BY <2>1 DEF Recent, KeepsActive, Active
    <2> QED BY <2>2, <2>3 DEF Call
  <1>3. CASE \E on \in BOOLEAN : TurnSwitch(t, on)
    <2>1. PICK on \in BOOLEAN : Call(t, SetEgress("switch", on))
      BY <1>3 DEF TurnSwitch
    <2> DEFINE next == SetEgress("switch", on)
    <2>2. next \in TaskStates /\ next.kind = "switch" /\ next.at = "egress" /\ ~next.done
      BY EgressTask DEF Kinds
    <2>3. Call(t, next)
      BY <2>1
    <2> HIDE DEF next
    <2>4. Good(next)
      BY <2>2 DEF Recent, KeepsActive
    <2> QED BY <2>3, <2>4 DEF Call
  <1>4. CASE \E f \in Forms : ReapplyFirst(t, f)
    <2>1. PICK f \in Forms : egress /\ Call(t, FormTask(f))
      BY <1>4 DEF ReapplyFirst, FormTask
    <2>2. Good(FormTask(f))
      BY <2>1, FormTaskIs DEF TypeOK, Recent, KeepsActive
    <2> QED BY <2>1, <2>2 DEF Call
  <1>5. CASE \E s \in 0 .. MaxSlots : CallProvision(t, s)
    <2>1. PICK s \in 0 .. MaxSlots : Call(t, Provision("provision", s, {}, Held))
      BY <1>5 DEF CallProvision
    <2> DEFINE next == Provision("provision", s, {}, Held)
    <2>2. /\ next \in TaskStates /\ next.kind = "provision" /\ next.at = "provision" /\ ~next.done
          /\ next.slot = s /\ next.count = Count[form]
          /\ \A r \in Slots : s \notin {0, r} /\ r <= Count[form] => next.held[r] = Held[r]
          /\ KeepsActive(next)
      BY ProvisionTask, HeldIs DEF TypeOK, Kinds
    <2>3. Call(t, next)
      BY <2>1
    <2> HIDE DEF next
    <2>4. Good(next)
      BY <2>2 DEF Recent, KeepsActive
    <2> QED BY <2>3, <2>4 DEF Call
  <1> QED BY <1>1, <1>2, <1>3, <1>4, <1>5 DEF Calls

\* What a provisioning leaves in the entry.
LEMMA RewriteType ==
  ASSUME TypeOK, NEW t \in Tasks, RewriteSlots(t)
  PROVE  slots' \in Tables /\ flat' = None /\ Held' = slots'
  <1> DEFINE renewed == IF task[t].slot = 0 THEN 1 .. task[t].count ELSE {task[t].slot}
  <1>1. task[t].held \in Tables
    BY DEF TypeOK, TaskStates, Tables
  <1>2. PICK new \in [renewed -> Fresh] :
          slots' = [s \in Slots |-> IF s \in renewed THEN new[s] ELSE task[t].held[s]]
    BY DEF RewriteSlots
  <1>3. slots' \in Tables
    <2>1. \A s \in renewed : new[s] \in Certs
      BY <1>2 DEF Fresh
    <2> QED BY <1>1, <1>2, <2>1 DEF Tables
  <1>4. flat' = None
    BY DEF RewriteSlots
  <1>5. Held' = slots'
    BY <1>3, <1>4, NoSlotsIs DEF Held, SlotsFromData, NoSlots, Tables
  <1> QED BY <1>3, <1>4, <1>5

\* A renewal goes on with what is stored now.
LEMMA RenewalGoesOn ==
  ASSUME TypeOK, NEW t \in Tasks, RenewalStored(t)
  PROVE  \E next \in TaskStates :
           /\ Await(t, next)
           /\ next.kind = task[t].kind /\ next.at \in {"apply", "provision"} /\ ~next.done
           /\ RecentAfter(next) /\ KeepsActive(next) /\ (next.at = "provision" => next.slot # 0)
  <1>1. slots' \in Tables /\ Held' = slots' /\ form' = form /\ task[t].kind \in Kinds
    BY RewriteType DEF RenewalStored, RewriteSlots, Kinds
  <1>2. CASE ApplyStored(t)
    <2> DEFINE next == Apply(task[t].kind, slots')
    <2>1. /\ next \in TaskStates /\ next.kind = task[t].kind /\ next.at = "apply" /\ ~next.done
          /\ next.held = ActiveOf(slots', form)
      BY <1>1, ApplyTask DEF TypeOK
    <2>2. Await(t, next)
      BY <1>2 DEF ApplyStored
    <2> HIDE DEF next
    <2>3. Active' = ActiveOf(slots', form)
      BY <1>1 DEF Active, ActiveOf
    <2> QED BY <2>1, <2>2, <2>3 DEF RecentAfter, KeepsActive
  <1>3. CASE \E s \in task[t].todo :
               Await(t, Provision(task[t].kind, s, task[t].todo \ {s}, slots'))
    <2>1. PICK s \in task[t].todo :
            Await(t, Provision(task[t].kind, s, task[t].todo \ {s}, slots'))
      BY <1>3
    <2>2. s \in 0 .. MaxSlots /\ s # 0 /\ task[t].todo \ {s} \in SUBSET Slots
      BY DEF TypeOK, TaskStates
    <2> DEFINE next == Provision(task[t].kind, s, task[t].todo \ {s}, slots')
    <2>3. /\ next \in TaskStates /\ next.kind = task[t].kind /\ next.at = "provision" /\ ~next.done
          /\ next.slot = s /\ next.count = Count[form]
          /\ \A r \in Slots : s \notin {0, r} /\ r <= Count[form] => next.held[r] = slots'[r]
          /\ KeepsActive(next)
      BY <1>1, <2>2, ProvisionTask DEF TypeOK
    <2>4. Await(t, next)
      BY <2>1
    <2> HIDE DEF next
    <2> QED BY <1>1, <2>2, <2>3, <2>4 DEF RecentAfter
  <1> QED BY <1>2, <1>3 DEF RenewalStored

LEMMA TypeInit == Init => TypeOK
  <1> SUFFICES ASSUME Init PROVE TypeOK
    OBVIOUS
  <1>1. synced \in BOOLEAN
    BY DEF Init
  <1>2. task \in [Tasks -> TaskStates]
    BY IdleTask DEF Init
  <1> QED BY <1>1, <1>2, NoSlotsIs DEF Init, TypeOK, Tables

LEMMA TypeSetup ==
  ASSUME TypeOK, NEW t \in Tasks, Setup(t)
  PROVE  TypeOK'
  <1>1. calm' \subseteq Tasks
    BY CalmType DEF Setup
  <1>2. stamp' \in Stamps \cup {None}
    BY DEF Setup, EnsureStamp, TypeOK
  <1>3. CASE Proceed(t)
    BY <1>1, <1>2, <1>3, ProceedType DEF Setup, TypeOK, Running, data, router
  <1>4. CASE BeginRenewal(t, "setup") /\ state' = "setup" /\ UNCHANGED shown
    <2>1. task' \in [Tasks -> TaskStates] /\ own' \subseteq Tasks /\ sole' \subseteq Tasks
      BY <1>4, RenewalBegins, AwaitIs DEF Kinds
    <2> QED BY <1>1, <1>2, <1>4, <2>1 DEF Setup, TypeOK, data, router
  <1> QED BY <1>3, <1>4 DEF Setup

LEMMA TypeCalls ==
  ASSUME TypeOK, NEW t \in Tasks, Calls(t) \/ \E f \in Forms : SaveAtOnce(t, f)
  PROVE  TypeOK'
  <1>1. CASE Calls(t)
    <2>1. task' \in [Tasks -> TaskStates] /\ own' \subseteq Tasks /\ sole' \subseteq Tasks
      BY <1>1, CallsAre, AwaitIs
    <2>2. /\ calm' \subseteq Tasks
          /\ UNCHANGED <<data, options, router, state, shown, fit, synced>>
      BY <1>1, CallsAre, CalmType
    <2> QED BY <2>1, <2>2 DEF TypeOK, data, options, router
  <1>2. CASE \E f \in Forms : SaveAtOnce(t, f)
    BY <1>2 DEF TypeOK, SaveAtOnce, Save, data, router
  <1> QED BY <1>1, <1>2

\* A thread at the router is done: only its task has changed.
LEMMA ReadIs ==
  ASSUME TypeOK, NEW t \in Tasks, ReadRouter(t)
  PROVE  /\ task' \in [Tasks -> TaskStates]
         /\ \A u \in Tasks : u # t => task'[u] = task[u]
         /\ task'[t].kind = task[t].kind /\ task'[t].at = "read"
         /\ task'[t].done /\ task'[t].on = lan
  <1>1. task[t] \in TaskStates /\ lan \in BOOLEAN
    BY DEF TypeOK
  <1> DEFINE r == [task[t] EXCEPT !.done = TRUE, !.on = lan]
  <1>2. r \in TaskStates
    BY <1>1 DEF TaskStates
  <1>3. r.kind = task[t].kind /\ r.at = task[t].at /\ r.done /\ r.on = lan
    BY <1>1 DEF TaskStates
  <1>4. task' = [task EXCEPT ![t] = r] /\ task[t].at = "read"
    BY DEF ReadRouter
  <1> HIDE DEF r
  <1> QED BY <1>2, <1>3, <1>4 DEF TypeOK

LEMMA SetIs ==
  ASSUME TypeOK, NEW t \in Tasks, SetRouter(t)
  PROVE  /\ task' \in [Tasks -> TaskStates]
         /\ \A u \in Tasks : u # t => task'[u] = task[u]
         /\ task'[t].kind = task[t].kind /\ task'[t].at = "egress" /\ task'[t].on = task[t].on
         /\ task'[t].held = task[t].held /\ task'[t].stamp = task[t].stamp
         /\ lan' = task'[t].on
  <1>1. task[t] \in TaskStates
    BY DEF TypeOK
  <1> DEFINE r == [task[t] EXCEPT !.done = TRUE]
  <1>2. r \in TaskStates
    BY <1>1 DEF TaskStates
  <1>3. /\ r.kind = task[t].kind /\ r.at = task[t].at /\ r.on = task[t].on
        /\ r.held = task[t].held /\ r.stamp = task[t].stamp
    BY <1>1 DEF TaskStates
  <1>4. task' = [task EXCEPT ![t] = r] /\ task[t].at = "egress" /\ lan' = task[t].on
    BY DEF SetRouter
  <1> HIDE DEF r
  <1> QED BY <1>2, <1>3, <1>4 DEF TypeOK

LEMMA TypeTasks ==
  ASSUME TypeOK, NEW t \in Tasks, Step(t) \/ Fails(t)
  PROVE  TypeOK'
  <1>1. CASE ReadRouter(t) \/ SetRouter(t)
    <2>1. task' \in [Tasks -> TaskStates]
      BY <1>1, ReadIs, SetIs
    <2>2. task[t].on \in BOOLEAN
      BY DEF TypeOK, TaskStates
    <2> QED BY <1>1, <2>1, <2>2 DEF TypeOK, ReadRouter, SetRouter, data, options, router, history
  <1>2. CASE ShowRouter(t) \/ ReadFails(t) \/ SwitchDone(t)
    <2>1. task[t].on \in BOOLEAN
      BY DEF TypeOK, TaskStates
    <2>2. Await(t, Idle) /\ calm' \subseteq Tasks
      BY <1>2, CalmType DEF ShowRouter, ReadFails, SwitchDone
    <2>3. shown' \in BOOLEAN \cup {None}
      BY <1>2, <2>1 DEF TypeOK, ShowRouter, ReadFails, SwitchDone, Display
    <2>4. state' \in {"off", "setup", "forward", "loaded", "error"}
      BY <1>2 DEF TypeOK, ShowRouter, ReadFails, SwitchDone, Added
    <2> QED BY <1>2, <2>1, <2>2, <2>3, <2>4, AwaitIs, IdleTask
            DEF TypeOK, ShowRouter, ReadFails, SwitchDone, data, options, router
  <1>3. CASE SetupEgressDone(t)
    BY <1>3, ForwardType, CalmType DEF TypeOK, SetupEgressDone, Running, Settled, data, router
  <1>4. CASE SetFails(t)
    <2>1. Await(t, Idle) /\ calm' \subseteq Tasks /\ shown' = shown
      BY <1>4, CalmType DEF SetFails, SetupFails
    <2>2. state' \in {"off", "setup", "forward", "loaded", "error"}
      BY <1>4 DEF TypeOK, SetFails, SetupFails
    <2>3. lan' \in BOOLEAN
      BY <1>4 DEF TypeOK, TaskStates, SetFails
    <2> QED BY <1>4, <2>1, <2>2, <2>3, AwaitIs, IdleTask DEF TypeOK, SetFails, data, options
  <1>5. CASE SaveAfterwards(t)
    <2>1. form' \in Forms \cup {None} /\ stamp' \in Stamps \cup {None} /\ egress' = TRUE
      BY <1>5 DEF TypeOK, TaskStates, SaveAfterwards, Save
    <2>2. synced' \in BOOLEAN
      BY <1>5 DEF TypeOK, SaveAfterwards, Save
    <2> QED BY <1>5, <2>1, <2>2, AwaitIs, IdleTask, CalmType
            DEF TypeOK, SaveAfterwards, Settled, data, router
  <1>6. CASE ProvisionDone(t)
    <2>1. slots' \in Tables /\ flat' = None
      BY <1>6, RewriteType DEF ProvisionDone
    <2>2. task' \in [Tasks -> TaskStates] /\ own' \subseteq Tasks /\ sole' \subseteq Tasks
      BY <1>6, AwaitIs, IdleTask DEF ProvisionDone
    <2>3. calm' \subseteq Tasks /\ synced' \in BOOLEAN
      BY <1>6, CalmType DEF ProvisionDone, RewriteSlots
    <2> QED BY <1>6, <2>1, <2>2, <2>3 DEF TypeOK, ProvisionDone, RewriteSlots, Tables, router
  <1>7. CASE RenewalStored(t)
    <2>1. slots' \in Tables /\ flat' = None /\ task[t].kind \in Kinds
      BY <1>7, RewriteType DEF RenewalStored, Kinds
    <2>2. \E next \in TaskStates : Await(t, next)
      BY <1>7, RenewalGoesOn
    <2>3. task' \in [Tasks -> TaskStates] /\ own' \subseteq Tasks /\ sole' \subseteq Tasks
      BY <2>2, AwaitIs
    <2>4. calm' \subseteq Tasks /\ synced' \in BOOLEAN
      BY <1>7, CalmType DEF RenewalStored, RewriteSlots
    <2> QED BY <1>7, <2>1, <2>3, <2>4 DEF TypeOK, RenewalStored, RewriteSlots, Tables, router
  <1>8. CASE ProvisionFails(t)
    BY <1>8, GoOnType, CalmType DEF TypeOK, ProvisionFails, Running, data, options, router
  <1>9. CASE ApplyDone(t) \/ ApplyFails(t)
    <2>1. tun' \in Tables
      BY <1>9 DEF TypeOK, TaskStates, ApplyDone, ApplyFails, Tables
    <2>2. stamp' \in Stamps \cup {None}
      BY <1>9 DEF TypeOK, ApplyDone, ApplyFails, options
    <2>4. synced' \in BOOLEAN
      <3>1. (t \in calm) \in BOOLEAN
        OBVIOUS
      <3>2. ApplyDone(t) => synced' = (t \in calm)
        BY DEF ApplyDone
      <3>3. ApplyFails(t) => synced' = FALSE
        BY DEF ApplyFails
      <3> QED BY <1>9, <3>1, <3>2, <3>3, Zenon
    <2>3. Running' /\ calm' \subseteq Tasks
      BY <1>9, GoOnType, CalmType DEF ApplyDone, ApplyFails
    <2> QED BY <1>9, <2>1, <2>2, <2>3, <2>4
            DEF TypeOK, ApplyDone, ApplyFails, Running, Tables, data, options
  <1> QED BY <1>1, <1>2, <1>3, <1>4, <1>5, <1>6, <1>7, <1>8, <1>9 DEF Step, Fails

LEMMA TypeNext == TypeOK /\ [Next]_vars => TypeOK'
  <1> SUFFICES ASSUME TypeOK, [Next]_vars PROVE TypeOK'
    OBVIOUS
  <1>1. CASE RefreshFails
    BY <1>1 DEF TypeOK, RefreshFails, data, options, router, history
  <1>2. CASE Unload
    BY <1>2 DEF TypeOK, Unload, Forget, data, options, router
  <1>3. CASE Reauthenticate
    BY <1>3, NoSlotsIs DEF TypeOK, Reauthenticate, Forget, options, router, Tables
  <1>4. CASE Crash
    BY <1>4, IdleTask DEF TypeOK, Crash, Forget, data, options, router
  <1>5. CASE \E t \in Tasks : Setup(t)
    BY <1>5, TypeSetup
  <1>6. CASE \E t \in Tasks : Step(t) \/ Fails(t)
    BY <1>6, TypeTasks
  <1>7. CASE \E t \in Tasks : Calls(t) \/ \E f \in Forms : SaveAtOnce(t, f)
    BY <1>7, TypeCalls
  <1>8. CASE UNCHANGED vars
    BY <1>8 DEF TypeOK, vars, data, options, router, history
  <1> QED BY <1>1, <1>2, <1>3, <1>4, <1>5, <1>6, <1>7, <1>8 DEF Next, Calls

\* Every reachable state is typed, for any number of slots and of tasks.
THEOREM TypeCorrect == Spec => []TypeOK
  <1>1. Init => TypeOK
    BY TypeInit
  <1>2. TypeOK /\ [Next]_vars => TypeOK'
    BY TypeNext
  <1> QED BY <1>1, <1>2, PTL DEF Spec

-----------------------------------------------------------------------------
(* The setup of the entry. *)

\* A task of a setup is where the setup is, and only one is under way; other
\* tasks of an instance run while it is managed.
SetupInv ==
  /\ \A t \in Tasks : task[t].kind = "none" => task[t].at = "idle"
  /\ \A t \in Tasks : task[t].at = "read" => task[t].kind = "setup"
  /\ \A t \in Tasks : task[t].kind = "setup" =>
       state = IF task[t].at = "read" THEN "forward" ELSE "setup"
  /\ \A t, u \in Tasks : task[t].kind = "setup" /\ task[u].kind = "setup" => t = u
  /\ \A t \in own : task[t].kind = "setup" \/ Managed
  /\ \A t \in Tasks : task[t].at = "egress" /\ task[t].kind \in {"form", "setup"} => task[t].on
  /\ fit = "display" => Managed

\* How the setup goes on.
LEMMA ForwardIs ==
  ASSUME TypeOK, NEW t \in Tasks, Forward(t)
  PROVE  /\ Managed'
         /\ \/ Await(t, Idle) /\ state' = "loaded" /\ shown' = FALSE
            \/ Await(t, ReadTask) /\ state' = "forward" /\ shown' = egress
  BY DEF Forward, ReadTask, Managed

LEMMA ProceedIs ==
  ASSUME TypeOK, NEW t \in Tasks, Proceed(t)
  PROVE  \/ Await(t, SetEgress("setup", TRUE)) /\ state' = "setup" /\ shown' = shown
         \/ Await(t, Idle) /\ state' = "error" /\ shown' = shown
         \/ Await(t, Idle) /\ state' = "loaded" /\ shown' = FALSE
         \/ Await(t, ReadTask) /\ state' = "forward" /\ shown' = egress
  BY ForwardIs DEF Proceed, SetupFails

\* A setup that goes on, having been or being the only one.
LEMMA SetupProceeds ==
  ASSUME TypeOK, SetupInv, NEW t \in Tasks,
         Proceed(t) \/ Forward(t) \/ SetupFails(t),
         (task[t].kind = "setup" /\ task[t].at # "read") \/ (state = "off" /\ ~Busy(t)),
         fit' # "display" \/ fit' = fit
  PROVE  SetupInv'
  <1>1. \/ Await(t, SetEgress("setup", TRUE)) /\ state' = "setup" /\ shown' = shown
        \/ Await(t, Idle) /\ state' \in {"error", "loaded"}
        \/ Await(t, ReadTask) /\ state' = "forward"
    BY ProceedIs, ForwardIs DEF SetupFails
  <1>2. state \in {"off", "setup"} /\ fit # "display" /\ fit' # "display"
    BY DEF SetupInv, Managed
  <1>3. \A u \in own : u = t
    BY <1>2 DEF SetupInv, Managed, TypeOK
  <1>4. \A u \in Tasks : u # t => task[u].kind # "setup"
    BY <1>2 DEF SetupInv, Managed
  <1>5. CASE Await(t, Idle) /\ state' \in {"error", "loaded"}
    <2>1. own' = {}
      BY <1>3, <1>5, AwaitIs, IdleTask
    <2> QED BY <1>2, <1>4, <1>5, <2>1, AwaitIs, IdleTask DEF SetupInv
  <1>6. CASE Await(t, ReadTask) /\ state' = "forward"
    BY <1>2, <1>3, <1>4, <1>6, AwaitIs, ReadTaskIs DEF SetupInv
  <1>7. CASE Await(t, SetEgress("setup", TRUE)) /\ state' = "setup"
    <2> DEFINE next == SetEgress("setup", TRUE)
    <2>1. /\ next \in TaskStates /\ next.kind = "setup" /\ next.at = "egress" /\ next.on = TRUE
      BY EgressTask DEF Kinds
    <2>2. Await(t, next)
      BY <1>7
    <2> HIDE DEF next
    <2> QED BY <1>2, <1>3, <1>4, <1>7, <2>1, <2>2, AwaitIs DEF SetupInv
  <1> QED BY <1>1, <1>5, <1>6, <1>7

\* A task of another kind begins, or goes on.
LEMMA SetupAwaits ==
  ASSUME TypeOK, SetupInv, NEW t \in Tasks, NEW next \in TaskStates, Await(t, next),
         next.kind = "none" => next = Idle,
         next.kind = "setup" => task[t].kind = "setup" /\ next.at # "read" /\ task[t].at # "read",
         next.kind # "setup" => next.at # "read",
         next.at = "egress" => (next.on /\ next.kind # "setup") \/ next.kind = "switch",
         Managed \/ task[t].kind = next.kind \/ next = Idle,
         state' = state,
         fit' # "display" \/ fit' = fit \/ Managed
  PROVE  SetupInv'
  <1>1. \A u \in own' : task'[u].kind = "setup" \/ Managed'
    <2>1. \A u \in own' : u # t => u \in own
      BY AwaitIs
    <2>2. t \in own' => next # Idle
      BY AwaitIs
    <2>3. ~Busy(t) => task[t].kind = "none"
      BY DEF Busy
    <2>4. Managed' = Managed
      BY DEF Managed
    <2>5. t \in own' /\ ~Managed => next.kind = "setup"
      BY <2>2, AwaitIs, IdleTask DEF SetupInv, Busy
    <2> QED BY <2>1, <2>4, <2>5, AwaitIs DEF SetupInv, TypeOK
  <1> QED BY <1>1, AwaitIs, IdleTask DEF SetupInv, Managed

LEMMA SetupInit == Init => SetupInv
  BY IdleTask DEF Init, SetupInv

\* No manager is set up, or it is lost: no task is its own any more.
LEMMA SetupForgets ==
  ASSUME TypeOK, SetupInv, state \in {"loaded", "error"}, Forget, UNCHANGED task,
         fit' # "display"
  PROVE  SetupInv'
  BY DEF TypeOK, SetupInv, Forget

LEMMA SetupCalls ==
  ASSUME TypeOK, SetupInv, NEW t \in Tasks, Calls(t) \/ \E f \in Forms : SaveAtOnce(t, f)
  PROVE  SetupInv'
  <1>1. CASE Calls(t)
    <2>1. PICK next \in TaskStates :
            /\ Await(t, next)
            /\ next.kind \notin {"none", "setup"} /\ next.at # "read"
            /\ next.at = "egress" => next.kind = "switch" \/ next.on
      BY <1>1, CallsAre
    <2> QED BY <1>1, <2>1, CallsAre, SetupAwaits
  <1>2. CASE \E f \in Forms : SaveAtOnce(t, f)
    BY <1>2 DEF SetupInv, SaveAtOnce, Managed
  <1> QED BY <1>1, <1>2

LEMMA SetupTasks ==
  ASSUME TypeOK, SetupInv, NEW t \in Tasks, Step(t) \/ Fails(t)
  PROVE  SetupInv'
  <1>1. CASE ReadRouter(t) \/ SetRouter(t)
    <2>1. UNCHANGED <<state, own, fit>>
      BY <1>1 DEF ReadRouter, SetRouter, history
    <2>2. \A u \in Tasks : task'[u].kind = task[u].kind /\ task'[u].at = task[u].at
      BY <1>1, ReadIs, SetIs DEF ReadRouter, SetRouter
    <2>3. \A u \in Tasks : task[u].at = "egress" => task'[u].on = task[u].on
      BY <1>1, ReadIs, SetIs DEF ReadRouter
    <2> QED BY <2>1, <2>2, <2>3 DEF SetupInv, Managed, TypeOK
  <1>2. CASE ShowRouter(t) \/ ReadFails(t)
    <2>1. Await(t, Idle) /\ state' = IF t \in own THEN "loaded" ELSE state
      BY <1>2 DEF ShowRouter, ReadFails, Added
    <2>2. state = "forward" /\ task[t].kind = "setup"
      BY <1>2 DEF SetupInv, ShowRouter, ReadFails
    <2>3. \A u \in Tasks : u # t => task[u].kind # "setup"
      BY <2>2 DEF SetupInv
    <2>4. Managed'
      BY <2>1, <2>2 DEF Managed
    <2>5. \A u \in Tasks : u # t => task'[u] = task[u] /\ task'[u].kind # "setup"
      BY <2>1, <2>3, AwaitIs, IdleTask
    <2>6. task'[t] = Idle /\ own' \subseteq Tasks
      BY <2>1, AwaitIs, IdleTask
    <2> QED BY <2>4, <2>5, <2>6, IdleTask DEF SetupInv
  <1>3. CASE SwitchDone(t)
    <2>1. Await(t, Idle) /\ state' = state
      BY <1>3 DEF SwitchDone
    <2>2. fit' = "display" => Managed
      BY <1>3 DEF SwitchDone, SetupInv
    <2> QED BY <2>1, <2>2, SetupAwaits, IdleTask
  <1>4. CASE SetupEgressDone(t)
    <2>1. Forward(t) /\ (fit' = "display" => fit = "display")
      BY <1>4 DEF SetupEgressDone, Settled
    <2>2. task[t].kind = "setup" /\ task[t].at # "read"
      BY <1>4 DEF SetupEgressDone
    <2>3. fit # "display"
      BY <2>2 DEF SetupInv, Managed
    <2> QED BY <2>1, <2>2, <2>3, SetupProceeds
  <1>5. CASE SetFails(t)
    <2>1. CASE task[t].kind = "setup"
      <3>1. SetupFails(t) /\ task[t].at = "egress" /\ fit' = "no"
        BY <1>5, <2>1 DEF SetFails
      <3> QED BY <2>1, <3>1, SetupProceeds
    <2>2. CASE task[t].kind # "setup"
      <3>1. Await(t, Idle) /\ state' = state /\ fit' # "display"
        BY <1>5, <2>2 DEF SetFails
      <3> QED BY <3>1, SetupAwaits, IdleTask
    <2> QED BY <2>1, <2>2
  <1>6. CASE SaveAfterwards(t)
    <2>1. Await(t, Idle) /\ state' = state /\ (fit' = "display" => fit = "display")
      BY <1>6 DEF SaveAfterwards, Settled
    <2>2. fit' # "display" \/ fit' = fit
      BY <2>1
    <2> QED BY <2>1, <2>2, SetupAwaits, IdleTask
  <1>7. CASE ProvisionDone(t)
    BY <1>7, SetupAwaits, IdleTask DEF ProvisionDone, RewriteSlots
  <1>8. CASE RenewalStored(t)
    <2>1. PICK next \in TaskStates : /\ Await(t, next)
                                     /\ next.kind = task[t].kind
                                     /\ next.at \in {"apply", "provision"}
      BY <1>8, RenewalGoesOn
    <2>2. /\ state' = state /\ fit' = fit /\ task[t].at = "provision"
          /\ task[t].kind \in {"renew", "setup"}
      BY <1>8 DEF RenewalStored, RewriteSlots
    <2> QED BY <2>1, <2>2, SetupAwaits
  <1>9. CASE ProvisionFails(t) \/ ApplyDone(t) \/ ApplyFails(t)
    <2>1. GoOn(t) /\ fit' = fit /\ task[t].at \in {"provision", "apply"}
      BY <1>9 DEF ProvisionFails, ApplyDone, ApplyFails
    <2>2. CASE task[t].kind = "setup"
      BY <2>1, <2>2, SetupProceeds DEF GoOn
    <2>3. CASE task[t].kind # "setup"
      BY <2>1, <2>3, SetupAwaits, IdleTask DEF GoOn
    <2> QED BY <2>2, <2>3
  <1> QED BY <1>1, <1>2, <1>3, <1>4, <1>5, <1>6, <1>7, <1>8, <1>9 DEF Step, Fails

LEMMA SetupNext == TypeOK /\ SetupInv /\ [Next]_vars => SetupInv'
  <1> SUFFICES ASSUME TypeOK, SetupInv, [Next]_vars PROVE SetupInv'
    OBVIOUS
  <1>1. CASE RefreshFails
    BY <1>1 DEF SetupInv, TypeOK, RefreshFails, history, Managed
  <1>2. CASE Unload
    BY <1>2, SetupForgets DEF Unload
  <1>3. CASE Reauthenticate
    BY <1>3, SetupForgets DEF Reauthenticate
  <1>4. CASE Crash
    BY <1>4, IdleTask DEF SetupInv, Crash, Forget
  <1>5. CASE \E t \in Tasks : Setup(t)
    <2>1. PICK t \in Tasks : Setup(t)
      BY <1>5
    <2>2. state = "off" /\ ~Busy(t) /\ fit' = fit
      BY <2>1 DEF Setup
    <2>3. CASE Proceed(t)
      BY <2>2, <2>3, SetupProceeds
    <2>4. CASE BeginRenewal(t, "setup") /\ state' = "setup"
      <3>1. PICK next \in TaskStates :
              Await(t, next) /\ next.kind = "setup" /\ next.at = "provision"
        BY <2>4, RenewalBegins DEF Kinds
      <3>4. /\ fit' # "display"
            /\ \A u \in own : u = t
            /\ \A u \in Tasks : u # t => task[u].kind # "setup"
        BY <2>2 DEF SetupInv, Managed, TypeOK
      <3> QED BY <2>4, <3>1, <3>4, AwaitIs DEF SetupInv
    <2> QED BY <2>1, <2>3, <2>4 DEF Setup
  <1>6. CASE \E t \in Tasks : Step(t) \/ Fails(t)
    BY <1>6, SetupTasks
  <1>7. CASE \E t \in Tasks : Calls(t) \/ \E f \in Forms : SaveAtOnce(t, f)
    BY <1>7, SetupCalls
  <1>8. CASE UNCHANGED vars
    BY <1>8 DEF SetupInv, Managed, vars, data, options, router, history
  <1> QED BY <1>1, <1>2, <1>3, <1>4, <1>5, <1>6, <1>7, <1>8 DEF Next, Calls

-----------------------------------------------------------------------------
(* The egress: the option, the router and the switch. *)

\* Work on the egress that no other has overlapped.
SoleInv ==
  /\ \A t \in sole : task[t].at = "egress" =>
       /\ Setting = {t}
       /\ task[t].done => lan = task[t].on
       /\ task[t].kind = "form" => egress = TRUE
  /\ \A t \in sole : task[t].at = "read" => Setting = {} /\ (task[t].done => task[t].on = lan)

\* The switch displays the option also while a lone task is at the router.
ShownInv ==
  state = "loaded" /\ fit = "display" /\ Setting \subseteq sole => shown \in {egress, None}

EgressInv == SoleInv /\ EgressRecorded /\ ShownInv

LEMMA AwaitSetting ==
  ASSUME TypeOK, NEW t \in Tasks, NEW next \in TaskStates, Await(t, next)
  PROVE  /\ Setting' = IF next.at = "egress" THEN Setting \cup {t} ELSE Setting \ {t}
         /\ next.at = "egress" => sole' = IF Setting \subseteq {t} THEN {t} ELSE {}
         /\ next.at = "read" => sole' = IF Setting \subseteq {t} THEN sole \cup {t} ELSE sole \ {t}
         /\ next.at \notin {"egress", "read"} => sole' = sole \ {t}
  <1>1. Setting' = IF next.at = "egress" THEN Setting \cup {t} ELSE Setting \ {t}
    BY AwaitIs DEF Setting
  <1>2. /\ next.at = "egress" => sole' = IF Setting \subseteq {t} THEN {t} ELSE {}
        /\ next.at = "read" => sole' = IF Setting \subseteq {t} THEN sole \cup {t} ELSE sole \ {t}
        /\ next.at \notin {"egress", "read"} => sole' = sole \ {t}
    BY DEF Await
  <1> QED BY <1>1, <1>2

\* Only a task that is at the router changes what is recorded of it.
LEMMA SoleAwaits ==
  ASSUME TypeOK, SoleInv, NEW t \in Tasks, NEW next \in TaskStates, Await(t, next),
         ~next.done,
         task[t].at # "egress" => lan' = lan /\ egress' = egress,
         next.at = "egress" /\ next.kind = "form" => egress' = TRUE
  PROVE  SoleInv'
  <1>1. \A u \in Tasks : u # t => task'[u] = task[u]
    BY AwaitIs
  <1>2. task'[t] = next
    BY AwaitIs
  <1>3. sole \subseteq Tasks /\ sole' \subseteq Tasks
    BY AwaitIs DEF TypeOK
  <1>4. CASE next.at = "egress"
    BY <1>2, <1>3, <1>4, AwaitSetting DEF SoleInv
  <1>5. CASE next.at # "egress"
    <2>1. Setting' = Setting \ {t} /\ sole' \subseteq sole \cup {t}
      BY <1>5, AwaitSetting
    <2>2. \A u \in sole' : u # t /\ task[u].at \in {"egress", "read"} => task[t].at # "egress"
      BY <1>3, <2>1 DEF SoleInv, Setting
    <2>3. t \in sole' /\ next.at = "read" => Setting' = {}
      BY <1>5, AwaitSetting
    <2>4. \A u \in sole' : u # t => u \in sole
      BY <2>1
    <2> QED BY <1>1, <1>2, <1>3, <1>5, <2>1, <2>2, <2>3, <2>4 DEF SoleInv
  <1> QED BY <1>4, <1>5

\* A task that is not at the router goes on.
LEMMA EgressAwaits ==
  ASSUME TypeOK, EgressInv, NEW t \in Tasks, NEW next \in TaskStates, Await(t, next),
         ~next.done, task[t].at # "egress",
         lan' = lan, egress' = egress, fit' = fit,
         next.at = "egress" /\ next.kind = "form" => egress = TRUE,
         (state' = state /\ shown' = shown /\ next.at # "read") \/ fit # "display"
  PROVE  EgressInv'
  <1>1. SoleInv'
    BY SoleAwaits DEF EgressInv
  <1>2. t \notin Setting
    BY DEF Setting
  <1>3. EgressRecorded'
    BY <1>2, AwaitSetting DEF EgressInv, EgressRecorded
  <1>4. ShownInv'
    <2>1. CASE fit # "display"
      BY <2>1 DEF ShownInv
    <2>2. CASE state' = state /\ shown' = shown /\ next.at # "read"
      <3>1. Setting' \subseteq sole' => Setting \subseteq sole
        BY <1>2, <2>2, AwaitSetting
      <3> QED BY <2>2, <3>1 DEF EgressInv, ShownInv
    <2> QED BY <2>1, <2>2
  <1> QED BY <1>1, <1>3, <1>4 DEF EgressInv

\* A task ends its work on the egress; what it leaves is drawn from it alone.
LEMMA EgressEnds ==
  ASSUME TypeOK, SetupInv, EgressInv, NEW t \in Tasks, NEW next \in TaskStates, Await(t, next),
         ~next.done, task[t].at = "egress", task[t].done, next.at # "egress",
         lan' = lan, egress' = task[t].on,
         fit' # "no" => t \in sole,
         fit' = "display" =>
           \/ shown' = task[t].on
           \/ fit = "display" /\ task[t].kind = "form" /\ state' = state /\ shown' = shown
  PROVE  EgressInv'
  <1>1. SoleInv'
    BY SoleAwaits DEF EgressInv
  <1>2. EgressRecorded'
    BY DEF EgressInv, EgressRecorded, SoleInv
  <1>3. ShownInv'
    <2> SUFFICES ASSUME state' = "loaded", fit' = "display" PROVE shown' \in {egress', None}
      BY DEF ShownInv
    <2>1. CASE shown' = task[t].on
      BY <2>1
    <2>2. CASE fit = "display" /\ task[t].kind = "form" /\ state' = state /\ shown' = shown
      <3>1. t \in sole /\ Setting = {t} /\ egress = TRUE
        BY <2>2 DEF EgressInv, SoleInv
      <3>2. shown \in {egress, None}
        BY <2>2, <3>1 DEF EgressInv, ShownInv
      <3>3. task[t].on = TRUE
        BY <2>2 DEF SetupInv, TypeOK, TaskStates
      <3> QED BY <2>2, <3>1, <3>2, <3>3
    <2> QED BY <2>1, <2>2
  <1> QED BY <1>1, <1>2, <1>3 DEF EgressInv

LEMMA EgressInit == Init => EgressInv
  BY IdleTask DEF Init, EgressInv, SoleInv, EgressRecorded, ShownInv

\* Setup goes on without having been at the router.
LEMMA EgressProceeds ==
  ASSUME TypeOK, EgressInv, NEW t \in Tasks, Proceed(t),
         task[t].at # "egress", fit # "display", lan' = lan, egress' = egress, fit' = fit
  PROVE  EgressInv'
  <1> DEFINE next == SetEgress("setup", TRUE)
  <1>1. next \in TaskStates /\ ~next.done /\ next.kind = "setup"
    BY EgressTask DEF Kinds
  <1>2. Await(t, next) \/ Await(t, Idle) \/ Await(t, ReadTask)
    BY ProceedIs
  <1> HIDE DEF next
  <1> QED BY <1>1, <1>2, EgressAwaits, IdleTask, ReadTaskIs

LEMMA EgressTasks ==
  ASSUME TypeOK, SetupInv, EgressInv, NEW t \in Tasks, Step(t) \/ Fails(t)
  PROVE  EgressInv'
  <1>1. CASE ReadRouter(t)
    <2>1. UNCHANGED <<egress, lan, state, shown, sole, fit>>
      BY <1>1 DEF ReadRouter, options, router, history
    <2>2. task[t].at = "read" /\ \A u \in Tasks : task'[u].at = task[u].at
      BY <1>1, ReadIs DEF ReadRouter
    <2>3. Setting' = Setting
      BY <2>2 DEF Setting
    <2>4. SoleInv'
      BY <1>1, <2>1, <2>2, <2>3, ReadIs DEF EgressInv, SoleInv, TypeOK
    <2> QED BY <2>1, <2>3, <2>4 DEF EgressInv, EgressRecorded, ShownInv
  <1>2. CASE SetRouter(t)
    <2>1. UNCHANGED <<egress, state, shown, sole, fit>> /\ t \in Setting
      BY <1>2 DEF SetRouter, options, history, Setting
    <2>2. /\ \A u \in Tasks : task'[u].at = task[u].at /\ task'[u].kind = task[u].kind
          /\ task[t].at = "egress"
      BY <1>2, SetIs DEF SetRouter
    <2>3. Setting' = Setting
      BY <2>2 DEF Setting
    <2>4. SoleInv'
      <3>1. \A u \in sole : task[u].at # "read" /\ (task[u].at = "egress" => u = t)
        BY <2>1 DEF EgressInv, SoleInv
      <3>2. lan' = task'[t].on /\ sole \subseteq Tasks
        BY <1>2, SetIs DEF TypeOK
      <3> QED BY <2>1, <2>2, <2>3, <3>1, <3>2 DEF EgressInv, SoleInv
    <2>5. EgressRecorded'
      BY <2>1, <2>3 DEF EgressRecorded
    <2> QED BY <2>1, <2>3, <2>4, <2>5 DEF EgressInv, ShownInv
  <1>3. CASE ShowRouter(t)
    <2>1. /\ Await(t, Idle) /\ task[t].at = "read" /\ task[t].done
          /\ UNCHANGED <<egress, lan>>
          /\ shown' = IF t \in own THEN task[t].on ELSE shown
          /\ state' = IF t \in own THEN "loaded" ELSE state
          /\ fit' = IF t \in own /\ fit # "no"
                    THEN IF t \in sole THEN "display" ELSE "option" ELSE fit
      BY <1>3 DEF ShowRouter, Display, Added, options, router
    <2>2. CASE t \notin own
      BY <2>1, <2>2, EgressAwaits, IdleTask
    <2>3. CASE t \in own
      <3>1. SoleInv'
        BY <2>1, SoleAwaits, IdleTask DEF EgressInv
      <3>2. Setting' = Setting
        BY <2>1, AwaitSetting, IdleTask DEF Setting
      <3>3. EgressRecorded'
        BY <2>1, <2>3, <3>2 DEF EgressInv, EgressRecorded
      <3>4. ShownInv'
        <4> SUFFICES ASSUME fit' = "display" PROVE shown' \in {egress', None}
          BY DEF ShownInv
        <4>1. fit # "no" /\ t \in sole
          BY <2>1, <2>3
        <4>2. Setting = {} /\ task[t].on = lan
          BY <2>1, <4>1 DEF EgressInv, SoleInv
        <4> QED BY <2>1, <2>3, <4>1, <4>2 DEF EgressInv, EgressRecorded
      <3> QED BY <3>1, <3>3, <3>4 DEF EgressInv
    <2> QED BY <2>2, <2>3
  <1>4. CASE ReadFails(t)
    <2>1. /\ Await(t, Idle) /\ task[t].at = "read"
          /\ UNCHANGED <<egress, lan, fit>>
          /\ shown' = IF t \in own THEN None ELSE shown
          /\ state' = IF t \in own THEN "loaded" ELSE state
      BY <1>4 DEF ReadFails, Display, Added, options, router
    <2>2. CASE t \notin own
      BY <2>1, <2>2, EgressAwaits, IdleTask
    <2>3. CASE t \in own
      <3>1. SoleInv'
        BY <2>1, SoleAwaits, IdleTask DEF EgressInv
      <3>2. Setting' = Setting
        BY <2>1, AwaitSetting, IdleTask DEF Setting
      <3>3. EgressRecorded' /\ ShownInv'
        BY <2>1, <2>3, <3>2 DEF EgressInv, EgressRecorded, ShownInv
      <3> QED BY <3>1, <3>3 DEF EgressInv
    <2> QED BY <2>2, <2>3
  <1>5. CASE SwitchDone(t)
    <2>1. /\ Await(t, Idle) /\ task[t].at = "egress" /\ task[t].done
          /\ egress' = task[t].on /\ lan' = lan
          /\ t \in own => shown' = task[t].on
          /\ fit' = IF t \notin sole THEN "no" ELSE IF t \in own THEN "display" ELSE "option"
      BY <1>5 DEF SwitchDone, Display, router
    <2>2. /\ fit' # "no" => t \in sole
          /\ fit' = "display" => shown' = task[t].on
      BY <2>1
    <2> QED BY <2>1, <2>2, EgressEnds, IdleTask
  <1>6. CASE SetupEgressDone(t)
    <2>1. /\ Await(t, Idle) \/ Await(t, ReadTask)
          /\ task[t].at = "egress" /\ task[t].done /\ task[t].kind = "setup"
          /\ egress' = TRUE /\ lan' = lan
          /\ fit' # "no" => t \in sole
          /\ fit' = "display" => fit = "display"
      BY <1>6, ForwardIs DEF SetupEgressDone, Settled, router
    <2>2. task[t].on = TRUE /\ fit # "display"
      BY <2>1 DEF SetupInv, Managed, TypeOK, TaskStates
    <2> QED BY <2>1, <2>2, EgressEnds, IdleTask, ReadTaskIs
  <1>7. CASE SaveAfterwards(t)
    <2>1. /\ Await(t, Idle) /\ task[t].at = "egress" /\ task[t].done /\ task[t].kind = "form"
          /\ egress' = TRUE /\ lan' = lan /\ state' = state /\ shown' = shown
          /\ fit' # "no" => t \in sole
          /\ fit' = "display" => fit = "display"
      BY <1>7 DEF SaveAfterwards, Save, Settled, router
    <2>2. task[t].on = TRUE
      BY <2>1 DEF SetupInv, TypeOK, TaskStates
    <2> QED BY <2>1, <2>2, EgressEnds, IdleTask
  <1>8. CASE ProvisionDone(t)
    <2>1. /\ Await(t, Idle) /\ task[t].at = "provision"
          /\ UNCHANGED <<egress, lan, state, shown, fit>>
      BY <1>8 DEF ProvisionDone, RewriteSlots, router
    <2> QED BY <2>1, EgressAwaits, IdleTask
  <1>9. CASE RenewalStored(t)
    <2>1. PICK next \in TaskStates :
            Await(t, next) /\ next.at \in {"apply", "provision"} /\ ~next.done
      BY <1>9, RenewalGoesOn
    <2>2. task[t].at = "provision" /\ UNCHANGED <<egress, lan, state, shown, fit>>
      BY <1>9 DEF RenewalStored, RewriteSlots, router
    <2> QED BY <2>1, <2>2, EgressAwaits
  <1>10. CASE ProvisionFails(t) \/ ApplyDone(t) \/ ApplyFails(t)
    <2>1. /\ GoOn(t) /\ task[t].at \in {"provision", "apply"}
          /\ UNCHANGED <<egress, lan, fit>>
      BY <1>10 DEF ProvisionFails, ApplyDone, ApplyFails, options, router
    <2>2. CASE task[t].kind = "setup"
      <3>1. fit # "display"
        BY <2>1, <2>2 DEF SetupInv, Managed
      <3> QED BY <2>1, <2>2, <3>1, EgressProceeds DEF GoOn
    <2>3. CASE task[t].kind # "setup"
      BY <2>1, <2>3, EgressAwaits, IdleTask DEF GoOn
    <2> QED BY <2>2, <2>3
  <1>11. CASE SetFails(t)
    <2>1. /\ Await(t, Idle) /\ task[t].at = "egress"
          /\ fit' = "no"
      BY <1>11 DEF SetFails, SetupFails
    <2>2. SoleInv'
      BY <2>1, SoleAwaits, IdleTask DEF EgressInv
    <2> QED BY <2>1, <2>2 DEF EgressInv, EgressRecorded, ShownInv
  <1> QED BY <1>1, <1>2, <1>3, <1>4, <1>5, <1>6, <1>7, <1>8, <1>9, <1>10, <1>11 DEF Step, Fails

LEMMA EgressNext == TypeOK /\ SetupInv /\ EgressInv /\ [Next]_vars => EgressInv'
  <1> SUFFICES ASSUME TypeOK, SetupInv, EgressInv, [Next]_vars PROVE EgressInv'
    OBVIOUS
  <1>1. CASE RefreshFails
    <2>1. UNCHANGED <<egress, lan, task, sole, fit>> /\ state' = "error"
      BY <1>1 DEF RefreshFails, options, router, history
    <2> QED BY <2>1 DEF EgressInv, SoleInv, EgressRecorded, ShownInv, Setting
  <1>2. CASE Unload \/ Reauthenticate
    <2>1. /\ UNCHANGED <<egress, lan, task, sole>> /\ state' = "off"
          /\ fit' # "no" => fit # "no"
      BY <1>2 DEF Unload, Reauthenticate, Forget, options, router
    <2> QED BY <2>1 DEF EgressInv, SoleInv, EgressRecorded, ShownInv, Setting
  <1>3. CASE Crash
    <2>1. /\ UNCHANGED <<egress, lan>> /\ state' = "off" /\ sole' = {}
          /\ fit' # "no" => Setting = {} /\ fit # "no"
      BY <1>3 DEF Crash, Forget, options, router, Setting
    <2> QED BY <2>1 DEF EgressInv, SoleInv, EgressRecorded, ShownInv
  <1>4. CASE \E t \in Tasks : Setup(t)
    <2>1. PICK t \in Tasks : Setup(t)
      BY <1>4
    <2>2. state = "off" /\ ~Busy(t) /\ UNCHANGED <<egress, lan, fit>>
      BY <2>1 DEF Setup, router
    <2>3. fit # "display" /\ task[t].at # "egress"
      BY <2>2 DEF SetupInv, Managed, Busy
    <2>4. CASE Proceed(t)
      BY <2>2, <2>3, <2>4, EgressProceeds
    <2>5. CASE BeginRenewal(t, "setup")
      <3>1. PICK next \in TaskStates : Await(t, next) /\ next.at = "provision" /\ ~next.done
        BY <2>5, RenewalBegins DEF Kinds
      <3> QED BY <2>2, <2>3, <3>1, EgressAwaits
    <2> QED BY <2>1, <2>4, <2>5 DEF Setup
  <1>5. CASE \E t \in Tasks : Step(t) \/ Fails(t)
    BY <1>5, EgressTasks
  <1>6. CASE \E t \in Tasks : Calls(t)
    <2>1. PICK t \in Tasks : Calls(t)
      BY <1>6
    <2>2. /\ ~Busy(t)
          /\ UNCHANGED <<egress, lan, state, shown, fit>>
          /\ \E next \in TaskStates :
               /\ Await(t, next) /\ next.at # "read" /\ ~next.done
               /\ next.at = "egress" /\ next.kind = "form" => egress
      BY <2>1, CallsAre DEF options, router
    <2>3. task[t].at # "egress" /\ egress \in BOOLEAN
      BY <2>2 DEF SetupInv, Busy, TypeOK
    <2> QED BY <2>2, <2>3, EgressAwaits
  <1>7. CASE \E t \in Tasks : \E f \in Forms : SaveAtOnce(t, f)
    <2>1. UNCHANGED <<egress, lan, state, shown, task, sole, fit>>
      BY <1>7 DEF SaveAtOnce, Save, router
    <2> QED BY <2>1 DEF EgressInv, SoleInv, EgressRecorded, ShownInv, Setting
  <1>8. CASE UNCHANGED vars
    BY <1>8 DEF EgressInv, SoleInv, EgressRecorded, ShownInv, Setting, vars, data, options,
                router, history
  <1> QED BY <1>1, <1>2, <1>3, <1>4, <1>5, <1>6, <1>7, <1>8 DEF Next, Calls

\* Types and the invariants of setup and egress hold together.
LEMMA EgressInvariant == Spec => [](TypeOK /\ SetupInv /\ EgressInv)
  <1>1. Init => TypeOK /\ SetupInv /\ EgressInv
    BY TypeInit, SetupInit, EgressInit
  <1>2. TypeOK /\ SetupInv /\ EgressInv /\ [Next]_vars => (TypeOK /\ SetupInv /\ EgressInv)'
    BY TypeNext, SetupNext, EgressNext
  <1> QED BY <1>1, <1>2, PTL DEF Spec

\* The recorded egress is the router's whenever nothing is under way and the
\* last change ran alone, however many tasks there are.
THEOREM EgressIsRecorded == Spec => []EgressRecorded
  <1>1. EgressInv => EgressRecorded
    BY DEF EgressInv
  <1> QED BY <1>1, EgressInvariant, PTL

\* ... and it is what the switch displays.
THEOREM RecordedIsShown == Spec => []ShownIsRecorded
  <1>1. EgressInv => ShownIsRecorded
    BY DEF EgressInv, ShownInv, ShownIsRecorded
  <1> QED BY <1>1, EgressInvariant, PTL

-----------------------------------------------------------------------------
(* What tasks have read, and what they leave in the entry. *)

\* A task since whose reading nobody has written holds what the entry has.
AllRecent == \A t \in calm : Recent(task[t])

CalmInv == AllRecent /\ TunnelsCurrent

LEMMA AllRecentIs == AllRecent' <=> \A t \in calm' : RecentAfter(task'[t])
  BY DEF AllRecent, Recent, RecentAfter

LEMMA IdleIsRecent == RecentAfter(Idle)
  BY IdleTask DEF RecentAfter

\* What slots and options are unchanged, what is recent stays so.
LEMMA RecentStays ==
  ASSUME slots' = slots, flat' = flat, form' = form, stamp' = stamp
  PROVE  Held' = Held /\ Active' = Active /\ \A r : Recent(r) => RecentAfter(r)
  <1>1. Held' = Held
    BY DEF Held
  <1>2. Active' = Active
    BY <1>1 DEF Active
  <1> QED BY <1>1, <1>2 DEF Recent, RecentAfter

\* A task goes on with what it has just read.
LEMMA CalmAwaits ==
  ASSUME TypeOK, CalmInv, NEW t \in Tasks, NEW next \in TaskStates, Await(t, next), RecentAfter(next),
         \/ Writes(t)
         \/ Reads(t) /\ slots' = slots /\ flat' = flat /\ form' = form /\ stamp' = stamp
  PROVE  AllRecent'
  <1> SUFFICES ASSUME NEW u \in calm' PROVE RecentAfter(task'[u])
    BY AllRecentIs
  <1>1. CASE u = t
    BY <1>1, AwaitIs
  <1>2. CASE u # t
    <2>1. /\ Reads(t) /\ u \in calm
          /\ slots' = slots /\ flat' = flat /\ form' = form /\ stamp' = stamp
      BY <1>2 DEF Reads, Writes
    <2>2. task'[u] = task[u]
      BY <1>2, <2>1, AwaitIs DEF TypeOK
    <2>3. Recent(task[u])
      BY <2>1 DEF CalmInv, AllRecent
    <2> QED BY <2>1, <2>2, <2>3, RecentStays
  <1> QED BY <1>1, <1>2

LEMMA CalmProceeds ==
  ASSUME TypeOK, CalmInv, NEW t \in Tasks, GoOn(t) \/ Proceed(t) \/ Forward(t),
         \/ Writes(t)
         \/ Reads(t) /\ slots' = slots /\ flat' = flat /\ form' = form /\ stamp' = stamp
  PROVE  AllRecent'
  <1> DEFINE next == SetEgress("setup", TRUE)
  <1>1. next \in TaskStates /\ next.at = "egress" /\ next.kind = "setup"
    BY EgressTask DEF Kinds
  <1>2. Await(t, next) \/ Await(t, Idle) \/ Await(t, ReadTask)
    BY ProceedIs, ForwardIs DEF GoOn
  <1> HIDE DEF next
  <1>3. RecentAfter(next) /\ RecentAfter(ReadTask)
    BY <1>1, ReadTaskIs DEF RecentAfter
  <1> QED BY <1>1, <1>2, <1>3, CalmAwaits, IdleTask, IdleIsRecent, ReadTaskIs

\* A form that drops or adds no tunnel leaves the active credentials.
LEMMA ActiveAgain ==
  ASSUME slots' = slots, flat' = flat, Count[form'] = Count[form]
  PROVE  Active' = Active
  <1>1. Held' = Held
    BY DEF Held
  <1> QED BY <1>1 DEF Active, ActiveOf

LEMMA CalmInit == Init => CalmInv
  <1> SUFFICES ASSUME Init PROVE CalmInv
    OBVIOUS
  <1>1. TypeOK
    BY TypeInit
  <1>2. flat = None => Active = NoSlots
    BY <1>1, HeldIs, NoSlotsIs DEF Init, Active, ActiveOf, NoSlots
  <1> QED BY <1>2 DEF Init, CalmInv, AllRecent, TunnelsCurrent

LEMMA CalmTasks ==
  ASSUME TypeOK, CalmInv, NEW t \in Tasks, Step(t) \/ Fails(t)
  PROVE  CalmInv'
  <1>1. CASE ReadRouter(t) \/ SetRouter(t)
    <2>1. /\ UNCHANGED <<slots, flat, form, stamp, tun, calm, synced>>
      BY <1>1 DEF ReadRouter, SetRouter, data, options, router, history
    <2>2. \A u \in Tasks : \/ task'[u] = task[u]
                           \/ task'[u].at = "read"
                           \/ /\ task'[u].at = "egress" /\ task[u].at = "egress"
                              /\ task'[u].kind = task[u].kind /\ task'[u].stamp = task[u].stamp
      BY <1>1, ReadIs, SetIs DEF SetRouter
    <2>3. \A u \in calm' : Recent(task[u]) /\ u \in Tasks
      BY <2>1 DEF CalmInv, AllRecent, TypeOK
    <2>4. Active' = Active /\ Held' = Held
      BY <2>1, RecentStays
    <2>5. AllRecent'
      BY <2>1, <2>2, <2>3, <2>4, AllRecentIs DEF Recent, RecentAfter
    <2> QED BY <2>1, <2>4, <2>5 DEF CalmInv, TunnelsCurrent
  <1>2. CASE ShowRouter(t) \/ ReadFails(t) \/ SwitchDone(t) \/ SetFails(t)
    <2>1. /\ Await(t, Idle) /\ Reads(t)
          /\ UNCHANGED <<slots, flat, form, stamp, tun, synced>>
      BY <1>2 DEF ShowRouter, ReadFails, SwitchDone, SetFails, SetupFails, data, options, router
    <2>2. AllRecent'
      BY <2>1, CalmAwaits, IdleTask, IdleIsRecent
    <2>3. Active' = Active
      BY <2>1, RecentStays
    <2> QED BY <2>1, <2>2, <2>3 DEF CalmInv, TunnelsCurrent
  <1>3. CASE SetupEgressDone(t) \/ ProvisionFails(t)
    <2>1. /\ Forward(t) \/ GoOn(t)
          /\ Reads(t)
          /\ UNCHANGED <<slots, flat, form, stamp, tun, synced>>
      BY <1>3 DEF SetupEgressDone, ProvisionFails, data, options, router
    <2>2. AllRecent'
      BY <2>1, CalmProceeds
    <2>3. Active' = Active
      BY <2>1, RecentStays
    <2> QED BY <2>1, <2>2, <2>3 DEF CalmInv, TunnelsCurrent
  <1>4. CASE SaveAfterwards(t)
    <2>1. /\ Await(t, Idle) /\ Writes(t)
          /\ UNCHANGED <<slots, flat, tun>>
          /\ synced' => synced /\ Count[form'] = Count[form]
      BY <1>4 DEF SaveAfterwards, Save, data, router
    <2>2. AllRecent'
      BY <2>1, CalmAwaits, IdleTask, IdleIsRecent
    <2> QED BY <2>1, <2>2, ActiveAgain DEF CalmInv, TunnelsCurrent
  <1>5. CASE ProvisionDone(t)
    <2>1. Await(t, Idle) /\ Writes(t) /\ synced' = FALSE
      BY <1>5 DEF ProvisionDone, RewriteSlots
    <2>2. AllRecent'
      BY <2>1, CalmAwaits, IdleTask, IdleIsRecent
    <2> QED BY <2>1, <2>2 DEF CalmInv, TunnelsCurrent
  <1>6. CASE RenewalStored(t)
    <2>1. PICK next \in TaskStates : Await(t, next) /\ RecentAfter(next)
      BY <1>6, RenewalGoesOn
    <2>2. Writes(t) /\ synced' = FALSE
      BY <1>6 DEF RenewalStored, RewriteSlots
    <2>3. AllRecent'
      BY <2>1, <2>2, CalmAwaits
    <2> QED BY <2>2, <2>3 DEF CalmInv, TunnelsCurrent
  <1>7. CASE ApplyDone(t)
    <2>1. /\ GoOn(t) /\ UNCHANGED <<slots, flat, form>>
          /\ task[t].at = "apply" /\ tun' = task[t].held /\ (synced' = (t \in calm))
          /\ Writes(t) \/ (Reads(t) /\ stamp' = stamp)
      BY <1>7 DEF ApplyDone, data
    <2>2. AllRecent'
      BY <2>1, CalmProceeds
    <2>3. Active' = Active
      BY <2>1, ActiveAgain
    <2>4. t \in calm => task[t].held = Active
      BY <2>1 DEF CalmInv, AllRecent, Recent
    <2>5. synced' => tun' = Active'
      BY <2>1, <2>3, <2>4
    <2> QED BY <2>2, <2>5 DEF CalmInv, TunnelsCurrent
  <1>8. CASE ApplyFails(t)
    <2>1. /\ GoOn(t) /\ Reads(t) /\ UNCHANGED <<slots, flat, form, stamp>>
          /\ synced' = FALSE
      BY <1>8 DEF ApplyFails, data, options
    <2>2. AllRecent'
      BY <2>1, CalmProceeds
    <2> QED BY <2>1, <2>2 DEF CalmInv, TunnelsCurrent
  <1> QED BY <1>1, <1>2, <1>3, <1>4, <1>5, <1>6, <1>7, <1>8 DEF Step, Fails

LEMMA CalmNext == TypeOK /\ CalmInv /\ [Next]_vars => CalmInv'
  <1> SUFFICES ASSUME TypeOK, CalmInv, [Next]_vars PROVE CalmInv'
    OBVIOUS
  <1>1. CASE RefreshFails \/ Unload \/ UNCHANGED vars
    <2>1. UNCHANGED <<slots, flat, form, stamp, tun, task, calm, synced>>
      BY <1>1 DEF RefreshFails, Unload, vars, data, options, router, history
    <2>2. Active' = Active /\ \A r : Recent(r) => RecentAfter(r)
      BY <2>1, RecentStays
    <2>3. AllRecent'
      BY <2>1, <2>2, AllRecentIs DEF CalmInv, AllRecent
    <2> QED BY <2>1, <2>2, <2>3 DEF CalmInv, TunnelsCurrent
  <1>2. CASE Reauthenticate
    BY <1>2 DEF CalmInv, AllRecent, TunnelsCurrent, Reauthenticate
  <1>3. CASE Crash
    <2>1. /\ UNCHANGED <<slots, flat, form, stamp, tun>> /\ calm' = {}
          /\ synced' => synced
      BY <1>3 DEF Crash, data, options, router
    <2> QED BY <2>1, RecentStays DEF CalmInv, AllRecent, TunnelsCurrent
  <1>4. CASE \E t \in Tasks : Setup(t)
    <2>1. PICK t \in Tasks : Setup(t)
      BY <1>4
    <2>2. /\ UNCHANGED <<slots, flat, form, tun, synced>>
          /\ Writes(t) \/ (Reads(t) /\ stamp' = stamp)
      BY <2>1 DEF Setup, data, router
    <2>3. AllRecent'
      <3>1. CASE Proceed(t)
        BY <2>2, <3>1, CalmProceeds
      <3>2. CASE BeginRenewal(t, "setup")
        <4>1. PICK next \in TaskStates :
                Await(t, next) /\ next.kind = "setup" /\ next.at = "provision" /\ Recent(next)
          BY <3>2, RenewalBegins DEF Kinds
        <4>2. Held' = Held
          BY <2>2 DEF Held
        <4>3. RecentAfter(next)
          BY <4>1, <4>2 DEF Recent, RecentAfter
        <4> QED BY <2>2, <4>1, <4>3, CalmAwaits
      <3> QED BY <2>1, <3>1, <3>2 DEF Setup
    <2>4. Active' = Active
      BY <2>2, ActiveAgain
    <2> QED BY <2>2, <2>3, <2>4 DEF CalmInv, TunnelsCurrent
  <1>5. CASE \E t \in Tasks : Step(t) \/ Fails(t)
    BY <1>5, CalmTasks
  <1>6. CASE \E t \in Tasks : Calls(t)
    <2>1. PICK t \in Tasks : Calls(t)
      BY <1>6
    <2>2. Reads(t) /\ UNCHANGED <<slots, flat, form, stamp, tun, synced>>
      BY <2>1, CallsAre DEF data, options, router
    <2>3. PICK next \in TaskStates : Await(t, next) /\ Recent(next)
      BY <2>1, CallsAre
    <2>4. Active' = Active /\ RecentAfter(next)
      BY <2>2, <2>3, RecentStays
    <2>5. AllRecent'
      BY <2>2, <2>3, <2>4, CalmAwaits
    <2> QED BY <2>2, <2>4, <2>5 DEF CalmInv, TunnelsCurrent
  <1>7. CASE \E t \in Tasks : \E f \in Forms : SaveAtOnce(t, f)
    <2>1. /\ UNCHANGED <<slots, flat, tun>> /\ calm' = {}
          /\ synced' => synced /\ Count[form'] = Count[form]
      BY <1>7 DEF SaveAtOnce, Save, data, router
    <2> QED BY <2>1, ActiveAgain DEF CalmInv, AllRecent, TunnelsCurrent
  <1> QED BY <1>1, <1>2, <1>3, <1>4, <1>5, <1>6, <1>7 DEF Next, Calls

LEMMA CalmInvariant == Spec => [](TypeOK /\ CalmInv)
  <1>1. Init => TypeOK /\ CalmInv
    BY TypeInit, CalmInit
  <1>2. TypeOK /\ CalmInv /\ [Next]_vars => (TypeOK /\ CalmInv)'
    BY TypeNext, CalmNext
  <1> QED BY <1>1, <1>2, PTL DEF Spec

\* After an undisturbed apply the router has the stored credentials of the
\* active slots, for any number of slots and of tasks that write beside it.
THEOREM TunnelsAreCurrent == Spec => []TunnelsCurrent
  <1>1. CalmInv => TunnelsCurrent
    BY DEF CalmInv
  <1> QED BY <1>1, CalmInvariant, PTL

-----------------------------------------------------------------------------
(* Action properties: what a step may not take away. *)

\* Only a provisioning and a reauthentication write the entry's data.
LEMMA DataKept ==
  ASSUME TypeOK, [Next]_vars
  PROVE  \/ slots' = slots /\ flat' = flat
         \/ Reauthenticate
         \/ \E t \in Tasks : RewriteSlots(t)
  <1>1. CASE RefreshFails \/ Unload \/ Crash \/ UNCHANGED vars
    BY <1>1 DEF RefreshFails, Unload, Crash, vars, data
  <1>2. CASE \E t \in Tasks : Setup(t) \/ Calls(t) \/ \E f \in Forms : SaveAtOnce(t, f)
    BY <1>2, CallsAre DEF Setup, SaveAtOnce, data
  <1>3. CASE \E t \in Tasks : Step(t) \/ Fails(t)
    <2>1. PICK t \in Tasks : Step(t) \/ Fails(t)
      BY <1>3
    <2>2. CASE ProvisionDone(t) \/ RenewalStored(t)
      BY <2>2 DEF ProvisionDone, RenewalStored
    <2>3. CASE ~(ProvisionDone(t) \/ RenewalStored(t))
      BY <2>1, <2>3 DEF Step, Fails, ReadRouter, ShowRouter, SetRouter, SwitchDone, SetupEgressDone,
                        SaveAfterwards, ProvisionFails, ApplyDone, ReadFails, SetFails, ApplyFails,
                        data
    <2> QED BY <2>2, <2>3
  <1> QED BY <1>1, <1>2, <1>3 DEF Next, Calls

LEMMA CredentialStep ==
  ASSUME TypeOK, CalmInv, [Next]_vars, NEW s \in Slots, Stored(s)' # Stored(s)
  PROVE  \/ Reauthenticate
         \/ \E t \in Tasks : RewriteSlots(t) /\ (t \in calm => Concerns(t, s))
  <1>1. ~(slots' = slots /\ flat' = flat)
    BY DEF Stored
  <1>2. CASE \E t \in Tasks : RewriteSlots(t)
    <2>1. PICK t \in Tasks : RewriteSlots(t)
      BY <1>2
    <2>2. t \in calm => Concerns(t, s)
      <3> SUFFICES ASSUME t \in calm, ~Concerns(t, s) PROVE FALSE
        OBVIOUS
      <3>1. task[t].slot \notin {0, s} /\ ~(s > task[t].count)
        BY DEF Concerns
      <3>2. s <= task[t].count /\ task[t].at = "provision"
        BY <2>1, <3>1 DEF TypeOK, TaskStates, RewriteSlots
      <3>3. task[t].held[s] = Held[s]
        BY <3>1, <3>2 DEF CalmInv, AllRecent, Recent
      <3>4. slots'[s] = task[t].held[s]
        BY <2>1, <3>1 DEF RewriteSlots
      <3>5. TypeOK'
        BY TypeNext
      <3>6. Stored(s)' = Held'[s] /\ Held' = slots'
        <4>1. Held'[s] = Stored(s)'
          BY <3>5 DEF TypeOK, Held, SlotsFromData, NoSlots, Stored
        <4> QED BY <2>1, <4>1, RewriteType
      <3> QED BY <3>3, <3>4, <3>6, HeldIs
    <2> QED BY <2>1, <2>2
  <1> QED BY <1>1, <1>2, DataKept

\* A stored credential is lost to a provisioning of its slot or a new login
\* only, as far as the writer has seen what was written before.
THEOREM CredentialsKept == Spec => CredentialKept
  <1>1. TypeOK /\ CalmInv /\ [Next]_vars =>
          [\A s \in Slots : Stored(s)' # Stored(s) =>
             \/ Reauthenticate
             \/ \E t \in Tasks : RewriteSlots(t) /\ (t \in calm => Concerns(t, s))]_vars
    BY CredentialStep
  <1> QED BY <1>1, CalmInvariant, PTL DEF Spec, CredentialKept

LEMMA StampStep ==
  ASSUME TypeOK, CalmInv, [Next]_vars, stamp # None, stamp' = None
  PROVE  \E t \in Tasks : SaveAfterwards(t) /\ t \notin calm
  <1>1. stamp' # stamp /\ stamp' \notin Stamps
    OBVIOUS
  <1>2. CASE RefreshFails \/ Unload \/ Reauthenticate \/ Crash \/ UNCHANGED vars
    BY <1>1, <1>2 DEF RefreshFails, Unload, Reauthenticate, Crash, vars, options
  <1>3. CASE \E t \in Tasks : Setup(t) \/ Calls(t) \/ \E f \in Forms : SaveAtOnce(t, f)
    BY <1>1, <1>3, CallsAre DEF Setup, EnsureStamp, SaveAtOnce, Save, options
  <1>4. CASE \E t \in Tasks : Step(t) \/ Fails(t)
    <2>1. PICK t \in Tasks : Step(t) \/ Fails(t)
      BY <1>4
    <2>2. SaveAfterwards(t)
      BY <1>1, <2>1 DEF Step, Fails, ReadRouter, ShowRouter, SetRouter, SwitchDone, SetupEgressDone,
                        ProvisionDone, RenewalStored, ProvisionFails, ApplyDone, ReadFails, SetFails,
                        ApplyFails, options
    <2>3. t \in calm => task[t].stamp = stamp
      BY <2>2 DEF SaveAfterwards, CalmInv, AllRecent, Recent
    <2> QED BY <1>1, <2>2, <2>3 DEF SaveAfterwards, Save
  <1> QED BY <1>2, <1>3, <1>4 DEF Next, Calls

\* The renewal schedule is only ever switched off by a form that has read the
\* options before the stamp came.
THEOREM SchedulesKept == Spec => ScheduleKept
  <1>1. TypeOK /\ CalmInv /\ [Next]_vars =>
          [stamp # None /\ stamp' = None => \E t \in Tasks : SaveAfterwards(t) /\ t \notin calm]_vars
    BY StampStep
  <1> QED BY <1>1, CalmInvariant, PTL DEF Spec, ScheduleKept

-----------------------------------------------------------------------------
(* Entry implements SlotStore. *)

\* What a task asks for, from what it awaits and has read.
RenewedBy(r) == IF r.slot = 0 THEN 1 .. r.count ELSE {r.slot}
NotAsking == [wanted |-> {}, kept |-> NoSlots]
AskedBy(r) ==
  IF r.at = "provision" /\ RenewedBy(r) \subseteq 1 .. r.count
  THEN [wanted |-> RenewedBy(r), kept |-> r.held] ELSE NotAsking
Asking ==
  [t \in Tasks |-> IF Provisioning(t) THEN [wanted |-> Renews(t), kept |-> task[t].held]
                   ELSE [wanted |-> {}, kept |-> NoSlots]]

\* A task that provisions has read a count, so that it has something to renew.
CountRead == \A t \in Tasks : task[t].at = "provision" => task[t].count # 0

StoreInv == TypeOK /\ SetupInv /\ CountRead

LEMMA AskingIs == /\ Asking = [t \in Tasks |-> AskedBy(task[t])]
                  /\ Asking' = [t \in Tasks |-> AskedBy(task'[t])]
  BY DEF Asking, AskedBy, RenewedBy, NotAsking, Provisioning, Renews

\* The actions of SlotStore in terms of these.
LEMMA AbstractIs ==
  /\ Abstract!Configure <=> Asking' = Asking /\ Held' = Held /\ Count[form'] \in Slots
  /\ Abstract!Reauthenticate <=> Asking' = Asking /\ Held' = NoSlots /\ Count[form'] = Count[form]
  /\ Abstract!Crash <=>
       Asking' = [t \in Tasks |-> NotAsking] /\ Held' = Held /\ Count[form'] = Count[form]
  /\ \A t : Abstract!Begin(t) <=>
       /\ Asking[t] = NotAsking
       /\ Held' = Held /\ Count[form'] = Count[form]
       /\ \E s \in 0 .. Count[form] : Asking' = [Asking EXCEPT ![t] = Abstract!Reading(s, Held)]
  /\ \A t : Abstract!Fail(t) <=>
       /\ Asking[t] # NotAsking
       /\ Asking' = [Asking EXCEPT ![t] = NotAsking]
       /\ Held' = Held /\ Count[form'] = Count[form]
  BY DEF Asking, NotAsking, NoSlots, Abstract!Configure,
         Abstract!Reauthenticate, Abstract!Crash, Abstract!Begin, Abstract!Fail, Abstract!Free,
         Abstract!Nothing, Abstract!Slots

LEMMA AbstractStoreIs ==
  ASSUME NEW t \in Tasks, Asking[t] # NotAsking, Count[form'] = Count[form], NEW next,
         Asking' = [Asking EXCEPT ![t] = next],
         next = NotAsking \/ \E s \in 1 .. Count[form] : next = Abstract!Reading(s, Held'),
         NEW new \in [Asking[t].wanted -> Fresh],
         \A r, s \in Asking[t].wanted : new[r] = new[s] => r = s,
         Held' = [s \in Slots |-> IF s \in Asking[t].wanted THEN new[s] ELSE Asking[t].kept[s]]
  PROVE  Abstract!Store(t)
<1>1. Abstract!Free = NotAsking /\ Abstract!Slots = Slots
  BY DEF NotAsking, NoSlots, Abstract!Free, Abstract!Nothing, Abstract!Slots
<1>2. \A c \in Fresh, s \in Slots :
        /\ c \in Certs /\ c # None /\ c # Held[s]
        /\ \A u \in Tasks : c # Asking[u].kept[s]
  <2> SUFFICES ASSUME NEW c \in Fresh, NEW s \in Slots
               PROVE  /\ c \in Certs /\ c # None /\ c # Held[s]
                      /\ \A u \in Tasks : c # Asking[u].kept[s]
    OBVIOUS
  <2>1. /\ c # None /\ c # flat /\ c # slots[s] /\ c \in Certs
        /\ \A u \in Tasks : c # task[u].held[s]
    BY DEF Fresh
  <2>2. Held[s] \in {slots[s], flat, None}
    BY DEF Held, SlotsFromData, NoSlots
  <2>3. \A u \in Tasks : Asking[u].kept[s] \in {task[u].held[s], None}
    BY DEF Asking, NoSlots
  <2> QED BY <2>1, <2>2, <2>3
<1>3. \A s \in Asking[t].wanted : new[s] \notin Abstract!InUse
  BY <1>1, <1>2 DEF Abstract!InUse, Abstract!Held, Asking
<1>4. new \in [Asking[t].wanted -> Certs]
  BY <1>2 DEF Fresh
<1>5. Abstract!Renewed(t, new)
  BY <1>1, <1>3 DEF Abstract!Renewed, Asking
<1> QED BY <1>1, <1>4, <1>5 DEF Abstract!Store, Asking

\* A new reading, as SlotStore puts it; a task for a slot above the count
\* asks for nothing.
LEMMA ReadingIs ==
  ASSUME form \in Forms \cup {None}, NEW r \in TaskStates, NEW table \in Tables,
         r.at = "provision", KeepsActive(r),
         \A s \in Slots : r.slot \notin {0, s} /\ s <= r.count => r.held[s] = table[s]
  PROVE  AskedBy(r) = IF r.slot <= Count[form] THEN Abstract!Reading(r.slot, table) ELSE NotAsking
<1>1. /\ r.count = Count[form] /\ Count[form] \in Nat /\ Count[form] <= MaxSlots /\ MaxSlots \in Nat
      /\ r.slot \in 0 .. MaxSlots /\ r.held \in Tables
  BY DEF KeepsActive, TaskStates, Tables
<1>2. r.held = [s \in Slots |-> IF r.slot \in {0, s} \/ s > Count[form] THEN None ELSE table[s]]
  <2>1. \A s \in Slots : r.held[s] = IF r.slot \in {0, s} \/ s > Count[form] THEN None ELSE table[s]
    BY <1>1 DEF KeepsActive
  <2> QED BY <1>1, <2>1 DEF Tables
<1>3. RenewedBy(r) \subseteq 1 .. r.count <=> r.slot <= Count[form]
  BY <1>1 DEF RenewedBy
<1> QED BY <1>1, <1>2, <1>3 DEF AskedBy, RenewedBy, Abstract!Reading, Abstract!Slots, Abstract!AllSlots

\* A task goes on: what it asks for is all that changes.
LEMMA AwaitAsks ==
  ASSUME StoreInv, NEW t \in Tasks, NEW next \in TaskStates, Await(t, next), KeepsActive(next)
  PROVE  /\ Asking' = [Asking EXCEPT ![t] = AskedBy(next)]
         /\ CountRead'
<1>1. Asking' = [Asking EXCEPT ![t] = AskedBy(next)]
  BY AwaitIs, AskingIs DEF StoreInv
<1>2. next.at = "provision" => next.count # 0
  BY DEF KeepsActive, StoreInv, TypeOK
<1> QED BY <1>1, <1>2, AwaitIs DEF StoreInv, CountRead

\* A task that reads the entry may begin a call.
LEMMA Awaits ==
  ASSUME StoreInv, NEW t \in Tasks, NEW next \in TaskStates, Await(t, next), KeepsActive(next),
         Recent(next), ~Busy(t), Held' = Held, Count[form'] = Count[form]
  PROVE  CountRead' /\ Abstract!Next
<1>0. /\ TypeOK /\ Count[form] \in Slots /\ form \in Forms \cup {None} /\ Held \in Tables
      /\ task[t].at = "idle"
  BY HeldIs DEF StoreInv, SetupInv, TypeOK, Busy
<1>1. Asking' = [Asking EXCEPT ![t] = AskedBy(next)] /\ CountRead' /\ Asking[t] = NotAsking
  BY <1>0, AwaitAsks, AskingIs DEF AskedBy
<1>2. CASE AskedBy(next) = NotAsking
  <2>1. Asking' = Asking
    BY <1>1, <1>2 DEF Asking
  <2> QED BY <1>0, <1>1, <2>1, AbstractIs DEF Abstract!Next
<1>3. CASE AskedBy(next) # NotAsking
  <2>1. next.at = "provision"
    BY <1>3 DEF AskedBy
  <2>2. AskedBy(next) = IF next.slot <= Count[form] THEN Abstract!Reading(next.slot, Held) ELSE NotAsking
    BY <1>0, <2>1, ReadingIs DEF Recent
  <2>3. next.slot \in 0 .. Count[form] /\ AskedBy(next) = Abstract!Reading(next.slot, Held)
    BY <1>0, <1>3, <2>2 DEF TaskStates
  <2>4. Abstract!Begin(t)
    BY <1>1, <2>3, AbstractIs
  <2> QED BY <1>1, <2>4 DEF Abstract!Next
<1> QED BY <1>2, <1>3

\* ... or goes on to something that asks for nothing.
LEMMA OtherTasks ==
  /\ Idle.at # "provision" /\ ReadTask.at # "provision"
  /\ \A r \in TaskStates : r.at # "provision" => KeepsActive(r)
  BY IdleTask, ReadTaskIs DEF KeepsActive

LEMMA Proceeds ==
  ASSUME StoreInv, NEW t \in Tasks, GoOn(t) \/ Proceed(t) \/ Forward(t) \/ Await(t, Idle),
         Held' = Held, Count[form'] = Count[form]
  PROVE  CountRead' /\ Abstract!Next
<1>0. TypeOK /\ Count[form] \in Slots
  BY DEF StoreInv, TypeOK
<1> DEFINE next == SetEgress("setup", TRUE)
<1>1. next \in TaskStates /\ next.at = "egress"
  BY EgressTask DEF Kinds
<1>2. Await(t, next) \/ Await(t, Idle) \/ Await(t, ReadTask)
  BY <1>0, ProceedIs, ForwardIs DEF GoOn
<1> HIDE DEF next
<1>3. \E r \in TaskStates : Await(t, r) /\ r.at # "provision"
  BY <1>1, <1>2, OtherTasks, IdleTask, ReadTaskIs
<1>4. PICK r \in TaskStates : Await(t, r) /\ r.at # "provision"
  BY <1>3
<1>5. Asking' = [Asking EXCEPT ![t] = AskedBy(r)] /\ CountRead' /\ AskedBy(r) = NotAsking
  BY <1>4, AwaitAsks, OtherTasks DEF AskedBy
<1>6. CASE Asking[t] = NotAsking
  <2>1. Asking' = Asking
    BY <1>5, <1>6 DEF Asking
  <2> QED BY <1>0, <1>5, <2>1, AbstractIs DEF Abstract!Next
<1>7. CASE Asking[t] # NotAsking
  <2>1. Abstract!Fail(t)
    BY <1>5, <1>7, AbstractIs
  <2> QED BY <1>5, <2>1 DEF Abstract!Next
<1> QED BY <1>6, <1>7

\* A provisioning that ends well, whatever the task does next.
LEMMA Stores ==
  ASSUME StoreInv, NEW t \in Tasks, RewriteSlots(t), NEW next \in TaskStates, Await(t, next),
         KeepsActive(next),
         next.at = "provision" =>
           /\ next.slot # 0
           /\ \A s \in Slots : next.slot \notin {0, s} /\ s <= next.count => next.held[s] = Held'[s]
  PROVE  CountRead' /\ Abstract!Next
<1>0. /\ TypeOK /\ CountRead /\ form' = form /\ form \in Forms \cup {None} /\ Count[form] \in Slots
      /\ task[t] \in TaskStates /\ task[t].at = "provision" /\ task[t].count # 0
      /\ RenewedBy(task[t]) \subseteq 1 .. task[t].count
  BY DEF StoreInv, CountRead, TypeOK, RewriteSlots, RenewedBy
<1>1. Asking' = [Asking EXCEPT ![t] = AskedBy(next)] /\ CountRead'
  BY AwaitAsks
<1>2. Asking[t] = [wanted |-> RenewedBy(task[t]), kept |-> task[t].held]
  BY <1>0, AskingIs DEF AskedBy
<1>3. PICK new \in [RenewedBy(task[t]) -> Fresh] :
        /\ \A r, s \in RenewedBy(task[t]) : r # s => new[r] # new[s]
        /\ slots' = [s \in Slots |-> IF s \in RenewedBy(task[t]) THEN new[s] ELSE task[t].held[s]]
  BY DEF RewriteSlots, RenewedBy
<1>4. RenewedBy(task[t]) # {}
  <2>1. task[t].count \in Nat /\ 1 <= task[t].count
    BY <1>0 DEF TaskStates
  <2>2. 1 \in 1 .. task[t].count
    BY <2>1
  <2> QED BY <2>2 DEF RenewedBy
<1>5. Asking[t] # NotAsking
  BY <1>2, <1>4 DEF NotAsking
<1>6. Held' = slots' /\ slots' \in Tables
  BY <1>0, RewriteType
<1>7. AskedBy(next) = NotAsking \/ \E s \in 1 .. Count[form] : AskedBy(next) = Abstract!Reading(s, Held')
  <2>1. CASE next.at # "provision"
    BY <2>1 DEF AskedBy
  <2>2. CASE next.at = "provision"
    <3>1. AskedBy(next) = IF next.slot <= Count[form] THEN Abstract!Reading(next.slot, Held') ELSE NotAsking
      BY <1>0, <1>6, <2>2, ReadingIs
    <3>2. next.slot \in 1 .. MaxSlots
      BY <2>2 DEF TaskStates
    <3> QED BY <1>0, <3>1, <3>2
  <2> QED BY <2>1, <2>2
<1>8. /\ new \in [Asking[t].wanted -> Fresh]
      /\ \A r, s \in Asking[t].wanted : new[r] = new[s] => r = s
      /\ Held' = [s \in Slots |-> IF s \in Asking[t].wanted THEN new[s] ELSE Asking[t].kept[s]]
  BY <1>2, <1>3, <1>6
<1>9. Abstract!Store(t)
  BY <1>0, <1>1, <1>5, <1>7, <1>8, AbstractStoreIs
<1> QED BY <1>1, <1>9 DEF Abstract!Next

\* What nobody asks for anything new in may still be the options form.
LEMMA Configures ==
  ASSUME TypeOK', UNCHANGED <<slots, flat>>, Asking' = Asking
  PROVE  Abstract!Next
<1>1. Held' = Held /\ Count[form'] \in Slots
  BY DEF Held, TypeOK
<1> QED BY <1>1, AbstractIs DEF Abstract!Next

LEMMA StoreTasks ==
  ASSUME StoreInv, TypeOK', NEW t \in Tasks, Step(t) \/ Fails(t)
  PROVE  CountRead' /\ Abstract!Next
<1>0. TypeOK
  BY DEF StoreInv
<1>1. CASE ReadRouter(t) \/ SetRouter(t)
  <2>1. UNCHANGED <<slots, flat>> /\ task[t].at # "provision"
    BY <1>1 DEF ReadRouter, SetRouter, data
  <2>2. task'[t].at # "provision" /\ \A u \in Tasks : u # t => task'[u] = task[u]
    BY <1>0, <1>1, ReadIs, SetIs
  <2>3. Asking' = Asking
    BY <2>1, <2>2, AskingIs DEF AskedBy
  <2>4. CountRead'
    BY <2>2 DEF StoreInv, CountRead
  <2> QED BY <2>1, <2>3, <2>4, Configures
<1>2. CASE \/ ShowRouter(t) \/ ReadFails(t) \/ SwitchDone(t) \/ SetFails(t) \/ SetupEgressDone(t)
           \/ ProvisionFails(t) \/ ApplyDone(t) \/ ApplyFails(t)
  <2>1. GoOn(t) \/ Forward(t) \/ Await(t, Idle)
    BY <1>2 DEF ShowRouter, ReadFails, SwitchDone, SetFails, SetupFails, SetupEgressDone,
                ProvisionFails, ApplyDone, ApplyFails
  <2>2. UNCHANGED <<slots, flat, form>>
    BY <1>2 DEF ShowRouter, ReadFails, SwitchDone, SetFails, SetupEgressDone, ProvisionFails,
                ApplyDone, ApplyFails, data, options
  <2>3. Held' = Held
    BY <2>2 DEF Held
  <2> QED BY <2>1, <2>2, <2>3, Proceeds
<1>3. CASE SaveAfterwards(t)
  <2>1. Await(t, Idle) /\ UNCHANGED <<slots, flat>> /\ task[t].at = "egress"
    BY <1>3 DEF SaveAfterwards, data
  <2>2. Asking' = [Asking EXCEPT ![t] = NotAsking] /\ CountRead' /\ Asking[t] = NotAsking
    BY <2>1, AwaitAsks, AskingIs, OtherTasks, IdleTask DEF AskedBy
  <2>3. Asking' = Asking
    BY <2>2 DEF Asking
  <2> QED BY <2>1, <2>2, <2>3, Configures
<1>4. CASE ProvisionDone(t)
  BY <1>4, Stores, OtherTasks, IdleTask DEF ProvisionDone
<1>5. CASE RenewalStored(t)
  <2>1. PICK next \in TaskStates :
          /\ Await(t, next) /\ RecentAfter(next) /\ KeepsActive(next)
          /\ next.at = "provision" => next.slot # 0
    BY <1>0, <1>5, RenewalGoesOn
  <2>2. RewriteSlots(t)
    BY <1>5 DEF RenewalStored
  <2> QED BY <2>1, <2>2, Stores DEF RecentAfter
<1> QED BY <1>1, <1>2, <1>3, <1>4, <1>5 DEF Step, Fails

LEMMA StoreNext == StoreInv /\ [Next]_vars => StoreInv' /\ [Abstract!Next]_(Abstract!vars)
<1> SUFFICES ASSUME StoreInv, [Next]_vars PROVE CountRead' /\ Abstract!Next
  BY TypeNext, SetupNext DEF StoreInv
<1>0. TypeOK /\ TypeOK'
  BY TypeNext DEF StoreInv
<1>1. CASE RefreshFails \/ Unload \/ UNCHANGED vars
  <2>1. UNCHANGED <<slots, flat, task>>
    BY <1>1 DEF RefreshFails, Unload, vars, data
  <2> QED BY <1>0, <2>1, AskingIs, Configures DEF StoreInv, CountRead
<1>2. CASE Reauthenticate
  <2>1. slots' = NoSlots /\ flat' = None /\ UNCHANGED <<form, task>>
    BY <1>2 DEF Reauthenticate, options
  <2>2. Held' = NoSlots
    BY <2>1 DEF Held, SlotsFromData, NoSlots
  <2> QED BY <2>1, <2>2, AskingIs, AbstractIs DEF StoreInv, CountRead, Abstract!Next
<1>3. CASE Crash
  <2>1. UNCHANGED <<slots, flat, form>> /\ task' = [t \in Tasks |-> Idle]
    BY <1>3 DEF Crash, data, options
  <2>2. Asking' = [t \in Tasks |-> NotAsking]
    BY <2>1, AskingIs, IdleTask DEF AskedBy
  <2>3. Held' = Held
    BY <2>1 DEF Held
  <2> QED BY <2>1, <2>2, <2>3, AbstractIs, IdleTask DEF CountRead, Abstract!Next
<1>4. CASE \E t \in Tasks : Setup(t)
  <2>1. PICK t \in Tasks : Setup(t)
    BY <1>4
  <2>2. UNCHANGED <<slots, flat, form>> /\ ~Busy(t)
    BY <2>1 DEF Setup, data
  <2>3. Held' = Held
    BY <2>2 DEF Held
  <2>4. CASE Proceed(t)
    BY <2>2, <2>3, <2>4, Proceeds
  <2>5. CASE BeginRenewal(t, "setup")
    <3>1. PICK next \in TaskStates : Await(t, next) /\ Recent(next) /\ KeepsActive(next)
      BY <1>0, <2>5, RenewalBegins DEF Kinds
    <3> QED BY <2>2, <2>3, <3>1, Awaits
  <2> QED BY <2>1, <2>4, <2>5 DEF Setup
<1>5. CASE \E t \in Tasks : Step(t) \/ Fails(t)
  BY <1>0, <1>5, StoreTasks
<1>6. CASE \E t \in Tasks : Calls(t)
  <2>1. PICK t \in Tasks : Calls(t)
    BY <1>6
  <2>2. UNCHANGED <<slots, flat, form>> /\ ~Busy(t)
    BY <1>0, <2>1, CallsAre DEF data, options
  <2>3. PICK next \in TaskStates : Await(t, next) /\ Recent(next) /\ KeepsActive(next)
    BY <1>0, <2>1, CallsAre
  <2>4. Held' = Held
    BY <2>2 DEF Held
  <2> QED BY <2>2, <2>3, <2>4, Awaits
<1>7. CASE \E t \in Tasks : \E f \in Forms : SaveAtOnce(t, f)
  <2>1. UNCHANGED <<slots, flat, task>>
    BY <1>7 DEF SaveAtOnce, data
  <2> QED BY <1>0, <2>1, AskingIs, Configures DEF StoreInv, CountRead
<1> QED BY <1>1, <1>2, <1>3, <1>4, <1>5, <1>6, <1>7 DEF Next, Calls

LEMMA StoreInit == Init => StoreInv /\ Abstract!Init
<1> SUFFICES ASSUME Init PROVE StoreInv /\ Abstract!Init
  OBVIOUS
<1>1. StoreInv
  BY TypeInit, SetupInit, IdleTask DEF StoreInv, CountRead, Init
<1>2. Asking = [t \in Tasks |-> NotAsking]
  BY AskingIs, IdleTask DEF Init, AskedBy
<1>3. Held = [NoSlots EXCEPT ![1] = flat] /\ flat \in Certs \cup {None} /\ Count[form] \in Slots
  BY DEF Init, Held, SlotsFromData
<1>4. Abstract!Init
  BY <1>2, <1>3 DEF Abstract!Init, Abstract!Free, Abstract!Nothing, Abstract!Slots, NoSlots, Asking,
                    NotAsking
<1> QED BY <1>1, <1>4

\* However tasks interleave, services and renewals do to the slots what a
\* provisioning may do, and of all else only a new login touches them.
THEOREM ImplementsStore == Spec => ImplementsSlotStore
  BY StoreInit, StoreNext, PTL DEF Spec, ImplementsSlotStore, Abstract!Safety
==============================================================================
