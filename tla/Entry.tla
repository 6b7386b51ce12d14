-------------------------------- MODULE Entry --------------------------------
(***************************************************************************)
(* One config entry as the shared memory of everything that works on it:   *)
(* the options form (config_flow.py), the egress switch (switch.py), the   *)
(* services (services.py), the renewal job and the setup of the entry      *)
(* (session_manager.py), over the slot store (wg_slots.py) and connections *)
(* to the router (mikrotik_client.py).                                     *)
(*                                                                         *)
(* Each of these is a task on the event loop.  It reads the entry, awaits  *)
(* an executor job on Proton or the router, and then writes the entry,     *)
(* whatever others have written meanwhile.  A step here is what happens    *)
(* between two awaits, or the executor job as a whole; Router, Provisioning*)
(* and Session open those up, RefreshSchedule says which slots are due.    *)
(* Saving the form replaces all options, but only after the step has       *)
(* applied the egress with the options that are still saved.               *)
(***************************************************************************)
EXTENDS Naturals, FiniteSets

CONSTANTS
  MaxSlots,   \* MAX_TUNNEL_COUNT
  Tasks,      \* what can be in flight at the same time
  Certs,      \* credentials; one nobody refers to any more may come again
  Forms,      \* values of the options form
  Count,      \* Count[f]: tunnel_count in form f, the default in None
  Stamps,     \* values of wg_refresh_last_at
  None

Slots == 1 .. MaxSlots

ASSUME ConstantsAssumption ==
  /\ MaxSlots \in Nat \ {0}
  /\ None \notin Certs /\ None \notin Forms /\ None \notin Stamps /\ None \notin BOOLEAN
  /\ Count \in [Forms \cup {None} -> Slots]

VARIABLES
  slots,   \* wg_slots of the entry's data
  flat,    \* the credential under the keys of versions without slots
  form,    \* what the form last saved, or None: MikroTik is not configured
  stamp,   \* wg_refresh_last_at option
  egress,  \* egress_enabled option
  tun,     \* credentials of the router's tunnels
  lan,     \* does the router have the egress?
  state,   \* of the entry: off, setup, forward (to the platforms), loaded, error
  shown,   \* what the switch displays, or None: there is no switch
  task,    \* task[t]: what task t is, awaits and has read
  own,     \* tasks of the manager instance set up last
  sole,    \* history: work on the egress that no other has overlapped
  calm,    \* history: tasks since whose reading nobody has written the entry
  fit,     \* history: does the option (the display) follow a lone task?
  synced   \* history: did the last apply read what is stored now?

data == <<slots, flat>>
options == <<form, stamp, egress>>
router == <<tun, lan>>
history == <<sole, calm, fit, synced>>
vars == <<data, options, router, state, shown, task, own, history>>

NoSlots == [s \in Slots |-> None]

Idle == [kind |-> "none", at |-> "idle", done |-> FALSE, on |-> FALSE, slot |-> 0, todo |-> {},
         held |-> NoSlots, count |-> 0, stamp |-> None, form |-> None]

TaskStates ==
  [kind: {"none", "switch", "form", "setup", "provision", "apply", "renew"},
   at: {"idle", "egress", "provision", "apply", "read"},
   done: BOOLEAN, on: BOOLEAN, slot: 0 .. MaxSlots, todo: SUBSET Slots,
   held: [Slots -> Certs \cup {None}], count: 0 .. MaxSlots,
   stamp: Stamps \cup {None}, form: Forms \cup {None}]

TypeOK ==
  /\ slots \in [Slots -> Certs \cup {None}]
  /\ flat \in Certs \cup {None}
  /\ form \in Forms \cup {None}
  /\ stamp \in Stamps \cup {None}
  /\ egress \in BOOLEAN
  /\ tun \in [Slots -> Certs \cup {None}]
  /\ lan \in BOOLEAN
  /\ state \in {"off", "setup", "forward", "loaded", "error"}
  /\ shown \in BOOLEAN \cup {None}
  /\ task \in [Tasks -> TaskStates]
  /\ own \subseteq Tasks
  /\ sole \subseteq Tasks
  /\ calm \subseteq Tasks
  /\ fit \in {"no", "option", "display"}
  /\ synced \in BOOLEAN

\* A new entry, or one that a version without slots has provisioned.
Init ==
  /\ slots = NoSlots
  /\ flat \in Certs \cup {None}
  /\ form \in Forms \cup {None}
  /\ stamp = None
  /\ egress = FALSE
  /\ tun = NoSlots
  /\ lan = FALSE
  /\ state = "off"
  /\ shown = None
  /\ task = [t \in Tasks |-> Idle]
  /\ own = {}
  /\ sole = {}
  /\ calm = {}
  /\ fit = "option"
  /\ synced = (flat = None)

-----------------------------------------------------------------------------
(* Reading the entry. *)

\* Variant: the flat keys are not read.
SlotsOnly(table, legacy) == table

\* slots_from_entry_data: without slots the legacy credential is slot 1.
SlotsFromData(table, legacy) ==
  IF table # NoSlots THEN table ELSE [NoSlots EXCEPT ![1] = legacy]

Held == SlotsFromData(slots, flat)

\* The part of the credentials an apply with form f is about.
ActiveOf(held, f) == [s \in Slots |-> IF s <= Count[f] THEN held[s] ELSE None]
Active == ActiveOf(Held, form)

Managed == state \in {"forward", "loaded"}
Busy(t) == task[t].kind # "none"

\* Tasks that change the router's egress.
Setting == {t \in Tasks : task[t].at = "egress"}

Fresh == Certs \ ({flat} \cup UNION {{h[s] : s \in Slots} :
                    h \in {slots, tun} \cup {task[t].held : t \in Tasks}})

\* Task t goes on to what it awaits next.  Another change of the egress
\* disturbs those in flight, another reading does not.
Await(t, next) ==
  /\ task' = [task EXCEPT ![t] = next]
  /\ own' = IF next = Idle THEN own \ {t} ELSE IF Busy(t) THEN own ELSE own \cup {t}
  /\ sole' = CASE next.at = "egress" -> IF Setting \subseteq {t} THEN {t} ELSE {}
               [] next.at = "read" -> IF Setting \subseteq {t} THEN sole \cup {t} ELSE sole \ {t}
               [] OTHER -> sole \ {t}

\* ... having read the entry again, and without or with writing it before.
Reads(t) == calm' = IF task'[t] = Idle THEN calm \ {t} ELSE calm \cup {t}
Writes(t) == calm' = IF task'[t] = Idle THEN {} ELSE {t}

\* A call reads the entry and awaits a thread.
Call(t, next) ==
  /\ Managed
  /\ ~Busy(t)
  /\ Await(t, next) /\ Reads(t)
  /\ UNCHANGED <<data, options, router, state, shown, fit, synced>>

\* async_set_egress raises without options, and without active slots on "on".
CanSet(on) == form # None /\ (on => Active # NoSlots)

SetEgress(kind, on) == [Idle EXCEPT !.kind = kind, !.at = "egress", !.on = on]

-----------------------------------------------------------------------------
(* Setup: async_setup and async_setup_entry. *)

\* Setup raises: Home Assistant forgets the instance.
SetupFails(t) == state' = "error" /\ Await(t, Idle) /\ UNCHANGED shown

\* The manager is registered and the switch is created from the option; its
\* async_added_to_hass reads the router, unless MikroTik is not configured.
Forward(t) ==
  IF form = None
  THEN state' = "loaded" /\ shown' = FALSE /\ Await(t, Idle)
  ELSE /\ state' = "forward" /\ shown' = egress
       /\ Await(t, [Idle EXCEPT !.kind = "setup", !.at = "read"])

\* The last lines of async_setup re-apply the egress if it was on.
Proceed(t) ==
  \/ /\ egress /\ CanSet(TRUE)
     /\ Await(t, SetEgress("setup", TRUE))
     /\ state' = "setup" /\ UNCHANGED shown
  \/ egress /\ form # None /\ ~CanSet(TRUE) /\ SetupFails(t)
  \/ ~(egress /\ form # None) /\ Forward(t)

\* Variant: slots above the tunnel count are kept, too.
ProvisionKeepingAll(kind, s, todo, held) ==
  [Idle EXCEPT !.kind = kind, !.at = "provision", !.slot = s, !.todo = todo, !.count = Count[form],
               !.held = [r \in Slots |-> IF s \in {0, r} THEN None ELSE held[r]]]

\* async_provision_wireguard for slot s (0: all) reads held, of which it keeps
\* the other active slots; slots todo are next.
Provision(kind, s, todo, held) ==
  [Idle EXCEPT !.kind = kind, !.at = "provision", !.slot = s, !.todo = todo, !.count = Count[form],
               !.held = [r \in Slots |-> IF s \in {0, r} THEN None ELSE ActiveOf(held, form)[r]]]

Apply(kind, held) ==
  [Idle EXCEPT !.kind = kind, !.at = "apply", !.held = ActiveOf(held, form)]

\* async_refresh_due_slots finds slots due; RefreshSchedule says which.
BeginRenewal(t, kind) ==
  /\ form # None /\ stamp # None
  /\ \E due \in SUBSET {s \in Slots : Held[s] # None} : \E s \in due :
       Await(t, Provision(kind, s, due \ {s}, Held))

\* _async_ensure_wg_refresh_stamp.
EnsureStamp ==
  IF stamp = None /\ Held # NoSlots THEN stamp' \in Stamps ELSE UNCHANGED stamp

\* The tokens are refreshed, and then setup goes on with the entry it finds:
\* the stamp is seeded, due slots are renewed.
Setup(t) ==
  /\ state = "off"
  /\ ~Busy(t)
  /\ EnsureStamp
  /\ \/ Proceed(t)
     \/ BeginRenewal(t, "setup") /\ state' = "setup" /\ UNCHANGED shown
  /\ IF stamp' = stamp THEN Reads(t) ELSE Writes(t)
  /\ UNCHANGED <<data, form, egress, router, fit, synced>>

\* Session says when the refresh fails.
RefreshFails ==
  /\ state = "off"
  /\ state' = "error"
  /\ UNCHANGED <<data, options, router, shown, task, own, history>>

\* is_egress_enabled looks for an egress route.
ReadRouter(t) ==
  /\ task[t].at = "read" /\ ~task[t].done
  /\ task' = [task EXCEPT ![t].done = TRUE, ![t].on = lan]
  /\ UNCHANGED <<data, options, router, state, shown, own, history>>

\* Variant: the displayed state is not updated.
DisplayBefore(t, on) == UNCHANGED shown

\* The switch displays what its own task has done or read last.
Display(t, on) == shown' = IF t \in own THEN on ELSE shown

\* The entity is added, and with it the last platform.
Added(t) == state' = IF t \in own THEN "loaded" ELSE state

ShowRouter(t) ==
  /\ task[t].at = "read" /\ task[t].done
  /\ Display(t, task[t].on)
  /\ fit' = IF t \in own /\ fit # "no" THEN IF t \in sole THEN "display" ELSE "option" ELSE fit
  /\ Added(t)
  /\ Await(t, Idle) /\ Reads(t)
  /\ UNCHANGED <<data, options, router, synced>>

\* Only ValueError is caught: the entity is not added.
ReadFails(t) ==
  /\ task[t].at = "read"
  /\ Display(t, None)
  /\ Added(t)
  /\ Await(t, Idle) /\ Reads(t)
  /\ UNCHANGED <<data, options, router, fit, synced>>

\* The entry is unloaded; its tasks go on for an instance nobody sees.
Forget == state' = "off" /\ shown' = None /\ own' = {}

Unload ==
  /\ state \in {"loaded", "error"}
  /\ Forget
  /\ fit' = IF fit = "display" THEN "option" ELSE fit
  /\ UNCHANGED <<data, options, router, task, sole, calm, synced>>

\* _finish_login for a reauth flow replaces the entry's data and reloads it.
Reauthenticate ==
  /\ state \in {"loaded", "error"}
  /\ slots' = NoSlots /\ flat' = None
  /\ Forget
  /\ calm' = {}
  /\ fit' = IF fit = "display" THEN "option" ELSE fit
  /\ synced' = FALSE
  /\ UNCHANGED <<options, router, task, sole>>

\* Home Assistant stops; a job on the router may be cut off anywhere.
Crash ==
  /\ Forget
  /\ task' = [t \in Tasks |-> Idle]
  /\ sole' = {} /\ calm' = {}
  /\ fit' = IF \E t \in Tasks : task[t].at = "egress" THEN "no"
            ELSE IF fit = "display" THEN "option" ELSE fit
  /\ synced' = (synced /\ \A t \in Tasks : task[t].at # "apply")
  /\ UNCHANGED <<data, options, router>>

-----------------------------------------------------------------------------
(* The egress: async_set_egress for the switch, setup and the form. *)

\* What is drawn from the task that changes the egress as a whole.
Settled(t) == IF t \notin sole THEN "no" ELSE IF fit = "display" THEN "display" ELSE "option"

TurnSwitch(t, on) ==
  /\ Managed /\ shown # None
  /\ ~Busy(t)
  /\ CanSet(on)
  /\ Call(t, SetEgress("switch", on))

\* enable_egress or disable_egress, on a thread.
SetRouter(t) ==
  /\ task[t].at = "egress" /\ ~task[t].done
  /\ lan' = task[t].on
  /\ task' = [task EXCEPT ![t].done = TRUE]
  /\ UNCHANGED <<data, options, tun, state, shown, own, history>>

\* async_turn_on and async_turn_off go on.
SwitchDone(t) ==
  /\ task[t].kind = "switch" /\ task[t].at = "egress" /\ task[t].done
  /\ egress' = task[t].on
  /\ Display(t, task[t].on)
  /\ fit' = IF t \notin sole THEN "no" ELSE IF t \in own THEN "display" ELSE "option"
  /\ Await(t, Idle) /\ Reads(t)
  /\ UNCHANGED <<data, form, stamp, router, state, synced>>

SetupEgressDone(t) ==
  /\ task[t].kind = "setup" /\ task[t].at = "egress" /\ task[t].done
  /\ egress' = TRUE
  /\ fit' = Settled(t)
  /\ Forward(t) /\ Reads(t)
  /\ UNCHANGED <<data, form, stamp, router, synced>>

\* The router is unreachable or the connection is lost in the middle.
SetFails(t) ==
  /\ task[t].at = "egress" /\ ~task[t].done
  /\ lan' \in {lan, task[t].on}
  /\ fit' = "no"
  /\ IF task[t].kind = "setup" THEN SetupFails(t)
     ELSE Await(t, Idle) /\ UNCHANGED <<state, shown>>
  /\ Reads(t)
  /\ UNCHANGED <<data, options, tun, synced>>

-----------------------------------------------------------------------------
(* The options form: async_step_init. *)

\* Variant: nothing is taken over from the previous options.
SaveFieldsOnly(f, at, on) ==
  form' = f /\ stamp' = None /\ egress' = FALSE /\ UNCHANGED synced

\* Home Assistant replaces the options by the form's fields and what the form
\* took over from the previous options; other tunnels may be active now.
Save(f, at, on) ==
  /\ form' = f /\ stamp' = at /\ egress' = on
  /\ synced' = (synced /\ Count[f] = Count[form])

\* The user submits the form, and the connection it names works.
Submit(t) == ~Busy(t) /\ \A u \in Tasks : task[u].kind # "form"

\* With the egress off, or no manager, the options are saved at once.
SaveAtOnce(t, f) ==
  /\ Submit(t)
  /\ ~(egress /\ Managed)
  /\ Save(f, stamp, egress)
  /\ calm' = {}
  /\ UNCHANGED <<data, router, state, shown, task, own, sole, fit>>

\* With the egress on, it is applied first, with the options still saved.
ReapplyFirst(t, f) ==
  /\ Submit(t)
  /\ egress /\ CanSet(TRUE)
  /\ Call(t, [SetEgress("form", TRUE) EXCEPT !.form = f, !.stamp = stamp])

\* ... and then the previous stamp and egress are saved along with the form.
SaveAfterwards(t) ==
  /\ task[t].kind = "form" /\ task[t].at = "egress" /\ task[t].done
  /\ Save(task[t].form, task[t].stamp, TRUE)
  /\ fit' = Settled(t)
  /\ Await(t, Idle) /\ Writes(t)
  /\ UNCHANGED <<data, router, state, shown>>

-----------------------------------------------------------------------------
(* Services and the renewal job. *)

CallProvision(t, s) == Call(t, Provision("provision", s, {}, Held))
CallApply(t) == form # None /\ Held # NoSlots /\ Call(t, Apply("apply", Held))

\* The hourly timer; an instance runs one renewal job at a time.
TimerFires(t) ==
  /\ Managed
  /\ ~Busy(t)
  /\ \A u \in own : task[u].kind # "renew"
  /\ BeginRenewal(t, "renew")
  /\ Reads(t)
  /\ UNCHANGED <<data, options, router, state, shown, fit, synced>>

\* A call is over, and so is the renewal in a setup, which goes on.
GoOn(t) ==
  IF task[t].kind = "setup" THEN Proceed(t)
  ELSE Await(t, Idle) /\ UNCHANGED <<state, shown>>

\* provision_wireguard_slots raises for a slot above the count and otherwise
\* returns new credentials and those kept; the entry's data is rewritten, and
\* the legacy keys go.
RewriteSlots(t) ==
  LET count == task[t].count
      renewed == IF task[t].slot = 0 THEN 1 .. count ELSE {task[t].slot}
  IN  /\ task[t].at = "provision"
      /\ renewed \subseteq 1 .. count
      /\ \E new \in [renewed -> Fresh] :
           /\ \A r, s \in renewed : r # s => new[r] # new[s]
           /\ slots' = [s \in Slots |-> IF s \in renewed THEN new[s] ELSE task[t].held[s]]
      /\ flat' = None
      /\ synced' = FALSE
      /\ UNCHANGED <<form, egress, router, fit>>

\* A service call; one for all slots resets the stamp.
ProvisionDone(t) ==
  /\ task[t].kind = "provision"
  /\ RewriteSlots(t)
  /\ IF task[t].slot = 0 THEN stamp' \in Stamps ELSE UNCHANGED stamp
  /\ Await(t, Idle) /\ Writes(t)
  /\ UNCHANGED <<state, shown>>

\* Variant: a renewal applies what it knew before its last slot.
ApplyHeld(t) ==
  /\ task[t].todo = {}
  /\ Await(t, Apply(task[t].kind, task[t].held))

\* After the last slot a renewal applies what is stored now.
ApplyStored(t) ==
  /\ task[t].todo = {}
  /\ Await(t, Apply(task[t].kind, slots'))

\* A renewal goes on with the next slot, or the apply.
RenewalStored(t) ==
  /\ task[t].kind \in {"renew", "setup"}
  /\ RewriteSlots(t)
  /\ \/ ApplyStored(t)
     \/ \E s \in task[t].todo :
          Await(t, Provision(task[t].kind, s, task[t].todo \ {s}, slots'))
  /\ Writes(t)
  /\ UNCHANGED <<stamp, state, shown>>

ProvisionFails(t) ==
  /\ task[t].at = "provision"
  /\ GoOn(t) /\ Reads(t)
  /\ UNCHANGED <<data, options, router, fit, synced>>

\* apply_wireguard_slots; a renewal then advances the stamp.
ApplyDone(t) ==
  /\ task[t].at = "apply"
  /\ tun' = task[t].held
  /\ synced' = (t \in calm)
  /\ GoOn(t)
  /\ IF task[t].kind = "apply" THEN UNCHANGED stamp /\ Reads(t) ELSE stamp' \in Stamps /\ Writes(t)
  /\ UNCHANGED <<data, form, egress, lan, fit>>

ApplyFails(t) ==
  /\ task[t].at = "apply"
  /\ \E gone \in SUBSET Slots : tun' = [s \in Slots |-> IF s \in gone THEN tun[s] ELSE task[t].held[s]]
  /\ synced' = FALSE
  /\ GoOn(t) /\ Reads(t)
  /\ UNCHANGED <<data, options, lan, fit>>

-----------------------------------------------------------------------------
\* What a task does once it has started.
Step(t) ==
  \/ ReadRouter(t) \/ ShowRouter(t)
  \/ SetRouter(t) \/ SwitchDone(t) \/ SetupEgressDone(t) \/ SaveAfterwards(t)
  \/ ProvisionDone(t) \/ RenewalStored(t) \/ ProvisionFails(t) \/ ApplyDone(t)

Fails(t) == ReadFails(t) \/ SetFails(t) \/ ApplyFails(t)

Next ==
  \/ RefreshFails \/ Unload \/ Reauthenticate \/ Crash
  \/ \E t \in Tasks :
       \/ Setup(t) \/ TimerFires(t) \/ CallApply(t) \/ Step(t) \/ Fails(t)
       \/ \E on \in BOOLEAN : TurnSwitch(t, on)
       \/ \E f \in Forms : SaveAtOnce(t, f) \/ ReapplyFirst(t, f)
       \/ \E s \in 0 .. MaxSlots : CallProvision(t, s)

Spec == Init /\ [][Next]_vars

-----------------------------------------------------------------------------
(***************************************************************************)
(* Properties                                                              *)
(***************************************************************************)
\* The recorded option is the state of the router whenever nothing is under
\* way and the last change of the egress ran alone, be it the switch, the
\* setup or the form, whatever ran beside it: "Desired on/off state is stored
\* in options" (README).
EgressRecorded ==
  Setting = {} /\ fit # "no" => egress = lan

\* ... and the switch displays it, from the time it was added or turned.
ShownIsRecorded ==
  state = "loaded" /\ Setting = {} /\ fit = "display" => shown \in {egress, None}

\* Once an apply or a renewal has ended during which nobody has written the
\* entry, the router has the stored credentials of the active slots and no
\* others, until the entry changes.
TunnelsCurrent == synced => tun = Active

\* Which slots does the write of a provisioning task concern?
Concerns(t, s) == task[t].slot \in {0, s} \/ s > task[t].count

\* The credential stored for slot s.
Stored(s) == IF \E r \in Slots : slots[r] # None THEN slots[s] ELSE IF s = 1 THEN flat ELSE None

\* A credential, the legacy one included, is only replaced by a provisioning
\* of its slot, dropped with it or by a new login; a provisioning of another
\* slot keeps it if nobody has written the entry since it began.
CredentialKept ==
  [][\A s \in Slots : Stored(s)' # Stored(s) =>
       \/ Reauthenticate
       \/ \E t \in Tasks : RewriteSlots(t) /\ (t \in calm => Concerns(t, s))]_vars

\* The renewal schedule is never switched off: a stamp that is there stays,
\* unless it came after a form had read the options.
ScheduleKept ==
  [][stamp # None /\ stamp' = None => \E t \in Tasks : SaveAfterwards(t) /\ t \notin calm]_vars

\* What a provisioning task renews; one for a slot above the count will raise.
Renews(t) == IF task[t].slot = 0 THEN 1 .. task[t].count ELSE {task[t].slot}
Provisioning(t) == task[t].at = "provision" /\ Renews(t) \subseteq 1 .. task[t].count

Abstract == INSTANCE SlotStore WITH
  Calls <- Tasks, Values <- Certs, Unique <- TRUE, stored <- Held, count <- Count[form],
  call <- [t \in Tasks |-> IF Provisioning(t) THEN [wanted |-> Renews(t), kept |-> task[t].held]
                           ELSE [wanted |-> {}, kept |-> NoSlots]]

\* Services and renewals do to the stored slots what SlotStore allows, the
\* migration of the legacy credential included, and nothing else that works
\* on the entry touches them but a new login.
ImplementsSlotStore == Abstract!Safety
==============================================================================
