------------------------------ MODULE Lifecycle -------------------------------
(***************************************************************************)
(* The entries a login has created, through setup, reload, unload and      *)
(* removal (__init__.py): which managers are registered, whether the       *)
(* services exist (services.py), whose timers run, and which sensors there *)
(* are (sensor.py).  Composes with Login: the end of a flow adds an entry  *)
(* or reloads it, and a setup that Proton refuses opens a flow.            *)
(*                                                                         *)
(* Home Assistant works on one entry after the other or on several at a    *)
(* time; on each it does one thing at a time.                              *)
(***************************************************************************)
EXTENDS Login

CONSTANT MaxSlots  \* MAX_TUNNEL_COUNT

ASSUME LifecycleAssumption == MaxSlots \in Nat \ {0}

Slots == 1 .. MaxSlots

VARIABLES
  state,     \* state[i] of the entry with id i
  managers,  \* keys of hass.data: entries with a registered manager
  ghost,     \* is a manager registered whose entry has been removed?
  services,  \* are the services registered?
  timers,    \* entries for which the manager set up last runs its timers
  reload,    \* entries that are to be reloaded
  slots,     \* slots[i]: stored slots within the tunnel count
  sensors,   \* sensors[i]: slots for which the platform has made an entity
  updated    \* entries whose update listener is to be called

manage == <<managers, ghost, services, timers>>
show == <<slots, sensors, updated>>
vars == <<login, state, manage, reload, show>>

\* refused: ConfigEntryAuthFailed; broken: any other error in setup;
\* failed: the platforms could not be unloaded.
States ==
  {"not_loaded", "setup", "forward", "loaded", "reloading", "removing", "refused", "broken", "failed"}

TypeOK ==
  /\ LoginTypeOK
  /\ state \in [Ids -> States]
  /\ managers \subseteq Ids
  /\ ghost \in BOOLEAN
  /\ services \in BOOLEAN
  /\ timers \subseteq Ids
  /\ reload \subseteq Ids
  /\ slots \in [Ids -> SUBSET Slots]
  /\ sensors \in [Ids -> SUBSET Slots]
  /\ updated \subseteq Ids

Init ==
  /\ LoginInit
  /\ state = [i \in Ids |-> "not_loaded"]
  /\ managers = {} /\ ghost = FALSE
  /\ services = FALSE
  /\ timers = {}
  /\ reload = {}
  /\ slots = [i \in Ids |-> {}]
  /\ sensors = [i \in Ids |-> {}]
  /\ updated = {}

\* Variant: nobody listens to updates of the entry.
Unheard == {}

\* The sensor platform listens to updates until it is unloaded.
Listening == {i \in Ids : state[i] \in {"loaded", "reloading", "removing", "failed"}}

To(i, next) == state' = [state EXCEPT ![i] = next]

-----------------------------------------------------------------------------
(* Flows. *)

\* The end of a flow: a new entry is set up, one that is there has its data
\* replaced, slots included, and is reloaded.
FlowDone(f) ==
  LET i == flow[f].id
  IN  /\ FlowEnds(f)
      /\ reload' = IF entry[i] = None THEN reload ELSE reload \cup {i}
      /\ slots' = [slots EXCEPT ![i] = {}]
      /\ updated' = updated \cup (Listening \cap {i})
      /\ UNCHANGED <<state, manage, sensors>>

Asks ==
  /\ \/ \E f \in Flows : FlowStep(f)
     \/ \E u \in UserFlows : UserStep(u)
     \/ \E i \in Ids : SubmitReauth(i)
  /\ UNCHANGED <<state, manage, reload, show>>

-----------------------------------------------------------------------------
(* async_setup_entry. *)

\* Variants: the services, or the manager, registered before its setup.
StartServices(i) ==
  /\ entry[i] # None /\ state[i] = "not_loaded"
  /\ To(i, "setup")
  /\ services' = TRUE /\ timers' = timers \ {i}
  /\ reload' = reload \ {i}
  /\ UNCHANGED <<login, managers, ghost, show>>
StartRegistered(i) ==
  /\ entry[i] # None /\ state[i] = "not_loaded"
  /\ To(i, "setup")
  /\ managers' = managers \cup {i} /\ services' = TRUE /\ timers' = timers \ {i}
  /\ reload' = reload \ {i}
  /\ UNCHANGED <<login, ghost, show>>

\* A manager is made, which refreshes its session first.
Start(i) ==
  /\ entry[i] # None /\ state[i] = "not_loaded"
  /\ To(i, "setup")
  /\ timers' = timers \ {i}
  /\ reload' = reload \ {i}
  /\ UNCHANGED <<login, managers, ghost, services, show>>

\* Variant: a failing refresh is not told as an authentication error.
RefusedQuietly(i) ==
  /\ state[i] = "setup"
  /\ To(i, "refused")
  /\ UNCHANGED <<login, manage, reload, show>>

\* The refresh fails, whether Proton has refused it or could not be asked.
\* Home Assistant opens a flow unless there is one.
SetupRefused(i) ==
  /\ state[i] = "setup"
  /\ To(i, "refused")
  /\ flow' = [flow EXCEPT ![i] = IF Open(i) THEN @ ELSE [Closed EXCEPT !.at = "password", !.id = i]]
  /\ UNCHANGED <<entry, manage, reload, show>>

\* Re-applying the egress raises, with the timers already started.
SetupBreaks(i) ==
  /\ state[i] = "setup"
  /\ To(i, "broken")
  /\ timers' = timers \cup {i}
  /\ UNCHANGED <<login, managers, ghost, services, reload, show>>

\* async_setup has ended, its timers run: manager and services are registered.
Register(i) ==
  /\ state[i] = "setup"
  /\ To(i, "forward")
  /\ timers' = timers \cup {i}
  /\ managers' = managers \cup {i}
  /\ services' = TRUE
  /\ UNCHANGED <<login, ghost, reload, show>>

\* The platforms are set up: a sensor for each slot, and the listener.
Forwarded(i) ==
  /\ state[i] = "forward"
  /\ To(i, "loaded")
  /\ sensors' = [sensors EXCEPT ![i] = slots[i]]
  /\ UNCHANGED <<login, manage, reload, slots, updated>>

-----------------------------------------------------------------------------
(* async_unload_entry, for a reload or a removal. *)

\* The manager's timers are cancelled first.
BeginUnload(i, why) ==
  /\ state[i] = "loaded"
  /\ To(i, why)
  /\ timers' = timers \ {i}
  /\ UNCHANGED <<managers, ghost, services, show>>

\* Asked for by the user, or by a reauthentication earlier on: an entry whose
\* setup failed is just forgotten, one that failed to unload is not reloaded.
Reload(i) ==
  /\ reload' = reload \ {i}
  /\ \/ BeginUnload(i, "reloading")
     \/ state[i] \in {"refused", "broken"} /\ To(i, "not_loaded") /\ UNCHANGED <<manage, show>>
     \/ state[i] = "failed" /\ UNCHANGED <<state, manage, show>>
  /\ UNCHANGED login

\* Variant: an empty registry is not looked for.
KeepServices(registered) == UNCHANGED services

\* async_unload_services.
UnloadServices(registered) == services' = (services /\ registered)

\* The entry and its flow are gone; Home Assistant keeps what it has of it.
Delete(i) ==
  /\ entry' = [entry EXCEPT ![i] = None]
  /\ flow' = [flow EXCEPT ![i] = Closed]
  /\ reload' = reload \ {i}
  /\ slots' = [slots EXCEPT ![i] = {}]

\* The platforms are unloaded, and with them the listener.
Unloaded(i) ==
  /\ state[i] \in {"reloading", "removing"}
  /\ To(i, "not_loaded")
  /\ managers' = managers \ {i}
  /\ UnloadServices(managers \ {i} # {} \/ ghost)
  /\ sensors' = [sensors EXCEPT ![i] = {}]
  /\ updated' = updated \ {i}
  /\ IF state[i] = "removing" THEN Delete(i) ELSE UNCHANGED <<login, reload, slots>>
  /\ UNCHANGED <<ghost, timers>>

\* A platform cannot be unloaded: the manager stays registered, even if the
\* entry is removed.
UnloadFails(i) ==
  /\ state[i] \in {"reloading", "removing"}
  /\ IF state[i] = "removing"
     THEN /\ To(i, "not_loaded")
          /\ managers' = managers \ {i} /\ ghost' = TRUE
          /\ sensors' = [sensors EXCEPT ![i] = {}]
          /\ updated' = updated \ {i}
          /\ Delete(i)
     ELSE To(i, "failed") /\ UNCHANGED <<login, managers, ghost, reload, show>>
  /\ UNCHANGED <<services, timers>>

\* The user removes an entry that is not loaded.
RemoveAtOnce(i) ==
  /\ entry[i] # None
  /\ state[i] \in {"not_loaded", "refused", "broken", "failed"}
  /\ To(i, "not_loaded")
  /\ managers' = managers \ {i} /\ ghost' = (ghost \/ i \in managers)
  /\ timers' = timers \ {i}
  /\ sensors' = [sensors EXCEPT ![i] = {}]
  /\ updated' = updated \ {i}
  /\ Delete(i)
  /\ UNCHANGED services

\* One that is loaded is unloaded before.
Remove(i) ==
  \/ BeginUnload(i, "removing") /\ UNCHANGED <<login, reload>>
  \/ RemoveAtOnce(i)

\* Home Assistant restarts: the entries stay.
Restart ==
  /\ flow' = [f \in Flows |-> Closed]
  /\ state' = [i \in Ids |-> "not_loaded"]
  /\ managers' = {} /\ ghost' = FALSE /\ services' = FALSE /\ timers' = {} /\ reload' = {}
  /\ sensors' = [i \in Ids |-> {}]
  /\ updated' = {}
  /\ UNCHANGED <<entry, slots>>

-----------------------------------------------------------------------------
(* The sensors. *)

\* The entry changes: slots are provisioned, or the tunnel count is set.
Update(i, active) ==
  /\ entry[i] # None
  /\ slots' = [slots EXCEPT ![i] = active]
  /\ updated' = updated \cup (Listening \cap {i})
  /\ UNCHANGED <<login, state, manage, reload, sensors>>

\* _async_sync_sensors: those that are there stay.
SyncSensors(i) ==
  /\ i \in updated
  /\ sensors' = [sensors EXCEPT ![i] = @ \cup slots[i]]
  /\ updated' = updated \ {i}
  /\ UNCHANGED <<login, state, manage, reload, slots>>

-----------------------------------------------------------------------------
Next ==
  \/ Asks \/ Restart
  \/ \E f \in Flows : FlowDone(f)
  \/ \E i \in Ids :
       \/ Start(i) \/ SetupRefused(i) \/ SetupBreaks(i) \/ Register(i) \/ Forwarded(i)
       \/ Reload(i) \/ Unloaded(i) \/ UnloadFails(i) \/ Remove(i)
       \/ SyncSensors(i)
       \/ \E active \in SUBSET Slots : Update(i, active)

Spec == Init /\ [][Next]_vars

-----------------------------------------------------------------------------
(***************************************************************************)
(* Properties                                                              *)
(***************************************************************************)
\* The services exist exactly while a manager can serve them, however setups,
\* reloads and removals of several entries interleave.
ServicesServe == services <=> managers # {} \/ ghost

\* A registered manager runs its timers, unless its entry is being unloaded
\* or that has failed: no service call reaches one whose setup is not over.
ManagersRun ==
  \A i \in managers : i \in timers \/ state[i] \in {"reloading", "removing", "failed"}

\* README: the entry is marked "as needing reauth if refresh fails": as long
\* as its setup counts as refused, there is a flow for it or a reload coming.
RefusedIsAsked ==
  \A i \in Ids : state[i] = "refused" => Open(i) \/ i \in reload

\* A loaded entry has a sensor for every stored slot within the tunnel count,
\* once the listener has been called.
SensorsFollow ==
  \A i \in Ids : state[i] = "loaded" /\ i \notin updated => slots[i] \subseteq sensors[i]
==============================================================================
