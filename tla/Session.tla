------------------------------- MODULE Session -------------------------------
(***************************************************************************)
(* The Proton session of a config entry: its refresh token on Proton's     *)
(* side, in the clients of the manager instances and on the entry          *)
(* (session_manager.py, proton_auth.py, session_store.py), through setup,  *)
(* unload and reload of the entry (__init__.py) and reauthentication       *)
(* (config_flow.py).                                                       *)
(*                                                                         *)
(* Proton accepts a refresh token once and answers with the next one.  The *)
(* thread that asks puts it in the client; the event loop writes it to the *)
(* entry later.  Provisioning writes the client's token to the entry as    *)
(* well.  Unloading an entry cancels timers but no job in flight, and a    *)
(* setup that fails after the timers were started is not unloaded at all:  *)
(* several manager instances may work on one entry.                        *)
(*                                                                         *)
(* A token that neither Proton, the entry nor a client holds may be issued *)
(* again, which keeps the model finite for any number of refreshes.        *)
(***************************************************************************)
EXTENDS Naturals, FiniteSets

CONSTANTS
  Managers,       \* instances of ProtonSessionManager that can coexist
  Tokens,         \* refresh tokens
  None,           \* an instance that does not exist has no token
  Overlap,        \* may the entry be reloaded while a job is in flight?
  Egress,         \* is the egress switch used?
  MaxProvisions,  \* calls of async_provision_wireguard in flight per instance
  MaxFaults       \* bound on lost answers, revoked tokens, unreachable
                  \* routers and crashes

ASSUME ConstantsAssumption ==
  /\ None \notin Tokens
  /\ Overlap \in BOOLEAN
  /\ Egress \in BOOLEAN
  /\ MaxProvisions \in Nat
  /\ MaxFaults \in Nat

VARIABLES
  valid,     \* refresh tokens Proton accepts
  stored,    \* the token on the entry
  tunnels,   \* are WireGuard slots stored on the entry?
  egress,    \* egress_enabled option
  state,     \* of the entry
  current,   \* the instance set up last
  client,    \* client[m]: the token of instance m's ProtonAuthClient
  refresh,   \* refresh[m]: where a refresh of instance m is
  timers,    \* instances whose timers run
  provs,     \* provs[m]: provisioning calls of instance m in flight
  reauth,    \* does a reauth flow wait for the user?
  torn,      \* history: Proton issued a token that never arrived, or revoked one
  faults

entry == <<stored, tunnels, egress>>
instance == <<client, refresh, timers, provs>>
vars == <<valid, entry, state, current, instance, reauth, torn, faults>>

TypeOK ==
  /\ valid \subseteq Tokens
  /\ stored \in Tokens
  /\ tunnels \in BOOLEAN
  /\ egress \in BOOLEAN
  /\ state \in {"unloaded", "setup", "finish", "loaded", "error"}
  /\ current \in Managers
  /\ client \in [Managers -> Tokens \cup {None}]
  /\ refresh \in [Managers -> {"none", "ask", "answered"}]
  /\ timers \subseteq Managers
  /\ provs \in [Managers -> 0 .. MaxProvisions]
  /\ reauth \in BOOLEAN
  /\ torn \in BOOLEAN
  /\ faults \in Nat

\* The config flow has just created the entry.
Init ==
  /\ stored \in Tokens
  /\ valid = {stored}
  /\ tunnels = FALSE
  /\ egress = FALSE
  /\ state = "unloaded"
  /\ current \in Managers
  /\ client = [m \in Managers |-> None]
  /\ refresh = [m \in Managers |-> "none"]
  /\ timers = {}
  /\ provs = [m \in Managers |-> 0]
  /\ reauth = FALSE
  /\ torn = FALSE
  /\ faults = 0

Fresh == Tokens \ (valid \cup {stored} \cup {client[m] : m \in Managers})

\* Instance m has no job in flight; nothing refers to it any more.
Quiet(m) == refresh[m] = "none" /\ provs[m] = 0
Free(m) == Quiet(m) /\ m \notin timers

MayReload == Overlap \/ \A m \in Managers : Quiet(m)

Fault == faults < MaxFaults /\ faults' = faults + 1

-----------------------------------------------------------------------------
(* The entry. *)

\* async_setup_entry makes an instance from the entry, which refreshes first.
Setup(m) ==
  /\ state = "unloaded"
  /\ Free(m)
  /\ current' = m
  /\ client' = [client EXCEPT ![m] = stored]
  /\ refresh' = [refresh EXCEPT ![m] = "ask"]
  /\ state' = "setup"
  /\ UNCHANGED <<valid, entry, timers, provs, reauth, torn, faults>>

\* The end of async_setup: the egress is applied again if it was on, which
\* raises without stored tunnels or when the router cannot be reached.
FinishSetup ==
  /\ state = "finish"
  /\ \/ (egress => tunnels) /\ state' = "loaded" /\ UNCHANGED faults
     \/ egress /\ ~tunnels /\ state' = "error" /\ UNCHANGED faults
     \/ egress /\ Fault /\ state' = "error"
  /\ UNCHANGED <<valid, entry, current, instance, reauth, torn>>

\* Home Assistant unloads a loaded entry; one whose setup failed it just
\* forgets.
StopTimers == timers' = IF state = "loaded" THEN timers \ {current} ELSE timers

Reload ==
  /\ state \in {"loaded", "error"}
  /\ MayReload
  /\ StopTimers
  /\ state' = "unloaded"
  /\ UNCHANGED <<valid, entry, current, client, refresh, provs, reauth, torn, faults>>

\* The user logs in again: _finish_login replaces the entry's data.
Reauthenticate ==
  /\ reauth
  /\ state \in {"loaded", "error"}
  /\ MayReload
  /\ \E n \in Fresh : valid' = valid \cup {n} /\ stored' = n
  /\ tunnels' = FALSE
  /\ reauth' = FALSE
  /\ torn' = FALSE
  /\ StopTimers
  /\ state' = "unloaded"
  /\ UNCHANGED <<egress, current, client, refresh, provs, faults>>

SwitchEgress(on) ==
  /\ Egress
  /\ state = "loaded"
  /\ on => tunnels
  /\ egress' = on
  /\ UNCHANGED <<valid, stored, tunnels, state, current, instance, reauth, torn, faults>>

\* Home Assistant stops: instances, jobs and flows are gone, the entry stays.
Crash ==
  /\ Fault
  /\ state' = "unloaded"
  /\ client' = [m \in Managers |-> None]
  /\ refresh' = [m \in Managers |-> "none"]
  /\ timers' = {}
  /\ provs' = [m \in Managers |-> 0]
  /\ reauth' = FALSE
  /\ torn' = (torn \/ stored \notin valid)
  /\ UNCHANGED <<valid, entry, current>>

-----------------------------------------------------------------------------
(* A refresh: ProtonAuthClient.refresh on a thread, then the event loop. *)

InSetup(m) == state = "setup" /\ m = current

TimerFires(m) ==
  /\ m \in timers
  /\ refresh[m] = "none"
  /\ refresh' = [refresh EXCEPT ![m] = "ask"]
  /\ UNCHANGED <<valid, entry, state, current, client, timers, provs, reauth, torn, faults>>

\* Variant: the client goes on with the token it had.
RefreshForgets(m) ==
  /\ refresh[m] = "ask"
  /\ client[m] \in valid
  /\ \E n \in Fresh : valid' = (valid \ {client[m]}) \cup {n}
  /\ refresh' = [refresh EXCEPT ![m] = "answered"]
  /\ UNCHANGED <<entry, state, current, client, timers, provs, reauth, torn, faults>>

\* Proton takes the token and answers with the next one.
Refresh(m) ==
  /\ refresh[m] = "ask"
  /\ client[m] \in valid
  /\ \E n \in Fresh :
       /\ valid' = (valid \ {client[m]}) \cup {n}
       /\ client' = [client EXCEPT ![m] = n]
  /\ refresh' = [refresh EXCEPT ![m] = "answered"]
  /\ UNCHANGED <<entry, state, current, timers, provs, reauth, torn, faults>>

\* Variant: a failed setup waits to be retried without asking the user.
RaiseQuietly(m) ==
  /\ refresh' = [refresh EXCEPT ![m] = "none"]
  /\ state' = IF InSetup(m) THEN "error" ELSE state
  /\ UNCHANGED reauth

\* Every error becomes InvalidCredentials, then ConfigEntryAuthFailed.  Home
\* Assistant starts a reauth flow when setup raises it; it logs what a timer
\* callback raises.
RaiseAuthFailed(m) ==
  /\ refresh' = [refresh EXCEPT ![m] = "none"]
  /\ state' = IF InSetup(m) THEN "error" ELSE state
  /\ reauth' = (reauth \/ InSetup(m))

\* Proton refuses the token, or the request does not get through.
RefreshFails(m) ==
  /\ refresh[m] = "ask"
  /\ RaiseAuthFailed(m)
  /\ UNCHANGED <<valid, entry, current, client, timers, provs, torn, faults>>

\* Proton takes the token but its answer is lost.
RefreshLost(m) ==
  /\ refresh[m] = "ask"
  /\ client[m] \in valid
  /\ Fault
  /\ \E n \in Fresh : valid' = (valid \ {client[m]}) \cup {n}
  /\ torn' = TRUE
  /\ RaiseAuthFailed(m)
  /\ UNCHANGED <<entry, current, client, timers, provs>>

\* Variant: the entry is written without the answer's refresh token.
StoreEmpty(m) ==
  /\ refresh[m] = "answered"
  /\ stored' = None
  /\ refresh' = [refresh EXCEPT ![m] = "none"]
  /\ IF InSetup(m) THEN state' = "finish" /\ timers' = timers \cup {m}
                   ELSE UNCHANGED <<state, timers>>
  /\ UNCHANGED <<valid, tunnels, egress, current, client, provs, reauth, torn, faults>>

\* async_refresh goes on: the entry gets the token; setup starts the timers.
StoreTokens(m) ==
  /\ refresh[m] = "answered"
  /\ stored' = client[m]
  /\ refresh' = [refresh EXCEPT ![m] = "none"]
  /\ IF InSetup(m) THEN state' = "finish" /\ timers' = timers \cup {m}
                   ELSE UNCHANGED <<state, timers>>
  /\ UNCHANGED <<valid, tunnels, egress, current, client, provs, reauth, torn, faults>>

\* Proton revokes the session.
Revoke ==
  /\ Fault
  /\ valid # {}
  /\ valid' = {}
  /\ torn' = TRUE
  /\ UNCHANGED <<entry, state, current, instance, reauth>>

-----------------------------------------------------------------------------
(* Provisioning, by a service call or the hourly timer. *)

BeginProvision(m) ==
  /\ m \in timers
  /\ provs[m] < MaxProvisions
  /\ provs' = [provs EXCEPT ![m] = @ + 1]
  /\ UNCHANGED <<valid, entry, state, current, client, refresh, timers, reauth, torn, faults>>

EndProvision(m) == provs[m] > 0 /\ provs' = [provs EXCEPT ![m] = @ - 1]

\* The slots and the client's token are written to the entry.
StoreProvision(m) ==
  /\ EndProvision(m)
  /\ stored' = client[m]
  /\ tunnels' = TRUE
  /\ UNCHANGED <<valid, egress, state, current, client, refresh, timers, reauth, torn, faults>>

ProvisionFails(m) ==
  /\ EndProvision(m)
  /\ UNCHANGED <<valid, entry, state, current, client, refresh, timers, reauth, torn, faults>>

-----------------------------------------------------------------------------
\* The jobs of an instance go on by themselves: every request times out.
RefreshJob(m) == Refresh(m) \/ RefreshFails(m) \/ StoreTokens(m)
ProvisionJob(m) == StoreProvision(m) \/ ProvisionFails(m)

Next ==
  \/ FinishSetup \/ Reload \/ Reauthenticate \/ Crash \/ Revoke
  \/ \E on \in BOOLEAN : SwitchEgress(on)
  \/ \E m \in Managers :
       \/ Setup(m) \/ RefreshJob(m) \/ RefreshLost(m) \/ TimerFires(m)
       \/ BeginProvision(m) \/ ProvisionJob(m)

\* Home Assistant sets an entry up that it has unloaded, and setup ends.
Fairness ==
  /\ WF_vars(\E m \in Managers : Setup(m))
  /\ WF_vars(FinishSetup)
  /\ \A m \in Managers : WF_vars(RefreshJob(m)) /\ WF_vars(ProvisionJob(m))

Spec == Init /\ [][Next]_vars /\ Fairness

-----------------------------------------------------------------------------
(***************************************************************************)
(* Properties                                                              *)
(***************************************************************************)
\* A setup that failed after it started its timers leaves them running.
Leaked == \E m \in timers : state \in {"finish", "loaded"} => m # current

\* The session outlives every refresh: unless Proton's answer was lost, the
\* session revoked or a failed setup left timers running, Proton accepts the
\* token of the instance that serves the entry, and the stored one too once an
\* answer on its way has been stored.
SessionAlive ==
  torn \/ Leaked \/
  /\ state \in {"finish", "loaded"} => client[current] \in valid
  /\ stored \in valid \/ \E m \in Managers : refresh[m] = "answered"

\* However instances overlap, the refreshes alone never lose the session: a
\* token Proton accepts is on the entry or on its way there.
NoTokenLost ==
  torn \/ stored \in valid
       \/ \E m \in Managers : refresh[m] = "answered" /\ client[m] \in valid

\* README: the entry is marked "as needing reauth if refresh fails".  An entry
\* set up with a token that is spent asks the user to log in, even if Home
\* Assistant stops before it does, unless another instance or login brings a
\* good token.
SpentTokenAsks ==
  state = "setup" /\ refresh[current] = "ask" /\ client[current] \notin valid
    ~> reauth \/ stored \in valid
==============================================================================
