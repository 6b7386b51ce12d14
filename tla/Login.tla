-------------------------------- MODULE Login ---------------------------------
(***************************************************************************)
(* Logging in to Proton: the steps of the config flow (config_flow.py) and *)
(* the login with its second factor and its failover between Proton's      *)
(* hosts (proton_auth.py, proton_http.py).  Several flows are open at the  *)
(* same time: those the user has opened to add an account, and a           *)
(* reauthentication flow for each entry that needs one.                    *)
(*                                                                         *)
(* Entries are known by their unique id, the name as typed in lower case.  *)
(* Proton takes a name in any case.  A step of a flow awaits one login,    *)
(* which asks one host after the other; the answers of a host to the       *)
(* requests of a login are one step here.                                  *)
(***************************************************************************)
EXTENDS Naturals

CONSTANTS
  Names,      \* names as they can be typed
  Ids,        \* unique ids
  Lower,      \* Lower[n]: name n in lower case
  UserFlows,  \* flows opened by the user
  Hosts,      \* number of DEFAULT_API_URLS
  None

\* A reauthentication flow goes by the id of its entry: Home Assistant opens
\* no second one.
Flows == UserFlows \cup Ids

VARIABLES
  flow,   \* flow[f]: the form flow f shows, or what it awaits
  entry   \* entry[i]: name and session on the entry with id i, or None

login == <<flow, entry>>

\* A session is of an account, and good for everything or for the code only.
Sessions == [of: Ids, full: BOOLEAN]
NoSession == [of |-> None, full |-> FALSE]
EntryData == [user: Ids, session: Sessions]

ASSUME LoginAssumption ==
  /\ Lower \in [Names -> Ids]
  /\ UserFlows \cap Ids = {}
  /\ Hosts \in Nat \ {0}
  /\ None \notin Ids /\ None \notin EntryData

\* In which step the flow is: closed; the form for the password; the login on
\* a thread; the form for the code; the check of the code on a thread.  silent
\* and answered are what the last password has met: how many hosts could not
\* be reached, and whether one has answered.
FlowStates ==
  [at: {"closed", "password", "login", "two_factor", "code"},
   id: Ids \cup {None}, user: Ids \cup {None},
   pending: Sessions \cup {NoSession},
   err: {"none", "invalid_auth", "cannot_connect", "unknown"},
   silent: 0 .. Hosts, answered: BOOLEAN]

Closed ==
  [at |-> "closed", id |-> None, user |-> None, pending |-> NoSession,
   err |-> "none", silent |-> 0, answered |-> FALSE]

LoginTypeOK ==
  /\ flow \in [Flows -> FlowStates]
  /\ entry \in [Ids -> EntryData \cup {None}]

LoginInit ==
  /\ flow = [f \in Flows |-> Closed]
  /\ entry = [i \in Ids |-> None]

Open(f) == flow[f].at # "closed"

-----------------------------------------------------------------------------
(* async_step_user and async_step_reauth_confirm. *)

OpenFlow(u) ==
  /\ ~Open(u)
  /\ flow' = [flow EXCEPT ![u] = [Closed EXCEPT !.at = "password"]]
  /\ UNCHANGED entry

\* The user closes the dialog; a flow for an entry stays.
Abandon(u) ==
  /\ flow[u].at \in {"password", "two_factor"}
  /\ flow' = [flow EXCEPT ![u] = Closed]
  /\ UNCHANGED entry

\* Variant: the unique id is not set.
NotTaken(u, i) == TRUE

\* async_set_unique_id raises if another flow is about the same id,
\* _abort_if_unique_id_configured if there is an entry with it.
Available(u, i) ==
  /\ entry[i] = None
  /\ \A f \in Flows \ {u} : flow[f].id # i

Asking(i, user) == [Closed EXCEPT !.at = "login", !.id = i, !.user = user]

SubmitPassword(u, n) ==
  /\ flow[u].at = "password"
  /\ flow' = [flow EXCEPT ![u] = IF Available(u, Lower[n])
                                THEN Asking(Lower[n], Lower[n]) ELSE Closed]
  /\ UNCHANGED entry

\* A reauthentication takes the name from the entry.
SubmitReauth(i) ==
  /\ flow[i].at = "password"
  /\ flow' = [flow EXCEPT ![i] = Asking(i, entry[i].user)]
  /\ UNCHANGED entry

-----------------------------------------------------------------------------
(* login_with_password_failover. *)

\* The form is shown again.
Show(f, step, err, answered) ==
  flow' = [flow EXCEPT ![f].at = step, ![f].err = err, ![f].answered = answered]

\* Variant: the flow does not ask for a second factor.
FinishAnyway(full) == TRUE

\* scopes_need_2fa.
Complete(full) == full

\* Home Assistant writes the entry after _finish_login, and the flow is over.
Finish(f, session) ==
  /\ entry' = [entry EXCEPT ![flow[f].id] = [user |-> flow[f].user, session |-> session]]
  /\ flow' = [flow EXCEPT ![f] = Closed]

\* Proton accepts the password, and may want a second factor.
LogsIn(f, full) ==
  /\ flow[f].at = "login"
  /\ Complete(full)
  /\ Finish(f, [of |-> flow[f].user, full |-> full])

TwoFactorRequired(f, full) ==
  /\ flow[f].at = "login"
  /\ ~Complete(full)
  /\ flow' = [flow EXCEPT ![f].at = "two_factor", ![f].answered = TRUE,
                         ![f].pending = [of |-> flow[f].user, full |-> full]]
  /\ UNCHANGED entry

\* Proton refuses with a code of its own, the proof of one side does not
\* satisfy the other, or the answer lacks a token; or it lacks something else.
PasswordFails(f) ==
  /\ flow[f].at = "login"
  /\ \E err \in {"invalid_auth", "unknown"} : Show(f, "password", err, TRUE)
  /\ UNCHANGED entry

\* Variants: only the first host is asked; one more than there are.
FirstHostOnly(f) == TRUE
LastHostLate(f) == flow[f].silent = Hosts

LastHost(f) == flow[f].silent + 1 = Hosts

\* A host that cannot be reached, or does not speak Proton's language.
NextHost(f) ==
  /\ flow[f].at = "login"
  /\ ~LastHost(f)
  /\ flow' = [flow EXCEPT ![f].silent = @ + 1]
  /\ UNCHANGED entry

CannotConnect(f) ==
  /\ flow[f].at = "login"
  /\ LastHost(f)
  /\ flow' = [flow EXCEPT ![f].at = "password", ![f].err = "cannot_connect", ![f].silent = @ + 1]
  /\ UNCHANGED entry

-----------------------------------------------------------------------------
(* async_step_two_factor and submit_two_factor. *)

SubmitCode(f) ==
  /\ flow[f].at = "two_factor"
  /\ flow' = [flow EXCEPT ![f].at = "code", ![f].err = "none"]
  /\ UNCHANGED entry

CodeAccepted(f, full) ==
  /\ flow[f].at = "code"
  /\ Complete(full)
  /\ Finish(f, [of |-> flow[f].pending.of, full |-> full])

\* Whatever goes wrong, be it the network: submit_two_factor says the code is.
CodeFails(f) ==
  /\ flow[f].at = "code"
  /\ Show(f, "two_factor", "invalid_auth", TRUE)
  /\ UNCHANGED entry

-----------------------------------------------------------------------------
\* What a flow does without writing an entry, and the end of a flow.
FlowStep(f) ==
  \/ PasswordFails(f) \/ NextHost(f) \/ CannotConnect(f) \/ SubmitCode(f) \/ CodeFails(f)
  \/ \E full \in BOOLEAN : TwoFactorRequired(f, full)

UserStep(u) ==
  \/ OpenFlow(u) \/ Abandon(u)
  \/ \E n \in Names : SubmitPassword(u, n)

FlowEnds(f) == \E full \in BOOLEAN : LogsIn(f, full) \/ CodeAccepted(f, full)

-----------------------------------------------------------------------------
(***************************************************************************)
(* Properties                                                              *)
(***************************************************************************)
\* An entry has a session of the account it is named after, and one that has
\* passed the second factor if the account wants one, through whatever steps,
\* errors and other flows it came about.
SessionUsable ==
  \A i \in Ids : entry[i] # None => entry[i] = [user |-> i, session |-> [of |-> i, full |-> TRUE]]

\* No two flows log in for the same entry, and none but its own for an entry
\* that is there: its end would replace the entry.
OneLoginPerEntry ==
  \A f \in Flows :
    /\ \A g \in Flows : flow[f].id # None /\ flow[f].id = flow[g].id => f = g
    /\ flow[f].id # None /\ entry[flow[f].id] # None => f = flow[f].id

\* The form blames the network only if no host could be reached, and the
\* password or an unexpected error only if a host has answered.
ErrorTold ==
  \A f \in Flows : flow[f].at = "password" =>
    /\ flow[f].err = "cannot_connect" => flow[f].silent = Hosts
    /\ flow[f].err \in {"invalid_auth", "unknown"} => flow[f].answered
==============================================================================
