---------------------------- MODULE LifecycleProofs ---------------------------
(***************************************************************************)
(* Proofs about Lifecycle with Login, for any number of names, entries,    *)
(* open flows, hosts and slots.                                            *)
(***************************************************************************)
EXTENDS Lifecycle, TLAPS

USE LoginAssumption, LifecycleAssumption

-----------------------------------------------------------------------------
(* Facts about single flows: what a step makes of one is a flow again.     *)

LEMMA ClosedType == Closed \in FlowStates
BY DEF Closed, FlowStates, NoSession, Sessions

LEMMA ClosedFields == Closed.at = "closed" /\ Closed.id = None /\ Closed.err = "none" /\ Closed.silent = 0
BY DEF Closed

LEMMA AskingType ==
  \A i, u \in Ids :
    /\ Asking(i, u) \in FlowStates
    /\ Asking(i, u).at = "login" /\ Asking(i, u).id = i /\ Asking(i, u).user = u /\ Asking(i, u).silent = 0
BY ClosedType, ClosedFields DEF Asking, FlowStates

\* The form for the password, before any password.
LEMMA FormType ==
  \A i \in Ids \cup {None} :
    LET next == [Closed EXCEPT !.at = "password", !.id = i]
    IN  next \in FlowStates /\ next.at = "password" /\ next.id = i /\ next.err = "none"
BY ClosedType, ClosedFields DEF FlowStates

LEMMA FinishType ==
  ASSUME LoginTypeOK, NEW f \in Flows, NEW session \in Sessions,
         flow[f].id \in Ids, flow[f].user \in Ids, Finish(f, session)
  PROVE  LoginTypeOK'
<1>1. flow' \in [Flows -> FlowStates]
  BY ClosedType DEF LoginTypeOK, Finish
<1>2. [user |-> flow[f].user, session |-> session] \in EntryData
  BY DEF EntryData
<1>3. entry' \in [Ids -> EntryData \cup {None}]
  BY <1>2 DEF LoginTypeOK, Finish
<1> QED BY <1>1, <1>3 DEF LoginTypeOK

-----------------------------------------------------------------------------
(* The inductive invariant.                                                *)

\* A flow that has taken a password logs in under its own id; a flow that
\* belongs to an entry has its id, and the entry is there.
FlowInv ==
  \A f \in Flows :
    /\ flow[f].at \in {"login", "two_factor", "code"} => flow[f].id \in Ids /\ flow[f].user = flow[f].id
    /\ flow[f].at \in {"two_factor", "code"} => flow[f].pending.of = flow[f].id
    /\ flow[f].at = "login" => flow[f].silent < Hosts
    /\ f \in Ids /\ Open(f) => flow[f].id = f /\ entry[f] # None
    /\ ~Open(f) => flow[f].id = None

LoginInv == LoginTypeOK /\ SessionUsable /\ OneLoginPerEntry /\ ErrorTold /\ FlowInv

\* From the registration until the platforms are unloaded the manager is
\* registered, and at no other time.
Registered == {"forward", "loaded", "reloading", "removing", "failed"}

EntryInv ==
  /\ \A i \in Ids : i \in managers <=> state[i] \in Registered
  /\ \A i \in Ids : state[i] # "not_loaded" => entry[i] # None

IInv == TypeOK /\ LoginInv /\ ServicesServe /\ ManagersRun /\ RefusedIsAsked /\ SensorsFollow /\ EntryInv
-----------------------------------------------------------------------------
(* Login: one flow moves on, or it ends.                                   *)

\* What may become of flow f without its entry being written.
Moves(f, next) ==
  /\ flow' = [flow EXCEPT ![f] = next]
  /\ entry' = entry
  /\ next.at \in {"login", "two_factor", "code"} => next.id \in Ids /\ next.user = next.id
  /\ next.at \in {"two_factor", "code"} => next.pending.of = next.id
  /\ next.at = "login" => next.silent < Hosts
  /\ f \in Ids /\ next.at # "closed" => next.id = f /\ entry[f] # None
  /\ next.at = "closed" => next.id = None
  /\ next.at = "password" /\ next.err = "cannot_connect" => next.silent = Hosts
  /\ next.at = "password" /\ next.err \in {"invalid_auth", "unknown"} => next.answered
  /\ next.id # None =>
       /\ \A g \in Flows : g # f => flow[g].id # next.id
       /\ entry[next.id] # None => f = next.id

LEMMA FlowMoves ==
  ASSUME LoginInv, NEW f \in Flows, NEW next \in FlowStates, Moves(f, next)
  PROVE  LoginInv'
<1>1. flow' = [flow EXCEPT ![f] = next] /\ entry' = entry
  BY DEF Moves
<1>2. flow'[f] = next /\ \A g \in Flows : g # f => flow'[g] = flow[g]
  BY <1>1 DEF LoginInv, LoginTypeOK
<1>3. LoginTypeOK'
  BY <1>1 DEF LoginInv, LoginTypeOK
<1>4. SessionUsable'
  BY <1>1 DEF LoginInv, SessionUsable
<1>5. OneLoginPerEntry'
  BY <1>1, <1>2 DEF LoginInv, OneLoginPerEntry, Moves
<1>6. ErrorTold'
  BY <1>2 DEF LoginInv, ErrorTold, Moves
<1>7. FlowInv'
  BY <1>1, <1>2 DEF LoginInv, FlowInv, Moves, Open
<1> QED BY <1>3, <1>4, <1>5, <1>6, <1>7 DEF LoginInv

\* A flow that keeps its id keeps it to itself.
LEMMA OwnId ==
  ASSUME LoginInv, NEW f \in Flows, flow[f].id # None
  PROVE  /\ \A g \in Flows : g # f => flow[g].id # flow[f].id
         /\ entry[flow[f].id] # None => f = flow[f].id
BY DEF LoginInv, OneLoginPerEntry

LEMMA UserFlowIsNoId == \A u \in UserFlows : u \in Flows /\ u \notin Ids
BY DEF Flows

LEMMA UserSteps ==
  ASSUME LoginInv, NEW u \in UserFlows, UserStep(u)
  PROVE  LoginInv'
<1> u \in Flows /\ u \notin Ids
  BY UserFlowIsNoId
<1>1. CASE OpenFlow(u)
  <2> DEFINE next == [Closed EXCEPT !.at = "password"]
  <2>1. next \in FlowStates /\ next.at = "password" /\ next.id = None /\ next.err = "none"
    BY ClosedType, ClosedFields DEF FlowStates
  <2>2. flow' = [flow EXCEPT ![u] = next] /\ entry' = entry
    BY <1>1 DEF OpenFlow
  <2> HIDE DEF next
  <2>3. Moves(u, next)
    BY <2>1, <2>2 DEF Moves
  <2> QED BY <2>1, <2>3, FlowMoves
<1>2. CASE Abandon(u)
  <2>1. Moves(u, Closed)
    BY <1>2, ClosedFields DEF Abandon, Moves
  <2> QED BY <2>1, ClosedType, FlowMoves
<1>3. ASSUME NEW n \in Names, SubmitPassword(u, n)
      PROVE  LoginInv'
  <2>1. Lower[n] \in Ids /\ Lower[n] # None
    OBVIOUS
  <2>2. CASE Available(u, Lower[n])
    <3> DEFINE next == Asking(Lower[n], Lower[n])
    <3>1. next \in FlowStates
      BY <2>1, AskingType
    <3>2. flow' = [flow EXCEPT ![u] = next] /\ entry' = entry
      BY <1>3, <2>2 DEF SubmitPassword
    <3>3. next.at = "login" /\ next.id = Lower[n] /\ next.user = Lower[n] /\ next.silent = 0
      BY <2>1, AskingType
    <3>4. entry[Lower[n]] = None /\ \A g \in Flows : g # u => flow[g].id # Lower[n]
      BY <2>2 DEF Available
    <3>5. Moves(u, next)
      BY <2>1, <3>2, <3>3, <3>4 DEF Moves
    <3> QED BY <3>1, <3>5, FlowMoves
  <2>3. CASE ~Available(u, Lower[n])
    <3>1. Moves(u, Closed)
      BY <1>3, <2>3, ClosedFields DEF SubmitPassword, Moves
    <3> QED BY <3>1, ClosedType, FlowMoves
  <2> QED BY <2>2, <2>3
<1> QED BY <1>1, <1>2, <1>3 DEF UserStep

LEMMA ReauthSteps ==
  ASSUME LoginInv, NEW i \in Ids, SubmitReauth(i)
  PROVE  LoginInv'
<1> DEFINE next == Asking(i, entry[i].user)
<1>1. i \in Flows /\ flow[i].id = i /\ entry[i] # None
  BY DEF Flows, LoginInv, FlowInv, SubmitReauth, Open
<1>2. entry[i].user = i
  <2>1. entry[i] = [user |-> i, session |-> [of |-> i, full |-> TRUE]]
    BY <1>1 DEF LoginInv, SessionUsable
  <2> QED BY <2>1
<1>3. next \in FlowStates
  BY <1>2, AskingType
<1>4. next.at = "login" /\ next.id = i /\ next.user = i /\ next.silent = 0
  BY <1>2, AskingType
<1>5. flow' = [flow EXCEPT ![i] = next] /\ entry' = entry
  BY DEF SubmitReauth
<1>6. Moves(i, next)
  BY <1>1, <1>4, <1>5, OwnId DEF Moves
<1> QED BY <1>1, <1>3, <1>6, FlowMoves

LEMMA FlowSteps ==
  ASSUME LoginInv, NEW f \in Flows, FlowStep(f)
  PROVE  LoginInv'
<1>1. flow[f] \in FlowStates
  BY DEF LoginInv, LoginTypeOK
<1>2. flow[f].at \in {"login", "two_factor", "code"}
  BY DEF FlowStep, PasswordFails, NextHost, CannotConnect, SubmitCode, CodeFails, TwoFactorRequired
<1>3. flow[f].id \in Ids /\ flow[f].user = flow[f].id /\ flow[f].id # None
  BY <1>2 DEF LoginInv, FlowInv
<1>4. f \in Ids => flow[f].id = f /\ entry[f] # None
  BY <1>2 DEF LoginInv, FlowInv, Open
<1>5. flow[f].at \in {"two_factor", "code"} => flow[f].pending.of = flow[f].id
  BY DEF LoginInv, FlowInv
<1>6. flow \in [Flows -> FlowStates]
  BY DEF LoginInv, LoginTypeOK
\* It is enough that the next state keeps the id.
<1>7. ASSUME NEW next \in FlowStates, flow' = [flow EXCEPT ![f] = next], entry' = entry,
             next.id = flow[f].id, next.user = flow[f].user, next.at # "closed",
             next.at \in {"two_factor", "code"} => next.pending.of = next.id,
             next.at = "login" => next.silent < Hosts,
             next.at = "password" /\ next.err = "cannot_connect" => next.silent = Hosts,
             next.at = "password" /\ next.err \in {"invalid_auth", "unknown"} => next.answered
      PROVE  LoginInv'
  <2>1. Moves(f, next)
    BY <1>3, <1>4, <1>7, OwnId DEF Moves
  <2> QED BY <2>1, FlowMoves
<1>8. CASE PasswordFails(f)
  <2> PICK err \in {"invalid_auth", "unknown"} : Show(f, "password", err, TRUE)
    BY <1>8 DEF PasswordFails
  <2> DEFINE next == [flow[f] EXCEPT !.at = "password", !.err = err, !.answered = TRUE]
  <2>1. next \in FlowStates
    BY <1>1 DEF FlowStates
  <2>2. flow' = [flow EXCEPT ![f] = next] /\ entry' = entry
    BY <1>6, <1>8 DEF PasswordFails, Show
  <2> QED BY <1>1, <1>7, <2>1, <2>2 DEF FlowStates
<1>9. CASE NextHost(f)
  <2> DEFINE next == [flow[f] EXCEPT !.silent = @ + 1]
  <2>0. flow[f].silent + 1 \in 0 .. Hosts /\ flow[f].silent + 1 < Hosts
    BY <1>1, <1>9 DEF LoginInv, FlowInv, FlowStates, NextHost, LastHost
  <2>1. next \in FlowStates
    BY <1>1, <2>0 DEF FlowStates
  <2>2. flow' = [flow EXCEPT ![f] = next] /\ entry' = entry
    BY <1>6, <1>9 DEF NextHost
  <2>3. next.at = "login" /\ next.silent < Hosts
    BY <1>1, <1>9, <2>0 DEF NextHost, FlowStates
  <2> QED BY <1>1, <1>7, <2>1, <2>2, <2>3 DEF FlowStates
<1>10. CASE CannotConnect(f)
  <2> DEFINE next == [flow[f] EXCEPT !.at = "password", !.err = "cannot_connect", !.silent = @ + 1]
  <2>0. flow[f].silent + 1 \in 0 .. Hosts
    BY <1>10 DEF CannotConnect, LastHost
  <2>1. next \in FlowStates
    BY <1>1, <2>0 DEF FlowStates
  <2>2. flow' = [flow EXCEPT ![f] = next] /\ entry' = entry
    BY <1>6, <1>10 DEF CannotConnect
  <2>3. next.silent = Hosts /\ next.err = "cannot_connect"
    BY <1>1, <1>10 DEF CannotConnect, LastHost, FlowStates
  <2> QED BY <1>1, <1>7, <2>1, <2>2, <2>3 DEF FlowStates
<1>11. CASE SubmitCode(f)
  <2> DEFINE next == [flow[f] EXCEPT !.at = "code", !.err = "none"]
  <2>1. next \in FlowStates
    BY <1>1 DEF FlowStates
  <2>2. flow' = [flow EXCEPT ![f] = next] /\ entry' = entry
    BY <1>6, <1>11 DEF SubmitCode
  <2>3. next.pending.of = next.id
    BY <1>1, <1>5, <1>11 DEF SubmitCode, FlowStates
  <2> QED BY <1>1, <1>7, <2>1, <2>2, <2>3 DEF FlowStates
<1>12. CASE CodeFails(f)
  <2> DEFINE next == [flow[f] EXCEPT !.at = "two_factor", !.err = "invalid_auth", !.answered = TRUE]
  <2>1. next \in FlowStates
    BY <1>1 DEF FlowStates
  <2>2. flow' = [flow EXCEPT ![f] = next] /\ entry' = entry
    BY <1>6, <1>12 DEF CodeFails, Show
  <2>3. next.pending.of = next.id
    BY <1>1, <1>5, <1>12 DEF CodeFails, FlowStates
  <2> QED BY <1>1, <1>7, <2>1, <2>2, <2>3 DEF FlowStates
<1>13. ASSUME NEW full \in BOOLEAN, TwoFactorRequired(f, full)
       PROVE  LoginInv'
  <2> DEFINE session == [of |-> flow[f].user, full |-> full]
             next == [flow[f] EXCEPT !.at = "two_factor", !.answered = TRUE, !.pending = session]
  <2>1. session \in Sessions
    BY <1>3 DEF Sessions
  <2>2. next \in FlowStates
    BY <1>1, <2>1 DEF FlowStates
  <2>3. flow' = [flow EXCEPT ![f] = next] /\ entry' = entry
    BY <1>6, <1>13 DEF TwoFactorRequired
  <2>4. next.pending.of = next.id /\ next.at = "two_factor"
    BY <1>1, <1>3 DEF FlowStates
  <2> QED BY <1>1, <1>7, <2>2, <2>3, <2>4 DEF FlowStates
<1> QED BY <1>8, <1>9, <1>10, <1>11, <1>12, <1>13 DEF FlowStep

\* The session that a flow ends with.
LEMMA EndsWith ==
  ASSUME LoginInv, NEW f \in Flows, FlowEnds(f)
  PROVE  /\ flow[f].id \in Ids /\ flow[f].user = flow[f].id /\ Open(f)
         /\ Finish(f, [of |-> flow[f].id, full |-> TRUE])
<1>1. flow[f].at \in {"login", "code"}
  BY DEF FlowEnds, LogsIn, CodeAccepted
<1>2. flow[f].id \in Ids /\ flow[f].user = flow[f].id /\ Open(f)
  BY <1>1 DEF LoginInv, FlowInv, Open
<1>3. PICK full \in BOOLEAN : LogsIn(f, full) \/ CodeAccepted(f, full)
  BY DEF FlowEnds
<1>4. full = TRUE
  BY <1>3 DEF LogsIn, CodeAccepted, Complete
<1>5. CASE LogsIn(f, full)
  BY <1>2, <1>4, <1>5 DEF LogsIn
<1>6. CASE CodeAccepted(f, full)
  <2>1. flow[f].pending.of = flow[f].id
    BY <1>6 DEF CodeAccepted, LoginInv, FlowInv
  <2> QED BY <1>2, <1>4, <1>6, <2>1 DEF CodeAccepted
<1> QED BY <1>2, <1>3, <1>5, <1>6

LEMMA Ends ==
  ASSUME LoginInv, NEW f \in Flows, FlowEnds(f)
  PROVE  LoginInv'
<1> DEFINE i == flow[f].id
           session == [of |-> i, full |-> TRUE]
<1>1. i \in Ids /\ flow[f].user = i /\ Finish(f, session)
  BY EndsWith
<1>2. session \in Sessions
  BY <1>1 DEF Sessions
<1>3. LoginTypeOK'
  BY <1>1, <1>2, FinishType DEF LoginInv
<1>4. /\ entry'[i] = [user |-> i, session |-> session] /\ entry'[i] # None
      /\ \A j \in Ids : j # i => entry'[j] = entry[j]
  <2>1. entry'[i] = [user |-> i, session |-> session] /\ \A j \in Ids : j # i => entry'[j] = entry[j]
    BY <1>1 DEF Finish, LoginInv, LoginTypeOK
  <2>2. entry'[i] \in EntryData
    BY <1>1, <1>2, <2>1 DEF EntryData
  <2> QED BY <2>1, <2>2
<1>5. flow'[f] = Closed /\ \A g \in Flows : g # f => flow'[g] = flow[g]
  BY <1>1 DEF Finish, LoginInv, LoginTypeOK
<1>6. Closed.at = "closed" /\ Closed.id = None
  BY ClosedFields
<1>7. \A g \in Flows : g # f => flow[g].id # i
  BY <1>1, OwnId
<1>8. SessionUsable'
  BY <1>4 DEF LoginInv, SessionUsable
<1>9. OneLoginPerEntry'
  <2> SUFFICES ASSUME NEW g \in Flows
               PROVE  /\ \A h \in Flows : flow'[g].id # None /\ flow'[g].id = flow'[h].id => g = h
                      /\ flow'[g].id # None /\ entry'[flow'[g].id] # None => g = flow'[g].id
    BY DEF OneLoginPerEntry
  <2>1. CASE g = f
    BY <2>1, <1>5, <1>6
  <2>2. CASE g # f
    <3>1. flow'[g] = flow[g] /\ flow[g].id # i
      BY <1>5, <1>7, <2>2
    <3>2. flow[g].id \in Ids \cup {None}
      BY DEF LoginInv, LoginTypeOK, FlowStates
    <3>3. flow[g].id # None => entry'[flow[g].id] = entry[flow[g].id]
      BY <1>4, <3>1, <3>2
    <3> QED BY <1>5, <1>6, <3>1, <3>3 DEF LoginInv, OneLoginPerEntry
  <2> QED BY <2>1, <2>2
<1>10. ErrorTold'
  BY <1>5, <1>6 DEF LoginInv, ErrorTold
<1>11. FlowInv'
  BY <1>1, <1>4, <1>5, <1>6 DEF LoginInv, FlowInv, Open
<1> QED BY <1>3, <1>8, <1>9, <1>10, <1>11 DEF LoginInv

\* An entry is removed, with its flow.
LEMMA Removed ==
  ASSUME LoginInv, NEW i \in Ids,
         entry' = [entry EXCEPT ![i] = None], flow' = [flow EXCEPT ![i] = Closed]
  PROVE  LoginInv'
<1>1. i \in Flows
  BY DEF Flows
<1>2. LoginTypeOK'
  BY <1>1, ClosedType DEF LoginInv, LoginTypeOK
<1>3. entry'[i] = None /\ \A j \in Ids : j # i => entry'[j] = entry[j]
  BY DEF LoginInv, LoginTypeOK
<1>4. flow'[i] = Closed /\ \A g \in Flows : g # i => flow'[g] = flow[g]
  BY <1>1 DEF LoginInv, LoginTypeOK
<1>5. Closed.at = "closed" /\ Closed.id = None
  BY ClosedFields
<1>6. SessionUsable'
  BY <1>3 DEF LoginInv, SessionUsable
<1>7. OneLoginPerEntry'
  <2>1. \A g \in Flows : flow[g].id \in Ids \cup {None}
    BY DEF LoginInv, LoginTypeOK, FlowStates
  <2> QED BY <1>3, <1>4, <1>5, <2>1 DEF LoginInv, OneLoginPerEntry
<1>8. ErrorTold'
  BY <1>4, <1>5 DEF LoginInv, ErrorTold
<1>9. FlowInv'
  BY <1>3, <1>4, <1>5 DEF LoginInv, FlowInv, Open
<1> QED BY <1>2, <1>6, <1>7, <1>8, <1>9 DEF LoginInv
-----------------------------------------------------------------------------
(* The steps of Next.                                                      *)

\* A step within a flow closes none and writes no entry.
LEMMA FlowStaysOpen ==
  ASSUME LoginInv, NEW f \in Flows, FlowStep(f)
  PROVE  entry' = entry /\ \A i \in Ids : Open(i) => Open(i)'
<1>1. flow \in [Flows -> FlowStates] /\ flow[f] \in FlowStates
  BY DEF LoginInv, LoginTypeOK
<1>2. entry' = entry
  BY DEF FlowStep, PasswordFails, NextHost, CannotConnect, SubmitCode, CodeFails, TwoFactorRequired
<1>3. flow'[f].at \in {"password", "login", "two_factor", "code"}
  <2>1. CASE PasswordFails(f) \/ CodeFails(f)
    BY <1>1, <2>1 DEF PasswordFails, CodeFails, Show, FlowStates
  <2>2. CASE NextHost(f) \/ CannotConnect(f)
    BY <1>1, <2>2 DEF NextHost, CannotConnect, FlowStates
  <2>3. CASE SubmitCode(f)
    BY <1>1, <2>3 DEF SubmitCode, FlowStates
  <2>4. CASE \E full \in BOOLEAN : TwoFactorRequired(f, full)
    BY <1>1, <2>4 DEF TwoFactorRequired, FlowStates
  <2> QED BY <2>1, <2>2, <2>3, <2>4 DEF FlowStep
<1>4. \A g \in Flows : g # f => flow'[g] = flow[g]
  BY <1>1 DEF FlowStep, PasswordFails, NextHost, CannotConnect, SubmitCode, CodeFails, TwoFactorRequired, Show
<1> QED BY <1>2, <1>3, <1>4 DEF Open, Flows

LEMMA InitInv == Init => IInv
<1> SUFFICES ASSUME Init PROVE IInv
  OBVIOUS
<1> USE DEF Init, LoginInit
<1>1. LoginTypeOK
  BY ClosedType DEF LoginTypeOK
<1>2. TypeOK
  BY <1>1 DEF TypeOK, States
<1>3. SessionUsable
  BY DEF SessionUsable
<1>4. \A f \in Flows : flow[f].at = "closed" /\ flow[f].id = None
  BY ClosedFields
<1>5. OneLoginPerEntry /\ ErrorTold /\ FlowInv
  BY <1>4 DEF OneLoginPerEntry, ErrorTold, FlowInv, Open
<1>6. ServicesServe /\ ManagersRun /\ RefusedIsAsked /\ SensorsFollow /\ EntryInv
  BY DEF ServicesServe, ManagersRun, RefusedIsAsked, SensorsFollow, EntryInv, Registered
<1> QED BY <1>1, <1>2, <1>3, <1>5, <1>6 DEF IInv, LoginInv

LEMMA AsksStep ==
  ASSUME IInv, Asks
  PROVE  IInv'
<1> USE DEF manage, show
<1>1. UNCHANGED <<state, managers, ghost, services, timers, reload, slots, sensors, updated>>
  BY DEF Asks
<1>2. LoginInv'
  BY FlowSteps, UserSteps, ReauthSteps DEF Asks, IInv
<1>3. entry' = entry /\ \A i \in Ids : Open(i) => Open(i)'
  <2>1. CASE \E f \in Flows : FlowStep(f)
    BY <2>1, FlowStaysOpen DEF IInv
  <2>2. ASSUME NEW u \in UserFlows, UserStep(u)
        PROVE  entry' = entry /\ \A i \in Ids : Open(i) => Open(i)'
    <3>1. entry' = entry /\ \E next : flow' = [flow EXCEPT ![u] = next]
      BY <2>2 DEF UserStep, OpenFlow, Abandon, SubmitPassword
    <3>2. \A i \in Ids : flow'[i] = flow[i]
      BY <3>1, UserFlowIsNoId DEF IInv, LoginInv, LoginTypeOK, Flows
    <3> QED BY <3>1, <3>2 DEF Open
  <2>3. ASSUME NEW i \in Ids, SubmitReauth(i)
        PROVE  entry' = entry /\ \A j \in Ids : Open(j) => Open(j)'
    <3>1. Asking(i, entry[i].user).at = "login"
      BY DEF Asking
    <3>2. entry' = entry /\ flow' = [flow EXCEPT ![i] = Asking(i, entry[i].user)]
      BY <2>3 DEF SubmitReauth
    <3> QED BY <3>1, <3>2 DEF Open, IInv, LoginInv, LoginTypeOK, Flows
  <2> QED BY <2>1, <2>2, <2>3 DEF Asks
<1>4. TypeOK'
  BY <1>1, <1>2 DEF IInv, TypeOK, LoginInv
<1>5. ServicesServe' /\ ManagersRun' /\ SensorsFollow' /\ EntryInv'
  BY <1>1, <1>3 DEF IInv, ServicesServe, ManagersRun, SensorsFollow, EntryInv
<1>6. RefusedIsAsked'
  BY <1>1, <1>3 DEF IInv, RefusedIsAsked
<1> QED BY <1>2, <1>4, <1>5, <1>6 DEF IInv

LEMMA FlowDoneStep ==
  ASSUME IInv, NEW f \in Flows, FlowDone(f)
  PROVE  IInv'
<1> DEFINE i == flow[f].id
           session == [of |-> i, full |-> TRUE]
<1> USE DEF manage
<1>0. LoginInv /\ FlowEnds(f)
  BY DEF IInv, FlowDone
<1>1. i \in Ids /\ flow[f].user = i /\ Finish(f, session)
  BY <1>0, EndsWith
<1>2. LoginInv'
  BY <1>0, Ends
<1>3. /\ UNCHANGED <<state, managers, ghost, services, timers, sensors>>
      /\ reload' = IF entry[i] = None THEN reload ELSE reload \cup {i}
      /\ slots' = [slots EXCEPT ![i] = {}]
      /\ updated' = updated \cup (Listening \cap {i})
  BY DEF FlowDone
<1>4. TypeOK'
  BY <1>1, <1>2, <1>3 DEF IInv, TypeOK, LoginInv, Listening
<1>5. ServicesServe' /\ ManagersRun'
  BY <1>3 DEF IInv, ServicesServe, ManagersRun
<1>6. RefusedIsAsked'
  <2> SUFFICES ASSUME NEW j \in Ids, state[j] = "refused"
               PROVE  Open(j)' \/ j \in reload'
    BY <1>3 DEF RefusedIsAsked
  <2>1. Open(j) \/ j \in reload
    BY DEF IInv, RefusedIsAsked
  <2>2. CASE j \in reload
    BY <1>3, <2>2
  <2>3. CASE Open(j) /\ f # j
    <3>1. flow'[j] = flow[j]
      BY <1>1, <2>3 DEF Finish, LoginInv, LoginTypeOK, IInv, Flows
    <3> QED BY <2>3, <3>1 DEF Open
  <2>4. CASE Open(j) /\ f = j
    BY <1>3, <2>4 DEF IInv, LoginInv, FlowInv
  <2> QED BY <2>1, <2>2, <2>3, <2>4
<1>7. SensorsFollow'
  BY <1>3 DEF IInv, SensorsFollow, TypeOK
<1>8. EntryInv'
  <2>1. \A j \in Ids : entry[j] # None => entry'[j] # None
    <3>1. [user |-> i, session |-> session] \in EntryData
      BY <1>1 DEF EntryData, Sessions
    <3> QED BY <1>1, <3>1 DEF Finish, IInv, LoginInv, LoginTypeOK
  <2> QED BY <1>3, <2>1 DEF IInv, EntryInv
<1> QED BY <1>2, <1>4, <1>5, <1>6, <1>7, <1>8 DEF IInv

\* Every other step leaves flows and entries alone, opens a flow, or removes
\* an entry.
LEMMA SetupSteps ==
  ASSUME IInv, NEW i \in Ids,
         Start(i) \/ SetupBreaks(i) \/ Register(i) \/ Forwarded(i) \/ SyncSensors(i) \/ Reload(i)
           \/ (\E active \in SUBSET Slots : Update(i, active))
  PROVE  IInv'
<1> USE DEF manage, show, login
<1>1. UNCHANGED <<flow, entry>>
  BY DEF Start, SetupBreaks, Register, Forwarded, SyncSensors, Reload, Update
<1>2. LoginInv'
  BY <1>1 DEF IInv, LoginInv, LoginTypeOK, SessionUsable, OneLoginPerEntry, ErrorTold, FlowInv, Open
<1>3. \A j \in Ids : Open(j)' <=> Open(j)
  BY <1>1 DEF Open
<1> USE DEF IInv, TypeOK, States, To
<1>4. CASE Start(i)
  BY <1>1, <1>2, <1>3, <1>4 DEF Start, LoginInv, ServicesServe, ManagersRun, RefusedIsAsked, SensorsFollow, EntryInv, Registered
<1>5. CASE SetupBreaks(i)
  BY <1>1, <1>2, <1>3, <1>5 DEF SetupBreaks, LoginInv, ServicesServe, ManagersRun, RefusedIsAsked, SensorsFollow, EntryInv, Registered
<1>6. CASE Register(i)
  BY <1>1, <1>2, <1>3, <1>6 DEF Register, LoginInv, ServicesServe, ManagersRun, RefusedIsAsked, SensorsFollow, EntryInv, Registered
<1>7. CASE Forwarded(i)
  BY <1>1, <1>2, <1>3, <1>7 DEF Forwarded, LoginInv, ServicesServe, ManagersRun, RefusedIsAsked, SensorsFollow, EntryInv, Registered
<1>8. CASE SyncSensors(i)
  BY <1>1, <1>2, <1>3, <1>8 DEF SyncSensors, LoginInv, ServicesServe, ManagersRun, RefusedIsAsked, SensorsFollow, EntryInv, Registered
<1>9. CASE Reload(i)
  <2>1. TypeOK'
    BY <1>1, <1>2, <1>9 DEF Reload, BeginUnload, LoginInv
  <2>2. ServicesServe' /\ ManagersRun'
    BY <1>9 DEF Reload, BeginUnload, ServicesServe, ManagersRun, EntryInv, Registered
  <2>3. RefusedIsAsked'
    BY <1>3, <1>9 DEF Reload, BeginUnload, RefusedIsAsked
  <2>4. SensorsFollow' /\ EntryInv'
    BY <1>1, <1>9 DEF Reload, BeginUnload, SensorsFollow, EntryInv, Registered
  <2> QED BY <1>2, <2>1, <2>2, <2>3, <2>4
<1>10. ASSUME NEW active \in SUBSET Slots, Update(i, active)
       PROVE  IInv'
  <2>1. TypeOK'
    BY <1>1, <1>2, <1>10 DEF Update, LoginInv
  <2>2. ServicesServe' /\ ManagersRun' /\ EntryInv'
    BY <1>1, <1>10 DEF Update, ServicesServe, ManagersRun, EntryInv
  <2>3. RefusedIsAsked'
    BY <1>3, <1>10 DEF Update, RefusedIsAsked
  <2>4. SensorsFollow'
    BY <1>10 DEF Update, SensorsFollow, Listening
  <2> QED BY <1>2, <2>1, <2>2, <2>3, <2>4
<1> QED BY <1>4, <1>5, <1>6, <1>7, <1>8, <1>9, <1>10

LEMMA RefusedStep ==
  ASSUME IInv, NEW i \in Ids, SetupRefused(i)
  PROVE  IInv'
<1> USE DEF manage, show
<1>1. /\ state[i] = "setup" /\ state' = [state EXCEPT ![i] = "refused"] /\ entry' = entry
      /\ UNCHANGED <<managers, ghost, services, timers, reload, slots, sensors, updated>>
  BY DEF SetupRefused, To
<1>2. i \in Flows /\ entry[i] # None
  BY <1>1 DEF IInv, EntryInv, Flows
<1>3. LoginInv' /\ Open(i)' /\ \A j \in Ids : Open(j) => Open(j)'
  <2>1. flow \in [Flows -> FlowStates]
    BY DEF IInv, LoginInv, LoginTypeOK
  <2>2. CASE Open(i)
    <3>1. flow' = flow
      BY <2>1, <2>2 DEF SetupRefused
    <3> QED BY <1>1, <2>2, <3>1
            DEF IInv, LoginInv, LoginTypeOK, SessionUsable, OneLoginPerEntry, ErrorTold, FlowInv, Open
  <2>3. CASE ~Open(i)
    <3> DEFINE next == [Closed EXCEPT !.at = "password", !.id = i]
    <3>1. next \in FlowStates /\ next.at = "password" /\ next.id = i /\ next.err = "none"
      BY FormType
    <3>2. flow' = [flow EXCEPT ![i] = next]
      BY <2>3 DEF SetupRefused
    <3> HIDE DEF next
    <3>3. \A g \in Flows : flow[g].id # i
      BY <1>2, <2>3 DEF IInv, LoginInv, OneLoginPerEntry, FlowInv
    <3>4. Moves(i, next)
      BY <1>1, <1>2, <3>1, <3>2, <3>3 DEF Moves
    <3>5. LoginInv'
      BY <1>2, <3>1, <3>4, FlowMoves DEF IInv
    <3>6. flow'[i] = next /\ \A j \in Ids : j # i => flow'[j] = flow[j]
      BY <1>2, <2>1, <3>2 DEF Flows
    <3> QED BY <3>1, <3>5, <3>6 DEF Open
  <2> QED BY <2>2, <2>3
<1>4. TypeOK'
  BY <1>1, <1>3 DEF IInv, TypeOK, LoginInv, States
<1>5. ServicesServe' /\ ManagersRun'
  BY <1>1 DEF IInv, ServicesServe, ManagersRun, TypeOK, EntryInv, Registered
<1>6. RefusedIsAsked'
  BY <1>1, <1>3 DEF IInv, RefusedIsAsked, TypeOK
<1>7. SensorsFollow' /\ EntryInv'
  BY <1>1, <1>2 DEF IInv, SensorsFollow, EntryInv, TypeOK, Registered
<1> QED BY <1>3, <1>4, <1>5, <1>6, <1>7 DEF IInv

\* What the removal of entry i leaves of the rest, whatever else it changes.
LEMMA DeleteStep ==
  ASSUME IInv, NEW i \in Ids, Delete(i), To(i, "not_loaded"),
         managers' = managers \ {i}, sensors' = [sensors EXCEPT ![i] = {}], updated' = updated \ {i},
         timers' \in {timers, timers \ {i}}, ghost' \in BOOLEAN, services' \in BOOLEAN, ServicesServe'
  PROVE  IInv'
<1>1. /\ entry' = [entry EXCEPT ![i] = None] /\ flow' = [flow EXCEPT ![i] = Closed]
      /\ reload' = reload \ {i} /\ slots' = [slots EXCEPT ![i] = {}]
      /\ state' = [state EXCEPT ![i] = "not_loaded"]
  BY DEF Delete, To
<1>2. LoginInv'
  BY <1>1, Removed DEF IInv
<1>3. \A j \in Ids : j # i => (Open(j)' <=> Open(j)) /\ entry'[j] = entry[j]
  BY <1>1 DEF Open, IInv, LoginInv, LoginTypeOK, Flows
<1>4. TypeOK'
  BY <1>1, <1>2 DEF IInv, TypeOK, LoginInv, States
<1>5. ManagersRun'
  BY <1>1 DEF IInv, ManagersRun, TypeOK
<1>6. RefusedIsAsked'
  BY <1>1, <1>3 DEF IInv, RefusedIsAsked, TypeOK
<1>7. SensorsFollow' /\ EntryInv'
  BY <1>1, <1>3 DEF IInv, SensorsFollow, EntryInv, TypeOK, Registered
<1> QED BY <1>2, <1>4, <1>5, <1>6, <1>7 DEF IInv

LEMMA UnloadSteps ==
  ASSUME IInv, NEW i \in Ids, Unloaded(i) \/ UnloadFails(i) \/ Remove(i)
  PROVE  IInv'
<1> USE DEF manage, show, login
\* Between two states in which flows and entries are the same.
<1>1. ASSUME UNCHANGED <<flow, entry>>
      PROVE  LoginInv' /\ \A j \in Ids : Open(j)' <=> Open(j)
  BY <1>1 DEF IInv, LoginInv, LoginTypeOK, SessionUsable, OneLoginPerEntry, ErrorTold, FlowInv, Open
<1>2. CASE Unloaded(i)
  <2>1. /\ services' = (services /\ (managers \ {i} # {} \/ ghost))
        /\ UNCHANGED <<ghost, timers>> /\ managers' = managers \ {i}
    BY <1>2 DEF Unloaded, UnloadServices
  <2>2. ServicesServe' /\ services' \in BOOLEAN
    BY <2>1, Zenon DEF IInv, ServicesServe, TypeOK
  <2>3. CASE state[i] = "removing"
    BY <1>2, <2>1, <2>2, <2>3, DeleteStep DEF Unloaded, IInv, TypeOK
  <2>4. CASE state[i] # "removing"
    <3>1. /\ state' = [state EXCEPT ![i] = "not_loaded"] /\ UNCHANGED <<flow, entry, reload, slots>>
          /\ sensors' = [sensors EXCEPT ![i] = {}] /\ updated' = updated \ {i}
      BY <1>2, <2>4 DEF Unloaded, To
    <3>2. TypeOK'
      BY <1>1, <2>1, <2>2, <3>1 DEF IInv, TypeOK, LoginInv, States
    <3>3. ManagersRun' /\ SensorsFollow' /\ EntryInv'
      BY <2>1, <3>1 DEF IInv, TypeOK, ManagersRun, SensorsFollow, EntryInv, Registered
    <3>4. RefusedIsAsked'
      BY <1>1, <3>1 DEF IInv, TypeOK, RefusedIsAsked
    <3> QED BY <1>1, <2>2, <3>1, <3>2, <3>3, <3>4 DEF IInv
  <2> QED BY <2>3, <2>4
<1>3. CASE UnloadFails(i)
  <2>1. i \in managers /\ services
    BY <1>3 DEF UnloadFails, IInv, EntryInv, Registered, ServicesServe
  <2>2. CASE state[i] = "removing"
    <3>1. ServicesServe'
      BY <1>3, <2>1, <2>2 DEF UnloadFails, ServicesServe
    <3> QED BY <1>3, <2>2, <3>1, DeleteStep DEF UnloadFails, IInv, TypeOK
  <2>3. CASE state[i] # "removing"
    <3>1. /\ state[i] = "reloading" /\ state' = [state EXCEPT ![i] = "failed"]
          /\ UNCHANGED <<flow, entry, managers, ghost, services, timers, reload, slots, sensors, updated>>
      BY <1>3, <2>3 DEF UnloadFails, To
    <3>2. TypeOK'
      BY <1>1, <3>1 DEF IInv, TypeOK, LoginInv, States
    <3>3. ServicesServe' /\ ManagersRun' /\ SensorsFollow' /\ EntryInv'
      BY <3>1 DEF IInv, TypeOK, ServicesServe, ManagersRun, SensorsFollow, EntryInv, Registered
    <3>4. RefusedIsAsked'
      BY <1>1, <3>1 DEF IInv, TypeOK, RefusedIsAsked
    <3> QED BY <1>1, <3>1, <3>2, <3>3, <3>4 DEF IInv
  <2> QED BY <2>2, <2>3
<1>4. CASE BeginUnload(i, "removing") /\ UNCHANGED <<login, reload>>
  <2>1. /\ state[i] = "loaded" /\ state' = [state EXCEPT ![i] = "removing"] /\ timers' = timers \ {i}
        /\ UNCHANGED <<flow, entry, managers, ghost, services, reload, slots, sensors, updated>>
    BY <1>4 DEF BeginUnload, To
  <2>2. TypeOK'
    BY <1>1, <2>1 DEF IInv, TypeOK, LoginInv, States
  <2>3. ServicesServe' /\ ManagersRun' /\ SensorsFollow' /\ EntryInv'
    BY <2>1 DEF IInv, TypeOK, ServicesServe, ManagersRun, SensorsFollow, EntryInv, Registered
  <2>4. RefusedIsAsked'
    BY <1>1, <2>1 DEF IInv, TypeOK, RefusedIsAsked
  <2> QED BY <1>1, <2>1, <2>2, <2>3, <2>4 DEF IInv
<1>5. CASE RemoveAtOnce(i)
  <2>1. /\ managers' = managers \ {i} /\ ghost' = (ghost \/ i \in managers)
        /\ To(i, "not_loaded") /\ sensors' = [sensors EXCEPT ![i] = {}] /\ updated' = updated \ {i}
        /\ timers' \in {timers, timers \ {i}}
    BY <1>5 DEF RemoveAtOnce
  <2>2. ghost' \in BOOLEAN
    <3>1. (i \in managers) \in BOOLEAN
      OBVIOUS
    <3> QED BY <2>1, <3>1, Zenon DEF IInv, TypeOK
  <2>3. ServicesServe'
    BY <1>5, <2>1 DEF RemoveAtOnce, ServicesServe, IInv, TypeOK
  <2> QED BY <1>5, <2>1, <2>2, <2>3, DeleteStep DEF RemoveAtOnce, IInv, TypeOK
<1> QED BY <1>2, <1>3, <1>4, <1>5 DEF Remove

LEMMA RestartStep == IInv /\ Restart => IInv'
<1> SUFFICES ASSUME IInv, Restart PROVE IInv'
  OBVIOUS
<1> USE DEF Restart
<1>1. \A f \in Flows : flow'[f].at = "closed" /\ flow'[f].id = None
  BY ClosedFields
<1>2. LoginTypeOK'
  BY ClosedType DEF IInv, LoginInv, LoginTypeOK
<1>3. LoginInv'
  BY <1>1, <1>2 DEF IInv, LoginInv, SessionUsable, OneLoginPerEntry, ErrorTold, FlowInv, Open
<1>4. TypeOK'
  BY <1>2 DEF IInv, TypeOK, States
<1>5. ServicesServe' /\ ManagersRun' /\ RefusedIsAsked' /\ SensorsFollow' /\ EntryInv'
  BY DEF ServicesServe, ManagersRun, RefusedIsAsked, SensorsFollow, EntryInv, Registered
<1> QED BY <1>3, <1>4, <1>5 DEF IInv

LEMMA StepInv == IInv /\ [Next]_vars => IInv'
<1> SUFFICES ASSUME IInv, [Next]_vars PROVE IInv'
  OBVIOUS
<1>1. CASE Next
  BY <1>1, AsksStep, FlowDoneStep, SetupSteps, RefusedStep, UnloadSteps, RestartStep DEF Next
<1>2. CASE UNCHANGED vars
  BY <1>2 DEF vars, login, manage, show, IInv, TypeOK, LoginInv, LoginTypeOK, SessionUsable,
    OneLoginPerEntry, ErrorTold, FlowInv, Open, ServicesServe, ManagersRun, RefusedIsAsked,
    SensorsFollow, EntryInv
<1> QED BY <1>1, <1>2

LEMMA Invariance == Spec => []IInv
BY InitInv, StepInv, PTL DEF Spec

-----------------------------------------------------------------------------
(* Theorems.                                                               *)

\* Flows, entries and everything Home Assistant keeps of them have their types.
THEOREM TypeCorrect == Spec => []TypeOK
<1>1. IInv => TypeOK
  BY DEF IInv
<1> QED BY <1>1, Invariance, PTL

\* Every entry has a complete session of the account it is named after
\* (_finish_login).
THEOREM SessionsUsable == Spec => []SessionUsable
<1>1. IInv => SessionUsable
  BY DEF IInv, LoginInv
<1> QED BY <1>1, Invariance, PTL

\* No two flows log in for one entry (async_set_unique_id), however many the
\* user has opened.
THEOREM OneLogin == Spec => []OneLoginPerEntry
<1>1. IInv => OneLoginPerEntry
  BY DEF IInv, LoginInv
<1> QED BY <1>1, Invariance, PTL

\* The form blames the network only after all hosts, for any number of them
\* (login_with_password_failover).
THEOREM ErrorsTold == Spec => []ErrorTold
<1>1. IInv => ErrorTold
  BY DEF IInv, LoginInv
<1> QED BY <1>1, Invariance, PTL

\* The services are there exactly while a manager is (async_setup_services,
\* async_unload_services), for any number of entries.
THEOREM ServicesFollowManagers == Spec => []ServicesServe
<1>1. IInv => ServicesServe
  BY DEF IInv
<1> QED BY <1>1, Invariance, PTL

\* A registered manager runs its timers (async_setup_entry), unless its entry
\* is being unloaded or that has failed.
THEOREM ManagersRunTimers == Spec => []ManagersRun
<1>1. IInv => ManagersRun
  BY DEF IInv
<1> QED BY <1>1, Invariance, PTL

\* A refused setup has a flow to log in (ConfigEntryAuthFailed) or a reload
\* coming.
THEOREM RefusalsAsk == Spec => []RefusedIsAsked
<1>1. IInv => RefusedIsAsked
  BY DEF IInv
<1> QED BY <1>1, Invariance, PTL

\* The sensors follow the stored slots (_async_sync_sensors), for any number.
THEOREM SensorsFollowSlots == Spec => []SensorsFollow
<1>1. IInv => SensorsFollow
  BY DEF IInv
<1> QED BY <1>1, Invariance, PTL
=============================================================================
