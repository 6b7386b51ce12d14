---------------------------- MODULE SessionProofs ----------------------------
(***************************************************************************)
(* Theorems about Session, for every number of instances, tokens, calls    *)
(* and faults: types; the session survives as long as no reload finds a    *)
(* job in flight and no failed setup leaves timers running; the refreshes  *)
(* alone never lose it, however instances overlap.                         *)
(***************************************************************************)
EXTENDS Session, TLAPS

\* An instance that something refers to has a token.
Equipped == \A m \in Managers : Free(m) \/ client[m] \in Tokens

\* The inductive invariant behind the types.
TypeInv == TypeOK /\ Equipped

\* Only the instance set up last works, and only while the entry is set up.
OneWorks ==
  /\ \A m \in Managers : m # current \/ state \in {"unloaded", "error"} => Free(m)
  /\ state = "setup" =>
       refresh[current] # "none" /\ provs[current] = 0 /\ current \notin timers

\* Proton accepts that instance's token, also while it is being set up.
TokenGood ==
  torn \/
  /\ state \in {"setup", "finish", "loaded"} => client[current] \in valid
  /\ stored \in valid \/ refresh[current] = "answered"

\* The timers of the instance set up last start at the end of a refresh.
Timed ==
  /\ state = "setup" => current \notin timers
  /\ state \in {"finish", "loaded"} => current \in timers

\* The inductive invariant behind SessionAlive.
SerialInv == TypeInv /\ Timed /\ (Leaked \/ (OneWorks /\ TokenGood))

\* A token that has just arrived is accepted and nobody else has it.
OnlyHere(m) ==
  /\ client[m] \in valid
  /\ stored # client[m]
  /\ \A k \in Managers : k # m => client[k] # client[m]

\* The inductive invariant behind NoTokenLost.
ArrivalInv ==
  /\ TypeInv
  /\ \A m \in Managers : refresh[m] = "answered" => OnlyHere(m)
  /\ stored \in valid \/ \E m \in Managers : refresh[m] = "answered"

-----------------------------------------------------------------------------
\* A new token is a token that Proton, the entry and the clients do not have.
LEMMA FreshIsNew ==
  ASSUME NEW n \in Fresh
  PROVE  n \in Tokens \ valid /\ n # stored /\ \A m \in Managers : client[m] # n
  BY DEF Fresh

\* The initial states satisfy the invariant of the types.
LEMMA TypeInit == Init => TypeInv
<1> SUFFICES ASSUME Init PROVE TypeInv
  OBVIOUS
<1>1. /\ client \in [Managers -> Tokens \cup {None}]
      /\ refresh \in [Managers -> {"none", "ask", "answered"}]
  BY DEF Init
<1>2. provs \in [Managers -> 0 .. MaxProvisions]
  BY ConstantsAssumption DEF Init
<1>3. TypeOK
  BY <1>1, <1>2 DEF Init, TypeOK
<1>4. Equipped
  BY DEF Init, Equipped, Free, Quiet
<1> QED BY <1>3, <1>4 DEF TypeInv

\* Counting a fault keeps the counter a number.
LEMMA FaultCounts == ASSUME TypeOK, Fault PROVE faults' \in Nat
  BY DEF TypeOK, Fault

\* Every step preserves it.
LEMMA TypeStep == TypeInv /\ [Next]_vars => TypeInv'
<1> SUFFICES ASSUME TypeInv, [Next]_vars PROVE TypeInv'
  OBVIOUS
<1> USE ConstantsAssumption DEF TypeInv, TypeOK, Equipped, Free, Quiet, entry, instance
<1>1. CASE FinishSetup
  BY <1>1, FaultCounts DEF FinishSetup
<1>2. CASE Reload
  BY <1>2 DEF Reload, StopTimers
<1>3. CASE Reauthenticate
  BY <1>3, FreshIsNew DEF Reauthenticate, StopTimers
<1>4. CASE Crash
  <2>1. /\ client' \in [Managers -> Tokens \cup {None}]
        /\ refresh' \in [Managers -> {"none", "ask", "answered"}]
        /\ provs' \in [Managers -> 0 .. MaxProvisions]
        /\ Equipped'
    BY <1>4 DEF Crash
  <2>2. torn' \in BOOLEAN /\ faults' \in Nat
    BY <1>4, FaultCounts DEF Crash
  <2> QED BY <1>4, <2>1, <2>2 DEF Crash
<1>5. CASE Revoke
  BY <1>5, FaultCounts DEF Revoke
<1>6. ASSUME NEW on \in BOOLEAN, SwitchEgress(on) PROVE TypeInv'
  BY <1>6 DEF SwitchEgress
<1>7. ASSUME NEW m \in Managers, Setup(m) PROVE TypeInv'
  BY <1>7 DEF Setup
<1>8. ASSUME NEW m \in Managers, Refresh(m) PROVE TypeInv'
  BY <1>8, FreshIsNew DEF Refresh
<1>9. ASSUME NEW m \in Managers, RefreshFails(m) PROVE TypeInv'
  BY <1>9 DEF RefreshFails, RaiseAuthFailed
<1>10. ASSUME NEW m \in Managers, RefreshLost(m) PROVE TypeInv'
  BY <1>10, FreshIsNew, FaultCounts DEF RefreshLost, RaiseAuthFailed
<1>11. ASSUME NEW m \in Managers, StoreTokens(m) PROVE TypeInv'
  BY <1>11 DEF StoreTokens
<1>12. ASSUME NEW m \in Managers, TimerFires(m) PROVE TypeInv'
  BY <1>12 DEF TimerFires
<1>13. ASSUME NEW m \in Managers, BeginProvision(m) PROVE TypeInv'
  BY <1>13 DEF BeginProvision
<1>14. ASSUME NEW m \in Managers, ProvisionJob(m) PROVE TypeInv'
  <2>1. provs[m] > 0 /\ provs' = [provs EXCEPT ![m] = @ - 1]
    BY <1>14 DEF ProvisionJob, StoreProvision, ProvisionFails, EndProvision
  <2>2. provs' \in [Managers -> 0 .. MaxProvisions] /\ client[m] \in Tokens
    BY <2>1
  <2>3. stored' \in Tokens /\ tunnels' \in BOOLEAN
    BY <1>14, <2>2 DEF ProvisionJob, StoreProvision, ProvisionFails
  <2>4. UNCHANGED <<valid, egress, state, current, client, refresh, timers, reauth, torn, faults>>
    BY <1>14 DEF ProvisionJob, StoreProvision, ProvisionFails
  <2>5. \A k \in Managers : provs[k] = 0 => provs'[k] = 0
    BY <2>1
  <2> QED BY <2>2, <2>3, <2>4, <2>5
<1>15. CASE UNCHANGED vars
  BY <1>15 DEF vars
<1> QED
  BY <1>1, <1>2, <1>3, <1>4, <1>5, <1>6, <1>7, <1>8, <1>9, <1>10, <1>11, <1>12, <1>13,
     <1>14, <1>15 DEF Next, RefreshJob

-----------------------------------------------------------------------------
\* Without overlapping instances a crash and a reload leave nothing running.
LEMMA SerialInit == Init => SerialInv
  BY TypeInit DEF Init, SerialInv, Timed, OneWorks, TokenGood, Free, Quiet

\* Every step leaves the timers of the instance set up last as they should be.
LEMMA TimedStep == TypeOK /\ Timed /\ [Next]_vars => Timed'
<1> SUFFICES ASSUME TypeOK, Timed, [Next]_vars PROVE Timed'
  OBVIOUS
<1> USE DEF TypeOK, Timed, entry, instance
<1>1. CASE Crash
  BY <1>1 DEF Crash
<1>2. CASE FinishSetup
  BY <1>2 DEF FinishSetup
<1>3. CASE Reload \/ Reauthenticate
  BY <1>3 DEF Reload, Reauthenticate
<1>4. ASSUME NEW m \in Managers, Setup(m) PROVE Timed'
  BY <1>4 DEF Setup, Free
<1>5. ASSUME NEW m \in Managers, Refresh(m) PROVE Timed'
  BY <1>5 DEF Refresh
<1>6. ASSUME NEW m \in Managers, RefreshFails(m) \/ RefreshLost(m) PROVE Timed'
  BY <1>6 DEF RefreshFails, RefreshLost, RaiseAuthFailed
<1>7. ASSUME NEW m \in Managers, StoreTokens(m) PROVE Timed'
  BY <1>7 DEF StoreTokens, InSetup
<1>8. CASE UNCHANGED <<timers, state, current>>
  BY <1>8
<1> QED
  BY <1>1, <1>2, <1>3, <1>4, <1>5, <1>6, <1>7, <1>8
     DEF Next, RefreshJob, Revoke, SwitchEgress, TimerFires, BeginProvision, ProvisionJob,
         StoreProvision, ProvisionFails, vars

\* Timers that a failed setup has left running stay until a crash, which says
\* whether the session is still there.
LEMMA LeakStays ==
  ASSUME TypeOK, Timed, Leaked, [Next]_vars
  PROVE  Leaked' \/ (OneWorks' /\ TokenGood')
<1> USE DEF Leaked, TypeOK, Timed, entry, instance
<1>0. PICK l \in timers : state \in {"finish", "loaded"} => l # current
  OBVIOUS
<1>1. CASE Crash
  <2>1. OneWorks'
    BY <1>1 DEF Crash, OneWorks, Free, Quiet
  <2>2. TokenGood'
    BY <1>1 DEF Crash, TokenGood
  <2> QED BY <2>1, <2>2
<1>2. CASE FinishSetup
  BY <1>0, <1>2 DEF FinishSetup
<1>3. CASE Reload
  <2>1. l \in timers' /\ state' = "unloaded"
    BY <1>0, <1>3 DEF Reload, StopTimers
  <2> QED BY <2>1
<1>4. CASE Reauthenticate
  <2>1. l \in timers' /\ state' = "unloaded"
    BY <1>0, <1>4 DEF Reauthenticate, StopTimers
  <2> QED BY <2>1
<1>5. ASSUME NEW m \in Managers, Setup(m) PROVE Leaked'
  <2>1. l \in timers' /\ state' = "setup"
    BY <1>0, <1>5 DEF Setup
  <2> QED BY <2>1
<1>6. ASSUME NEW m \in Managers, Refresh(m) PROVE Leaked'
  BY <1>0, <1>6 DEF Refresh
<1>7. ASSUME NEW m \in Managers, RefreshFails(m) \/ RefreshLost(m) PROVE Leaked'
  BY <1>0, <1>7 DEF RefreshFails, RefreshLost, RaiseAuthFailed, InSetup
<1>8. ASSUME NEW m \in Managers, StoreTokens(m) PROVE Leaked'
  <2>1. l \in timers' /\ current' = current
    BY <1>0, <1>8 DEF StoreTokens
  <2>2. state' \in {"finish", "loaded"} => l # current
    BY <1>0, <1>8 DEF StoreTokens, InSetup
  <2> QED BY <2>1, <2>2
<1>9. CASE UNCHANGED <<timers, state, current>>
  BY <1>0, <1>9
<1> QED
  BY <1>1, <1>2, <1>3, <1>4, <1>5, <1>6, <1>7, <1>8, <1>9
     DEF Next, RefreshJob, Revoke, SwitchEgress, TimerFires, BeginProvision, ProvisionJob,
         StoreProvision, ProvisionFails, vars

\* Every step preserves the invariant.
LEMMA SerialStep == ASSUME ~Overlap PROVE SerialInv /\ [Next]_vars => SerialInv'
<1> SUFFICES ASSUME TypeInv, Timed, OneWorks, TokenGood, [Next]_vars
             PROVE  Leaked' \/ (OneWorks' /\ TokenGood')
  BY TypeStep, TimedStep, LeakStays DEF SerialInv, TypeInv
<1> USE DEF TypeInv, TypeOK, OneWorks, TokenGood, Free, Quiet, entry, instance
<1>1. CASE FinishSetup
  <2>1. CASE state' = "loaded"
    BY <1>1, <2>1 DEF FinishSetup
  <2>2. CASE state' = "error"
    BY <1>1, <2>2 DEF FinishSetup, Leaked, Timed
  <2> QED BY <1>1, <2>1, <2>2 DEF FinishSetup
<1>2. CASE Reload
  BY <1>2 DEF Reload, StopTimers, MayReload
<1>3. CASE Reauthenticate
  BY <1>3 DEF Reauthenticate, StopTimers, MayReload
<1>4. CASE Crash
  BY <1>4 DEF Crash
<1>5. CASE Revoke
  BY <1>5 DEF Revoke
<1>6. ASSUME NEW on \in BOOLEAN, SwitchEgress(on) PROVE OneWorks' /\ TokenGood'
  BY <1>6 DEF SwitchEgress
<1>7. ASSUME NEW m \in Managers, Setup(m) PROVE OneWorks' /\ TokenGood'
  BY <1>7 DEF Setup
<1>8. ASSUME NEW m \in Managers, Refresh(m) PROVE OneWorks' /\ TokenGood'
  BY <1>8 DEF Refresh
<1>9. ASSUME NEW m \in Managers, RefreshFails(m) PROVE OneWorks' /\ TokenGood'
  BY <1>9 DEF RefreshFails, RaiseAuthFailed, InSetup
<1>10. ASSUME NEW m \in Managers, RefreshLost(m) PROVE OneWorks' /\ TokenGood'
  BY <1>10 DEF RefreshLost, RaiseAuthFailed, InSetup
<1>11. ASSUME NEW m \in Managers, StoreTokens(m) PROVE OneWorks' /\ TokenGood'
  BY <1>11 DEF StoreTokens, InSetup
<1>12. ASSUME NEW m \in Managers, TimerFires(m) PROVE OneWorks' /\ TokenGood'
  BY <1>12 DEF TimerFires
<1>13. ASSUME NEW m \in Managers, BeginProvision(m) PROVE OneWorks' /\ TokenGood'
  BY <1>13 DEF BeginProvision
<1>14. ASSUME NEW m \in Managers, ProvisionJob(m) PROVE OneWorks' /\ TokenGood'
  BY <1>14 DEF ProvisionJob, StoreProvision, ProvisionFails, EndProvision
<1>15. CASE UNCHANGED vars
  BY <1>15 DEF vars
<1> QED
  BY <1>1, <1>2, <1>3, <1>4, <1>5, <1>6, <1>7, <1>8, <1>9, <1>10, <1>11, <1>12, <1>13,
     <1>14, <1>15 DEF Next, RefreshJob

-----------------------------------------------------------------------------
\* Without provisioning and faults, initially nothing is on its way.
LEMMA ArrivalInit == Init => ArrivalInv
  BY TypeInit DEF Init, ArrivalInv

\* Every step preserves the invariant.
LEMMA ArrivalStep ==
  ASSUME MaxProvisions = 0, MaxFaults = 0
  PROVE  ArrivalInv /\ [Next]_vars => ArrivalInv'
<1> SUFFICES ASSUME ArrivalInv, [Next]_vars
             PROVE  /\ \A m \in Managers : refresh'[m] = "answered" => OnlyHere(m)'
                    /\ stored' \in valid' \/ \E m \in Managers : refresh'[m] = "answered"
  BY TypeStep DEF ArrivalInv
<1>0. TypeInv
  BY DEF ArrivalInv
<1>f. ~Fault
  BY <1>0 DEF Fault, TypeInv, TypeOK
<1> USE <1>0 DEF ArrivalInv, OnlyHere, TypeInv, TypeOK, entry, instance
<1>1. CASE FinishSetup
  BY <1>1 DEF FinishSetup
<1>2. CASE Reload
  BY <1>2 DEF Reload
<1>3. CASE Reauthenticate
  BY <1>3, FreshIsNew DEF Reauthenticate
<1>4. CASE Crash \/ Revoke
  BY <1>4, <1>f DEF Crash, Revoke
<1>5. ASSUME NEW on \in BOOLEAN, SwitchEgress(on) PROVE UNCHANGED <<valid, stored, instance>>
  BY <1>5 DEF SwitchEgress
<1>6. ASSUME NEW m \in Managers, Setup(m) PROVE ArrivalInv'
  BY <1>6, TypeStep DEF Setup, Free, Quiet
<1>7. ASSUME NEW m \in Managers, Refresh(m) PROVE ArrivalInv'
  BY <1>7, FreshIsNew, TypeStep DEF Refresh
<1>8. ASSUME NEW m \in Managers, RefreshFails(m) PROVE ArrivalInv'
  BY <1>8, TypeStep DEF RefreshFails, RaiseAuthFailed
<1>9. ASSUME NEW m \in Managers, RefreshLost(m) PROVE FALSE
  BY <1>9, <1>f DEF RefreshLost
<1>10. ASSUME NEW m \in Managers, StoreTokens(m) PROVE ArrivalInv'
  BY <1>10, TypeStep DEF StoreTokens
<1>11. ASSUME NEW m \in Managers, TimerFires(m) PROVE ArrivalInv'
  BY <1>11, TypeStep DEF TimerFires
<1>12. ASSUME NEW m \in Managers, BeginProvision(m) \/ ProvisionJob(m) PROVE FALSE
  BY <1>12 DEF BeginProvision, ProvisionJob, StoreProvision, ProvisionFails, EndProvision
<1>13. CASE UNCHANGED vars
  BY <1>13 DEF vars
<1> QED
  BY <1>1, <1>2, <1>3, <1>4, <1>5, <1>6, <1>7, <1>8, <1>9, <1>10, <1>11, <1>12, <1>13
     DEF Next, RefreshJob

-----------------------------------------------------------------------------
\* Types: in particular every token that is written to the entry is one.
THEOREM TypeCorrect == Spec => []TypeOK
<1>1. TypeInv => TypeOK
  BY DEF TypeInv
<1> QED BY <1>1, TypeInit, TypeStep, PTL DEF Spec

\* The session outlives every refresh when no reload finds a job in flight,
\* unless a failed setup has left timers running.
THEOREM SessionStaysAlive == ASSUME ~Overlap PROVE Spec => []SessionAlive
<1>1. SerialInv => SessionAlive
  BY DEF SerialInv, TypeInv, TypeOK, TokenGood, SessionAlive
<1> QED BY <1>1, SerialInit, SerialStep, PTL DEF Spec

\* The refreshes alone never lose the session, however instances overlap.
THEOREM RefreshesLoseNothing ==
  ASSUME MaxProvisions = 0, MaxFaults = 0 PROVE Spec => []NoTokenLost
<1>1. ArrivalInv => NoTokenLost
  BY DEF ArrivalInv, OnlyHere, NoTokenLost
<1> QED BY <1>1, ArrivalInit, ArrivalStep, PTL DEF Spec
==============================================================================
