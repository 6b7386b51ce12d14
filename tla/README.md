# A TLA+ development for ha-mikrotik-proton-wireguard

The integration logs into Proton VPN, provisions WireGuard certificates on the
Proton account, keeps one credential per tunnel slot on a Home Assistant config
entry, writes the tunnels to a MikroTik router, renews the certificates on a
schedule and offers a switch for whole-home egress through the tunnels. It is
a few hundred lines of asynchronous Python over three systems that fail and
interleave on their own: the Proton account, the router and Home Assistant's
config entry. The modules here model the code that coordinates them. Paths are
relative to `src/custom_components/proton_mikrotik_wg/` unless they begin with
`src/`.

Run a model with `tlc -config <Run>.cfg <MC module>`, a proof with
`tlapm <Module>Proofs.tla`. `PROJECT.json` lists runs, mutants, findings,
hazards, theorems and which lines each definition stands for.

## 1. Inventory

| Part | State | Operations | Talks to | Hard about it | Right when |
|---|---|---|---|---|---|
| Certificate provisioning (`wg_credentials.py`, slots in `wg_slots.py`) | certificates on the account; `wg_slots` on the entry | provision all or one slot; clean up older certificates | Proton, by one HTTP request after the other on an executor thread | requests fail half way; calls overlap; crashes; the account's limit | a stored tunnel keeps its certificate; foreign ones are never touched; cleanup leaves no garbage; calls end |
| Server choice (`wg_credentials.py`) | none | filter, sort, greedy pick of distinct servers; avoid the addresses of the other slots | list of servers, account tier | fallback when too few are free; ties; the entry is read long before it is written | tunnels end at distinct addresses; best score first; fails only for want of servers |
| Renewal schedule (`wg_refresh.py`, `async_refresh_due_slots`) | stamp, cadence and tunnel count options; running flag | hourly check; renew the oldest; apply; advance the stamp | provisioning, router | the stamp is read before and written after many awaits; failures, restarts, reloads; a changed tunnel count | one renewal per period; round robin; stamp never ahead of the clock, nor moved back but by a stale form; catches up |
| Router configuration (`mikrotik_wg.py`) | rows on the router; `egress_enabled` option | apply tunnels, enable and disable egress, bypass sync | RouterOS API, a connection per job | find-then-write on rows shared by several connections; a connection lost in the middle; rows of older versions | On and Off mean exactly what the README's table says; an apply leaves exactly the active tunnels; jobs do not disturb each other |
| Egress switch (`switch.py`) | displayed state | read the router when added, turn on, turn off | session manager | calls overlap with each other, with setup and with the form | what is recorded and displayed is the router's state |
| Proton session (`proton_auth.py`, `proton_http.py`, `session_store.py`) | refresh token at Proton, in the client, on the entry | log in at one host after the other, second factor, refresh | Proton | a refresh token is good once; an answer may be lost; two instances may hold a token | the token on the entry is good or the user is asked to log in; a session on an entry has passed every factor |
| Session manager (`session_manager.py`) | client, two timers, running flag | setup, unload, and all of the above | everything | every `await` lets other calls in | see the parts |
| Entry setup and unload (`__init__.py`) | manager per entry in `hass.data` | setup, unload, reload, removal | manager, services, platforms | setup and unload that fail half way; several entries; jobs that outlive an unload | one manager works on an entry; a registered one runs; a refused setup asks for a login |
| Config and options flow (`config_flow.py`) | the flow's step, name and pending session | log in, second factor, reauthenticate, save options | Proton, router, entry | flows for the same account; options read, awaited upon and written back | one login per entry; errors are told as what they are; saving keeps what the form does not show |
| Services (`services.py`) | service registry | register, remove, provision, apply | manager | registered while a manager exists | calls reach a manager that runs |
| Sensors (`sensor.py`) | one entity per slot | sync on entry updates | entry | updates during setup, sync and unload | a sensor for every active slot |
| Bypass parser, RouterOS connection, modulus, forms (`vpn_bypass.py`, `mikrotik_client.py`, `proton_modulus.py`, `schemas.py`, `const.py`) | none | pure functions and I/O | | | |

How they interact: all Python code runs on Home Assistant's event loop except
what `async_add_executor_job` runs on a thread: provisioning, each router job
and a token refresh. Between the start of such a job and its end anything else
may run: a service call, a timer, the options form, an unload and a new setup
of the entry. The config entry is the only shared memory; jobs read parts of it
before the await and write them after it. Nothing serialises jobs except the
running flag of the renewal job, which is one flag per manager instance.

## 2. Modules

| Module | Models | Abstract specification / composition |
|---|---|---|
| `Provisioning` | account, slots and calls of `async_provision_wireguard`, one action per HTTP request | implements `SlotStore` |
| `ServerPick` | the choice of servers in such calls | implements `SlotStore` |
| `SlotStore` | what such a call promises about the slots on the entry, without how | abstract |
| `RefreshSchedule` | stamp, order of the slots, manager instances and their renewal jobs | treats the renewal of a slot as one step, which `Provisioning` opens up |
| `EgressSwitch` | what the switch promises, without how | abstract |
| `Router` | rows on the router, apply and switch jobs as sets of RouterOS commands | implements `EgressSwitch` (`Switch == INSTANCE EgressSwitch WITH ...`) |
| `Session` | the refresh token at Proton, in the clients and on the entry; setup, unload, reload, reauthentication | |
| `Entry` | one entry's data and options as the memory shared by the switch, the form, the services, renewals and setup, and what of it reaches the router | composes the others at the grain of awaits: provisioning, apply and egress are one step on a thread, opened up by `Provisioning` and `Router`; implements `SlotStore` |
| `Login` | the flows: password, hosts, second factor, reauthentication | |
| `Lifecycle` | managers, services, timers, sensors of several entries through setup, reload, unload and removal | extends `Login`: a flow that ends adds or reloads an entry, a refused setup opens a flow |
| `MC*` | finite instances | |
| `*Proofs` | theorems | |

### Provisioning

`live` is the set of serials Proton accepts, `slots` the entry's `wg_slots`,
and `pc`, `todo`, `result`, `doomed`, `failed` are the locals of a call.
`Begin` reads the entry, `SelectServers` stands for the reading requests,
`Create`, `CreateRefused` (Proton's error or its limit) and `CreateLost` (the
certificate exists, its answer does not) for one POST, `ListCertificates` and
`Delete` (which may be refused) for the cleanup, `Store` for the write on the
event loop, `SetTunnelCount` for the options form. `Crash` ends every call.
History variable `torn` names the slots whose old certificate was deleted when
a crash prevented the write of the new one: the one loss the code cannot avoid.

### ServerPick

The same calls, at the grain of the choice. Servers are model values with a
name, an address, a score, a tier and a country. `ListServers` lets any set of
them be online, and the tier be unknown (the code then does not filter).
`Consider` looks at one server: the iterations of `pick_best_servers` in
`Better` order; Python's sort is stable over a list whose order Proton decides,
so ties are taken in any order. `shared` marks the slots for which no free
address was left, so that the code had to fall back to used ones.

### SlotStore

What `Provisioning`, `ServerPick` and `Entry` have in common: calls that are in
flight at the same time, each with the slots it renews (`wanted`) and those it
keeps as it has read them (`kept`). `Store` writes both at once, over whatever is
there, with new values that are distinct and, for certificates (`Unique`), not
in use; a renewal then goes on with its next slot from what is stored now.
`Fail` and `Crash` store nothing, `Configure` and `Reauthenticate` are the two
other things that touch the tunnel count or the slots. Each of the three modules
has its mapping, `Abstract == INSTANCE SlotStore WITH ...`: in `Provisioning` what is
wanted is what is to do and what has been created, in `ServerPick` what is to be
picked for, in `Entry` what a task in `async_provision_wireguard` was asked for,
with `Held`, migration included, for what is stored. There a call for a slot above
the count, which is bound to raise, is no call of `SlotStore`.

### RefreshSchedule

Time is counted in hourly checks (`Tick`). `StartJob` is the synchronous part of
`async_refresh_due_slots`, then `Renew` per slot, `Apply` with the stamp's
write, and `GiveUp` for the `except` with its `finally`. `Managers` are the
instances of the session manager; `Reload` hands the timers to another one
while a job of the old one runs on. The options form is saved in one step
(`SaveAtOnce`) with the egress off; with the egress on `ReapplyFirst` reads the
stamp and `SaveAfterwards` writes it back, whatever has happened meanwhile, unless
the router cannot be reached (`ReapplyFails`). `anchor`, `paid`, `ahead` and
`rewound` are history: where the schedule last started, what its renewals since
then were worth, which slots it has renewed in this round, and whether a form has
overwritten a stamp other than the one it had read.

### Router and EgressSwitch

What a job has yet to do (`todo`) is a set of commands; each carries its place in
the program (`at`: part, slot or list entry, position), and the next one is the
earliest (`IsNext`, `Earlier`). `Look` is a RouterOS print (select), `AddRow`,
`UpdateRow`, `RemoveRow` and `UpdateDistance` are writes by the ids found.
Jobs are on connections of their own and interleave command by command; RouterOS
refuses an id that is gone (`Refused`), and `Lost` cuts a job off anywhere. The
pure operators `ApplySlots`, `EnableEgress`, `DisableEgress`, `SyncBypass`, ...
say which commands each function of `mikrotik_wg.py` issues. Rows are
records of table, slot number (0: the unnumbered names of older versions), a
copy number that tells duplicates apart, and a value where one matters (which
key a peer has). `Init` lets the router hold any consistent set of legacy rows.

`EgressSwitch` knows only the desired state, the request in progress and
whether the router's egress is exactly "on", exactly "off", or something else.
The refinement mapping computes the latter from the rows and the distance of
the PPPoE default route.

### Session

`valid` are the refresh tokens Proton accepts, `stored` the entry's token,
`client[m]` that of a manager instance's client. A refresh has two steps, for
there are two threads: `Refresh` on the executor (Proton takes the token, the
client gets the next), `StoreTokens` on the event loop. `Setup` and `FinishSetup`
are the two ends of `async_setup`, `Reload` of unload and setup; jobs in flight
survive it, and an entry whose setup failed is not unloaded, so its timers, if
started, run on. `Reauthenticate` is `_finish_login` for a reauth flow.

### Entry

`slots` and `flat` are the entry's data (the slots, and the credential of a
version without slots), `form`, `stamp` and `egress` its options, `tun` and
`lan` what of it is on the router, `state` and `shown` the entry's state and the
switch's display. `task[t]` is a coroutine: what kind of thing it is (switch,
form, setup, provision, apply, renew), what it awaits, and what it has read and
will write. An action is what happens between two awaits. `Held` is
`slots_from_entry_data` with its migration; `Setup` and `Proceed` are
`async_setup` from the refreshed tokens on, `Forward` and `ShowRouter` the switch's
platform; `SetRouter`, `SwitchDone`, `SetupEgressDone`, `SaveAfterwards` and
`SetFails` are `async_set_egress` and what its callers do then; `SaveAtOnce` and
`ReapplyFirst` the options step without and with the egress to re-apply;
`RewriteSlots` is the write at the end of `async_provision_wireguard`, in
`ProvisionDone` for a service and in `RenewalStored` for a renewal. `Crash` ends
every task, `Unload` and `Reauthenticate` only separate them from the instance
that comes next (`own`). Which slots are due is left open here (`BeginRenewal`);
so is whether Proton or the router answers.

History: `sole` are the tasks whose work on the egress nothing has overlapped,
`fit` says whether what it left is settled in the option, or in the display too;
`calm` are the tasks since whose reading nobody has written the entry, `synced`
says that the last apply was of what is stored now. They are what separates
"another task wrote in between" from "the code lost something".

### Login and Lifecycle

A flow is a record: its step, the unique id it has set, the name it logs in
with, the pending session of `TwoFactorRequired`, the error on its form.
`SubmitPassword` is `async_step_user` up to its await, with Home Assistant's
unique-id check (`Available`); `NextHost` and `CannotConnect` are the rounds of
`login_with_password_failover` that end in `CannotConnect`, `PasswordFails` any
other error of `authenticate`; `LogsIn` and `TwoFactorRequired` are its ends.
`CodeFails` maps every failure to the code, as `submit_two_factor` does.

`state[i]` is the entry's state in Home Assistant. `Start`, `SetupRefused`,
`SetupBreaks`, `Register` and `Forwarded` are the parts of `async_setup_entry`
between its awaits; `BeginUnload`, `Unloaded` and `UnloadFails` those of
`async_unload_entry`. `ghost` says that a manager is still registered whose
entry has been removed after an unload that failed. `Update` is any write to the
entry that changes the active slots, `SyncSensors` the listener.

## 3. Runs

Sizes are distinct states. A run checks everything that can be asked of one
instance; there are as few instances as the questions allow. Where a run does not
ask for the types, they are proved all the same (section 4).

| Run | Question | Instance | Answer |
|---|---|---|---|
| ProvisioningSerial | do stored tunnels and foreign devices keep their certificates; is the cleanup complete; does every call end; implementation of `SlotStore` | 2 slots, calls one at a time, 6 serials, limit 4, crashes (106 000) | holds |
| ProvisioningOverlapStored | `StoredLive` when calls overlap | 2 calls, limit 5 | violated |
| RefreshSteady | types; a renewal per period; what moves the stamp back; does the schedule catch up | 2 slots, periods 1 and 2, 5 ticks, two instances, fixed count, no manual overlap, a form that waits for the router, 2 faults (763 000) | holds |
| RefreshRotation | round robin; stamp not in the future | 3 slots, manual calls beside jobs, a form that waits for the router, a fault, a change of count (1 636 000) | holds |
| RefreshStuck | `CatchesUp` after the tunnel count was lowered | 2 slots, no fault | violated |
| RouterEgress | implementation of `EgressSwitch`; order of removal | 2 slots, legacy rows, one switch call at a time, 1 lost connection, options change (391 000) | holds |
| RouterLanes | apply and switch side by side: no duplicates, no row taken from under a job, `EgressSwitch` steps, exact applies | 2 slots, one job of each kind, slots provisioned and dropped, rows of dropped tunnels, 1 lost connection (2 212 000) | holds |
| RouterHeal | does a switch call that runs alone repair what overlapping ones left | 1 slot, 2 switch calls (3 955 000) | holds |
| ServerPickCalls | distinct addresses; best choice; failing only for want of servers; implementation of `SlotStore` | 3 servers on 2 addresses, 2 slots, 2 overlapping calls (1 190 000) | holds |
| SessionSerial | types; does the session survive; is the user asked to log in | 2 instances, 4 tokens, 1 fault, egress, no reload with a job in flight (723 000) | holds |
| EntryTasks | are option, display and router the same; does an apply bring what is stored; is a credential or the schedule lost; implementation of `SlotStore` | 2 slots, 2 tasks, 3 certificates, 2 forms of which one drops a slot, an entry with or without a legacy credential; any number of operations, failures, unloads and crashes (2 812 000) | holds |
| LifecycleEntries | types; are sessions complete, logins single, errors told; do services, timers, flows and sensors follow the entries | 2 entries, each name typed in 2 ways, 2 user flows beside the reauthentication flows, 2 hosts, 1 slot; any number of logins, reloads, failures, removals and restarts (1 372 000) | holds |

### What the violated runs show

Each is a disagreement between the code and its README; `PROJECT.json` quotes
both sides.

- *ProvisioningOverlapStored*: the service and the renewal job in flight
  together; one call's cleanup deletes the certificate the other stores.
- *RefreshStuck*: a stored slot above a reduced tunnel count is the oldest for
  ever and fails every job.

### Known divergences without a run

The passing runs and the theorems are restricted where the code does not keep
its promise. These are the counterexamples met; each comes back with the
restriction lifted.

- `OnePerPeriod`, its first part with faults: a failed apply leaves the stamp
  but not the order, so the retry renews other slots for the same periods
  (`session_manager.py:257`). The README says "one per period".
- `CatchesUp` costs more than it should: after a long outage the stamp advances
  by the renewed slots only, and every hourly check renews all tunnels until it
  has caught up (`wg_refresh.py:70`; the README caps the renewals at the tunnel count).
- `StampMonotone` with `Overlap = TRUE`: a manual provisioning resets the clock
  during a job, whose older stamp then overwrites it (`session_manager.py:247`).
- `StampMonotone` without `~SaveAfterwards`, and the first part of `OnePerPeriod`
  without `~rewound`: a form that waited for the router overwrites the stamp of a
  job that has ended meanwhile (`config_flow.py:256`, `:288`), and the tunnels just
  renewed are renewed once more. No fault and no manual call is needed.
- `RoundRobin` with a second instance (`Managers = {m1, m2}` in
  `RefreshRotation`): the flag that a job is running belongs to the manager
  (`session_manager.py:218`), so that the instance of a reload starts a job
  beside the old one's and renews the same tunnels once more.
- An account at its limit: new certificates are created before old ones are
  deleted, so an account with room for N tunnels refuses to renew them all
  (`wg_credentials.py:401`; `CreateRefused`).
- Two switch calls at once (`Switchers = {e1, e2}`): rows that one adds after
  the other has listed them stay, with the option off (`session_manager.py:356`).
  `RouterHeal` shows that the next call alone removes them.
- A WAN gateway that is an address (`Gateways = {"other"}`): enabling always
  fails at the distance of the PPPoE route, after it has added the tunnels'
  rows (`mikrotik_wg.py:278`); the option stays off.
- Enabling after the tunnel count was lowered keeps the default routes of the
  dropped tunnels (`mikrotik_wg.py:253`); `EgressOn` demands the active ones only.
- Enabling adds a tunnel's default route before its masquerading
  (`mikrotik_wg.py:260`, `:269`): a connection lost in between leaves a route
  whose traffic is not masqueraded. `RouteGoesFirst` is about the removal only.
- A score of 0 counts as 100, the worst (`wg_credentials.py:149`;
  `EffectiveScore`), though the docstring promises the lowest score first.
- `SessionAlive` with `Overlap = TRUE`: a provisioning that outlives a reload
  writes its spent token over the new one (`session_manager.py:284`).
- `SessionAlive` without its disjunct `Leaked`: a setup that fails while it
  re-applies the egress has started its timers, nobody cancels them, and they
  spend the tokens of the next instance (`session_manager.py:128`). Such an
  entry is not retried either: the egress is not "re-applied after HA restarts".
- A refresh that fails on the 12-hour timer does not start a reauth flow
  (`RaiseAuthFailed`; `session_manager.py:140`), though the README says a
  failed refresh marks the entry.
- Reauthentication replaces the entry's data and drops its WireGuard slots
  (`Reauthenticate`; `config_flow.py:78`). With the egress on, the setup that
  follows raises for want of slots (`SetupFails`, `session_manager.py:190`),
  and so does every later one, for only a provisioning would bring slots back
  and only a loaded entry can be provisioned. The README says the state is
  "re-applied after HA restarts" (`src/README.md:119`).
- Saving the form while the egress is on applies it with the options from before
  (`ReapplyFirst` awaits before `Save`; `config_flow.py:288`), so that new bypass
  networks reach the router only with the next "on"; the README promises them
  "after Configure save while egress is on" (`src/README.md:135`). An unreadable
  bypass line is saved in the same way, and it is the next setup that fails on it.
- The form writes back the stamp and the egress state it read before that await
  (`config_flow.py:256`): it may put an older stamp over a newer one (above), or
  remove one that came meanwhile (`ScheduleKept` excepts `t \notin calm`), and record
  "on" over an overlapping "off" (`EgressRecorded` is about changes that nothing
  overlaps).
- Two provisionings in flight write back what they read (`session_manager.py:279`);
  the later one undoes the earlier (`CredentialKept` excepts a stale reading).
- A slot provisioned on its own sets no stamp (`ProvisionDone`), and is renewed
  only after a restart has seeded one (`session_manager.py:227`).
- Every failure of the second factor is told as a wrong code, a lost connection
  included (`CodeFails`; `proton_auth.py:144`), though `CannotConnect` is there for
  that (`proton_auth.py:14`) and the flow has a branch for it. If Proton had taken
  the code, the flow's session waits for one in vain and the user has to start again.
- The unique id is the name as typed, in lower case; an address and a user name
  of the same account make two entries (`config_flow.py:93`; `strings.json:28`
  promises an abort). `Login` counts them as two accounts. Their certificates
  carry the same prefix, so that the cleanup of one entry deletes those of the
  other (`wg_credentials.py:303`).
- An unload that fails has already cancelled the timers, and the manager stays
  registered without them (`ManagersRun` excepts the state `failed`;
  `__init__.py:33`); if the entry is then removed, it serves services for ever
  (`ghost`).
- Sensors of dropped slots stay, unavailable, until a reload (`SyncSensors` only
  adds; `sensor.py:40`).

### Why the bounds are enough

- Two slots show one tunnel against another; rotation uses three.
- Two calls, jobs or instances are what it takes to interleave; what one of
  them does to the other does not depend on a third. Foreign certificates need
  one; the limit is tight enough to be met.
- Values that can be told apart only by equality (serials, tokens) are reused
  when nothing refers to them any more, so that their number bounds only how
  many are referred to at once, and any number of operations follow each other.
- `ServerPickCalls` leaves the country option at "any": any set of servers may
  be online, which includes what a country leaves of them.
- `RouterHeal` has one slot, for the jobs treat every slot alike and the rows
  of older versions stand for further ones; `RouterLanes` has one key, no
  bypass list and both slots.
- The clock of `RefreshSchedule` (`MaxTime`) is the one real horizon: 5 ticks
  are more than two rounds of the two slots of `RefreshSteady` with period 1, or
  two jobs of one slot with period 2, of which a form that waits may lie across
  either; `RefreshRotation` has period 2, and its rounds are completed by jobs
  that renew several slots.
- `EntryTasks` and `LifecycleEntries` have no horizon and no bound on faults:
  their states come back. Two tasks overlap in every pair of kinds; a third can
  only repeat what one of them does. One stamp is enough, for only its being
  there matters; one slot per entry is enough in `LifecycleEntries`, for sensors
  are independent. Three certificates
  let two renewals of single slots overlap, or all slots be replaced while one is
  stored. Certificates and tasks, ids and user flows are symmetric.
- `MaxFaults`, `MaxLosses`, `MaxChanges` and `MaxForms` bound faults, changes and
  the forms that wait for the router. Where a
  theorem exists, none of these bounds remains.

### Fairness

- `Provisioning`: weak fairness of the steps of a call: requests have a timeout
  of 30 s (`proton_http.py:96`). `Begin`, the options form and crashes are not fair.
- `RefreshSchedule`: weak fairness of what an instance does by itself (setup,
  timer, renewals, apply). The hourly timer fires for ever; that time passes
  and that users act is not assumed.
- `Router`: weak fairness of the steps of a job; connections have a timeout.
- `Entry`, `Login` and `Lifecycle` state safety only and assume no fairness.
- `Session`: weak fairness of setup, and of refresh and provisioning jobs. That
  timers fire or that the user logs in is not assumed.

## 4. Proofs

TLAPS proves the following for every value of the constants that satisfies the
modules' `ConstantsAssumption`.

| Theorem | Says | Under |
|---|---|---|
| `ProvisioningProofs!TypeCorrect` | `[]TypeOK` | |
| `ForeignCertificatesKept` | `[]ForeignKept` | |
| `StoredCredentialsLive` | `[]StoredLive` | `~Overlap` |
| `CleanupIsComplete` | `CleanupComplete` | `~Overlap` |
| `ProvisioningProofs!ImplementsStore` | `ImplementsSlotStore` | |
| `CertificatesAlone` | `[]NewAlone` | |
| `RefreshScheduleProofs!TypeCorrect` | `[]TypeOK` | |
| `StampNeverInFuture` | `[]StampNotFuture` | |
| `StampNeverBack` | `StampMonotone`: only a form that waited moves the stamp back | `~Overlap`; any forms and faults |
| `RenewalsPaidFor` | `[]OnePerPeriod`: exact until a fault or a stale form, never one too few | `~Overlap`, fixed count; any forms and faults |
| `RenewalsGoRound` | `RoundRobin` | `~Overlap`, or one instance; any faults and counts |
| `ServerPickProofs!TypeCorrect` | `[]TypeOK` | |
| `EndpointsDistinct` | `[]DistinctEndpoints` | |
| `BestIsPicked` | `[]BestPicked` | |
| `FailsForWant` | `FailsOnlyIfTooFew` | unique names |
| `ServerPickProofs!ImplementsStore` | `ImplementsSlotStore` | |
| `RouterProofs!TypeCorrect` | `[]TypeOK` | |
| `NothingTwice` | `[]NoDuplicates` | one apply, one switch call at a time |
| `FoundStays` | `[]FoundIsThere` | the same |
| `AppliesExact` | `ApplyExact` | one apply at a time |
| `SoleCallsExact` | `SoleSwitchExact` | |
| `RouteFirst` | `RouteGoesFirst` | one switch call at a time |
| `ImplementsEgressSwitch` | `SwitchSteps`: `Router` implements `EgressSwitch`, step by step | one switch call at a time |
| `SessionProofs!TypeCorrect` | `[]TypeOK` | |
| `SessionStaysAlive` | `[]SessionAlive` | `~Overlap` |
| `RefreshesLoseNothing` | `[]NoTokenLost` | no provisioning, no fault |
| `EntryProofs!TypeCorrect` | `[]TypeOK` | |
| `EgressIsRecorded` | `[]EgressRecorded` | |
| `RecordedIsShown` | `[]ShownIsRecorded` | |
| `TunnelsAreCurrent` | `[]TunnelsCurrent` | |
| `CredentialsKept` | `CredentialKept` | |
| `SchedulesKept` | `ScheduleKept` | |
| `EntryProofs!ImplementsStore` | `ImplementsSlotStore` | |
| `LifecycleProofs!TypeCorrect` | `[]TypeOK` | |
| `SessionsUsable` | `[]SessionUsable` | |
| `OneLogin` | `[]OneLoginPerEntry` | |
| `ErrorsTold` | `[]ErrorTold` | |
| `ServicesFollowManagers` | `[]ServicesServe` | |
| `ManagersRunTimers` | `[]ManagersRun` | |
| `RefusalsAsk` | `[]RefusedIsAsked` | |
| `SensorsFollowSlots` | `[]SensorsFollow` | |

Without `~Overlap`, or with a changing count for `RenewalsPaidFor`, TLC finds
counterexamples. "One at a time" means that `Appliers`, or `Switchers`, has one
element at most; two overlapping switch calls break all four of those theorems
(section 3), and what still holds of them is `SoleCallsExact`. `NoTokenLost` is not part of a run: `SessionSerial` has
provisioning and faults, which it excludes. Nor is `NewAlone`, which
`ImplementsSlotStore` rests on in `Provisioning`.

Arguments:

- *Provisioning.* `StoredLive` does not say what a call has in hand. `IInv` adds
  that an idle call holds nothing, that what a call keeps it has not marked for
  deletion (`DoomedOurs`), that what it will store is accepted or was torn
  before (`ResultLive`), that only one call is busy (`SoleCall`), and for
  the cleanup that after listing the account it knows every certificate of ours
  (`AccountKnown`).
- *RefreshSchedule.* The stamp a job will write is the one it read plus what it
  renewed, which is no more than the time passed when it read it; that bound is
  carried in the job's locals, which is why overlapping instances do no harm. For
  `StampNeverBack` and `RenewalsPaidFor` the job's base is the stamp itself, or,
  when a form has been saved while the job runs, no older than the stamp
  (`Advances`): a form that waits holds a stamp no younger than the entry's
  (`FormBehind`), since everything else moves the stamp forward. What a job has
  renewed so far is therefore counted from its base (`PaidInv`). `RoundInv` says that what has
  been renewed in a round comes last (`AheadLast`), and that a job that holds such a
  slot holds every slot behind it too, to be renewed before it (`JobInRound`); the
  latter is about the order the job has read, so that services may change the
  order meanwhile. Two jobs at once, of an old and a new instance, break it.
- *ServerPick.* `PickInv` says of every call, apart from the slots that had to
  share: what it keeps is distinct, what it has picked is distinct, the two are
  disjoint, and so is the pool from what it keeps. `Store` writes all slots at
  once from one call's hands, so that other calls' writes do not matter.
  `LoopInv` follows the greedy loop: nothing left in the pool is better than a pick,
  what a call for all tunnels has passed over is `Beaten` by one, and a slot is
  missing while the loop runs. When the pool is empty, the picks' addresses are
  therefore all there are, and fewer than the slots.
- *SlotStore.* The mapping of a state does not tell what a call has already done, so
  each implementation needs an invariant of its own to show that `Store` writes all
  that was asked for. In `Provisioning` it is `Progress`: what is wanted does not
  change while certificates are created one by one, and nothing is left to do when
  the account is listed. `NewAlone` adds that what a call has created nobody else
  stores or keeps, which overlapping calls preserve because a new serial is one that
  nobody refers to (`FreshIs`). In `ServerPick` it is `AllPicked` on top of
  `LoopInv`: the loop ends with a server for every slot or raises. In `Entry` it is
  `CountRead` (the tunnel count a provisioning has read is not 0) on top of
  `SetupInv`; a new certificate is fresh for every task, whatever it awaits.
- *Router.* An apply and a switch call write different tables (`Lane`), so that a
  job is `Alone` in its tables if no other job of its kind is in flight.
  `AloneInv` says of such a job that it is `Underway`: what it has left is a later
  part of its program, and each command it has done is `Settled`. An addition is
  settled while a row of its key is there, a removal while only rows that other
  commands of the program have added are. And it is `Informed`: what it found
  when it looked is still so when it writes. Two facts about the programs carry
  this: what a command adds no later one removes, and a list entry, which is added
  without looking, is removed before. At the end of the program everything is settled,
  which is `EgressOn`, `EgressOff` or `TunnelsExact`, whatever was on the router before.
  That rows of an earlier, overlapping or cut-off call may be in the way is why
  the invariant is about a program and not about rows. `Single` (no key
  twice) and `Valued` (what an apply has written has the stored value) need that nobody ever overlapped, and stand under
  those hypotheses. The refinement follows action by action: a command of a
  switch call is `Proceed`, one of an apply a stutter, the end of a call `Succeed`
  by `AloneInv` or `Fail`. That a fresh id exists takes `IsFiniteSet(Jobs)`: finitely
  many calls in flight.
- *Session.* `TypeInv` adds that an instance anything refers to has a token.
  `SerialInv` adds that, as long as no failed setup has left timers running,
  only the instance set up last works, and that its token is accepted also
  during setup; left-over timers stay until a crash (`LeakStays`). For overlapping refreshes the reason is
  another one, `ArrivalInv`: a token that has arrived and is not stored yet is
  nobody else's, so nobody else can spend it.
- *Entry.* Three invariants, each on top of the types. `SetupInv`: at most one
  task is a setup, the entry's state says where it is, and an instance's other
  tasks run only while it is registered; otherwise a crash and a new setup could
  leave two tasks that both settle the display. `EgressInv`: a task in `sole` is the
  only one changing the egress (`SoleInv`), what it will record is what it has
  asked the router for, and a reading that nothing overlapped has the router's
  state (`ShownInv`). `CalmInv`: a task in `calm` still holds what the entry has
  (`AllRecent`); a write empties `calm` but for its own task. The two action
  properties follow from it, and `TunnelsCurrent` because what a renewal applies is
  what it has just stored. No property needs a bound on tasks or faults.
- *Lifecycle.* `IInv` is one invariant, for flows and entries change together.
  `FlowInv`: a flow that has taken a password is under its own id, its pending
  session is of that id, it has not asked all hosts yet, and the open flow of an
  entry has that entry's id. `EntryInv`: a manager is registered exactly in the
  states from `forward` on, and only entries that exist are set up. From these,
  and not from the properties alone, the end of one flow cannot replace the
  entry of another, and the last unload finds the registry empty.

Model-checked only: every liveness property (`CallsReturn`, `CatchesUp`,
`SpentTokenAsks`, and the fairness part of `ImplementsSwitch`), for
liveness under fairness and ENABLED are out of the prover's reach. The safety
part of the refinement is proved (`ImplementsEgressSwitch`); that each call also
ends is what `RouterEgress` adds.

## 5. Assumptions about the outside

- Proton accepts a refresh token once, and answers with the next one.
- Proton may refuse any request, lose any answer, and revoke a session; serials
  of certificates that are in use are unique.
- Logical server names are unique (for `FailsOnlyIfTooFew`: a greedy choice may
  otherwise stop early).
- Certificates expire in the order in which they were issued.
- Home Assistant logs what a timer's callback raises; forgets an entry whose
  setup failed without unloading it; does not limit how many calls of a switch
  run at once (no `PARALLEL_UPDATES` in `switch.py`); saves `update_entry`
  before it goes on.
- Home Assistant aborts a flow that sets a unique id which an entry or another
  flow in progress has; opens one reauthentication flow per entry at most, with
  the entry's unique id; saves what an options step returns after the step has
  ended; does one thing at a time to an entry (setup, unload, removal), and calls
  update listeners after an entry was written; does not set up or reload an entry
  whose unload failed, but removes it.
- One options form of an entry is submitted at a time (`Submit`).
- RouterOS executes one command at a time and refuses an unknown `.id`.

## 6. Not modelled

Key generation and conversion, SRP and the signed modulus, TLS and librouteros,
the HTTP headers and error texts, the paging of the certificate list, the
layout of forms, translations, the list of exit countries, the attributes of
sensors, the parsing of bypass lines: pure functions or I/O whose results the
modules take as given. A credential is one value, its fields are not told
apart, but for what `ServerPick` needs of its server.

The modules share no single state: `Entry` takes provisioning, apply and egress as
one step on a thread, which `Provisioning`, `ServerPick` and `Router` open up on
their own. For provisioning the views agree on what a call does to the slots:
all three implement `SlotStore`, which is proved. For the
router, and for the refreshes of the token, which are in `Session` only, that the
views agree is argued from the source, not checked: a product of all modules is
out of TLC's reach.

## 7. Plan

Done, in this order: `Provisioning`, `RefreshSchedule`, `EgressSwitch` and
`Router`, `ServerPick`, `Session`, `Entry`, `Login` and `Lifecycle`, each with its
proofs, and `SlotStore` with the three modules that implement it.

Next:

1. Two entries on one account in `Provisioning`, to show what cleanups with one
   prefix do to each other.
2. A contract for the egress that allows calls to overlap, implemented by `Router`
   and by the tasks of `Entry`, as `SlotStore` is for provisioning.
