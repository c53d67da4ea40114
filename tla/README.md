# FEP System Library: TLA+ models, checks and proofs

The FEP System Library lets a process discover, configure, control and monitor
the participants of a simulation that run in other processes. This directory
holds TLA+ modules of its own logic, TLC configurations that check them on small
instances, and proofs for every instance where that is within reach of the
prover. Paths below are relative to the repository; line numbers are in
`PROJECT.json`, which maps every definition to the code it stands for.

## 1. Inventory

| Component | Code | State it keeps | Operations |
|---|---|---|---|
| System control | `src/fep_system/fep_system.cpp`, `System::Implementation` | none of its own: the map of participants and their priorities | `start`, `stop`, `shutdown`, by `trigger_participants` and `await_state` |
| System registry | same file, `participant_proxy.cpp` | `_participants` (name to proxy), `_system_name` | `add`, `remove`, `clear`, `rename`, `getParticipant(s)`, copy and move |
| Configuration | same file, `rpc_components/configuration_proxy.h` | the property trees, at the participants | `setPropertyValue`, `setPropertyValueToAll`, `configureTiming`, `getProperties` |
| System logger | `system_logger.h` | `_emm`, `_level`, two recursive mutexes | `registerMonitor`, `unregisterMonitor`, `log`, `setSeverityLevel`, callbacks |
| Participant proxy | `participant_proxy.cpp`, `private_participant_proxy.h` | name, priorities, `_info`, additional info | `connect`, `getRPCComponentProxy(ByIID)`, setters, `copyValuesTo` |
| Participant info proxies | `rpc_components/participant_info_proxy.h` | none | list components and interfaces |
| State machine proxies | `rpc_components/state_machine_proxy.h` | none | `getState`, `initialize`, `start`, `stop`, `shutdown`, `restart` |
| Data registry proxies | `rpc_components/data_registry_proxy.h` | none | read-only queries |
| Discovery, connection | `fep_system.cpp`, `connection_interface.h` | one AutomationInterface per process | `discoverSystem`, `discoverSystemOnDDS`, `getAI` |

How they interact: a `System` owns a logger and a proxy per participant; a proxy
keeps a reference to the logger and a cached connection. Everything that reaches a
participant goes through the AutomationInterface (`TriggerEvent`,
`GetParticipantsState`, `GetParticipantFEPVersion`, the registrations) or through
RPC stubs; neither is part of this repository. The AutomationInterface calls back
on threads of its own, and the logger hands those callbacks to the user's
`IEventMonitor`, which may call the `System` again, also to unregister itself.

What is hard: control calls are sequences of remote calls between which the
participants, other controllers and faults move; a trigger that was accepted has
not been handled; a poll samples participants one by one and may come back without
some of them; callbacks run while a monitor is replaced; a cached connection
outlives the participant it was made to. The `hazards` of `PROJECT.json` list
these places line by line.

What makes the parts correct:

- control: rounds in lockstep and in priority order, nobody is started before
  everybody is ready, whoever could not be repaired does not keep the others from being stopped, success is reported only for commands that were accepted, two
  controllers cannot both succeed over a torn system, every call returns, a
  successful stop takes effect;
- logger: nobody is called through a freed mirror, monitor calls are serial and end
  with the unregistration, no deadlock but those a monitor makes itself;
- proxies: a lookup never picks the legacy interface because a message was lost,
  never uses a connection it does not have, and an operation tells the truth about
  what the participant did;
- registry: Systems behave like values although their proxies are shared pointers;
  the proxies a System holds refer to its own logger; a discovery returns who took
  part;
- configuration: a call that returns has configured everybody, an exception names
  all that refused, two simulation masters never arise, a copied property is one that
  existed.

## 2. Modules

| Module | Models | Uses |
|---|---|---|
| `Fep2StateMachine` | the transition table of a FEP 2 participant, from `fep_test_common.h` | |
| `SystemControl` | `start`, `stop`, `shutdown` of several `System` objects over participants | `Fep2StateMachine` |
| `ControlContract` | what a control call promises about the commands it sends | |
| `SystemControl_proofs`, `SystemControlBarrier_proofs`, `SystemControlRace_proofs` | theorems about `SystemControl`: calls and contract, one controller, two | |
| `SystemLogger` | logger, mirror, locks, callbacks | |
| `SystemLogger_proofs` | theorems about `SystemLogger` | |
| `ParticipantProxy` | connection and lookup of RPC components | |
| `StateMachineProxy` | a client that looks up and operates a state machine | `ParticipantProxy`, `Fep2StateMachine` |
| `ParticipantProxy_proofs`, `StateMachineProxy_proofs` | theorems about the two | |
| `RegistryContract` | Systems and proxies as values | |
| `SystemRegistry` | the map of proxies, copies and moves of Systems, discovery | `RegistryContract` |
| `SystemRegistry_proofs` | theorems about `SystemRegistry` | |
| `ConfigurationProxy` | property trees, `setProperty` and `copy_to` of both proxies | |
| `Configuration` | `setPropertyValue(ToAll)`, `configureTiming` and its variants | `ConfigurationProxy` |
| `Configuration_proofs` | theorems about `Configuration` and `ConfigurationProxy` | |
| `MC...` | instances for TLC | |

### SystemControl

A *controller* is one `System` driven by one thread. `pc[c]` is the phase of its
call, named after the event being triggered or the state awaited: `start` is
`check, CE_Initialize, FS_READY, CE_Start, FS_RUNNING`, `stop` is `CE_ErrorFixed,
CE_Stop, FS_IDLE`, `shutdown` is `CE_Shutdown, FS_SHUTDOWN` (`FirstPhase`,
`NextPhase`). `todo` is what the running loop has not visited, `failed` is
`failed_participants`, `answer` is `state_map`, `polls` counts iterations of
`await_state`. One action is one call of the AutomationInterface
(`TriggerAccepted`, `TriggerFails`, `CheckParticipant`, `CheckThrows`, and
`CheckUnanswered` where the legacy interface loses the answer and a standalone
participant passes for one that is not), one answer to a poll (`Answer`), or the end of a loop (`RoundEnds`, `AwaitEnds`, `PollAgain`).
`AwaitEnds` contains the validation that follows the loop in `await_state` and the
exception or the next phase that follows in the caller.

An accepted trigger is appended to the `inbox` of the participant and handled
later by `HandleEvent`. Faults of the environment: a call that fails, a poll that
fails or times out (`SlowAnswers`), an error, a disconnection, a crash with loss of
the inbox. Two history variables remember what the properties speak of: `quiet`, whether
the inboxes were empty when a call began, and `struck`, who was away then, or lost
the connection or ran into an error since. The order of participants of equal priority is left open, since
`std::sort` is not stable.

Time is abstracted: `MinPolls` and `MaxPolls` bound the polls that fit before the
deadline, so a poll may be the last one as soon as `MinPolls` have been made.

`KeepsContract` is the refinement: `ControlContract` knows only the call in
progress, how many commands of it each participant has been sent, whether one was
refused and how the last call ended; `sentMap` and `refusedMap` derive that from
the phase and the loop. It orders by priority the rounds of `start` only: what
`fep_system.h` says of priorities in `stop` is not kept (finding 2).

### SystemLogger

An *actor* is a thread of the user or one of the AutomationInterface. Every function is a
sequence of steps under `_logging_sync` (`logLock`): the lock, the two
unregistrations, the release of the mirror, the two registrations, the call of the
monitor under `_monitor_access_sync` (`mirrorLock`). A notification (`EnterMirror`,
`LeaveMirror`) goes through the current mirror where a thread logs, and through a registered one
where the AutomationInterface calls back (`Deliver`). Mirrors are never reused, so that a
freed one can be told. A registration may be refused (`RegistrationRefused`): the
mirror logs and `registerMonitor` throws.

From inside a notification, on whatever thread, a monitor may call the `System` it is notified
by (`CallSystem`): register, unregister, log or set the level. Both mutexes are
recursive, so the call goes through the locks its own actor holds, and a logging
call notifies the monitor again (`nested`). If it unregisters, the mirror whose function is
running is freed under it: `Leave` then touches freed memory, which is undefined and
has an action of its own, `LeaveFreedMirror`, without fairness.

What is assumed of the AutomationInterface, and cannot be read in this repository:
`UnregisterMonitoring` and `DisassociateCatchAllStrategy` return when no callback
through that registration is running (`Quiescent`). Freeing the mirror right after
them, as the logger does, relies on it. Whether that includes the callback from which they are
called is open, and a constant: with `WaitsForCaller` a monitor that unregisters itself waits
for ever, without it the monitor returns into a freed mirror.

### ParticipantProxy and StateMachineProxy

`peer` is the participant that runs under the name, or nobody; it has a version,
the info services it answers on, and the interfaces its components offer.
`Connect` is what `add` does; `Lookup` begins `getRPCComponentProxy`, whose remote
calls are `GetInfo`/`Search` (the version), `Reconnect`, `ListComponents` and
`AskComponent`; `Outcome` is the choice at the end. The new info proxy swallows
errors and answers with an empty list, the legacy one throws. `PeerChanges` ends
the participant or starts another one between any two steps.

`StateMachineProxy` adds a client that keeps the proxy it got and operates it. The
legacy proxy is one call of the AutomationInterface per function; the new one is a
request (`ServeNew`) and a reply (`ReplyNew`) with a possible loss before and after.
That the participant's service answers whether its table accepts the event is
external and taken from the documentation of the exceptions in
`state_machine_rpc_intf.h`.

### SystemRegistry and RegistryContract

An `Implementation` is a number given in the order of construction; `owns` is the
`_impl` of each `System`. A `ParticipantProxy` is a `shared_ptr` to an object
(`Proxies`), named by the Implementation whose logger it refers to, the name it was
added under and a generation. Every action that changes `map` or `handle` goes
through `Store`, which frees what nobody refers to. `Add` replaces the proxy of a
name that is there; `CopyParticipants` is the loop that the copy constructor and the
assignment share; both moves are a swap, which leaves a new System's source with
nothing (`Moved`). `SetValue` stands for the setters of a proxy: priorities and
additional information are one value, and `copyValuesTo` copies it with the name.
All but the discovery runs in one thread and calls no one, so a call is a step.

`DiscoverBegins`, `CheckMember`, `CheckAnswered`, `CheckUnanswered`, `CheckThrows`,
`CheckCrashes` and `DiscoverEnds` are `discoverSystemOnDDS`: the list, the questions to
each participant whether it is standalone, and the removal. There are two of them,
the lookup with `getProperties`, and `getProperty`; the participant may be another one by the
second. Failures are exceptions, but for the legacy `getProperty`, which
answers an empty string after a timeout: those of the participants that are of FEP 2
(`Legacy`) then pass for not standalone (`lost`). `FieldChanges` moves participants between absent,
member, standalone and without configuration (where the code dereferences an empty
proxy) at any time in between. No other call of the client runs meanwhile, since the
System being built is local.

`RegistryContract` has no pointers: a System is a name and a map of participants, and
the proxy a client holds is bound to a member until that is replaced or ends.
`KeepsContract` shows that `SystemRegistry` implements it. That is where an alias
between a System and its copy, a value lost by a move or a proxy that goes on
changing a member it was replaced as would show. Of an assignment it says only that the
participants of the other System arrive with their values. Whether the name and the
participants that were there stay is left open, because the code and its documentation disagree
(finding 4).

### ConfigurationProxy and Configuration

`tree` is the property tree of each participant, flat, with a type and a value per
property. `SetProperty` and `SetPropertyFails` give what a visit comes to: the result
the caller sees and the tree it leaves. The two are separate because a lost reply is
an exception although the property is set. A participant with the new interface
knows its properties and refuses others; below FEP 2.6 the file of the timing client
is set over the AutomationInterface instead (`patched`). The legacy interface creates
what is missing, and may create it at another place: the node `/` is converted
to an empty path but the separators in the name are not converted. So the properties
about values speak of FEP 3 participants only, and the legacy ones take part as a
source of failures. A search that fails leads below FEP 3 to the legacy proxy, from
there on to an empty one, which `setPropertyValue(ToAll)` dereferences.

`configureTiming` is the sequence `Steps` of properties, each for one participant or
for all but one; the variants are its arguments (`Timing...`). `Visit` is the lookup,
`getProperties` and `setProperty` at one participant: a change by others in the
middle of it has the effect it would have had before, and a participant that goes
away in the middle is a lost message and `GoesAway`. `Refused` is the exception that
names `failing`; any other exception ends the call without the list.

A reader copies a node meanwhile: names first, then each property, by one call
through the new proxy (`ReadPair`) and by two through the legacy one (`ReadValue`,
`ReadType`), whose errors may read as empty strings (`ReadsNothing`). `disturbed`
remembers who went away or was configured by others during a call, `seen` what each
property has been during a copy; both are history.

## 3. Runs

| Run | Instance | Shows |
|---|---|---|
| `control_faults` | 2 participants, one of them standalone, 2 calls, 1 fault, slow answers, fairness | the contract of control calls; calls advance and return; a successful stop takes effect and is final |
| `control_barrier` | 3 participants with different and tied priorities, a second empty System, 2 calls, no fault | nobody is started before all are ready; a quiet success lasts |
| `control_race` | 2 Systems over the same 2 participants, one call each or two of one, from `FS_IDLE`, `FS_RUNNING`, `FS_ERROR` | of two calls that both succeed one has won everybody |
| `control_start_doc` | 2 participants, one start, 1 fault, slow answers | **violated**: `start` succeeds without having seen everybody running |
| `control_stop_doc` | 3 participants, one stop, no fault | **violated**: `CE_Stop` goes out in no order of the start priorities |
| `logger_threads` | 2 threads, 2 callback threads, 3 calls, 2 callbacks, 1 refusal, monitors that call every function | safety of the monitoring, and the deadlocks that monitors make as the only ones |
| `proxy_lookup` | FEP 2.5, 2.6 and 3.0, 2 restarts, 2 lookups, 2 operations, 1 fault | lookups and outcomes are truthful |
| `proxy_null` | same | **violated**: a missing connection is dereferenced |
| `registry` | 2 Systems, 2 names, one of FEP 2, 3 Implementations, 5 calls, 1 change in the field | Systems are values; proxies refer to the logger of their System; discoveries are faithful |
| `registry_assign` | 2 Systems, 3 names, 6 calls | **violated**: an assigned System keeps its own participants |
| `discovery_doc` | 1 discovery, nothing changes in the field | **violated**: a standalone participant becomes part of the System |
| `configuration` | 2 participants of FEP 3 and one of 2.5, 8 timings (one with an unknown master), 2 calls, 2 troubles | what the end of `configureTiming` says is true; one simulation master; copied pairs are real |

Why the bounds are enough. Two participants give every relation between a visited
and an unvisited one, an answering and a silent one; the third of `control_barrier`
separates priority order from name order and has ties. Two calls let a call meet
what an earlier one left behind; one fault can hit at any step, and faults are what
the bound limits, not their place. Two polls are one that is not the last and one
that may be. In
`control_faults` the check of `start` finds the standalone participant and throws, or misses
it, and then the rounds of `start` run, fail, time out and leave their events behind for
the second call. Two mirrors are needed to replace one, three calls for two threads, or a
thread and a monitor, to meet with a third that follows, one refusal for a half
registration. A monitor makes one call in a notification, and none in a nested one: what
a second call would meet, a second notification meets too. The run has `WaitsForCaller =
FALSE`, which lets a monitor survive its unregistration; its properties hold with `TRUE`
as well, and the proofs cover both. Two restarts
are an absence and a return in another version.

In `registry_assign` a System with one participant is assigned one that has two others, the
least in which an assignment can be told from every other call. Two Systems and three Implementations let one be copied, moved onto the other and
replaced; five calls are construct, add, get, set and one that must or must not see
it. Three generations are the proxy in the map, the one a client kept and the one
being added. Systems and their names are symmetric; participants are not, since
their order counts. In `configuration` two calls exchange one master for the other,
or let a copy run along a call; two troubles are a participant that goes and comes
back, a refusal and a lost message, or a change by others between two reads. The
third participant lacks the step size and has the trigger mode, so that rounds refuse
at different places without any trouble. Others set the time factor and the
file of the timing client, never a clock: two processes that configure the timing at once can appoint two masters, and nothing
in the code or its documents says otherwise.

Deadlock is not checked: in every instance the environment may stop calling. For
the logger the absence of deadlock is part of `CallsReturn` and, as an invariant,
`OnlyMonitorDeadlocks`: `Blocked` says of each step what it waits for. Both name the two ways
in which a monitor that calls its System brings everybody to a halt: `LockInversion`,
a callback that holds the lock of the mirror and needs `_logging_sync`, whose owner needs that
mirror or waits for its callbacks; and `SelfWait`, a notification that unregisters its
own mirror and waits for itself or for a callback behind its lock. `CallsReturn` also
ends where a mirror was freed under its own notification.

Fairness. `SystemControl`: weak fairness of a controller inside a call (its thread
runs and each AutomationInterface call has a timeout) and of a participant that has
something to handle; none of calls, of faults and of reconnections.
`SystemLogger`: weak fairness of an actor inside a call or a notification (`CallStep`,
`NotificationStep`), none of a return into a freed mirror, which is undefined; calls and
callbacks are bounded, so that a lock is not taken away for ever.
The proxies, the registry and the configuration have only safety properties.

`StartBarrier` speaks of a start that found empty inboxes (`quiet`, a history
variable): an event left over by an earlier call that timed out can take a
participant out of `FS_READY`, and that is what the code does. So does
`SuccessHolds`; `StopIsFinal` and `StopTakesEffect` need nothing of the kind, since a `CE_Stop`
stops from every state but `FS_ERROR` and comes last. They hold with faults: a participant that
ends starts again in `FS_STARTUP` and goes to `FS_IDLE` by itself. They leave out whoever is
`struck`: a `CE_Stop` sent to somebody who does not answer goes nowhere, and an error after
the `CE_ErrorFixed` stays. A stop in which some `CE_ErrorFixed` or `CE_Stop` was
refused throws; that it has sent all its commands by then is in the contract.

`SuccessIsUniform` needs polls that wait for all answers: with a silent participant
success says nothing about it, which is the finding of `control_start_doc`. It
speaks of two calls (`calls = 2`) over participants none of which is ready or
initializing at the beginning, because the code promises no more:

- Over two participants in `FS_READY`: the first receives the events of a `stop` before the
  `CE_Initialize` of a `start`, the second after it. The start takes the old `FS_READY`
  of both for its own and sends its `CE_Start`, behind the `CE_Stop` of the first and
  before that of the second. The stop sees the first idle on its way up, the start
  sees the second running on its way down: both succeed, one participant comes to rest
  running, the other one idle.
- With one System and four calls: a `start` and a `stop` time out and leave their events in
  the inboxes; a second `start` sees states that the old events bring about, reports
  success, and the participants end in `FS_READY` and in `FS_RUNNING`.
- With three Systems and one call each, nothing timed out: A has sent all its
  `CE_Start`, C stops behind it, B starts behind that and takes the `FS_READY` and
  `FS_RUNNING` of A's start for its own. All three succeed. One participant then
  handles B's `CE_Start` while it is still initializing and ignores it, another handles it in
  time: `FS_READY` and `FS_RUNNING` again.

All three are states that TLC finds when `InitialStates` has `FS_READY` or when the
conjunct is dropped and the bounds are raised.

`CallAdvances` is `CallTerminates` without the fairness: a step of a call leads to a later
phase, to one poll more of at most `MaxPolls`, or to one participant less to visit or to
hear. A call takes so many steps at most, whatever fails.

## 4. Findings

1. `start` (and `stop`, `shutdown`) report success over participants that did not
   answer: `await_state` validates only those in the last `state_map`, while
   `fep_system.h` says that `start` triggers all participants into `FS_RUNNING` and
   throws on a timeout.
2. `stop` sends its commands in the order of the names, and so does `shutdown`:
   `trigger_participants` sorts for `CE_Initialize` and `CE_Start` only, while
   `fep_system.h` says that `stop` takes the start priority into account.
3. A lookup through a proxy that was added before its participant ran dereferences
   the connection `_info` that was never made; `use_info` should be used in the loop.
4. The copy assignment of `System` keeps the participants that were there and assigns
   `_system_name` to itself: a union under the old name, where `fep_system.h` documents a
   copy.
5. A discovery keeps a FEP 2 participant that runs standalone if the answer to the last
   question times out: the legacy `getProperty` answers an empty string, which
   converts to "not standalone", while `fep_system.h` says that standalone participants
   are not part of the System and that a participant that is not available is an exception.

Noticed while modelling, in the models as the code has it, without a run of their own:

- `setSeverityLevel` has no effect on what a monitor receives, against the documentation of
  `IEventMonitor::onLog`: no `onLog` of the mirror reads `_level`.
- `StateMachineProxy::stop` calls `initialize` of the stub. The functional test of
  `stop` meets only FEP 2 participants without a state machine component and thus
  only the legacy proxy.
- A monitor that unregisters itself from inside a notification waits for itself or returns
  into the mirror that was freed meanwhile, depending on the AutomationInterface.
- `rename` reports nothing when it fails, and neither then nor on success changes the
  map: the System goes on with the old name.
- `isParticipantStandalone` and `setPropertyValue(ToAll)` dereference a configuration
  proxy that a lookup may leave empty.
- The domain of the AutomationInterface is that of its first use in the process,
  whatever a later `discoverSystemOnDDS` asks for.
- `normalizeName` of the new proxy throws `out_of_range` for an empty name and for
  `/`; `setProperty` of the legacy one does not convert the separators of a name.

## 5. Proofs

`SystemControl_proofs` proves `TypeCorrect`: `Spec => []TypeOK`, with a lemma per
operator that moves a call on (`ProceedType`, `ReturnType`) and one step per action;
and `ControlKeepsContract`: `Spec => KeepsContract`, for every number of Systems and
participants, all priorities and any number of faults. The contract alone is not
inductive for the implementation: that a call succeeds only if no command was
refused, and that a stop throws only after all its commands, needs that failures do not survive into a poll, that `todo` holds members
only and that the phase belongs to the operation. This is `CallInv`, proved in
`CallInvariant` together with `TypeOK`. The refinement proof then has one lemma per
kind of step: trigger steps are `Send`, the end of the last phase is `Succeed`,
exceptions are `Throw`, all else stutters. `CallsAdvance` (`CallAdvances`) rests on
`CallInv`, too: that no phase comes twice is a matter of the operation it belongs to.

`SystemControlBarrier_proofs` is about the participants themselves. `Undisturbed`
says what the run `control_barrier` fixes by constants: no faults, polls that wait
for the slow, no shared participants. `BarrierInv` says what can be in the inboxes
during and after a call that began quietly, namely the commands of this call,
and that whoever was seen in the awaited state is in one the commands of
the call cannot take it out of (`Reached`). Without the first part the second is not
inductive, and the property alone says nothing of the phases before. `BarrierHolds`
(`StartBarrier`) and `SuccessLasts` (`SuccessHolds`) follow. `StopHolds` (`StopIsFinal`)
needs only `Unshared`: the polls may give up, and any number of faults may come. Its
invariant `StopInv` says of who is not `struck` that, if he is in error, he still has a
`CE_ErrorFixed` to handle once the first round of `stop` has passed him, and that the
last thing he has to handle, or has handled, is a `CE_Stop` once the second has. Of whoever
does not answer although not struck it adds that he has ended: his inbox is empty, and he
starts again in a state from which he gets to `FS_IDLE`. `FaultKeepsStop` is the lemma about
faults. With a second controller of the same participant it is false, and so is the
property.

`SystemControlRace_proofs` is about two controllers of the same participants and proves
`RaceHolds` (`SuccessIsUniform`). It assumes what the run fixes by constants: `Prompt`, no
faults and polls that wait for the slow, and `NobodyReady`, no participant ready or about
to be at the beginning. Systems, participants, priorities and bounds are arbitrary.
`Once(c, d)` says that nobody but c and d has called and neither of them twice; as the number
of calls only grows, a state in which both have succeeded after two calls has been `Once`
all the time (`CountInv`, `OnceBack`). From there `RaceInv` says

- that the inboxes hold the commands of these two calls only (`SaidInv`);
- that a controller whose opponent wants the same, or who shuts down, is right about whom it
  has seen in the state it awaits (`PrevailInv`). What remains is a start against
  a stop;
- that a participant the start has seen ready has handled the one `CE_Initialize` of this
  start, and has not started before it was sent `CE_Start` (`StartInv`). This is where
  `NobodyReady` is needed;
- that, with the start behind its barrier and all commands of the stop sent, either
  whoever the stop has seen idle stays idle (`StopWins`), or no `CE_Stop` lies behind a
  `CE_Start` in any inbox and whoever the start has seen running stays running
  (`StartWins`). It depends on who comes there second: the start has then sent no
  `CE_Start` yet, or the stop has seen nobody.

The order of events in an inbox is `NoneBehind`; `AppendContains` and `TailContains` say what
sending and handling do to it.

`SystemLogger_proofs` proves the seven invariants of the run `logger_threads` from `IInv`,
for both values of `WaitsForCaller`: who is past his `lock_guard` owns `_logging_sync`, also
in a nested call (`LockOwner`); what an actor, and what the owner of that lock, has in hand
at each step (`ActorPhase`, `OwnerPhase`); that a notification goes through a registration
in force or the current mirror until its own monitor takes that out (`TargetKept`); that the
lock of a mirror is owned by who is in its monitor, as long as the mirror lives
(`MonitorLocked`); that only the current mirror is registered, and not even
that one where it is about to be dropped (`CurrentOnly`); and where the two levels
agree (`LevelKept`). Two registrations of one mirror, two recursive locks and calls from
inside are why none of the properties is inductive alone. `MirrorBudget` says only that the
bound on mirrors leaves room for those still to be made. `DeadlocksAreOfMonitors`
(`OnlyMonitorDeadlocks`) follows a wait from owner to owner: if all wait, the owner of
`_logging_sync` waits for a mirror or for a callback in it, whoever holds that mirror is in
its monitor, and of the waiting only who calls the System back is there (`InsideWaits`,
`HolderOfMirror`): the owner himself, or a callback that needs his lock.

`ParticipantProxy_proofs` proves `AnswerIsJustified` from `LookupInv`: a running lookup
has met whoever is there, and if it met one participant only, that one answered all
the time (`RunningInv`); a search uses the cached connection if there is one
(`ConnectionInv`); over a legacy connection the components that offer the interface
are still to be asked (`SearchInv`). That a reconnection happens only without a cached
connection had to be added: the step that makes one would otherwise break
`ConnectionInv`. `StateMachineProxy_proofs` adds the client: its steps either are those of
the proxy or leave it alone, and `CallInv` counts the effects of a call before and
after it is served, from which `OutcomeIsTrue` follows.

`SystemRegistry_proofs` has `RInv`: the map of an Implementation holds proxies made for it,
under their names (`MapsOK`); exactly those exist that somebody refers to
(`ObjectsOK`); an Implementation belongs to one System at most (`OwnersOK`); what a
discovery has learned (`DiscoveryOK`). `OwnLogger` is then immediate, and
`DiscoveryIsFaithful` is about the one step in which a discovery returns; it needed
that nobody already found to be standalone is still to be asked, and for whom each one that
was asked is taken (`TakenFor`).
`RegistryKeepsContract` shows the refinement, one lemma per call: that each changes the
value of the System it is about and of no other rests on `OwnersOK` and on `MapsOK`,
without which a step could write to a proxy two maps share.

`Configuration_proofs` has `IInv`: what a copy has read was there to be read (`CopyInv`, with
at most one property of which only the value has been read), where
`configureTiming` is (`CallInv`), that each step already taken holds for those it
served and nobody disturbed (`ServedInv`), and that when the new master gets its clock
the others have lost theirs (`ClockInv`). `SuccessConfiguresAll` is the last step of
`ServedInv` for each property of the timing.

Assumptions of the proofs are the named assumptions on the constants; TLC evaluates them
in the runs. Those that say more than that a constant has its type:

- `LoggerAssumption`: there is a highest severity, as in the enumeration of the code.
- `ProfilesAssumption`: a participant has a version, info services and components;
  the info service is none of the interfaces one looks up.
- `RegistryAssumption`, `NoneAssumption`: there are three generations of proxies, those a
  map holds, those a client kept and one to be made, so that a new proxy is
  always distinct; the marks for "none" and "moved from" are no values.
- `TreeAssumption`: the tree of a participant says of every property name whether
  there is such a property, and then has a type and a value.
- `TimingsAssumption`: the timings are those the eight variants make; in particular none
  gives the slaves the clock of a master. The general `configureTiming` of the
  public interface takes any clock for them, and `OneMasterClock` is not a promise
  about those calls.
- `ClockAssumption`: nobody starts as a master, and what others set is no clock
  (see section 3).

Only model-checked: `CallTerminates`, `StopTakesEffect` and `CallsReturn`, since liveness is
out of the prover's reach, and the five properties that are violated. The safety half of
each of the three is proved: `CallAdvances`, `StopIsFinal` and `OnlyMonitorDeadlocks`. What
TLC adds is that a call under way always has a step to take, and fairness.

## 6. Not modelled

Message texts, time stamps and the formatting of errors; the AutomationInterface
and RPC transport beyond what the code relies on; the data registry proxies
(stateless queries of one call each); `getSystemState` and
`getAvailableParticipants` (one forwarded call); the example and the build. Property
paths are abstract names: `normalizeName`, `normalizePath`, the check of a path
against a regular expression and the conversions between strings and typed values are
left out. The name of the System that a proxy keeps for its log messages is left out,
too. A call on a System that was moved from is undefined, and the models do not make
it. A monitor calls its System once in a notification and not in a nested one; it does not
destroy it from there. The undefined behaviour of `HandleGlobalIncident` on a null description and of
the unlocked map of participants is listed as a hazard or here only. `rename` is no
action of `SystemRegistry`, since it changes nothing of a System.

## 7. Plan

1. `SuccessHolds` and `StartBarrier` with faults, for those participants that met none.
2. The standalone check of `start` over a field that changes, as the discovery has it.
