---------------------------- MODULE SystemLogger ----------------------------
(***************************************************************************)
(* The monitoring of one System (system_logger.h): threads that register   *)
(* and unregister event monitors, log, and set the severity level, while   *)
(* the AutomationInterface calls back on threads of its own, and monitors  *)
(* that call their System again from inside a notification.                *)
(*                                                                         *)
(* Two kinds of recursive mutexes are involved: _logging_sync of the       *)
(* logger, and _monitor_access_sync of each EventMonitorMirror.  The       *)
(* mirror stands between the AutomationInterface and the user's monitor;   *)
(* the logger owns it (_emm) and frees it when it is replaced.             *)
(*                                                                         *)
(* Of the AutomationInterface, which is not part of this code, the model   *)
(* has what the logger relies on when it frees a mirror: unregistering     *)
(* returns when no callback through that registration is running.  Whether *)
(* this includes a callback that unregisters itself is left open.          *)
(***************************************************************************)
EXTENDS Naturals, FiniteSets

CONSTANTS
  Threads,      \* threads that use the System
  Callbacks,    \* threads of the AutomationInterface
  Monitors,     \* IEventMonitor objects of the user
  Severities,   \* severities used, as increasing numbers: 0 is SEVERITY_INFO, the default
  Reentrant,    \* operations of the System that monitors call from inside a notification
  WaitsForCaller,  \* does unregistering wait for the callback it is called from?
  MaxMirrors,   \* bound on mirrors ever made
  MaxOps,       \* bound on calls, of the threads and of the monitors
  MaxEvents,    \* bound on callbacks
  MaxRefusals,  \* bound on registrations the AutomationInterface refuses
  Null          \* no thread, no mirror

Actors == Threads \cup Callbacks
Mirrors == 1..MaxMirrors
Operations == {"register", "unregister", "log", "setSeverity"}
Deliveries == {"event", "incident"}

ASSUME LoggerAssumption ==
  /\ Threads \cap Callbacks = {}
  /\ Null \notin Actors \cup Mirrors
  /\ Severities \subseteq Nat /\ 0 \in Severities
  /\ \E s \in Severities : \A r \in Severities : r <= s
  /\ Reentrant \subseteq Operations /\ WaitsForCaller \in BOOLEAN
  /\ MaxMirrors \in Nat /\ MaxOps \in Nat /\ MaxEvents \in Nat /\ MaxRefusals \in Nat

VARIABLES
  pc,           \* pc[a]: where the actor is, in its innermost call
  op,           \* op[a]: the operation of the System it calls, or called last
  sev,          \* sev[a]: severity of its message, or the level it sets
  monitor,      \* monitor[a]: the monitor given to registerMonitor
  kind,         \* kind[a]: what a callback delivers
  target,       \* target[a]: the mirror whose notification the actor is in, or on the way to
  nested,       \* actors whose monitor has called the System from inside a notification
  logLock,      \* owner of _logging_sync
  mirrorLock,   \* mirrorLock[m]: owner of _monitor_access_sync of mirror m
  emm,          \* _emm of the logger
  alive,        \* mirrors that have been made and not been freed
  made,         \* mirrors made so far
  monitorOf,    \* monitorOf[m]: _monitor of mirror m
  level,        \* _level of the logger
  mirrorLevel,  \* mirrorLevel[m]: _level of mirror m
  monitoring,   \* mirrors registered by RegisterMonitoring
  strategy,     \* mirrors associated by AssociateCatchAllStrategy
  ops, events, refusals   \* counters of the bounds

callVars == <<op, sev, monitor>>
noteVars == <<kind, target, nested>>
mirrorVars == <<emm, alive, made, monitorOf, level, mirrorLevel>>
aiVars == <<monitoring, strategy>>
bounds == <<ops, events, refusals>>
vars == <<pc, callVars, noteVars, logLock, mirrorLock, mirrorVars, aiVars, bounds>>

ErrorSeverity == CHOOSE s \in Severities : \A r \in Severities : r <= s

\* The program counters: waiting for _logging_sync, holding it, the steps of registerMonitor
\* and unregisterMonitor, on the way into a monitor, in it, and in it again after a call back
\* into the System.
PCs == {"idle", "acquire", "locked", "disassociate", "drop", "create", "register",
        "associate", "enter", "setLevel", "inMonitor", "leave", "release"}

Init ==
  /\ pc = [a \in Actors |-> "idle"]
  /\ op = [a \in Actors |-> "log"]
  /\ sev = [a \in Actors |-> 0]
  /\ monitor \in [Actors -> Monitors]
  /\ \A a, b \in Actors : monitor[a] = monitor[b]
  /\ kind = [a \in Callbacks |-> "event"]
  /\ target = [a \in Actors |-> Null]
  /\ nested = {}
  /\ logLock = Null
  /\ mirrorLock = [m \in Mirrors |-> Null]
  /\ emm = Null /\ alive = {} /\ made = 0
  /\ monitorOf \in [Mirrors -> Monitors]
  /\ \A m, n \in Mirrors : monitorOf[m] = monitorOf[n]
  /\ level = 0
  /\ mirrorLevel = [m \in Mirrors |-> 0]
  /\ monitoring = {} /\ strategy = {}
  /\ ops = 0 /\ events = 0 /\ refusals = 0

Goto(a, l) == pc' = [pc EXCEPT ![a] = l]

-----------------------------------------------------------------------------
(* The calls of the System, by the users' threads and by monitors.          *)

\* The actors in registerMonitor that have not made their mirror yet.
Registering ==
  {a \in Actors : op[a] = "register"
                    /\ pc[a] \in {"acquire", "locked", "disassociate", "drop", "create"}}

\* registerMonitoring, unregisterMonitoring, setSeverityLevel, or another function of the
\* System that logs a message, is called.
Enters(a, o, s, mon) ==
  /\ ops < MaxOps
  /\ o = "register" => made + Cardinality(Registering) < MaxMirrors
  /\ o \notin {"log", "setSeverity"} => s = 0
  /\ o # "register" => mon = monitor[a]
  /\ Goto(a, "acquire")
  /\ op' = [op EXCEPT ![a] = o]
  /\ sev' = [sev EXCEPT ![a] = s]
  /\ monitor' = [monitor EXCEPT ![a] = mon]
  /\ ops' = ops + 1
  /\ UNCHANGED <<kind, target, logLock, mirrorLock, mirrorVars, aiVars, events, refusals>>

Call(t, o, s, mon) ==
  /\ pc[t] = "idle"
  /\ Enters(t, o, s, mon)
  /\ UNCHANGED nested

\* A monitor calls the System it is notified by, on the thread that notifies it and under
\* the locks this holds.  It does so once in a notification, and not in one that is nested.
CallSystem(a, o, s, mon) ==
  /\ pc[a] = "inMonitor" /\ a \notin nested
  /\ o \in Reentrant
  /\ nested' = nested \cup {a}
  /\ Enters(a, o, s, mon)

\* Every function begins with a lock_guard on _logging_sync, which is recursive.
Acquire(a) ==
  /\ pc[a] = "acquire" /\ logLock \in {Null, a}
  /\ logLock' = a
  /\ Goto(a, "locked")
  /\ UNCHANGED <<callVars, noteVars, mirrorLock, mirrorVars, aiVars, bounds>>

\* No callback of this kind runs through mirror m, or only the one that asks.
Quiescent(m, k, a) ==
  \A b \in Callbacks : target[b] = m /\ kind[b] = k => b = a /\ ~WaitsForCaller

\* MUTANT: the mirror is freed first and unregistered afterwards.
UnregisterMonitoring_AfterFree(a) ==
  /\ pc[a] = "locked" /\ op[a] \in {"register", "unregister"} /\ emm # Null
  /\ alive' = alive \ {emm}
  /\ monitoring' = monitoring \ {emm}
  /\ Goto(a, "disassociate")
  /\ UNCHANGED <<callVars, noteVars, logLock, mirrorLock, emm, made, monitorOf, level,
                 mirrorLevel, strategy, bounds>>

\* unregisterMonitor, called by the user or by registerMonitor: it takes the current
\* mirror out, whichever monitor it was made for.
UnregisterMonitoring(a) ==
  /\ pc[a] = "locked" /\ op[a] \in {"register", "unregister"} /\ emm # Null
  /\ Quiescent(emm, "event", a)
  /\ monitoring' = monitoring \ {emm}
  /\ Goto(a, "disassociate")
  /\ UNCHANGED <<callVars, noteVars, logLock, mirrorLock, mirrorVars, strategy, bounds>>

\* MUTANT: DisassociateCatchAllStrategy is forgotten.
DisassociateStrategy_Forgotten(a) ==
  /\ pc[a] = "disassociate"
  /\ Goto(a, "drop")
  /\ UNCHANGED <<callVars, noteVars, logLock, mirrorLock, mirrorVars, aiVars, bounds>>

DisassociateStrategy(a) ==
  /\ pc[a] = "disassociate"
  /\ Quiescent(emm, "incident", a)
  /\ strategy' = strategy \ {emm}
  /\ Goto(a, "drop")
  /\ UNCHANGED <<callVars, noteVars, logLock, mirrorLock, mirrorVars, monitoring, bounds>>

AfterUnregister(a) == IF op[a] = "register" THEN "create" ELSE "release"

\* MUTANT: _emm is reset only by registerMonitor.
DropMirror_KeepsPointer(a) ==
  /\ pc[a] = "drop"
  /\ alive' = alive \ {emm}
  /\ Goto(a, AfterUnregister(a))
  /\ UNCHANGED <<callVars, noteVars, logLock, mirrorLock, emm, made, monitorOf, level,
                 mirrorLevel, aiVars, bounds>>

\* The last reference goes and the mirror is freed, also when the caller is inside its onLog.
DropMirror(a) ==
  /\ pc[a] = "drop"
  /\ alive' = alive \ {emm}
  /\ emm' = Null
  /\ Goto(a, AfterUnregister(a))
  /\ UNCHANGED <<callVars, noteVars, logLock, mirrorLock, made, monitorOf, level,
                 mirrorLevel, aiVars, bounds>>

NothingRegistered(a) ==
  /\ pc[a] = "locked" /\ op[a] \in {"register", "unregister"} /\ emm = Null
  /\ Goto(a, AfterUnregister(a))
  /\ UNCHANGED <<callVars, noteVars, logLock, mirrorLock, mirrorVars, aiVars, bounds>>

\* MUTANT: a new mirror has the default level.
CreateMirror_DefaultLevel(a) ==
  /\ pc[a] = "create"
  /\ made' = made + 1
  /\ emm' = made + 1
  /\ alive' = alive \cup {made + 1}
  /\ monitorOf' = [monitorOf EXCEPT ![made + 1] = monitor[a]]
  /\ mirrorLevel' = [mirrorLevel EXCEPT ![made + 1] = 0]
  /\ Goto(a, "register")
  /\ UNCHANGED <<callVars, noteVars, logLock, mirrorLock, level, aiVars, bounds>>

\* registerMonitor goes on: a mirror with the level of the logger, then the two registrations.
CreateMirror(a) ==
  /\ pc[a] = "create"
  /\ made' = made + 1
  /\ emm' = made + 1
  /\ alive' = alive \cup {made + 1}
  /\ monitorOf' = [monitorOf EXCEPT ![made + 1] = monitor[a]]
  /\ mirrorLevel' = [mirrorLevel EXCEPT ![made + 1] = level]
  /\ Goto(a, "register")
  /\ UNCHANGED <<callVars, noteVars, logLock, mirrorLock, level, aiVars, bounds>>

Registered(a) ==
  /\ \/ /\ pc[a] = "register" /\ Goto(a, "associate")
        /\ monitoring' = monitoring \cup {emm}
        /\ UNCHANGED strategy
     \/ /\ pc[a] = "associate" /\ Goto(a, "release")
        /\ strategy' = strategy \cup {emm}
        /\ UNCHANGED monitoring
  /\ UNCHANGED <<callVars, noteVars, logLock, mirrorLock, mirrorVars, bounds>>

\* The AutomationInterface refuses: the new mirror logs an error and an exception is
\* thrown.  The mirror stays in _emm, and a first registration stays in force.
RegistrationRefused(a) ==
  /\ pc[a] \in {"register", "associate"}
  /\ refusals < MaxRefusals /\ refusals' = refusals + 1
  /\ sev' = [sev EXCEPT ![a] = ErrorSeverity]
  /\ Goto(a, "enter")
  /\ UNCHANGED <<op, monitor, noteVars, logLock, mirrorLock, mirrorVars, aiVars, ops, events>>

\* log forwards to the mirror, if there is one.
LogMessage(a) ==
  /\ pc[a] = "locked" /\ op[a] = "log"
  /\ Goto(a, IF emm = Null THEN "release" ELSE "enter")
  /\ UNCHANGED <<callVars, noteVars, logLock, mirrorLock, mirrorVars, aiVars, bounds>>

\* setSeverityLevel: the level of the logger, then, under its lock, that of the mirror.
SetSeverity(a) ==
  /\ pc[a] = "locked" /\ op[a] = "setSeverity"
  /\ level' = sev[a]
  /\ Goto(a, IF emm = Null THEN "release" ELSE "setLevel")
  /\ UNCHANGED <<callVars, noteVars, logLock, mirrorLock, emm, alive, made, monitorOf,
                 mirrorLevel, aiVars, bounds>>

SetMirrorLevel(a) ==
  /\ pc[a] = "setLevel" /\ mirrorLock[emm] \in {Null, a}
  /\ mirrorLevel' = [mirrorLevel EXCEPT ![emm] = sev[a]]
  /\ Goto(a, "release")
  /\ UNCHANGED <<callVars, noteVars, logLock, mirrorLock, emm, alive, made, monitorOf,
                 level, aiVars, bounds>>

\* The end of a function.  A call from inside a notification goes back into the monitor; it
\* keeps _logging_sync where the notification is that of a thread in log.
Release(a) ==
  /\ pc[a] = "release"
  /\ logLock' = IF a \in nested /\ a \in Threads THEN a ELSE Null
  /\ Goto(a, IF a \in nested THEN "leave" ELSE "idle")
  /\ nested' = nested \ {a}
  /\ UNCHANGED <<callVars, kind, target, mirrorLock, mirrorVars, aiVars, bounds>>

CallStep(a) ==
  \/ Acquire(a) \/ UnregisterMonitoring(a) \/ DisassociateStrategy(a) \/ DropMirror(a)
  \/ NothingRegistered(a) \/ CreateMirror(a) \/ Registered(a) \/ RegistrationRefused(a)
  \/ LogMessage(a) \/ SetSeverity(a) \/ SetMirrorLevel(a) \/ Release(a)

-----------------------------------------------------------------------------
(* Notifications: of messages by threads in log, of everything else by the  *)
(* callbacks of the AutomationInterface.                                    *)

\* A state or name change goes to the registered mirrors, an incident to the associated ones.
Deliver(a, m, k, s) ==
  /\ pc[a] = "idle" /\ events < MaxEvents
  /\ k = "event" => m \in monitoring /\ s = 0
  /\ k = "incident" => m \in strategy
  /\ events' = events + 1
  /\ kind' = [kind EXCEPT ![a] = k]
  /\ sev' = [sev EXCEPT ![a] = s]
  /\ target' = [target EXCEPT ![a] = m]
  /\ Goto(a, "enter")
  /\ UNCHANGED <<op, monitor, nested, logLock, mirrorLock, mirrorVars, aiVars, ops, refusals>>

\* The mirror an actor enters or is in: a callback that of its delivery, a call the current one.
MirrorOf(a) == IF a \in Callbacks /\ a \notin nested THEN target[a] ELSE emm

\* MUTANT: log gives _logging_sync back before it calls the mirror.
EnterMirror_Unlocked(a) ==
  /\ pc[a] = "enter" /\ mirrorLock[MirrorOf(a)] \in {Null, a}
  /\ mirrorLock' = [mirrorLock EXCEPT ![MirrorOf(a)] = a]
  /\ target' = IF a \in nested THEN target ELSE [target EXCEPT ![a] = MirrorOf(a)]
  /\ logLock' = IF a \in Threads \ nested THEN Null ELSE logLock
  /\ Goto(a, "inMonitor")
  /\ UNCHANGED <<callVars, kind, nested, mirrorVars, aiVars, bounds>>

\* MUTANT: OnStateChanged does not lock.
EnterMirror_NoLock(a) ==
  /\ pc[a] = "enter"
  /\ a \in Callbacks \/ mirrorLock[MirrorOf(a)] \in {Null, a}
  /\ mirrorLock' = IF a \in Callbacks THEN mirrorLock ELSE [mirrorLock EXCEPT ![MirrorOf(a)] = a]
  /\ target' = IF a \in nested THEN target ELSE [target EXCEPT ![a] = MirrorOf(a)]
  /\ Goto(a, "inMonitor")
  /\ UNCHANGED <<callVars, kind, nested, logLock, mirrorVars, aiVars, bounds>>

\* onLog, OnStateChanged and the others take the lock of the mirror, which is recursive, and
\* call the monitor of the user.
EnterMirror(a) ==
  /\ pc[a] = "enter" /\ mirrorLock[MirrorOf(a)] \in {Null, a}
  /\ mirrorLock' = [mirrorLock EXCEPT ![MirrorOf(a)] = a]
  /\ target' = IF a \in nested THEN target ELSE [target EXCEPT ![a] = MirrorOf(a)]
  /\ Goto(a, "inMonitor")
  /\ UNCHANGED <<callVars, kind, nested, logLock, mirrorVars, aiVars, bounds>>

\* The monitor returns from a notification made by a call from inside another one.  The lock
\* of the mirror stays where it is, if it is that of the outer notification.
LeaveNested(a) ==
  /\ pc[a] = "inMonitor" /\ a \in nested
  /\ mirrorLock' = [mirrorLock EXCEPT ![emm] = IF emm = target[a] THEN a ELSE Null]
  /\ Goto(a, "release")
  /\ UNCHANGED <<callVars, noteVars, logLock, mirrorVars, aiVars, bounds>>

\* The monitor returns: the lock of the mirror is given back, the callback or log ends.
Leave(a) ==
  /\ pc[a] \in {"inMonitor", "leave"} /\ a \notin nested
  /\ mirrorLock' = [mirrorLock EXCEPT ![target[a]] = Null]
  /\ target' = [target EXCEPT ![a] = Null]
  /\ Goto(a, IF a \in Threads THEN "release" ELSE "idle")
  /\ UNCHANGED <<callVars, kind, nested, logLock, mirrorVars, aiVars, bounds>>

\* MUTANT: the lock of the mirror is not given back.
LeaveMirror_KeepsLock(a) ==
  /\ pc[a] \in {"inMonitor", "leave"} /\ a \notin nested
  /\ target[a] \in alive
  /\ target' = [target EXCEPT ![a] = Null]
  /\ Goto(a, IF a \in Threads THEN "release" ELSE "idle")
  /\ UNCHANGED <<callVars, kind, nested, logLock, mirrorLock, mirrorVars, aiVars, bounds>>

LeaveMirror(a) == target[a] \in alive /\ Leave(a)

\* A monitor that unregistered itself returns into a mirror that has been freed, whose lock is
\* still to be given back.  This is undefined: it may go well, or the actor gets no further.
LeaveFreedMirror(a) == target[a] \notin alive /\ Leave(a)

NotificationStep(a) == EnterMirror(a) \/ LeaveNested(a) \/ LeaveMirror(a)

Next ==
  \/ \E a \in Actors :
       \/ CallStep(a) \/ NotificationStep(a) \/ LeaveFreedMirror(a)
       \/ \E o \in Operations, s \in Severities, mon \in Monitors : CallSystem(a, o, s, mon)
  \/ \E t \in Threads, o \in Operations, s \in Severities, mon \in Monitors : Call(t, o, s, mon)
  \/ \E a \in Callbacks, m \in Mirrors, k \in Deliveries, s \in Severities : Deliver(a, m, k, s)

Spec == Init /\ [][Next]_vars

\* Actors inside a call or a notification keep running; nobody has to call, and no fairness
\* is asked of what is undefined.
FairSpec == Spec /\ \A a \in Actors : WF_vars(CallStep(a) \/ NotificationStep(a))

-----------------------------------------------------------------------------
(* Properties.                                                              *)

\* The variables have their types, and _emm never dangles.
TypeOK ==
  /\ pc \in [Actors -> PCs]
  /\ op \in [Actors -> Operations]
  /\ sev \in [Actors -> Severities]
  /\ monitor \in [Actors -> Monitors]
  /\ kind \in [Callbacks -> Deliveries]
  /\ target \in [Actors -> Mirrors \cup {Null}]
  /\ nested \subseteq Actors
  /\ logLock \in Actors \cup {Null}
  /\ mirrorLock \in [Mirrors -> Actors \cup {Null}]
  /\ made \in 0..MaxMirrors
  /\ alive \subseteq 1..made
  /\ emm \in alive \cup {Null}
  /\ monitorOf \in [Mirrors -> Monitors]
  /\ level \in Severities
  /\ mirrorLevel \in [Mirrors -> Severities]
  /\ monitoring \subseteq Mirrors /\ strategy \subseteq Mirrors
  /\ ops \in 0..MaxOps /\ events \in 0..MaxEvents /\ refusals \in 0..MaxRefusals

\* The mirrors in whose notification an actor is: that of the outer one, and that of a
\* message it has logged from inside.
InMonitor(a) == pc[a] \in {"inMonitor", "leave"} \/ a \in nested
Inside(a) ==
  (IF InMonitor(a) THEN {target[a]} ELSE {})
    \cup (IF pc[a] = "inMonitor" /\ a \in nested THEN {emm} ELSE {})

\* The monitor of the actor unregisters, or has unregistered or replaced, from inside.
Unregisters(a) == op[a] \in {"register", "unregister"} /\ (a \in nested \/ pc[a] = "leave")

\* Between two calls, nothing but the current mirror is registered with the
\* AutomationInterface, whatever was refused and whoever replaced whom: no registration
\* outlives its mirror.
RegisteredIsCurrent ==
  logLock = Null => monitoring \subseteq {emm} /\ strategy \subseteq {emm}

\* Nobody is in a mirror that has been freed, or on the way into it, neither a callback nor a
\* thread that logs, except for the one actor whose own monitor unregistered it from inside:
\* nobody else's mirror is taken away from under it.
NoCallIntoFreedMirror ==
  \A a \in Actors : target[a] # Null /\ target[a] \notin alive => Unregisters(a)

\* A monitor is called by one thread at a time, also while it is unregistered and registered
\* again by others: it needs no synchronisation of its own, as long as it does not exchange
\* its registration from inside a notification.
MonitorCallsAreSerial ==
  \A a, b \in Actors :
    a # b => \A m \in Inside(a) \cap alive, n \in Inside(b) \cap alive :
               monitorOf[m] # monitorOf[n]

\* After unregisterMonitoring returned, and until somebody registers again, nobody is in
\* a monitor or on the way to it, and the user may destroy it; only the notification from
\* which it was unregistered may still have to return.
QuietAfterUnregister ==
  logLock = Null /\ emm = Null
    => \A a \in Actors : target[a] # Null => Unregisters(a) /\ pc[a] = "leave"

\* The level a mirror got when it was made, or since, is the one that was set last.
LevelIsCurrent ==
  logLock = Null /\ emm # Null => mirrorLevel[emm] = level

\* What keeps an actor inside a call from its next step: a lock somebody else owns, or, where
\* it unregisters a mirror, a callback that runs through it.
WaitsForMirror(a) ==
  \/ pc[a] = "enter" /\ mirrorLock[MirrorOf(a)] \notin {Null, a}
  \/ pc[a] = "setLevel" /\ mirrorLock[emm] \notin {Null, a}

WaitsForCallbacks(a) ==
  \/ /\ pc[a] = "locked" /\ op[a] \in {"register", "unregister"} /\ emm # Null
     /\ ~Quiescent(emm, "event", a)
  \/ pc[a] = "disassociate" /\ ~Quiescent(emm, "incident", a)

Blocked(a) ==
  \/ pc[a] = "acquire" /\ logLock \notin {Null, a}
  \/ WaitsForMirror(a) \/ WaitsForCallbacks(a)

\* The two locks taken in opposite orders: a callback holds the lock of its mirror and needs
\* _logging_sync for a call into the System, whose owner waits for that mirror.
LockInversion ==
  \E a \in Callbacks, b \in Actors :
    /\ a \in nested /\ pc[a] = "acquire" /\ logLock = b /\ b # a
    /\ target[a] = emm
    /\ WaitsForMirror(b) \/ WaitsForCallbacks(b)

\* A monitor unregisters its mirror from inside a notification of it, and waits for a callback
\* that cannot go on before this notification is over: its own, or one that needs the lock
\* of the mirror.
SelfWait == \E a \in nested : target[a] = emm /\ WaitsForCallbacks(a)

\* Whenever somebody is inside a call or a callback and all who are wait for each other, a
\* monitor that calls its System brought it about, in one of these two ways: neither the wait
\* for callbacks under _logging_sync, nor a refused registration, nor an exchange of mirrors,
\* nor the recursion of the locks makes another deadlock.
OnlyMonitorDeadlocks ==
  (/\ \E a \in Actors : pc[a] # "idle"
   /\ \A a \in Actors : pc[a] # "idle" => Blocked(a))
    => LockInversion \/ SelfWait

\* Every call and every callback comes to its end, unless a monitor that called its System
\* brought about one of the two deadlocks or a return into a freed mirror.
CallsReturn ==
  \A a \in Actors :
    pc[a] # "idle" ~> \/ pc[a] = "idle"
                      \/ LockInversion \/ SelfWait
                      \/ \E b \in Actors : target[b] # Null /\ target[b] \notin alive
=============================================================================
