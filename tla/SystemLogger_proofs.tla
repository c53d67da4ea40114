------------------------ MODULE SystemLogger_proofs ------------------------
(***************************************************************************)
(* Proofs about SystemLogger for every set of threads, callbacks, monitors *)
(* and severity levels, whatever the monitors call from inside their       *)
(* notifications, whether unregistering waits for its own callback or not, *)
(* and for all bounds.                                                     *)
(***************************************************************************)
EXTENDS SystemLogger, FiniteSetTheorems, TLAPS

-----------------------------------------------------------------------------
(* The inductive invariant.                                                 *)

\* An actor owns _logging_sync: a thread from its lock_guard on to the end of the function, a
\* callback only while its monitor is inside a function of the System.
Past(a) ==
  IF a \in Threads THEN pc[a] # "idle" /\ (pc[a] = "acquire" => a \in nested)
                   ELSE a \in nested /\ pc[a] # "acquire"

LockOwner == \A a \in Actors : Past(a) <=> logLock = a

\* Where threads and callbacks can be, inside and outside of a notification.
ActorPhase ==
  \A a \in Actors :
    /\ a \in nested => pc[a] \notin {"idle", "leave"} /\ target[a] # Null
    /\ pc[a] = "leave" => target[a] # Null
    /\ a \notin nested =>
         /\ a \in Threads => (target[a] # Null <=> pc[a] \in {"inMonitor", "leave"})
         /\ a \in Callbacks => /\ pc[a] \in {"idle", "enter", "inMonitor", "leave"}
                               /\ target[a] # Null <=> pc[a] # "idle"

\* What the owner of _logging_sync has found or made by the step it is at.
OwnerPhase ==
  \A a \in Actors :
    /\ pc[a] \in {"create", "register", "associate"} => op[a] = "register"
    /\ pc[a] \in {"disassociate", "drop"} => op[a] \in {"register", "unregister"}
    /\ pc[a] = "create" => emm = Null
    /\ pc[a] \in {"disassociate", "drop", "register", "associate", "setLevel"} => emm # Null
    /\ pc[a] \in {"enter", "inMonitor"} /\ (a \in Threads \/ a \in nested) => emm # Null

\* The monitor of the actor has taken out the mirror it is notified by.
TakenOut(a) == Unregisters(a) /\ pc[a] \notin {"acquire", "locked"}

\* Everybody else's mirror is the current one, and the registration a callback came through is
\* in force.
TargetKept ==
  \A a \in Actors :
    target[a] # Null /\ ~TakenOut(a) =>
      /\ target[a] = emm
      /\ a \in Callbacks => emm \in (IF kind[a] = "event" THEN monitoring ELSE strategy)

\* _monitor_access_sync of a mirror is owned exactly by who is in its notification.
MonitorLocked ==
  \A m \in Mirrors, a \in Actors : mirrorLock[m] = a <=> m \in Inside(a)

\* Only the current mirror is alive and registered, and not even that one is registered when it
\* is about to go.
CurrentOnly ==
  /\ alive \subseteq {emm} /\ monitoring \subseteq {emm} /\ strategy \subseteq {emm}
  /\ \A a \in Actors : /\ pc[a] \in {"disassociate", "drop"} => monitoring = {}
                       /\ pc[a] = "drop" => strategy = {}

\* The mirror has the level of the logger, or somebody is about to set it.
LevelKept ==
  /\ \A a \in Actors : pc[a] = "setLevel" => sev[a] = level
  /\ emm # Null /\ (\A a \in Actors : pc[a] # "setLevel") => mirrorLevel[emm] = level

\* The bound on mirrors leaves room for those that are still to be made.
MirrorBudget ==
  IsFiniteSet(Registering) /\ made + Cardinality(Registering) <= MaxMirrors

\* The invariant without the bound on mirrors: what the functions do with their state.
LogicInv ==
  /\ TypeOK
  /\ LockOwner /\ ActorPhase /\ OwnerPhase /\ TargetKept
  /\ MonitorLocked /\ CurrentOnly /\ LevelKept

IInv == LogicInv /\ MirrorBudget

-----------------------------------------------------------------------------
(* One lemma for each action.                                               *)

\* The current mirror is one of those that can be made.
LEMMA CurrentIsMirror ==
  ASSUME TypeOK
  PROVE  emm \in Mirrors \cup {Null} /\ alive \subseteq Mirrors
BY LoggerAssumption DEF TypeOK, Mirrors

\* The severity of the message about a refused registration is a severity.
LEMMA ErrorSeverityType == ErrorSeverity \in Severities
BY LoggerAssumption DEF ErrorSeverity

\* Taking _logging_sync, also once more from inside a notification.
LEMMA AcquireKeeps ==
  ASSUME LogicInv, NEW a \in Actors, Acquire(a)
  PROVE  LogicInv'
<1> USE LoggerAssumption DEF Acquire, LogicInv, Goto, callVars, noteVars, mirrorVars,
        aiVars, bounds
<1>1. TypeOK'
  BY CurrentIsMirror DEF TypeOK, PCs, Operations, OwnerPhase, LockOwner, ActorPhase, TargetKept
<1>2. LockOwner' /\ ActorPhase'
  BY DEF TypeOK, Actors, Mirrors, LockOwner, ActorPhase, Past
<1>3. OwnerPhase' /\ LevelKept'
  BY DEF TypeOK, Actors, Mirrors, LockOwner, Past, ActorPhase, OwnerPhase, LevelKept
<1>4. TargetKept'
  BY DEF TypeOK, Actors, Mirrors, LockOwner, Past, ActorPhase, OwnerPhase, TargetKept, TakenOut,
         Unregisters, CurrentOnly
<1>5. CurrentOnly'
  BY DEF TypeOK, Actors, Mirrors, LockOwner, Past, ActorPhase, OwnerPhase, CurrentOnly
<1>6. MonitorLocked'
  BY DEF TypeOK, Actors, Mirrors, LockOwner, Past, ActorPhase, OwnerPhase, MonitorLocked,
         Inside, InMonitor
<1> QED BY <1>1, <1>2, <1>3, <1>4, <1>5, <1>6

\* Unregistering the mirror returns only when nobody else's event runs through it.
LEMMA UnregisterMonitoringKeeps ==
  ASSUME LogicInv, NEW a \in Actors, UnregisterMonitoring(a)
  PROVE  LogicInv'
<1> USE LoggerAssumption DEF UnregisterMonitoring, LogicInv, Goto, callVars, noteVars, mirrorVars,
        aiVars, bounds, Quiescent
<1>1. TypeOK'
  BY CurrentIsMirror DEF TypeOK, PCs, Operations, OwnerPhase, LockOwner, ActorPhase, TargetKept
<1>2. LockOwner' /\ ActorPhase'
  BY DEF TypeOK, Actors, Mirrors, LockOwner, ActorPhase, Past
<1>3. OwnerPhase' /\ LevelKept'
  BY DEF TypeOK, Actors, Mirrors, LockOwner, Past, ActorPhase, OwnerPhase, LevelKept
<1>4. TargetKept'
  BY DEF TypeOK, Actors, Mirrors, LockOwner, Past, ActorPhase, OwnerPhase, TargetKept, TakenOut,
         Unregisters, CurrentOnly
<1>5. CurrentOnly'
  BY DEF TypeOK, Actors, Mirrors, LockOwner, Past, ActorPhase, OwnerPhase, CurrentOnly
<1>6. MonitorLocked'
  BY DEF TypeOK, Actors, Mirrors, LockOwner, Past, ActorPhase, OwnerPhase, MonitorLocked,
         Inside, InMonitor
<1> QED BY <1>1, <1>2, <1>3, <1>4, <1>5, <1>6

\* Nor an incident, when the catch-all strategy is disassociated.
LEMMA DisassociateStrategyKeeps ==
  ASSUME LogicInv, NEW a \in Actors, DisassociateStrategy(a)
  PROVE  LogicInv'
<1> USE LoggerAssumption DEF DisassociateStrategy, LogicInv, Goto, callVars, noteVars, mirrorVars,
        aiVars, bounds, Quiescent
<1>1. TypeOK'
  BY CurrentIsMirror DEF TypeOK, PCs, Operations, OwnerPhase, LockOwner, ActorPhase, TargetKept
<1>2. LockOwner' /\ ActorPhase'
  BY DEF TypeOK, Actors, Mirrors, LockOwner, ActorPhase, Past
<1>3. OwnerPhase' /\ LevelKept'
  BY DEF TypeOK, Actors, Mirrors, LockOwner, Past, ActorPhase, OwnerPhase, LevelKept
<1>4. TargetKept'
  BY DEF TypeOK, Actors, Mirrors, LockOwner, Past, ActorPhase, OwnerPhase, TargetKept, TakenOut,
         Unregisters, CurrentOnly, Deliveries
<1>5. CurrentOnly'
  BY DEF TypeOK, Actors, Mirrors, LockOwner, Past, ActorPhase, OwnerPhase, CurrentOnly
<1>6. MonitorLocked'
  BY DEF TypeOK, Actors, Mirrors, LockOwner, Past, ActorPhase, OwnerPhase, MonitorLocked,
         Inside, InMonitor
<1> QED BY <1>1, <1>2, <1>3, <1>4, <1>5, <1>6

\* The mirror is freed when nobody else is in it or on the way.
LEMMA DropMirrorKeeps ==
  ASSUME LogicInv, NEW a \in Actors, DropMirror(a)
  PROVE  LogicInv'
<1> USE LoggerAssumption DEF DropMirror, LogicInv, Goto, callVars, noteVars, mirrorVars,
        aiVars, bounds, AfterUnregister
<1>1. TypeOK'
  BY CurrentIsMirror DEF TypeOK, PCs, Operations, OwnerPhase, LockOwner, ActorPhase, TargetKept
<1>2. LockOwner' /\ ActorPhase'
  BY DEF TypeOK, Actors, Mirrors, LockOwner, ActorPhase, Past
<1>3. OwnerPhase' /\ LevelKept'
  BY DEF TypeOK, Actors, Mirrors, LockOwner, Past, ActorPhase, OwnerPhase, LevelKept
<1>4. TargetKept'
  BY DEF TypeOK, Actors, Mirrors, LockOwner, Past, ActorPhase, OwnerPhase, TargetKept, TakenOut,
         Unregisters, CurrentOnly
<1>5. CurrentOnly'
  BY DEF TypeOK, Actors, Mirrors, LockOwner, Past, ActorPhase, OwnerPhase, CurrentOnly
<1>6. MonitorLocked'
  BY DEF TypeOK, Actors, Mirrors, LockOwner, Past, ActorPhase, OwnerPhase, MonitorLocked,
         Inside, InMonitor
<1> QED BY <1>1, <1>2, <1>3, <1>4, <1>5, <1>6

\* unregisterMonitor without a mirror changes nothing.
LEMMA NothingRegisteredKeeps ==
  ASSUME LogicInv, NEW a \in Actors, NothingRegistered(a)
  PROVE  LogicInv'
<1> USE LoggerAssumption DEF NothingRegistered, LogicInv, Goto, callVars, noteVars, mirrorVars,
        aiVars, bounds, AfterUnregister
<1>1. TypeOK'
  BY CurrentIsMirror DEF TypeOK, PCs, Operations, OwnerPhase, LockOwner, ActorPhase, TargetKept
<1>2. LockOwner' /\ ActorPhase'
  BY DEF TypeOK, Actors, Mirrors, LockOwner, ActorPhase, Past
<1>3. OwnerPhase' /\ LevelKept'
  BY DEF TypeOK, Actors, Mirrors, LockOwner, Past, ActorPhase, OwnerPhase, LevelKept
<1>4. TargetKept'
  BY DEF TypeOK, Actors, Mirrors, LockOwner, Past, ActorPhase, OwnerPhase, TargetKept, TakenOut,
         Unregisters, CurrentOnly
<1>5. CurrentOnly'
  BY DEF TypeOK, Actors, Mirrors, LockOwner, Past, ActorPhase, OwnerPhase, CurrentOnly
<1>6. MonitorLocked'
  BY DEF TypeOK, Actors, Mirrors, LockOwner, Past, ActorPhase, OwnerPhase, MonitorLocked,
         Inside, InMonitor
<1> QED BY <1>1, <1>2, <1>3, <1>4, <1>5, <1>6

\* A registration that succeeds is one of the current mirror.
LEMMA RegisteredKeeps ==
  ASSUME LogicInv, NEW a \in Actors, Registered(a)
  PROVE  LogicInv'
<1> USE LoggerAssumption DEF Registered, LogicInv, Goto, callVars, noteVars, mirrorVars,
        aiVars, bounds
<1>1. TypeOK'
  BY CurrentIsMirror DEF TypeOK, PCs, Operations, OwnerPhase, LockOwner, ActorPhase, TargetKept
<1>2. LockOwner' /\ ActorPhase'
  BY DEF TypeOK, Actors, Mirrors, LockOwner, ActorPhase, Past
<1>3. OwnerPhase' /\ LevelKept'
  BY DEF TypeOK, Actors, Mirrors, LockOwner, Past, ActorPhase, OwnerPhase, LevelKept
<1>4. TargetKept'
  BY DEF TypeOK, Actors, Mirrors, LockOwner, Past, ActorPhase, OwnerPhase, TargetKept, TakenOut,
         Unregisters, CurrentOnly
<1>5. CurrentOnly'
  BY DEF TypeOK, Actors, Mirrors, LockOwner, Past, ActorPhase, OwnerPhase, CurrentOnly
<1>6. MonitorLocked'
  BY DEF TypeOK, Actors, Mirrors, LockOwner, Past, ActorPhase, OwnerPhase, MonitorLocked,
         Inside, InMonitor
<1> QED BY <1>1, <1>2, <1>3, <1>4, <1>5, <1>6

\* A refused registration leaves the mirror in place and goes on to log.
LEMMA RegistrationRefusedKeeps ==
  ASSUME LogicInv, NEW a \in Actors, RegistrationRefused(a)
  PROVE  LogicInv'
<1> USE LoggerAssumption DEF RegistrationRefused, LogicInv, Goto, callVars, noteVars, mirrorVars,
        aiVars, bounds
<1>1. TypeOK'
  <2>1. pc' \in [Actors -> PCs]
    BY DEF TypeOK, PCs
  <2>2. sev' \in [Actors -> Severities]
    BY ErrorSeverityType DEF TypeOK
  <2> QED BY <2>1, <2>2 DEF TypeOK
<1>2. LockOwner' /\ ActorPhase'
  BY DEF TypeOK, Actors, Mirrors, LockOwner, ActorPhase, Past
<1>3. OwnerPhase' /\ LevelKept'
  BY DEF TypeOK, Actors, Mirrors, LockOwner, Past, ActorPhase, OwnerPhase, LevelKept
<1>4. TargetKept'
  BY DEF TypeOK, Actors, Mirrors, LockOwner, Past, ActorPhase, OwnerPhase, TargetKept, TakenOut,
         Unregisters, CurrentOnly
<1>5. CurrentOnly'
  BY DEF TypeOK, Actors, Mirrors, LockOwner, Past, ActorPhase, OwnerPhase, CurrentOnly
<1>6. MonitorLocked'
  BY DEF TypeOK, Actors, Mirrors, LockOwner, Past, ActorPhase, OwnerPhase, MonitorLocked,
         Inside, InMonitor
<1> QED BY <1>1, <1>2, <1>3, <1>4, <1>5, <1>6

\* log goes to the mirror only if there is one.
LEMMA LogMessageKeeps ==
  ASSUME LogicInv, NEW a \in Actors, LogMessage(a)
  PROVE  LogicInv'
<1> USE LoggerAssumption DEF LogMessage, LogicInv, Goto, callVars, noteVars, mirrorVars,
        aiVars, bounds
<1>1. TypeOK'
  BY CurrentIsMirror DEF TypeOK, PCs, Operations, OwnerPhase, LockOwner, ActorPhase, TargetKept
<1>2. LockOwner' /\ ActorPhase'
  BY DEF TypeOK, Actors, Mirrors, LockOwner, ActorPhase, Past
<1>3. OwnerPhase' /\ LevelKept'
  BY DEF TypeOK, Actors, Mirrors, LockOwner, Past, ActorPhase, OwnerPhase, LevelKept
<1>4. TargetKept'
  BY DEF TypeOK, Actors, Mirrors, LockOwner, Past, ActorPhase, OwnerPhase, TargetKept, TakenOut,
         Unregisters, CurrentOnly
<1>5. CurrentOnly'
  BY DEF TypeOK, Actors, Mirrors, LockOwner, Past, ActorPhase, OwnerPhase, CurrentOnly
<1>6. MonitorLocked'
  BY DEF TypeOK, Actors, Mirrors, LockOwner, Past, ActorPhase, OwnerPhase, MonitorLocked,
         Inside, InMonitor
<1> QED BY <1>1, <1>2, <1>3, <1>4, <1>5, <1>6

\* The level of the logger is set before that of the mirror.
LEMMA SetSeverityKeeps ==
  ASSUME LogicInv, NEW a \in Actors, SetSeverity(a)
  PROVE  LogicInv'
<1> USE LoggerAssumption DEF SetSeverity, LogicInv, Goto, callVars, noteVars, mirrorVars,
        aiVars, bounds
<1>1. TypeOK'
  BY CurrentIsMirror DEF TypeOK, PCs, Operations, OwnerPhase, LockOwner, ActorPhase, TargetKept
<1>2. LockOwner' /\ ActorPhase'
  BY DEF TypeOK, Actors, Mirrors, LockOwner, ActorPhase, Past
<1>3. OwnerPhase' /\ LevelKept'
  BY DEF TypeOK, Actors, Mirrors, LockOwner, Past, ActorPhase, OwnerPhase, LevelKept
<1>4. TargetKept'
  BY DEF TypeOK, Actors, Mirrors, LockOwner, Past, ActorPhase, OwnerPhase, TargetKept, TakenOut,
         Unregisters, CurrentOnly
<1>5. CurrentOnly'
  BY DEF TypeOK, Actors, Mirrors, LockOwner, Past, ActorPhase, OwnerPhase, CurrentOnly
<1>6. MonitorLocked'
  BY DEF TypeOK, Actors, Mirrors, LockOwner, Past, ActorPhase, OwnerPhase, MonitorLocked,
         Inside, InMonitor
<1> QED BY <1>1, <1>2, <1>3, <1>4, <1>5, <1>6

\* Then they are equal.
LEMMA SetMirrorLevelKeeps ==
  ASSUME LogicInv, NEW a \in Actors, SetMirrorLevel(a)
  PROVE  LogicInv'
<1> USE LoggerAssumption DEF SetMirrorLevel, LogicInv, Goto, callVars, noteVars, mirrorVars,
        aiVars, bounds
<1>1. TypeOK'
  BY CurrentIsMirror DEF TypeOK, PCs, Operations, OwnerPhase, LockOwner, ActorPhase, TargetKept
<1>2. LockOwner' /\ ActorPhase'
  BY DEF TypeOK, Actors, Mirrors, LockOwner, ActorPhase, Past
<1>3. OwnerPhase' /\ LevelKept'
  BY DEF TypeOK, Actors, Mirrors, LockOwner, Past, ActorPhase, OwnerPhase, LevelKept
<1>4. TargetKept'
  BY DEF TypeOK, Actors, Mirrors, LockOwner, Past, ActorPhase, OwnerPhase, TargetKept, TakenOut,
         Unregisters, CurrentOnly
<1>5. CurrentOnly'
  BY DEF TypeOK, Actors, Mirrors, LockOwner, Past, ActorPhase, OwnerPhase, CurrentOnly
<1>6. MonitorLocked'
  BY DEF TypeOK, Actors, Mirrors, LockOwner, Past, ActorPhase, OwnerPhase, MonitorLocked,
         Inside, InMonitor
<1> QED BY <1>1, <1>2, <1>3, <1>4, <1>5, <1>6

\* The end of a function gives _logging_sync back, or returns to the notification.
LEMMA ReleaseKeeps ==
  ASSUME LogicInv, NEW a \in Actors, Release(a)
  PROVE  LogicInv'
<1> USE LoggerAssumption DEF Release, LogicInv, Goto, callVars, noteVars, mirrorVars,
        aiVars, bounds
<1>1. TypeOK'
  BY CurrentIsMirror DEF TypeOK, PCs, Operations, OwnerPhase, LockOwner, ActorPhase, TargetKept
<1>2. LockOwner' /\ ActorPhase'
  BY DEF TypeOK, Actors, Mirrors, LockOwner, ActorPhase, Past
<1>3. OwnerPhase' /\ LevelKept'
  BY DEF TypeOK, Actors, Mirrors, LockOwner, Past, ActorPhase, OwnerPhase, LevelKept
<1>4. TargetKept'
  BY DEF TypeOK, Actors, Mirrors, LockOwner, Past, ActorPhase, OwnerPhase, TargetKept, TakenOut,
         Unregisters, CurrentOnly
<1>5. CurrentOnly'
  BY DEF TypeOK, Actors, Mirrors, LockOwner, Past, ActorPhase, OwnerPhase, CurrentOnly
<1>6. MonitorLocked'
  BY DEF TypeOK, Actors, Mirrors, LockOwner, Past, ActorPhase, OwnerPhase, MonitorLocked,
         Inside, InMonitor
<1> QED BY <1>1, <1>2, <1>3, <1>4, <1>5, <1>6

\* A mirror is entered under its lock.
LEMMA EnterMirrorKeeps ==
  ASSUME LogicInv, NEW a \in Actors, EnterMirror(a)
  PROVE  LogicInv'
<1> USE LoggerAssumption DEF EnterMirror, LogicInv, Goto, callVars, noteVars, mirrorVars,
        aiVars, bounds, MirrorOf
<1>1. TypeOK'
  BY CurrentIsMirror DEF TypeOK, PCs, Operations, OwnerPhase, LockOwner, ActorPhase, TargetKept
<1>2. LockOwner' /\ ActorPhase'
  BY DEF TypeOK, Actors, Mirrors, LockOwner, ActorPhase, Past, OwnerPhase
<1>3. OwnerPhase' /\ LevelKept'
  BY DEF TypeOK, Actors, Mirrors, LockOwner, Past, ActorPhase, OwnerPhase, LevelKept
<1>4. TargetKept'
  BY DEF TypeOK, Actors, Mirrors, LockOwner, Past, ActorPhase, OwnerPhase, TargetKept, TakenOut,
         Unregisters, CurrentOnly
<1>5. CurrentOnly'
  BY DEF TypeOK, Actors, Mirrors, LockOwner, Past, ActorPhase, OwnerPhase, CurrentOnly
<1>6. MonitorLocked'
  BY DEF TypeOK, Actors, Mirrors, LockOwner, Past, ActorPhase, OwnerPhase, MonitorLocked,
         Inside, InMonitor
<1> QED BY <1>1, <1>2, <1>3, <1>4, <1>5, <1>6

\* A notification from inside another one gives the lock of its mirror back, unless the
\* outer one holds it.
LEMMA LeaveNestedKeeps ==
  ASSUME LogicInv, NEW a \in Actors, LeaveNested(a)
  PROVE  LogicInv'
<1> USE LoggerAssumption DEF LeaveNested, LogicInv, Goto, callVars, noteVars, mirrorVars,
        aiVars, bounds
<1>1. TypeOK'
  BY CurrentIsMirror DEF TypeOK, PCs, Operations, OwnerPhase, LockOwner, ActorPhase, TargetKept
<1>2. LockOwner' /\ ActorPhase'
  BY DEF TypeOK, Actors, Mirrors, LockOwner, ActorPhase, Past
<1>3. OwnerPhase' /\ LevelKept'
  BY DEF TypeOK, Actors, Mirrors, LockOwner, Past, ActorPhase, OwnerPhase, LevelKept
<1>4. TargetKept'
  BY DEF TypeOK, Actors, Mirrors, LockOwner, Past, ActorPhase, OwnerPhase, TargetKept, TakenOut,
         Unregisters, CurrentOnly
<1>5. CurrentOnly'
  BY DEF TypeOK, Actors, Mirrors, LockOwner, Past, ActorPhase, OwnerPhase, CurrentOnly
<1>6. MonitorLocked'
  BY DEF TypeOK, Actors, Mirrors, LockOwner, Past, ActorPhase, OwnerPhase, MonitorLocked,
         Inside, InMonitor
<1> QED BY <1>1, <1>2, <1>3, <1>4, <1>5, <1>6

\* A notification ends with the lock of its mirror given back, freed or not.
LEMMA LeaveKeeps ==
  ASSUME LogicInv, NEW a \in Actors, Leave(a)
  PROVE  LogicInv'
<1> USE LoggerAssumption DEF Leave, LogicInv, Goto, callVars, noteVars, mirrorVars,
        aiVars, bounds
<1>1. TypeOK'
  BY CurrentIsMirror DEF TypeOK, PCs, Operations, OwnerPhase, LockOwner, ActorPhase, TargetKept
<1>2. LockOwner' /\ ActorPhase'
  BY DEF TypeOK, Actors, Mirrors, LockOwner, ActorPhase, Past
<1>3. OwnerPhase' /\ LevelKept'
  BY DEF TypeOK, Actors, Mirrors, LockOwner, Past, ActorPhase, OwnerPhase, LevelKept
<1>4. TargetKept'
  BY DEF TypeOK, Actors, Mirrors, LockOwner, Past, ActorPhase, OwnerPhase, TargetKept, TakenOut,
         Unregisters, CurrentOnly
<1>5. CurrentOnly'
  BY DEF TypeOK, Actors, Mirrors, LockOwner, Past, ActorPhase, OwnerPhase, CurrentOnly
<1>6. MonitorLocked'
  BY DEF TypeOK, Actors, Mirrors, LockOwner, Past, ActorPhase, OwnerPhase, MonitorLocked,
         Inside, InMonitor
<1> QED BY <1>1, <1>2, <1>3, <1>4, <1>5, <1>6

\* A function of the System is called: nobody is past its lock_guard yet.
LEMMA CallKeeps ==
  ASSUME LogicInv, NEW a \in Threads,
         NEW o \in Operations, NEW s \in Severities, NEW mon \in Monitors, Call(a, o, s, mon)
  PROVE  LogicInv'
<1> USE LoggerAssumption DEF Call, LogicInv, Goto, callVars, noteVars, mirrorVars,
        aiVars, bounds, Enters
<1>1. TypeOK'
  BY CurrentIsMirror DEF TypeOK, PCs, Actors
<1>2. LockOwner' /\ ActorPhase'
  BY DEF TypeOK, Actors, Mirrors, LockOwner, ActorPhase, Past
<1>3. OwnerPhase' /\ LevelKept'
  BY DEF TypeOK, Actors, Mirrors, LockOwner, Past, ActorPhase, OwnerPhase, LevelKept
<1>4. TargetKept'
  BY DEF TypeOK, Actors, Mirrors, LockOwner, Past, ActorPhase, OwnerPhase, TargetKept, TakenOut,
         Unregisters, CurrentOnly
<1>5. CurrentOnly'
  BY DEF TypeOK, Actors, Mirrors, LockOwner, Past, ActorPhase, OwnerPhase, CurrentOnly
<1>6. MonitorLocked'
  BY DEF TypeOK, Actors, Mirrors, LockOwner, Past, ActorPhase, OwnerPhase, MonitorLocked,
         Inside, InMonitor
<1> QED BY <1>1, <1>2, <1>3, <1>4, <1>5, <1>6

\* A monitor calls it: the mirror is still the one of its notification.
LEMMA CallSystemKeeps ==
  ASSUME LogicInv, NEW a \in Actors,
         NEW o \in Operations, NEW s \in Severities, NEW mon \in Monitors, CallSystem(a, o, s, mon)
  PROVE  LogicInv'
<1> USE LoggerAssumption DEF CallSystem, LogicInv, Goto, callVars, noteVars, mirrorVars,
        aiVars, bounds, Enters
<1>1. TypeOK'
  BY CurrentIsMirror DEF TypeOK, PCs, Operations, OwnerPhase, LockOwner, ActorPhase, TargetKept
<1>2. LockOwner' /\ ActorPhase'
  BY DEF TypeOK, Actors, Mirrors, LockOwner, ActorPhase, Past
<1>3. OwnerPhase' /\ LevelKept'
  BY DEF TypeOK, Actors, Mirrors, LockOwner, Past, ActorPhase, OwnerPhase, LevelKept
<1>4. TargetKept'
  BY DEF TypeOK, Actors, Mirrors, LockOwner, Past, ActorPhase, OwnerPhase, TargetKept, TakenOut,
         Unregisters, CurrentOnly
<1>5. CurrentOnly'
  BY DEF TypeOK, Actors, Mirrors, LockOwner, Past, ActorPhase, OwnerPhase, CurrentOnly
<1>6. MonitorLocked'
  BY DEF TypeOK, Actors, Mirrors, LockOwner, Past, ActorPhase, OwnerPhase, MonitorLocked,
         Inside, InMonitor
<1> QED BY <1>1, <1>2, <1>3, <1>4, <1>5, <1>6

\* A callback is delivered to a mirror that is registered for its kind.
LEMMA DeliverKeeps ==
  ASSUME LogicInv, NEW a \in Callbacks,
         NEW m \in Mirrors, NEW k \in Deliveries, NEW s \in Severities, Deliver(a, m, k, s)
  PROVE  LogicInv'
<1> USE LoggerAssumption DEF Deliver, LogicInv, Goto, callVars, noteVars, mirrorVars,
        aiVars, bounds, Deliveries
<1>1. TypeOK'
  BY CurrentIsMirror DEF TypeOK, PCs, Actors
<1>2. LockOwner' /\ ActorPhase'
  BY DEF TypeOK, Actors, Mirrors, LockOwner, ActorPhase, Past
<1>3. OwnerPhase' /\ LevelKept'
  BY DEF TypeOK, Actors, Mirrors, LockOwner, Past, ActorPhase, OwnerPhase, LevelKept
<1>4. TargetKept'
  BY DEF TypeOK, Actors, Mirrors, LockOwner, Past, ActorPhase, OwnerPhase, TargetKept, TakenOut,
         Unregisters, CurrentOnly
<1>5. CurrentOnly'
  BY DEF TypeOK, Actors, Mirrors, LockOwner, Past, ActorPhase, OwnerPhase, CurrentOnly
<1>6. MonitorLocked'
  BY DEF TypeOK, Actors, Mirrors, LockOwner, Past, ActorPhase, OwnerPhase, MonitorLocked,
         Inside, InMonitor
<1> QED BY <1>1, <1>2, <1>3, <1>4, <1>5, <1>6

\* The new mirror is one of those that can be made: its maker is among the registering.
LEMMA RoomForMirror ==
  ASSUME IInv, NEW a \in Actors, pc[a] = "create"
  PROVE  /\ a \in Registering
         /\ made + 1 \in Mirrors
<1>1. a \in Registering
  BY DEF IInv, LogicInv, OwnerPhase, Registering
<1>2. Cardinality(Registering) \in Nat /\ Cardinality(Registering) # 0
  BY <1>1, FS_CardinalityType, FS_EmptySet DEF IInv, MirrorBudget
<1> QED BY <1>1, <1>2, LoggerAssumption DEF IInv, LogicInv, MirrorBudget, TypeOK, Mirrors

\* registerMonitor makes a mirror that nobody can be in, at the level of the logger.
LEMMA CreateMirrorKeeps ==
  ASSUME IInv, NEW a \in Actors, CreateMirror(a)
  PROVE  LogicInv'
<1> USE LoggerAssumption DEF CreateMirror, IInv, LogicInv, Goto, callVars, noteVars, mirrorVars,
        aiVars, bounds
<1>1. made + 1 \in Mirrors /\ Null \notin Mirrors
  BY RoomForMirror
<1>2. emm = Null /\ emm' = made + 1 /\ Past(a)
  BY DEF OwnerPhase, ActorPhase, Actors, Past
<1>3. logLock = a /\ \A b \in Actors \ {a} : ~Past(b)
  BY <1>2 DEF LockOwner
<1>4. monitoring = {} /\ strategy = {} /\ alive = {}
  BY <1>1, <1>2, CurrentIsMirror DEF TypeOK, CurrentOnly
<1>5. TypeOK'
  BY <1>1 DEF TypeOK, PCs, Mirrors
<1>6. LockOwner' /\ ActorPhase'
  BY DEF TypeOK, Actors, LockOwner, ActorPhase, Past
<1>7. OwnerPhase'
  BY <1>1, <1>2, <1>3 DEF TypeOK, Actors, OwnerPhase, Past, ActorPhase
<1>8. LevelKept'
  <2>1. mirrorLevel'[emm'] = level /\ level' = level
    BY <1>1, <1>2 DEF TypeOK
  <2>2. \A b \in Actors : pc'[b] # "setLevel"
    BY <1>2, <1>3 DEF TypeOK, OwnerPhase
  <2> QED BY <2>1, <2>2 DEF LevelKept
<1>9. TargetKept'
  <2>1. \A b \in Actors : target[b] # Null => TakenOut(b)
    BY <1>2 DEF TargetKept
  <2>2. \A b \in Actors : TakenOut(b) => TakenOut(b)'
    BY DEF TypeOK, TakenOut, Unregisters
  <2> QED BY <2>1, <2>2 DEF TargetKept
<1>10. CurrentOnly'
  BY <1>2, <1>4 DEF TypeOK, CurrentOnly
<1>11. MonitorLocked'
  <2>1. \A b \in Actors : Inside(b)' = Inside(b)
    <3>1. ASSUME NEW b \in Actors PROVE ~(pc[b] = "inMonitor" /\ b \in nested)
      BY <1>2, <1>3 DEF Past, Actors
    <3>2. \A b \in Actors : InMonitor(b)' <=> InMonitor(b)
      BY DEF TypeOK, InMonitor
    <3>3. \A b \in Actors : pc'[b] = "inMonitor" => pc[b] = "inMonitor"
      BY DEF TypeOK
    <3> QED BY <3>1, <3>2, <3>3 DEF Inside
  <2> QED BY <2>1 DEF MonitorLocked
<1> QED BY <1>5, <1>6, <1>7, <1>8, <1>9, <1>10, <1>11

-----------------------------------------------------------------------------
(* The bound on mirrors.                                                    *)

\* No room is lost by a step that makes no mirror and adds nobody to those who will.
LEMMA BudgetKept ==
  ASSUME IInv, Registering' \subseteq Registering, UNCHANGED made
  PROVE  MirrorBudget'
<1>1. IsFiniteSet(Registering') /\ Cardinality(Registering') <= Cardinality(Registering)
  BY FS_Subset DEF IInv, MirrorBudget
<1>2. Cardinality(Registering) \in Nat /\ Cardinality(Registering') \in Nat
  BY <1>1, FS_CardinalityType DEF IInv, MirrorBudget
<1> QED BY <1>1, <1>2, LoggerAssumption DEF IInv, LogicInv, MirrorBudget, TypeOK

\* The caller of registerMonitor joins those who will make a mirror, if there is room.
LEMMA EntersKeepsBudget ==
  ASSUME IInv, NEW a \in Actors,
         NEW o \in Operations, NEW s \in Severities, NEW mon \in Monitors, Enters(a, o, s, mon)
  PROVE  MirrorBudget'
<1> USE DEF IInv, LogicInv, Enters, Goto, mirrorVars
<1>1. CASE o # "register"
  <2>1. Registering' \subseteq Registering
    BY <1>1 DEF TypeOK, Registering
  <2> QED BY <2>1, BudgetKept
<1>2. CASE o = "register"
  <2>1. Registering' \subseteq Registering \cup {a}
    BY DEF TypeOK, Registering
  <2>2. /\ IsFiniteSet(Registering \cup {a})
        /\ Cardinality(Registering \cup {a}) \in
             {Cardinality(Registering), Cardinality(Registering) + 1}
        /\ Cardinality(Registering) \in Nat
    <3>1. IsFiniteSet(Registering)
      BY DEF MirrorBudget
    <3>2. Cardinality(Registering) \in Nat
      BY <3>1, FS_CardinalityType
    <3> QED BY <3>1, <3>2, FS_AddElement
  <2>3. /\ IsFiniteSet(Registering')
        /\ Cardinality(Registering') <= Cardinality(Registering \cup {a})
    BY <2>1, <2>2, FS_Subset
  <2>4. /\ Cardinality(Registering \cup {a}) \in Nat
        /\ Cardinality(Registering') \in Nat
    BY <2>2, <2>3, FS_CardinalityType
  <2> QED BY <1>2, <2>2, <2>3, <2>4, LoggerAssumption DEF TypeOK, MirrorBudget
<1> QED BY <1>1, <1>2

\* The maker of a mirror leaves them.
LEMMA CreateMirrorKeepsBudget ==
  ASSUME IInv, NEW a \in Actors, CreateMirror(a)
  PROVE  MirrorBudget'
<1> USE DEF IInv, LogicInv, CreateMirror, Goto
<1>1. a \in Registering
  BY RoomForMirror
<1>2. Registering' \subseteq Registering \ {a}
  BY DEF TypeOK, Registering, callVars
<1>3. /\ IsFiniteSet(Registering \ {a})
      /\ Cardinality(Registering \ {a}) = Cardinality(Registering) - 1
      /\ Cardinality(Registering) \in Nat
  BY <1>1, FS_RemoveElement, FS_CardinalityType DEF MirrorBudget
<1>4. /\ IsFiniteSet(Registering')
      /\ Cardinality(Registering') <= Cardinality(Registering \ {a})
  BY <1>2, <1>3, FS_Subset
<1>5. Cardinality(Registering') \in Nat
  BY <1>4, FS_CardinalityType
<1> QED BY <1>3, <1>4, <1>5, LoggerAssumption DEF TypeOK, MirrorBudget

\* The other steps of an actor add nobody.
LEMMA StepKeepsBudget ==
  ASSUME IInv, NEW a \in Actors,
         CallStep(a) \/ NotificationStep(a) \/ LeaveFreedMirror(a), ~CreateMirror(a)
  PROVE  MirrorBudget'
<1> USE DEF CallStep, NotificationStep, LeaveFreedMirror, LeaveMirror, Acquire,
        UnregisterMonitoring, DisassociateStrategy, DropMirror, NothingRegistered, Registered,
        RegistrationRefused, LogMessage, SetSeverity, SetMirrorLevel, Release, EnterMirror,
        LeaveNested, Leave
<1>1. UNCHANGED <<op, made>>
  BY DEF callVars, mirrorVars
<1>2. /\ \A b \in Actors \ {a} : pc'[b] = pc[b]
      /\ a \in Registering' => a \in Registering
  BY <1>1 DEF IInv, LogicInv, TypeOK, Goto, AfterUnregister, Registering, OwnerPhase
<1> QED BY <1>1, <1>2, BudgetKept DEF Registering

\* Callbacks that are delivered make no mirrors.
LEMMA DeliverKeepsBudget ==
  ASSUME IInv, NEW a \in Callbacks,
         NEW m \in Mirrors, NEW k \in Deliveries, NEW s \in Severities, Deliver(a, m, k, s)
  PROVE  MirrorBudget'
<1>1. UNCHANGED <<op, made>> /\ pc' = [pc EXCEPT ![a] = "enter"]
  BY DEF Deliver, Goto, mirrorVars
<1> QED BY <1>1, BudgetKept DEF IInv, LogicInv, TypeOK, Registering

-----------------------------------------------------------------------------
(* The invariant.                                                           *)

\* At the beginning nothing is registered and nobody is registering.
THEOREM InitIInv == Init => IInv
<1> SUFFICES ASSUME Init PROVE IInv
  OBVIOUS
<1> USE LoggerAssumption DEF Init
<1>1. TypeOK
  BY DEF TypeOK, PCs, Operations, Deliveries, Mirrors, Actors
<1>2. LockOwner /\ ActorPhase /\ OwnerPhase /\ TargetKept
  BY DEF LockOwner, Past, ActorPhase, OwnerPhase, TargetKept, Actors, Mirrors
<1>3. MonitorLocked /\ CurrentOnly /\ LevelKept
  BY DEF MonitorLocked, Inside, InMonitor, CurrentOnly, LevelKept, Actors, Mirrors
<1>4. Registering = {}
  BY DEF Registering
<1>5. MirrorBudget
  BY <1>4, FS_EmptySet DEF MirrorBudget
<1> QED BY <1>1, <1>2, <1>3, <1>5 DEF IInv, LogicInv

\* A step of an actor inside a function or a notification keeps the invariant.
LEMMA ActorStepKeeps ==
  ASSUME IInv, NEW a \in Actors,
         CallStep(a) \/ NotificationStep(a) \/ LeaveFreedMirror(a)
  PROVE  IInv'
<1>1. CASE CallStep(a)
  <2>1. LogicInv'
    BY <1>1, AcquireKeeps, UnregisterMonitoringKeeps, DisassociateStrategyKeeps,
       DropMirrorKeeps, NothingRegisteredKeeps, CreateMirrorKeeps, RegisteredKeeps,
       RegistrationRefusedKeeps, LogMessageKeeps, SetSeverityKeeps, SetMirrorLevelKeeps,
       ReleaseKeeps
    DEF IInv, CallStep
  <2> QED BY <1>1, <2>1, CreateMirrorKeepsBudget, StepKeepsBudget DEF IInv
<1>2. CASE NotificationStep(a) \/ LeaveFreedMirror(a)
  <2>1. LogicInv'
    BY <1>2, EnterMirrorKeeps, LeaveNestedKeeps, LeaveKeeps
    DEF IInv, NotificationStep, LeaveMirror, LeaveFreedMirror
  <2>2. MirrorBudget'
    BY <1>2, CreateMirrorKeepsBudget, StepKeepsBudget
  <2> QED BY <2>1, <2>2 DEF IInv
<1> QED BY <1>1, <1>2

\* Every step keeps the invariant.
THEOREM StepIInv == IInv /\ [Next]_vars => IInv'
<1> SUFFICES ASSUME IInv, [Next]_vars PROVE IInv'
  OBVIOUS
<1>1. CASE UNCHANGED vars
  <2> USE <1>1 DEF IInv, LogicInv, vars, callVars, noteVars, mirrorVars, aiVars, bounds
  <2>1. TypeOK' /\ LockOwner' /\ ActorPhase' /\ OwnerPhase'
    BY DEF TypeOK, LockOwner, Past, ActorPhase, OwnerPhase
  <2>2. TargetKept' /\ MonitorLocked' /\ CurrentOnly' /\ LevelKept'
    BY DEF TargetKept, TakenOut, Unregisters, MonitorLocked, Inside, InMonitor, CurrentOnly,
           LevelKept
  <2>3. Registering' \subseteq Registering /\ UNCHANGED made
    BY DEF Registering
  <2> QED BY <2>1, <2>2, <2>3, BudgetKept
<1>2. ASSUME NEW t \in Threads,
             NEW o \in Operations, NEW s \in Severities, NEW mon \in Monitors,
             Call(t, o, s, mon)
      PROVE  IInv'
  <2>1. t \in Actors /\ Enters(t, o, s, mon)
    BY <1>2 DEF Call, Actors
  <2> QED BY <1>2, <2>1, CallKeeps, EntersKeepsBudget DEF IInv
<1>3. ASSUME NEW a \in Actors,
             NEW o \in Operations, NEW s \in Severities, NEW mon \in Monitors,
             CallSystem(a, o, s, mon)
      PROVE  IInv'
  <2>1. Enters(a, o, s, mon)
    BY <1>3 DEF CallSystem
  <2> QED BY <1>3, <2>1, CallSystemKeeps, EntersKeepsBudget DEF IInv
<1>4. ASSUME NEW a \in Callbacks,
             NEW m \in Mirrors, NEW k \in Deliveries, NEW s \in Severities, Deliver(a, m, k, s)
      PROVE  IInv'
  BY <1>4, DeliverKeeps, DeliverKeepsBudget DEF IInv
<1> QED BY <1>1, <1>2, <1>3, <1>4, ActorStepKeeps DEF Next

\* The invariant holds in every run.
THEOREM Invariant == Spec => []IInv
BY InitIInv, StepIInv, PTL DEF Spec

-----------------------------------------------------------------------------
(* What follows from it.                                                    *)

\* Every variable keeps its type, and _emm never dangles.
THEOREM TypeCorrect == Spec => []TypeOK
<1>1. IInv => TypeOK
  BY DEF IInv, LogicInv
<1> QED BY <1>1, Invariant, PTL

\* Between two calls nothing but the current mirror is registered.
THEOREM RegistrationsCurrent == Spec => []RegisteredIsCurrent
<1>1. IInv => RegisteredIsCurrent
  BY DEF IInv, LogicInv, CurrentOnly, RegisteredIsCurrent
<1> QED BY <1>1, Invariant, PTL

\* No mirror is freed while a thread or a callback is in it or on the way to it, unless by the
\* monitor this actor is calling.
THEOREM MirrorsOutliveCalls == Spec => []NoCallIntoFreedMirror
<1>1. IInv => NoCallIntoFreedMirror
  BY DEF IInv, LogicInv, TypeOK, TargetKept, TakenOut, NoCallIntoFreedMirror
<1> QED BY <1>1, Invariant, PTL

\* Monitors are called by one thread at a time.
THEOREM MonitorsCalledSerially == Spec => []MonitorCallsAreSerial
<1>1. IInv => MonitorCallsAreSerial
  <2> SUFFICES ASSUME IInv, NEW a \in Actors, NEW b \in Actors,
                      NEW m \in Inside(a) \cap alive, NEW n \in Inside(b) \cap alive
               PROVE  a = b
    BY DEF MonitorCallsAreSerial
  <2>1. m = emm /\ n = emm
    BY DEF IInv, LogicInv, CurrentOnly
  <2>2. emm \in Mirrors
    BY <2>1, CurrentIsMirror DEF IInv, LogicInv
  <2> QED BY <2>1, <2>2 DEF IInv, LogicInv, MonitorLocked
<1> QED BY <1>1, Invariant, PTL

\* After unregisterMonitoring nobody is in a monitor or on the way to it, but the actor whose
\* monitor it was that unregistered.
THEOREM QuietWithoutMonitor == Spec => []QuietAfterUnregister
<1>1. IInv => QuietAfterUnregister
  <2> SUFFICES ASSUME IInv, logLock = Null, emm = Null, NEW a \in Actors, target[a] # Null
               PROVE  Unregisters(a) /\ pc[a] = "leave"
    BY DEF QuietAfterUnregister
  <2> USE DEF IInv, LogicInv
  <2>1. TakenOut(a)
    BY DEF TargetKept
  <2>2. ~Past(a)
    BY LoggerAssumption DEF LockOwner
  <2>3. a \notin nested
    BY <2>1, <2>2 DEF Past, TakenOut, ActorPhase
  <2> QED BY <2>1, <2>3 DEF TakenOut, Unregisters
<1> QED BY <1>1, Invariant, PTL

\* The mirror has the level that was set last.
THEOREM LevelsAgree == Spec => []LevelIsCurrent
<1>1. IInv => LevelIsCurrent
  <2> SUFFICES ASSUME IInv, logLock = Null, emm # Null PROVE mirrorLevel[emm] = level
    BY DEF LevelIsCurrent
  <2>1. \A a \in Actors : pc[a] # "setLevel"
    BY LoggerAssumption DEF IInv, LogicInv, LockOwner, Past, ActorPhase, Actors
  <2> QED BY <2>1 DEF IInv, LogicInv, LevelKept
<1> QED BY <1>1, Invariant, PTL

\* Where everybody waits, an actor that is in the notification of a mirror and does not own
\* _logging_sync is a callback that waits for it.
LEMMA InsideWaits ==
  ASSUME IInv, NEW a \in Actors, InMonitor(a), ~Past(a), Blocked(a)
  PROVE  /\ a \in Callbacks /\ a \in nested /\ pc[a] = "acquire" /\ Inside(a) = {target[a]}
         /\ logLock \notin {Null, a}
<1> USE DEF IInv, LogicInv
<1>1. pc[a] \notin {"inMonitor", "leave"}
  BY DEF Blocked, WaitsForMirror, WaitsForCallbacks
<1>2. a \in nested /\ pc[a] = "acquire" /\ a \in Callbacks
  BY <1>1 DEF InMonitor, Past, ActorPhase, Actors
<1>3. logLock \notin {Null, a}
  BY <1>2 DEF Blocked, WaitsForMirror, WaitsForCallbacks
<1> QED BY <1>2, <1>3 DEF Inside, InMonitor

\* Where everybody waits, whoever waits for the lock of a mirror waits for an actor that is in
\* its notification.
LEMMA HolderOfMirror ==
  ASSUME IInv, NEW m \in Mirrors, NEW a \in Actors, mirrorLock[m] \notin {Null, a},
         \A b \in Actors : pc[b] # "idle" => Blocked(b)
  PROVE  \E b \in Actors : /\ b # a /\ m \in Inside(b) /\ InMonitor(b) /\ Blocked(b)
                           /\ b \in nested /\ Inside(b) = {target[b]}
<1> USE DEF IInv, LogicInv
<1>1. PICK b \in Actors : b = mirrorLock[m] /\ b # a
  BY DEF TypeOK
<1>2. m \in Inside(b)
  BY <1>1 DEF MonitorLocked
<1>3. InMonitor(b)
  BY <1>2 DEF Inside, InMonitor
<1>4. Blocked(b)
  BY <1>3 DEF InMonitor, ActorPhase
<1>5. pc[b] \notin {"inMonitor", "leave"}
  BY <1>4 DEF Blocked, WaitsForMirror, WaitsForCallbacks
<1> QED BY <1>1, <1>2, <1>3, <1>4, <1>5 DEF InMonitor, Inside

\* Every deadlock is brought about by a monitor that calls its System, in one of two ways.
THEOREM DeadlocksAreOfMonitors == Spec => []OnlyMonitorDeadlocks
<1>1. IInv => OnlyMonitorDeadlocks
  <2> SUFFICES ASSUME IInv, NEW d \in Actors, pc[d] # "idle",
                      \A a \in Actors : pc[a] # "idle" => Blocked(a)
               PROVE  LockInversion \/ SelfWait
    BY DEF OnlyMonitorDeadlocks
  <2> USE DEF IInv, LogicInv
  <2>1. Blocked(d)
    OBVIOUS
  <2>2. CASE logLock = Null
    <3>1. \A a \in Actors : ~Past(a)
      BY <2>2, LoggerAssumption DEF LockOwner
    <3>2. pc[d] = "enter" /\ d \in Callbacks \ nested /\ mirrorLock[target[d]] \notin {Null, d}
      BY <2>1, <2>2, <3>1
      DEF Blocked, WaitsForMirror, WaitsForCallbacks, MirrorOf, Past, ActorPhase, Actors
    <3>3. target[d] \in Mirrors
      BY <3>2 DEF ActorPhase, TypeOK, Actors
    <3>4. PICK b \in Actors : InMonitor(b) /\ Blocked(b)
      BY <3>2, <3>3, HolderOfMirror
    <3> QED BY <2>2, <3>1, <3>4, InsideWaits
  <2>3. CASE logLock # Null
    <3>1. PICK t \in Actors : t = logLock
      BY <2>3 DEF TypeOK
    <3>2. Past(t) /\ \A a \in Actors \ {t} : ~Past(a)
      BY <3>1 DEF LockOwner
    <3>3. pc[t] # "idle" /\ Blocked(t)
      BY <3>2 DEF Past, ActorPhase
    <3>4. WaitsForMirror(t) \/ WaitsForCallbacks(t)
      BY <3>1, <3>3 DEF Blocked
    <3>5. ASSUME NEW b \in Actors \ {t}, InMonitor(b), Blocked(b), emm \in Inside(b)
          PROVE  LockInversion
      <4>1. /\ b \in Callbacks /\ b \in nested /\ pc[b] = "acquire" /\ target[b] = emm
        BY <3>2, <3>5, InsideWaits
      <4> QED BY <3>1, <3>4, <4>1 DEF LockInversion
    <3>6. CASE WaitsForMirror(t)
      <4>1. mirrorLock[emm] \notin {Null, t} /\ emm # Null
        BY <3>2, <3>6 DEF WaitsForMirror, MirrorOf, Past, OwnerPhase, ActorPhase, Actors
      <4>2. emm \in Mirrors
        BY <4>1, CurrentIsMirror
      <4>3. PICK b \in Actors : b # t /\ emm \in Inside(b) /\ InMonitor(b) /\ Blocked(b)
        BY <4>1, <4>2, HolderOfMirror
      <4> QED BY <3>5, <4>3
    <3>7. CASE WaitsForCallbacks(t)
      <4>1. PICK b \in Callbacks : target[b] = emm
        BY <3>7 DEF WaitsForCallbacks, Quiescent
      <4>2. emm # Null /\ emm \in Mirrors /\ b \in Actors
        BY <3>7, CurrentIsMirror DEF WaitsForCallbacks, OwnerPhase, Actors
      <4>3. t \in nested /\ target[t] = emm => SelfWait
        BY <3>7 DEF SelfWait
      <4>4. CASE b = t
        BY <3>2, <4>1, <4>3, <4>4, LoggerAssumption DEF Past
      <4>5. CASE b # t /\ InMonitor(b)
        <5>1. Blocked(b) /\ emm \in Inside(b)
          BY <4>1, <4>2, <4>5 DEF InMonitor, Inside, ActorPhase
        <5> QED BY <3>5, <4>2, <4>5, <5>1
      <4>6. CASE b # t /\ ~InMonitor(b)
        <5>1. pc[b] = "enter" /\ b \notin nested /\ Blocked(b)
          BY <4>1, <4>2, <4>6 DEF InMonitor, ActorPhase
        <5>2. mirrorLock[emm] \notin {Null, b}
          BY <4>1, <5>1 DEF Blocked, WaitsForMirror, WaitsForCallbacks, MirrorOf
        <5>3. PICK e \in Actors : /\ emm \in Inside(e) /\ InMonitor(e) /\ Blocked(e)
                                  /\ e \in nested /\ Inside(e) = {target[e]}
          BY <4>2, <5>2, HolderOfMirror
        <5> QED BY <3>5, <4>3, <5>3
      <4> QED BY <4>4, <4>5, <4>6
    <3> QED BY <3>4, <3>6, <3>7
  <2> QED BY <2>2, <2>3
<1> QED BY <1>1, Invariant, PTL
=============================================================================
