-------------------------- MODULE StateMachineProxy --------------------------
(***************************************************************************)
(* A client that looks up the state machine of a participant and operates  *)
(* it: the proxy for the new interface calls the RPC service of the        *)
(* participant, the legacy one uses TriggerEvent and GetParticipantState   *)
(* of the AutomationInterface (state_machine_proxy.h).                     *)
(*                                                                         *)
(* The client keeps the proxy while the participant goes away, comes back  *)
(* and is controlled by others.                                            *)
(***************************************************************************)
EXTENDS ParticipantProxy, Fep2StateMachine, Sequences

CONSTANTS
  MaxOperations,  \* bound on calls of the state machine proxy
  MaxOthers       \* bound on events sent by other controllers

ASSUME OperationBounds == MaxOperations \in Nat /\ MaxOthers \in Nat

VARIABLES
  held,      \* the proxy the client holds: Null, "old" or "new"
  step,      \* where its call is: "idle", "request", "reply"
  operation, \* the function called
  outcome,   \* what the last call came to
  effects,   \* events the participant accepted from this call
  value,     \* the state an RPC getState has read
  state,     \* the state machine of the participant
  inbox,     \* events accepted by TriggerEvent and not yet handled
  operations, others   \* counters of the bounds

clientVars == <<held, step, operation, outcome, effects, value, operations>>
machineVars == <<state, inbox, others>>
allVars == <<vars, clientVars, machineVars>>

\* The events the legacy proxy triggers.
EventOf ==
  [initialize |-> "CE_Initialize", start |-> "CE_Start", stop |-> "CE_Stop",
   shutdown |-> "CE_Shutdown", restart |-> "CE_Restart"]

\* The events the participant is asked for by the stub functions the new proxy calls: its
\* stop calls GetStub().initialize().
RequestOf == [EventOf EXCEPT !.stop = "CE_Initialize"]

StateOperations == DOMAIN EventOf
Answering == peer # Absent /\ "state_machine" \in Offered(peer)

ClientInit ==
  /\ Init
  /\ held = Null /\ step = "idle" /\ operation = "getState" /\ outcome = "none"
  /\ effects = <<>> /\ value = "FS_STARTUP"
  /\ state = "FS_STARTUP" /\ inbox = <<>>
  /\ operations = 0 /\ others = 0

\* The client keeps the proxy its lookup gave.
TakeProxy ==
  /\ step = "idle" /\ pc = "idle"
  /\ iid = "state_machine" /\ result \in {"old", "new"} /\ held # result
  /\ held' = result
  /\ outcome' = "none" /\ effects' = <<>>
  /\ UNCHANGED <<vars, step, operation, value, operations, machineVars>>

Operate(o) ==
  /\ step = "idle" /\ pc = "idle" /\ held # Null
  /\ operations < MaxOperations /\ operations' = operations + 1
  /\ step' = "request" /\ operation' = o /\ outcome' = "none" /\ effects' = <<>>
  /\ UNCHANGED <<vars, held, value, machineVars>>

Returns(res) == step' = "idle" /\ outcome' = res

ClientOnly == UNCHANGED <<peer, proxyVars, seen, calls, restarts>>

-----------------------------------------------------------------------------
(* The legacy proxy: one call of the AutomationInterface.                   *)

TriggerOld ==
  /\ step = "request" /\ held = "old" /\ operation # "getState"
  /\ \/ /\ inbox' = IF peer = Absent THEN inbox ELSE Append(inbox, EventOf[operation])
        /\ effects' = IF peer = Absent THEN effects ELSE Append(effects, EventOf[operation])
        /\ Returns("ok") /\ UNCHANGED faults
     \/ CallFails /\ Returns("threw") /\ UNCHANGED <<inbox, effects>>
  /\ ClientOnly /\ UNCHANGED <<held, operation, value, operations, state, others>>

\* MUTANT: a timeout is not told apart, and the state that was not read is returned.
GetStateOld_Unread ==
  /\ step = "request" /\ held = "old" /\ operation = "getState"
  /\ \/ peer # Absent /\ Returns(state) /\ UNCHANGED faults
     \/ CallFails /\ Returns("uninitialized")
  /\ ClientOnly /\ UNCHANGED <<held, operation, effects, value, operations, machineVars>>

\* A timeout reads as FS_SHUTDOWN, any other failure throws.
GetStateOld ==
  /\ step = "request" /\ held = "old" /\ operation = "getState"
  /\ \/ peer # Absent /\ Returns(state) /\ UNCHANGED faults
     \/ CallFails /\ Returns("FS_SHUTDOWN")
     \/ Fault /\ Returns("threw")
  /\ ClientOnly /\ UNCHANGED <<held, operation, effects, value, operations, machineVars>>

-----------------------------------------------------------------------------
(* The new proxy: a request that the participant serves, and its reply.     *)

\* The service of the participant answers whether it accepted the event.
ServeNew ==
  /\ step = "request" /\ held = "new" /\ Answering
  /\ IF operation = "getState"
       THEN value' = state /\ UNCHANGED <<state, effects>>
       ELSE LET ev == RequestOf[operation] IN
            /\ state' = NextState(state, ev)
            /\ effects' = IF state' = state THEN effects ELSE Append(effects, ev)
            /\ UNCHANGED value
  /\ step' = "reply"
  /\ UNCHANGED <<vars, held, operation, outcome, operations, inbox, others>>

\* MUTANT: the answer of the stub is not looked at.
ReplyNew_IgnoresDenial ==
  /\ step = "reply" /\ Answering
  /\ Returns(IF operation = "getState" THEN value ELSE "ok")
  /\ UNCHANGED <<vars, held, operation, effects, value, operations, machineVars>>

ReplyNew ==
  /\ step = "reply" /\ Answering
  /\ Returns(CASE operation = "getState" -> value
               [] operation # "getState" /\ effects # <<>> -> "ok"
               [] OTHER -> "denied")
  /\ UNCHANGED <<vars, held, operation, effects, value, operations, machineVars>>

\* The stub throws, before or after the participant served the request; getState
\* catches it.
RequestLost ==
  /\ step \in {"request", "reply"} /\ held = "new"
  /\ (~Answering /\ UNCHANGED faults) \/ Fault
  /\ Returns(IF operation = "getState" THEN "FS_SHUTDOWN" ELSE "threw")
  /\ ClientOnly /\ UNCHANGED <<held, operation, effects, value, operations, machineVars>>

ClientStep == TriggerOld \/ GetStateOld \/ ServeNew \/ ReplyNew \/ RequestLost

-----------------------------------------------------------------------------
(* The state machine of the participant.                                    *)

HandleEvent ==
  /\ inbox # <<>>
  /\ state' = NextState(state, Head(inbox)) /\ inbox' = Tail(inbox)
  /\ UNCHANGED <<vars, clientVars, others>>

EntryDone ==
  /\ peer # Absent
  /\ \E ev \in {"StartupDone", "InitDone"} :
       NextState(state, ev) # state /\ state' = NextState(state, ev)
  /\ UNCHANGED <<vars, clientVars, inbox, others>>

OtherController(ev) ==
  /\ peer # Absent /\ others < MaxOthers /\ others' = others + 1
  /\ inbox' = Append(inbox, ev)
  /\ UNCHANGED <<vars, clientVars, state>>

\* A participant that starts begins at FS_STARTUP; what it had not handled is lost.
Restart ==
  /\ PeerChanges
  /\ state' = "FS_STARTUP" /\ inbox' = <<>>
  /\ UNCHANGED <<clientVars, others>>

ClientNext ==
  \/ /\ step = "idle"
     /\ \/ Add
        \/ \E i \in Interfaces \cup {ParticipantInfo}, old \in BOOLEAN : Lookup(i, old)
        \/ ProxyStep
     /\ UNCHANGED <<clientVars, machineVars>>
  \/ TakeProxy
  \/ \E o \in StateOperations \cup {"getState"} : Operate(o)
  \/ ClientStep
  \/ HandleEvent \/ EntryDone
  \/ \E ev \in {"CE_Initialize", "CE_Stop"} : OtherController(ev)
  \/ Restart

ClientSpec == ClientInit /\ [][ClientNext]_allVars

-----------------------------------------------------------------------------
(* Properties.                                                              *)

\* Every variable has its type.
ClientTypeOK ==
  /\ TypeOK
  /\ held \in Infos \cup {Null}
  /\ step \in {"idle", "request", "reply"}
  /\ operation \in StateOperations \cup {"getState"}
  /\ outcome \in {"none", "ok", "denied", "threw"} \cup States
  /\ effects \in Seq(Commands)
  /\ value \in States /\ state \in States
  /\ inbox \in Seq(Commands)
  /\ operations \in 0..MaxOperations /\ others \in 0..MaxOthers

\* The caller can rely on what it is told, whatever others do and wherever the
\* participant goes meanwhile: through the new interface a normal return means that the
\* participant accepted one event, through either interface a denial means that it
\* accepted none; only an exception of the bus leaves the caller in doubt.
OutcomeIsTrue ==
  step = "idle" =>
    /\ outcome = "ok" /\ held = "new" => Len(effects) = 1
    /\ outcome = "denied" => effects = <<>>

=============================================================================
