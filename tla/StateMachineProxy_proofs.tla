---------------------- MODULE StateMachineProxy_proofs ----------------------
(***************************************************************************)
(* Proofs about StateMachineProxy, for any participants, components and    *)
(* bounds: what the client is told of its calls is true, and the lookups   *)
(* that give it its proxies are justified, whatever becomes of the         *)
(* participant meanwhile.                                                  *)
(***************************************************************************)
EXTENDS StateMachineProxy, ParticipantProxy_proofs

-----------------------------------------------------------------------------
(* The inductive invariant.                                                 *)

\* The variables of the client and of the state machine have their types.
ClientVarsOK ==
  /\ held \in Infos \cup {Null}
  /\ step \in {"idle", "request", "reply"}
  /\ operation \in StateOperations \cup {"getState"}
  /\ outcome \in {"none", "ok", "denied", "threw"} \cup States
  /\ effects \in Seq(Commands)
  /\ value \in States /\ state \in States
  /\ inbox \in Seq(Commands)
  /\ operations \in 0..MaxOperations /\ others \in 0..MaxOthers

\* A call has had no effect before it is served, and one at most when it has been; only the
\* new proxy waits for a reply.
CallInv ==
  /\ step = "request" => effects = <<>>
  /\ step = "reply" => /\ held = "new" /\ (effects = <<>> \/ Len(effects) = 1)
                       /\ operation = "getState" => effects = <<>>

ClientInv == LookupInv /\ ClientVarsOK /\ CallInv /\ OutcomeIsTrue

-----------------------------------------------------------------------------
(* States and events.                                                       *)

\* The state machine of a participant stays in its states.
LEMMA NextStateIsState ==
  ASSUME NEW s \in States, NEW ev
  PROVE  NextState(s, ev) \in States
<1>1. \A t \in Transitions : t.to \in States
  BY DEF Transitions, Leads, States
<1>2. CASE \E t \in Transitions : t.event = ev /\ s \in t.from
  <2>1. (CHOOSE t \in Transitions : t.event = ev /\ s \in t.from) \in Transitions
    BY <1>2
  <2> QED BY <1>1, <1>2, <2>1 DEF NextState
<1>3. CASE ~\E t \in Transitions : t.event = ev /\ s \in t.from
  BY <1>3 DEF NextState
<1> QED BY <1>2, <1>3

\* Every operation but getState sends a command.
LEMMA OperationsSendCommands ==
  ASSUME NEW o \in StateOperations
  PROVE  EventOf[o] \in Commands /\ RequestOf[o] \in Commands
BY DEF StateOperations, EventOf, RequestOf, Commands

\* No state reads like an answer.
LEMMA StatesAreNoAnswers == \A s \in States : s \notin {"none", "ok", "denied", "threw"}
BY DEF States

-----------------------------------------------------------------------------
(* The steps.                                                               *)

\* The calls of the state machine leave the lookup alone; a fault may be used up.
LEMMA LookupUntouched ==
  ASSUME LookupInv, ClientOnly, UNCHANGED faults \/ Fault
  PROVE  LookupInv'
<1>1. /\ UNCHANGED <<peer, info, pc, iid, forced, version, use, todo, result, seen, calls, restarts>>
      /\ faults' \in 0..MaxFaults
  BY FaultsCount DEF ClientOnly, proxyVars, LookupInv
<1> QED BY <1>1 DEF LookupInv, TypeOK, RunningInv, ConnectionInv, SearchInv, AnswerIsJustified,
            Searched, Missing

\* Nor do the steps that leave all its variables.
LEMMA LookupUnchanged ==
  ASSUME LookupInv, UNCHANGED vars
  PROVE  LookupInv'
BY StepLookupInv

Kept == ClientVarsOK' /\ CallInv' /\ OutcomeIsTrue'

\* What is no call of the client leaves its call as it is.
LEMMA CallUntouched ==
  ASSUME ClientInv, UNCHANGED clientVars,
         state' \in States, inbox' \in Seq(Commands), others' \in 0..MaxOthers
  PROVE  Kept
BY DEF clientVars, ClientInv, Kept, ClientVarsOK, CallInv, OutcomeIsTrue

\* The client takes another proxy, or begins a call: nothing has come of it yet.
LEMMA FreshCall ==
  ASSUME ClientInv, UNCHANGED machineVars, UNCHANGED value,
         held' \in Infos \cup {Null}, step' \in {"idle", "request"},
         operation' \in StateOperations \cup {"getState"},
         outcome' = "none", effects' = <<>>, operations' \in 0..MaxOperations
  PROVE  Kept
BY DEF machineVars, ClientInv, Kept, ClientVarsOK, CallInv, OutcomeIsTrue

\* A call of the client ends: with an exception or a state, or with an answer that is true.
LEMMA CallEnds ==
  ASSUME ClientInv, NEW res, Returns(res),
         UNCHANGED <<held, operation, value, operations, state, others>>,
         effects' \in Seq(Commands), inbox' \in Seq(Commands),
         \/ res \in {"threw"} \cup States
         \/ res = "ok" /\ (held = "old" \/ Len(effects') = 1)
         \/ res = "denied" /\ effects' = <<>>
  PROVE  Kept
BY StatesAreNoAnswers DEF Returns, ClientInv, Kept, ClientVarsOK, CallInv, OutcomeIsTrue

\* Every step of a call of the state machine.
LEMMA ClientStepKeeps ==
  ASSUME ClientInv, ClientStep
  PROVE  ClientInv'
<1> USE DEF ClientInv
<1>1. CASE TriggerOld
  <2>1. /\ held = "old" /\ operation \in StateOperations
        /\ ClientOnly /\ UNCHANGED <<held, operation, value, operations, state, others>>
    BY <1>1 DEF TriggerOld, ClientVarsOK
  <2>2. EventOf[operation] \in Commands
    BY <2>1, OperationsSendCommands
  <2>3. effects' \in Seq(Commands) /\ inbox' \in Seq(Commands)
    <3>1. effects \in Seq(Commands) /\ inbox \in Seq(Commands)
      BY DEF ClientVarsOK
    <3>2. \A q \in Seq(Commands) : Append(q, EventOf[operation]) \in Seq(Commands)
      BY <2>2
    <3>3. /\ effects' \in {effects, Append(effects, EventOf[operation])}
          /\ inbox' \in {inbox, Append(inbox, EventOf[operation])}
      BY <1>1 DEF TriggerOld
    <3> QED BY <3>1, <3>2, <3>3
  <2>4. UNCHANGED faults \/ Fault
    BY <1>1 DEF TriggerOld, CallFails
  <2>5. Returns("ok") \/ Returns("threw")
    BY <1>1 DEF TriggerOld
  <2>6. Kept
    BY <2>1, <2>3, <2>5, CallEnds
  <2> QED BY <2>1, <2>4, <2>6, LookupUntouched DEF Kept
<1>2. CASE GetStateOld
  <2>1. /\ ClientOnly /\ UNCHANGED <<held, operation, effects, value, operations, state, inbox, others>>
    BY <1>2 DEF GetStateOld, machineVars
  <2>2. UNCHANGED faults \/ Fault
    BY <1>2 DEF GetStateOld, CallFails
  <2>3. effects' \in Seq(Commands) /\ inbox' \in Seq(Commands) /\ state \in States
    BY <2>1 DEF ClientVarsOK
  <2>4. Returns(state) \/ Returns("FS_SHUTDOWN") \/ Returns("threw")
    BY <1>2 DEF GetStateOld
  <2>5. "FS_SHUTDOWN" \in States
    BY DEF States
  <2>6. Kept
    BY <2>1, <2>3, <2>4, <2>5, CallEnds
  <2> QED BY <2>1, <2>2, <2>6, LookupUntouched DEF Kept
<1>3. CASE ServeNew
  <2>1. /\ step = "request" /\ held = "new" /\ step' = "reply" /\ effects = <<>>
        /\ UNCHANGED <<vars, held, operation, outcome, operations, inbox, others>>
    BY <1>3 DEF ServeNew, CallInv
  <2>2. /\ value' \in States /\ state' \in States /\ effects' \in Seq(Commands)
        /\ effects' = <<>> \/ Len(effects') = 1
        /\ operation = "getState" => effects' = <<>>
    <3>1. CASE operation = "getState"
      BY <1>3, <2>1, <3>1 DEF ServeNew, ClientVarsOK
    <3>2. CASE operation # "getState"
      <4>1. RequestOf[operation] \in Commands
        BY <3>2, OperationsSendCommands DEF ClientVarsOK
      <4>2. /\ state' = NextState(state, RequestOf[operation]) /\ value' = value
            /\ effects' \in {effects, Append(effects, RequestOf[operation])}
        BY <1>3, <3>2 DEF ServeNew
      <4>3. state' \in States
        BY <4>2, NextStateIsState DEF ClientVarsOK
      <4>4. effects' = effects \/ effects' = Append(<<>>, RequestOf[operation])
        BY <2>1, <4>2
      <4>5. /\ Append(<<>>, RequestOf[operation]) \in Seq(Commands)
            /\ Len(Append(<<>>, RequestOf[operation])) = 1
        BY <4>1
      <4>6. effects \in Seq(Commands) /\ value \in States
        BY DEF ClientVarsOK
      <4> QED BY <2>1, <3>2, <4>2, <4>3, <4>4, <4>5, <4>6
    <3> QED BY <3>1, <3>2
  <2>3. Kept
    BY <2>1, <2>2 DEF Kept, ClientVarsOK, CallInv, OutcomeIsTrue
  <2> QED BY <2>1, <2>3, LookupUnchanged DEF Kept
<1>4. CASE ReplyNew
  <2>1. /\ step = "reply" /\ UNCHANGED <<vars, held, operation, effects, value, operations, state, inbox, others>>
    BY <1>4 DEF ReplyNew, machineVars
  <2>2. /\ operation = "getState" => Returns(value)
        /\ operation # "getState" /\ effects # <<>> => Returns("ok")
        /\ operation # "getState" /\ effects = <<>> => Returns("denied")
    BY <1>4 DEF ReplyNew
  <2>3. /\ effects' \in Seq(Commands) /\ inbox' \in Seq(Commands) /\ value \in States
        /\ effects' = effects /\ (effects = <<>> \/ Len(effects) = 1)
    BY <2>1 DEF ClientVarsOK, CallInv
  <2>4. Kept
    <3>1. CASE operation = "getState"
      BY <2>1, <2>2, <2>3, <3>1, CallEnds
    <3>2. CASE operation # "getState" /\ effects # <<>>
      BY <2>1, <2>2, <2>3, <3>2, CallEnds
    <3>3. CASE operation # "getState" /\ effects = <<>>
      BY <2>1, <2>2, <2>3, <3>3, CallEnds
    <3> QED BY <3>1, <3>2, <3>3
  <2> QED BY <2>1, <2>4, LookupUnchanged DEF Kept
<1>5. CASE RequestLost
  <2>1. /\ ClientOnly /\ UNCHANGED <<held, operation, effects, value, operations, state, inbox, others>>
        /\ UNCHANGED faults \/ Fault
    BY <1>5 DEF RequestLost, machineVars
  <2>2. Returns("FS_SHUTDOWN") \/ Returns("threw")
    BY <1>5 DEF RequestLost
  <2>3. effects' \in Seq(Commands) /\ inbox' \in Seq(Commands) /\ "FS_SHUTDOWN" \in States
    BY <2>1 DEF ClientVarsOK, States
  <2>4. Kept
    BY <2>1, <2>2, <2>3, CallEnds
  <2> QED BY <2>1, <2>4, LookupUntouched DEF Kept
<1> QED BY <1>1, <1>2, <1>3, <1>4, <1>5 DEF ClientStep

\* The state machine of the participant, its other controllers and its restarts.
LEMMA MachineStepKeeps ==
  ASSUME ClientInv,
         \/ HandleEvent \/ EntryDone \/ Restart
         \/ \E ev \in {"CE_Initialize", "CE_Stop"} : OtherController(ev)
  PROVE  ClientInv'
<1>1. UNCHANGED clientVars
  BY DEF HandleEvent, EntryDone, Restart, OtherController
<1>2. state \in States /\ inbox \in Seq(Commands) /\ others \in 0..MaxOthers
  BY DEF ClientInv, ClientVarsOK
<1>3. state' \in States
  <2>1. \A ev : NextState(state, ev) \in States
    BY <1>2, NextStateIsState
  <2>2. "FS_STARTUP" \in States
    BY DEF States
  <2> QED BY <1>2, <2>1, <2>2 DEF HandleEvent, EntryDone, Restart, OtherController
<1>4. inbox' \in Seq(Commands)
  <2>1. CASE HandleEvent
    BY <1>2, <2>1 DEF HandleEvent
  <2>2. ASSUME NEW ev \in {"CE_Initialize", "CE_Stop"}, OtherController(ev)
        PROVE  inbox' \in Seq(Commands)
    BY <1>2, <2>2 DEF OtherController, Commands
  <2>3. CASE EntryDone
    BY <1>2, <2>3 DEF EntryDone
  <2>4. CASE Restart
    <3>1. <<>> \in Seq(Commands)
      OBVIOUS
    <3> QED BY <2>4, <3>1 DEF Restart
  <2> QED BY <2>1, <2>2, <2>3, <2>4
<1>5. others' \in 0..MaxOthers
  BY <1>2, OperationBounds DEF HandleEvent, EntryDone, Restart, OtherController
<1>6. LookupInv'
  <2>1. PeerChanges \/ UNCHANGED vars
    BY DEF HandleEvent, EntryDone, Restart, OtherController
  <2> QED BY <2>1, StepLookupInv DEF ClientInv, Next
<1>7. Kept
  BY <1>1, <1>3, <1>4, <1>5, CallUntouched
<1> QED BY <1>6, <1>7 DEF Kept, ClientInv

\* At first the client has no proxy.
THEOREM InitClientInv == ClientInit => ClientInv
<1> SUFFICES ASSUME ClientInit PROVE ClientInv
  OBVIOUS
<1>1. LookupInv
  BY InitLookupInv DEF ClientInit
<1>2. ClientVarsOK
  <2>1. <<>> \in Seq(Commands) /\ "FS_STARTUP" \in States
    BY DEF States
  <2>2. 0 \in 0..MaxOperations /\ 0 \in 0..MaxOthers
    BY OperationBounds
  <2> QED BY <2>1, <2>2 DEF ClientInit, ClientVarsOK
<1>3. CallInv /\ OutcomeIsTrue
  BY DEF ClientInit, CallInv, OutcomeIsTrue
<1> QED BY <1>1, <1>2, <1>3 DEF ClientInv

\* Every step keeps the invariant.
THEOREM StepClientInv == ClientInv /\ [ClientNext]_allVars => ClientInv'
<1> SUFFICES ASSUME ClientInv, [ClientNext]_allVars PROVE ClientInv'
  OBVIOUS
<1>1. ASSUME Next, UNCHANGED <<clientVars, machineVars>> PROVE ClientInv'
  <2>1. LookupInv'
    BY <1>1, StepLookupInv DEF ClientInv
  <2>2. Kept
    BY <1>1, CallUntouched DEF machineVars, ClientInv, ClientVarsOK
  <2> QED BY <2>1, <2>2 DEF Kept, ClientInv
<1>2. CASE TakeProxy
  <2>1. /\ UNCHANGED vars /\ UNCHANGED machineVars /\ UNCHANGED <<step, operation, value, operations>>
        /\ held' \in Infos /\ step = "idle" /\ outcome' = "none" /\ effects' = <<>>
    BY <1>2 DEF TakeProxy, Infos
  <2>2. Kept
    BY <2>1, FreshCall DEF ClientInv, ClientVarsOK
  <2> QED BY <2>1, <2>2, LookupUnchanged DEF Kept, ClientInv
<1>3. ASSUME NEW o \in StateOperations \cup {"getState"}, Operate(o) PROVE ClientInv'
  <2>1. /\ UNCHANGED vars /\ UNCHANGED machineVars /\ UNCHANGED <<held, value>>
        /\ step' = "request" /\ operation' = o /\ outcome' = "none" /\ effects' = <<>>
        /\ operations < MaxOperations /\ operations' = operations + 1
    BY <1>3 DEF Operate
  <2>2. operations' \in 0..MaxOperations /\ held' \in Infos \cup {Null}
    BY <2>1, OperationBounds DEF ClientInv, ClientVarsOK
  <2>3. Kept
    BY <2>1, <2>2, FreshCall
  <2> QED BY <2>1, <2>3, LookupUnchanged DEF Kept, ClientInv
<1>4. CASE UNCHANGED allVars
  <2>1. UNCHANGED vars /\ UNCHANGED clientVars /\ UNCHANGED <<state, inbox, others>>
    BY <1>4 DEF allVars, machineVars
  <2>2. Kept
    BY <2>1, CallUntouched DEF ClientInv, ClientVarsOK
  <2> QED BY <2>1, <2>2, LookupUnchanged DEF Kept, ClientInv
<1> QED BY <1>1, <1>2, <1>3, <1>4, ClientStepKeeps, MachineStepKeeps DEF ClientNext, Next

\* The invariant holds whatever the participant does.
THEOREM Invariant == ClientSpec => []ClientInv
BY InitClientInv, StepClientInv, PTL DEF ClientSpec

\* Every variable has its type.
THEOREM TypeCorrect == ClientSpec => []ClientTypeOK
<1>1. ClientInv => ClientTypeOK
  BY DEF ClientInv, LookupInv, ClientVarsOK, ClientTypeOK
<1> QED BY <1>1, Invariant, PTL

\* A lookup gives out a proxy for the new interface only if a participant it met offered it,
\* and falls back to the legacy one only if the interface was missing.
THEOREM AnswersAreJustified == ClientSpec => []AnswerIsJustified
<1>1. ClientInv => AnswerIsJustified
  BY DEF ClientInv, LookupInv
<1> QED BY <1>1, Invariant, PTL

\* Through the new interface a normal return means that one event was accepted, and a denial
\* means that none was.
THEOREM OutcomesAreTrue == ClientSpec => []OutcomeIsTrue
<1>1. ClientInv => OutcomeIsTrue
  BY DEF ClientInv
<1> QED BY <1>1, Invariant, PTL
=============================================================================
