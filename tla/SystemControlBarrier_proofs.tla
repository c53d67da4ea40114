--------------------- MODULE SystemControlBarrier_proofs ---------------------
(***************************************************************************)
(* What the calls of System do to the participants themselves, where only  *)
(* one controller commands each of them.  Without faults: no CE_Start goes *)
(* out before every member is ready, and a success that began in front of  *)
(* empty inboxes lasts.  With any number of faults: a stop that succeeded  *)
(* is final whatever was left in the inboxes.                              *)
(***************************************************************************)
EXTENDS SystemControl_proofs

\* No second controller of the same participant.
Unshared ==
  \A c, d \in Controllers : c # d => Members[c] \cap Members[d] = {}

\* The environment in which the barrier holds: moreover, there are no faults, and no poll
\* gives up on somebody who is there.
Undisturbed == Unshared /\ MaxFaults = 0 /\ SlowAnswers = FALSE

CommandsOf ==
  [start    |-> {"CE_Initialize", "CE_Start"},
   stop     |-> {"CE_ErrorFixed", "CE_Stop"},
   shutdown |-> {"CE_Shutdown"}]

\* Where a participant that was seen in the awaited state can be until the next phase.
Reached ==
  [FS_READY    |-> {"FS_READY", "FS_RUNNING"},
   FS_RUNNING  |-> {"FS_RUNNING"},
   FS_IDLE     |-> {"FS_IDLE"},
   FS_SHUTDOWN |-> {"FS_SHUTDOWN"}]

\* The phases of an operation whose barrier can have been passed by somebody.
Barriers == [start |-> {"FS_READY", "FS_RUNNING"}, stop |-> {"FS_IDLE"}, shutdown |-> {"FS_SHUTDOWN"}]

\* What is known of a member during and after a call that began quietly: what waits in
\* its inbox are commands of this call, and where the call has seen it, there it is.
MemberInv(c, p) ==
  /\ inbox[p] \in Seq(CommandsOf[op[c]])
  /\ pc[c] \in AwaitPhases /\ answer[c][p] = pc[c] => state[p] \in Reached[pc[c]]
  /\ pc[c] = "CE_Start" => state[p] \in Reached["FS_READY"]
  /\ pc[c] = "idle" /\ result[c] = "ok" => state[p] = Awaited[op[c]]

BarrierInv ==
  /\ \A p \in Participants : reachable[p]
  /\ \A c \in Controllers : quiet[c] => \A p \in Members[c] : MemberInv(c, p)

\* Sequences over a set: appending a member, and taking one off.
LEMMA AppendIn == \A S : \A s \in Seq(S), e \in S : Append(s, e) \in Seq(S)
OBVIOUS

LEMMA HeadTailIn == \A S : \A s \in Seq(S) : s # <<>> => Head(s) \in S /\ Tail(s) \in Seq(S)
OBVIOUS

\* A command of the call, handled where its barrier leaves a participant, leads nowhere else.
LEMMA CommandsKeepReached ==
  ASSUME NEW o \in OperationNames, NEW b \in Barriers[o],
         NEW s \in Reached[b], NEW ev \in CommandsOf[o]
  PROVE  NextState(s, ev) \in Reached[b]
<1>1. CASE o = "start"
  <2>1. b \in {"FS_READY", "FS_RUNNING"} /\ ev \in {"CE_Initialize", "CE_Start"}
    BY <1>1 DEF Barriers, CommandsOf
  <2>2. s \in {"FS_READY", "FS_RUNNING"} /\ "FS_RUNNING" \in Reached[b]
    BY <2>1 DEF Reached
  <2>3. \A t \in Transitions : t.event = ev /\ s \in t.from => t.to = "FS_RUNNING"
    BY <2>1, <2>2 DEF Transitions, Leads, States
  <2> QED BY <2>2, <2>3 DEF NextState
<1>2. CASE o = "stop"
  <2>1. s = "FS_IDLE" /\ ev \in {"CE_ErrorFixed", "CE_Stop"}
    BY <1>2 DEF Barriers, CommandsOf, Reached
  <2>2. \A t \in Transitions : ~(t.event = ev /\ s \in t.from)
    BY <2>1 DEF Transitions, Leads, States
  <2> QED BY <2>2 DEF NextState
<1>3. CASE o = "shutdown"
  <2>1. s = "FS_SHUTDOWN" /\ ev = "CE_Shutdown"
    BY <1>3 DEF Barriers, CommandsOf, Reached
  <2>2. \A t \in Transitions : ~(t.event = ev /\ s \in t.from)
    BY <2>1 DEF Transitions, Leads, States
  <2> QED BY <2>2 DEF NextState
<1> QED BY <1>1, <1>2, <1>3 DEF OperationNames

\* Nobody leaves the state of a barrier by itself.
LEMMA ReachedIsStable ==
  ASSUME NEW s \in {"FS_READY", "FS_RUNNING", "FS_IDLE", "FS_SHUTDOWN"},
         NEW ev \in {"StartupDone", "InitDone"}
  PROVE  NextState(s, ev) = s
<1>1. \A t \in Transitions : ~(t.event = ev /\ s \in t.from)
  BY DEF Transitions, Leads, States
<1> QED BY <1>1 DEF NextState

\* A step of c inside its call: what the others remember and the participants stay.
OwnStep(c) ==
  /\ \A d \in Controllers \ {c} : pc'[d] = pc[d] /\ answer'[d] = answer[d] /\ result'[d] = result[d]
  /\ UNCHANGED <<op, quiet, worldVars>>

\* Such a step keeps BarrierInv if it keeps what c knows of its members.
LEMMA OwnStepKeeps ==
  ASSUME BarrierInv, NEW c \in Controllers, OwnStep(c),
         quiet[c] => \A p \in Members[c] : MemberInv(c, p)'
  PROVE  BarrierInv'
<1>1. ASSUME NEW d \in Controllers \ {c}, quiet[d], NEW p \in Members[d]
      PROVE  MemberInv(d, p)'
  BY <1>1 DEF OwnStep, BarrierInv, MemberInv, worldVars
<1>2. quiet' = quiet /\ reachable' = reachable
  BY DEF OwnStep, worldVars
<1> QED BY <1>1, <1>2 DEF BarrierInv

\* In the phases that have no barrier behind them c knows nothing of the states.
LEMMA ForgetfulStep ==
  ASSUME TypeOK, BarrierInv, NEW c \in Controllers, OwnStep(c),
         pc'[c] \in AwaitPhases => answer'[c] = NoAnswers,
         pc'[c] # "CE_Start",
         pc'[c] = "idle" => result'[c] # "ok"
  PROVE  BarrierInv'
<1>1. ASSUME pc'[c] \in AwaitPhases, NEW p \in Participants PROVE answer'[c][p] # pc'[c]
  BY <1>1 DEF AwaitPhases, NoAnswers, NoAnswer
<1>2. ASSUME quiet[c], NEW p \in Members[c] PROVE MemberInv(c, p)'
  <2>1. p \in Participants BY MembersAssumption
  <2>2. inbox'[p] \in Seq(CommandsOf[op'[c]])
    BY <1>2 DEF OwnStep, BarrierInv, MemberInv, worldVars
  <2> QED BY <1>1, <2>1, <2>2 DEF MemberInv
<1> QED BY <1>2, OwnStepKeeps

\* A call that leaves with an exception knows nothing.
LEMMA ThrowKeepsBarrier ==
  ASSUME TypeOK, BarrierInv, NEW c \in Controllers, Return(c, "threw"),
         UNCHANGED <<op, quiet, worldVars>>
  PROVE  BarrierInv'
<1>1. pc'[c] = "idle" /\ result'[c] = "threw" /\ OwnStep(c)
  BY DEF Return, OwnStep, TypeOK
<1> QED BY <1>1, ForgetfulStep DEF AwaitPhases

\* Neither does a call that enters a phase other than the round of CE_Start.
LEMMA EnterKeepsBarrier ==
  ASSUME TypeOK, BarrierInv, NEW c \in Controllers, NEW phase \in Phases \ {"idle", "CE_Start"},
         Enter(c, phase), UNCHANGED <<op, quiet, worldVars>>
  PROVE  BarrierInv'
<1>1. pc'[c] = phase /\ OwnStep(c)
  BY DEF Enter, OwnStep, TypeOK
<1>2. phase \in AwaitPhases => answer'[c] = NoAnswers
  BY DEF Enter, TypeOK
<1> QED BY <1>1, <1>2, ForgetfulStep

\* A round that ends has no barrier behind it.
LEMMA RoundEndsKeepsBarrier ==
  ASSUME TypeOK, CallInv, BarrierInv, NEW c \in Controllers, RoundEnds(c)
  PROVE  BarrierInv'
<1>1. UNCHANGED <<op, quiet, worldVars>> BY DEF RoundEnds
<1>2. CASE Return(c, "threw") BY <1>1, <1>2, ThrowKeepsBarrier
<1>3. CASE Proceed(c)
  <2>1. pc[c] \in {"check"} \cup TriggerPhases /\ pc[c] # "idle" /\ pc[c] \notin AwaitPhases
    BY DEF RoundEnds, TriggerPhases, AwaitPhases
  <2>2. op[c] \in OperationNames /\ pc[c] \in PhasesOf[op[c]]
    BY <2>1 DEF CallInv, TypeOK
  <2>3. NextPhase[pc[c]] # "idle" /\ NextPhase[pc[c]] # "CE_Start"
    BY <2>1, <2>2, NextPhaseInOperation DEF AwaitPhases
  <2>4. NextPhase[pc[c]] \in PhasesOf[op[c]]
    BY <2>2, <2>3, NextPhaseInOperation
  <2>5. NextPhase[pc[c]] \in Phases
    BY <2>2, <2>4, NextPhaseInOperation
  <2>6. Enter(c, NextPhase[pc[c]])
    BY <1>3, <2>3 DEF Proceed
  <2> QED BY <1>1, <2>3, <2>5, <2>6, EnterKeepsBarrier
<1> QED BY <1>2, <1>3 DEF RoundEnds

\* Behind a barrier that everybody was seen to pass, everybody is.
LEMMA AwaitEndsKeepsBarrier ==
  ASSUME Undisturbed, TypeOK, CallInv, BarrierInv, NEW c \in Controllers, NEW res,
         AwaitEnds(c, res)
  PROVE  BarrierInv'
<1>1. UNCHANGED <<op, quiet, worldVars>> BY DEF AwaitEnds
<1>2. CASE Return(c, "threw") BY <1>1, <1>2, ThrowKeepsBarrier
<1>3. CASE (\A p \in Answered(c) : answer[c][p] = pc[c]) /\ Proceed(c)
  <2>1. ~(faults < MaxFaults)
    BY DEF Undisturbed, TypeOK
  <2>2. Answered(c) = Members[c]
    BY <2>1, MembersAssumption
       DEF AwaitEnds, PollReturns, Undisturbed, BarrierInv, Answered
  <2>3. ASSUME quiet[c], NEW p \in Members[c] PROVE state[p] \in Reached[pc[c]]
    <3>1. MemberInv(c, p) /\ pc[c] \in AwaitPhases /\ answer[c][p] = pc[c]
      BY <1>3, <2>2, <2>3 DEF BarrierInv, AwaitEnds
    <3> QED BY <3>1 DEF MemberInv
  <2>4. ASSUME quiet[c], NEW p \in Members[c] PROVE inbox[p] \in Seq(CommandsOf[op[c]])
    BY <2>4 DEF BarrierInv, MemberInv
  <2>5. op[c] \in OperationNames /\ pc[c] \in PhasesOf[op[c]] /\ pc[c] \in AwaitPhases
    BY DEF AwaitEnds, AwaitPhases, CallInv, TypeOK
  <2>6. CASE pc[c] = "FS_READY"
    <3>1. Enter(c, "CE_Start")
      BY <1>3, <2>6 DEF Proceed, NextPhase
    <3>2. pc'[c] = "CE_Start" /\ OwnStep(c)
      BY <1>1, <3>1 DEF Enter, OwnStep, TypeOK
    <3>3. ASSUME quiet[c], NEW p \in Members[c] PROVE MemberInv(c, p)'
      <4>1. state'[p] \in Reached["FS_READY"] /\ inbox'[p] \in Seq(CommandsOf[op'[c]])
        BY <1>1, <2>3, <2>4, <2>6, <3>3 DEF worldVars
      <4> QED BY <3>2, <4>1 DEF MemberInv, AwaitPhases
    <3> QED BY <3>2, <3>3, OwnStepKeeps
  <2>7. CASE pc[c] # "FS_READY"
    <3>1. NextPhase[pc[c]] = "idle" /\ Reached[pc[c]] = {Awaited[op[c]]}
      BY <2>5, <2>7 DEF OperationNames, PhasesOf, AwaitPhases, NextPhase, Reached, Awaited
    <3>2. pc'[c] = "idle" /\ OwnStep(c)
      BY <1>1, <1>3, <3>1 DEF Proceed, Return, OwnStep, TypeOK
    <3>3. ASSUME quiet[c], NEW p \in Members[c] PROVE MemberInv(c, p)'
      <4>1. state'[p] = Awaited[op'[c]] /\ inbox'[p] \in Seq(CommandsOf[op'[c]])
        BY <1>1, <2>3, <2>4, <3>1, <3>3 DEF worldVars
      <4> QED BY <3>2, <4>1 DEF MemberInv, AwaitPhases
    <3> QED BY <3>2, <3>3, OwnStepKeeps
  <2> QED BY <2>6, <2>7
<1> QED BY <1>2, <1>3 DEF AwaitEnds, FinishAwait

\* A poll that is repeated starts without answers.
LEMMA PollAgainKeepsBarrier ==
  ASSUME TypeOK, BarrierInv, NEW c \in Controllers, NEW res, PollAgain(c, res)
  PROVE  BarrierInv'
<1>1. OwnStep(c) /\ answer'[c] = NoAnswers
  BY DEF PollAgain, OwnStep, TypeOK
<1>2. pc'[c] \in AwaitPhases
  BY DEF PollAgain
<1> QED BY <1>1, <1>2, ForgetfulStep DEF AwaitPhases

\* An answer is the state of the participant at this moment.
LEMMA AnswerKeepsBarrier ==
  ASSUME TypeOK, BarrierInv, NEW c \in Controllers, NEW p \in Members[c], Answer(c, p)
  PROVE  BarrierInv'
<1>1. p \in Participants BY MembersAssumption
<1>2. answer'[c][p] = state[p] /\ OwnStep(c) /\ pc' = pc
  BY <1>1 DEF Answer, OwnStep, TypeOK
<1>3. \A q \in Participants \ {p} : answer'[c][q] = answer[c][q]
  BY <1>1 DEF Answer, TypeOK
<1>4. \A ph \in AwaitPhases : ph \in Reached[ph]
  BY DEF AwaitPhases, Reached
<1>5. ASSUME quiet[c], NEW q \in Members[c] PROVE MemberInv(c, q)'
  <2>1. MemberInv(c, q) /\ q \in Participants
    BY <1>5, MembersAssumption DEF BarrierInv
  <2>2. UNCHANGED <<pc, op, result, worldVars>>
    BY DEF Answer
  <2>3. CASE q = p
    BY <1>2, <1>4, <2>1, <2>2, <2>3 DEF MemberInv, worldVars
  <2>4. CASE q # p
    BY <1>3, <2>1, <2>2, <2>4 DEF MemberInv, worldVars
  <2> QED BY <2>3, <2>4
<1> QED BY <1>2, <1>5, OwnStepKeeps

\* An accepted trigger queues a command of the call at one of its own members.
LEMMA TriggerKeepsBarrier ==
  ASSUME Unshared, TypeOK, CallInv, BarrierInv, NEW c \in Controllers, NEW p \in Members[c],
         TriggerAccepted(c, p)
  PROVE  BarrierInv'
<1>1. p \in Participants BY MembersAssumption
<1>2. UNCHANGED <<pc, op, answer, result, quiet, state, reachable>>
  BY DEF TriggerAccepted
<1>3. \A q \in Participants \ {p} : inbox'[q] = inbox[q]
  BY <1>1 DEF TriggerAccepted, TypeOK
<1>4. ASSUME quiet[c] PROVE inbox'[p] \in Seq(CommandsOf[op[c]])
  <2>1. inbox[p] \in Seq(CommandsOf[op[c]])
    BY <1>4 DEF BarrierInv, MemberInv
  <2>2. op[c] \in OperationNames /\ pc[c] \in PhasesOf[op[c]] /\ pc[c] \in TriggerPhases
    BY DEF TriggerAccepted, CallInv, TypeOK, TriggerPhases
  <2>3. pc[c] \in CommandsOf[op[c]]
    BY <2>2 DEF OperationNames, PhasesOf, TriggerPhases, CommandsOf
  <2>4. Append(inbox[p], pc[c]) \in Seq(CommandsOf[op[c]])
    BY <2>1, <2>3, AppendIn
  <2> QED BY <1>1, <2>1, <2>4 DEF TriggerAccepted, TypeOK
<1>5. ASSUME NEW d \in Controllers, quiet[d], NEW q \in Members[d] PROVE MemberInv(d, q)'
  <2>1. MemberInv(d, q) /\ q \in Participants
    BY <1>5, MembersAssumption DEF BarrierInv
  <2>2. q = p => d = c
    BY DEF Unshared
  <2>3. inbox'[q] \in Seq(CommandsOf[op[d]])
    BY <1>3, <1>4, <1>5, <2>1, <2>2 DEF MemberInv
  <2> QED BY <1>2, <2>1, <2>3 DEF MemberInv
<1> QED BY <1>2, <1>5 DEF BarrierInv

\* A new call knows nothing but what it saw in the inboxes.
LEMMA CallKeepsBarrier ==
  ASSUME TypeOK, BarrierInv, NEW c \in Controllers, NEW o \in Operations,
         Call(c, o) \/ CallOnEmptySystem(c, o)
  PROVE  BarrierInv'
<1>1. CASE Call(c, o)
  <2>1. /\ pc'[c] = FirstPhase[o]
        /\ quiet'[c] = (\A p \in Members[c] : inbox[p] = <<>>)
        /\ UNCHANGED worldVars
    BY <1>1 DEF Call, MayCall, TypeOK
  <2>2. pc'[c] \notin AwaitPhases /\ pc'[c] \notin {"CE_Start", "idle"}
    BY <2>1, EnvironmentAssumption DEF FirstPhase, OperationNames, AwaitPhases
  <2>3. ASSUME quiet'[c], NEW p \in Members[c] PROVE MemberInv(c, p)'
    <3>1. inbox'[p] = <<>> BY <2>1, <2>3 DEF worldVars
    <3> QED BY <2>2, <3>1 DEF MemberInv
  <2>4. ASSUME NEW d \in Controllers \ {c}, quiet'[d], NEW p \in Members[d]
        PROVE  MemberInv(d, p)'
    <3>1. /\ pc'[d] = pc[d] /\ op'[d] = op[d] /\ answer'[d] = answer[d]
          /\ result'[d] = result[d] /\ quiet'[d] = quiet[d]
      BY <1>1 DEF Call, MayCall, TypeOK
    <3>2. MemberInv(d, p) BY <2>4, <3>1 DEF BarrierInv
    <3> QED BY <2>1, <3>1, <3>2 DEF MemberInv, worldVars
  <2> QED BY <2>1, <2>3, <2>4 DEF BarrierInv, worldVars
<1>2. CASE CallOnEmptySystem(c, o)
  <2>1. ASSUME NEW d \in Controllers, quiet'[d], NEW p \in Members[d]
        PROVE  MemberInv(d, p)'
    <3>1. d # c BY <1>2 DEF CallOnEmptySystem
    <3>2. /\ pc'[d] = pc[d] /\ op'[d] = op[d] /\ answer'[d] = answer[d]
          /\ result'[d] = result[d] /\ quiet'[d] = quiet[d] /\ UNCHANGED worldVars
      BY <1>2, <3>1 DEF CallOnEmptySystem, MayCall, TypeOK
    <3>3. MemberInv(d, p) BY <2>1, <3>2 DEF BarrierInv
    <3> QED BY <3>2, <3>3 DEF MemberInv, worldVars
  <2> QED BY <1>2, <2>1 DEF BarrierInv, CallOnEmptySystem, worldVars
<1> QED BY <1>1, <1>2

\* Handling a command of the call takes nobody back behind a barrier of the call.
LEMMA HandleKeepsBarrier ==
  ASSUME TypeOK, CallInv, BarrierInv, NEW p \in Participants, HandleEvent(p)
  PROVE  BarrierInv'
<1>1. /\ \A q \in Participants \ {p} : inbox'[q] = inbox[q] /\ state'[q] = state[q]
      /\ inbox'[p] = Tail(inbox[p]) /\ state'[p] = NextState(state[p], Head(inbox[p]))
      /\ UNCHANGED <<pc, op, quiet, answer, result, reachable>>
  BY DEF HandleEvent, TypeOK, callVars
<1>2. ASSUME NEW c \in Controllers, quiet[c], p \in Members[c]
      PROVE  MemberInv(c, p)'
  <2>1. MemberInv(c, p) BY <1>2 DEF BarrierInv
  <2>2. inbox[p] \in Seq(CommandsOf[op[c]]) /\ inbox[p] # <<>>
    BY <2>1 DEF MemberInv, HandleEvent
  <2>3. Head(inbox[p]) \in CommandsOf[op[c]] /\ Tail(inbox[p]) \in Seq(CommandsOf[op[c]])
    BY <2>2, HeadTailIn
  <2>4. op[c] \in OperationNames BY DEF TypeOK
  <2>5. ASSUME NEW b \in Barriers[op[c]], state[p] \in Reached[b]
        PROVE  state'[p] \in Reached[b]
    BY <1>1, <2>3, <2>4, <2>5, CommandsKeepReached
  <2>6. pc[c] \in AwaitPhases => pc[c] \in Barriers[op[c]]
    BY <2>4 DEF CallInv, PhasesOf, Barriers, AwaitPhases, OperationNames
  <2>7. pc[c] = "CE_Start" => "FS_READY" \in Barriers[op[c]]
    BY <2>4 DEF CallInv, PhasesOf, Barriers, OperationNames
  <2>8. Awaited[op[c]] \in Barriers[op[c]] /\ Reached[Awaited[op[c]]] = {Awaited[op[c]]}
    BY <2>4 DEF Awaited, Barriers, Reached, OperationNames
  <2> QED BY <1>1, <2>1, <2>3, <2>5, <2>6, <2>7, <2>8 DEF MemberInv
<1>3. ASSUME NEW c \in Controllers, quiet[c], NEW q \in Members[c], q # p
      PROVE  MemberInv(c, q)'
  BY <1>1, <1>3, MembersAssumption DEF BarrierInv, MemberInv
<1> QED BY <1>1, <1>2, <1>3 DEF BarrierInv

\* Neither does an entry function that is done.
LEMMA EntryKeepsBarrier ==
  ASSUME TypeOK, CallInv, BarrierInv, NEW p \in Participants, EntryDone(p)
  PROVE  BarrierInv'
<1>1. /\ \A q \in Participants \ {p} : state'[q] = state[q]
      /\ state[p] \notin {"FS_READY", "FS_RUNNING", "FS_IDLE", "FS_SHUTDOWN"}
      /\ UNCHANGED <<pc, op, quiet, answer, result, reachable, inbox>>
  BY ReachedIsStable DEF EntryDone, TypeOK, callVars
<1>2. ASSUME NEW c \in Controllers, quiet[c], NEW q \in Members[c]
      PROVE  MemberInv(c, q)'
  <2>1. MemberInv(c, q) /\ q \in Participants BY <1>2, MembersAssumption DEF BarrierInv
  <2>2. CASE q # p BY <1>1, <2>1, <2>2 DEF MemberInv
  <2>3. CASE q = p
    <3>1. op[c] \in OperationNames BY DEF TypeOK
    <3>2. \A ph \in AwaitPhases : state[p] \notin Reached[ph]
      BY <1>1 DEF AwaitPhases, Reached
    <3>3. state[p] # Awaited[op[c]]
      BY <1>1, <3>1 DEF Awaited, OperationNames
    <3> QED BY <1>1, <2>1, <2>3, <3>2, <3>3 DEF MemberInv, AwaitPhases
  <2> QED BY <2>2, <2>3
<1> QED BY <1>1, <1>2 DEF BarrierInv

\* BarrierInv is inductive in an undisturbed environment.
THEOREM StepBarrierInv ==
  Undisturbed /\ TypeOK /\ CallInv /\ BarrierInv /\ [Next]_vars => BarrierInv'
<1> SUFFICES ASSUME Undisturbed, TypeOK, CallInv, BarrierInv, [Next]_vars
             PROVE  BarrierInv'
  OBVIOUS
<1>1. CASE UNCHANGED vars
  BY <1>1 DEF BarrierInv, MemberInv, vars, callVars, worldVars
<1>2. Unshared /\ ~(faults < MaxFaults)
  BY DEF Undisturbed, TypeOK
<1>3. ASSUME NEW c \in Controllers, NEW o \in Operations,
             Call(c, o) \/ CallOnEmptySystem(c, o)
      PROVE  BarrierInv'
  BY <1>3, CallKeepsBarrier
<1>4. ASSUME NEW c \in Controllers, NEW p \in Members[c], TriggerAccepted(c, p)
      PROVE  BarrierInv'
  BY <1>2, <1>4, TriggerKeepsBarrier
<1>5. ASSUME NEW c \in Controllers, NEW p \in Members[c],
             CheckParticipant(c, p) \/ CheckUnanswered(c, p) \/ TriggerFails(c, p)
      PROVE  BarrierInv'
  BY <1>5 DEF CheckParticipant, CheckUnanswered, TriggerFails, BarrierInv, MemberInv, worldVars
<1>6. ASSUME NEW c \in Controllers, NEW p \in Members[c], CheckThrows(c, p)
      PROVE  BarrierInv'
  BY <1>6, ThrowKeepsBarrier DEF CheckThrows
<1>7. ASSUME NEW c \in Controllers, NEW p \in Members[c], Answer(c, p)
      PROVE  BarrierInv'
  BY <1>7, AnswerKeepsBarrier
<1>8. ASSUME NEW c \in Controllers, RoundEnds(c) PROVE BarrierInv'
  BY <1>8, RoundEndsKeepsBarrier
<1>9. ASSUME NEW c \in Controllers, NEW res, AwaitEnds(c, res) \/ PollAgain(c, res)
      PROVE  BarrierInv'
  BY <1>9, AwaitEndsKeepsBarrier, PollAgainKeepsBarrier
<1>10. ASSUME NEW p \in Participants, HandleEvent(p) PROVE BarrierInv'
  BY <1>10, HandleKeepsBarrier
<1>11. ASSUME NEW p \in Participants, EntryDone(p) PROVE BarrierInv'
  BY <1>11, EntryKeepsBarrier
<1>12. ASSUME NEW p \in Participants,
              ParticipantError(p) \/ Disconnect(p) \/ Crash(p) \/ Reconnect(p)
       PROVE  FALSE
  BY <1>2, <1>12 DEF ParticipantError, Disconnect, Crash, Reconnect, Fault, BarrierInv
<1> QED
  BY <1>1, <1>3, <1>4, <1>5, <1>6, <1>7, <1>8, <1>9, <1>10, <1>11, <1>12
  DEF Next, ControllerStep, ParticipantStep

\* BarrierInv holds in every run of an undisturbed system.
THEOREM BarrierInvariant == Undisturbed => (Spec => [](TypeOK /\ CallInv /\ BarrierInv))
<1> SUFFICES ASSUME Undisturbed PROVE Spec => [](TypeOK /\ CallInv /\ BarrierInv)
  OBVIOUS
<1>1. Init => BarrierInv
  <2> SUFFICES ASSUME Init PROVE BarrierInv
    OBVIOUS
  <2>1. ASSUME NEW c \in Controllers, NEW p \in Members[c] PROVE MemberInv(c, p)
    <3>1. p \in Participants BY MembersAssumption
    <3>2. inbox[p] = <<>> /\ pc[c] = "idle" /\ result[c] = "none"
      BY <3>1 DEF Init
    <3> QED BY <3>2 DEF MemberInv, AwaitPhases
  <2> QED BY <2>1 DEF Init, BarrierInv
<1>2. TypeOK /\ CallInv /\ BarrierInv /\ [Next]_vars => BarrierInv'
  BY StepBarrierInv
<1> QED BY <1>1, <1>2, CallInvariant, PTL DEF Spec

\* The barrier of start holds in every run of an undisturbed system.
THEOREM BarrierHolds == Undisturbed => (Spec => []StartBarrier)
<1>1. BarrierInv => StartBarrier
  <2> SUFFICES ASSUME BarrierInv, NEW c \in Controllers,
                      pc[c] = "CE_Start", quiet[c], NEW p \in Members[c]
               PROVE  state[p] \in {"FS_READY", "FS_RUNNING"}
    BY DEF StartBarrier
  <2>1. MemberInv(c, p) BY DEF BarrierInv
  <2> QED BY <2>1 DEF MemberInv, Reached
<1> QED BY <1>1, BarrierInvariant, PTL

\* In every run of an undisturbed system, a success that began quietly lasts.
THEOREM SuccessLasts == Undisturbed => (Spec => []SuccessHolds)
<1>1. BarrierInv => SuccessHolds
  BY DEF BarrierInv, MemberInv, SuccessHolds
<1> QED BY <1>1, BarrierInvariant, PTL
-----------------------------------------------------------------------------
(* A successful stop is final, slow participants, leftovers and faults      *)
(* included.                                                                *)

\* The stop of c has sent p its CE_ErrorFixed, or its CE_Stop, and p has taken it.
FixSent(c, p) ==
  /\ op[c] = "stop"
  /\ \/ pc[c] = "CE_ErrorFixed" /\ p \notin todo[c] \cup failed[c]
     \/ pc[c] = "CE_Stop" /\ p \notin failed[c]
     \/ pc[c] = "FS_IDLE"
     \/ pc[c] = "idle" /\ result[c] = "ok"

StopSent(c, p) ==
  /\ op[c] = "stop"
  /\ \/ pc[c] = "CE_Stop" /\ p \notin todo[c] \cup failed[c]
     \/ pc[c] = "FS_IDLE"
     \/ pc[c] = "idle" /\ result[c] = "ok"

\* Whoever is in error still has a CE_ErrorFixed to handle.
ErrorWillBeFixed(p) ==
  state[p] = "FS_ERROR" => \E i \in 1..Len(inbox[p]) : inbox[p][i] = "CE_ErrorFixed"

Stopped == {"FS_STARTUP", "FS_IDLE", "FS_SHUTDOWN"}

\* The last thing p has to handle, or has handled, is a CE_Stop.
EndsWithStop(p) ==
  IF inbox[p] = <<>> THEN state[p] \in Stopped ELSE inbox[p][Len(inbox[p])] = "CE_Stop"

\* Of a participant that was not struck: who is away has ended and lost what it had been sent.
SentInv(c, p) ==
  p \notin struck[c] =>
    /\ FixSent(c, p) => ErrorWillBeFixed(p)
    /\ StopSent(c, p) => EndsWithStop(p)
    /\ ~reachable[p] => inbox[p] = <<>> /\ state[p] \in Stopped

\* Nobody else sends p anything after the CE_Stop of its only controller.
StopInv == \A c \in Controllers : \A p \in Members[c] : SentInv(c, p)

\* Whoever was sent the CE_Stop was sent the CE_ErrorFixed before.
LEMMA StopAfterFix ==
  ASSUME NEW c \in Controllers, NEW p, StopSent(c, p) PROVE FixSent(c, p)
BY DEF StopSent, FixSent

\* No command leads into FS_ERROR, CE_ErrorFixed leads out of it and nothing else
\* that a participant does of its own accord touches it.
LEMMA NobodyFails ==
  ASSUME NEW s \in States, NEW ev \in Commands \cup {"StartupDone", "InitDone"},
         NextState(s, ev) = "FS_ERROR"
  PROVE  s = "FS_ERROR" /\ ev # "CE_ErrorFixed"
<1>1. \A t \in Transitions : t.event = ev => t.to # "FS_ERROR"
  BY DEF Transitions, Leads, Commands
<1>2. ~\E t \in Transitions : t.event = ev /\ s \in t.from
  <2> SUFFICES ASSUME \E t \in Transitions : t.event = ev /\ s \in t.from PROVE FALSE
    OBVIOUS
  <2>1. LET t == CHOOSE t \in Transitions : t.event = ev /\ s \in t.from
        IN  t \in Transitions /\ t.event = ev /\ s \in t.from
    OBVIOUS
  <2> QED BY <1>1, <2>1 DEF NextState
<1>3. s = "FS_ERROR" BY <1>2 DEF NextState
<1>4. Leads("CE_ErrorFixed", {"FS_ERROR"}, "FS_IDLE") \in Transitions
  BY DEF Transitions
<1>5. ev # "CE_ErrorFixed"
  BY <1>2, <1>3, <1>4 DEF Leads
<1> QED BY <1>3, <1>5

\* CE_Stop stops everybody who is not in error.
LEMMA StopStops ==
  ASSUME NEW s \in States \ {"FS_ERROR"} PROVE NextState(s, "CE_Stop") \in Stopped
<1> DEFINE stop == Leads("CE_Stop", {"FS_INITIALIZING", "FS_READY", "FS_RUNNING"}, "FS_IDLE")
<1>1. stop \in Transitions /\ \A t \in Transitions : t.event = "CE_Stop" => t = stop
  BY DEF Transitions, Leads
<1>2. CASE s \in {"FS_INITIALIZING", "FS_READY", "FS_RUNNING"}
  <2>1. stop.event = "CE_Stop" /\ s \in stop.from /\ stop.to = "FS_IDLE"
    BY <1>2 DEF Leads
  <2> HIDE DEF stop
  <2>2. LET t == CHOOSE t \in Transitions : t.event = "CE_Stop" /\ s \in t.from
        IN  t = stop
    BY <1>1, <2>1
  <2> QED BY <1>1, <2>1, <2>2 DEF NextState, Stopped
<1>3. CASE s \in Stopped
  <2>1. s \notin stop.from BY <1>3 DEF Leads, Stopped
  <2> HIDE DEF stop
  <2> QED BY <1>1, <1>3, <2>1 DEF NextState
<1> QED BY <1>2, <1>3 DEF States, Stopped

\* Who is stopped stays so by itself.
LEMMA StoppedIsStable ==
  ASSUME NEW s \in Stopped, NEW ev \in {"StartupDone", "InitDone"}
  PROVE  NextState(s, ev) \in Stopped
<1>1. \A t \in Transitions : t.event = ev /\ s \in t.from => t.to \in Stopped
  BY DEF Transitions, Leads, States, Stopped
<1>2. CASE \E t \in Transitions : t.event = ev /\ s \in t.from
  <2>1. LET t == CHOOSE t \in Transitions : t.event = ev /\ s \in t.from
        IN  t \in Transitions /\ t.event = ev /\ s \in t.from
    BY <1>2
  <2> QED BY <1>1, <1>2, <2>1 DEF NextState
<1>3. CASE ~\E t \in Transitions : t.event = ev /\ s \in t.from
  BY <1>3 DEF NextState
<1> QED BY <1>2, <1>3

\* A step of c inside its call that sends nothing keeps StopInv if c does not think
\* afterwards that it has sent more than it thought before.
SilentStep(c) ==
  /\ \A d \in Controllers \ {c} : pc'[d] = pc[d] /\ todo'[d] = todo[d] /\ result'[d] = result[d]
                                  /\ failed'[d] = failed[d]
  /\ UNCHANGED <<op, struck, worldVars>>

LEMMA SilentKeepsStop ==
  ASSUME StopInv, NEW c \in Controllers, SilentStep(c),
         \A p \in Members[c] : (FixSent(c, p)' => FixSent(c, p)) /\ (StopSent(c, p)' => StopSent(c, p))
  PROVE  StopInv'
<1>1. ASSUME NEW d \in Controllers, NEW p \in Members[d] PROVE SentInv(d, p)'
  <2>1. (FixSent(d, p)' => FixSent(d, p)) /\ (StopSent(d, p)' => StopSent(d, p))
    <3>1. CASE d = c BY <1>1, <3>1
    <3>2. CASE d # c BY <3>2 DEF SilentStep, FixSent, StopSent
    <3> QED BY <3>1, <3>2
  <2>2. SentInv(d, p) /\ (ErrorWillBeFixed(p) => ErrorWillBeFixed(p)') /\ (EndsWithStop(p) => EndsWithStop(p)')
    BY DEF StopInv, SilentStep, worldVars, ErrorWillBeFixed, EndsWithStop
  <2> QED BY <2>1, <2>2 DEF SentInv, SilentStep, worldVars
<1> QED BY <1>1 DEF StopInv

\* A phase ends without having sent anything more.
LEMMA ProceedKeepsStop ==
  ASSUME TypeOK, CallInv, StopInv, NEW c \in Controllers, Proceed(c),
         UNCHANGED <<op, failed, struck, worldVars>>,
         pc[c] # "idle", pc[c] \notin AwaitPhases => todo[c] = {},
         failed[c] = {} \/ pc[c] = "CE_ErrorFixed"
  PROVE  StopInv'
<1>1. SilentStep(c)
  BY DEF Proceed, Enter, Return, SilentStep, TypeOK
<1>2. op[c] \in OperationNames /\ pc[c] \in PhasesOf[op[c]]
  BY DEF CallInv, TypeOK
<1>3. ASSUME op[c] = "stop", NEW p \in Members[c]
      PROVE  (FixSent(c, p)' => FixSent(c, p)) /\ (StopSent(c, p)' => StopSent(c, p))
  <2>1. pc[c] \in {"CE_ErrorFixed", "CE_Stop", "FS_IDLE"}
    BY <1>2, <1>3 DEF PhasesOf
  <2>2. CASE pc[c] = "CE_ErrorFixed"
    <3>1. Enter(c, "CE_Stop") /\ todo[c] = {}
      BY <2>2 DEF Proceed, NextPhase, AwaitPhases
    <3>2. pc'[c] = "CE_Stop" /\ todo'[c] = Members[c]
      BY <3>1 DEF Enter, AwaitPhases, TypeOK
    <3> QED BY <1>3, <2>2, <3>1, <3>2 DEF FixSent, StopSent
  <2>3. CASE pc[c] = "CE_Stop"
    <3>1. Enter(c, "FS_IDLE") /\ todo[c] = {}
      BY <2>3 DEF Proceed, NextPhase, AwaitPhases
    <3> QED BY <1>3, <2>3, <3>1 DEF FixSent, StopSent
  <2>4. CASE pc[c] = "FS_IDLE"
    BY <1>3, <2>4 DEF FixSent, StopSent
  <2> QED BY <2>1, <2>2, <2>3, <2>4
<1>4. op' = op OBVIOUS
<1>5. op[c] # "stop" => \A p : ~FixSent(c, p)' /\ ~StopSent(c, p)'
  BY <1>4 DEF FixSent, StopSent
<1> QED BY <1>1, <1>3, <1>5, SilentKeepsStop

\* So does a call that leaves with an exception.
LEMMA ThrowKeepsStop ==
  ASSUME TypeOK, StopInv, NEW c \in Controllers, Return(c, "threw"),
         failed' = failed \/ failed' = [failed EXCEPT ![c] = {}],
         UNCHANGED <<op, struck, worldVars>>
  PROVE  StopInv'
<1>1. SilentStep(c) /\ pc'[c] = "idle" /\ result'[c] = "threw"
  BY DEF Return, SilentStep, TypeOK
<1>2. \A p : ~FixSent(c, p)' /\ ~StopSent(c, p)'
  BY <1>1 DEF FixSent, StopSent
<1> QED BY <1>1, <1>2, SilentKeepsStop

\* What an accepted trigger adds to the inbox of p.
LEMMA AppendedLast ==
  ASSUME NEW S, NEW s \in Seq(S), NEW e \in S
  PROVE  /\ Append(s, e) # <<>>
         /\ Append(s, e)[Len(Append(s, e))] = e
         /\ \A i \in 1..Len(s) : i \in 1..Len(Append(s, e)) /\ Append(s, e)[i] = s[i]
         /\ Len(Append(s, e)) \in 1..Len(Append(s, e))
OBVIOUS

\* An accepted trigger of a stop is the last in the inbox.
LEMMA TriggerKeepsStop ==
  ASSUME Unshared, TypeOK, CallInv, StopInv, NEW c \in Controllers, NEW p \in Members[c],
         TriggerAccepted(c, p)
  PROVE  StopInv'
<1>1. p \in Participants BY MembersAssumption
<1>2. UNCHANGED <<pc, op, failed, result, struck, state, reachable>>
  BY DEF TriggerAccepted
<1>3. /\ \A q \in Participants \ {p} : inbox'[q] = inbox[q]
      /\ inbox'[p] = IF reachable[p] THEN Append(inbox[p], pc[c]) ELSE inbox[p]
  BY <1>1 DEF TriggerAccepted, TypeOK
<1>4. todo' = [todo EXCEPT ![c] = @ \ {p}]
  BY DEF TriggerAccepted
<1>5. inbox[p] \in Seq(Commands) /\ pc[c] \in Commands
  BY <1>1 DEF TypeOK, TriggerAccepted, TriggerPhases, Commands
<1>6. ErrorWillBeFixed(p) => ErrorWillBeFixed(p)'
  BY <1>2, <1>3, <1>5, AppendedLast DEF ErrorWillBeFixed
<1>7. ASSUME reachable[p] \/ (inbox[p] = <<>> /\ state[p] \in Stopped)
      PROVE  /\ pc[c] = "CE_ErrorFixed" => ErrorWillBeFixed(p)'
             /\ pc[c] = "CE_Stop" => EndsWithStop(p)'
  <2>1. CASE reachable[p]
    BY <1>2, <1>3, <1>5, <2>1, AppendedLast DEF ErrorWillBeFixed, EndsWithStop
  <2>2. CASE ~reachable[p]
    BY <1>2, <1>3, <1>7, <2>2 DEF ErrorWillBeFixed, EndsWithStop, Stopped
  <2> QED BY <2>1, <2>2
<1>9. SentInv(c, p)'
  <2>1. SentInv(c, p) BY DEF StopInv
  <2>5. ~reachable'[p] => inbox'[p] = inbox[p] /\ state'[p] = state[p] /\ ~reachable[p]
    BY <1>2, <1>3
  <2>2. pc[c] \in TriggerPhases BY DEF TriggerAccepted
  <2>3. FixSent(c, p)' => pc[c] = "CE_ErrorFixed" \/ FixSent(c, p)
    BY <1>2 DEF FixSent
  <2>4. StopSent(c, p)' => pc[c] = "CE_Stop"
    BY <1>2, <2>2 DEF StopSent, TriggerPhases
  <2> QED BY <1>2, <1>6, <1>7, <2>1, <2>3, <2>4, <2>5 DEF SentInv
<1>10. ASSUME NEW d \in Controllers, NEW q \in Members[d], q # p PROVE SentInv(d, q)'
  <2>1. SentInv(d, q) /\ q \in Participants BY MembersAssumption DEF StopInv
  <2>2. q \in todo'[d] <=> q \in todo[d]
    BY <1>4, <1>10 DEF TypeOK
  <2>3. (FixSent(d, q)' => FixSent(d, q)) /\ (StopSent(d, q)' => StopSent(d, q))
    BY <1>2, <2>2 DEF FixSent, StopSent
  <2>4. (ErrorWillBeFixed(q) => ErrorWillBeFixed(q)') /\ (EndsWithStop(q) => EndsWithStop(q)')
    BY <1>2, <1>3, <1>10, <2>1 DEF ErrorWillBeFixed, EndsWithStop
  <2> QED BY <1>2, <1>3, <1>10, <2>1, <2>3, <2>4 DEF SentInv
<1>11. ASSUME NEW d \in Controllers, p \in Members[d] PROVE d = c
  BY <1>11 DEF Unshared
<1> QED BY <1>9, <1>10, <1>11 DEF StopInv

\* A sequence is empty when its length is 0.
LEMMA EmptyIffNoLength == \A S : \A s \in Seq(S) : s = <<>> <=> Len(s) = 0
OBVIOUS

\* Taking the head off an inbox.
LEMMA TailLast ==
  ASSUME NEW S, NEW s \in Seq(S), s # <<>>
  PROVE  /\ Head(s) = s[1] /\ Head(s) \in S
         /\ Tail(s) # <<>> => Tail(s)[Len(Tail(s))] = s[Len(s)]
         /\ Tail(s) = <<>> => Len(s) = 1
         /\ \A i \in 1..Len(s) : i # 1 => i - 1 \in 1..Len(Tail(s)) /\ Tail(s)[i - 1] = s[i]
<1>1. Head(s) = s[1] /\ Head(s) \in S
  OBVIOUS
<1>2. Len(s) \in Nat \ {0} /\ Tail(s) \in Seq(S) /\ Len(Tail(s)) = Len(s) - 1
  OBVIOUS
<1>3. \A i \in 1..Len(Tail(s)) : Tail(s)[i] = s[i + 1]
  BY <1>2
<1>4. Tail(s) # <<>> => Len(Tail(s)) \in 1..Len(Tail(s)) /\ Len(Tail(s)) + 1 = Len(s)
  <2>1. PICK n \in Nat \ {0} : n = Len(s)
    BY <1>2
  <2>2. Tail(s) # <<>> => Len(Tail(s)) # 0
    BY <1>2, EmptyIffNoLength
  <2> QED BY <1>2, <2>1, <2>2
<1>5. Tail(s) = <<>> => Len(s) = 1
  <2>1. PICK n \in Nat \ {0} : n = Len(s)
    BY <1>2
  <2>2. Tail(s) = <<>> => n - 1 = 0
    BY <1>2, <2>1, EmptyIffNoLength
  <2> QED BY <2>1, <2>2
<1>6. ASSUME NEW i \in 1..Len(s), i # 1 PROVE i - 1 \in 1..Len(Tail(s)) /\ Tail(s)[i - 1] = s[i]
  <2>1. i - 1 \in 1..Len(Tail(s)) /\ (i - 1) + 1 = i
    BY <1>2, <1>6
  <2> QED BY <1>3, <2>1
<1>7. Tail(s) # <<>> => Tail(s)[Len(Tail(s))] = s[Len(s)]
  <2> DEFINE n == Len(Tail(s))
  <2>1. \A i \in 1..n : Tail(s)[i] = s[i + 1] BY <1>3
  <2>2. Tail(s) # <<>> => n \in 1..n /\ n + 1 = Len(s) BY <1>4
  <2> HIDE DEF n
  <2>3. Tail(s) # <<>> => Tail(s)[n] = s[Len(s)] BY <2>1, <2>2
  <2> QED BY <2>3 DEF n
<1> QED BY <1>1, <1>5, <1>6, <1>7

\* A participant that handles its last event stops if this is a CE_Stop.
LEMMA HandleKeepsStop ==
  ASSUME TypeOK, StopInv, NEW p \in Participants, HandleEvent(p)
  PROVE  StopInv'
<1>1. /\ \A q \in Participants \ {p} : inbox'[q] = inbox[q] /\ state'[q] = state[q]
      /\ inbox'[p] = Tail(inbox[p]) /\ state'[p] = NextState(state[p], Head(inbox[p]))
      /\ UNCHANGED <<pc, op, todo, failed, result, struck, reachable>>
  BY DEF HandleEvent, TypeOK, callVars
<1>2. inbox[p] \in Seq(Commands) /\ inbox[p] # <<>> /\ state[p] \in States
  BY DEF HandleEvent, TypeOK
<1>3. ErrorWillBeFixed(p) => ErrorWillBeFixed(p)'
  <2> SUFFICES ASSUME ErrorWillBeFixed(p), state'[p] = "FS_ERROR"
               PROVE  \E i \in 1..Len(inbox'[p]) : inbox'[p][i] = "CE_ErrorFixed"
    BY DEF ErrorWillBeFixed
  <2>1. Head(inbox[p]) = inbox[p][1] /\ Head(inbox[p]) \in Commands
    BY <1>2, TailLast
  <2>2. state[p] = "FS_ERROR" /\ inbox[p][1] # "CE_ErrorFixed"
    BY <1>1, <1>2, <2>1, NobodyFails
  <2>3. PICK i \in 1..Len(inbox[p]) : inbox[p][i] = "CE_ErrorFixed"
    BY <2>2 DEF ErrorWillBeFixed
  <2>4. i # 1 BY <2>2, <2>3
  <2>5. i - 1 \in 1..Len(Tail(inbox[p])) /\ Tail(inbox[p])[i - 1] = "CE_ErrorFixed"
    BY <1>2, <2>3, <2>4, TailLast
  <2> QED BY <1>1, <2>5
<1>4. ErrorWillBeFixed(p) /\ EndsWithStop(p) => EndsWithStop(p)'
  <2> SUFFICES ASSUME ErrorWillBeFixed(p), EndsWithStop(p) PROVE EndsWithStop(p)'
    OBVIOUS
  <2>1. inbox[p][Len(inbox[p])] = "CE_Stop"
    BY <1>2 DEF EndsWithStop
  <2>2. CASE Tail(inbox[p]) = <<>>
    <3>1. Len(inbox[p]) = 1 /\ Head(inbox[p]) = "CE_Stop"
      BY <1>2, <2>1, <2>2, TailLast
    <3>2. state[p] # "FS_ERROR"
      <4> SUFFICES ASSUME state[p] = "FS_ERROR" PROVE FALSE
        OBVIOUS
      <4>1. PICK i \in 1..Len(inbox[p]) : inbox[p][i] = "CE_ErrorFixed"
        BY DEF ErrorWillBeFixed
      <4>2. i = Len(inbox[p]) BY <3>1, <4>1
      <4> QED BY <2>1, <4>1, <4>2
    <3> QED BY <1>1, <1>2, <2>2, <3>1, <3>2, StopStops DEF EndsWithStop
  <2>3. CASE Tail(inbox[p]) # <<>>
    <3>1. Tail(inbox[p])[Len(Tail(inbox[p]))] = "CE_Stop"
      BY <1>2, <2>1, <2>3, TailLast
    <3> QED BY <1>1, <2>3, <3>1 DEF EndsWithStop
  <2> QED BY <2>2, <2>3
<1>5. ASSUME NEW c \in Controllers, NEW q \in Members[c] PROVE SentInv(c, q)'
  <2>1. SentInv(c, q) /\ q \in Participants BY MembersAssumption DEF StopInv
  <2>2. (FixSent(c, q)' => FixSent(c, q)) /\ (StopSent(c, q)' => StopSent(c, q))
    BY <1>1 DEF FixSent, StopSent
  <2>3. CASE q = p
    BY <1>1, <1>2, <1>3, <1>4, <2>1, <2>2, <2>3, StopAfterFix DEF SentInv
  <2>4. CASE q # p
    <3>1. (ErrorWillBeFixed(q) => ErrorWillBeFixed(q)') /\ (EndsWithStop(q) => EndsWithStop(q)')
      BY <1>1, <2>1, <2>4 DEF ErrorWillBeFixed, EndsWithStop
    <3> QED BY <1>1, <2>1, <2>2, <2>4, <3>1 DEF SentInv
  <2> QED BY <2>3, <2>4
<1> QED BY <1>5 DEF StopInv

\* An entry function that is done leaves the stopped ones stopped.
LEMMA EntryKeepsStop ==
  ASSUME TypeOK, StopInv, NEW p \in Participants, EntryDone(p)
  PROVE  StopInv'
<1>1. UNCHANGED <<pc, op, todo, failed, result, struck, reachable, inbox>>
  BY DEF EntryDone, callVars
<1>2. PICK ev \in {"StartupDone", "InitDone"} : state' = [state EXCEPT ![p] = NextState(@, ev)]
  BY DEF EntryDone
<1>3. /\ \A q \in Participants \ {p} : state'[q] = state[q]
      /\ state'[p] = NextState(state[p], ev) /\ state[p] \in States
  BY <1>2 DEF TypeOK
<1>4. \A q \in Participants : state'[q] = "FS_ERROR" => state[q] = "FS_ERROR"
  BY <1>3, NobodyFails
<1>5. \A q \in Participants : state[q] \in Stopped => state'[q] \in Stopped
  BY <1>3, StoppedIsStable
<1>6. ASSUME NEW c \in Controllers, NEW q \in Members[c] PROVE SentInv(c, q)'
  <2>1. SentInv(c, q) /\ q \in Participants BY MembersAssumption DEF StopInv
  <2>2. (FixSent(c, q)' => FixSent(c, q)) /\ (StopSent(c, q)' => StopSent(c, q))
    BY <1>1 DEF FixSent, StopSent
  <2>3. (ErrorWillBeFixed(q) => ErrorWillBeFixed(q)') /\ (EndsWithStop(q) => EndsWithStop(q)')
    BY <1>1, <1>4, <1>5, <2>1 DEF ErrorWillBeFixed, EndsWithStop
  <2> QED BY <1>1, <1>5, <2>1, <2>2, <2>3 DEF SentInv
<1> QED BY <1>6 DEF StopInv

\* A participant that runs into an error or loses the connection is struck in every call, one
\* that ends has nothing left to handle, and who comes back is not away.
LEMMA FaultKeepsStop ==
  ASSUME TypeOK, StopInv, NEW p \in Participants,
         ParticipantError(p) \/ Disconnect(p) \/ Crash(p) \/ Reconnect(p)
  PROVE  StopInv'
<1>1. UNCHANGED <<pc, op, todo, failed, result>>
  BY DEF ParticipantError, Disconnect, Crash, Reconnect, Fault, callVars
<1>2. \A q \in Participants \ {p} :
        inbox'[q] = inbox[q] /\ state'[q] = state[q] /\ reachable'[q] = reachable[q]
  BY DEF ParticipantError, Disconnect, Crash, Reconnect, TypeOK
<1>3. ASSUME NEW c \in Controllers
      PROVE  struck'[c] = struck[c] \/ struck'[c] = struck[c] \cup {p}
  BY DEF ParticipantError, Disconnect, Crash, Reconnect, Strike, callVars
<1>4. ASSUME NEW c \in Controllers, NEW q \in Members[c] PROVE SentInv(c, q)'
  <2>1. SentInv(c, q) /\ q \in Participants BY MembersAssumption DEF StopInv
  <2>2. (FixSent(c, q)' <=> FixSent(c, q)) /\ (StopSent(c, q)' <=> StopSent(c, q))
    BY <1>1 DEF FixSent, StopSent
  <2>3. CASE q # p
    <3>1. (ErrorWillBeFixed(q)' <=> ErrorWillBeFixed(q)) /\ (EndsWithStop(q)' <=> EndsWithStop(q))
      BY <1>2, <2>1, <2>3 DEF ErrorWillBeFixed, EndsWithStop
    <3> QED BY <1>2, <1>3, <2>1, <2>2, <2>3, <3>1 DEF SentInv
  <2>4. CASE q = p /\ (ParticipantError(p) \/ Disconnect(p))
    <3>1. q \in struck'[c] BY <2>4 DEF ParticipantError, Disconnect, Strike
    <3> QED BY <3>1 DEF SentInv
  <2>5. CASE q = p /\ Crash(p)
    <3>1. inbox'[q] = <<>> /\ state'[q] = "FS_STARTUP"
      BY <2>1, <2>5 DEF Crash, TypeOK
    <3> QED BY <3>1 DEF SentInv, ErrorWillBeFixed, EndsWithStop, Stopped
  <2>6. CASE q = p /\ Reconnect(p)
    <3>1. inbox'[q] = inbox[q] /\ state'[q] = state[q] /\ reachable'[q] /\ struck' = struck
      BY <2>1, <2>6 DEF Reconnect, TypeOK, callVars
    <3>2. (ErrorWillBeFixed(q)' <=> ErrorWillBeFixed(q)) /\ (EndsWithStop(q)' <=> EndsWithStop(q))
      BY <3>1 DEF ErrorWillBeFixed, EndsWithStop
    <3> QED BY <2>1, <2>2, <3>1, <3>2 DEF SentInv
  <2> QED BY <2>3, <2>4, <2>5, <2>6
<1> QED BY <1>4 DEF StopInv

\* StopInv is inductive where nobody shares a participant.
THEOREM StepStopInv ==
  Unshared /\ TypeOK /\ CallInv /\ StopInv /\ [Next]_vars => StopInv'
<1> SUFFICES ASSUME Unshared, TypeOK, CallInv, StopInv, [Next]_vars PROVE StopInv'
  OBVIOUS
<1>1. CASE UNCHANGED vars
  BY <1>1 DEF StopInv, SentInv, FixSent, StopSent, ErrorWillBeFixed, EndsWithStop,
              vars, callVars, worldVars
<1>3. ASSUME NEW c \in Controllers, NEW o \in Operations, Call(c, o) PROVE StopInv'
  <2>1. /\ pc'[c] = FirstPhase[o] /\ op'[c] = o /\ todo'[c] = Members[c]
        /\ \A d \in Controllers \ {c} : pc'[d] = pc[d] /\ todo'[d] = todo[d]
                                        /\ result'[d] = result[d] /\ op'[d] = op[d]
                                        /\ failed'[d] = failed[d] /\ struck'[d] = struck[d]
        /\ struck'[c] = {p \in Participants : ~reachable[p]}
        /\ UNCHANGED worldVars
    BY <1>3 DEF Call, MayCall, TypeOK
  <2>2. o = "stop" => pc'[c] = "CE_ErrorFixed"
    BY <2>1 DEF FirstPhase
  <2>3. \A p \in Members[c] : ~FixSent(c, p)' /\ ~StopSent(c, p)'
    BY <2>1, <2>2 DEF FixSent, StopSent
  <2>4. ASSUME NEW d \in Controllers \ {c}, NEW p \in Members[d] PROVE SentInv(d, p)'
    BY <2>1 DEF StopInv, SentInv, FixSent, StopSent, ErrorWillBeFixed, EndsWithStop, worldVars
  <2>5. \A p \in Members[c] : p \in Participants /\ (~reachable'[p] => p \in struck'[c])
    BY <2>1, MembersAssumption DEF worldVars
  <2>6. \A p \in Members[c] : SentInv(c, p)'
    BY <2>3, <2>5 DEF SentInv
  <2> QED BY <2>4, <2>6 DEF StopInv
<1>4. ASSUME NEW c \in Controllers, NEW o \in Operations, CallOnEmptySystem(c, o) PROVE StopInv'
  <2>1. /\ Members[c] = {}
        /\ \A d \in Controllers \ {c} : pc'[d] = pc[d] /\ todo'[d] = todo[d]
                                        /\ result'[d] = result[d] /\ op'[d] = op[d]
                                        /\ failed'[d] = failed[d] /\ struck'[d] = struck[d]
        /\ UNCHANGED worldVars
    BY <1>4 DEF CallOnEmptySystem, MayCall, TypeOK
  <2>2. ASSUME NEW d \in Controllers \ {c}, NEW p \in Members[d] PROVE SentInv(d, p)'
    BY <2>1 DEF StopInv, SentInv, FixSent, StopSent, ErrorWillBeFixed, EndsWithStop, worldVars
  <2> QED BY <2>1, <2>2 DEF StopInv, worldVars
<1>5. ASSUME NEW c \in Controllers, NEW p \in Members[c],
             CheckParticipant(c, p) \/ CheckUnanswered(c, p)
      PROVE  StopInv'
  <2>1. SilentStep(c) /\ pc' = pc /\ pc[c] = "check" /\ op' = op
    BY <1>5 DEF CheckParticipant, CheckUnanswered, SilentStep, TypeOK
  <2>2. \A q : ~FixSent(c, q)' /\ ~StopSent(c, q)'
    BY <2>1 DEF FixSent, StopSent
  <2> QED BY <2>1, <2>2, SilentKeepsStop
<1>6. ASSUME NEW c \in Controllers, NEW p \in Members[c], CheckThrows(c, p) PROVE StopInv'
  BY <1>6, ThrowKeepsStop DEF CheckThrows
<1>7. ASSUME NEW c \in Controllers, NEW p \in Members[c], TriggerAccepted(c, p) PROVE StopInv'
  BY <1>7, TriggerKeepsStop
<1>8. ASSUME NEW c \in Controllers, NEW p \in Members[c], TriggerFails(c, p) PROVE StopInv'
  <2>1. /\ SilentStep(c) /\ UNCHANGED <<pc, op, result>>
        /\ todo'[c] = todo[c] \ {p} /\ failed'[c] = failed[c] \cup {p}
    BY <1>8 DEF TriggerFails, SilentStep, TypeOK
  <2>2. \A q : (FixSent(c, q)' => FixSent(c, q)) /\ (StopSent(c, q)' => StopSent(c, q))
    BY <2>1 DEF FixSent, StopSent
  <2> QED BY <2>1, <2>2, SilentKeepsStop
<1>9. ASSUME NEW c \in Controllers, NEW p \in Members[c], Answer(c, p) PROVE StopInv'
  BY <1>9, SilentKeepsStop DEF Answer, SilentStep, FixSent, StopSent
<1>10. ASSUME NEW c \in Controllers, RoundEnds(c) PROVE StopInv'
  <2>1. /\ pc[c] # "idle" /\ todo[c] = {} /\ UNCHANGED <<op, struck, worldVars>>
    BY <1>10 DEF RoundEnds, TriggerPhases
  <2>2. CASE Proceed(c) /\ failed' = failed /\ (failed[c] = {} \/ pc[c] = "CE_ErrorFixed")
    BY <2>1, <2>2, ProceedKeepsStop
  <2>3. CASE Return(c, "threw") /\ failed' = [failed EXCEPT ![c] = {}]
    BY <2>1, <2>3, ThrowKeepsStop
  <2> QED BY <1>10, <2>2, <2>3 DEF RoundEnds
<1>11. ASSUME NEW c \in Controllers, NEW res, AwaitEnds(c, res) PROVE StopInv'
  <2>1. /\ pc[c] # "idle" /\ pc[c] \in AwaitPhases /\ failed[c] = {}
        /\ UNCHANGED <<op, failed, struck, worldVars>>
        /\ Proceed(c) \/ Return(c, "threw")
    BY <1>11 DEF AwaitEnds, FinishAwait, AwaitPhases, CallInv
  <2> QED BY <2>1, ProceedKeepsStop, ThrowKeepsStop
<1>12. ASSUME NEW c \in Controllers, NEW res, PollAgain(c, res) PROVE StopInv'
  BY <1>12, SilentKeepsStop DEF PollAgain, SilentStep, FixSent, StopSent
<1>13. ASSUME NEW p \in Participants, ParticipantStep(p) PROVE StopInv'
  BY <1>13, HandleKeepsStop, EntryKeepsStop DEF ParticipantStep
<1>14. ASSUME NEW p \in Participants,
              ParticipantError(p) \/ Disconnect(p) \/ Crash(p) \/ Reconnect(p)
       PROVE  StopInv'
  BY <1>14, FaultKeepsStop
<1> QED
  BY <1>1, <1>3, <1>4, <1>5, <1>6, <1>7, <1>8, <1>9, <1>10, <1>11, <1>12, <1>13, <1>14
  DEF Next, ControllerStep

\* In every run without shared participants, whatever fails and however often, a successful
\* stop is final for those the faults have not struck since it began.
THEOREM StopHolds == Unshared => (Spec => []StopIsFinal)
<1> SUFFICES ASSUME Unshared PROVE Spec => []StopIsFinal
  OBVIOUS
<1>1. Init => StopInv
  <2> SUFFICES ASSUME Init PROVE StopInv
    OBVIOUS
  <2>1. \A c \in Controllers : \A p : ~FixSent(c, p) /\ ~StopSent(c, p)
    BY DEF Init, FixSent, StopSent
  <2>2. \A c \in Controllers : \A p \in Members[c] : reachable[p]
    BY MembersAssumption DEF Init
  <2> QED BY <2>1, <2>2 DEF StopInv, SentInv
<1>2. TypeOK /\ CallInv /\ StopInv /\ [Next]_vars => StopInv'
  BY StepStopInv
<1>3. StopInv => StopIsFinal
  <2> SUFFICES ASSUME StopInv, NEW c \in Controllers,
                      pc[c] = "idle", op[c] = "stop", result[c] = "ok",
                      NEW p \in Members[c] \ struck[c], Settled(p)
               PROVE  state[p] \in {"FS_IDLE", "FS_SHUTDOWN"}
    BY DEF StopIsFinal
  <2>1. SentInv(c, p) /\ StopSent(c, p)
    BY DEF StopInv, StopSent
  <2>2. EndsWithStop(p) BY <2>1 DEF SentInv
  <2> QED BY <2>2 DEF Settled, EndsWithStop, Stopped
<1> QED BY <1>1, <1>2, <1>3, CallInvariant, PTL DEF Spec
=============================================================================
