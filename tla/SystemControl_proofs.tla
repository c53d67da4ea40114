------------------------ MODULE SystemControl_proofs ------------------------
(***************************************************************************)
(* Proofs about SystemControl for every set of controllers and             *)
(* participants, all priorities, all bounds and any number of faults: the  *)
(* types, that no call runs in a circle, and that start, stop and shutdown *)
(* implement ControlContract.                                              *)
(* The commands of a call go out in complete rounds and in the order of    *)
(* the priorities, no CE_Start follows a refused CE_Initialize, and        *)
(* success means that every command of the call was accepted.              *)
(***************************************************************************)
EXTENDS SystemControl, TLAPS

\* The transition table leads from states to states.
LEMMA NextStateType ==
  ASSUME NEW s \in States, NEW ev
  PROVE  NextState(s, ev) \in States
<1>1. \A t \in Transitions : t.to \in States
  BY DEF Transitions, Leads, States
<1>2. CASE \E t \in Transitions : t.event = ev /\ s \in t.from
  <2>1. (CHOOSE t \in Transitions : t.event = ev /\ s \in t.from) \in Transitions
    BY <1>2
  <2> QED BY <1>1, <1>2, <2>1 DEF NextState
<1>3. CASE ~\E t \in Transitions : t.event = ev /\ s \in t.from
  BY <1>3 DEF NextState
<1> QED BY <1>2, <1>3

\* A phase that is neither the idle one nor unknown has a successor among the phases.
LEMMA NextPhaseType ==
  \A ph \in Phases \ {"idle"} : NextPhase[ph] \in Phases
BY DEF Phases, TriggerPhases, AwaitPhases, NextPhase

\* Entering and leaving a phase keeps the types of the variables they assign.
LEMMA ProceedType ==
  ASSUME TypeOK, NEW c \in Controllers, pc[c] # "idle", Proceed(c)
  PROVE  /\ pc' \in [Controllers -> Phases]
         /\ todo' \in [Controllers -> SUBSET Participants]
         /\ answer' \in [Controllers -> [Participants -> States \cup {NoAnswer}]]
         /\ polls' \in [Controllers -> 0..MaxPolls]
         /\ result' \in [Controllers -> {"none", "ok", "threw"}]
<1>1. NextPhase[pc[c]] \in Phases /\ "idle" \in Phases
  BY NextPhaseType DEF TypeOK, Phases
<1>2. 0 \in 0..MaxPolls
  BY BoundsAssumption
<1>3. NoAnswers \in [Participants -> States \cup {NoAnswer}]
  BY DEF NoAnswers
<1>4. Members[c] \in SUBSET Participants
  BY MembersAssumption
<1>5. CASE Return(c, "ok")
  BY <1>1, <1>2, <1>5 DEF Return, TypeOK
<1>6. CASE Enter(c, NextPhase[pc[c]])
  BY <1>1, <1>2, <1>3, <1>4, <1>6 DEF Enter, TypeOK
<1> QED BY <1>5, <1>6 DEF Proceed

\* So does leaving a call by an exception.
LEMMA ReturnType ==
  ASSUME TypeOK, NEW c \in Controllers, Return(c, "threw")
  PROVE  /\ pc' \in [Controllers -> Phases]
         /\ todo' \in [Controllers -> SUBSET Participants]
         /\ answer' \in [Controllers -> [Participants -> States \cup {NoAnswer}]]
         /\ polls' \in [Controllers -> 0..MaxPolls]
         /\ result' \in [Controllers -> {"none", "ok", "threw"}]
BY BoundsAssumption DEF Return, TypeOK, Phases

\* A failing call of the AutomationInterface stays within the fault bound.
LEMMA FaultsType ==
  ASSUME TypeOK,
         NEW p, NEW c, NEW res,
         CallFails(p) \/ Fault(p) \/ PollReturns(c, res)
  PROVE  faults' \in 0..MaxFaults
BY BoundsAssumption DEF TypeOK, CallFails, Fault, PollReturns

\* The initial values have the types.
THEOREM InitTypeOK == Init => TypeOK
BY EnvironmentAssumption, BoundsAssumption
DEF Init, TypeOK, Phases, OperationNames, NoAnswers

\* Every step keeps the types.
THEOREM StepTypeOK == TypeOK /\ [Next]_vars => TypeOK'
<1> SUFFICES ASSUME TypeOK, [Next]_vars PROVE TypeOK'
  OBVIOUS
<1>1. CASE UNCHANGED vars
  BY <1>1 DEF TypeOK, vars, callVars, worldVars
<1>2. ASSUME NEW c \in Controllers, NEW o \in Operations, MayCall(c, o)
      PROVE  /\ op' \in [Controllers -> OperationNames]
             /\ failed' \in [Controllers -> SUBSET Participants]
             /\ quiet' \in [Controllers -> BOOLEAN]
             /\ struck' \in [Controllers -> SUBSET Participants]
             /\ calls' \in 0..MaxCalls
  BY <1>2, EnvironmentAssumption, BoundsAssumption DEF MayCall, TypeOK
<1>3. ASSUME NEW c \in Controllers, NEW o \in Operations, CallOnEmptySystem(c, o)
      PROVE  TypeOK'
  <2>1. MayCall(c, o) BY <1>3 DEF CallOnEmptySystem
  <2> QED BY <1>2, <1>3, <2>1 DEF CallOnEmptySystem, TypeOK, worldVars
<1>4. ASSUME NEW c \in Controllers, NEW o \in Operations, Call(c, o)
      PROVE  TypeOK'
  <2>1. MayCall(c, o) BY <1>4 DEF Call
  <2>2. FirstPhase[o] \in Phases
    BY EnvironmentAssumption DEF FirstPhase, Phases, TriggerPhases, OperationNames
  <2>3. /\ Members[c] \in SUBSET Participants
        /\ NoAnswers \in [Participants -> States \cup {NoAnswer}]
        /\ 0 \in 0..MaxPolls
    BY MembersAssumption, BoundsAssumption DEF NoAnswers
  <2> QED BY <1>2, <1>4, <2>1, <2>2, <2>3 DEF Call, TypeOK, worldVars
<1>5. ASSUME NEW c \in Controllers, NEW p \in Members[c], CheckParticipant(c, p)
      PROVE  TypeOK'
  <2>1. p \in Participants BY MembersAssumption
  <2> QED BY <1>5, <2>1 DEF CheckParticipant, TypeOK, worldVars
<1>19. ASSUME NEW c \in Controllers, NEW p \in Members[c], CheckUnanswered(c, p)
      PROVE  TypeOK'
  <2>1. faults' \in 0..MaxFaults BY <1>19, FaultsType DEF CheckUnanswered, TypeOK
  <2> QED BY <1>19, <2>1 DEF CheckUnanswered, TypeOK, worldVars
<1>6. ASSUME NEW c \in Controllers, NEW p \in Members[c], CheckThrows(c, p)
      PROVE  TypeOK'
  <2>1. Return(c, "threw") /\ CallFails(p) BY <1>6 DEF CheckThrows
  <2>2. faults' \in 0..MaxFaults BY <2>1, FaultsType
  <2>3. failed' \in [Controllers -> SUBSET Participants] BY <1>6 DEF CheckThrows, TypeOK
  <2> QED BY <1>6, <2>1, <2>2, <2>3, ReturnType DEF CheckThrows, TypeOK, worldVars
<1>7. ASSUME NEW c \in Controllers, NEW p \in Members[c], TriggerAccepted(c, p)
      PROVE  TypeOK'
  <2>1. p \in Participants BY MembersAssumption
  <2>2. pc[c] \in Commands BY <1>7 DEF TriggerAccepted, TriggerPhases, Commands
  <2>3. inbox' \in [Participants -> Seq(Commands)]
    BY <1>7, <2>1, <2>2 DEF TriggerAccepted, TypeOK
  <2> QED BY <1>7, <2>3 DEF TriggerAccepted, TypeOK
<1>8. ASSUME NEW c \in Controllers, NEW p \in Members[c], TriggerFails(c, p)
      PROVE  TypeOK'
  <2>1. p \in Participants BY MembersAssumption
  <2>2. faults' \in 0..MaxFaults BY <1>8, FaultsType DEF TriggerFails
  <2> QED BY <1>8, <2>1, <2>2 DEF TriggerFails, TypeOK, worldVars
<1>9. ASSUME NEW c \in Controllers, NEW p \in Members[c], Answer(c, p)
      PROVE  TypeOK'
  <2>1. p \in Participants BY MembersAssumption
  <2>2. answer' \in [Controllers -> [Participants -> States \cup {NoAnswer}]]
    BY <1>9, <2>1 DEF Answer, TypeOK
  <2> QED BY <1>9, <2>2 DEF Answer, TypeOK, worldVars
<1>10. ASSUME NEW c \in Controllers, RoundEnds(c) PROVE TypeOK'
  <2>1. pc[c] # "idle" BY <1>10 DEF RoundEnds, TriggerPhases
  <2>2. failed' \in [Controllers -> SUBSET Participants] BY <1>10 DEF RoundEnds, TypeOK
  <2>3. CASE Proceed(c)
    BY <1>10, <2>1, <2>2, <2>3, ProceedType DEF RoundEnds, TypeOK, worldVars
  <2>4. CASE Return(c, "threw")
    BY <1>10, <2>2, <2>4, ReturnType DEF RoundEnds, TypeOK, worldVars
  <2> QED BY <1>10, <2>3, <2>4 DEF RoundEnds
<1>11. ASSUME NEW c \in Controllers, NEW res, AwaitEnds(c, res) PROVE TypeOK'
  <2>1. pc[c] # "idle" BY <1>11 DEF AwaitEnds, AwaitPhases
  <2>2. faults' \in 0..MaxFaults BY <1>11, FaultsType DEF AwaitEnds
  <2>3. CASE Proceed(c)
    BY <1>11, <2>1, <2>2, <2>3, ProceedType DEF AwaitEnds, TypeOK, worldVars
  <2>4. CASE Return(c, "threw")
    BY <1>11, <2>2, <2>4, ReturnType DEF AwaitEnds, TypeOK, worldVars
  <2> QED BY <1>11, <2>3, <2>4 DEF AwaitEnds, FinishAwait
<1>12. ASSUME NEW c \in Controllers, NEW res, PollAgain(c, res) PROVE TypeOK'
  <2>1. faults' \in 0..MaxFaults BY <1>12, FaultsType DEF PollAgain
  <2>2. polls' \in [Controllers -> 0..MaxPolls]
    BY <1>12, BoundsAssumption DEF PollAgain, TypeOK
  <2>3. NoAnswers \in [Participants -> States \cup {NoAnswer}] BY DEF NoAnswers
  <2> QED BY <1>12, <2>1, <2>2, <2>3 DEF PollAgain, TypeOK, worldVars
<1>13. ASSUME NEW p \in Participants, HandleEvent(p) PROVE TypeOK'
  <2>1. NextState(state[p], Head(inbox[p])) \in States BY NextStateType DEF TypeOK
  <2>2. Tail(inbox[p]) \in Seq(Commands) BY <1>13 DEF HandleEvent, TypeOK
  <2> QED BY <1>13, <2>1, <2>2 DEF HandleEvent, TypeOK, callVars
<1>14. ASSUME NEW p \in Participants, EntryDone(p) PROVE TypeOK'
  <2>1. \A ev : NextState(state[p], ev) \in States BY NextStateType DEF TypeOK
  <2> QED BY <1>14, <2>1 DEF EntryDone, TypeOK, callVars
<1>15. ASSUME NEW p \in Participants, ParticipantError(p) PROVE TypeOK'
  <2>1. NextState(state[p], "Error") \in States BY NextStateType DEF TypeOK
  <2>2. faults' \in 0..MaxFaults BY <1>15, FaultsType DEF ParticipantError
  <2>3. struck' \in [Controllers -> SUBSET Participants]
    BY <1>15 DEF ParticipantError, Strike, TypeOK
  <2> QED BY <1>15, <2>1, <2>2, <2>3 DEF ParticipantError, Fault, TypeOK
<1>16. ASSUME NEW p \in Participants, Disconnect(p) PROVE TypeOK'
  <2>1. faults' \in 0..MaxFaults BY <1>16, FaultsType DEF Disconnect
  <2>2. struck' \in [Controllers -> SUBSET Participants]
    BY <1>16 DEF Disconnect, Strike, TypeOK
  <2> QED BY <1>16, <2>1, <2>2 DEF Disconnect, Fault, TypeOK
<1>17. ASSUME NEW p \in Participants, Crash(p) PROVE TypeOK'
  <2>1. faults' \in 0..MaxFaults BY <1>17, FaultsType DEF Crash
  <2>2. "FS_STARTUP" \in States /\ <<>> \in Seq(Commands) BY DEF States
  <2> QED BY <1>17, <2>1, <2>2 DEF Crash, Fault, TypeOK
<1>18. ASSUME NEW p \in Participants, Reconnect(p) PROVE TypeOK'
  BY <1>18 DEF Reconnect, TypeOK, callVars
<1> QED
  BY <1>1, <1>3, <1>4, <1>5, <1>6, <1>7, <1>8, <1>9, <1>10, <1>11, <1>12, <1>13,
     <1>14, <1>15, <1>16, <1>17, <1>18, <1>19
  DEF Next, ControllerStep, ParticipantStep

\* Every variable keeps its type in every run.
THEOREM TypeCorrect == Spec => []TypeOK
BY InitTypeOK, StepTypeOK, PTL DEF Spec

-----------------------------------------------------------------------------
(* The variables of a call.                                                 *)

\* Where control goes when a phase succeeds stays within the operation, and the polls
\* come right after a round.
LEMMA NextPhaseInOperation ==
  ASSUME NEW o \in OperationNames, NEW ph \in PhasesOf[o]
  PROVE  /\ ph \in Phases \ {"idle"}
         /\ NextPhase[ph] # "idle" => NextPhase[ph] \in PhasesOf[o]
         /\ NextPhase[ph] = "idle" => ph \in AwaitPhases
         /\ NextPhase[ph] \in AwaitPhases => ph \in TriggerPhases \ {"CE_ErrorFixed"}
         /\ NextPhase[ph] = "CE_Start" => ph = "FS_READY"
BY DEF OperationNames, PhasesOf, Phases, TriggerPhases, AwaitPhases, NextPhase

\* CallInv is inductive.
THEOREM StepCallInv == TypeOK /\ CallInv /\ [Next]_vars => CallInv'
<1> SUFFICES ASSUME TypeOK, CallInv, [Next]_vars PROVE CallInv'
  OBVIOUS
<1>1. CASE UNCHANGED vars
  BY <1>1 DEF CallInv, vars, callVars
<1>2. ASSUME NEW c \in Controllers, NEW o \in Operations, Call(c, o)
      PROVE  CallInv'
  <2>1. o \in OperationNames BY EnvironmentAssumption
  <2>2. FirstPhase[o] \in PhasesOf[o] /\ FirstPhase[o] \notin AwaitPhases \cup {"CE_Start", "idle"}
    BY <2>1 DEF OperationNames, FirstPhase, PhasesOf, AwaitPhases
  <2> QED BY <1>2, <2>2 DEF Call, MayCall, CallInv, TypeOK
<1>3. ASSUME NEW c \in Controllers, NEW o \in Operations, CallOnEmptySystem(c, o)
      PROVE  CallInv'
  BY <1>3 DEF CallOnEmptySystem, MayCall, CallInv, TypeOK, AwaitPhases
<1>4. ASSUME NEW c \in Controllers, NEW p \in Members[c],
             CheckParticipant(c, p) \/ CheckUnanswered(c, p)
      PROVE  CallInv'
  <2>1. CASE CheckParticipant(c, p)
    BY <2>1 DEF CheckParticipant, CallInv, TypeOK, AwaitPhases
  <2>2. CASE CheckUnanswered(c, p)
    BY <2>2 DEF CheckUnanswered, CallInv, TypeOK
  <2> QED BY <1>4, <2>1, <2>2
<1>5. ASSUME NEW c \in Controllers, NEW p \in Members[c], CheckThrows(c, p)
      PROVE  CallInv'
  BY <1>5 DEF CheckThrows, Return, CallInv, TypeOK, AwaitPhases
<1>6. ASSUME NEW c \in Controllers, NEW p \in Members[c], TriggerAccepted(c, p)
      PROVE  CallInv'
  BY <1>6 DEF TriggerAccepted, CallInv, TypeOK
<1>7. ASSUME NEW c \in Controllers, NEW p \in Members[c], TriggerFails(c, p)
      PROVE  CallInv'
  BY <1>7 DEF TriggerFails, CallInv, TypeOK, TriggerPhases, AwaitPhases
<1>8. ASSUME NEW c \in Controllers, NEW p \in Members[c], Answer(c, p)
      PROVE  CallInv'
  BY <1>8 DEF Answer, CallInv, TypeOK
<1>9. ASSUME NEW c \in Controllers, NEW how, Return(c, how), op' = op,
             failed' = failed \/ failed' = [failed EXCEPT ![c] = {}]
      PROVE  CallInv'
  BY <1>9 DEF Return, CallInv, TypeOK, AwaitPhases
<1>10. ASSUME NEW c \in Controllers, Proceed(c), op' = op, failed' = failed,
              pc[c] # "idle", failed[c] = {} \/ pc[c] = "CE_ErrorFixed"
      PROVE  CallInv'
  <2>1. op[c] \in OperationNames /\ pc[c] \in PhasesOf[op[c]]
    BY <1>10 DEF TypeOK, CallInv
  <2>2. CASE NextPhase[pc[c]] = "idle"
    <3>1. Return(c, "ok") BY <1>10, <2>2 DEF Proceed
    <3> QED BY <1>9, <1>10, <3>1
  <2>3. CASE NextPhase[pc[c]] # "idle"
    <3> DEFINE n == NextPhase[pc[c]]
    <3>1. /\ n \in PhasesOf[op[c]]
          /\ n \in AwaitPhases => failed[c] = {}
          /\ n = "CE_Start" => failed[c] = {}
      BY <1>10, <2>1, <2>3, NextPhaseInOperation
    <3>2. pc' = [pc EXCEPT ![c] = n]
          /\ todo' = [todo EXCEPT ![c] = IF n \in AwaitPhases THEN {} ELSE Members[c]]
      BY <1>10, <2>3 DEF Proceed, Enter
    <3> HIDE DEF n
    <3> QED BY <1>10, <2>1, <3>1, <3>2 DEF CallInv, TypeOK
  <2> QED BY <2>2, <2>3
<1>11. ASSUME NEW c \in Controllers, RoundEnds(c) PROVE CallInv'
  BY <1>9, <1>10, <1>11 DEF RoundEnds, TriggerPhases
<1>12. ASSUME NEW c \in Controllers, NEW res, AwaitEnds(c, res) PROVE CallInv'
  <2>1. pc[c] # "idle" /\ failed[c] = {} BY <1>12 DEF AwaitEnds, AwaitPhases, CallInv
  <2> QED BY <1>9, <1>10, <1>12, <2>1 DEF AwaitEnds, FinishAwait
<1>13. ASSUME NEW c \in Controllers, NEW res, PollAgain(c, res) PROVE CallInv'
  BY <1>13 DEF PollAgain, CallInv, TypeOK
<1>14. ASSUME NEW p \in Participants,
              \/ ParticipantStep(p) \/ ParticipantError(p) \/ Disconnect(p)
              \/ Crash(p) \/ Reconnect(p)
      PROVE  CallInv'
  BY <1>14 DEF ParticipantStep, HandleEvent, EntryDone, ParticipantError, Disconnect, Crash,
     Reconnect, Fault, callVars, CallInv
<1> QED
  BY <1>1, <1>2, <1>3, <1>4, <1>5, <1>6, <1>7, <1>8, <1>11, <1>12, <1>13, <1>14
  DEF Next, ControllerStep

\* The variables of a call stay connected in every run.
THEOREM CallInvariant == Spec => [](TypeOK /\ CallInv)
<1>1. Init => TypeOK /\ CallInv
  BY InitTypeOK DEF Init, CallInv, AwaitPhases
<1>2. TypeOK /\ CallInv /\ [Next]_vars => (TypeOK /\ CallInv)'
  BY StepTypeOK, StepCallInv
<1> QED BY <1>1, <1>2, PTL DEF Spec

-----------------------------------------------------------------------------
(* Progress.                                                                *)

\* The end of a phase, or of the call.
LEMMA PhaseAdvances ==
  ASSUME TypeOK, CallInv, NEW c \in Controllers, pc[c] # "idle",
         Proceed(c) \/ Return(c, "threw")
  PROVE  /\ Advances(c)
         /\ \A d \in Controllers \ {c} : pc'[d] = pc[d] /\ todo'[d] = todo[d]
              /\ answer'[d] = answer[d] /\ polls'[d] = polls[d] /\ result'[d] = result[d]
<1>1. op[c] \in OperationNames /\ pc[c] \in PhasesOf[op[c]]
  BY DEF TypeOK, CallInv
<1>2. NextPhase[pc[c]] # pc[c]
  BY <1>1 DEF OperationNames, PhasesOf, NextPhase
<1>3. PICK n : n = NextPhase[pc[c]]
  OBVIOUS
<1>4. CASE Return(c, "threw") \/ Return(c, "ok")
  BY <1>4 DEF Return, Advances, TypeOK
<1>5. CASE Enter(c, n)
  BY <1>2, <1>3, <1>5 DEF Enter, Advances, TypeOK
<1> QED BY <1>3, <1>4, <1>5 DEF Proceed

\* Every step of a call brings it closer to its end and leaves the other calls alone.
LEMMA StepAdvances ==
  ASSUME TypeOK, CallInv, [Next]_vars, NEW e \in Controllers, pc[e] # "idle"
  PROVE  UNCHANGED Progress(e) \/ Advances(e)
<1> DEFINE Frame(c) ==
      \A d \in Controllers \ {c} :
        /\ pc'[d] = pc[d] /\ todo'[d] = todo[d] /\ failed'[d] = failed[d]
        /\ answer'[d] = answer[d] /\ polls'[d] = polls[d] /\ result'[d] = result[d]
<1>1. CASE UNCHANGED vars
  BY <1>1 DEF vars, callVars, Progress
<1>2. ASSUME NEW c \in Controllers, Frame(c), pc[c] = "idle" \/ Advances(c)
      PROVE  UNCHANGED Progress(e) \/ Advances(e)
  BY <1>2 DEF Progress
<1>3. ASSUME NEW c \in Controllers, NEW o \in Operations, Call(c, o) \/ CallOnEmptySystem(c, o)
      PROVE  Frame(c) /\ pc[c] = "idle"
  BY <1>3 DEF Call, CallOnEmptySystem, MayCall, TypeOK
<1>4. ASSUME NEW c \in Controllers, NEW p \in Members[c],
             \/ CheckParticipant(c, p) \/ CheckUnanswered(c, p)
             \/ TriggerAccepted(c, p) \/ TriggerFails(c, p)
      PROVE  Frame(c) /\ Advances(c)
  <2>1. p \in todo[c] /\ todo'[c] = todo[c] \ {p} /\ pc' = pc /\ polls' = polls
        /\ answer' = answer /\ Frame(c)
    BY <1>4 DEF CheckParticipant, CheckUnanswered, TriggerAccepted, TriggerFails, IsNext, TypeOK
  <2>2. Answered(c)' = Answered(c)
    BY <2>1 DEF Answered
  <2> QED BY <2>1, <2>2 DEF Advances
<1>5. ASSUME NEW c \in Controllers, NEW p \in Members[c], CheckThrows(c, p)
      PROVE  Frame(c) /\ Advances(c)
  <2>1. \A d \in Controllers \ {c} : failed'[d] = failed[d]
    BY <1>5 DEF CheckThrows, TypeOK
  <2> QED BY <1>5, <2>1, PhaseAdvances DEF CheckThrows
<1>6. ASSUME NEW c \in Controllers, NEW p \in Members[c], Answer(c, p)
      PROVE  Frame(c) /\ Advances(c)
  <2>1. /\ p \in Members[c] \ Answered(c) /\ pc' = pc /\ polls' = polls /\ todo' = todo
        /\ answer' = [answer EXCEPT ![c][p] = state[p]] /\ Frame(c)
    BY <1>6 DEF Answer, TypeOK
  <2>2. state[p] # NoAnswer /\ p \in Participants
    BY MembersAssumption DEF TypeOK, States, NoAnswer
  <2>3. answer'[c] = [answer[c] EXCEPT ![p] = state[p]]
    BY <2>1 DEF TypeOK
  <2>4. Answered(c)' = Answered(c) \cup {p}
    BY <2>1, <2>2, <2>3 DEF Answered, TypeOK
  <2> QED BY <2>1, <2>4 DEF Advances
<1>7. ASSUME NEW c \in Controllers, RoundEnds(c)
      PROVE  Frame(c) /\ Advances(c)
  <2>1. /\ pc[c] # "idle" /\ (Proceed(c) \/ Return(c, "threw"))
        /\ \A d \in Controllers \ {c} : failed'[d] = failed[d]
    BY <1>7 DEF RoundEnds, TriggerPhases, TypeOK
  <2> QED BY <2>1, PhaseAdvances
<1>8. ASSUME NEW c \in Controllers, NEW res, AwaitEnds(c, res)
      PROVE  Frame(c) /\ Advances(c)
  <2>1. pc[c] # "idle" /\ (Proceed(c) \/ Return(c, "threw")) /\ failed' = failed
    BY <1>8 DEF AwaitEnds, AwaitPhases, FinishAwait
  <2> QED BY <2>1, PhaseAdvances
<1>9. ASSUME NEW c \in Controllers, NEW res, PollAgain(c, res)
      PROVE  Frame(c) /\ Advances(c)
  <2>1. polls[c] \in Nat /\ polls'[c] = polls[c] + 1 /\ polls[c] + 1 < MaxPolls /\ pc' = pc
        /\ Frame(c)
    BY <1>9, BoundsAssumption DEF PollAgain, TypeOK
  <2> QED BY <2>1, BoundsAssumption DEF Advances
<1>10. ASSUME NEW p \in Participants,
              \/ ParticipantStep(p) \/ ParticipantError(p) \/ Disconnect(p)
              \/ Crash(p) \/ Reconnect(p)
      PROVE  UNCHANGED Progress(e)
  BY <1>10 DEF ParticipantStep, HandleEvent, EntryDone, ParticipantError, Disconnect, Crash,
     Reconnect, Fault, callVars, Progress
<1> HIDE DEF Frame
<1> QED
  BY <1>1, <1>2, <1>3, <1>4, <1>5, <1>6, <1>7, <1>8, <1>9, <1>10 DEF Next, ControllerStep

\* No control call runs in a circle: each of its steps uses up some of what is left of it,
\* under any faults and next to any other controllers.
THEOREM CallsAdvance == Spec => CallAdvances
<1>1. TypeOK /\ CallInv /\ [Next]_vars =>
        [\A c \in Controllers : pc[c] # "idle" => UNCHANGED Progress(c) \/ Advances(c)]_vars
  BY StepAdvances
<1> QED BY <1>1, CallInvariant, PTL DEF Spec, CallAdvances

-----------------------------------------------------------------------------
(* The refinement.  A step concerns one controller; what the contract sees of *)
(* the others does not change.                                               *)

LocalTo(c) ==
  \A d \in Controllers \ {c} :
    pc'[d] = pc[d] /\ op'[d] = op[d] /\ todo'[d] = todo[d] /\ failed'[d] = failed[d]

\* The mapped variables change at most at the controller that moved.
LEMMA MapsFrame ==
  ASSUME NEW c \in Controllers, LocalTo(c)
  PROVE  /\ callMap' = [callMap EXCEPT ![c] = callMap'[c]]
         /\ sentMap' = [sentMap EXCEPT ![c] = sentMap'[c]]
         /\ refusedMap' = [refusedMap EXCEPT ![c] = refusedMap'[c]]
<1>1. \A d \in Controllers \ {c} : callMap'[d] = callMap[d] /\ refusedMap'[d] = refusedMap[d]
  BY DEF LocalTo, callMap, refusedMap
<1>2. \A d \in Controllers \ {c} : sentMap'[d] = sentMap[d]
  BY DEF LocalTo, sentMap
<1> QED BY <1>1, <1>2 DEF callMap, sentMap, refusedMap

\* What the contract sees of one controller.
LEMMA MapsAt ==
  ASSUME NEW c \in Controllers
  PROVE  /\ callMap[c] = IF pc[c] = "idle" THEN "idle" ELSE op[c]
         /\ refusedMap[c] = (pc[c] \in TriggerPhases /\ failed[c] # {})
         /\ callMap'[c] = IF pc'[c] = "idle" THEN "idle" ELSE op'[c]
         /\ refusedMap'[c] = (pc'[c] \in TriggerPhases /\ failed'[c] # {})
BY DEF callMap, refusedMap

\* The same of the commands a participant has been sent.
LEMMA SentAt ==
  ASSUME NEW c \in Controllers
  PROVE  /\ \A p \in Participants :
              sentMap[c][p] = IF p \in Members[c] THEN SentIn(pc[c], todo[c], p) ELSE 0
         /\ \A p \in Participants :
              sentMap'[c][p] = IF p \in Members[c] THEN SentIn(pc'[c], todo'[c], p) ELSE 0
         /\ sentMap[c] \in [Participants -> 0..2]
         /\ sentMap'[c] \in [Participants -> 0..2]
<1>1. \A ph, rest, p : SentIn(ph, rest, p) \in 0..2
  BY DEF SentIn, SentBefore, TriggerPhases
<1> QED BY <1>1 DEF sentMap

\* At rest nothing has been sent and nothing refused.
LEMMA MapsAtRest ==
  ASSUME NEW c \in Controllers, pc[c] = "idle"
  PROVE  callMap[c] = "idle" /\ sentMap[c] = Contract!NoneSent /\ refusedMap[c] = FALSE
<1>1. \A p : SentIn("idle", todo[c], p) = 0
  BY DEF SentIn, SentBefore, TriggerPhases
<1> QED BY <1>1 DEF callMap, sentMap, refusedMap, Contract!NoneSent, TriggerPhases

\* A step that shows the contract nothing.
LEMMA Stutter ==
  ASSUME NEW c \in Controllers, LocalTo(c), result' = result,
         callMap'[c] = callMap[c], sentMap'[c] = sentMap[c], refusedMap'[c] = refusedMap[c]
  PROVE  UNCHANGED Contract!vars
<1>1. callMap' = callMap
  BY MapsFrame DEF callMap
<1>2. sentMap' = sentMap
  BY MapsFrame DEF sentMap
<1>3. refusedMap' = refusedMap
  BY MapsFrame DEF refusedMap
<1> QED BY <1>1, <1>2, <1>3 DEF Contract!vars

\* Everything the contract's rounds need to know about a running phase.
LEMMA SentInPhase ==
  ASSUME NEW o \in OperationNames, NEW ph \in PhasesOf[o], NextPhase[ph] = "idle"
  PROVE  SentBefore(ph) = Contract!Rounds(o) /\ ph \notin TriggerPhases
BY DEF OperationNames, PhasesOf, NextPhase, SentBefore, Contract!Rounds, TriggerPhases

\* The number of commands sent does not change from the end of a phase to the next one.
LEMMA SentAcrossPhases ==
  ASSUME NEW o \in OperationNames, NEW ph \in PhasesOf[o], NextPhase[ph] # "idle"
  PROVE  /\ ph \in TriggerPhases => SentBefore(NextPhase[ph]) = SentBefore(ph) + 1
         /\ ph \notin TriggerPhases => SentBefore(NextPhase[ph]) = SentBefore(ph)
BY DEF OperationNames, PhasesOf, NextPhase, SentBefore, TriggerPhases

\* A trigger, accepted or refused, is a Send of the contract.
LEMMA TriggerIsSend ==
  ASSUME TypeOK, CallInv, NEW c \in Controllers, NEW p \in Members[c], NEW refusal \in BOOLEAN,
         pc[c] \in TriggerPhases, IsNext(c, p),
         todo' = [todo EXCEPT ![c] = @ \ {p}],
         failed' = IF refusal THEN [failed EXCEPT ![c] = @ \cup {p}] ELSE failed,
         UNCHANGED <<pc, op, result>>
  PROVE  Contract!Send(c, p)
<1> DEFINE before == SentBefore(pc[c])
<1>1. /\ p \in todo[c] /\ todo[c] \subseteq Members[c] /\ Members[c] \subseteq Participants
      /\ pc[c] # "idle" /\ op[c] \in OperationNames /\ pc[c] \in PhasesOf[op[c]]
  BY MembersAssumption DEF IsNext, CallInv, TypeOK, TriggerPhases
<1>2. /\ before \in Nat /\ before < Contract!Rounds(op[c])
      /\ op[c] = "start" /\ before = 0 => pc[c] = "CE_Initialize"
      /\ op[c] = "start" /\ before = 1 => pc[c] = "CE_Start"
      /\ op[c] = "start" => before \in {0, 1}
  BY <1>1 DEF SentBefore, OperationNames, PhasesOf, TriggerPhases, Contract!Rounds
<1>3. \A q \in Participants : q \in Members[c] =>
        SentIn(pc[c], todo[c], q) = IF q \in todo[c] THEN before ELSE before + 1
  BY DEF SentIn
<1>4. LocalTo(c)
  BY DEF LocalTo, TypeOK
<1>5. callMap' = callMap /\ callMap[c] = op[c]
  BY <1>1 DEF callMap
<1>6. sentMap' = [sentMap EXCEPT ![c][p] = @ + 1]
  <2>1. /\ pc'[c] = pc[c] /\ todo'[c] = todo[c] \ {p}
        /\ \A q \in Participants \ {p} : SentIn(pc[c], todo[c] \ {p}, q) = SentIn(pc[c], todo[c], q)
    BY <1>1 DEF SentIn, TypeOK
  <2>2. SentIn(pc[c], todo[c] \ {p}, p) = before + 1 /\ SentIn(pc[c], todo[c], p) = before
    BY <1>1 DEF SentIn
  <2>3. sentMap'[c] = [sentMap[c] EXCEPT ![p] = @ + 1]
    <3>1. sentMap'[c][p] = sentMap[c][p] + 1
      BY <1>1, <2>1, <2>2, SentAt
    <3>2. ASSUME NEW q \in Participants \ {p} PROVE sentMap'[c][q] = sentMap[c][q]
      <4>1. CASE q \in Members[c]
        <5>1. sentMap'[c][q] = SentIn(pc'[c], todo'[c], q) BY <4>1, SentAt
        <5>2. sentMap[c][q] = SentIn(pc[c], todo[c], q) BY <4>1, SentAt
        <5>3. SentIn(pc'[c], todo'[c], q) = SentIn(pc[c], todo[c] \ {p}, q) BY <2>1
        <5> QED BY <2>1, <5>1, <5>2, <5>3
      <4>2. CASE q \notin Members[c] BY <4>2, SentAt
      <4> QED BY <4>1, <4>2
    <3> QED BY <1>1, <3>1, <3>2, SentAt
  <2> QED BY <1>1, <1>4, <2>3, MapsFrame
<1>7. refusedMap' = [refusedMap EXCEPT ![c] = @ \/ refusal]
  <2>1. refusedMap'[c] = (refusedMap[c] \/ refusal)
    BY <1>1, MapsAt DEF TypeOK
  <2> QED BY <1>4, <2>1, MapsFrame
<1>8. \A q \in Members[c] : sentMap[c][q] = IF q \in todo[c] THEN before ELSE before + 1
  BY <1>1, <1>3, SentAt
<1>9. ASSUME NEW q \in Members[c], op[c] = "start", sentMap[c][q] = sentMap[c][p]
      PROVE  Contract!Priority(c, sentMap[c][p], q) <= Contract!Priority(c, sentMap[c][p], p)
  <2>1. q \in todo[c] /\ sentMap[c][p] = before BY <1>1, <1>2, <1>8, <1>9
  <2>2. Rank(c, pc[c], p) >= Rank(c, pc[c], q) BY <2>1 DEF IsNext
  <2>3. /\ q \in Participants /\ p \in Participants
        /\ InitPriority[c][p] \in Int /\ InitPriority[c][q] \in Int
        /\ StartPriority[c][p] \in Int /\ StartPriority[c][q] \in Int
    BY <1>1, PriorityAssumption
  <2>4. CASE before = 0
    BY <1>2, <1>9, <2>1, <2>2, <2>3, <2>4 DEF Rank, Contract!Priority
  <2>5. CASE before = 1
    BY <1>2, <1>9, <2>1, <2>2, <2>3, <2>5 DEF Rank, Contract!Priority
  <2> QED BY <1>2, <1>9, <2>4, <2>5
<1>10. ASSUME op[c] = "start", sentMap[c][p] = 1
       PROVE  ~refusedMap[c] \/ Contract!SecondRoundBegan(c)
  <2>1. pc[c] = "CE_Start" /\ before = 1 BY <1>1, <1>2, <1>8, <1>10
  <2>2. CASE failed[c] = {} BY <2>2, MapsAt
  <2>3. CASE failed[c] # {}
    <3>1. PICK q \in failed[c] : q \in Members[c] \ todo[c]
      BY <2>1, <2>3 DEF CallInv
    <3>2. sentMap[c][q] = 2 BY <1>8, <2>1, <3>1
    <3> QED BY <3>1, <3>2 DEF Contract!SecondRoundBegan
  <2> QED BY <2>2, <2>3
<1>11. /\ callMap[c] # "idle"
       /\ sentMap[c][p] < Contract!Rounds(callMap[c])
       /\ \A q \in Members[c] : sentMap[c][p] <= sentMap[c][q]
  BY <1>1, <1>2, <1>5, <1>8 DEF OperationNames
<1>12. \E r \in BOOLEAN : refusedMap' = [refusedMap EXCEPT ![c] = @ \/ r]
  BY <1>7
<1> QED BY <1>5, <1>6, <1>9, <1>10, <1>11, <1>12 DEF Contract!Send

\* Leaving a call at the end of a loop, or before anything was sent, is a Throw.
LEMMA ReturnIsThrow ==
  ASSUME TypeOK, CallInv, NEW c \in Controllers, Return(c, "threw"), op' = op,
         failed' = failed \/ failed' = [failed EXCEPT ![c] = {}],
         pc[c] \notin {"idle", "CE_ErrorFixed"}, pc[c] \in TriggerPhases => todo[c] = {}
  PROVE  Contract!Throw(c)
<1>1. LocalTo(c) /\ pc'[c] = "idle"
  BY DEF LocalTo, TypeOK, Return
<1>2. callMap'[c] = "idle" /\ sentMap'[c] = Contract!NoneSent /\ refusedMap'[c] = FALSE
  <2>1. \A p : SentIn("idle", todo'[c], p) = 0
    BY DEF SentIn, SentBefore, TriggerPhases
  <2>2. sentMap'[c] = Contract!NoneSent BY <1>1, <2>1, SentAt DEF Contract!NoneSent
  <2> QED BY <1>1, <2>2, MapsAt DEF TriggerPhases
<1>3. \A p \in Members[c] :
        SentIn(pc[c], todo[c], p)
          = IF pc[c] \in TriggerPhases THEN SentBefore(pc[c]) + 1 ELSE SentBefore(pc[c])
  BY DEF SentIn
<1>4. \A p, q \in Members[c] : sentMap[c][p] = sentMap[c][q]
  BY <1>3, SentAt, MembersAssumption
<1>5. callMap[c] # "idle"
  BY MapsAt DEF TypeOK, OperationNames
<1>6. ASSUME NEW p \in Members[c], callMap[c] # "start"
      PROVE  sentMap[c][p] = Contract!Rounds(callMap[c])
  <2>1. callMap[c] = op[c] /\ op[c] \in {"stop", "shutdown"}
    BY <1>6, MapsAt DEF TypeOK, OperationNames
  <2>2. sentMap[c][p] = SentIn(pc[c], todo[c], p)
    BY SentAt, MembersAssumption
  <2>3. pc[c] \in {"CE_Stop", "FS_IDLE", "CE_Shutdown", "FS_SHUTDOWN"}
    BY <2>1 DEF CallInv, PhasesOf
  <2>4. op[c] = IF pc[c] \in {"CE_Stop", "FS_IDLE"} THEN "stop" ELSE "shutdown"
    BY <2>1, <2>3 DEF CallInv, PhasesOf
  <2> QED BY <1>3, <2>1, <2>2, <2>3, <2>4 DEF SentBefore, TriggerPhases, Contract!Rounds
<1> QED
  BY <1>1, <1>2, <1>4, <1>5, <1>6, MapsFrame DEF Contract!Throw, Contract!Finish, Return

\* Finishing the last phase is a Succeed of the contract, going on to another phase is
\* nothing to it.
LEMMA ProceedIsSucceedOrStutter ==
  ASSUME TypeOK, CallInv, NEW c \in Controllers, Proceed(c), op' = op, failed' = failed,
         pc[c] # "idle", pc[c] \in TriggerPhases => todo[c] = {},
         failed[c] = {} \/ pc[c] = "CE_ErrorFixed"
  PROVE  Contract!Succeed(c) \/ UNCHANGED Contract!vars
<1>1. op[c] \in OperationNames /\ pc[c] \in PhasesOf[op[c]]
  BY DEF TypeOK, CallInv
<1>2. Members[c] \subseteq Participants
  BY MembersAssumption
<1>3. CASE NextPhase[pc[c]] = "idle"
  <2>1. Return(c, "ok") BY <1>3 DEF Proceed
  <2>2. LocalTo(c) /\ pc'[c] = "idle" BY <2>1 DEF LocalTo, TypeOK, Return
  <2>3. callMap'[c] = "idle" /\ sentMap'[c] = Contract!NoneSent /\ refusedMap'[c] = FALSE
    <3>1. \A p : SentIn("idle", todo'[c], p) = 0
      BY DEF SentIn, SentBefore, TriggerPhases
    <3>2. sentMap'[c] = Contract!NoneSent BY <2>2, <3>1, SentAt DEF Contract!NoneSent
    <3> QED BY <2>2, <3>2, MapsAt DEF TriggerPhases
  <2>4. pc[c] \notin TriggerPhases /\ SentBefore(pc[c]) = Contract!Rounds(op[c])
    BY <1>1, <1>3, SentInPhase
  <2>5. callMap[c] = op[c] /\ refusedMap[c] = FALSE /\ op[c] # "idle"
    BY <1>1, <2>4, MapsAt DEF OperationNames
  <2>6. \A p \in Members[c] : SentIn(pc[c], todo[c], p) = Contract!Rounds(op[c])
    BY <2>4 DEF SentIn
  <2>7. \A p \in Members[c] : sentMap[c][p] = Contract!Rounds(callMap[c])
    BY <1>2, <2>5, <2>6, SentAt
  <2> QED BY <2>1, <2>2, <2>3, <2>5, <2>7, MapsFrame
          DEF Contract!Succeed, Contract!Finish, Return
<1>4. CASE NextPhase[pc[c]] # "idle"
  <2> DEFINE n == NextPhase[pc[c]]
  <2>1. Enter(c, n) BY <1>4 DEF Proceed
  <2>2. /\ LocalTo(c) /\ pc'[c] = n /\ result' = result
        /\ todo'[c] = IF n \in AwaitPhases THEN {} ELSE Members[c]
    BY <2>1 DEF LocalTo, TypeOK, Enter
  <2>3. /\ n \in AwaitPhases => n \notin TriggerPhases
        /\ pc[c] \in TriggerPhases => SentBefore(n) = SentBefore(pc[c]) + 1
        /\ pc[c] \notin TriggerPhases => SentBefore(n) = SentBefore(pc[c])
    BY <1>1, <1>4, SentAcrossPhases DEF AwaitPhases, TriggerPhases
  <2>4. callMap'[c] = callMap[c]
    BY <1>4, <2>2, MapsAt
  <2>5. refusedMap'[c] = refusedMap[c]
    <3>1. CASE failed[c] = {} BY <3>1, MapsAt
    <3>2. CASE pc[c] = "CE_ErrorFixed"
      <4>1. n = "CE_Stop" BY <3>2 DEF NextPhase
      <4> QED BY <2>2, <3>2, <4>1, MapsAt DEF TriggerPhases
    <3> QED BY <3>1, <3>2
  <2> HIDE DEF n
  <2>6. \A p \in Members[c] : SentIn(pc'[c], todo'[c], p) = SentIn(pc[c], todo[c], p)
    <3>1. \A p \in Members[c] : SentIn(n, todo'[c], p) = SentBefore(n)
      BY <2>2, <2>3 DEF SentIn
    <3>2. \A p \in Members[c] : SentIn(pc[c], todo[c], p) = SentBefore(n)
      BY <2>3 DEF SentIn
    <3> QED BY <2>2, <3>1, <3>2
  <2>7. \A p \in Participants : sentMap'[c][p] = sentMap[c][p]
    BY <2>6, SentAt
  <2>8. sentMap'[c] = sentMap[c]
    BY <2>7, SentAt
  <2> QED BY <2>2, <2>4, <2>5, <2>8, Stutter
<1> QED BY <1>3, <1>4

\* A step that leaves the variables behind the maps alone is nothing to the contract.
LEMMA UnchangedCallIsStutter ==
  ASSUME UNCHANGED <<pc, op, todo, failed, result>>
  PROVE  UNCHANGED Contract!vars
BY DEF Contract!vars, callMap, sentMap, refusedMap

\* Every step of the control calls is a step of the contract or leaves it unchanged.
THEOREM StepKeepsContract ==
  TypeOK /\ CallInv /\ [Next]_vars => [Contract!Next]_(Contract!vars)
<1> SUFFICES ASSUME TypeOK, CallInv, [Next]_vars
             PROVE  Contract!Next \/ UNCHANGED Contract!vars
  BY DEF Contract!vars
<1>1. CASE UNCHANGED vars
  BY <1>1, UnchangedCallIsStutter DEF vars, callVars
<1>2. ASSUME NEW c \in Controllers, NEW o \in Operations, Call(c, o)
      PROVE  Contract!Next
  <2>1. o \in OperationNames /\ o # "idle" BY EnvironmentAssumption DEF OperationNames
  <2>2. /\ LocalTo(c) /\ pc[c] = "idle" /\ pc'[c] = FirstPhase[o] /\ op'[c] = o
        /\ todo'[c] = Members[c] /\ failed'[c] = {}
    BY <1>2 DEF Call, MayCall, LocalTo, TypeOK
  <2>3. FirstPhase[o] # "idle" /\ \A p \in Members[c] : SentIn(FirstPhase[o], Members[c], p) = 0
    BY <2>1 DEF OperationNames, FirstPhase, SentIn, SentBefore, TriggerPhases
  <2>4. callMap[c] = "idle" /\ sentMap[c] = Contract!NoneSent /\ refusedMap[c] = FALSE
    BY <2>2, MapsAtRest
  <2>5. callMap'[c] = o /\ refusedMap'[c] = refusedMap[c]
    BY <2>2, <2>3, <2>4, MapsAt
  <2>6. sentMap'[c] = sentMap[c]
    <3>1. \A p \in Participants : sentMap'[c][p] = 0 BY <2>2, <2>3, SentAt
    <3> QED BY <2>4, <3>1, SentAt DEF Contract!NoneSent
  <2>7. sentMap' = sentMap BY <2>2, <2>6, MapsFrame DEF sentMap
  <2>8. refusedMap' = refusedMap BY <2>2, <2>5, MapsFrame DEF refusedMap
  <2>9. Contract!Begin(c, o)
    BY <1>2, <2>2, <2>4, <2>5, <2>7, <2>8, MapsFrame DEF Contract!Begin, Call
  <2> QED BY <2>1, <2>9 DEF Contract!Next, Contract!OperationNames, OperationNames
<1>3. ASSUME NEW c \in Controllers, NEW o \in Operations, CallOnEmptySystem(c, o)
      PROVE  Contract!Next
  <2>1. LocalTo(c) /\ pc[c] = "idle" /\ pc' = pc /\ todo' = todo
    BY <1>3 DEF CallOnEmptySystem, MayCall, LocalTo, TypeOK
  <2>2. callMap'[c] = callMap[c] /\ callMap[c] = "idle" /\ refusedMap'[c] = refusedMap[c]
    BY <2>1, MapsAt DEF TriggerPhases
  <2>3. sentMap' = sentMap BY <2>1 DEF sentMap
  <2>4. callMap' = callMap BY <2>1, <2>2, MapsFrame DEF callMap
  <2>5. refusedMap' = refusedMap BY <2>1, <2>2, MapsFrame DEF refusedMap
  <2>6. Contract!NothingToDo(c)
    BY <1>3, <2>2, <2>3, <2>4, <2>5 DEF CallOnEmptySystem, Contract!NothingToDo
  <2> QED BY <2>6 DEF Contract!Next
<1>4. ASSUME NEW c \in Controllers, NEW p \in Members[c],
             CheckParticipant(c, p) \/ CheckUnanswered(c, p)
      PROVE  UNCHANGED Contract!vars
  <2>1. LocalTo(c) /\ pc[c] = "check" /\ pc' = pc /\ op' = op /\ result' = result
    BY <1>4 DEF CheckParticipant, CheckUnanswered, LocalTo, TypeOK
  <2>2. callMap'[c] = callMap[c] /\ refusedMap'[c] = refusedMap[c]
    BY <2>1, MapsAt DEF TriggerPhases
  <2>3. \A rest, rest2, q : SentIn("check", rest, q) = SentIn("check", rest2, q)
    BY DEF SentIn, TriggerPhases
  <2>4. \A q \in Participants : sentMap'[c][q] = sentMap[c][q]
    BY <2>1, <2>3, SentAt
  <2>5. sentMap'[c] = sentMap[c]
    BY <2>4, SentAt
  <2> QED BY <2>1, <2>2, <2>5, Stutter
<1>5. ASSUME NEW c \in Controllers, NEW p \in Members[c], CheckThrows(c, p)
      PROVE  Contract!Next
  <2>1. Contract!Throw(c)
    BY <1>5, ReturnIsThrow DEF CheckThrows, TriggerPhases
  <2> QED BY <2>1 DEF Contract!Next
<1>6. ASSUME NEW c \in Controllers, NEW p \in Members[c],
             TriggerAccepted(c, p) \/ TriggerFails(c, p)
      PROVE  Contract!Next
  <2>1. CASE TriggerAccepted(c, p)
    <3>1. Contract!Send(c, p) BY <2>1, TriggerIsSend DEF TriggerAccepted
    <3> QED BY <3>1 DEF Contract!Next
  <2>2. CASE TriggerFails(c, p)
    <3>1. Contract!Send(c, p) BY <2>2, TriggerIsSend DEF TriggerFails
    <3> QED BY <3>1 DEF Contract!Next
  <2> QED BY <1>6, <2>1, <2>2
<1>7. ASSUME NEW c \in Controllers, NEW p \in Members[c], Answer(c, p)
      PROVE  UNCHANGED Contract!vars
  BY <1>7, UnchangedCallIsStutter DEF Answer
<1>8. ASSUME NEW c \in Controllers, RoundEnds(c)
      PROVE  Contract!Next \/ UNCHANGED Contract!vars
  <2>1. pc[c] # "idle" /\ todo[c] = {} /\ op' = op
    BY <1>8 DEF RoundEnds, TriggerPhases
  <2>2. CASE Proceed(c) /\ failed' = failed /\ (failed[c] = {} \/ pc[c] = "CE_ErrorFixed")
    <3>1. Contract!Succeed(c) \/ UNCHANGED Contract!vars
      BY <2>1, <2>2, ProceedIsSucceedOrStutter
    <3> QED BY <3>1 DEF Contract!Next
  <2>3. CASE Return(c, "threw") /\ failed' = [failed EXCEPT ![c] = {}] /\ pc[c] # "CE_ErrorFixed"
    <3>1. Contract!Throw(c) BY <2>1, <2>3, ReturnIsThrow
    <3> QED BY <3>1 DEF Contract!Next
  <2> QED BY <1>8, <2>2, <2>3 DEF RoundEnds
<1>9. ASSUME NEW c \in Controllers, NEW res, AwaitEnds(c, res)
      PROVE  Contract!Next \/ UNCHANGED Contract!vars
  <2>1. /\ pc[c] \notin {"idle", "CE_ErrorFixed"} /\ pc[c] \notin TriggerPhases /\ op' = op
        /\ failed' = failed /\ failed[c] = {}
    BY <1>9 DEF AwaitEnds, AwaitPhases, TriggerPhases, CallInv
  <2>2. CASE Proceed(c)
    <3>1. Contract!Succeed(c) \/ UNCHANGED Contract!vars
      BY <2>1, <2>2, ProceedIsSucceedOrStutter
    <3> QED BY <3>1 DEF Contract!Next
  <2>3. CASE Return(c, "threw")
    <3>1. Contract!Throw(c) BY <2>1, <2>3, ReturnIsThrow
    <3> QED BY <3>1 DEF Contract!Next
  <2> QED BY <1>9, <2>2, <2>3 DEF AwaitEnds, FinishAwait
<1>10. ASSUME NEW c \in Controllers, NEW res, PollAgain(c, res)
       PROVE  UNCHANGED Contract!vars
  BY <1>10, UnchangedCallIsStutter DEF PollAgain
<1>11. ASSUME NEW p \in Participants,
              \/ ParticipantStep(p) \/ ParticipantError(p) \/ Disconnect(p)
              \/ Crash(p) \/ Reconnect(p)
       PROVE  UNCHANGED Contract!vars
  BY <1>11, UnchangedCallIsStutter DEF ParticipantStep, HandleEvent, EntryDone,
     ParticipantError, Disconnect, Crash, Reconnect, Fault, callVars
<1> QED
  BY <1>1, <1>2, <1>3, <1>4, <1>5, <1>6, <1>7, <1>8, <1>9, <1>10, <1>11
  DEF Next, ControllerStep

\* The control calls implement their contract.
THEOREM ControlKeepsContract == Spec => KeepsContract
<1>1. Init => Contract!Init
  <2> SUFFICES ASSUME Init PROVE Contract!Init
    OBVIOUS
  <2>1. \A c \in Controllers :
          callMap[c] = "idle" /\ sentMap[c] = Contract!NoneSent /\ refusedMap[c] = FALSE
    BY MapsAtRest DEF Init
  <2> QED BY <2>1 DEF Init, Contract!Init, callMap, sentMap, refusedMap
<1> QED BY <1>1, CallInvariant, StepKeepsContract, PTL DEF Spec, KeepsContract, Contract!Spec
=============================================================================
