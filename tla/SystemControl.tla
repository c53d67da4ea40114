---------------------------- MODULE SystemControl ----------------------------
(***************************************************************************)
(* fep::System::start, stop and shutdown (fep_system.cpp, class            *)
(* System::Implementation) over participants in other processes.           *)
(*                                                                         *)
(* A controller is one System object driven by one thread; several         *)
(* controllers may hold proxies of the same participants.  A control call  *)
(* is a sequence of phases: the standalone check, rounds of TriggerEvent   *)
(* (trigger_participants) and polls of GetParticipantsState (await_state). *)
(* Every AutomationInterface call is a step of its own, so that the        *)
(* participants and the other controllers move between any two of them.    *)
(* A TriggerEvent that was accepted only queues the event at the           *)
(* participant; the answers of one poll are sampled one by one.            *)
(***************************************************************************)
EXTENDS Fep2StateMachine, Integers, Sequences, FiniteSets

CONSTANTS
  Controllers,     \* System objects, each used by one thread
  Participants,    \* participants, numbered in the order of their names
  Members,         \* Members[c]: the keys of _participants of controller c
  InitPriority,    \* InitPriority[c][p], StartPriority[c][p]: the priorities
  StartPriority,   \*   held by the proxy of p in controller c
  Standalone,      \* participants whose configuration says they run standalone
  InitialStates,   \* states the participants may be in at the beginning
  Operations,      \* the control calls the environment makes
  SlowAnswers,     \* may a poll time out before a reachable participant answered?
  MinPolls,        \* bounds on the polls await_state makes before its deadline:
  MaxPolls,        \*   timeout_ms over the longest and the shortest poll
  MaxCalls,        \* bound on control calls
  MaxFaults        \* bound on faults of the environment

OperationNames == {"start", "stop", "shutdown"}

ASSUME ParticipantsAssumption == Participants \subseteq Nat
ASSUME MembersAssumption == Members \in [Controllers -> SUBSET Participants]
ASSUME PriorityAssumption ==
  /\ InitPriority \in [Controllers -> [Participants -> Int]]
  /\ StartPriority \in [Controllers -> [Participants -> Int]]
ASSUME EnvironmentAssumption ==
  /\ Standalone \subseteq Participants
  /\ InitialStates \subseteq States
  /\ Operations \subseteq OperationNames
  /\ SlowAnswers \in BOOLEAN
ASSUME BoundsAssumption ==
  /\ MinPolls \in Nat /\ MaxPolls \in Nat \ {0} /\ MinPolls <= MaxPolls
  /\ MaxCalls \in Nat /\ MaxFaults \in Nat

VARIABLES
  pc,         \* pc[c]: "idle", "check", the event being triggered or the state awaited
  op,         \* op[c]: the operation of the current, or of the last, call
  todo,       \* todo[c]: participants the current loop has not visited yet
  failed,     \* failed[c]: names collected so far (failed_participants / standalone ones)
  answer,     \* answer[c]: state_map of the current, or of the last, poll
  polls,      \* polls[c]: polls the current await_state has finished
  result,     \* result[c]: how the last call ended
  quiet,      \* quiet[c]: had the members handled everything when the call began? (history)
  struck,     \* struck[c]: who was away when the call began, or lost the connection or ran
              \*   into an error since (history)
  calls,      \* control calls made (bound)
  state,      \* state[p]: the state of the participant process
  inbox,      \* inbox[p]: events accepted for p and not yet handled
  reachable,  \* reachable[p]: does p answer on the service bus?
  faults      \* faults of the environment so far (bound)

callVars == <<pc, op, todo, failed, answer, polls, result, quiet, struck>>
worldVars == <<state, inbox, reachable>>
vars == <<callVars, calls, worldVars, faults>>

-----------------------------------------------------------------------------
(* Phases.  A phase is named after the event it triggers or the state it    *)
(* waits for.                                                               *)

TriggerPhases == {"CE_Initialize", "CE_Start", "CE_ErrorFixed", "CE_Stop", "CE_Shutdown"}
AwaitPhases == {"FS_READY", "FS_RUNNING", "FS_IDLE", "FS_SHUTDOWN"}
Phases == {"idle", "check"} \cup TriggerPhases \cup AwaitPhases

\* MUTANT: stop does not get participants out of FS_ERROR.
FirstPhase_NoErrorFixed ==
  [start |-> "check", stop |-> "CE_Stop", shutdown |-> "CE_Shutdown"]

FirstPhase ==
  [start |-> "check", stop |-> "CE_ErrorFixed", shutdown |-> "CE_Shutdown"]

\* MUTANT: start does not wait for FS_READY.
NextPhase_NoBarrier ==
  [check         |-> "CE_Initialize",
   CE_Initialize |-> "CE_Start",   FS_READY    |-> "CE_Start",
   CE_Start      |-> "FS_RUNNING", FS_RUNNING  |-> "idle",
   CE_ErrorFixed |-> "CE_Stop",
   CE_Stop       |-> "FS_IDLE",    FS_IDLE     |-> "idle",
   CE_Shutdown   |-> "FS_SHUTDOWN", FS_SHUTDOWN |-> "idle"]

\* MUTANT: stop only repairs, it sends no CE_Stop.
NextPhase_NoStop ==
  [check         |-> "CE_Initialize",
   CE_Initialize |-> "FS_READY",   FS_READY    |-> "CE_Start",
   CE_Start      |-> "FS_RUNNING", FS_RUNNING  |-> "idle",
   CE_ErrorFixed |-> "FS_IDLE",
   CE_Stop       |-> "FS_IDLE",    FS_IDLE     |-> "idle",
   CE_Shutdown   |-> "FS_SHUTDOWN", FS_SHUTDOWN |-> "idle"]

\* The phase that follows when the phase succeeded; "idle" is the return.
NextPhase ==
  [check         |-> "CE_Initialize",
   CE_Initialize |-> "FS_READY",   FS_READY    |-> "CE_Start",
   CE_Start      |-> "FS_RUNNING", FS_RUNNING  |-> "idle",
   CE_ErrorFixed |-> "CE_Stop",
   CE_Stop       |-> "FS_IDLE",    FS_IDLE     |-> "idle",
   CE_Shutdown   |-> "FS_SHUTDOWN", FS_SHUTDOWN |-> "idle"]

NoAnswer == "no answer"
NoAnswers == [p \in Participants |-> NoAnswer]

Answered(c) == {p \in Members[c] : answer[c][p] # NoAnswer}

\* Loops run over the map in the order of the names; the rounds of CE_Initialize
\* and CE_Start run over a vector sorted by descending priority.  The order of
\* equal priorities is left open: std::sort is not stable.
Rank(c, ev, p) ==
  CASE ev = "CE_Initialize" -> InitPriority[c][p]
    [] ev = "CE_Start"      -> StartPriority[c][p]
    [] OTHER                -> -p

IsNext(c, p) ==
  /\ p \in todo[c]
  /\ \A q \in todo[c] : Rank(c, pc[c], p) >= Rank(c, pc[c], q)

\* Control enters the phase: its loop variable, its state_map and its polls.
Enter(c, phase) ==
  /\ pc' = [pc EXCEPT ![c] = phase]
  /\ todo' = [todo EXCEPT ![c] = IF phase \in AwaitPhases THEN {} ELSE Members[c]]
  /\ answer' = [answer EXCEPT ![c] = IF phase \in AwaitPhases THEN NoAnswers ELSE @]
  /\ polls' = [polls EXCEPT ![c] = 0]
  /\ UNCHANGED result

\* The call returns, normally or by an exception.
Return(c, how) ==
  /\ pc' = [pc EXCEPT ![c] = "idle"]
  /\ result' = [result EXCEPT ![c] = how]
  /\ todo' = [todo EXCEPT ![c] = {}]
  /\ polls' = [polls EXCEPT ![c] = 0]
  /\ UNCHANGED answer

\* The phase succeeded.
Proceed(c) ==
  IF NextPhase[pc[c]] = "idle" THEN Return(c, "ok") ELSE Enter(c, NextPhase[pc[c]])

-----------------------------------------------------------------------------
(* The control calls.                                                       *)

Init ==
  /\ pc = [c \in Controllers |-> "idle"]
  /\ op = [c \in Controllers |-> "start"]
  /\ todo = [c \in Controllers |-> {}]
  /\ failed = [c \in Controllers |-> {}]
  /\ answer = [c \in Controllers |-> NoAnswers]
  /\ polls = [c \in Controllers |-> 0]
  /\ result = [c \in Controllers |-> "none"]
  /\ quiet = [c \in Controllers |-> TRUE]
  /\ struck = [c \in Controllers |-> {}]
  /\ calls = 0
  /\ state \in [Participants -> InitialStates]
  /\ inbox = [p \in Participants |-> <<>>]
  /\ reachable = [p \in Participants |-> TRUE]
  /\ faults = 0

MayCall(c, o) ==
  /\ pc[c] = "idle" /\ calls < MaxCalls
  /\ calls' = calls + 1
  /\ op' = [op EXCEPT ![c] = o]
  /\ failed' = [failed EXCEPT ![c] = {}]
  /\ quiet' = [quiet EXCEPT ![c] = \A p \in Members[c] : inbox[p] = <<>>]
  /\ struck' = [struck EXCEPT ![c] = {p \in Participants : ~reachable[p]}]

\* A system without participants: a warning is logged and the call returns.
CallOnEmptySystem(c, o) ==
  /\ MayCall(c, o)
  /\ Members[c] = {}
  /\ result' = [result EXCEPT ![c] = "ok"]
  /\ UNCHANGED <<pc, todo, answer, polls, worldVars, faults>>

Call(c, o) ==
  /\ MayCall(c, o)
  /\ Members[c] # {}
  /\ pc' = [pc EXCEPT ![c] = FirstPhase[o]]
  /\ todo' = [todo EXCEPT ![c] = Members[c]]
  /\ answer' = [answer EXCEPT ![c] = NoAnswers]
  /\ polls' = [polls EXCEPT ![c] = 0]
  /\ result' = [result EXCEPT ![c] = "none"]
  /\ UNCHANGED <<worldVars, faults>>

\* getStandaloneParticipants asks the next participant for its configuration.
CheckParticipant(c, p) ==
  /\ pc[c] = "check" /\ IsNext(c, p)
  /\ reachable[p]
  /\ todo' = [todo EXCEPT ![c] = @ \ {p}]
  /\ failed' = [failed EXCEPT ![c] = IF p \in Standalone THEN @ \cup {p} ELSE @]
  /\ UNCHANGED <<pc, op, answer, polls, result, quiet, struck, calls, worldVars, faults>>

\* A call of the AutomationInterface that concerns p fails.
CallFails(p) ==
  \/ ~reachable[p] /\ UNCHANGED faults
  \/ reachable[p] /\ faults < MaxFaults /\ faults' = faults + 1

\* The last question of the check, getProperty of the legacy interface, answers an empty
\* string after a timeout and after most failures: p is taken for one that does not run
\* standalone.
CheckUnanswered(c, p) ==
  /\ pc[c] = "check" /\ IsNext(c, p)
  /\ reachable[p] /\ p \in Standalone
  /\ (SlowAnswers /\ UNCHANGED faults) \/ CallFails(p)
  /\ todo' = [todo EXCEPT ![c] = @ \ {p}]
  /\ UNCHANGED <<pc, op, failed, answer, polls, result, quiet, struck, calls, worldVars>>

\* "Participant was not reachable": the exception leaves start at once.
CheckThrows(c, p) ==
  /\ pc[c] = "check" /\ IsNext(c, p)
  /\ CallFails(p)
  /\ Return(c, "threw")
  /\ failed' = [failed EXCEPT ![c] = {}]
  /\ UNCHANGED <<op, quiet, struck, calls, worldVars>>

\* TriggerEvent for the next participant is accepted: the event is on its way,
\* unless nobody is there to receive it.
TriggerAccepted(c, p) ==
  /\ pc[c] \in TriggerPhases /\ IsNext(c, p)
  /\ inbox' = IF reachable[p] THEN [inbox EXCEPT ![p] = Append(@, pc[c])] ELSE inbox
  /\ todo' = [todo EXCEPT ![c] = @ \ {p}]
  /\ UNCHANGED <<pc, op, failed, answer, polls, result, quiet, struck, calls, state, reachable, faults>>

\* MUTANT: the first failure throws.
TriggerFails_Throws(c, p) ==
  /\ pc[c] \in TriggerPhases /\ IsNext(c, p)
  /\ CallFails(p)
  /\ Return(c, "threw")
  /\ failed' = [failed EXCEPT ![c] = {}]
  /\ UNCHANGED <<op, quiet, struck, calls, worldVars>>

\* TriggerEvent for the next participant fails; the loop goes on.
TriggerFails(c, p) ==
  /\ pc[c] \in TriggerPhases /\ IsNext(c, p)
  /\ CallFails(p)
  /\ failed' = [failed EXCEPT ![c] = @ \cup {p}]
  /\ todo' = [todo EXCEPT ![c] = @ \ {p}]
  /\ UNCHANGED <<pc, op, answer, polls, result, quiet, struck, calls, worldVars>>

\* The loop of the check or of a round is over.  stop sends its second round
\* before it looks at the failures of the first.
RoundEnds(c) ==
  /\ pc[c] \in {"check"} \cup TriggerPhases
  /\ todo[c] = {}
  /\ \/ /\ failed[c] = {} \/ pc[c] = "CE_ErrorFixed"
        /\ Proceed(c)
        /\ UNCHANGED failed
     \/ /\ failed[c] # {} /\ pc[c] # "CE_ErrorFixed"
        /\ Return(c, "threw")
        /\ failed' = [failed EXCEPT ![c] = {}]
  /\ UNCHANGED <<op, quiet, struck, calls, worldVars, faults>>

\* p answers the running GetParticipantsState.
Answer(c, p) ==
  /\ pc[c] \in AwaitPhases
  /\ p \in Members[c] \ Answered(c) /\ reachable[p]
  /\ answer' = [answer EXCEPT ![c][p] = state[p]]
  /\ UNCHANGED <<pc, op, todo, failed, polls, result, quiet, struck, calls, worldVars, faults>>

\* How GetParticipantsState can return.
PollReturns(c, res) ==
  \/ /\ res = "ok"
     /\ Answered(c) = Members[c]
     /\ UNCHANGED faults
  \/ /\ res = "timeout"
     /\ \E p \in Members[c] \ Answered(c) : TRUE
     /\ SlowAnswers \/ \A p \in Members[c] \ Answered(c) : ~reachable[p]
     /\ UNCHANGED faults
  \/ /\ res = "failed"
     /\ faults < MaxFaults /\ faults' = faults + 1

StatesAreOk(c, res) ==
  /\ res # "failed"
  /\ Answered(c) # {}
  /\ \A p \in Answered(c) : answer[c][p] = pc[c]

\* MUTANT: one participant in the awaited state is enough.
FinishAwait_Any(c) ==
  IF \E p \in Answered(c) : answer[c][p] = pc[c]
    THEN Proceed(c)
    ELSE Return(c, "threw")

\* await_state validates the last state_map; a participant that is not in it
\* is not among the failed ones.
FinishAwait(c) ==
  IF \A p \in Answered(c) : answer[c][p] = pc[c]
    THEN Proceed(c)
    ELSE Return(c, "threw")

\* A poll found everybody who answered in the awaited state, or the deadline passed.
AwaitEnds(c, res) ==
  /\ pc[c] \in AwaitPhases
  /\ PollReturns(c, res)
  /\ StatesAreOk(c, res) \/ polls[c] + 1 >= MinPolls
  /\ FinishAwait(c)
  /\ UNCHANGED <<op, failed, quiet, struck, calls, worldVars>>

\* MUTANTS: the deadline is ignored, or starts again with every poll.
PollAgain_NoDeadline(c, res) ==
  /\ pc[c] \in AwaitPhases
  /\ PollReturns(c, res)
  /\ ~StatesAreOk(c, res)
  /\ polls' = [polls EXCEPT ![c] = @ + 1]
  /\ answer' = [answer EXCEPT ![c] = NoAnswers]
  /\ UNCHANGED <<pc, op, todo, failed, result, quiet, struck, calls, worldVars>>

PollAgain_Restarted(c, res) ==
  /\ pc[c] \in AwaitPhases
  /\ PollReturns(c, res)
  /\ ~StatesAreOk(c, res)
  /\ answer' = [answer EXCEPT ![c] = NoAnswers]
  /\ UNCHANGED <<pc, op, todo, failed, polls, result, quiet, struck, calls, worldVars>>

\* Not yet, and there is time left: sleep, clear the state_map and ask again.
PollAgain(c, res) ==
  /\ pc[c] \in AwaitPhases
  /\ PollReturns(c, res)
  /\ ~StatesAreOk(c, res) /\ polls[c] + 1 < MaxPolls
  /\ polls' = [polls EXCEPT ![c] = @ + 1]
  /\ answer' = [answer EXCEPT ![c] = NoAnswers]
  /\ UNCHANGED <<pc, op, todo, failed, result, quiet, struck, calls, worldVars>>

ControllerStep(c) ==
  \/ \E p \in Members[c] :
       \/ CheckParticipant(c, p) \/ CheckUnanswered(c, p) \/ CheckThrows(c, p)
       \/ TriggerAccepted(c, p) \/ TriggerFails(c, p)
       \/ Answer(c, p)
  \/ RoundEnds(c)
  \/ \E res \in {"ok", "timeout", "failed"} : AwaitEnds(c, res) \/ PollAgain(c, res)

-----------------------------------------------------------------------------
(* The participants and the service bus.                                    *)

\* A participant handles the next event of its inbox.
HandleEvent(p) ==
  /\ inbox[p] # <<>>
  /\ state' = [state EXCEPT ![p] = NextState(@, Head(inbox[p]))]
  /\ inbox' = [inbox EXCEPT ![p] = Tail(@)]
  /\ UNCHANGED <<callVars, calls, reachable, faults>>

\* The entry functions of FS_STARTUP and FS_INITIALIZING raise an event themselves.
EntryDone(p) ==
  /\ \E ev \in {"StartupDone", "InitDone"} :
       /\ NextState(state[p], ev) # state[p]
       /\ state' = [state EXCEPT ![p] = NextState(@, ev)]
  /\ UNCHANGED <<callVars, calls, inbox, reachable, faults>>

Fault(p) ==
  /\ faults < MaxFaults /\ faults' = faults + 1
  /\ UNCHANGED <<pc, op, todo, failed, answer, polls, result, quiet, calls>>

Strike(p) == struck' = [c \in Controllers |-> struck[c] \cup {p}]

\* The participant runs into an error.
ParticipantError(p) ==
  /\ Fault(p) /\ Strike(p)
  /\ NextState(state[p], "Error") # state[p]
  /\ state' = [state EXCEPT ![p] = NextState(@, "Error")]
  /\ UNCHANGED <<inbox, reachable>>

\* The participant stops answering: it hangs, or the bus lost it.
Disconnect(p) ==
  /\ Fault(p) /\ Strike(p)
  /\ reachable[p]
  /\ reachable' = [reachable EXCEPT ![p] = FALSE]
  /\ UNCHANGED <<state, inbox>>

\* The participant process ends; what was in its inbox is lost, and it starts again later.
Crash(p) ==
  /\ Fault(p) /\ UNCHANGED struck
  /\ reachable[p]
  /\ reachable' = [reachable EXCEPT ![p] = FALSE]
  /\ state' = [state EXCEPT ![p] = "FS_STARTUP"]
  /\ inbox' = [inbox EXCEPT ![p] = <<>>]

Reconnect(p) ==
  /\ ~reachable[p]
  /\ reachable' = [reachable EXCEPT ![p] = TRUE]
  /\ UNCHANGED <<callVars, calls, state, inbox, faults>>

ParticipantStep(p) == HandleEvent(p) \/ EntryDone(p)

Next ==
  \/ \E c \in Controllers :
       \/ \E o \in Operations : Call(c, o) \/ CallOnEmptySystem(c, o)
       \/ ControllerStep(c)
  \/ \E p \in Participants :
       \/ ParticipantStep(p)
       \/ ParticipantError(p) \/ Disconnect(p) \/ Crash(p) \/ Reconnect(p)

Spec == Init /\ [][Next]_vars

\* A thread inside a control call keeps running and every AI call returns, since each
\* has a timeout; a participant process keeps handling what it has received.
FairSpec ==
  /\ Spec
  /\ \A c \in Controllers : WF_vars(ControllerStep(c))
  /\ \A p \in Participants : WF_vars(ParticipantStep(p))
-----------------------------------------------------------------------------
(* Properties.                                                              *)

\* Every variable has its type.
TypeOK ==
  /\ pc \in [Controllers -> Phases]
  /\ op \in [Controllers -> OperationNames]
  /\ todo \in [Controllers -> SUBSET Participants]
  /\ failed \in [Controllers -> SUBSET Participants]
  /\ answer \in [Controllers -> [Participants -> States \cup {NoAnswer}]]
  /\ polls \in [Controllers -> 0..MaxPolls]
  /\ result \in [Controllers -> {"none", "ok", "threw"}]
  /\ quiet \in [Controllers -> BOOLEAN]
  /\ struck \in [Controllers -> SUBSET Participants]
  /\ calls \in 0..MaxCalls
  /\ state \in [Participants -> States]
  /\ inbox \in [Participants -> Seq(Commands)]
  /\ reachable \in [Participants -> BOOLEAN]
  /\ faults \in 0..MaxFaults

\* The refinement mapping to the contract of a control call: the commands a
\* participant has been sent follow from the phase and from what the loop of
\* the phase has left to do; the names collected by the standalone check are
\* not refusals.
SentBefore(phase) ==
  CASE phase \in {"CE_Start", "CE_Stop", "FS_READY"} -> 1
    [] phase \in {"FS_RUNNING", "FS_IDLE"} -> 2
    [] phase = "FS_SHUTDOWN" -> 1
    [] OTHER -> 0

SentIn(phase, rest, p) ==
  IF phase \in TriggerPhases /\ p \notin rest THEN SentBefore(phase) + 1 ELSE SentBefore(phase)

callMap == [c \in Controllers |-> IF pc[c] = "idle" THEN "idle" ELSE op[c]]
sentMap == [c \in Controllers |-> [p \in Participants |->
             IF p \in Members[c] THEN SentIn(pc[c], todo[c], p) ELSE 0]]
refusedMap == [c \in Controllers |-> pc[c] \in TriggerPhases /\ failed[c] # {}]

Contract == INSTANCE ControlContract WITH
  call <- callMap, sent <- sentMap, refused <- refusedMap, outcome <- result

\* What connects the variables of a call: the phase belongs to the operation, loops visit
\* members only, no failure survives into a poll, and a CE_Start can only have been
\* refused by somebody this round has visited.
PhasesOf ==
  [start    |-> {"check", "CE_Initialize", "FS_READY", "CE_Start", "FS_RUNNING"},
   stop     |-> {"CE_ErrorFixed", "CE_Stop", "FS_IDLE"},
   shutdown |-> {"CE_Shutdown", "FS_SHUTDOWN"}]

CallInv ==
  \A c \in Controllers :
    /\ pc[c] # "idle" => pc[c] \in PhasesOf[op[c]]
    /\ todo[c] \subseteq Members[c]
    /\ pc[c] \in AwaitPhases => failed[c] = {}
    /\ pc[c] = "CE_Start" => failed[c] \subseteq Members[c] \ todo[c]

\* The control calls keep the contract: rounds in lockstep and in order of the
\* priorities, no CE_Start after a refused CE_Initialize, no half-sent round left
\* behind, a CE_Stop for everybody also where a CE_ErrorFixed failed, success only if every command of the call was accepted.
KeepsContract == Contract!Spec

\* The barrier of start on the participants themselves: when the first CE_Start
\* goes out, everybody is ready, whoever sits in front of an empty inbox at the
\* beginning, as long as nobody else controls them and the polls wait for the slow.
StartBarrier ==
  \A c \in Controllers :
    pc[c] = "CE_Start" /\ quiet[c] =>
      \A p \in Members[c] : state[p] \in {"FS_READY", "FS_RUNNING"}

\* p has handled everything it was sent and will not move by itself.
Settled(p) == inbox[p] = <<>> /\ state[p] \notin {"FS_STARTUP", "FS_INITIALIZING"}

\* The state a call of the operation ends in.
Awaited == [start |-> "FS_RUNNING", stop |-> "FS_IDLE", shutdown |-> "FS_SHUTDOWN"]

\* A call that began in front of empty inboxes and reported success was right about
\* everybody, and stays right until the next call: the answers await_state sampled one
\* by one were not taken back behind its back, neither by the round of an earlier phase
\* that a participant handles late nor by the participant itself.
SuccessHolds ==
  \A c \in Controllers :
    pc[c] = "idle" /\ result[c] = "ok" /\ quiet[c] =>
      \A p \in Members[c] : state[p] = Awaited[op[c]]

\* Whatever earlier calls left in the inboxes, whoever was too slow to answer and whoever
\* ended and started again, once a participant has handled everything, a stop that reported
\* success has stopped it: nobody comes to rest ready, running or in error.  Of a participant
\* that lost the connection or ran into an error after the stop began nothing is said: its
\* CE_Stop may have gone nowhere.
StopIsFinal ==
  \A c \in Controllers :
    pc[c] = "idle" /\ op[c] = "stop" /\ result[c] = "ok" =>
      \A p \in Members[c] \ struck[c] : Settled(p) => state[p] \in {"FS_IDLE", "FS_SHUTDOWN"}

\* Two controllers made one call each, in any interleaving, and both report success over
\* participants that were neither ready nor about to be at the beginning: then one of the
\* calls has won, and everybody they share is in the state it reports.  start and stop do
\* not both succeed over a system of which they have half each.  It takes a third call, or
\* the leftovers of one that timed out, to break this.
SuccessIsUniform ==
  \A c, d \in Controllers :
    (/\ c # d /\ calls = 2
     /\ pc[c] = "idle" /\ result[c] = "ok"
     /\ pc[d] = "idle" /\ result[d] = "ok")
      => \E e \in {c, d} : \A p \in Members[c] \cap Members[d] : state[p] = Awaited[op[e]]

\* Where a call stands, and that a step brings it closer to its end: it goes on to the
\* next phase or returns, makes one more poll of those it has time for, or visits or hears
\* another participant in the current loop, without forgetting one.
Progress(c) == <<pc[c], todo[c], failed[c], answer[c], polls[c], result[c]>>

Advances(c) ==
  \/ pc'[c] # pc[c] /\ pc'[c] \in {NextPhase[pc[c]], "idle"}
  \/ pc'[c] = pc[c] /\ polls[c] < polls'[c] /\ polls'[c] < MaxPolls
  \/ /\ pc'[c] = pc[c] /\ polls'[c] = polls[c]
     /\ todo'[c] \subseteq todo[c] /\ Answered(c) \subseteq Answered(c)'
     /\ todo'[c] # todo[c] \/ Answered(c)' # Answered(c)

\* No call can run in a circle, whatever fails, however often a poll comes back empty and
\* whatever the other controllers do: phases do not repeat, a loop does not start over
\* and the deadline of a barrier does not move.
CallAdvances ==
  [][\A c \in Controllers : pc[c] # "idle" => UNCHANGED Progress(c) \/ Advances(c)]_vars

\* Every control call returns: the polls have a deadline, and neither the check nor a round
\* nor a poll waits for a participant that died or whose command was refused.
CallTerminates ==
  \A c \in Controllers : pc[c] # "idle" ~> pc[c] = "idle"

\* A stop that reported success ends in FS_IDLE for every participant, also for the one
\* that did not answer in time or started again, and whatever an earlier start, stop or
\* shutdown left in the inboxes, unless it has been shut down, was struck by a fault
\* since the stop began, or the next call comes first.
StopTakesEffect ==
  \A c \in Controllers :
    (pc[c] = "idle" /\ op[c] = "stop" /\ result[c] = "ok")
      ~> (\/ pc[c] # "idle"
          \/ \A p \in Members[c] \ struck[c] : state[p] \in {"FS_IDLE", "FS_SHUTDOWN"})

\* What fep_system.h says of start: it triggers all participants into
\* FS_RUNNING and throws if the timeout is reached.  Normal return thus means that
\* everybody was seen running.
StartReportsRunning ==
  \A c \in Controllers :
    (pc[c] = "idle" /\ op[c] = "start" /\ result[c] = "ok")
      => \A p \in Members[c] : answer[c][p] = "FS_RUNNING"

\* What fep_system.h says of stop: it takes the priorities of setStartPriority into account.
\* At the least the CE_Stop then go out in their order, descending or ascending.
StopKeepsPriority ==
  \A c \in Controllers :
    pc[c] = "CE_Stop" =>
      LET sent == Members[c] \ todo[c]
          prio == StartPriority[c]
      IN \/ \A p \in sent, q \in todo[c] : prio[p] >= prio[q]
         \/ \A p \in sent, q \in todo[c] : prio[p] <= prio[q]
=============================================================================
