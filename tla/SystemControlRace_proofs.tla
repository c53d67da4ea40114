----------------------- MODULE SystemControlRace_proofs -----------------------
(***************************************************************************)
(* Two controllers that share participants and race each other: of two     *)
(* calls that both report success, one has won, and the participants they  *)
(* share are in the state it reports.  The calls are followed from the     *)
(* first to the last step, so that all events in the inboxes are theirs.   *)
(***************************************************************************)
EXTENDS SystemControlBarrier_proofs

\* The environment of the race: no faults, polls that wait for the slow, and nobody who
\* could be taken for a participant the call itself has made ready.
Prompt == MaxFaults = 0 /\ SlowAnswers = FALSE
NobodyReady == InitialStates \cap {"FS_INITIALIZING", "FS_READY"} = {}

-----------------------------------------------------------------------------
(* Events in an inbox and their order.                                      *)

Contains(s, e) == \E i \in 1..Len(s) : s[i] = e
AtMostOne(s, e) == \A i, j \in 1..Len(s) : s[i] = e /\ s[j] = e => i = j
NoneBehind(s, e, f) == \A i, j \in 1..Len(s) : s[i] = e /\ s[j] = f => ~(i < j)

\* What an event that arrives changes of them.
LEMMA AppendContains ==
  ASSUME NEW S, NEW s \in Seq(S), NEW x \in S
  PROVE  /\ \A e : Contains(Append(s, x), e) <=> Contains(s, e) \/ e = x
         /\ \A e : AtMostOne(s, e) /\ (e = x => ~Contains(s, e)) => AtMostOne(Append(s, x), e)
         /\ \A e, f : NoneBehind(s, e, f) /\ f # x => NoneBehind(Append(s, x), e, f)
<1>1. PICK n \in Nat : n = Len(s)
  OBVIOUS
<1>2. PICK t \in Seq(S) : t = Append(s, x)
  BY AppendIn
<1>3. Len(t) = n + 1 /\ t[n + 1] = x /\ \A i \in 1..n : t[i] = s[i]
  BY <1>1, <1>2
<1>4. \A i \in 1..(n + 1) : i \in 1..n \/ i = n + 1
  BY <1>1
<1>5. \A i \in 1..n : i \in 1..(n + 1) /\ i < n + 1
  BY <1>1
<1>6. n + 1 \in 1..(n + 1)
  BY <1>1
<1>7. \A e : Contains(t, e) <=> Contains(s, e) \/ e = x
  BY <1>1, <1>3, <1>4, <1>5, <1>6 DEF Contains
<1>8. ASSUME NEW e, AtMostOne(s, e), e = x => ~Contains(s, e) PROVE AtMostOne(t, e)
  BY <1>1, <1>3, <1>4, <1>8 DEF AtMostOne, Contains
<1>9. ASSUME NEW e, NEW f, NoneBehind(s, e, f), f # x PROVE NoneBehind(t, e, f)
  <2> SUFFICES ASSUME NEW i \in 1..(n + 1), NEW j \in 1..(n + 1), t[i] = e, t[j] = f, i < j
               PROVE  FALSE
    BY <1>1, <1>3 DEF NoneBehind
  <2>1. j \in 1..n BY <1>3, <1>4, <1>9
  <2>2. i \in 1..n BY <1>1, <2>1
  <2> QED BY <1>1, <1>3, <1>9, <2>1, <2>2 DEF NoneBehind
<1> QED BY <1>2, <1>7, <1>8, <1>9

\* What an event that is handled leaves of them.
LEMMA TailContains ==
  ASSUME NEW S, NEW s \in Seq(S), s # <<>>
  PROVE  /\ Contains(s, Head(s))
         /\ \A e : Contains(Tail(s), e) => Contains(s, e)
         /\ \A e : AtMostOne(s, e) => AtMostOne(Tail(s), e)
         /\ AtMostOne(s, Head(s)) => ~Contains(Tail(s), Head(s))
         /\ \A e, f : NoneBehind(s, e, f) => NoneBehind(Tail(s), e, f)
         /\ \A f : NoneBehind(s, Head(s), f) => ~Contains(Tail(s), f)
<1>1. PICK n \in Nat : n = Len(Tail(s))
  OBVIOUS
<1>2. PICK t \in Seq(S) : t = Tail(s)
  BY HeadTailIn
<1>3. Len(t) = n /\ Len(s) = n + 1 /\ Head(s) = s[1]
  BY <1>1, <1>2
<1>4. \A i \in 1..n : t[i] = s[i + 1] /\ i + 1 \in 1..(n + 1) /\ 1 < i + 1
  BY <1>1, <1>2, <1>3
<1>5. 1 \in 1..(n + 1)
  BY <1>1
<1>6. Contains(s, Head(s)) /\ \A e : Contains(t, e) => Contains(s, e)
  BY <1>3, <1>4, <1>5 DEF Contains
<1>7. ASSUME NEW e, AtMostOne(s, e) PROVE AtMostOne(t, e)
  <2> SUFFICES ASSUME NEW i \in 1..n, NEW j \in 1..n, t[i] = e, t[j] = e PROVE i = j
    BY <1>3 DEF AtMostOne
  <2>1. i + 1 = j + 1 BY <1>3, <1>4, <1>7 DEF AtMostOne
  <2> QED BY <1>1, <2>1
<1>8. ASSUME AtMostOne(s, s[1]) PROVE ~Contains(t, s[1])
  BY <1>3, <1>4, <1>5, <1>8 DEF AtMostOne, Contains
<1>9. ASSUME NEW e, NEW f, NoneBehind(s, e, f) PROVE NoneBehind(t, e, f)
  <2> SUFFICES ASSUME NEW i \in 1..n, NEW j \in 1..n, t[i] = e, t[j] = f, i < j PROVE FALSE
    BY <1>3 DEF NoneBehind
  <2>1. ~(i + 1 < j + 1) BY <1>3, <1>4, <1>9 DEF NoneBehind
  <2> QED BY <1>1, <2>1
<1>10. ASSUME NEW f, NoneBehind(s, s[1], f) PROVE ~Contains(t, f)
  BY <1>3, <1>4, <1>5, <1>10 DEF NoneBehind, Contains
<1> QED BY <1>2, <1>3, <1>6, <1>7, <1>8, <1>9, <1>10

-----------------------------------------------------------------------------
(* What a step is to those who watch the race.                              *)

\* c has made a call; the number of controllers of {c} that have.
Called(c) == pc[c] # "idle" \/ result[c] # "none"
Made(c) == IF Called(c) THEN 1 ELSE 0

\* c and d are the only ones who called, and each of them at most once.
Once(c, d) ==
  /\ c # d /\ calls = Made(c) + Made(d)
  /\ \A e \in Controllers \ {c, d} : ~Called(e)

\* c has seen p in the state its operation ends in.
Looking(c) == pc[c] = Awaited[op[c]] \/ (pc[c] = "idle" /\ result[c] = "ok")
Watched(c, p) == Looking(c) /\ answer[c][p] = Awaited[op[c]]

\* How far a start has come: it may have sent p its CE_Initialize, its CE_Start; it is
\* behind the barrier; it has seen p ready.
InitSent(c, p) == Called(c) /\ pc[c] # "check" /\ ~(pc[c] = "CE_Initialize" /\ p \in todo[c])
StartSent(c, p) ==
  \/ pc[c] = "CE_Start" /\ p \notin todo[c]
  \/ pc[c] = "FS_RUNNING"
  \/ pc[c] = "idle" /\ result[c] # "none"
PastReady(c) == pc[c] \in {"CE_Start", "FS_RUNNING"} \/ (pc[c] = "idle" /\ result[c] = "ok")
Seen(c, p) == PastReady(c) \/ (pc[c] = "FS_READY" /\ answer[c][p] = "FS_READY")

\* A stop has sent everything.
PastStop(c) == pc[c] = "FS_IDLE" \/ (pc[c] = "idle" /\ result[c] = "ok")

\* The variables of the other controllers stay.
Alone(c) ==
  \A d \in Controllers \ {c} : pc'[d] = pc[d] /\ op'[d] = op[d] /\ todo'[d] = todo[d]
                               /\ answer'[d] = answer[d] /\ result'[d] = result[d]

\* c begins a call (which may be over at once).
Begins(c) ==
  /\ Alone(c) /\ pc[c] = "idle" /\ calls' = calls + 1 /\ UNCHANGED worldVars
  /\ \/ /\ op'[c] \in OperationNames /\ pc'[c] = FirstPhase[op'[c]]
        /\ todo'[c] = Members[c] /\ result'[c] = "none"
     \/ Members[c] = {} /\ pc'[c] = "idle" /\ result'[c] = "ok"

\* c knows and may do no less than before: it goes on with a loop, starts the next one or
\* leaves the call.  Behind a barrier it comes with everybody seen in front of it.
Learns(c, p) ==
  /\ Watched(c, p)' => Watched(c, p)
  /\ InitSent(c, p) => InitSent(c, p)'
  /\ StartSent(c, p) => StartSent(c, p)'
  /\ op[c] = "start" => (Seen(c, p)' => Seen(c, p))
  /\ op[c] = "start" /\ PastReady(c)' /\ ~PastReady(c) => ~StartSent(c, p)'
  /\ op[c] = "stop" /\ PastStop(c)' /\ ~PastStop(c) => ~Watched(c, p)'
  /\ pc'[c] = "idle" /\ result'[c] = "ok" => answer'[c][p] = Awaited[op[c]]

Moves(c) ==
  /\ Alone(c) /\ pc[c] # "idle" /\ Called(c)' /\ UNCHANGED <<op, calls, worldVars>>
  /\ \A p \in Members[c] : Learns(c, p)

\* What an operation awaits is the state of its last phase, and no answer is no state.
LEMMA AwaitedIsPhase ==
  /\ \A o \in OperationNames : Awaited[o] \in AwaitPhases
  /\ NoAnswer \notin AwaitPhases
BY DEF OperationNames, Awaited, AwaitPhases, NoAnswer

\* The call begins.
LEMMA CallBegins ==
  ASSUME TypeOK, NEW c \in Controllers, NEW o \in Operations, Call(c, o) \/ CallOnEmptySystem(c, o)
  PROVE  Begins(c)
<1>1. o \in OperationNames /\ calls' = calls + 1 /\ pc[c] = "idle" /\ op'[c] = o
  BY EnvironmentAssumption DEF Call, CallOnEmptySystem, MayCall, TypeOK
<1>2. CASE Call(c, o)
  BY <1>1, <1>2 DEF Call, MayCall, Begins, Alone, TypeOK
<1>3. CASE CallOnEmptySystem(c, o)
  BY <1>1, <1>3 DEF CallOnEmptySystem, MayCall, Begins, Alone, TypeOK
<1> QED BY <1>2, <1>3

\* An exception leaves nothing to know.
LEMMA ThrowMoves ==
  ASSUME TypeOK, NEW c \in Controllers, pc[c] # "idle", Return(c, "threw"),
         UNCHANGED <<op, calls, worldVars>>
  PROVE  Moves(c)
<1>1. pc'[c] = "idle" /\ result'[c] = "threw" /\ Alone(c)
  BY DEF Return, Alone, TypeOK
<1>2. ~Looking(c)' /\ ~PastReady(c)' /\ ~PastStop(c)' /\ Called(c)'
  <2>1. op'[c] \in OperationNames BY DEF TypeOK
  <2>2. Awaited[op'[c]] # "idle" BY <2>1 DEF OperationNames, Awaited
  <2> QED BY <1>1, <2>2 DEF Looking, PastReady, PastStop, Called
<1>3. ASSUME NEW p \in Members[c] PROVE Learns(c, p)
  <2>1. InitSent(c, p)' /\ StartSent(c, p)' /\ ~Seen(c, p)' /\ ~Watched(c, p)'
    BY <1>1, <1>2 DEF InitSent, StartSent, Seen, Watched
  <2> QED BY <1>1, <1>2, <2>1 DEF Learns
<1> QED BY <1>1, <1>2, <1>3 DEF Moves

\* A participant that is no member of the standalone ones was checked.
LEMMA CheckMoves ==
  ASSUME TypeOK, CallInv, NEW c \in Controllers, NEW q \in Members[c],
         CheckParticipant(c, q) \/ CheckUnanswered(c, q)
  PROVE  Moves(c)
<1>1. /\ pc[c] = "check" /\ pc' = pc /\ result' = result /\ answer' = answer
      /\ UNCHANGED <<op, calls, worldVars>> /\ Alone(c)
  BY DEF CheckParticipant, CheckUnanswered, Alone, TypeOK
<1>2. ~Looking(c)' /\ ~PastReady(c)' /\ ~PastStop(c)' /\ Called(c)'
  <2>1. op'[c] \in OperationNames BY <1>1 DEF TypeOK
  <2>2. Awaited[op'[c]] # "check" BY <2>1 DEF OperationNames, Awaited
  <2> QED BY <1>1, <2>2 DEF Looking, PastReady, PastStop, Called
<1>3. ASSUME NEW p \in Members[c] PROVE Learns(c, p)
  <2>1. ~InitSent(c, p) /\ ~StartSent(c, p) /\ ~Seen(c, p)' /\ ~Watched(c, p)'
    BY <1>1, <1>2 DEF InitSent, StartSent, Seen, Watched
  <2> QED BY <1>1, <1>2, <2>1 DEF Learns
<1> QED BY <1>1, <1>2, <1>3 DEF Moves

\* A poll that is repeated starts without answers.
LEMMA PollAgainMoves ==
  ASSUME TypeOK, CallInv, NEW c \in Controllers, NEW res, PollAgain(c, res)
  PROVE  Moves(c)
<1>1. /\ pc[c] \in AwaitPhases /\ pc' = pc /\ result' = result /\ todo' = todo
      /\ UNCHANGED <<op, calls, worldVars>> /\ Alone(c) /\ answer'[c] = NoAnswers
  BY DEF PollAgain, Alone, TypeOK
<1>2. op[c] \in OperationNames BY DEF TypeOK
<1>3. ASSUME NEW p \in Members[c] PROVE Learns(c, p)
  <2>1. answer'[c][p] = NoAnswer
    BY <1>1, MembersAssumption DEF NoAnswers
  <2>2. ~Watched(c, p)'
    BY <1>1, <1>2, <2>1, AwaitedIsPhase DEF Watched
  <2>3. Seen(c, p)' => Seen(c, p)
    BY <1>1, <2>1 DEF Seen, PastReady, NoAnswer
  <2>4. (InitSent(c, p) => InitSent(c, p)') /\ (StartSent(c, p) => StartSent(c, p)')
    BY <1>1 DEF InitSent, StartSent, Called
  <2>5. pc'[c] # "idle" /\ (PastReady(c)' <=> PastReady(c)) /\ (PastStop(c)' <=> PastStop(c))
    BY <1>1 DEF PastReady, PastStop, AwaitPhases
  <2> QED BY <2>2, <2>3, <2>4, <2>5 DEF Learns
<1>4. pc[c] # "idle" /\ Called(c)'
  BY <1>1 DEF AwaitPhases, Called
<1> QED BY <1>1, <1>3, <1>4 DEF Moves

\* The next phase of a call, or its end.
LEMMA ProceedMoves ==
  ASSUME TypeOK, CallInv, NEW c \in Controllers, Proceed(c), pc[c] # "idle",
         pc[c] \notin AwaitPhases => todo[c] = {},
         pc[c] \in AwaitPhases => \A p \in Members[c] : answer[c][p] = pc[c],
         UNCHANGED <<op, calls, worldVars>>
  PROVE  Moves(c)
<1>1. op[c] \in OperationNames /\ pc[c] \in PhasesOf[op[c]] /\ op'[c] = op[c]
  BY DEF CallInv, TypeOK
<1>2. CASE NextPhase[pc[c]] = "idle"
  <2>1. /\ pc'[c] = "idle" /\ result'[c] = "ok" /\ answer' = answer /\ Alone(c)
    BY <1>2 DEF Proceed, Return, Alone, TypeOK
  <2>2. pc[c] = Awaited[op[c]] /\ pc[c] \in AwaitPhases /\ (op[c] = "start" => pc[c] = "FS_RUNNING")
        /\ (op[c] = "stop" => pc[c] = "FS_IDLE")
    BY <1>1, <1>2 DEF OperationNames, PhasesOf, NextPhase, Awaited, AwaitPhases
  <2>3. ASSUME NEW p \in Members[c] PROVE Learns(c, p)
    BY <1>1, <2>1, <2>2
    DEF Learns, Watched, Looking, InitSent, StartSent, Called, Seen, PastReady, PastStop
  <2> QED BY <2>1, <2>3 DEF Moves, Called
<1>3. CASE NextPhase[pc[c]] # "idle"
  <2>1. PICK n : n = NextPhase[pc[c]]
    OBVIOUS
  <2>2. /\ pc'[c] = n /\ result' = result /\ Alone(c)
        /\ n \in AwaitPhases => answer'[c] = NoAnswers /\ todo'[c] = {}
        /\ n \notin AwaitPhases => answer' = answer /\ todo'[c] = Members[c]
    BY <1>3, <2>1 DEF Proceed, Enter, Alone, TypeOK
  <2>3. /\ n \in PhasesOf[op[c]] /\ n # "idle" /\ n \in Phases
        /\ n \in AwaitPhases => pc[c] \in TriggerPhases
    BY <1>1, <1>3, <2>1, NextPhaseInOperation
  <2>4. ASSUME NEW p \in Members[c] PROVE Learns(c, p)
    <3>1. n \in AwaitPhases => answer'[c][p] = NoAnswer
      BY <2>2, MembersAssumption DEF NoAnswers
    <3>2. ~Watched(c, p)'
      <4>1. Awaited[op[c]] \in AwaitPhases /\ Awaited[op[c]] # NoAnswer
        BY <1>1, AwaitedIsPhase
      <4> QED BY <1>1, <2>2, <2>3, <3>1, <4>1 DEF Watched, Looking
    <3>3. CASE op[c] = "start"
      <4>1. \/ pc[c] = "check" /\ n = "CE_Initialize"
            \/ pc[c] = "CE_Initialize" /\ n = "FS_READY"
            \/ pc[c] = "FS_READY" /\ n = "CE_Start"
            \/ pc[c] = "CE_Start" /\ n = "FS_RUNNING"
        BY <1>1, <1>3, <2>1, <3>3 DEF PhasesOf, NextPhase
      <4>2. CASE pc[c] = "check" /\ n = "CE_Initialize"
        BY <2>2, <3>2, <3>3, <4>2
        DEF Learns, InitSent, StartSent, Called, Seen, PastReady, AwaitPhases
      <4>3. CASE pc[c] = "CE_Initialize" /\ n = "FS_READY"
        BY <2>2, <3>1, <3>2, <3>3, <4>3
        DEF Learns, InitSent, StartSent, Called, Seen, PastReady, AwaitPhases, NoAnswer
      <4>4. CASE pc[c] = "FS_READY" /\ n = "CE_Start"
        BY <2>2, <3>2, <3>3, <4>4
        DEF Learns, InitSent, StartSent, Called, Seen, PastReady, AwaitPhases
      <4>5. CASE pc[c] = "CE_Start" /\ n = "FS_RUNNING"
        BY <2>2, <3>2, <3>3, <4>5
        DEF Learns, InitSent, StartSent, Called, Seen, PastReady, AwaitPhases
      <4> QED BY <4>1, <4>2, <4>3, <4>4, <4>5
    <3>4. CASE op[c] # "start"
      <4>1. pc[c] \notin PhasesOf["start"] /\ n \notin PhasesOf["start"]
        BY <1>1, <2>3, <3>4 DEF OperationNames, PhasesOf
      <4>2. InitSent(c, p)' /\ ~StartSent(c, p)
        BY <2>2, <2>3, <4>1 DEF InitSent, StartSent, Called, PhasesOf
      <4> QED BY <2>2, <2>3, <3>2, <3>4, <4>2 DEF Learns
    <3> QED BY <3>3, <3>4
  <2> QED BY <2>2, <2>3, <2>4 DEF Moves, Called
<1> QED BY <1>2, <1>3

\* A round or the check is over, or a poll has found everybody where he should be.
LEMMA RoundEndsMoves ==
  ASSUME TypeOK, CallInv, NEW c \in Controllers, RoundEnds(c)
  PROVE  Moves(c)
<1>1. /\ pc[c] # "idle" /\ pc[c] \notin AwaitPhases /\ todo[c] = {}
      /\ UNCHANGED <<op, calls, worldVars>>
      /\ Proceed(c) \/ Return(c, "threw")
  BY DEF RoundEnds, TriggerPhases, AwaitPhases
<1> QED BY <1>1, ProceedMoves, ThrowMoves

LEMMA AwaitEndsMoves ==
  ASSUME Prompt, TypeOK, CallInv, \A p \in Participants : reachable[p],
         NEW c \in Controllers, NEW res, AwaitEnds(c, res)
  PROVE  Moves(c)
<1>1. pc[c] # "idle" /\ pc[c] \in AwaitPhases /\ UNCHANGED <<op, calls, worldVars>>
  BY DEF AwaitEnds, AwaitPhases
<1>2. CASE Return(c, "threw")
  BY <1>1, <1>2, ThrowMoves
<1>3. CASE (\A p \in Answered(c) : answer[c][p] = pc[c]) /\ Proceed(c)
  <2>1. ~(faults < MaxFaults)
    BY DEF Prompt, TypeOK
  <2>2. Answered(c) = Members[c]
    BY <2>1, MembersAssumption DEF AwaitEnds, PollReturns, Prompt, Answered
  <2> QED BY <1>1, <1>3, <2>2, ProceedMoves
<1> QED BY <1>2, <1>3 DEF AwaitEnds, FinishAwait

\* Every step of a race is one of these.
RaceStep ==
  \/ UNCHANGED vars
  \/ \E c \in Controllers :
       \/ Begins(c) \/ Moves(c)
       \/ \E p \in Members[c] : Answer(c, p) \/ TriggerAccepted(c, p)
  \/ \E p \in Participants : HandleEvent(p) \/ EntryDone(p)

LEMMA StepOfRace ==
  ASSUME Prompt, TypeOK, CallInv, \A p \in Participants : reachable[p], [Next]_vars
  PROVE  RaceStep /\ reachable' = reachable
<1>1. ~(faults < MaxFaults)
  BY DEF Prompt, TypeOK
<1>2. CASE UNCHANGED vars
  BY <1>2 DEF RaceStep, vars, worldVars
<1>3. ASSUME NEW c \in Controllers, NEW o \in Operations, Call(c, o) \/ CallOnEmptySystem(c, o)
      PROVE  RaceStep /\ reachable' = reachable
  <2>1. Begins(c) BY <1>3, CallBegins
  <2> QED BY <2>1 DEF RaceStep, Begins, worldVars
<1>4. ASSUME NEW c \in Controllers, Moves(c) PROVE RaceStep /\ reachable' = reachable
  BY <1>4 DEF RaceStep, Moves, worldVars
<1>5. ASSUME NEW c \in Controllers, NEW p \in Members[c],
             CheckThrows(c, p) \/ TriggerFails(c, p)
      PROVE  FALSE
  BY <1>1, <1>5, MembersAssumption DEF CheckThrows, TriggerFails, CallFails
<1>6. ASSUME NEW c \in Controllers, NEW p \in Members[c], Answer(c, p) \/ TriggerAccepted(c, p)
      PROVE  RaceStep /\ reachable' = reachable
  BY <1>6 DEF RaceStep, Answer, TriggerAccepted, worldVars
<1>7. ASSUME NEW c \in Controllers, ControllerStep(c) PROVE RaceStep /\ reachable' = reachable
  BY <1>4, <1>5, <1>6, <1>7, CheckMoves, RoundEndsMoves, AwaitEndsMoves, PollAgainMoves
  DEF ControllerStep
<1>8. ASSUME NEW p \in Participants, ParticipantStep(p) PROVE RaceStep /\ reachable' = reachable
  BY <1>8 DEF RaceStep, ParticipantStep, HandleEvent, EntryDone
<1>9. ASSUME NEW p \in Participants,
             ParticipantError(p) \/ Disconnect(p) \/ Crash(p) \/ Reconnect(p)
      PROVE  FALSE
  BY <1>1, <1>9 DEF ParticipantError, Disconnect, Crash, Reconnect, Fault
<1> QED BY <1>2, <1>3, <1>7, <1>8, <1>9 DEF Next

-----------------------------------------------------------------------------
(* Who has called.                                                          *)

\* No call is forgotten by the counter.
CountInv ==
  \A c, d, e \in Controllers :
    /\ Called(c) => calls >= 1
    /\ c # d /\ Called(c) /\ Called(d) => calls >= 2
    /\ c # d /\ d # e /\ c # e /\ Called(c) /\ Called(d) /\ Called(e) => calls >= 3

\* Whoever does not begin a call has called before iff he has after, for the same operation.
LEMMA CalledStays ==
  ASSUME TypeOK, RaceStep, NEW d \in Controllers, ~Begins(d)
  PROVE  /\ Called(d)' <=> Called(d)
         /\ Called(d) => op'[d] = op[d]
         /\ (\A c \in Controllers : ~Begins(c)) => calls' = calls /\ op' = op
<1>1. CASE UNCHANGED vars
  BY <1>1 DEF Called, vars, callVars
<1>2. ASSUME NEW c \in Controllers, Begins(c)
      PROVE  (Called(d)' <=> Called(d)) /\ op'[d] = op[d]
  BY <1>2 DEF Begins, Alone, Called
<1>3. ASSUME NEW c \in Controllers, Moves(c)
      PROVE  (Called(d)' <=> Called(d)) /\ op'[d] = op[d] /\ calls' = calls /\ op' = op
  <2>1. CASE d = c BY <1>3, <2>1 DEF Moves, Called
  <2>2. CASE d # c BY <1>3, <2>2 DEF Moves, Alone, Called
  <2> QED BY <2>1, <2>2
<1>4. ASSUME NEW c \in Controllers, NEW p \in Members[c], Answer(c, p) \/ TriggerAccepted(c, p)
      PROVE  (Called(d)' <=> Called(d)) /\ op'[d] = op[d] /\ calls' = calls /\ op' = op
  BY <1>4 DEF Answer, TriggerAccepted, Called
<1>5. ASSUME NEW p \in Participants, HandleEvent(p) \/ EntryDone(p)
      PROVE  (Called(d)' <=> Called(d)) /\ op'[d] = op[d] /\ calls' = calls /\ op' = op
  BY <1>5 DEF HandleEvent, EntryDone, Called, callVars
<1>6. UNCHANGED vars => calls' = calls /\ op' = op
  BY DEF vars, callVars
<1> QED BY <1>1, <1>2, <1>3, <1>4, <1>5, <1>6 DEF RaceStep

\* CountInv is inductive.
LEMMA StepCountInv == TypeOK /\ RaceStep /\ CountInv => CountInv'
<1> SUFFICES ASSUME TypeOK, RaceStep, CountInv PROVE CountInv'
  OBVIOUS
<1>1. PICK n \in Nat : n = calls
  BY BoundsAssumption DEF TypeOK
<1>2. CASE \E b \in Controllers : Begins(b)
  <2>1. PICK b \in Controllers : Begins(b) BY <1>2
  <2>2. calls' = n + 1 BY <1>1, <2>1 DEF Begins
  <2>3. ASSUME NEW c \in Controllers \ {b} PROVE Called(c)' => Called(c)
    BY <2>1, <2>3 DEF Begins, Alone, Called
  <2> QED BY <1>1, <2>2, <2>3 DEF CountInv
<1>3. CASE \A b \in Controllers : ~Begins(b)
  <2>1. \A c \in Controllers : (Called(c)' => Called(c)) /\ calls' = calls
    BY <1>3, CalledStays
  <2> QED BY <2>1 DEF CountInv
<1> QED BY <1>2, <1>3

\* Once the race is one of c and d, it has always been, and who begins has not called yet.
LEMMA OnceBack ==
  ASSUME TypeOK, RaceStep, CountInv, NEW c \in Controllers, NEW d \in Controllers, Once(c, d)'
  PROVE  /\ Once(c, d)
         /\ \A b \in Controllers : Begins(b) => b \in {c, d} /\ ~Called(b)
         /\ \A b \in Controllers : Called(b) => Called(b)' /\ op'[b] = op[b] /\ ~Begins(b)
<1>1. PICK n \in Nat : n = calls
  BY BoundsAssumption DEF TypeOK
<1>2. ASSUME NEW b \in Controllers, Begins(b)
      PROVE  b \in {c, d} /\ ~Called(b) /\ Once(c, d)
  <2>1. calls' = n + 1 /\ Called(b)'
    <3>1. pc'[b] # "idle" \/ result'[b] # "none"
      BY <1>2 DEF Begins, FirstPhase, OperationNames
    <3> QED BY <1>1, <1>2, <3>1 DEF Begins, Called
  <2>2. b \in {c, d}
    BY <2>1 DEF Once
  <2>3. \A e \in Controllers \ {b} : Called(e)' <=> Called(e)
    BY <1>2 DEF Begins, Alone, Called
  <2>4. ~Called(b)
    BY <1>1, <2>1, <2>2, <2>3 DEF Once, Made, CountInv
  <2> QED BY <1>1, <2>1, <2>2, <2>3, <2>4 DEF Once, Made
<1>3. CASE \A b \in Controllers : ~Begins(b)
  <2>1. \A b \in Controllers : (Called(b)' <=> Called(b)) /\ calls' = calls
    BY <1>3, CalledStays
  <2>2. Once(c, d)
    BY <2>1 DEF Once, Made
  <2> QED BY <1>3, <2>1, <2>2, CalledStays
<1>4. CASE \E b \in Controllers : Begins(b)
  <2>1. \A b \in Controllers : Called(b) => ~Begins(b)
    BY <1>2
  <2> QED BY <1>2, <1>4, <2>1, CalledStays
<1> QED BY <1>3, <1>4

-----------------------------------------------------------------------------
(* What a step does to one controller and to one participant.               *)

Still(c) ==
  /\ pc'[c] = pc[c] /\ op'[c] = op[c] /\ todo'[c] = todo[c]
  /\ answer'[c] = answer[c] /\ result'[c] = result[c]

\* A controller stays as it is or makes one of its own steps.
LEMMA StepAt ==
  ASSUME TypeOK, RaceStep, NEW c \in Controllers
  PROVE  \/ Still(c) \/ Begins(c) \/ Moves(c)
         \/ \E p \in Members[c] : Answer(c, p) \/ TriggerAccepted(c, p)
<1>1. CASE UNCHANGED vars
  BY <1>1 DEF Still, vars, callVars
<1>2. ASSUME NEW b \in Controllers, b # c, Begins(b) \/ Moves(b) PROVE Still(c)
  BY <1>2 DEF Begins, Moves, Alone, Still
<1>3. ASSUME NEW b \in Controllers, b # c, NEW p \in Members[b],
             Answer(b, p) \/ TriggerAccepted(b, p)
      PROVE  Still(c)
  BY <1>3 DEF Answer, TriggerAccepted, TypeOK, Still
<1>4. ASSUME NEW p \in Participants, HandleEvent(p) \/ EntryDone(p) PROVE Still(c)
  BY <1>4 DEF HandleEvent, EntryDone, callVars, Still
<1> QED BY <1>1, <1>2, <1>3, <1>4 DEF RaceStep

\* What a controller may remember of p after a step, and what it has sent.
Remembers(c, p) ==
  /\ Watched(c, p)' => (Watched(c, p) /\ op'[c] = op[c]) \/ state'[p] = Awaited[op'[c]]
  /\ InitSent(c, p) => InitSent(c, p)'
  /\ StartSent(c, p) => StartSent(c, p)'
  /\ Seen(c, p)' /\ (Called(c) => op[c] = "start")
       => Seen(c, p) \/ (state[p] = "FS_READY" /\ state' = state /\ inbox' = inbox)

LEMMA Remembering ==
  ASSUME TypeOK, RaceStep, NEW c \in Controllers, NEW p \in Members[c], Begins(c) => ~Called(c)
  PROVE  Remembers(c, p)
<1>1. p \in Participants BY MembersAssumption
<1>2. op[c] \in OperationNames BY DEF TypeOK
<1>3. CASE Still(c)
  BY <1>3 DEF Still, Remembers, Watched, Looking, InitSent, StartSent, Called, Seen, PastReady
<1>4. CASE Begins(c)
  <2>1. op'[c] \in OperationNames /\ pc'[c] = FirstPhase[op'[c]]
    BY <1>4 DEF Begins
  <2>2. pc'[c] \in {"check", "CE_ErrorFixed", "CE_Shutdown"}
    BY <2>1 DEF OperationNames, FirstPhase
  <2>3. ~Watched(c, p)' /\ ~Seen(c, p)'
    <3>1. Awaited[op'[c]] \in AwaitPhases BY <2>1, AwaitedIsPhase
    <3> QED BY <2>2, <3>1 DEF Watched, Looking, Seen, PastReady, AwaitPhases
  <2>4. ~InitSent(c, p) /\ ~StartSent(c, p)
    BY <1>4 DEF InitSent, StartSent, Called, Begins
  <2> QED BY <2>3, <2>4 DEF Remembers
<1>5. CASE Moves(c)
  <2>1. Learns(c, p) /\ op' = op /\ Called(c) BY <1>5 DEF Moves, Called
  <2> QED BY <2>1 DEF Learns, Remembers
<1>6. ASSUME NEW q \in Members[c], Answer(c, q) PROVE Remembers(c, p)
  <2>1. /\ pc' = pc /\ op' = op /\ todo' = todo /\ result' = result
        /\ state' = state /\ inbox' = inbox /\ pc[c] \in AwaitPhases
    BY <1>6 DEF Answer, worldVars
  <2>2. answer'[c][p] = answer[c][p] \/ answer'[c][p] = state[p]
    BY <1>1, <1>6 DEF Answer, TypeOK
  <2> QED BY <1>2, <2>1, <2>2
    DEF Remembers, Watched, Looking, InitSent, StartSent, Called, Seen, PastReady
<1>7. ASSUME NEW q \in Members[c], TriggerAccepted(c, q) PROVE Remembers(c, p)
  <2>1. /\ pc' = pc /\ op' = op /\ todo'[c] \subseteq todo[c] /\ result' = result
        /\ state' = state /\ answer' = answer
    BY <1>7 DEF TriggerAccepted, TypeOK
  <2> QED BY <2>1
    DEF Remembers, Watched, Looking, InitSent, StartSent, Called, Seen, PastReady
<1> QED BY <1>3, <1>4, <1>5, <1>6, <1>7, StepAt

\* A participant stays as it is, is sent something, handles something or is done with an entry.
Waits(p) == state'[p] = state[p] /\ inbox'[p] = inbox[p]
Receives(p) ==
  \E c \in Controllers : p \in Members[c] /\ TriggerAccepted(c, p)
                         /\ state'[p] = state[p] /\ inbox'[p] = Append(inbox[p], pc[c])
Handles(p) ==
  /\ inbox[p] # <<>>
  /\ state'[p] = NextState(state[p], Head(inbox[p])) /\ inbox'[p] = Tail(inbox[p])
Raises(p) ==
  \E ev \in {"StartupDone", "InitDone"} :
    state'[p] = NextState(state[p], ev) /\ inbox'[p] = inbox[p]

LEMMA StepOf ==
  ASSUME TypeOK, RaceStep, \A p \in Participants : reachable[p], NEW p \in Participants
  PROVE  Waits(p) \/ Receives(p) \/ Handles(p) \/ Raises(p)
<1>1. CASE UNCHANGED vars
  BY <1>1 DEF Waits, vars, worldVars
<1>2. ASSUME NEW c \in Controllers, Begins(c) \/ Moves(c) PROVE Waits(p)
  BY <1>2 DEF Begins, Moves, Waits, worldVars
<1>3. ASSUME NEW c \in Controllers, NEW q \in Members[c], Answer(c, q) PROVE Waits(p)
  BY <1>3 DEF Answer, Waits, worldVars
<1>4. ASSUME NEW c \in Controllers, NEW q \in Members[c], TriggerAccepted(c, q)
      PROVE  Waits(p) \/ Receives(p)
  <2>1. q \in Participants BY MembersAssumption
  <2>2. inbox' = [inbox EXCEPT ![q] = Append(@, pc[c])] /\ state' = state
    BY <1>4, <2>1 DEF TriggerAccepted
  <2>3. CASE p = q
    BY <1>4, <2>2, <2>3 DEF Receives, TypeOK
  <2>4. CASE p # q
    BY <2>2, <2>4 DEF Waits, TypeOK
  <2> QED BY <2>3, <2>4
<1>5. ASSUME NEW q \in Participants, HandleEvent(q) PROVE Waits(p) \/ Handles(p)
  BY <1>5 DEF HandleEvent, Waits, Handles, TypeOK
<1>6. ASSUME NEW q \in Participants, EntryDone(q) PROVE Waits(p) \/ Raises(p)
  <2>1. PICK ev \in {"StartupDone", "InitDone"} : state' = [state EXCEPT ![q] = NextState(@, ev)]
    BY <1>6 DEF EntryDone
  <2>2. inbox' = inbox BY <1>6 DEF EntryDone
  <2> QED BY <2>1, <2>2 DEF Waits, Raises, TypeOK
<1> QED BY <1>1, <1>2, <1>3, <1>4, <1>5, <1>6 DEF RaceStep

-----------------------------------------------------------------------------
(* The inductive invariant.                                                 *)

\* The events c may have sent in its one call.
Said(c) == IF Called(c) THEN CommandsOf[op[c]] ELSE {}

\* The inboxes hold events of the two calls only.
SaidInv(c, d) == \A p \in Participants : inbox[p] \in Seq(Said(c) \cup Said(d))

\* Nothing the other one sends takes a participant away from where c has seen it: the
\* other one wants the same, or c shuts down.
Prevails(c, d) == op[c] = "shutdown" \/ (Called(d) => op[d] = op[c])

PrevailInv(c, d) ==
  Prevails(c, d) => \A p \in Members[c] : Watched(c, p) => state[p] = Awaited[op[c]]

\* c starts and d stops, as far as they have begun.
Racing(c, d) == (Called(c) => op[c] = "start") /\ (Called(d) => op[d] = "stop")

\* How a start finds its participant.  It sends one CE_Initialize, and a participant that it
\* sees ready has handled this one: nobody was ready before.
StartInv(c, p) ==
  /\ ~InitSent(c, p) => /\ ~Contains(inbox[p], "CE_Initialize")
                        /\ state[p] \notin {"FS_INITIALIZING", "FS_READY"}
  /\ AtMostOne(inbox[p], "CE_Initialize")
  /\ Contains(inbox[p], "CE_Initialize") => state[p] \notin {"FS_INITIALIZING", "FS_READY"}
  /\ ~StartSent(c, p) => ~Contains(inbox[p], "CE_Start")
  /\ Seen(c, p) => ~Contains(inbox[p], "CE_Initialize")
  /\ Seen(c, p) /\ ~StartSent(c, p) => state[p] # "FS_RUNNING"

StartsInv(c, d) == Racing(c, d) => \A p \in Members[c] : StartInv(c, p)

\* Once the start is behind its barrier and the stop has sent everything, who came second
\* wins.  The stop: nobody it has seen stopped moves again.  The start: no CE_Stop lies
\* behind a CE_Start, and nobody it has seen running moves again.
StopWins(c, d) ==
  \A p \in Members[c] \cap Members[d] : Watched(d, p) => state[p] = "FS_IDLE"

StartWins(c, d) ==
  \A p \in Members[c] \cap Members[d] :
    /\ NoneBehind(inbox[p], "CE_Start", "CE_Stop")
    /\ state[p] = "FS_RUNNING" => ~Contains(inbox[p], "CE_Stop")
    /\ Watched(c, p) => state[p] = "FS_RUNNING"

WinnerInv(c, d) ==
  Racing(c, d) /\ PastReady(c) /\ PastStop(d) => StopWins(c, d) \/ StartWins(c, d)

\* A success comes with all the answers.
AnswersInv ==
  \A c \in Controllers : pc[c] = "idle" /\ result[c] = "ok" =>
    \A p \in Members[c] : answer[c][p] = Awaited[op[c]]

PairInv(c, d) == SaidInv(c, d) /\ PrevailInv(c, d) /\ StartsInv(c, d) /\ WinnerInv(c, d)

RaceInv ==
  /\ \A p \in Participants : reachable[p]
  /\ CountInv /\ AnswersInv
  /\ \A c, d \in Controllers : Once(c, d) => PairInv(c, d)

-----------------------------------------------------------------------------
(* The steps keep it.                                                       *)

\* A larger set has the sequences of the smaller one.
LEMMA SeqGrows == \A S, T : S \subseteq T => \A s \in Seq(S) : s \in Seq(T)
OBVIOUS

\* Where a participant comes from and stays: only CE_Initialize makes it get ready, only
\* CE_Start makes it run, and it does not run away without a CE_Stop.
LEMMA RaceTransitions ==
  ASSUME NEW s \in States, NEW ev \in Commands \cup {"StartupDone", "InitDone"}
  PROVE  /\ ev # "CE_Initialize" /\ NextState(s, ev) \in {"FS_INITIALIZING", "FS_READY"}
              => s \in {"FS_INITIALIZING", "FS_READY"}
         /\ ev # "CE_Start" /\ NextState(s, ev) = "FS_RUNNING" => s = "FS_RUNNING"
         /\ ev # "CE_Stop" /\ s = "FS_RUNNING" => NextState(s, ev) = "FS_RUNNING"
         /\ ev \notin {"CE_Initialize", "CE_Shutdown", "CE_Restart"} /\ s = "FS_IDLE"
              => NextState(s, ev) = "FS_IDLE"
         /\ s = "FS_SHUTDOWN" => NextState(s, ev) = "FS_SHUTDOWN"
<1>1. \A t \in Transitions : t.event = ev /\ s \in t.from =>
        /\ ev # "CE_Initialize" /\ t.to \in {"FS_INITIALIZING", "FS_READY"}
              => s \in {"FS_INITIALIZING", "FS_READY"}
        /\ ev # "CE_Start" /\ t.to = "FS_RUNNING" => s = "FS_RUNNING"
        /\ ev # "CE_Stop" /\ s = "FS_RUNNING" => t.to = "FS_RUNNING"
        /\ ev \notin {"CE_Initialize", "CE_Shutdown", "CE_Restart"} /\ s = "FS_IDLE"
              => t.to = "FS_IDLE"
        /\ s = "FS_SHUTDOWN" => t.to = "FS_SHUTDOWN"
  BY DEF Transitions, Leads, States, Commands
<1>2. NextState(s, ev) = s \/ \E t \in Transitions : t.event = ev /\ s \in t.from /\ NextState(s, ev) = t.to
  BY DEF NextState
<1> QED BY <1>1, <1>2

\* The answers of a success are those of its last poll.
LEMMA StepAnswersInv ==
  ASSUME TypeOK, RaceStep, AnswersInv
  PROVE  AnswersInv'
<1> SUFFICES ASSUME NEW c \in Controllers, pc'[c] = "idle", result'[c] = "ok", NEW p \in Members[c]
             PROVE  answer'[c][p] = Awaited[op'[c]]
  BY DEF AnswersInv
<1>1. CASE Still(c) BY <1>1 DEF Still, AnswersInv
<1>2. CASE Begins(c) BY <1>2 DEF Begins
<1>3. CASE Moves(c) BY <1>3 DEF Moves, Learns
<1>4. ASSUME NEW q \in Members[c], Answer(c, q) \/ TriggerAccepted(c, q) PROVE FALSE
  BY <1>4 DEF Answer, TriggerAccepted, AwaitPhases, TriggerPhases
<1> QED BY <1>1, <1>2, <1>3, <1>4, StepAt

\* What is known of a pair before a step that leaves it a pair.
LEMMA PairBefore ==
  ASSUME TypeOK, RaceStep, RaceInv, NEW c \in Controllers, NEW d \in Controllers, Once(c, d)'
  PROVE  /\ Once(c, d) /\ PairInv(c, d)
         /\ \A b \in Controllers : Begins(b) => b \in {c, d} /\ ~Called(b)
         /\ \A b \in Controllers : Called(b) => Called(b)' /\ op'[b] = op[b]
BY OnceBack DEF RaceInv

\* Whoever triggers has called, and for the operation of the event.
LEMMA SenderCalled ==
  ASSUME TypeOK, CallInv, NEW b \in Controllers, NEW p \in Members[b], TriggerAccepted(b, p)
  PROVE  Called(b) /\ pc[b] \in CommandsOf[op[b]] /\ pc[b] \in TriggerPhases
<1>1. op[b] \in OperationNames /\ pc[b] \in PhasesOf[op[b]] /\ pc[b] \in TriggerPhases /\ pc[b] # "idle"
  BY DEF TriggerAccepted, CallInv, TypeOK, TriggerPhases
<1>2. pc[b] \in CommandsOf[op[b]]
  BY <1>1 DEF OperationNames, PhasesOf, TriggerPhases, CommandsOf
<1> QED BY <1>1, <1>2 DEF Called

\* What arrives is sent by the two, and what was there before is of the two.
LEMMA StepSaidInv ==
  ASSUME TypeOK, CallInv, RaceStep, RaceInv, NEW c \in Controllers, NEW d \in Controllers, Once(c, d)'
  PROVE  SaidInv(c, d)'
<1>1. Once(c, d) /\ SaidInv(c, d)
  BY PairBefore DEF PairInv
<1>2. PICK S : S = Said(c) \cup Said(d)
  OBVIOUS
<1>3. PICK T : T = (Said(c) \cup Said(d))'
  OBVIOUS
<1>4. S \subseteq T
  BY <1>2, <1>3, PairBefore DEF Said
<1>5. ASSUME NEW p \in Participants PROVE inbox'[p] \in Seq(T)
  <2>1. inbox[p] \in Seq(S)
    BY <1>1, <1>2 DEF SaidInv
  <2>2. inbox'[p] \in Seq(S)
    <3>1. CASE Waits(p) \/ Raises(p)
      BY <2>1, <3>1 DEF Waits, Raises
    <3>2. CASE Handles(p)
      BY <2>1, <3>2, HeadTailIn DEF Handles
    <3>3. CASE Receives(p)
      <4>1. PICK b \in Controllers : p \in Members[b] /\ TriggerAccepted(b, p)
                                     /\ inbox'[p] = Append(inbox[p], pc[b])
        BY <3>3 DEF Receives
      <4>2. Called(b) /\ pc[b] \in CommandsOf[op[b]]
        BY <4>1, SenderCalled
      <4>3. pc[b] \in S
        BY <1>1, <1>2, <4>2 DEF Once, Said
      <4> QED BY <2>1, <4>1, <4>3, AppendIn
    <3> QED BY <3>1, <3>2, <3>3, StepOf DEF RaceInv
  <2> QED BY <1>4, <2>2, SeqGrows
<1> QED BY <1>3, <1>5 DEF SaidInv

\* Whoever looks has called.
LEMMA LookingCalled == \A c \in Controllers : TypeOK /\ Looking(c) => Called(c)
<1> SUFFICES ASSUME NEW c \in Controllers, TypeOK, Looking(c) PROVE Called(c)
  OBVIOUS
<1>1. Awaited[op[c]] \in AwaitPhases BY AwaitedIsPhase DEF TypeOK
<1> QED BY <1>1 DEF Looking, Called, AwaitPhases

\* Whom the prevailing call has seen where it wants him stays there.
LEMMA StepPrevailInv ==
  ASSUME TypeOK, CallInv, RaceStep, RaceInv, NEW c \in Controllers, NEW d \in Controllers, Once(c, d)'
  PROVE  PrevailInv(c, d)'
<1> SUFFICES ASSUME Prevails(c, d)', NEW p \in Members[c], Watched(c, p)'
             PROVE  state'[p] = Awaited[op'[c]]
  BY DEF PrevailInv
<1>1. /\ Once(c, d) /\ SaidInv(c, d) /\ PrevailInv(c, d) /\ (Begins(c) => ~Called(c))
      /\ \A b \in Controllers : Called(b) => Called(b)' /\ op'[b] = op[b]
  BY PairBefore DEF PairInv
<1>2. (Watched(c, p) /\ op'[c] = op[c]) \/ state'[p] = Awaited[op'[c]]
  BY <1>1, Remembering DEF Remembers
<1>3. CASE Watched(c, p) /\ op'[c] = op[c]
  <2>1. Called(c) BY <1>3, LookingCalled DEF Watched
  <2>2. Prevails(c, d) BY <1>1, <2>1 DEF Prevails
  <2>3. state[p] = Awaited[op[c]] BY <1>1, <1>3, <2>2 DEF PrevailInv
  <2>4. op[c] \in OperationNames /\ p \in Participants /\ state[p] \in States
    BY MembersAssumption DEF TypeOK
  <2>5. state[p] \in {"FS_RUNNING", "FS_IDLE", "FS_SHUTDOWN"}
    BY <2>3, <2>4 DEF OperationNames, Awaited
  <2>6. CASE Waits(p) \/ Receives(p)
    BY <1>3, <2>3, <2>6 DEF Waits, Receives
  <2>7. CASE Raises(p)
    BY <1>3, <2>3, <2>5, <2>7, ReachedIsStable DEF Raises
  <2>8. CASE Handles(p)
    <3>1. PICK S : S = Said(c) \cup Said(d)
      OBVIOUS
    <3>2. Head(inbox[p]) \in S /\ Head(inbox[p]) \in Commands
      BY <1>1, <2>4, <2>8, <3>1, HeadTailIn DEF SaidInv, Handles, TypeOK
    <3>3. CASE op[c] = "shutdown"
      BY <1>3, <2>3, <2>4, <2>8, <3>2, <3>3, RaceTransitions DEF Handles, Awaited
    <3>4. CASE Called(d) => op[d] = op[c]
      <4>1. Head(inbox[p]) \in CommandsOf[op[c]]
        BY <3>1, <3>2, <3>4 DEF Said
      <4>2. Awaited[op[c]] \in Barriers[op[c]] /\ Reached[Awaited[op[c]]] = {Awaited[op[c]]}
        BY <2>4 DEF OperationNames, Awaited, Barriers, Reached
      <4>3. NextState(state[p], Head(inbox[p])) \in Reached[Awaited[op[c]]]
        BY <2>3, <2>4, <4>1, <4>2, CommandsKeepReached
      <4> QED BY <1>3, <2>8, <4>2, <4>3 DEF Handles
    <3> QED BY <2>2, <3>3, <3>4 DEF Prevails
  <2> QED BY <2>4, <2>6, <2>7, <2>8, StepOf DEF RaceInv
<1> QED BY <1>2, <1>3

\* An event of the start comes when it is due, and an event of the stop is neither.
LEMMA ReceivesKeepsStart ==
  ASSUME TypeOK, CallInv, NEW c \in Controllers, NEW d \in Controllers, Once(c, d), Racing(c, d),
         NEW p \in Members[c], StartInv(c, p), Remembers(c, p), Receives(p)
  PROVE  StartInv(c, p)'
<1>1. p \in Participants BY MembersAssumption
<1>2. inbox[p] \in Seq(Commands) BY <1>1 DEF TypeOK
<1>3. PICK b \in Controllers : /\ p \in Members[b] /\ TriggerAccepted(b, p) /\ state'[p] = state[p]
                               /\ inbox'[p] = Append(inbox[p], pc[b])
  BY DEF Receives
<1>4. Called(b) /\ pc[b] \in CommandsOf[op[b]] /\ pc[b] \in TriggerPhases
  BY <1>3, SenderCalled
<1>5. (b = c /\ op[c] = "start") \/ (b = d /\ op[d] = "stop")
  BY <1>4 DEF Once, Racing
<1>6. PICK x \in Commands : x = pc[b]
  BY <1>4 DEF TriggerPhases, Commands
<1>7. /\ \A e : Contains(inbox'[p], e) <=> Contains(inbox[p], e) \/ e = x
      /\ \A e : AtMostOne(inbox[p], e) /\ (e = x => ~Contains(inbox[p], e)) => AtMostOne(inbox'[p], e)
  BY <1>2, <1>3, <1>6, AppendContains
<1>8. p \in todo[b] /\ pc' = pc /\ result' = result /\ answer' = answer /\ p \notin todo'[b]
  BY <1>3 DEF TriggerAccepted, IsNext, TypeOK
<1>9. Seen(c, p)' <=> Seen(c, p)
  BY <1>8 DEF Seen, PastReady
<1>10. CASE x \notin {"CE_Initialize", "CE_Start"}
  BY <1>3, <1>7, <1>9, <1>10 DEF StartInv, Remembers
<1>11. CASE x = "CE_Initialize"
  <2>1. b = c BY <1>4, <1>5, <1>6, <1>11 DEF CommandsOf
  <2>2. ~InitSent(c, p) /\ InitSent(c, p)' /\ ~Seen(c, p)
    BY <1>4, <1>6, <1>8, <1>11, <2>1 DEF InitSent, Called, Seen, PastReady
  <2> QED BY <1>3, <1>7, <1>9, <1>11, <2>2 DEF StartInv, Remembers
<1>12. CASE x = "CE_Start"
  <2>1. b = c BY <1>4, <1>5, <1>6, <1>12 DEF CommandsOf
  <2>2. InitSent(c, p)' /\ StartSent(c, p)'
    BY <1>6, <1>8, <1>12, <2>1 DEF InitSent, Called, StartSent
  <2> QED BY <1>3, <1>7, <1>9, <1>12, <2>2 DEF StartInv
<1> QED BY <1>10, <1>11, <1>12

\* A sequence without its head is another one.
LEMMA TailIsShorter == \A S : \A s \in Seq(S) : s # <<>> => Tail(s) # s
<1> SUFFICES ASSUME NEW S, NEW s \in Seq(S), s # <<>> PROVE Tail(s) # s
  OBVIOUS
<1>1. PICK n \in Nat : n = Len(Tail(s))
  OBVIOUS
<1>2. Len(s) = n + 1
  BY <1>1
<1>3. Len(Tail(s)) # Len(s)
  BY <1>1, <1>2
<1> QED BY <1>3

\* An event that is handled is out of the inbox.
LEMMA HandlesKeepsStart ==
  ASSUME TypeOK, NEW c \in Controllers, NEW p \in Members[c], Handles(p),
         StartInv(c, p), Remembers(c, p), Seen(c, p)' => Seen(c, p)
  PROVE  StartInv(c, p)'
<1>1. p \in Participants BY MembersAssumption
<1>2. inbox[p] \in Seq(Commands) /\ inbox[p] # <<>> /\ state[p] \in States
  BY <1>1 DEF TypeOK, Handles
<1>3. PICK x \in Commands : x = Head(inbox[p])
  BY <1>2, HeadTailIn
<1>4. /\ Contains(inbox[p], x)
      /\ \A e : Contains(inbox'[p], e) => Contains(inbox[p], e)
      /\ \A e : AtMostOne(inbox[p], e) => AtMostOne(inbox'[p], e)
      /\ AtMostOne(inbox[p], x) => ~Contains(inbox'[p], x)
  BY <1>2, <1>3, TailContains DEF Handles
<1>5. /\ x # "CE_Initialize" /\ state'[p] \in {"FS_INITIALIZING", "FS_READY"}
           => state[p] \in {"FS_INITIALIZING", "FS_READY"}
      /\ x # "CE_Start" /\ state'[p] = "FS_RUNNING" => state[p] = "FS_RUNNING"
  BY <1>2, <1>3, RaceTransitions DEF Handles
<1> QED BY <1>4, <1>5 DEF StartInv, Remembers

\* A start finds its participants as it should, in every step of a race with a stop.
LEMMA StepStartsInv ==
  ASSUME TypeOK, CallInv, RaceStep, RaceInv, NEW c \in Controllers, NEW d \in Controllers, Once(c, d)'
  PROVE  StartsInv(c, d)'
<1> SUFFICES ASSUME Racing(c, d)', NEW p \in Members[c] PROVE StartInv(c, p)'
  BY DEF StartsInv
<1>1. /\ Once(c, d) /\ StartsInv(c, d) /\ (Begins(c) => ~Called(c))
      /\ \A b \in Controllers : Called(b) => Called(b)' /\ op'[b] = op[b]
  BY PairBefore DEF PairInv
<1>2. Racing(c, d)
  BY <1>1 DEF Racing
<1>3. StartInv(c, p) /\ Remembers(c, p) /\ p \in Participants
  BY <1>1, <1>2, Remembering, MembersAssumption DEF StartsInv
<1>4. Seen(c, p)' => Seen(c, p) \/ (state[p] = "FS_READY" /\ state' = state /\ inbox' = inbox)
  BY <1>2, <1>3 DEF Racing, Remembers
<1>5. CASE Waits(p)
  BY <1>3, <1>4, <1>5 DEF Waits, StartInv, Remembers
<1>6. CASE Receives(p)
  BY <1>1, <1>2, <1>3, <1>6, ReceivesKeepsStart
<1>7. CASE Handles(p)
  <2>1. inbox[p] # <<>> /\ inbox'[p] = Tail(inbox[p]) /\ inbox[p] \in Seq(Commands)
    BY <1>3, <1>7 DEF Handles, TypeOK
  <2>2. inbox'[p] # inbox[p]
    BY <2>1, TailIsShorter
  <2>3. Seen(c, p)' => Seen(c, p)
    BY <1>4, <2>2
  <2> QED BY <1>3, <1>7, <2>3, HandlesKeepsStart
<1>8. CASE Raises(p) /\ ~Waits(p)
  <2>1. PICK ev \in {"StartupDone", "InitDone"} :
          state'[p] = NextState(state[p], ev) /\ inbox'[p] = inbox[p]
    BY <1>8 DEF Raises
  <2>2. /\ state'[p] \in {"FS_INITIALIZING", "FS_READY"} => state[p] \in {"FS_INITIALIZING", "FS_READY"}
        /\ state'[p] = "FS_RUNNING" => state[p] = "FS_RUNNING"
    BY <1>3, <2>1, RaceTransitions DEF TypeOK
  <2>3. Seen(c, p)' => Seen(c, p)
    BY <1>4, <1>8 DEF Waits
  <2> QED BY <1>3, <2>1, <2>2, <2>3 DEF StartInv, Remembers
<1> QED BY <1>3, <1>5, <1>6, <1>7, <1>8, StepOf DEF RaceInv

\* A stop that comes second keeps whom it has seen: no CE_Initialize is on its way to him.
LEMMA StepStopWins ==
  ASSUME TypeOK, CallInv, RaceStep, RaceInv, NEW c \in Controllers, NEW d \in Controllers,
         Once(c, d)', Racing(c, d)', PastReady(c), PastStop(d), StopWins(c, d)
  PROVE  StopWins(c, d)'
<1>1. /\ Once(c, d) /\ StartsInv(c, d) /\ SaidInv(c, d) /\ (Begins(d) => ~Called(d))
      /\ \A b \in Controllers : Called(b) => Called(b)' /\ op'[b] = op[b]
  BY PairBefore DEF PairInv
<1>2. Racing(c, d)
  BY <1>1 DEF Racing
<1> SUFFICES ASSUME NEW p \in Members[c] \cap Members[d], Watched(d, p)'
             PROVE  state'[p] = "FS_IDLE"
  BY DEF StopWins
<1>3. (Watched(d, p) /\ op'[d] = op[d]) \/ state'[p] = Awaited[op'[d]]
  BY <1>1, Remembering DEF Remembers
<1>4. Called(d) BY DEF PastStop, Called
<1>5. op'[d] = "stop" /\ Awaited["stop"] = "FS_IDLE"
  BY <1>1, <1>2, <1>4 DEF Racing, Awaited
<1>6. CASE Watched(d, p)
  <2>1. state[p] = "FS_IDLE" /\ p \in Participants
    BY <1>6, MembersAssumption DEF StopWins
  <2>2. CASE Waits(p) \/ Receives(p)
    BY <2>1, <2>2 DEF Waits, Receives
  <2>3. CASE Raises(p)
    BY <2>1, <2>3, ReachedIsStable DEF Raises
  <2>4. CASE Handles(p)
    <3>1. PICK S : S = Said(c) \cup Said(d)
      OBVIOUS
    <3>2. inbox[p] \in Seq(S) /\ inbox[p] \in Seq(Commands) /\ inbox[p] # <<>>
      BY <1>1, <2>1, <2>4, <3>1 DEF SaidInv, Handles, TypeOK
    <3>3. PICK x \in Commands : x = Head(inbox[p])
      BY <3>2, HeadTailIn
    <3>4. x \in S /\ Contains(inbox[p], x)
      BY <3>2, <3>3, HeadTailIn, TailContains
    <3>5. x \in {"CE_Initialize", "CE_Start", "CE_ErrorFixed", "CE_Stop"}
      BY <1>2, <3>1, <3>4 DEF Said, Racing, CommandsOf
    <3>6. Seen(c, p) /\ StartInv(c, p)
      BY <1>1, <1>2 DEF Seen, StartsInv
    <3>7. x # "CE_Initialize"
      BY <3>4, <3>6 DEF StartInv
    <3> QED BY <2>1, <2>4, <3>3, <3>5, <3>7, RaceTransitions DEF Handles, States
  <2> QED BY <2>1, <2>2, <2>3, <2>4, StepOf DEF RaceInv
<1> QED BY <1>3, <1>5, <1>6

\* A start that comes second keeps whom it has seen: its CE_Start is the last that counts.
LEMMA StepStartWins ==
  ASSUME TypeOK, CallInv, RaceStep, RaceInv, NEW c \in Controllers, NEW d \in Controllers,
         Once(c, d)', Racing(c, d)', PastReady(c), PastStop(d), StartWins(c, d)
  PROVE  StartWins(c, d)'
<1>1. /\ Once(c, d) /\ (Begins(c) => ~Called(c))
      /\ \A b \in Controllers : Called(b) => Called(b)' /\ op'[b] = op[b]
  BY PairBefore
<1>2. Called(c) BY DEF PastReady, Called
<1>3. op[c] = "start" /\ op'[c] = "start" /\ Awaited["start"] = "FS_RUNNING"
  BY <1>1, <1>2 DEF Racing, Awaited
<1> SUFFICES ASSUME NEW p \in Members[c] \cap Members[d]
             PROVE  /\ NoneBehind(inbox'[p], "CE_Start", "CE_Stop")
                    /\ state'[p] = "FS_RUNNING" => ~Contains(inbox'[p], "CE_Stop")
                    /\ Watched(c, p)' => state'[p] = "FS_RUNNING"
  BY DEF StartWins
<1>4. Watched(c, p)' => Watched(c, p) \/ state'[p] = "FS_RUNNING"
  BY <1>1, <1>3, Remembering DEF Remembers
<1>5. /\ p \in Participants /\ NoneBehind(inbox[p], "CE_Start", "CE_Stop")
      /\ state[p] = "FS_RUNNING" => ~Contains(inbox[p], "CE_Stop")
      /\ Watched(c, p) => state[p] = "FS_RUNNING"
  BY MembersAssumption DEF StartWins
<1>6. inbox[p] \in Seq(Commands) /\ state[p] \in States
  BY <1>5 DEF TypeOK
<1>7. CASE Waits(p)
  BY <1>4, <1>5, <1>7 DEF Waits
<1>8. CASE Receives(p)
  <2>1. PICK b \in Controllers : /\ p \in Members[b] /\ TriggerAccepted(b, p) /\ state'[p] = state[p]
                                 /\ inbox'[p] = Append(inbox[p], pc[b])
    BY <1>8 DEF Receives
  <2>2. Called(b) /\ pc[b] \in TriggerPhases
    BY <2>1, SenderCalled
  <2>3. b = c
    BY <1>1, <2>2 DEF Once, PastStop, TriggerPhases
  <2>4. PICK x \in Commands : x = pc[b]
    BY <2>2 DEF TriggerPhases, Commands
  <2>5. x # "CE_Stop"
    BY <2>2, <2>3, <2>4 DEF PastReady, TriggerPhases
  <2>6. /\ \A e : Contains(inbox'[p], e) <=> Contains(inbox[p], e) \/ e = x
        /\ NoneBehind(inbox'[p], "CE_Start", "CE_Stop")
    BY <1>5, <1>6, <2>1, <2>4, <2>5, AppendContains
  <2> QED BY <1>4, <1>5, <2>1, <2>5, <2>6
<1>9. CASE Handles(p)
  <2>1. inbox[p] # <<>> /\ inbox'[p] = Tail(inbox[p])
    BY <1>9 DEF Handles
  <2>2. PICK x \in Commands : x = Head(inbox[p])
    BY <1>6, <2>1, HeadTailIn
  <2>3. /\ Contains(inbox[p], x)
        /\ \A e : Contains(inbox'[p], e) => Contains(inbox[p], e)
        /\ NoneBehind(inbox'[p], "CE_Start", "CE_Stop")
        /\ x = "CE_Start" => ~Contains(inbox'[p], "CE_Stop")
    BY <1>5, <1>6, <2>1, <2>2, TailContains
  <2>4. /\ x # "CE_Start" /\ state'[p] = "FS_RUNNING" => state[p] = "FS_RUNNING"
        /\ x # "CE_Stop" /\ state[p] = "FS_RUNNING" => state'[p] = "FS_RUNNING"
    BY <1>6, <1>9, <2>2, RaceTransitions DEF Handles
  <2> QED BY <1>4, <1>5, <2>3, <2>4
<1>10. CASE Raises(p)
  <2>1. PICK ev \in {"StartupDone", "InitDone"} :
          state'[p] = NextState(state[p], ev) /\ inbox'[p] = inbox[p]
    BY <1>10 DEF Raises
  <2>2. state'[p] = "FS_RUNNING" <=> state[p] = "FS_RUNNING"
    BY <1>6, <2>1, RaceTransitions
  <2> QED BY <1>4, <1>5, <2>1, <2>2
<1> QED BY <1>5, <1>7, <1>8, <1>9, <1>10, StepOf DEF RaceInv

\* Whoever passes the barrier behind the stop wins, and so does the stop behind the start.
LEMMA StepWinnerInv ==
  ASSUME TypeOK, CallInv, RaceStep, RaceInv, NEW c \in Controllers, NEW d \in Controllers,
         Once(c, d)', StartsInv(c, d)'
  PROVE  WinnerInv(c, d)'
<1> SUFFICES ASSUME Racing(c, d)', PastReady(c)', PastStop(d)'
             PROVE  StopWins(c, d)' \/ StartWins(c, d)'
  BY DEF WinnerInv
<1>1. /\ Once(c, d) /\ WinnerInv(c, d)
      /\ \A b \in Controllers : Called(b) => Called(b)' /\ op'[b] = op[b]
  BY PairBefore DEF PairInv
<1>2. Racing(c, d)
  BY <1>1 DEF Racing
<1>3. CASE PastReady(c) /\ PastStop(d)
  BY <1>1, <1>2, <1>3, StepStopWins, StepStartWins DEF WinnerInv
<1>4. CASE ~PastReady(c)
  <2>1. Begins(c) \/ Moves(c)
    BY <1>4, StepAt DEF Still, PastReady, Answer, TriggerAccepted
  <2>2. CASE Begins(c)
    <3>1. Members[c] = {}
      BY <2>2 DEF Begins, FirstPhase, OperationNames, PastReady
    <3> QED BY <3>1 DEF StartWins
  <2>3. CASE Moves(c)
    <3>1. Called(c) /\ op[c] = "start" BY <1>2, <2>3 DEF Moves, Called, Racing
    <3>2. ASSUME NEW p \in Members[c] \cap Members[d]
          PROVE  /\ ~Contains(inbox'[p], "CE_Start") /\ state'[p] # "FS_RUNNING"
                 /\ ~Watched(c, p)'
      <4>1. ~StartSent(c, p)' /\ (Watched(c, p)' => Watched(c, p))
        BY <1>4, <2>3, <3>1 DEF Moves, Learns
      <4>2. ~Watched(c, p)
        BY <1>4, <3>1 DEF Watched, Looking, PastReady, Awaited
      <4>3. StartInv(c, p)' /\ Seen(c, p)'
        BY DEF StartsInv, Seen
      <4> QED BY <4>1, <4>2, <4>3 DEF StartInv
    <3> QED BY <3>2 DEF StartWins, NoneBehind, Contains
  <2> QED BY <2>1, <2>2, <2>3
<1>5. CASE ~PastStop(d)
  <2>1. Begins(d) \/ Moves(d)
    BY <1>5, StepAt DEF Still, PastStop, Answer, TriggerAccepted
  <2>2. CASE Begins(d)
    <3>1. Members[d] = {}
      BY <2>2 DEF Begins, FirstPhase, OperationNames, PastStop
    <3> QED BY <3>1 DEF StopWins
  <2>3. CASE Moves(d)
    <3>1. Called(d) /\ op[d] = "stop" BY <1>2, <2>3 DEF Moves, Called, Racing
    <3>2. \A p \in Members[d] : ~Watched(d, p)'
      BY <1>5, <2>3, <3>1 DEF Moves, Learns
    <3> QED BY <3>2 DEF StopWins
  <2> QED BY <2>1, <2>2, <2>3
<1> QED BY <1>3, <1>4, <1>5

\* RaceInv is inductive.
THEOREM StepRaceInv ==
  Prompt /\ TypeOK /\ CallInv /\ RaceInv /\ [Next]_vars => RaceInv'
<1> SUFFICES ASSUME Prompt, TypeOK, CallInv, RaceInv, [Next]_vars PROVE RaceInv'
  OBVIOUS
<1>1. RaceStep /\ reachable' = reachable
  BY StepOfRace DEF RaceInv
<1>2. CountInv' /\ AnswersInv'
  BY <1>1, StepCountInv, StepAnswersInv DEF RaceInv
<1>3. ASSUME NEW c \in Controllers, NEW d \in Controllers, Once(c, d)' PROVE PairInv(c, d)'
  <2>1. StartsInv(c, d)' BY <1>1, <1>3, StepStartsInv
  <2> QED BY <1>1, <1>3, <2>1, StepSaidInv, StepPrevailInv, StepWinnerInv DEF PairInv
<1> QED BY <1>1, <1>2, <1>3 DEF RaceInv

\* A race begins before anybody has called.
LEMMA InitRaceInv == NobodyReady /\ Init => RaceInv
<1> SUFFICES ASSUME NobodyReady, Init PROVE RaceInv
  OBVIOUS
<1>1. \A c \in Controllers : ~Called(c) /\ ~PastReady(c) /\ pc[c] = "idle" /\ result[c] = "none"
  BY DEF Init, Called, PastReady
<1>2. ASSUME NEW c \in Controllers, NEW p \in Members[c]
      PROVE  StartInv(c, p) /\ ~Watched(c, p)
  <2>1. p \in Participants BY MembersAssumption
  <2>2. inbox[p] = <<>> /\ state[p] \notin {"FS_INITIALIZING", "FS_READY"}
    BY <2>1 DEF Init, NobodyReady
  <2>3. \A e : ~Contains(inbox[p], e) /\ AtMostOne(inbox[p], e)
    BY <2>2 DEF Contains, AtMostOne
  <2>4. ~Seen(c, p) BY <1>1 DEF Seen
  <2>5. ~Watched(c, p)
    BY <1>1, InitTypeOK, LookingCalled DEF Watched
  <2> QED BY <2>2, <2>3, <2>4, <2>5 DEF StartInv
<1>3. ASSUME NEW c \in Controllers, NEW d \in Controllers PROVE PairInv(c, d)
  <2>1. SaidInv(c, d) BY DEF SaidInv, Init
  <2> QED BY <1>1, <1>2, <2>1 DEF PairInv, PrevailInv, StartsInv, WinnerInv
<1>4. CountInv /\ AnswersInv
  BY <1>1 DEF CountInv, AnswersInv
<1> QED BY <1>3, <1>4 DEF RaceInv, Init

\* RaceInv holds in every run of a prompt system in which nobody is ready at the beginning.
THEOREM RaceInvariant == Prompt /\ NobodyReady => (Spec => []RaceInv)
<1> SUFFICES ASSUME Prompt, NobodyReady PROVE Spec => []RaceInv
  OBVIOUS
<1>1. Init => RaceInv
  BY InitRaceInv
<1>2. TypeOK /\ CallInv /\ RaceInv /\ [Next]_vars => RaceInv'
  BY StepRaceInv
<1> QED BY <1>1, <1>2, CallInvariant, PTL DEF Spec

\* When both calls have succeeded, one of them is right about everybody they share.
LEMMA RaceHasWinner == TypeOK /\ RaceInv => SuccessIsUniform
<1> SUFFICES ASSUME TypeOK, RaceInv, NEW c \in Controllers, NEW d \in Controllers,
                    c # d, calls = 2, pc[c] = "idle", result[c] = "ok",
                    pc[d] = "idle", result[d] = "ok"
             PROVE  \E e \in {c, d} : \A p \in Members[c] \cap Members[d] : state[p] = Awaited[op[e]]
  BY DEF SuccessIsUniform
<1>1. Called(c) /\ Called(d)
  BY DEF Called
<1>2. Once(c, d) /\ Once(d, c)
  BY <1>1 DEF Once, Made, RaceInv, CountInv
<1>3. PairInv(c, d) /\ PairInv(d, c)
  BY <1>2 DEF RaceInv
<1>4. \A p \in Members[c] \cap Members[d] : Watched(c, p) /\ Watched(d, p)
  BY DEF Watched, Looking, RaceInv, AnswersInv
<1>5. CASE Prevails(c, d)
  BY <1>3, <1>4, <1>5 DEF PairInv, PrevailInv
<1>6. CASE Prevails(d, c)
  BY <1>3, <1>4, <1>6 DEF PairInv, PrevailInv
<1>7. ASSUME NEW a \in {c, d}, NEW b \in {c, d}, Members[a] \cap Members[b] = Members[c] \cap Members[d],
             op[a] = "start", op[b] = "stop", PairInv(a, b)
      PROVE  \E e \in {c, d} : \A p \in Members[c] \cap Members[d] : state[p] = Awaited[op[e]]
  <2>1. Racing(a, b) /\ PastReady(a) /\ PastStop(b)
    BY <1>7 DEF Racing, PastReady, PastStop
  <2>2. CASE StopWins(a, b)
    BY <1>4, <1>7, <2>2 DEF StopWins, Awaited
  <2>3. CASE StartWins(a, b)
    BY <1>4, <1>7, <2>3 DEF StartWins, Awaited
  <2> QED BY <1>7, <2>1, <2>2, <2>3 DEF PairInv, WinnerInv
<1>8. CASE ~Prevails(c, d) /\ ~Prevails(d, c)
  <2>1. op[c] \in OperationNames /\ op[d] \in OperationNames
    BY DEF TypeOK
  <2>2. (op[c] = "start" /\ op[d] = "stop") \/ (op[d] = "start" /\ op[c] = "stop")
    BY <1>8, <2>1 DEF Prevails, OperationNames
  <2> QED BY <1>3, <1>7, <2>2
<1> QED BY <1>5, <1>6, <1>8

\* Two calls that raced each other and both succeeded do not leave a torn system.
THEOREM RaceHolds == Prompt /\ NobodyReady => (Spec => []SuccessIsUniform)
<1> SUFFICES ASSUME Prompt, NobodyReady PROVE Spec => []SuccessIsUniform
  OBVIOUS
<1>1. Spec => []RaceInv
  BY RaceInvariant
<1>2. TypeOK /\ RaceInv => SuccessIsUniform
  BY RaceHasWinner
<1> QED BY <1>1, <1>2, TypeCorrect, PTL
=============================================================================
