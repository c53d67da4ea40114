--------------------------- MODULE ControlContract ---------------------------
(***************************************************************************)
(* What a control call of fep::System promises about the commands it       *)
(* sends, whatever the participants do (fep_system.h, start, stop and      *)
(* shutdown; participant_proxy.h, setInitPriority and setStartPriority):   *)
(*   - a round of commands begins when everybody has been sent the one     *)
(*     before, and within a round of start the commands go out in          *)
(*     descending priority (what fep_system.h says of the priorities in    *)
(*     stop is not kept, and is StopKeepsPriority of SystemControl);       *)
(*   - start sends no CE_Start once a CE_Initialize was refused;           *)
(*   - an exception never leaves a round half sent, and no refusal keeps   *)
(*     stop or shutdown from sending the commands that are left;           *)
(*   - the call returns normally only if every member of the system was    *)
(*     sent all commands of the call and none of them was refused.         *)
(***************************************************************************)
EXTENDS Integers

CONSTANTS Controllers, Participants, Members, InitPriority, StartPriority

VARIABLES
  call,      \* call[c]: the operation in progress, or "idle"
  sent,      \* sent[c][p]: commands of this call sent to p
  refused,   \* refused[c]: has a command of this call been refused?
  outcome    \* outcome[c]: how the last call ended

vars == <<call, sent, refused, outcome>>

OperationNames == {"start", "stop", "shutdown"}
Rounds(o) == IF o = "shutdown" THEN 1 ELSE 2
NoneSent == [p \in Participants |-> 0]

Priority(c, round, p) ==
  IF round = 0 THEN InitPriority[c][p] ELSE StartPriority[c][p]

SecondRoundBegan(c) == \E q \in Members[c] : sent[c][q] = 2

Init ==
  /\ call = [c \in Controllers |-> "idle"]
  /\ sent = [c \in Controllers |-> NoneSent]
  /\ refused = [c \in Controllers |-> FALSE]
  /\ outcome = [c \in Controllers |-> "none"]

Begin(c, o) ==
  /\ call[c] = "idle" /\ Members[c] # {}
  /\ call' = [call EXCEPT ![c] = o]
  /\ outcome' = [outcome EXCEPT ![c] = "none"]
  /\ UNCHANGED <<sent, refused>>

\* Controlling an empty system is a successful no-op.
NothingToDo(c) ==
  /\ call[c] = "idle" /\ Members[c] = {}
  /\ outcome' = [outcome EXCEPT ![c] = "ok"]
  /\ UNCHANGED <<call, sent, refused>>

\* Somebody is sent the next command of the call.  Only of start it is said in which order:
\* of the priorities that fep_system.h mentions for stop and shutdown, too, the code knows
\* nothing, and the contract leaves their order open.
Send(c, p) ==
  /\ call[c] # "idle" /\ sent[c][p] < Rounds(call[c])
  /\ sent' = [sent EXCEPT ![c][p] = @ + 1]
  /\ \A q \in Members[c] :
       /\ sent[c][p] <= sent[c][q]
       /\ call[c] = "start" /\ sent[c][q] = sent[c][p] =>
            Priority(c, sent[c][p], q) <= Priority(c, sent[c][p], p)
  /\ call[c] = "start" /\ sent[c][p] = 1 => ~refused[c] \/ SecondRoundBegan(c)
  /\ \E refusal \in BOOLEAN : refused' = [refused EXCEPT ![c] = @ \/ refusal]
  /\ UNCHANGED <<call, outcome>>

Finish(c, how) ==
  /\ call' = [call EXCEPT ![c] = "idle"]
  /\ sent' = [sent EXCEPT ![c] = NoneSent]
  /\ refused' = [refused EXCEPT ![c] = FALSE]
  /\ outcome' = [outcome EXCEPT ![c] = how]

Succeed(c) ==
  /\ call[c] # "idle" /\ ~refused[c]
  /\ \A p \in Members[c] : sent[c][p] = Rounds(call[c])
  /\ Finish(c, "ok")

Throw(c) ==
  /\ call[c] # "idle"
  /\ \A p, q \in Members[c] : sent[c][p] = sent[c][q]
  /\ call[c] # "start" => \A p \in Members[c] : sent[c][p] = Rounds(call[c])
  /\ Finish(c, "threw")

Next ==
  \E c \in Controllers :
    \/ \E o \in OperationNames : Begin(c, o)
    \/ NothingToDo(c)
    \/ \E p \in Members[c] : Send(c, p)
    \/ Succeed(c) \/ Throw(c)

Spec == Init /\ [][Next]_vars
=============================================================================
