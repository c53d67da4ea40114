--------------------------- MODULE MCSystemControl ---------------------------
(* Instances of SystemControl for TLC.  The .cfg files choose among these.  *)
EXTENDS SystemControl, TLC

CONSTANTS c1, c2

TwoParticipants == 1..2
ThreeParticipants == 1..3

\* c1 controls everybody; c2 controls nobody or shares them all.
AllAndNone == [c \in Controllers |-> IF c = c1 THEN Participants ELSE {}]
AllAndAll  == [c \in Controllers |-> Participants]

\* Priorities against the order of the names for one phase, ties in the other.
NegativePriority == [c \in Controllers |-> [p \in Participants |-> p - 2]]
TiedPriority     == [c \in Controllers |-> [p \in Participants |-> IF p = 1 THEN 0 ELSE -1]]

\* Three priorities, of which the order of the names is neither one nor the other.
MixedPriority == [c \in Controllers |-> [p \in Participants |-> <<1, 0, 2>>[p]]]

\* Sound where the controllers have the same members and priorities.
SameControllers == Permutations(Controllers)

Nobody == {}
Last == {CHOOSE p \in Participants : \A q \in Participants : q <= p}
=============================================================================
