-------------------------- MODULE RegistryContract --------------------------
(***************************************************************************)
(* What objects of the class System promise about the participants they    *)
(* hold, in terms of values: a System is a name and a map from names to    *)
(* participants; a ParticipantProxy the client holds stands for a member   *)
(* of a System until that member is replaced or goes away.  There is no    *)
(* sharing in it: SystemRegistry, which has pointers, implements it.       *)
(***************************************************************************)
EXTENDS Naturals

CONSTANTS
  Systems,      \* variables of type System
  SystemNames,  \* their names
  Names,        \* names of participants
  Values,       \* what the setters of a proxy set: priorities, additional information
  Default,      \* ... and what a new proxy has
  None, Moved   \* no System, participant or proxy; a System that was moved from

VARIABLES
  content,  \* the value of each System
  bound,    \* the member the client's proxy stands for, as a set of at most one
  held      \* what the client reads from its proxy, or None

contractVars == <<content, bound, held>>

Participant == [name : Names, value : Values]
Members == [Names -> Participant \cup {None}]
Nobody == [n \in Names |-> None]

Valid(s) == content[s] \notin {None, Moved}
Change(s, members) == content' = [content EXCEPT ![s].members = members]
Unbind(slots) == bound' = bound \ slots

ContractInit ==
  /\ content = [s \in Systems |-> None]
  /\ bound = {} /\ held = None

\* Copies go by the names of the participants; of two with one name the last one counts.
ByName(members) ==
  [m \in Names |->
    LET keys == {n \in Names : members[n] # None /\ members[n].name = m}
    IN  IF keys = {} THEN None
        ELSE members[CHOOSE n \in keys : \A k \in keys : k <= n]]

Construct(s) ==
  /\ content[s] = None
  /\ \E name \in SystemNames :
       content' = [content EXCEPT ![s] = [name |-> name, members |-> Nobody]]
  /\ UNCHANGED <<bound, held>>

Copy(s, t) ==
  /\ content[s] = None /\ Valid(t)
  /\ content' = [content EXCEPT ![s] = [content[t] EXCEPT !.members = ByName(@)]]
  /\ UNCHANGED <<bound, held>>

\* The assigned System has the members of the other one with their values, no other System
\* changes, and a proxy does not stand for what was replaced.  It is left open which of its
\* own members it keeps beside them, and whose name it has.
Assign(s, t) ==
  /\ Valid(s) /\ Valid(t)
  /\ LET new == ByName(content[t].members)
     IN  \E name \in {content[s].name, content[t].name},
            kept \in SUBSET {m \in Names : new[m] = None} :
           /\ content' = [content EXCEPT ![s] =
                [name |-> name,
                 members |-> [m \in Names |-> IF m \in kept THEN content[s].members[m]
                                                            ELSE new[m]]]]
           /\ Unbind({s} \X (Names \ kept))
  /\ UNCHANGED held

\* Moving exchanges the two; a new System moves to with nothing of its own.
Move(s, t) ==
  /\ s # t /\ content[t] # None
  /\ content' = [content EXCEPT ![s] = content[t],
                                ![t] = IF content[s] = None THEN Moved ELSE content[s]]
  /\ bound' = {<<IF b[1] = t THEN s ELSE IF b[1] = s THEN t ELSE b[1], b[2]>> : b \in bound}
  /\ UNCHANGED held

Destroy(s) ==
  /\ content[s] # None
  /\ content' = [content EXCEPT ![s] = None]
  /\ Unbind({s} \X Names)
  /\ UNCHANGED held

Add(s, n) ==
  /\ Valid(s)
  /\ Change(s, [content[s].members EXCEPT ![n] = [name |-> n, value |-> Default]])
  /\ Unbind({<<s, n>>})
  /\ UNCHANGED held

Remove(s, N) ==
  /\ Valid(s)
  /\ Change(s, [n \in Names |-> IF n \in N THEN None ELSE content[s].members[n]])
  /\ Unbind({s} \X N)
  /\ UNCHANGED held

GetParticipant(s, n) ==
  /\ Valid(s) /\ content[s].members[n] # None
  /\ bound' = {<<s, n>>} /\ held' = content[s].members[n]
  /\ UNCHANGED content

Release == held # None /\ held' = None /\ bound' = {} /\ UNCHANGED content

\* A setter reaches the System as long as the proxy stands for a member of it.
SetValue(v) ==
  /\ held # None
  /\ held' = [held EXCEPT !.value = v]
  /\ content' = [s \in Systems |->
       IF \E n \in Names : <<s, n>> \in bound
         THEN [content[s] EXCEPT !.members =
                [n \in Names |-> IF <<s, n>> \in bound THEN held' ELSE @[n]]]
         ELSE content[s]]
  /\ UNCHANGED bound

\* copyValuesTo of the client's proxy, with the name.
CopyValues(s, n) ==
  /\ held # None /\ Valid(s) /\ content[s].members[n] # None
  /\ Change(s, [content[s].members EXCEPT ![n] = held])
  /\ UNCHANGED <<bound, held>>

Discover(s) ==
  /\ content[s] = None
  /\ \E name \in SystemNames, N \in SUBSET Names :
       content' = [content EXCEPT ![s] =
         [name |-> name,
          members |-> [n \in Names |-> IF n \in N THEN [name |-> n, value |-> Default]
                                                  ELSE None]]]
  /\ UNCHANGED <<bound, held>>

ContractNext ==
  \/ \E s \in Systems : Construct(s) \/ Destroy(s) \/ Discover(s)
  \/ \E s, t \in Systems : Copy(s, t) \/ Assign(s, t) \/ Move(s, t)
  \/ \E s \in Systems, n \in Names : Add(s, n) \/ GetParticipant(s, n) \/ CopyValues(s, n)
  \/ \E s \in Systems, N \in SUBSET Names : Remove(s, N)
  \/ Release
  \/ \E v \in Values : SetValue(v)

ContractSpec == ContractInit /\ [][ContractNext]_contractVars
=============================================================================
