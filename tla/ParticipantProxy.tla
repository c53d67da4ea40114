-------------------------- MODULE ParticipantProxy --------------------------
(***************************************************************************)
(* A ParticipantProxy (private_participant_proxy.h): the connection to the *)
(* participant info that add() makes and caches in _info, and the search   *)
(* for the RPC component that supports an interface, with the fallback to  *)
(* the legacy proxies of FEP 2.                                            *)
(*                                                                         *)
(* Every call over the service bus is a step; between two of them the      *)
(* participant behind the name may go away and come back, with another     *)
(* version too.  The bus is not part of this code: a participant answers   *)
(* through the info services it has, or a fault of the bus swallows it.    *)
(***************************************************************************)
EXTENDS Naturals

CONSTANTS
  Components,   \* names of RPC components
  Interfaces,   \* interfaces asked for
  Profiles,     \* participants: version (in tenths), info services, offered interfaces
  MaxCalls,     \* bound on add and getRPCComponentProxy
  MaxRestarts,  \* bound on participants that start or go away
  MaxFaults     \* bound on faults of the bus

ParticipantInfo == "participant_info"
LegacyInterfaces == {"state_machine", "data_registry", "configuration"}
Infos == {"old", "new"}    \* ParticipantInfoProxyOldSql, ParticipantInfoProxy

ASSUME ProfilesAssumption ==
  /\ Profiles \subseteq [version : Nat, info : SUBSET Infos,
                         offers : [Components -> SUBSET Interfaces]]
  /\ ParticipantInfo \notin Interfaces
ASSUME ProxyBounds == MaxCalls \in Nat /\ MaxRestarts \in Nat /\ MaxFaults \in Nat

VARIABLES
  peer,      \* the participant that runs under the name, or Absent
  info,      \* _info: the cached connection, or Null
  pc,        \* where the running call is
  iid,       \* the interface it looks for
  forced,    \* is it a lookup of "force_old_ai"?
  version,   \* the version it was told
  use,       \* use_info of getComponentNameWhichSupports
  todo,      \* components it has not asked yet
  result,    \* what the last call gave
  seen,      \* whom the running, or the last, call could meet (history)
  calls, restarts, faults   \* counters of the bounds

proxyVars == <<info, pc, iid, forced, version, use, todo, result>>
vars == <<peer, proxyVars, seen, calls, restarts, faults>>

Absent == [version |-> 0, info |-> {}, offers |-> [c \in Components |-> {}]]
Null == "null"
InfoFor(v) == IF v < 30 THEN "old" ELSE "new"
Offered(q) == UNION {q.offers[c] : c \in Components}

Init ==
  /\ peer \in Profiles \cup {Absent}
  /\ info = Null /\ use = Null
  /\ pc = "connect"
  /\ iid = ParticipantInfo /\ forced = FALSE /\ version = 0
  /\ todo = {} /\ result = "none"
  /\ seen = {peer}
  /\ calls = 0 /\ restarts = 0 /\ faults = 0

Finish(res) == pc' = "idle" /\ result' = res /\ todo' = {}

Fault == faults < MaxFaults /\ faults' = faults + 1

\* A call of the AutomationInterface, like GetParticipantFEPVersion, is answered, or it times
\* out or fails.
CallAnswers == peer # Absent /\ UNCHANGED faults
CallFails == (peer = Absent /\ UNCHANGED faults) \/ Fault

\* An RPC through an info service answers, or it fails.
Answers(i) == i \in peer.info /\ UNCHANGED faults
Silent(i) == (i \notin peer.info /\ UNCHANGED faults) \/ Fault

-----------------------------------------------------------------------------
(* add() makes a new proxy, which connects and keeps what it got.           *)

Begin ==
  /\ pc = "idle" /\ calls < MaxCalls /\ calls' = calls + 1
  /\ result' = "none" /\ seen' = {peer}
  /\ UNCHANGED <<peer, version, todo, restarts, faults>>

Add ==
  /\ Begin
  /\ pc' = "connect"
  /\ info' = Null /\ use' = Null
  /\ UNCHANGED <<iid, forced>>

\* connect() swallows the exception of an unreachable participant.
Connect ==
  /\ pc = "connect"
  /\ \/ CallAnswers /\ info' = InfoFor(peer.version)
     \/ CallFails /\ UNCHANGED info
  /\ Finish("none")
  /\ UNCHANGED <<peer, iid, forced, version, use, seen, calls, restarts>>

-----------------------------------------------------------------------------
(* getRPCComponentProxy, getRPCComponentProxyByIID.                         *)

Lookup(i, old) ==
  /\ Begin
  /\ pc' = "version"
  /\ iid' = i /\ forced' = old
  /\ UNCHANGED <<info, use>>

\* "Participant was not reachable", "Can't determine the version": the call throws,
\* also when the missing connection is made in the middle of it.
Unreachable ==
  /\ pc \in {"version", "reconnect"}
  /\ CallFails
  /\ Finish("threw")
  /\ UNCHANGED <<peer, info, iid, forced, version, use, seen, calls, restarts>>

\* The proxy of the participant info needs no search.
GetInfo ==
  /\ pc = "version" /\ iid = ParticipantInfo
  /\ CallAnswers
  /\ version' = peer.version
  /\ Finish(InfoFor(peer.version))
  /\ UNCHANGED <<peer, info, iid, forced, use, seen, calls, restarts>>

Search ==
  /\ pc = "version" /\ iid # ParticipantInfo
  /\ CallAnswers
  /\ version' = peer.version
  /\ use' = info
  /\ pc' = IF info = Null THEN "reconnect" ELSE "list"
  /\ UNCHANGED <<peer, info, iid, forced, todo, result, seen, calls, restarts>>

\* getConnection for this one search: _info stays as it is.
Reconnect ==
  /\ pc = "reconnect"
  /\ CallAnswers
  /\ use' = InfoFor(peer.version)
  /\ pc' = "list"
  /\ UNCHANGED <<peer, info, iid, forced, version, todo, result, seen, calls, restarts>>

\* What the search comes to: the new interface, the legacy one or nothing.  "patched" is the
\* configuration proxy that reads the timing property over the AutomationInterface.
Outcome(found) ==
  CASE iid \notin LegacyInterfaces                   -> "false"
    [] (forced \/ ~found) /\ version < 30            -> "old"
    [] (forced \/ ~found) /\ version >= 30           -> "false"
    [] OTHER -> IF iid = "configuration" /\ version < 26 THEN "patched" ELSE "new"

\* MUTANT: a legacy info service that does not answer has no components.
ListComponents_Swallows ==
  /\ pc = "list"
  /\ \/ /\ Answers(use)
        /\ todo' = {c \in Components : peer.offers[c] # {}}
     \/ Silent(use) /\ todo' = {}
  /\ pc' = "iids"
  /\ UNCHANGED <<peer, info, iid, forced, version, use, result, seen, calls, restarts>>

\* getRPCComponents: the new proxy swallows errors, the legacy one throws.
ListComponents ==
  /\ pc = "list"
  /\ \/ /\ Answers(use)
        /\ todo' = {c \in Components : peer.offers[c] # {}}
        /\ pc' = "iids" /\ UNCHANGED result
     \/ /\ Silent(use) /\ use = "new"
        /\ todo' = {}
        /\ pc' = "iids" /\ UNCHANGED result
     \/ /\ Silent(use) /\ use = "old"
        /\ Finish("threw")
  /\ UNCHANGED <<peer, info, iid, forced, version, use, seen, calls, restarts>>

\* getRPCComponentIIDs of the next component, through _info.
AskComponent(c) ==
  /\ pc = "iids" /\ c \in todo /\ info # Null
  /\ \/ /\ Answers(info) /\ iid \in peer.offers[c]
        /\ Finish(Outcome(TRUE))
     \/ /\ \/ Answers(info) /\ iid \notin peer.offers[c]
           \/ Silent(info) /\ info = "new"
        /\ todo' = todo \ {c}
        /\ UNCHANGED <<pc, result>>
     \/ /\ Silent(info) /\ info = "old"
        /\ Finish("threw")
  /\ UNCHANGED <<peer, info, iid, forced, version, use, seen, calls, restarts>>

\* _info was never connected: the null pointer is dereferenced.
NullDereference(c) ==
  /\ pc = "iids" /\ c \in todo /\ info = Null
  /\ pc' = "crashed"
  /\ UNCHANGED <<peer, info, iid, forced, version, use, todo, result, seen, calls, restarts,
                 faults>>

NobodySupports ==
  /\ pc = "iids" /\ todo = {}
  /\ Finish(Outcome(FALSE))
  /\ UNCHANGED <<peer, info, iid, forced, version, use, seen, calls, restarts, faults>>

ProxyStep ==
  \/ Connect \/ Unreachable \/ GetInfo \/ Search \/ Reconnect \/ ListComponents
  \/ \E c \in Components : AskComponent(c) \/ NullDereference(c)
  \/ NobodySupports

-----------------------------------------------------------------------------
(* The participant starts, possibly in another version, or goes away.       *)

PeerChanges ==
  /\ restarts < MaxRestarts /\ restarts' = restarts + 1
  /\ IF peer = Absent THEN peer' \in Profiles ELSE peer' = Absent
  /\ seen' = IF pc = "idle" THEN seen ELSE seen \cup {peer'}
  /\ UNCHANGED <<proxyVars, calls, faults>>

Next ==
  \/ Add
  \/ \E i \in Interfaces \cup {ParticipantInfo}, old \in BOOLEAN : Lookup(i, old)
  \/ ProxyStep
  \/ PeerChanges

Spec == Init /\ [][Next]_vars

-----------------------------------------------------------------------------
(* Properties.                                                              *)

\* Every variable has its type.
TypeOK ==
  /\ peer \in Profiles \cup {Absent}
  /\ info \in Infos \cup {Null} /\ use \in Infos \cup {Null}
  /\ pc \in {"idle", "connect", "version", "reconnect", "list", "iids", "crashed"}
  /\ iid \in Interfaces \cup {ParticipantInfo}
  /\ forced \in BOOLEAN /\ version \in Nat
  /\ todo \subseteq Components
  /\ result \in {"none", "threw", "false", "old", "new", "patched"}
  /\ seen \subseteq Profiles \cup {Absent}
  /\ calls \in 0..MaxCalls /\ restarts \in 0..MaxRestarts /\ faults \in 0..MaxFaults

Searched == iid \in LegacyInterfaces /\ ~forced
Missing == \E q \in seen : iid \notin Offered(q)

\* A proxy for a new interface is given out only if a participant met during the call
\* offered it; a proxy connected to a FEP 2 participant falls back to the legacy
\* interface only if the interface was missing: an RPC that got lost is an exception,
\* never a reason to talk to the participant in the old way.
AnswerIsJustified ==
  /\ result \in {"new", "patched"} /\ Searched => \E q \in seen : iid \in Offered(q)
  /\ result = "old" /\ Searched /\ info = "old" => Missing

\* getRPCComponentProxy answers true, answers false or throws (participant_proxy.h): it
\* does not use a connection it does not have.
NoNullDereference == pc # "crashed"
=============================================================================
