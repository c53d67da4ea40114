----------------------- MODULE ParticipantProxy_proofs -----------------------
(***************************************************************************)
(* Proofs about ParticipantProxy, for any participants, components and     *)
(* interfaces, and all bounds: a lookup answers what a participant it met  *)
(* justifies.                                                              *)
(***************************************************************************)
EXTENDS ParticipantProxy, TLAPS

-----------------------------------------------------------------------------
(* The inductive invariant.                                                 *)

\* A running lookup has no result yet, and has met whoever is there; a participant that was
\* exchanged under it was away in between.
RunningInv ==
  pc # "idle" => /\ result = "none" /\ peer \in seen
                 /\ seen = {peer} \/ Absent \in seen

\* A search asks for the components over the connection it asks them over, if there is one.
ConnectionInv ==
  /\ pc \in {"list", "iids"} /\ info # Null => use = info
  /\ pc = "reconnect" => info = Null

\* Over a legacy connection a search overlooks nothing: components that offer the interface
\* are still to be asked, if the same participant answered all the time.
SearchInv ==
  pc = "iids" /\ info = "old" /\ seen = {peer} =>
    \A c \in Components : iid \in peer.offers[c] => c \in todo

LookupInv == TypeOK /\ RunningInv /\ ConnectionInv /\ SearchInv /\ AnswerIsJustified

-----------------------------------------------------------------------------
(* Participants.                                                            *)

\* A participant that is away offers nothing, the others have a version, info services and
\* components.
LEMMA Participants ==
  /\ Offered(Absent) = {}
  /\ \A q \in Profiles \cup {Absent} :
       /\ q.version \in Nat /\ q.info \subseteq Infos
       /\ \A c \in Components : q.offers[c] \subseteq Offered(q)
       /\ \A i \in Offered(q) : \E c \in Components : i \in q.offers[c]
<1>1. Offered(Absent) = {}
  BY DEF Offered, Absent
<1>2. ASSUME NEW q \in Profiles \cup {Absent}
      PROVE  q.version \in Nat /\ q.info \subseteq Infos
  BY ProfilesAssumption DEF Absent
<1>3. ASSUME NEW q
      PROVE  /\ \A c \in Components : q.offers[c] \subseteq Offered(q)
             /\ \A i \in Offered(q) : \E c \in Components : i \in q.offers[c]
  BY DEF Offered
<1> QED BY <1>1, <1>2, <1>3

\* The info service asked for goes by the version.
LEMMA InfoForIs == \A v \in Nat : InfoFor(v) \in Infos /\ InfoFor(v) # Null
BY DEF InfoFor, Infos, Null

\* What a search comes to: the new interface only if it was found, the legacy one only if not.
LEMMA OutcomeIs ==
  ASSUME NEW found \in BOOLEAN, version \in Nat
  PROVE  /\ Outcome(found) \in {"false", "old", "new", "patched"}
         /\ Searched /\ Outcome(found) \in {"new", "patched"} => found
         /\ Searched /\ Outcome(found) = "old" => ~found
<1>1. CASE iid \notin LegacyInterfaces
  BY <1>1 DEF Outcome, Searched
<1>2. CASE iid \in LegacyInterfaces /\ (forced \/ ~found) /\ version < 30
  BY <1>2 DEF Outcome, Searched
<1>3. CASE iid \in LegacyInterfaces /\ (forced \/ ~found) /\ version >= 30
  BY <1>3 DEF Outcome, Searched
<1>4. CASE iid \in LegacyInterfaces /\ ~forced /\ found
  <2>1. Outcome(found) = IF iid = "configuration" /\ version < 26 THEN "patched" ELSE "new"
    BY <1>4 DEF Outcome
  <2> QED BY <1>4, <2>1
<1>5. version < 30 \/ version >= 30
  OBVIOUS
<1> QED BY <1>1, <1>2, <1>3, <1>4, <1>5

-----------------------------------------------------------------------------
(* The steps.                                                               *)

\* A fault counts.
LEMMA FaultsCount ==
  ASSUME TypeOK, UNCHANGED faults \/ Fault
  PROVE  faults' \in 0..MaxFaults
BY ProxyBounds DEF TypeOK, Fault

\* Every step leaves every variable in its type.
LEMMA TypeStep ==
  ASSUME TypeOK, Next
  PROVE  TypeOK'
<1> USE DEF TypeOK
<1>1. ASSUME Begin
      PROVE  calls' \in 0..MaxCalls /\ seen' \subseteq Profiles \cup {Absent}
  BY <1>1, ProxyBounds DEF Begin
<1>2. CASE Add
  BY <1>1, <1>2 DEF Add, Begin
<1>3. CASE \E i \in Interfaces \cup {ParticipantInfo}, old \in BOOLEAN : Lookup(i, old)
  BY <1>1, <1>3 DEF Lookup, Begin
<1>4. ASSUME ProxyStep PROVE faults' \in 0..MaxFaults
  <2>1. UNCHANGED faults \/ Fault
    BY <1>4 DEF ProxyStep, Connect, Unreachable, GetInfo, Search, Reconnect, ListComponents,
       AskComponent, NullDereference, NobodySupports, CallAnswers, CallFails, Answers, Silent
  <2> QED BY <2>1, FaultsCount
<1>5. InfoFor(peer.version) \in Infos /\ peer.version \in Nat
  BY Participants, InfoForIs
<1>6. CASE Connect
  BY <1>4, <1>5, <1>6 DEF Connect, Finish, ProxyStep
<1>7. CASE Unreachable
  BY <1>4, <1>7 DEF Unreachable, Finish, ProxyStep
<1>8. CASE GetInfo
  BY <1>4, <1>5, <1>8 DEF GetInfo, Finish, ProxyStep, Infos
<1>9. CASE Search
  BY <1>4, <1>5, <1>9 DEF Search, ProxyStep
<1>10. CASE Reconnect
  BY <1>4, <1>5, <1>10 DEF Reconnect, ProxyStep
<1>11. CASE ListComponents
  BY <1>4, <1>11 DEF ListComponents, Finish, ProxyStep
<1>12. ASSUME NEW c \in Components, AskComponent(c) PROVE TypeOK'
  BY <1>4, <1>12, OutcomeIs DEF AskComponent, Finish, ProxyStep
<1>13. ASSUME NEW c \in Components, NullDereference(c) PROVE TypeOK'
  BY <1>13 DEF NullDereference
<1>14. CASE NobodySupports
  BY <1>14, OutcomeIs DEF NobodySupports, Finish
<1>15. CASE PeerChanges
  BY <1>15, ProxyBounds DEF PeerChanges, proxyVars
<1> QED BY <1>2, <1>3, <1>6, <1>7, <1>8, <1>9, <1>10, <1>11, <1>12, <1>13, <1>14, <1>15
        DEF Next, ProxyStep

\* A call that begins has met whoever is there, and has no result.
LEMMA BeginStep ==
  ASSUME TypeOK, Begin, pc' \in {"connect", "version"}
  PROVE  RunningInv' /\ ConnectionInv' /\ SearchInv' /\ AnswerIsJustified'
BY DEF Begin, RunningInv, ConnectionInv, SearchInv, AnswerIsJustified

\* An end of a call that gives no interface, or the participant info, needs no reason.
LEMMA FinishStep ==
  ASSUME LookupInv, NEW res, Finish(res),
         res \in {"none", "threw", "false"} \/ ~Searched',
         UNCHANGED <<iid, forced>>
  PROVE  RunningInv' /\ ConnectionInv' /\ SearchInv' /\ AnswerIsJustified'
BY DEF Finish, RunningInv, ConnectionInv, SearchInv, AnswerIsJustified, Searched

\* The steps that lead to the search.
LEMMA ApproachStep ==
  ASSUME LookupInv, Connect \/ Unreachable \/ GetInfo \/ Search \/ Reconnect
  PROVE  RunningInv' /\ ConnectionInv' /\ SearchInv' /\ AnswerIsJustified'
<1>1. CASE Connect
  <2>1. Finish("none") /\ UNCHANGED <<iid, forced>>
    BY <1>1 DEF Connect
  <2> QED BY <2>1, FinishStep
<1>2. CASE Unreachable
  <2>1. Finish("threw") /\ UNCHANGED <<iid, forced>>
    BY <1>2 DEF Unreachable
  <2> QED BY <2>1, FinishStep
<1>3. CASE GetInfo
  <2>1. Finish(InfoFor(peer.version)) /\ UNCHANGED <<iid, forced>> /\ ~Searched'
    BY <1>3 DEF GetInfo, Searched, ParticipantInfo, LegacyInterfaces
  <2> QED BY <2>1, FinishStep
<1>4. CASE Search \/ Reconnect
  <2>1. /\ pc \in {"version", "reconnect"} /\ pc' \in {"reconnect", "list"}
        /\ UNCHANGED <<peer, info, iid, forced, result, seen>>
    BY <1>4 DEF Search, Reconnect
  <2>2. ConnectionInv'
    BY <1>4 DEF Search, Reconnect, ConnectionInv, LookupInv, TypeOK
  <2> QED BY <2>1, <2>2 DEF LookupInv, RunningInv, SearchInv, AnswerIsJustified, Searched, Missing
<1> QED BY <1>1, <1>2, <1>3, <1>4

\* The search itself.
LEMMA SearchStep ==
  ASSUME LookupInv,
         ListComponents \/ NobodySupports
           \/ \E c \in Components : AskComponent(c) \/ NullDereference(c)
  PROVE  RunningInv' /\ ConnectionInv' /\ SearchInv' /\ AnswerIsJustified'
<1>1. /\ peer \in seen /\ (seen = {peer} \/ Absent \in seen) /\ result = "none"
      /\ info # Null => use = info
      /\ UNCHANGED <<peer, info, iid, forced, version, use, seen>>
      /\ version \in Nat /\ peer \in Profiles \cup {Absent}
      /\ info \in Infos \cup {Null}
  BY DEF LookupInv, TypeOK, RunningInv, ConnectionInv, ListComponents, NobodySupports, AskComponent,
         NullDereference
<1>2. CASE ListComponents
  <2>1. CASE result' = "threw"
    <3>1. Finish("threw")
      BY <1>1, <1>2, <2>1 DEF ListComponents, Finish
    <3> QED BY <1>1, <3>1, FinishStep
  <2>2. CASE result' # "threw"
    <3>1. /\ pc' = "iids" /\ UNCHANGED result
          /\ use = "new" \/ todo' = {c \in Components : peer.offers[c] # {}}
      BY <1>2, <2>2 DEF ListComponents, Finish
    <3>2. SearchInv'
      BY <1>1, <3>1 DEF SearchInv, Null, Infos
    <3> QED BY <1>1, <3>1, <3>2 DEF RunningInv, ConnectionInv, AnswerIsJustified
  <2> QED BY <2>1, <2>2
<1>3. ASSUME NEW c \in Components, AskComponent(c)
      PROVE  RunningInv' /\ ConnectionInv' /\ SearchInv' /\ AnswerIsJustified'
  <2>1. pc = "iids" /\ info # Null
    BY <1>3 DEF AskComponent
  <2>2. CASE Finish("threw")
    BY <1>1, <2>2, FinishStep
  <2>3. CASE iid \in peer.offers[c] /\ Finish(Outcome(TRUE))
    <3>1. iid \in Offered(peer)
      BY <1>1, <2>3, Participants
    <3>2. result' = Outcome(TRUE) /\ pc' = "idle"
      BY <2>3 DEF Finish
    <3>3. Searched => Outcome(TRUE) # "old"
      BY <1>1, OutcomeIs
    <3>4. AnswerIsJustified'
      BY <1>1, <3>1, <3>2, <3>3 DEF AnswerIsJustified, Searched, Offered
    <3> QED BY <3>2, <3>4 DEF RunningInv, ConnectionInv, SearchInv
  <2>4. CASE /\ (Answers(info) /\ iid \notin peer.offers[c]) \/ info = "new"
             /\ todo' = todo \ {c} /\ UNCHANGED <<pc, result>>
    <3>1. SearchInv'
      BY <1>1, <2>1, <2>4 DEF LookupInv, SearchInv
    <3> QED BY <1>1, <2>1, <2>4, <3>1 DEF RunningInv, ConnectionInv, AnswerIsJustified
  <2> QED BY <1>3, <2>2, <2>3, <2>4 DEF AskComponent
<1>4. ASSUME NEW c \in Components, NullDereference(c)
      PROVE  RunningInv' /\ ConnectionInv' /\ SearchInv' /\ AnswerIsJustified'
  BY <1>1, <1>4 DEF NullDereference, RunningInv, ConnectionInv, SearchInv, AnswerIsJustified
<1>5. CASE NobodySupports
  <2>1. pc = "iids" /\ todo = {} /\ result' = Outcome(FALSE) /\ pc' = "idle"
    BY <1>5 DEF NobodySupports, Finish
  <2>2. Searched => Outcome(FALSE) \notin {"new", "patched"}
    BY <1>1, OutcomeIs
  <2>3. ASSUME info = "old" PROVE \E q \in seen : iid \notin Offered(q)
    <3>1. CASE Absent \in seen
      BY <3>1, Participants
    <3>2. CASE seen = {peer}
      <4>1. \A c \in Components : iid \notin peer.offers[c]
        BY <2>1, <2>3, <3>2 DEF LookupInv, SearchInv
      <4>2. iid \notin Offered(peer)
        BY <1>1, <4>1, Participants
      <4> QED BY <1>1, <4>2
    <3> QED BY <1>1, <3>1, <3>2
  <2>4. AnswerIsJustified'
    BY <1>1, <2>1, <2>2, <2>3 DEF AnswerIsJustified, Searched, Missing, Offered
  <2> QED BY <2>1, <2>4 DEF RunningInv, ConnectionInv, SearchInv
<1> QED BY <1>2, <1>3, <1>4, <1>5

\* A participant that comes or goes while a lookup runs has been met, and an exchange of
\* participants leaves a gap.
LEMMA PeerStep ==
  ASSUME LookupInv, PeerChanges
  PROVE  RunningInv' /\ ConnectionInv' /\ SearchInv' /\ AnswerIsJustified'
<1>1. UNCHANGED <<info, pc, iid, forced, use, todo, result>>
  BY DEF PeerChanges, proxyVars
<1>2. CASE pc = "idle"
  <2>1. seen' = seen
    BY <1>2 DEF PeerChanges
  <2> QED BY <1>1, <1>2, <2>1
          DEF LookupInv, RunningInv, ConnectionInv, SearchInv, AnswerIsJustified, Searched, Missing
<1>3. CASE pc # "idle"
  <2>1. seen' = seen \cup {peer'} /\ Absent \in seen'
    <3>1. seen' = seen \cup {peer'} /\ peer \in seen /\ (peer = Absent \/ peer' = Absent)
      BY <1>3 DEF PeerChanges, LookupInv, RunningInv
    <3> QED BY <3>1
  <2>2. SearchInv'
    <3>1. ASSUME seen' = {peer'} PROVE peer' = Absent
      BY <2>1, <3>1
    <3>2. \A c \in Components : Absent.offers[c] = {}
      BY DEF Absent
    <3> QED BY <3>1, <3>2 DEF SearchInv
  <2> QED BY <1>1, <1>3, <2>1, <2>2 DEF LookupInv, RunningInv, ConnectionInv, AnswerIsJustified
<1> QED BY <1>2, <1>3

\* At first a proxy is made.
THEOREM InitLookupInv == Init => LookupInv
<1> SUFFICES ASSUME Init PROVE LookupInv
  OBVIOUS
<1>1. TypeOK
  <2>1. peer \in Profiles \cup {Absent} /\ seen \subseteq Profiles \cup {Absent}
    BY DEF Init
  <2>2. 0 \in 0..MaxCalls /\ 0 \in 0..MaxRestarts /\ 0 \in 0..MaxFaults
    BY ProxyBounds
  <2> QED BY <2>1, <2>2 DEF Init, TypeOK
<1>2. RunningInv /\ ConnectionInv /\ SearchInv /\ AnswerIsJustified
  BY DEF Init, RunningInv, ConnectionInv, SearchInv, AnswerIsJustified
<1> QED BY <1>1, <1>2 DEF LookupInv

\* Every step of the lookup and of the participant keeps the invariant.
THEOREM StepLookupInv == LookupInv /\ [Next]_vars => LookupInv'
<1> SUFFICES ASSUME LookupInv, [Next]_vars PROVE LookupInv'
  OBVIOUS
<1>1. ASSUME Next PROVE RunningInv' /\ ConnectionInv' /\ SearchInv' /\ AnswerIsJustified'
  <2>1. CASE Add \/ \E i \in Interfaces \cup {ParticipantInfo}, old \in BOOLEAN : Lookup(i, old)
    <3>1. Begin /\ pc' \in {"connect", "version"}
      BY <2>1 DEF Add, Lookup
    <3> QED BY <3>1, BeginStep DEF LookupInv
  <2>2. CASE ProxyStep
    BY <2>2, ApproachStep, SearchStep DEF ProxyStep
  <2>3. CASE PeerChanges
    BY <2>3, PeerStep
  <2> QED BY <1>1, <2>1, <2>2, <2>3 DEF Next
<1>2. ASSUME Next PROVE TypeOK'
  BY <1>2, TypeStep DEF LookupInv
<1>3. CASE UNCHANGED vars
  BY <1>3 DEF vars, proxyVars, LookupInv, TypeOK, RunningInv, ConnectionInv, SearchInv,
     AnswerIsJustified, Searched, Missing
<1> QED BY <1>1, <1>2, <1>3 DEF LookupInv

\* Also without a client that operates a state machine: every variable has its type, and
\* every answer its reason.
THEOREM LookupIsJustified == Spec => [](TypeOK /\ AnswerIsJustified)
<1>1. LookupInv => TypeOK /\ AnswerIsJustified
  BY DEF LookupInv
<1> QED BY <1>1, InitLookupInv, StepLookupInv, PTL DEF Spec
=============================================================================
