------------------------- MODULE ConfigurationProxy -------------------------
(***************************************************************************)
(* The configuration of participants over the service bus                  *)
(* (configuration_proxy.h): what setProperty and copy_to of the two kinds  *)
(* of proxy do with the property tree of a participant.  "new" is          *)
(* ConfigurationProxy, "old" ConfigurationProxyOldSql; "patched" is the    *)
(* new one for participants below FEP 2.6, which sets the configuration    *)
(* file of the timing client over the AutomationInterface.                 *)
(*                                                                         *)
(* Participants go away, come back with the tree they start with, and are  *)
(* configured by others.  Messages get lost; a participant that goes away  *)
(* during a call is a lost message and GoesAway.                           *)
(***************************************************************************)
EXTENDS Naturals, FiniteSetsExt

CONSTANTS
  Participants,  \* numbered in the order of std::map
  Kind,          \* the proxy a lookup gives: "old", "patched" or "new"
  StartTree,     \* the properties each participant starts with
  Node,          \* the properties that are copied
  OtherPairs,    \* what others set, at Node or as the timing configuration
  Missing,       \* no property
  None,          \* an empty string
  MaxCalls,      \* bound on the calls of this process
  MaxTroubles    \* bound on lost messages, refusals and changes in the field

ASSUME ConfigurationAssumption ==
  /\ Participants \subseteq Nat /\ 0 \notin Participants
  /\ \A p \in Participants : Kind[p] \in {"old", "patched", "new"} /\ Node \subseteq DOMAIN StartTree[p]
  /\ DOMAIN StartTree = Participants
  /\ MaxCalls \in Nat /\ MaxTroubles \in Nat

Props == UNION {DOMAIN StartTree[p] : p \in Participants}
TimingConfig == "timing_config"   \* ComponentConfig/Timing/TimingClient/strTimingConfig

\* A tree says of every property whether the participant has it, and has pairs only.
ASSUME TreeAssumption ==
  /\ \A p \in Participants :
       /\ DOMAIN StartTree[p] = Props
       /\ \A n \in Props : StartTree[p][n] # Missing => DOMAIN StartTree[p][n] = {"type", "value"}
  /\ \A pair \in OtherPairs : DOMAIN pair = {"type", "value"}

VARIABLES
  up,         \* participants that run
  tree,       \* type and value of each property of each participant
  disturbed,  \* participants that went away or were configured by others (history)
  reading,    \* where a copy_to is
  peer, via,  \* whom and through which proxy it reads
  names,      \* properties still to be read
  value,      \* the value read, while its type is not
  copy,       \* what it has read
  seen,       \* what the properties have been during the copy (history)
  calls, troubles

readerVars == <<reading, peer, via, names, value, copy>>
field == <<up, tree, disturbed, seen>>

Trouble == troubles < MaxTroubles /\ troubles' = troubles + 1

\* The participant answers a read of a missing property with empty strings.
Blank == [type |-> None, value |-> None]
AsRead(pair) == IF pair = Missing THEN Blank ELSE pair

Becomes(p, node) ==
  /\ tree' = [tree EXCEPT ![p] = node]
  /\ seen' = IF p # peer THEN seen ELSE [n \in Node |-> seen[n] \cup {AsRead(node[n])}]

ProxyInit ==
  /\ up = Participants /\ tree = StartTree /\ disturbed = {}
  /\ reading = "idle" /\ peer = 0 /\ via = "new" /\ names = {} /\ value = None /\ copy = <<>>
  /\ seen = [n \in Node |-> {}]
  /\ calls = 0 /\ troubles = 0

Call == calls < MaxCalls /\ calls' = calls + 1

-----------------------------------------------------------------------------
(* setProperty, with the lookup of the proxy and getProperties("/") before  *)
(* it: what the caller gets, "null" for a proxy that was not found, and the *)
(* tree it leaves.                                                          *)

Did(results, trees) == [result : results, node : trees]
Stored(p, prop, pair) == [tree[p] EXCEPT ![prop] = pair]

\* A participant knows its properties; the timing configuration is created below FEP 2.6.
SetNew(k, p, prop, pair) ==
  IF tree[p][prop] # Missing \/ (k = "patched" /\ prop = TimingConfig)
    THEN Did({"true"}, {Stored(p, prop, pair)})
    ELSE Did({"false"}, {tree[p]})

\* It refuses the value, the request is lost, or the answer is.
SetNewFails(k, p, prop, pair) ==
  Did({"false", "throws"}, {tree[p]}) \cup
  {[did EXCEPT !.result = "throws"] : did \in SetNew(k, p, prop, pair)}

\* AutomationInterface::SetPropertyValue creates what is missing; the separators are not
\* converted, so that the property may be another one, at the root.
SetOld(p, prop, pair) == Did({"true"}, {tree[p], Stored(p, prop, pair)})

\* checkResult: ERR_FAILED throws, a timeout and other errors are warnings.
SetOldFails(p, prop, pair) == Did({"false", "throws"}, {tree[p], Stored(p, prop, pair)})

SetProperty(p, prop, pair) ==
  IF p \notin up THEN Did({"throws"}, {tree[p]})
  ELSE IF Kind[p] = "old" THEN SetOld(p, prop, pair)
  ELSE SetNew(Kind[p], p, prop, pair)

\* A search that fails gives the legacy proxy below FEP 3, and none from there on.
SetPropertyFails(p, prop, pair) ==
  IF p \notin up THEN {}
  ELSE CASE Kind[p] = "old" -> SetOldFails(p, prop, pair)
         [] Kind[p] = "patched" -> SetNewFails("patched", p, prop, pair) \cup SetOld(p, prop, pair)
         [] Kind[p] = "new" -> SetNewFails("new", p, prop, pair) \cup Did({"null"}, {tree[p]})

-----------------------------------------------------------------------------
(* copy_to, and isEqual, which reads in the same way: the names, then each  *)
(* property.                                                                *)

CopyBegins(p) ==
  /\ reading \in {"idle", "done"} /\ p \in up
  /\ Call
  /\ reading' = "names" /\ peer' = p /\ copy' = <<>>
  /\ via' \in {Kind[p]} \cup (IF Kind[p] = "patched" THEN {"old"} ELSE {})
  /\ seen' = [n \in Node |-> {AsRead(tree[p][n])}]
  /\ UNCHANGED <<up, tree, disturbed, names, value, troubles>>

ReadNames ==
  /\ reading = "names" /\ peer \in up
  /\ names' = {n \in Node : tree[peer][n] # Missing}
  /\ reading' = "read"
  /\ UNCHANGED <<field, peer, via, value, copy, calls, troubles>>

\* MUTANT: copy_to by getProperty and getPropertyType.
TakesTwoCalls_Always == TRUE

\* ConfigurationProxy has type and value from one RPC, ConfigurationProxyOldSql asks the
\* AutomationInterface for the value and again for the type.
TakesTwoCalls == via = "old"

\* An entry of the copy.
Noted(n, pair) == [m \in DOMAIN copy \cup {n} |-> IF m = n THEN pair ELSE copy[m]]

ReadPair(n) ==
  /\ reading = "read" /\ ~TakesTwoCalls /\ peer \in up /\ n \in names
  /\ copy' = Noted(n, AsRead(tree[peer][n])) /\ names' = names \ {n}
  /\ UNCHANGED <<field, reading, peer, via, value, calls, troubles>>

ReadValue(n) ==
  /\ reading = "read" /\ TakesTwoCalls /\ peer \in up /\ n \in names
  /\ value' = AsRead(tree[peer][n]).value /\ copy' = Noted(n, Blank)
  /\ reading' = "type"
  /\ UNCHANGED <<field, peer, via, names, calls, troubles>>

ReadType(n) ==
  /\ reading = "type" /\ peer \in up /\ n \in names \cap DOMAIN copy
  /\ copy' = [copy EXCEPT ![n] = [type |-> AsRead(tree[peer][n]).type, value |-> value]]
  /\ names' = names \ {n} /\ reading' = "read" /\ value' = None
  /\ UNCHANGED <<field, peer, via, calls, troubles>>

\* An error of the legacy interface reads as no names, or as an empty string.
ReadsNothing ==
  /\ via = "old" /\ IF peer \in up THEN Trouble ELSE UNCHANGED troubles
  /\ \/ /\ reading = "names"
        /\ reading' = "read" /\ names' = {} /\ UNCHANGED <<value, copy>>
     \/ /\ reading = "read"
        /\ \E n \in names : copy' = Noted(n, Blank)
        /\ reading' = "type" /\ UNCHANGED <<names, value>>
     \/ /\ reading = "type"
        /\ \E n \in names \cap DOMAIN copy :
             copy' = [copy EXCEPT ![n].value = value] /\ names' = names \ {n}
        /\ reading' = "read" /\ value' = None
  /\ UNCHANGED <<field, peer, via, calls>>

\* An RPC that fails, and ERR_FAILED of the legacy interface, throw.
ReadThrows ==
  /\ reading = "names" \/ (reading \in {"read", "type"} /\ names # {})
  /\ IF peer \in up THEN Trouble ELSE UNCHANGED troubles
  /\ reading' = "idle" /\ peer' = 0 /\ names' = {} /\ value' = None /\ copy' = <<>>
  /\ UNCHANGED <<field, via, calls>>

CopyEnds ==
  /\ reading = "read" /\ names = {}
  /\ reading' = "done" /\ peer' = 0
  /\ UNCHANGED <<field, via, names, value, copy, calls, troubles>>

-----------------------------------------------------------------------------
(* The field.                                                               *)

GoesAway(p) ==
  /\ p \in up /\ Trouble
  /\ up' = up \ {p} /\ disturbed' = disturbed \cup {p}
  /\ UNCHANGED <<tree, seen, readerVars, calls>>

ComesBack(p) ==
  /\ p \notin up /\ Trouble
  /\ up' = up \cup {p} /\ disturbed' = disturbed \cup {p}
  /\ Becomes(p, StartTree[p])
  /\ UNCHANGED <<readerVars, calls>>

\* Others set a property, through proxies of theirs.
OtherSets(p) ==
  /\ p \in up /\ Trouble
  /\ \E prop \in Node \cup {TimingConfig}, pair \in OtherPairs :
       \E did \in SetProperty(p, prop, pair) : Becomes(p, did.node)
  /\ disturbed' = disturbed \cup {p}
  /\ UNCHANGED <<up, readerVars, calls>>

ProxyNext ==
  \/ ReadNames \/ ReadsNothing \/ ReadThrows \/ CopyEnds
  \/ \E n \in Node : ReadPair(n) \/ ReadValue(n) \/ ReadType(n)
  \/ \E p \in Participants : CopyBegins(p) \/ GoesAway(p) \/ ComesBack(p) \/ OtherSets(p)

ReaderTypeOK ==
  /\ up \subseteq Participants /\ disturbed \subseteq Participants
  /\ reading \in {"idle", "names", "read", "type", "done"}
  /\ peer \in Participants \cup {0} /\ via \in {"old", "patched", "new"}
  /\ names \subseteq Node /\ DOMAIN copy \subseteq Node
  /\ calls \in 0..MaxCalls /\ troubles \in 0..MaxTroubles

\* A copy of a node is not a snapshot, but what it says of one property is: through the new
\* proxy its type and its value were the property's at one moment of the copy.  The legacy
\* proxy promises that for each of the two, unless an error left it empty.
CopiedPairsAreReal ==
  reading = "done" =>
    \A n \in DOMAIN copy :
      IF via = "old" THEN /\ copy[n].value \in {s.value : s \in seen[n]} \cup {None}
                          /\ copy[n].type \in {s.type : s \in seen[n]} \cup {None}
                     ELSE copy[n] \in seen[n]
=============================================================================
