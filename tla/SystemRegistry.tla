--------------------------- MODULE SystemRegistry ---------------------------
(***************************************************************************)
(* The participants of fep::System (fep_system.cpp): the map of proxies in *)
(* an Implementation, the shared_ptr semantics of ParticipantProxy         *)
(* (participant_proxy.cpp), copies, moves and the end of Systems, and      *)
(* discoverSystemOnDDS, which builds a System while participants come, go  *)
(* and are reconfigured.                                                   *)
(*                                                                         *)
(* One thread uses these Systems and holds at most one proxy it was given  *)
(* by getParticipant.  A proxy object is named by the Implementation whose *)
(* logger it refers to, the name it was added under and a number that      *)
(* tells it from its predecessors; it is freed with its last reference.    *)
(***************************************************************************)
EXTENDS Naturals, FiniteSetsExt

CONSTANTS
  Systems, SystemNames, Names, Values, Default, None, Moved,  \* see RegistryContract
  Impls,        \* Implementation objects, in the order in which they are made
  Generations,  \* proxies of one name and Implementation: one in the map, one with the client,
                \* one under construction
  Legacy,       \* participants whose configuration is read through the interface of FEP 2
  MaxCalls,     \* bound on the calls of the client
  MaxChanges    \* bound on what happens in the field

ASSUME RegistryAssumption ==
  /\ Names \subseteq Nat /\ Impls \subseteq Nat
  /\ \E last \in Names : \A n \in Names : n <= last
  /\ Generations \subseteq Nat
  /\ \E g1, g2, g3 \in Generations : g1 # g2 /\ g2 # g3 /\ g1 # g3
  /\ Legacy \subseteq Names /\ Default \in Values /\ None # Moved
  /\ \A none \in {None, Moved} : none \notin SystemNames \cup Impls
  /\ MaxCalls \in Nat /\ MaxChanges \in Nat

\* Not running; running in the System; standalone; running without a configuration to ask for.
Modes == {"absent", "member", "standalone", "bare"}
Answering == {"member", "standalone"}
Away == [n \in Names |-> "absent"]
Proxies == Impls \X Names \X Generations
Logger(o) == o[1]

\* What is no proxy, no content of one and no System is told from what is.
ASSUME NoneAssumption ==
  LET Contents == [name : Names, value : Values]
  IN  /\ None \notin Proxies \cup Contents
      /\ \A none \in {None, Moved} :
           none \notin [name : SystemNames, members : [Names -> Contents \cup {None}]]

VARIABLES
  owns,     \* _impl of each System, None (no object) or Moved (null)
  made,     \* Implementations made so far
  sysName,  \* _system_name of each Implementation
  map,      \* _participants of each Implementation
  proxy,    \* what each proxy object holds, None once freed
  handle,   \* the proxy object of the client, or None
  field,    \* the participants on the service bus, while a discovery looks at them
  pc, target, todo, standalone,  \* of discoverSystemOnDDS
  seen,     \* modes each participant has had during the running discovery (history)
  lost,     \* those whose answer to the last question was lost (history)
  calls, changes

pointers == <<owns, made, sysName, map, proxy, handle>>
discovery == <<pc, target, todo, standalone, seen, lost>>
vars == <<pointers, field, discovery, calls, changes>>

Live(s) == owns[s] \in Impls
Refs(m, h) == ({h} \cup {m[i][n] : i \in Impls, n \in Names}) \ {None}
Empty == [n \in Names |-> None]
Held(i) == {n \in Names : map[i][n] # None}

\* MUTANT: the map owns the proxies, what the client holds is a plain reference.
Store_Owner(m, h, p) ==
  /\ map' = m /\ handle' = h
  /\ proxy' = [o \in Proxies |-> IF o \notin Refs(m, None) THEN None
                                 ELSE IF o \in DOMAIN p THEN p[o] ELSE proxy[o]]

\* New maps and handle, with the objects written by p: the others keep their content, and
\* what nobody refers to any more is freed.
Store(m, h, p) ==
  /\ map' = m /\ handle' = h
  /\ proxy' = [o \in Proxies |-> IF o \notin Refs(m, h) THEN None
                                 ELSE IF o \in DOMAIN p THEN p[o] ELSE proxy[o]]

Unwritten == [o \in {} |-> None]

\* New proxies of i under the names N, with their values.
NewProxies(i, N) ==
  [n \in N |-> <<i, n, Min({g \in Generations : <<i, n, g>> \notin Refs(map, handle)})>>]
Fresh(f, value) == [o \in {f[n] : n \in DOMAIN f} |-> [name |-> o[2], value |-> value[o[2]]]]
Defaults == [n \in Names |-> Default]

Put(f, old) == [n \in Names |-> IF n \in DOMAIN f THEN f[n] ELSE old[n]]

Init ==
  /\ owns = [s \in Systems |-> None] /\ made = 0
  /\ sysName = [i \in Impls |-> None] /\ map = [i \in Impls |-> Empty]
  /\ proxy = [o \in Proxies |-> None] /\ handle = None
  /\ field = Away
  /\ pc = "idle" /\ target = None /\ todo = {} /\ standalone = {}
  /\ seen = [n \in Names |-> {}] /\ lost = {}
  /\ calls = 0 /\ changes = 0

Call == pc = "idle" /\ calls < MaxCalls /\ calls' = calls + 1
Idle == Call /\ UNCHANGED <<field, discovery, changes>>

NewImplementation(name) ==
  /\ made + 1 \in Impls /\ made' = made + 1
  /\ sysName' = [sysName EXCEPT ![made + 1] = name]

-----------------------------------------------------------------------------
(* Construction, copy, move and destruction.                                *)

Construct(s) ==
  /\ Idle /\ owns[s] = None
  /\ \E name \in SystemNames : NewImplementation(name)
  /\ owns' = [owns EXCEPT ![s] = made']
  /\ UNCHANGED <<map, proxy, handle>>

\* MUTANT: the map is copied, and with it the references to the proxies.
CopyParticipants_Shallow(i, j) == Store([map EXCEPT ![i] = map[j]], handle, Unwritten)

\* MUTANT: the participants are added and their values forgotten.
CopyParticipants_NoValues(i, j) ==
  LET f == NewProxies(i, {proxy[map[j][n]].name : n \in Held(j)})
  IN  Store([map EXCEPT ![i] = Put(f, @)], handle, Fresh(f, Defaults))

\* The loop of the copy constructor and of the assignment: the participants of j are added
\* to i by their names, and their values copied.
CopyParticipants(i, j) ==
  LET name(n) == proxy[map[j][n]].name
      last(m) == Max({n \in Held(j) : name(n) = m})
      N == {name(n) : n \in Held(j)}
      f == NewProxies(i, N)
  IN  Store([map EXCEPT ![i] = Put(f, @)], handle,
            Fresh(f, [m \in N |-> proxy[map[j][last(m)]].value]))

Copy(s, t) ==
  /\ Idle /\ owns[s] = None /\ Live(t)
  /\ NewImplementation(sysName[owns[t]])
  /\ owns' = [owns EXCEPT ![s] = made']
  /\ CopyParticipants(made', owns[t])

\* _system_name is assigned to itself.
Assign(s, t) ==
  /\ Idle /\ Live(s) /\ Live(t)
  /\ CopyParticipants(owns[s], owns[t])
  /\ UNCHANGED <<owns, made, sysName>>

\* Both kinds of move swap the Implementations; a new System has none to give.
Move(s, t) ==
  /\ Idle /\ s # t /\ owns[t] # None
  /\ owns' = [owns EXCEPT ![s] = owns[t], ![t] = IF owns[s] = None THEN Moved ELSE owns[s]]
  /\ UNCHANGED <<made, sysName, map, proxy, handle>>

Destroy(s) ==
  /\ Idle /\ owns[s] # None
  /\ owns' = [owns EXCEPT ![s] = None]
  /\ IF Live(s) THEN Store([map EXCEPT ![owns[s]] = Empty], handle, Unwritten)
                ELSE UNCHANGED <<map, proxy, handle>>
  /\ UNCHANGED <<made, sysName>>

-----------------------------------------------------------------------------
(* The map.                                                                 *)

\* A name that is already there gets a new proxy.
Add(s, n) ==
  /\ Idle /\ Live(s)
  /\ LET f == NewProxies(owns[s], {n})
     IN  Store([map EXCEPT ![owns[s]] = Put(f, @)], handle, Fresh(f, Defaults))
  /\ UNCHANGED <<owns, made, sysName>>

Remove(s, n) ==
  /\ Idle /\ Live(s)
  /\ Store([map EXCEPT ![owns[s]][n] = None], handle, Unwritten)
  /\ UNCHANGED <<owns, made, sysName>>

Clear(s) ==
  /\ Idle /\ Live(s)
  /\ Store([map EXCEPT ![owns[s]] = Empty], handle, Unwritten)
  /\ UNCHANGED <<owns, made, sysName>>

-----------------------------------------------------------------------------
(* Proxies in the hand of the client.                                       *)

\* A copy of the proxy refers to the same object.
GetParticipant(s, n) ==
  /\ Idle /\ Live(s) /\ map[owns[s]][n] # None
  /\ Store(map, map[owns[s]][n], Unwritten)
  /\ UNCHANGED <<owns, made, sysName>>

Release ==
  /\ Idle /\ handle # None
  /\ Store(map, None, Unwritten)
  /\ UNCHANGED <<owns, made, sysName>>

\* setInitPriority, setStartPriority, setAdditionalInfo.
SetValue(v) ==
  /\ Idle /\ handle # None
  /\ proxy' = [proxy EXCEPT ![handle].value = v]
  /\ UNCHANGED <<owns, made, sysName, map, handle>>

\* copyValuesTo copies the name too.
CopyValues(s, n) ==
  /\ Idle /\ handle # None /\ Live(s) /\ map[owns[s]][n] # None
  /\ proxy' = [proxy EXCEPT ![map[owns[s]][n]] = proxy[handle]]
  /\ UNCHANGED <<owns, made, sysName, map, handle>>

-----------------------------------------------------------------------------
(* discoverSystemOnDDS.  The System it builds is local until it returns.    *)

\* The participants that answer in time are added, whatever they are; nobody asks for others.
DiscoverBegins(s) ==
  /\ Call /\ owns[s] = None
  /\ \E name \in SystemNames : NewImplementation(name)
  /\ field' \in [Names -> Modes]
  /\ todo' = {n \in Names : field'[n] # "absent"}
  /\ LET f == NewProxies(made', todo')
     IN  Store([map EXCEPT ![made'] = Put(f, @)], handle, Fresh(f, Defaults))
  /\ pc' = "check" /\ target' = s /\ standalone' = {}
  /\ seen' = [n \in Names |-> {field'[n]}]
  /\ UNCHANGED <<owns, lost, changes>>

Discovering == pc \in {"check", "value"}
Asked == Min(todo)

\* isParticipantStandalone of the next participant: the lookup of its configuration and
\* getProperties.
CheckMember ==
  /\ pc = "check" /\ todo # {} /\ field[Asked] \in Answering
  /\ pc' = "value"
  /\ UNCHANGED <<pointers, field, target, todo, standalone, seen, lost, calls, changes>>

\* getProperty answers what it is by now.
CheckAnswered ==
  /\ pc = "value" /\ field[Asked] \in Answering
  /\ standalone' = IF field[Asked] = "standalone" THEN standalone \cup {Asked} ELSE standalone
  /\ todo' = todo \ {Asked} /\ pc' = "check"
  /\ UNCHANGED <<pointers, field, target, seen, lost, calls, changes>>

\* MUTANT: the new getProperty answers an empty string after an error, too.
CheckUnanswered_Any ==
  /\ pc = "value"
  /\ lost' = lost \cup {Asked}
  /\ todo' = todo \ {Asked} /\ pc' = "check"
  /\ UNCHANGED <<pointers, field, target, standalone, seen, calls, changes>>

\* It went away or the call is lost: the legacy getProperty answers an empty string, unless
\* the error is ERR_FAILED, and that is not "true".
CheckUnanswered ==
  /\ pc = "value" /\ Asked \in Legacy
  /\ lost' = lost \cup {Asked}
  /\ todo' = todo \ {Asked} /\ pc' = "check"
  /\ UNCHANGED <<pointers, field, target, standalone, seen, calls, changes>>

\* Another call fails, or that one with an exception, which leaves the discovery: the local
\* System ends.
CheckThrows ==
  /\ Discovering /\ todo # {}
  /\ pc' = "idle" /\ target' = None /\ todo' = {} /\ standalone' = {}
  /\ Store([map EXCEPT ![made] = Empty], handle, Unwritten)
  /\ field' = Away /\ seen' = [n \in Names |-> {}] /\ lost' = {}
  /\ UNCHANGED <<owns, made, sysName, calls, changes>>

\* The lookup came back empty, there being no such component or its list being lost, and is
\* dereferenced; or it went through the connection that add could not make.
CheckCrashes ==
  /\ pc = "check" /\ todo # {}
  /\ pc' = "crashed"
  /\ UNCHANGED <<pointers, field, target, todo, standalone, seen, lost, calls, changes>>

DiscoverEnds ==
  /\ pc = "check" /\ todo = {}
  /\ pc' = "idle" /\ target' = None /\ standalone' = {}
  /\ Store([map EXCEPT ![made] = [n \in Names |-> IF n \in standalone THEN None ELSE @[n]]],
           handle, Unwritten)
  /\ owns' = [owns EXCEPT ![target] = made]
  /\ field' = Away /\ seen' = [n \in Names |-> {}] /\ lost' = {}
  /\ UNCHANGED <<made, sysName, todo, calls, changes>>

\* Participants start, end, are renamed and reconfigured.
FieldChanges(n) ==
  /\ Discovering /\ n \in Held(made)
  /\ changes < MaxChanges /\ changes' = changes + 1
  /\ \E mode \in Modes \ {field[n]} : field' = [field EXCEPT ![n] = mode]
  /\ seen' = [seen EXCEPT ![n] = @ \cup {field'[n]}]
  /\ UNCHANGED <<pointers, pc, target, todo, standalone, lost, calls>>

-----------------------------------------------------------------------------

Next ==
  \/ \E s \in Systems : Construct(s) \/ Destroy(s) \/ Clear(s) \/ DiscoverBegins(s)
  \/ \E s, t \in Systems : Copy(s, t) \/ Assign(s, t) \/ Move(s, t)
  \/ \E s \in Systems, n \in Names :
       Add(s, n) \/ Remove(s, n) \/ GetParticipant(s, n) \/ CopyValues(s, n)
  \/ Release
  \/ \E v \in Values : SetValue(v)
  \/ CheckMember \/ CheckAnswered \/ CheckUnanswered \/ CheckThrows \/ CheckCrashes
  \/ DiscoverEnds
  \/ \E n \in Names : FieldChanges(n)

Spec == Init /\ [][Next]_vars

-----------------------------------------------------------------------------
(* Properties.                                                              *)

\* Every variable has its type, and exactly the proxies somebody refers to exist.
TypeOK ==
  /\ owns \in [Systems -> Impls \cup {None, Moved}] /\ made \in {0} \cup Impls
  /\ sysName \in [Impls -> SystemNames \cup {None}]
  /\ map \in [Impls -> [Names -> Proxies \cup {None}]]
  /\ proxy \in [Proxies -> [name : Names, value : Values] \cup {None}]
  /\ handle \in Proxies \cup {None}
  /\ \A o \in Proxies : proxy[o] # None <=> o \in Refs(map, handle)
  /\ field \in [Names -> Modes]
  /\ pc \in {"idle", "check", "value", "crashed"} /\ target \in Systems \cup {None}
  /\ todo \subseteq Names /\ standalone \subseteq Names
  /\ seen \in [Names -> SUBSET Modes] /\ lost \subseteq Names
  /\ calls \in 0..MaxCalls /\ changes \in 0..MaxChanges

\* A proxy refers to the logger of the System it was added to (ISystemLogger& _logger), which
\* ends with that System.  After any copies and moves a System only holds proxies that refer
\* to its own logger, which exists as long as they are used through the System.
OwnLogger ==
  \A s \in Systems : Live(s) =>
    \A n \in Held(owns[s]) : Logger(map[owns[s]][n]) = owns[s] /\ proxy[map[owns[s]][n]] # None

\* A discovery returns: the System it built goes to a variable of the client.
DiscoveryReturns == pc = "check" /\ \E s \in Systems : owns'[s] # owns[s]

\* What a discovery returns: of the participants that were listed, those that took part in the
\* System all the time are in it, and each one that is in it was seen to take part, not
\* standalone and not away, unless it is one of FEP 2 and its answer was lost.
DiscoveryIsFaithful ==
  [][DiscoveryReturns =>
      \A n \in Held(made) :
        /\ seen[n] = {"member"} => n \in Held(made)'
        /\ n \in Held(made)' => "member" \in seen[n] \/ n \in Legacy \cap lost]_vars

\* fep_system.h of discoverSystem: "Standalone participants won't be part of the created
\* system"; not even those that ran standalone from the beginning to the end of it.
StandaloneLeftOut ==
  [][DiscoveryReturns =>
      \A n \in Held(made) : seen[n] = {"standalone"} => n \notin Held(made)']_vars

\* The Systems as values, for the contract.
Content ==
  [s \in Systems |->
    IF Live(s) THEN [name |-> sysName[owns[s]],
                     members |-> [n \in Names |-> IF map[owns[s]][n] = None THEN None
                                                  ELSE proxy[map[owns[s]][n]]]]
    ELSE owns[s]]
Bound == {b \in Systems \X Names : Live(b[1]) /\ handle # None /\ map[owns[b[1]]][b[2]] = handle}

Contract == INSTANCE RegistryContract WITH
  content <- Content, bound <- Bound, held <- IF handle = None THEN None ELSE proxy[handle]

\* fep_system.h of the assignment: "Copy assignment", of "the other system object to copy from".
\* It has the participants of the other System then, and no more.  (Of one that has several:
\* no other call gives a System more than one at a time.)
AssignmentCopies ==
  [][\A s, t \in Systems :
       Assign(s, t) /\ (\E m, n \in Held(owns[t]) : m # n)
         => Held(owns[s])' = Held(owns[t])']_vars

\* Seen through their values the Systems are independent maps: a setter of a proxy reaches the
\* System that gave it out, wherever that was moved to and until the member is replaced, and
\* no copy of it.
KeepsContract == Contract!ContractSpec
=============================================================================
