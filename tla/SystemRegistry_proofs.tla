------------------------ MODULE SystemRegistry_proofs ------------------------
(***************************************************************************)
(* Proofs about SystemRegistry, for any Systems, names of participants and *)
(* values, and all bounds: the proxies a System holds are its own, what a  *)
(* discovery returns took part, and the Systems are values.                *)
(***************************************************************************)
EXTENDS SystemRegistry, WellFoundedInduction, TLAPS

-----------------------------------------------------------------------------
(* The inductive invariant.                                                 *)

\* The proxies that Implementation i makes under the name n.
Own(i, n) == {<<i, n, g>> : g \in Generations}

\* A map holds its own proxies, each under the name it was added under.
MapsOK ==
  /\ map \in [Impls -> [Names -> Proxies \cup {None}]]
  /\ \A i \in Impls, n \in Names : map[i][n] # None => map[i][n] \in Own(i, n)

\* The proxies that exist are those that somebody refers to.
ObjectsOK ==
  /\ proxy \in [Proxies -> [name : Names, value : Values] \cup {None}]
  /\ handle \in Proxies \cup {None}
  /\ \A o \in Proxies : proxy[o] # None <=> o \in Refs(map, handle)

\* An Implementation belongs to one System at most, and has a name and nothing else when it
\* is made.
OwnersOK ==
  /\ owns \in [Systems -> Impls \cup {None, Moved}] /\ made \in {0} \cup Impls
  /\ sysName \in [Impls -> SystemNames \cup {None}]
  /\ \A s \in Systems : Live(s) => owns[s] <= made /\ sysName[owns[s]] \in SystemNames
  /\ \A s, t \in Systems : Live(s) /\ owns[s] = owns[t] => s = t
  /\ \A i \in Impls : i > made => map[i] = Empty

\* Where a discovery is: the System it builds is nobody's, its participants are as they were
\* added, and those already asked were seen to be what they are taken for, but for those of
\* FEP 2 whose answer was lost.
TakenFor(n) ==
  IF n \in standalone THEN "standalone" \in seen[n]
                      ELSE "member" \in seen[n] \/ n \in Legacy \cap lost

DiscoveryOK ==
  /\ field \in [Names -> Modes]
  /\ pc \in {"idle", "check", "value", "crashed"} /\ target \in Systems \cup {None}
  /\ todo \subseteq Names /\ standalone \subseteq Names
  /\ seen \in [Names -> SUBSET Modes] /\ lost \subseteq Names
  /\ pc = "value" => todo # {}
  /\ Discovering =>
       /\ made \in Impls /\ target \in Systems /\ owns[target] = None
       /\ sysName[made] \in SystemNames
       /\ \A s \in Systems : owns[s] # made
       /\ todo \subseteq Held(made) /\ todo \cap standalone = {}
       /\ \A n \in Held(made) :
            /\ map[made][n] # handle
            /\ proxy[map[made][n]] = [name |-> n, value |-> Default]
            /\ field[n] \in seen[n]
            /\ n \notin todo => TakenFor(n)

\* The bounds of the model.
BoundsOK == calls \in 0..MaxCalls /\ changes \in 0..MaxChanges

RInv == MapsOK /\ ObjectsOK /\ OwnersOK /\ DiscoveryOK /\ BoundsOK

-----------------------------------------------------------------------------
(* Numbers and new proxies.                                                 *)

\* A set of numbers has a least one.
LEMMA MinIsIn ==
  ASSUME NEW T, T \subseteq Nat, T # {}
  PROVE  Min(T) \in T /\ \A y \in T : Min(T) <= y
<1> DEFINE R == {ss \in Nat \X Nat : ss[1] < ss[2]}
<1>1. IsWellFoundedOn(R, Nat)
  BY NatLessThanWellFounded DEF OpToRel
<1> HIDE DEF R
<1>2. PICK x \in T : \A y \in T : <<y, x>> \notin R
  BY <1>1, WFMin
<1>3. \A y \in Nat : y < x => <<y, x>> \in R
  BY DEF R
<1>4. ASSUME NEW y \in T PROVE x <= y
  <2>1. x \in Nat /\ y \in Nat
    OBVIOUS
  <2>2. ~(y < x)
    BY <1>2, <1>3, <2>1
  <2> QED BY <2>1, <2>2
<1> QED BY <1>4 DEF Min

\* A set of names has a last one.
LEMMA LastIsIn ==
  ASSUME NEW T, T \subseteq Names, T # {}
  PROVE  Max(T) \in T /\ \A y \in T : y <= Max(T)
<1>1. PICK last \in Names : \A n \in Names : n <= last
  BY RegistryAssumption
<1>2. Names \subseteq Nat
  BY RegistryAssumption
<1> DEFINE D == {last - n : n \in T}
<1>3. D \subseteq Nat /\ D # {}
  <2>1. \A n \in T : last - n \in Nat
    BY <1>1, <1>2
  <2> QED BY <2>1
<1> HIDE DEF D
<1>4. Min(D) \in D /\ \A d \in D : Min(D) <= d
  BY <1>3, MinIsIn
<1>5. PICK m \in T : Min(D) = last - m
  BY <1>4 DEF D
<1>6. ASSUME NEW y \in T PROVE y <= m
  <2>1. last - y \in D
    BY DEF D
  <2>2. last - m <= last - y
    BY <1>4, <1>5, <2>1
  <2>3. last \in Nat /\ m \in Nat /\ y \in Nat
    BY <1>2
  <2> QED BY <2>2, <2>3
<1>7. \E x \in T : \A y \in T : x >= y
  BY <1>2, <1>6
<1>8. Max(T) \in T /\ \A y \in T : Max(T) >= y
  BY <1>7 DEF Max
<1> QED BY <1>2, <1>8

\* A name of an Implementation has at most two proxies, one in the map and one with the
\* client, so that there is a number for another one.
LEMMA FreeGeneration ==
  ASSUME MapsOK, NEW i \in Impls, NEW n \in Names
  PROVE  \E g \in Generations : <<i, n, g>> \notin Refs(map, handle)
<1>1. PICK g1, g2, g3 \in Generations : g1 # g2 /\ g2 # g3 /\ g1 # g3
  BY RegistryAssumption
<1>2. ASSUME NEW g \in Generations, <<i, n, g>> \in Refs(map, handle)
      PROVE  <<i, n, g>> = handle \/ <<i, n, g>> = map[i][n]
  <2>1. CASE <<i, n, g>> = handle
    BY <2>1
  <2>2. CASE \E j \in Impls, k \in Names : <<i, n, g>> = map[j][k] /\ map[j][k] # None
    <3>1. PICK j \in Impls, k \in Names : <<i, n, g>> = map[j][k] /\ map[j][k] \in Own(j, k)
      BY <2>2 DEF MapsOK
    <3>2. j = i /\ k = n
      BY <3>1 DEF Own
    <3> QED BY <3>1, <3>2
  <2>3. \A o \in Refs(map, handle) :
          o # None /\ (o = handle \/ \E j \in Impls, k \in Names : o = map[j][k])
    BY DEF Refs
  <2> QED BY <1>2, <2>1, <2>2, <2>3
<1>3. <<i, n, g1>> # <<i, n, g2>> /\ <<i, n, g2>> # <<i, n, g3>> /\ <<i, n, g1>> # <<i, n, g3>>
  BY <1>1
<1> QED BY <1>1, <1>2, <1>3

\* New proxies are not among those that somebody refers to.
IsNew(i, N, f) ==
  /\ DOMAIN f = N
  /\ \A n \in N : f[n] \in Own(i, n) /\ f[n] \notin Refs(map, handle)

\* The proxies that are added are new.
LEMMA NewProxiesAreNew ==
  ASSUME MapsOK, NEW i \in Impls, NEW N \in SUBSET Names
  PROVE  IsNew(i, N, NewProxies(i, N))
<1>1. ASSUME NEW n \in N
      PROVE  NewProxies(i, N)[n] \in Own(i, n) /\ NewProxies(i, N)[n] \notin Refs(map, handle)
  <2> DEFINE G == {g \in Generations : <<i, n, g>> \notin Refs(map, handle)}
  <2>1. G # {} /\ G \subseteq Nat
    BY FreeGeneration, RegistryAssumption
  <2> HIDE DEF G
  <2>2. Min(G) \in G
    BY <2>1, MinIsIn
  <2>3. NewProxies(i, N)[n] = <<i, n, Min(G)>>
    BY DEF NewProxies, G
  <2> QED BY <2>2, <2>3 DEF G, Own
<1>2. DOMAIN NewProxies(i, N) = N
  BY DEF NewProxies
<1> QED BY <1>1, <1>2 DEF IsNew

-----------------------------------------------------------------------------
(* What Store does to the objects.                                          *)

\* A proxy that is referred to before and after keeps its content.
KeepObjects == \A o \in Refs(map, handle) \cap Refs(map', handle') : proxy'[o] = proxy[o]

\* Implementation i gets new proxies under the names N, with the values given.
Filled(i, N, value) ==
  /\ MapsOK' /\ ObjectsOK' /\ KeepObjects
  /\ handle' = handle
  /\ \A j \in Impls : j # i => map'[j] = map[j]
  /\ \A n \in Names \ N : map'[i][n] = map[i][n]
  /\ \A n \in N : /\ map'[i][n] \in Own(i, n) /\ map'[i][n] \notin Refs(map, handle)
                  /\ proxy'[map'[i][n]] = [name |-> n, value |-> value[n]]

\* Adding proxies keeps the map and the objects what they are, but for the new ones.
LEMMA StoreFills ==
  ASSUME MapsOK, ObjectsOK, NEW i \in Impls, NEW N \in SUBSET Names, NEW value,
         \A n \in N : value[n] \in Values,
         Store([map EXCEPT ![i] = Put(NewProxies(i, N), @)], handle,
               Fresh(NewProxies(i, N), value))
  PROVE  Filled(i, N, value)
<1>1. PICK f : f = NewProxies(i, N)
  OBVIOUS
<1>2. DOMAIN f = N /\ \A n \in N : f[n] \in Own(i, n) /\ f[n] \notin Refs(map, handle)
  BY <1>1, NewProxiesAreNew DEF IsNew
<1>3. map' = [map EXCEPT ![i] = Put(f, map[i])] /\ handle' = handle
  BY <1>1 DEF Store, MapsOK
<1>4. proxy' = [o \in Proxies |-> IF o \notin Refs(map', handle) THEN None
                                  ELSE IF o \in {f[n] : n \in N} THEN Fresh(f, value)[o] ELSE proxy[o]]
  BY <1>1, <1>2, <1>3 DEF Store, Fresh
<1>5. /\ \A j \in Impls : j # i => map'[j] = map[j]
      /\ map'[i] = [n \in Names |-> IF n \in N THEN f[n] ELSE map[i][n]]
  BY <1>2, <1>3 DEF MapsOK, Put
<1>6. \A j \in Impls, n \in Names : Own(j, n) \subseteq Proxies
  BY DEF Own, Proxies
<1>7. MapsOK'
  <2>1. map' \in [Impls -> [Names -> Proxies \cup {None}]]
    BY <1>2, <1>3, <1>5, <1>6 DEF MapsOK
  <2>2. \A j \in Impls, n \in Names : map'[j][n] # None => map'[j][n] \in Own(j, n)
    BY <1>2, <1>5 DEF MapsOK
  <2> QED BY <2>1, <2>2 DEF MapsOK
<1>8. ASSUME NEW n \in N
      PROVE  /\ f[n] \in Proxies /\ f[n] \in Refs(map', handle)
             /\ Fresh(f, value)[f[n]] = [name |-> n, value |-> value[n]]
  <2>1. f[n] \in Proxies /\ f[n] # None
    BY <1>2, <1>6, NoneAssumption
  <2>2. f[n] \in Refs(map', handle)
    BY <1>5, <2>1 DEF Refs
  <2>3. f[n][2] = n
    BY <1>2 DEF Own
  <2> QED BY <1>2, <2>1, <2>2, <2>3 DEF Fresh
<1>9. \A n \in N : proxy'[f[n]] = [name |-> n, value |-> value[n]]
  BY <1>4, <1>8
<1>10. \A o \in Refs(map', handle) \ {f[n] : n \in N} : o \in Refs(map, handle)
  BY <1>5 DEF Refs
<1>11. KeepObjects
  <2>1. \A o \in Refs(map, handle) : o \in Proxies
    BY DEF Refs, MapsOK, ObjectsOK
  <2> QED BY <1>2, <1>3, <1>4, <2>1 DEF KeepObjects
<1>12. ObjectsOK'
  <2>1. ASSUME NEW o \in Proxies
        PROVE  /\ proxy'[o] \in [name : Names, value : Values] \cup {None}
               /\ proxy'[o] # None <=> o \in Refs(map', handle)
    <3>1. CASE o \notin Refs(map', handle)
      BY <1>4, <3>1
    <3>2. CASE \E n \in N : o = f[n]
      <4>1. PICK n \in N : o = f[n]
        BY <3>2
      <4>2. proxy'[o] = [name |-> n, value |-> value[n]] /\ o \in Refs(map', handle)
        BY <1>8, <1>9, <4>1
      <4>3. proxy'[o] \in [name : Names, value : Values]
        BY <4>2
      <4> QED BY <4>2, <4>3, NoneAssumption
    <3>3. CASE o \in Refs(map', handle) /\ ~\E n \in N : o = f[n]
      <4>1. o \in Refs(map, handle) /\ proxy'[o] = proxy[o]
        BY <1>4, <1>10, <3>3
      <4> QED BY <3>3, <4>1 DEF ObjectsOK
    <3> QED BY <3>1, <3>2, <3>3
  <2> QED BY <1>3, <1>4, <2>1 DEF ObjectsOK
<1> QED BY <1>2, <1>3, <1>5, <1>7, <1>9, <1>11, <1>12 DEF Filled

\* Implementation i loses some of its proxies.
Emptied(i, m) ==
  /\ MapsOK' /\ ObjectsOK' /\ KeepObjects
  /\ handle' = handle
  /\ \A j \in Impls : j # i => map'[j] = map[j]
  /\ map'[i] = m

\* So does dropping some.
LEMMA StoreEmpties ==
  ASSUME MapsOK, ObjectsOK, NEW i \in Impls, NEW m \in [Names -> Proxies \cup {None}],
         \A n \in Names : m[n] \in {None, map[i][n]},
         Store([map EXCEPT ![i] = m], handle, Unwritten)
  PROVE  Emptied(i, m)
<1>1. /\ map' = [map EXCEPT ![i] = m] /\ handle' = handle
      /\ proxy' = [o \in Proxies |-> IF o \notin Refs(map', handle) THEN None ELSE proxy[o]]
  BY DEF Store, Unwritten
<1>2. map'[i] = m /\ \A j \in Impls : j # i => map'[j] = map[j]
  BY <1>1 DEF MapsOK
<1>3. MapsOK'
  BY <1>1, <1>2 DEF MapsOK
<1>4. Refs(map', handle) \subseteq Refs(map, handle)
  BY <1>2 DEF Refs
<1>5. \A o \in Refs(map, handle) : o \in Proxies
  BY DEF Refs, MapsOK, ObjectsOK
<1>6. KeepObjects
  BY <1>1, <1>4, <1>5 DEF KeepObjects
<1>7. ObjectsOK'
  BY <1>1, <1>4 DEF ObjectsOK
<1> QED BY <1>1, <1>2, <1>3, <1>6, <1>7 DEF Emptied

\* The client gets another proxy or lets its proxy go.
LEMMA StoreHands ==
  ASSUME MapsOK, ObjectsOK, NEW h \in Refs(map, handle) \cup {None}, Store(map, h, Unwritten)
  PROVE  MapsOK' /\ ObjectsOK' /\ KeepObjects /\ map' = map /\ handle' = h
<1>1. /\ map' = map /\ handle' = h
      /\ proxy' = [o \in Proxies |-> IF o \notin Refs(map, h) THEN None ELSE proxy[o]]
  BY DEF Store, Unwritten
<1>2. Refs(map, h) \subseteq Refs(map, handle)
  BY DEF Refs
<1>3. \A o \in Refs(map, handle) : o \in Proxies
  BY DEF Refs, MapsOK, ObjectsOK
<1>4. MapsOK'
  BY <1>1 DEF MapsOK
<1>5. KeepObjects
  BY <1>1, <1>2, <1>3 DEF KeepObjects
<1>6. ObjectsOK'
  BY <1>1, <1>2, <1>3 DEF ObjectsOK
<1> QED BY <1>1, <1>4, <1>5, <1>6

-----------------------------------------------------------------------------
(* The calls of the client keep the invariant.                              *)

\* A call of the client neither happens during a discovery nor touches its state.
LEMMA IdleKeeps ==
  ASSUME RInv, Idle
  PROVE  DiscoveryOK' /\ BoundsOK' /\ pc = "idle"
<1>1. pc = "idle" /\ UNCHANGED <<field, pc, target, todo, standalone, seen, lost, changes>>
  BY DEF Idle, Call, discovery
<1>2. DiscoveryOK'
  BY <1>1 DEF RInv, DiscoveryOK, Discovering
<1>3. BoundsOK'
  BY RegistryAssumption DEF RInv, BoundsOK, Idle, Call
<1> QED BY <1>1, <1>2, <1>3

\* The Systems keep their Implementations.
LEMMA OwnersKept ==
  ASSUME OwnersOK, UNCHANGED <<owns, made, sysName>>,
         \A i \in Impls : i > made => map'[i] = map[i]
  PROVE  OwnersOK'
BY DEF OwnersOK, Live

\* Implementations are numbered.
LEMMA Numbers ==
  ASSUME OwnersOK
  PROVE  Impls \subseteq Nat /\ made \in Nat
<1>1. Impls \subseteq Nat
  BY RegistryAssumption
<1>2. made \in {0} \cup Impls
  BY DEF OwnersOK
<1> QED BY <1>1, <1>2

\* The Implementation of a System was made.
LEMMA LiveIsMade ==
  ASSUME OwnersOK, NEW s \in Systems, Live(s)
  PROVE  owns[s] \in Impls /\ \A i \in Impls : i > made => i # owns[s]
<1>1. owns[s] \in Impls /\ owns[s] <= made
  BY DEF OwnersOK, Live
<1>2. owns[s] \in Nat /\ made \in Nat
  BY <1>1, Numbers
<1> QED BY <1>1, <1>2, Numbers

\* A new Implementation, of which nobody knows, goes to a System that has none.
LEMMA NewOwner ==
  ASSUME OwnersOK, NEW s \in Systems, NEW name \in SystemNames, NewImplementation(name),
         owns' = [owns EXCEPT ![s] = made'],
         \A i \in Impls : i # made' => map'[i] = map[i]
  PROVE  OwnersOK'
<1>1. /\ made' = made + 1 /\ made' \in Impls /\ made \in Nat /\ made' \in Nat
      /\ sysName' = [sysName EXCEPT ![made'] = name]
  BY Numbers DEF NewImplementation
<1>2. /\ owns' \in [Systems -> Impls \cup {None, Moved}]
      /\ sysName' \in [Impls -> SystemNames \cup {None}] /\ sysName'[made'] = name
      /\ \A i \in Impls : i # made' => sysName'[i] = sysName[i]
      /\ owns'[s] = made' /\ \A t \in Systems : t # s => owns'[t] = owns[t]
  BY <1>1 DEF OwnersOK
<1>3. \A t \in Systems : Live(t) => owns[t] # made' /\ owns[t] <= made'
  <2>1. \A t \in Systems : Live(t) => owns[t] \in Nat /\ owns[t] <= made
    BY RegistryAssumption DEF OwnersOK, Live
  <2> QED BY <1>1, <2>1
<1>4. \A t \in Systems : Live(t)' => owns'[t] <= made' /\ sysName'[owns'[t]] \in SystemNames
  BY <1>1, <1>2, <1>3 DEF OwnersOK, Live
<1>5. \A t, u \in Systems : Live(t)' /\ owns'[t] = owns'[u] => t = u
  BY <1>2, <1>3 DEF OwnersOK, Live
<1>6. \A i \in Impls : i > made' => map'[i] = Empty
  <2>1. \A i \in Impls : i > made' => i > made /\ i # made'
    BY <1>1, RegistryAssumption
  <2> QED BY <2>1 DEF OwnersOK
<1> QED BY <1>1, <1>2, <1>4, <1>5, <1>6 DEF OwnersOK

\* Objects that nobody writes, and references that nobody moves, stay as they are.
LEMMA ObjectsKept ==
  ASSUME MapsOK, ObjectsOK, UNCHANGED <<map, proxy, handle>>
  PROVE  MapsOK' /\ ObjectsOK'
BY DEF MapsOK, ObjectsOK

\* A System that is constructed has an Implementation of its own.
LEMMA ConstructStep ==
  ASSUME RInv, NEW s \in Systems, Construct(s)
  PROVE  RInv'
<1>1. Idle /\ UNCHANGED <<map, proxy, handle>> /\ owns' = [owns EXCEPT ![s] = made']
  BY DEF Construct
<1>2. DiscoveryOK' /\ BoundsOK' /\ MapsOK' /\ ObjectsOK'
  BY <1>1, IdleKeeps, ObjectsKept DEF RInv
<1>3. OwnersOK'
  BY <1>1, NewOwner DEF Construct, RInv
<1> QED BY <1>2, <1>3 DEF RInv

\* The loop over the participants of j adds those names to i, with the values of the last
\* participant of each name.
NamesIn(j) == {proxy[map[j][n]].name : n \in Held(j)}
LastOf(j, m) == Max({n \in Held(j) : proxy[map[j][n]].name = m})
ValuesIn(j) == [m \in NamesIn(j) |-> proxy[map[j][LastOf(j, m)]].value]

\* Whom a map holds, exists.
LEMMA HeldExist ==
  ASSUME MapsOK, ObjectsOK, NEW i \in Impls, NEW n \in Held(i)
  PROVE  /\ map[i][n] \in Proxies /\ map[i][n] \in Refs(map, handle)
         /\ proxy[map[i][n]] \in [name : Names, value : Values]
         /\ proxy[map[i][n]] # None
<1>1. n \in Names /\ map[i][n] # None
  BY DEF Held
<1>2. map[i][n] \in Proxies
  BY <1>1 DEF MapsOK
<1>3. map[i][n] \in Refs(map, handle)
  BY <1>1 DEF Refs
<1> QED BY <1>2, <1>3 DEF ObjectsOK

\* Of the participants with one name there is a last one.
LEMMA LastOfIs ==
  ASSUME MapsOK, ObjectsOK, NEW j \in Impls, NEW m \in NamesIn(j)
  PROVE  /\ LastOf(j, m) \in Held(j) /\ proxy[map[j][LastOf(j, m)]].name = m
         /\ \A n \in Held(j) : proxy[map[j][n]].name = m => n <= LastOf(j, m)
<1> DEFINE T == {n \in Held(j) : proxy[map[j][n]].name = m}
<1>1. T \subseteq Names /\ T # {}
  BY DEF Held, NamesIn
<1> HIDE DEF T
<1>2. Max(T) \in T /\ \A y \in T : y <= Max(T)
  BY <1>1, LastIsIn
<1> QED BY <1>2 DEF T, LastOf

\* The loop over the participants of another System adds them by their names.
LEMMA CopyFills ==
  ASSUME MapsOK, ObjectsOK, NEW i \in Impls, NEW j \in Impls, CopyParticipants(i, j)
  PROVE  Filled(i, NamesIn(j), ValuesIn(j))
<1>1. NamesIn(j) \in SUBSET Names
  BY HeldExist DEF NamesIn
<1>2. \A m \in NamesIn(j) : ValuesIn(j)[m] \in Values
  BY LastOfIs, HeldExist DEF ValuesIn
<1>3. Store([map EXCEPT ![i] = Put(NewProxies(i, NamesIn(j)), @)], handle,
            Fresh(NewProxies(i, NamesIn(j)), ValuesIn(j)))
  BY DEF CopyParticipants, NamesIn, ValuesIn, LastOf
<1> QED BY <1>1, <1>2, <1>3, StoreFills

\* The copy constructor keeps the invariant, and adds to an Implementation that is new.
LEMMA CopyStep ==
  ASSUME RInv, NEW s \in Systems, NEW t \in Systems, Copy(s, t)
  PROVE  RInv' /\ Filled(made', NamesIn(owns[t]), ValuesIn(owns[t])) /\ made' \in Impls
<1>1. /\ Idle /\ Live(t) /\ owns[t] \in Impls /\ made' \in Impls
      /\ CopyParticipants(made', owns[t])
  BY DEF Copy, Live, NewImplementation
<1>2. Filled(made', NamesIn(owns[t]), ValuesIn(owns[t]))
  BY <1>1, CopyFills DEF RInv
<1>3. DiscoveryOK' /\ BoundsOK'
  BY <1>1, IdleKeeps
<1>4. sysName[owns[t]] \in SystemNames
  BY <1>1 DEF RInv, OwnersOK
<1>5. OwnersOK'
  BY <1>2, <1>4, NewOwner DEF Copy, RInv, Filled
<1> QED BY <1>1, <1>2, <1>3, <1>5 DEF RInv, Filled

\* The assignment adds to the Implementation that the System has.
LEMMA AssignStep ==
  ASSUME RInv, NEW s \in Systems, NEW t \in Systems, Assign(s, t)
  PROVE  RInv' /\ Filled(owns[s], NamesIn(owns[t]), ValuesIn(owns[t]))
<1>1. /\ Idle /\ Live(s) /\ owns[s] \in Impls /\ owns[t] \in Impls
      /\ CopyParticipants(owns[s], owns[t]) /\ UNCHANGED <<owns, made, sysName>>
  BY DEF Assign, Live
<1>2. Filled(owns[s], NamesIn(owns[t]), ValuesIn(owns[t]))
  BY <1>1, CopyFills DEF RInv
<1>3. DiscoveryOK' /\ BoundsOK'
  BY <1>1, IdleKeeps
<1>4. OwnersOK'
  BY <1>1, <1>2, OwnersKept, LiveIsMade DEF RInv, Filled
<1> QED BY <1>2, <1>3, <1>4 DEF RInv, Filled

\* add keeps the invariant.
LEMMA AddStep ==
  ASSUME RInv, NEW s \in Systems, NEW n \in Names, Add(s, n)
  PROVE  RInv' /\ Filled(owns[s], {n}, Defaults)
<1>1. /\ Idle /\ Live(s) /\ owns[s] \in Impls /\ UNCHANGED <<owns, made, sysName>>
      /\ Store([map EXCEPT ![owns[s]] = Put(NewProxies(owns[s], {n}), @)], handle,
               Fresh(NewProxies(owns[s], {n}), Defaults))
  BY DEF Add, Live
<1>2. \A m \in {n} : Defaults[m] \in Values
  BY RegistryAssumption DEF Defaults
<1>3. Filled(owns[s], {n}, Defaults)
  BY <1>1, <1>2, StoreFills DEF RInv
<1>4. DiscoveryOK' /\ BoundsOK'
  BY <1>1, IdleKeeps
<1>5. OwnersOK'
  BY <1>1, <1>3, OwnersKept, LiveIsMade DEF RInv, Filled
<1> QED BY <1>3, <1>4, <1>5 DEF RInv, Filled

\* Both kinds of move only exchange the Implementations.
LEMMA MoveStep ==
  ASSUME RInv, NEW s \in Systems, NEW t \in Systems, Move(s, t)
  PROVE  RInv'
<1>1. /\ Idle /\ s # t /\ UNCHANGED <<made, sysName, map, proxy, handle>>
      /\ owns' = [owns EXCEPT ![s] = owns[t], ![t] = IF owns[s] = None THEN Moved ELSE owns[s]]
  BY DEF Move
<1>2. DiscoveryOK' /\ BoundsOK' /\ MapsOK' /\ ObjectsOK'
  BY <1>1, IdleKeeps, ObjectsKept DEF RInv
<1>3. /\ owns'[s] = owns[t] /\ owns'[t] = (IF owns[s] = None THEN Moved ELSE owns[s])
      /\ \A u \in Systems \ {s, t} : owns'[u] = owns[u]
      /\ owns' \in [Systems -> Impls \cup {None, Moved}]
  BY <1>1 DEF RInv, OwnersOK
<1>4. Moved \notin Impls /\ None \notin Impls
  BY RegistryAssumption
<1>5. OwnersOK'
  BY <1>1, <1>3, <1>4 DEF RInv, OwnersOK, Live
<1> QED BY <1>2, <1>5 DEF RInv

\* The map of a System that ends becomes empty.
LEMMA DestroyStep ==
  ASSUME RInv, NEW s \in Systems, Destroy(s)
  PROVE  RInv' /\ (Live(s) => Emptied(owns[s], Empty))
<1>1. Idle /\ owns' = [owns EXCEPT ![s] = None] /\ UNCHANGED <<made, sysName>>
  BY DEF Destroy
<1>2. DiscoveryOK' /\ BoundsOK'
  BY <1>1, IdleKeeps
<1>3. Live(s) => Emptied(owns[s], Empty)
  BY StoreEmpties DEF Destroy, Live, Empty, RInv
<1>4. MapsOK' /\ ObjectsOK' /\ \A i \in Impls : i > made => map'[i] = map[i]
  <2>1. CASE Live(s)
    BY <1>3, <2>1, LiveIsMade DEF Emptied, RInv
  <2>2. CASE ~Live(s)
    BY <2>2, ObjectsKept DEF Destroy, RInv
  <2> QED BY <2>1, <2>2
<1>5. None \notin Impls
  BY RegistryAssumption
<1>6. OwnersOK'
  BY <1>1, <1>4, <1>5 DEF RInv, OwnersOK, Live
<1> QED BY <1>2, <1>3, <1>4, <1>6 DEF RInv

\* remove and clear: the names N go.
Without(i, N) == [n \in Names |-> IF n \in N THEN None ELSE map[i][n]]

\* remove and clear keep the invariant.
LEMMA RemoveStep ==
  ASSUME RInv, NEW s \in Systems, NEW N,
         \/ \E n \in Names : N = {n} /\ Remove(s, n)
         \/ N = Names /\ Clear(s)
  PROVE  RInv' /\ Emptied(owns[s], Without(owns[s], N))
<1>1. Idle /\ Live(s) /\ owns[s] \in Impls /\ UNCHANGED <<owns, made, sysName>>
  BY DEF Remove, Clear, Live
<1>2. Store([map EXCEPT ![owns[s]] = Without(owns[s], N)], handle, Unwritten)
  <2>1. CASE \E n \in Names : N = {n} /\ Remove(s, n)
    <3>1. PICK n \in Names : N = {n} /\ Remove(s, n)
      BY <2>1
    <3>2. map[owns[s]] \in [Names -> Proxies \cup {None}] /\ map \in [Impls -> [Names -> Proxies \cup {None}]]
      BY <1>1 DEF RInv, MapsOK
    <3>3. [map[owns[s]] EXCEPT ![n] = None] = Without(owns[s], N)
      BY <3>1, <3>2 DEF Without
    <3>4. [map EXCEPT ![owns[s]][n] = None] = [map EXCEPT ![owns[s]] = Without(owns[s], N)]
      BY <1>1, <3>2, <3>3
    <3> QED BY <3>1, <3>4 DEF Remove
  <2>2. CASE N = Names /\ Clear(s)
    <3>1. Without(owns[s], N) = Empty
      BY <2>2 DEF Without, Empty
    <3> QED BY <2>2, <3>1 DEF Clear
  <2> QED BY <2>1, <2>2
<1>3. /\ Without(owns[s], N) \in [Names -> Proxies \cup {None}]
      /\ \A n \in Names : Without(owns[s], N)[n] \in {None, map[owns[s]][n]}
  BY <1>1 DEF Without, RInv, MapsOK
<1>4. Emptied(owns[s], Without(owns[s], N))
  BY <1>1, <1>2, <1>3, StoreEmpties DEF RInv
<1>5. DiscoveryOK' /\ BoundsOK'
  BY <1>1, IdleKeeps
<1>6. OwnersOK'
  BY <1>1, <1>4, OwnersKept, LiveIsMade DEF RInv, Emptied
<1> QED BY <1>4, <1>5, <1>6 DEF RInv, Emptied

\* getParticipant, and the end of the client's proxy.
LEMMA HandStep ==
  ASSUME RInv,
         Release \/ \E s \in Systems, n \in Names : GetParticipant(s, n)
  PROVE  RInv' /\ KeepObjects /\ map' = map
<1>1. Idle /\ UNCHANGED <<owns, made, sysName>>
  BY DEF Release, GetParticipant
<1>2. PICK h \in Refs(map, handle) \cup {None} : Store(map, h, Unwritten)
  <2>1. CASE Release
    BY <2>1 DEF Release
  <2>2. CASE \E s \in Systems, n \in Names : GetParticipant(s, n)
    <3>1. PICK s \in Systems, n \in Names : GetParticipant(s, n)
      BY <2>2
    <3>2. n \in Held(owns[s]) /\ owns[s] \in Impls /\ Store(map, map[owns[s]][n], Unwritten)
      BY <3>1 DEF GetParticipant, Live, Held
    <3> QED BY <3>2, HeldExist DEF RInv
  <2> QED BY <2>1, <2>2
<1>3. MapsOK' /\ ObjectsOK' /\ KeepObjects /\ map' = map
  BY <1>2, StoreHands DEF RInv
<1>4. DiscoveryOK' /\ BoundsOK'
  BY <1>1, IdleKeeps
<1>5. OwnersOK'
  BY <1>1, <1>3, OwnersKept DEF RInv
<1> QED BY <1>3, <1>4, <1>5 DEF RInv

\* The setters and copyValuesTo write one object.
LEMMA WriteStep ==
  ASSUME RInv,
         \/ \E v \in Values : SetValue(v)
         \/ \E s \in Systems, n \in Names : CopyValues(s, n)
  PROVE  RInv'
<1>1. Idle /\ UNCHANGED <<owns, made, sysName, map, handle>> /\ handle # None
  BY DEF SetValue, CopyValues
<1>2. handle \in Proxies /\ proxy[handle] \in [name : Names, value : Values] /\ proxy[handle] # None
  BY <1>1 DEF RInv, ObjectsOK, Refs
<1>3. PICK o \in Proxies, c \in [name : Names, value : Values] :
        proxy[o] # None /\ proxy' = [proxy EXCEPT ![o] = c]
  <2>1. CASE \E v \in Values : SetValue(v)
    <3>1. PICK v \in Values : SetValue(v)
      BY <2>1
    <3>2. proxy' = [proxy EXCEPT ![handle] = [proxy[handle] EXCEPT !.value = v]]
      BY <3>1 DEF SetValue
    <3>3. [proxy[handle] EXCEPT !.value = v] \in [name : Names, value : Values]
      BY <1>2
    <3> QED BY <1>2, <3>2, <3>3
  <2>2. CASE \E s \in Systems, n \in Names : CopyValues(s, n)
    <3>1. PICK s \in Systems, n \in Names : CopyValues(s, n)
      BY <2>2
    <3>2. n \in Held(owns[s]) /\ owns[s] \in Impls
      BY <3>1 DEF CopyValues, Live, Held
    <3>3. map[owns[s]][n] \in Proxies /\ proxy[map[owns[s]][n]] # None
      BY <3>2, HeldExist DEF RInv
    <3> QED BY <1>2, <3>1, <3>3 DEF CopyValues
  <2> QED BY <2>1, <2>2
<1>4. ObjectsOK'
  <2>1. c # None
    BY NoneAssumption
  <2> QED BY <1>1, <1>3, <2>1 DEF RInv, ObjectsOK
<1>5. MapsOK'
  BY <1>1 DEF RInv, MapsOK
<1>6. DiscoveryOK' /\ BoundsOK'
  BY <1>1, IdleKeeps
<1>7. OwnersOK'
  BY <1>1, OwnersKept DEF RInv
<1> QED BY <1>4, <1>5, <1>6, <1>7 DEF RInv

-----------------------------------------------------------------------------
(* The discovery keeps the invariant.                                       *)

\* Nobody but the discovery moves references while it runs.
LEMMA PointersKept ==
  ASSUME RInv, UNCHANGED pointers
  PROVE  MapsOK' /\ ObjectsOK' /\ OwnersOK'
<1>1. UNCHANGED <<owns, made, sysName, map, proxy, handle>>
  BY DEF pointers
<1> QED BY <1>1, ObjectsKept, OwnersKept DEF RInv

\* The participants that answered are added to a System of which nobody knows.
LEMMA DiscoverBeginsStep ==
  ASSUME RInv, NEW s \in Systems, DiscoverBegins(s)
  PROVE  RInv' /\ Filled(made', todo', Defaults) /\ made' \in Impls /\ made' > made
<1>1. PICK name \in SystemNames : NewImplementation(name)
  BY DEF DiscoverBegins
<1>2. /\ made' = made + 1 /\ made' \in Impls /\ made \in Nat /\ made' > made
      /\ sysName' = [sysName EXCEPT ![made'] = name]
  BY <1>1, Numbers DEF NewImplementation, RInv
<1>3. /\ field' \in [Names -> Modes] /\ todo' = {n \in Names : field'[n] # "absent"}
      /\ pc' = "check" /\ target' = s /\ standalone' = {} /\ owns[s] = None
      /\ seen' = [n \in Names |-> {field'[n]}] /\ UNCHANGED <<owns, lost, changes>>
  BY DEF DiscoverBegins
<1>4. todo' \in SUBSET Names /\ \A n \in todo' : Defaults[n] \in Values
  BY <1>3, RegistryAssumption DEF Defaults
<1>5. Filled(made', todo', Defaults)
  BY <1>2, <1>4, StoreFills DEF DiscoverBegins, RInv
<1>6. map[made'] = Empty
  BY <1>2 DEF RInv, OwnersOK
<1>7. /\ \A n \in todo' : /\ map'[made'][n] \in Own(made', n) /\ map'[made'][n] # None
                          /\ map'[made'][n] # handle'
                          /\ proxy'[map'[made'][n]] = [name |-> n, value |-> Default]
      /\ \A n \in Names \ todo' : map'[made'][n] = None
  <2>1. \A n \in todo' : /\ map'[made'][n] \in Own(made', n) /\ map'[made'][n] \notin Refs(map, handle)
                         /\ proxy'[map'[made'][n]] = [name |-> n, value |-> Default]
    BY <1>4, <1>5 DEF Filled, Defaults
  <2>2. handle' = handle /\ (handle # None => handle \in Refs(map, handle))
    BY <1>5 DEF Filled, Refs
  <2>3. \A n \in todo' : map'[made'][n] # None
    <3>1. \A n \in todo' : Own(made', n) \subseteq Proxies
      BY <1>2, <1>4 DEF Own, Proxies
    <3> QED BY <2>1, <3>1, NoneAssumption
  <2>4. \A n \in Names \ todo' : map'[made'][n] = None
    BY <1>5, <1>6 DEF Filled, Empty
  <2> QED BY <2>1, <2>2, <2>3, <2>4
<1>8. Held(made)' = todo'
  BY <1>4, <1>7 DEF Held
<1>9. \A t \in Systems : Live(t) => owns[t] # made' /\ owns[t] <= made'
  <2>1. \A t \in Systems : Live(t) => owns[t] \in Nat /\ owns[t] <= made
    BY RegistryAssumption DEF RInv, OwnersOK, Live
  <2> QED BY <1>2, <2>1
<1>10. OwnersOK'
  <2>1. /\ sysName' \in [Impls -> SystemNames \cup {None}] /\ sysName'[made'] = name
        /\ \A i \in Impls : i # made' => sysName'[i] = sysName[i]
    BY <1>2 DEF RInv, OwnersOK
  <2>2. \A t \in Systems : Live(t)' => owns'[t] <= made' /\ sysName'[owns'[t]] \in SystemNames
    BY <1>3, <1>9, <2>1 DEF RInv, OwnersOK, Live
  <2>3. \A t, u \in Systems : Live(t)' /\ owns'[t] = owns'[u] => t = u
    BY <1>3 DEF RInv, OwnersOK, Live
  <2>4. \A i \in Impls : i > made' => map'[i] = Empty
    <3>1. \A i \in Impls : i > made' => i > made /\ i # made'
      BY <1>2, Numbers DEF RInv
    <3> QED BY <1>5, <3>1 DEF RInv, OwnersOK, Filled
  <2> QED BY <1>2, <1>3, <2>1, <2>2, <2>3, <2>4 DEF RInv, OwnersOK
<1>11. DiscoveryOK'
  <2>1. sysName'[made'] \in SystemNames
    BY <1>2 DEF RInv, OwnersOK
  <2>2. \A t \in Systems : owns'[t] # made'
    BY <1>2, <1>3, <1>9 DEF Live
  <2>3. seen' \in [Names -> SUBSET Modes] /\ \A n \in Names : field'[n] \in seen'[n]
    BY <1>3
  <2>4. lost' \subseteq Names
    BY <1>3 DEF RInv, DiscoveryOK
  <2> QED BY <1>2, <1>3, <1>4, <1>7, <1>8, <2>1, <2>2, <2>3, <2>4 DEF DiscoveryOK, Discovering
<1>12. BoundsOK'
  BY RegistryAssumption DEF DiscoverBegins, Call, RInv, BoundsOK
<1> QED BY <1>2, <1>5, <1>10, <1>11, <1>12 DEF RInv, Filled

\* Being asked changes nothing yet.
LEMMA CheckMemberStep ==
  ASSUME RInv, CheckMember
  PROVE  RInv'
<1>1. MapsOK' /\ ObjectsOK' /\ OwnersOK'
  BY PointersKept DEF CheckMember
<1>2. /\ pc = "check" /\ pc' = "value" /\ todo # {}
      /\ UNCHANGED <<owns, made, sysName, map, proxy, handle>>
      /\ UNCHANGED <<field, target, todo, standalone, seen, lost, calls, changes>>
  BY DEF CheckMember, pointers
<1>3. DiscoveryOK' /\ BoundsOK'
  BY <1>2 DEF RInv, DiscoveryOK, BoundsOK, Discovering, Held, TakenFor
<1> QED BY <1>1, <1>3 DEF RInv

\* A participant that is asked says what it is now, which it was seen to be, or it is one of
\* FEP 2 and its answer is lost.
LEMMA CheckEndsStep ==
  ASSUME RInv, CheckAnswered \/ CheckUnanswered
  PROVE  RInv'
<1>1. MapsOK' /\ ObjectsOK' /\ OwnersOK'
  BY PointersKept DEF CheckAnswered, CheckUnanswered
<1>2. PICK n : n = Asked
  OBVIOUS
<1>3. /\ pc = "value" /\ pc' = "check" /\ Discovering /\ Discovering'
      /\ todo' = todo \ {n}
      /\ UNCHANGED <<owns, made, sysName, map, proxy, handle, field, target, seen, calls, changes>>
  BY <1>2 DEF CheckAnswered, CheckUnanswered, pointers, Discovering
<1>4. n \in todo /\ todo \subseteq Names /\ todo \subseteq Held(made)
  BY <1>2, <1>3, MinIsIn, RegistryAssumption DEF RInv, DiscoveryOK, Asked
<1>5. \/ /\ field[n] \in Answering /\ lost' = lost
         /\ standalone' = IF field[n] = "standalone" THEN standalone \cup {n} ELSE standalone
      \/ n \in Legacy /\ lost' = lost \cup {n} /\ standalone' = standalone
  BY <1>2 DEF CheckAnswered, CheckUnanswered
<1>6. n \notin standalone /\ field[n] \in seen[n]
  BY <1>3, <1>4 DEF RInv, DiscoveryOK
<1>7. Held(made)' = Held(made)
  BY <1>3 DEF Held
<1>8. \A m \in Held(made) \ todo' : TakenFor(m)'
  <2>1. ASSUME NEW m \in Held(made) \ todo', m # n PROVE TakenFor(m)'
    <3>1. m \notin todo /\ (m \in standalone' <=> m \in standalone)
      BY <1>3, <1>5, <2>1
    <3>2. TakenFor(m)
      BY <1>3, <3>1 DEF RInv, DiscoveryOK
    <3> QED BY <1>3, <1>5, <3>1, <3>2 DEF TakenFor
  <2>2. TakenFor(n)'
    BY <1>3, <1>5, <1>6 DEF TakenFor, Answering
  <2> QED BY <2>1, <2>2
<1>9. DiscoveryOK'
  <2>1. todo' \cap standalone' = {} /\ standalone' \subseteq Names /\ lost' \subseteq Names
    BY <1>3, <1>4, <1>5 DEF RInv, DiscoveryOK
  <2> QED BY <1>3, <1>4, <1>7, <1>8, <2>1 DEF RInv, DiscoveryOK
<1>10. BoundsOK'
  BY <1>3 DEF RInv, BoundsOK
<1> QED BY <1>1, <1>9, <1>10 DEF RInv

\* A discovery that cannot ask drops the System it was building.
LEMMA CheckThrowsStep ==
  ASSUME RInv, CheckThrows
  PROVE  RInv' /\ Emptied(made, Empty)
<1>1. /\ Discovering /\ pc' = "idle" /\ target' = None /\ todo' = {} /\ standalone' = {}
      /\ field' = Away /\ seen' = [n \in Names |-> {}] /\ lost' = {}
      /\ UNCHANGED <<owns, made, sysName, calls, changes>>
  BY DEF CheckThrows
<1>2. made \in Impls
  BY <1>1 DEF RInv, DiscoveryOK
<1>3. Emptied(made, Empty)
  BY <1>2, StoreEmpties DEF CheckThrows, Empty, RInv
<1>4. OwnersOK'
  <2>1. \A i \in Impls : i > made => map'[i] = map[i]
    <3>1. \A i \in Impls : i > made => i # made
      BY Numbers DEF RInv
    <3> QED BY <1>3, <3>1 DEF Emptied
  <2> QED BY <1>1, <2>1, OwnersKept DEF RInv
<1>5. DiscoveryOK'
  BY <1>1 DEF DiscoveryOK, Away, Modes, Discovering
<1>6. BoundsOK'
  BY <1>1 DEF RInv, BoundsOK
<1> QED BY <1>3, <1>4, <1>5, <1>6 DEF RInv, Emptied

\* A crash changes nothing.
LEMMA CheckCrashesStep ==
  ASSUME RInv, CheckCrashes
  PROVE  RInv'
<1>1. MapsOK' /\ ObjectsOK' /\ OwnersOK'
  BY PointersKept DEF CheckCrashes
<1>2. DiscoveryOK' /\ BoundsOK'
  BY DEF RInv, DiscoveryOK, BoundsOK, CheckCrashes, Discovering
<1> QED BY <1>1, <1>2 DEF RInv

\* The target gets the System, without those that were taken for standalone.
LEMMA DiscoverEndsStep ==
  ASSUME RInv, DiscoverEnds
  PROVE  RInv' /\ Emptied(made, Without(made, standalone))
<1>1. /\ pc = "check" /\ todo = {} /\ pc' = "idle" /\ target' = None /\ standalone' = {}
      /\ owns' = [owns EXCEPT ![target] = made]
      /\ field' = Away /\ seen' = [n \in Names |-> {}] /\ lost' = {}
      /\ UNCHANGED <<made, sysName, todo, calls, changes>>
  BY DEF DiscoverEnds
<1>2. /\ made \in Impls /\ target \in Systems /\ owns[target] = None
      /\ sysName[made] \in SystemNames /\ \A s \in Systems : owns[s] # made
  BY <1>1 DEF RInv, DiscoveryOK, Discovering
<1>3. Emptied(made, Without(made, standalone))
  <2>1. /\ Without(made, standalone) \in [Names -> Proxies \cup {None}]
        /\ \A n \in Names : Without(made, standalone)[n] \in {None, map[made][n]}
    BY <1>2 DEF Without, RInv, MapsOK
  <2>2. Store([map EXCEPT ![made] = Without(made, standalone)], handle, Unwritten)
    BY <1>2 DEF DiscoverEnds, Without, RInv, MapsOK
  <2> QED BY <1>2, <2>1, <2>2, StoreEmpties DEF RInv
<1>4. made \in Nat /\ \A i \in Impls : i > made => i # made
  BY Numbers DEF RInv
<1>5. OwnersOK'
  <2>1. /\ owns'[target] = made /\ \A s \in Systems : s # target => owns'[s] = owns[s]
        /\ owns' \in [Systems -> Impls \cup {None, Moved}]
    BY <1>1, <1>2 DEF RInv, OwnersOK
  <2>2. \A s \in Systems : Live(s)' => owns'[s] <= made /\ sysName[owns'[s]] \in SystemNames
    BY <1>2, <1>4, <2>1 DEF RInv, OwnersOK, Live
  <2>3. \A s, t \in Systems : Live(s)' /\ owns'[s] = owns'[t] => s = t
    BY <1>2, <2>1 DEF RInv, OwnersOK, Live
  <2>4. \A i \in Impls : i > made => map'[i] = Empty
    BY <1>3, <1>4 DEF RInv, OwnersOK, Emptied
  <2> QED BY <1>1, <2>1, <2>2, <2>3, <2>4 DEF RInv, OwnersOK
<1>6. DiscoveryOK'
  BY <1>1 DEF DiscoveryOK, Away, Modes, Discovering
<1>7. BoundsOK'
  BY <1>1 DEF RInv, BoundsOK
<1> QED BY <1>3, <1>5, <1>6, <1>7 DEF RInv, Emptied

\* A participant that changes has been seen in its new mode.
LEMMA FieldChangesStep ==
  ASSUME RInv, NEW n \in Names, FieldChanges(n)
  PROVE  RInv'
<1>1. MapsOK' /\ ObjectsOK' /\ OwnersOK'
  BY PointersKept DEF FieldChanges
<1>2. PICK mode \in Modes : field' = [field EXCEPT ![n] = mode]
  BY DEF FieldChanges
<1>3. /\ seen' = [seen EXCEPT ![n] = @ \cup {field'[n]}] /\ changes < MaxChanges /\ changes' = changes + 1
      /\ UNCHANGED <<owns, made, sysName, map, proxy, handle, pc, target, todo, standalone, lost, calls>>
  BY DEF FieldChanges, pointers
<1>4. /\ field' \in [Names -> Modes] /\ field'[n] = mode
      /\ \A m \in Names : m # n => field'[m] = field[m]
  BY <1>2 DEF RInv, DiscoveryOK
<1>5. /\ seen' \in [Names -> SUBSET Modes] /\ seen'[n] = seen[n] \cup {mode}
      /\ \A m \in Names : m # n => seen'[m] = seen[m]
  BY <1>3, <1>4 DEF RInv, DiscoveryOK
<1>6. Held(made)' = Held(made) /\ Held(made) \subseteq Names
  BY <1>3 DEF Held
<1>7. DiscoveryOK'
  <2>1. ASSUME Discovering, NEW m \in Held(made)
        PROVE  /\ field'[m] \in seen'[m]
               /\ m \notin todo => TakenFor(m)'
    <3>1. field[m] \in seen[m] /\ (m \notin todo => TakenFor(m))
      BY <2>1 DEF RInv, DiscoveryOK
    <3>2. m \in Names
      BY <1>6
    <3> QED BY <1>3, <1>4, <1>5, <3>1, <3>2 DEF TakenFor
  <2>2. Discovering' <=> Discovering
    BY <1>3 DEF Discovering
  <2> QED BY <1>3, <1>4, <1>5, <1>6, <2>1, <2>2 DEF RInv, DiscoveryOK
<1>8. BoundsOK'
  BY <1>3, RegistryAssumption DEF RInv, BoundsOK
<1> QED BY <1>1, <1>7, <1>8 DEF RInv

-----------------------------------------------------------------------------
(* The theorems about states.                                               *)

\* No System is there at first, and nobody has a proxy.
THEOREM InitRInv == Init => RInv
<1> SUFFICES ASSUME Init PROVE RInv
  OBVIOUS
<1> USE RegistryAssumption DEF Init
<1>1. MapsOK
  BY DEF MapsOK, Empty
<1>2. Refs(map, handle) = {}
  BY DEF Refs, Empty
<1>3. ObjectsOK
  BY <1>2 DEF ObjectsOK
<1>4. OwnersOK
  BY DEF OwnersOK, Live
<1>5. DiscoveryOK
  BY DEF DiscoveryOK, Away, Modes, Discovering
<1>6. BoundsOK
  BY DEF BoundsOK
<1> QED BY <1>1, <1>3, <1>4, <1>5, <1>6 DEF RInv

\* Every call and every step of a discovery keeps the invariant.
THEOREM StepRInv == RInv /\ [Next]_vars => RInv'
<1> SUFFICES ASSUME RInv, [Next]_vars PROVE RInv'
  OBVIOUS
<1>1. CASE \E s \in Systems : Construct(s) \/ Destroy(s) \/ Clear(s) \/ DiscoverBegins(s)
  BY <1>1, ConstructStep, DestroyStep, RemoveStep, DiscoverBeginsStep
<1>2. CASE \E s, t \in Systems : Copy(s, t) \/ Assign(s, t) \/ Move(s, t)
  BY <1>2, CopyStep, AssignStep, MoveStep
<1>3. CASE \E s \in Systems, n \in Names :
             Add(s, n) \/ Remove(s, n) \/ GetParticipant(s, n) \/ CopyValues(s, n)
  BY <1>3, AddStep, RemoveStep, HandStep, WriteStep
<1>4. CASE Release
  BY <1>4, HandStep
<1>5. CASE \E v \in Values : SetValue(v)
  BY <1>5, WriteStep
<1>6. CASE \/ CheckMember \/ CheckAnswered \/ CheckUnanswered \/ CheckThrows \/ CheckCrashes
           \/ DiscoverEnds
  BY <1>6, CheckMemberStep, CheckEndsStep, CheckThrowsStep, CheckCrashesStep, DiscoverEndsStep
<1>7. CASE \E n \in Names : FieldChanges(n)
  BY <1>7, FieldChangesStep
<1>8. CASE UNCHANGED vars
  <2>1. UNCHANGED pointers /\ UNCHANGED <<field, pc, target, todo, standalone, seen, lost, calls, changes>>
    BY <1>8 DEF vars, discovery
  <2>2. MapsOK' /\ ObjectsOK' /\ OwnersOK'
    BY <2>1, PointersKept
  <2>3. DiscoveryOK' /\ BoundsOK'
    BY <2>1 DEF RInv, DiscoveryOK, BoundsOK, pointers, Held, Discovering, TakenFor
  <2> QED BY <2>2, <2>3 DEF RInv
<1> QED BY <1>1, <1>2, <1>3, <1>4, <1>5, <1>6, <1>7, <1>8 DEF Next

\* The invariant holds in every behaviour.
THEOREM Invariant == Spec => []RInv
BY InitRInv, StepRInv, PTL DEF Spec

\* Every variable has its type, and exactly the proxies that somebody refers to exist.
THEOREM TypeCorrect == Spec => []TypeOK
<1>1. RInv => TypeOK
  BY DEF RInv, TypeOK, MapsOK, ObjectsOK, OwnersOK, DiscoveryOK, BoundsOK
<1> QED BY <1>1, Invariant, PTL

\* After any calls the proxies of a System refer to its own logger, and exist.
THEOREM LoggersAreOwn == Spec => []OwnLogger
<1>1. ASSUME RInv, NEW s \in Systems, Live(s), NEW n \in Held(owns[s])
      PROVE  Logger(map[owns[s]][n]) = owns[s] /\ proxy[map[owns[s]][n]] # None
  <2>1. owns[s] \in Impls
    BY <1>1 DEF Live
  <2>2. map[owns[s]][n] \in Own(owns[s], n)
    BY <1>1, <2>1 DEF RInv, MapsOK, Held
  <2>3. proxy[map[owns[s]][n]] # None
    BY <1>1, <2>1, HeldExist DEF RInv
  <2> QED BY <2>2, <2>3 DEF Own, Logger
<1>2. RInv => OwnLogger
  BY <1>1 DEF OwnLogger
<1> QED BY <1>2, Invariant, PTL

\* A discovery returns those who took part all the time, and nobody who was never seen to,
\* unless it is a participant of FEP 2 whose answer was lost.
THEOREM DiscoveriesAreFaithful == Spec => DiscoveryIsFaithful
<1> DEFINE Kept(n) == /\ seen[n] = {"member"} => n \in Held(made)'
                      /\ n \in Held(made)' => "member" \in seen[n] \/ n \in Legacy \cap lost
           Faithful == DiscoveryReturns => \A n \in Held(made) : Kept(n)
<1>1. ASSUME RInv, [Next]_vars, DiscoveryReturns
      PROVE  DiscoverEnds
  BY <1>1 DEF DiscoveryReturns, Next, vars, pointers, Construct, Destroy, Clear, DiscoverBegins,
     Copy, Assign, Move, Add, Remove, GetParticipant, CopyValues, Release, SetValue, CheckMember,
     CheckAnswered, CheckUnanswered, CheckThrows, CheckCrashes, FieldChanges, Idle, Call
<1>2. ASSUME RInv, DiscoverEnds, NEW n \in Held(made)
      PROVE  Kept(n)
  <2>1. Emptied(made, Without(made, standalone)) /\ made' = made
    BY <1>2, DiscoverEndsStep DEF DiscoverEnds
  <2>2. n \in Names /\ map[made][n] # None
    BY DEF Held
  <2>3. n \in Held(made)' <=> n \notin standalone
    BY <2>1, <2>2 DEF Emptied, Without, Held
  <2>4. TakenFor(n)
    BY <1>2 DEF RInv, DiscoveryOK, DiscoverEnds, Discovering
  <2> QED BY <2>3, <2>4 DEF TakenFor
<1>3. RInv /\ [Next]_vars => Faithful
  BY <1>1, <1>2
<1>4. RInv /\ [Next]_vars => [Faithful]_vars
  BY <1>3
<1> QED BY <1>4, Invariant, PTL DEF Spec, DiscoveryIsFaithful

-----------------------------------------------------------------------------
(* The Systems as values.                                                   *)

HandleValue == IF handle = None THEN None ELSE proxy[handle]

Nobody == [n \in Names |-> None]

\* The participants of a System, by their values.
Members(s) == [n \in Names |-> IF map[owns[s]][n] = None THEN None ELSE proxy[map[owns[s]][n]]]
Contents == [name : Names, value : Values]

\* What a System is worth.
LEMMA ContentIs ==
  ASSUME RInv, NEW s \in Systems
  PROVE  /\ Live(s) => /\ Content[s] = [name |-> sysName[owns[s]], members |-> Members(s)]
                       /\ Members(s) \in [Names -> Contents \cup {None}]
                       /\ Content[s] \notin {None, Moved}
                       /\ \A n \in Names : Members(s)[n] # None <=> n \in Held(owns[s])
                       /\ \A n \in Held(owns[s]) : Members(s)[n] = proxy[map[owns[s]][n]]
         /\ ~Live(s) => Content[s] = owns[s] /\ Content[s] \in {None, Moved}
         /\ owns[s] = None <=> Content[s] = None
<1>1. CASE Live(s)
  <2>1. owns[s] \in Impls /\ sysName[owns[s]] \in SystemNames
    BY <1>1 DEF Live, RInv, OwnersOK
  <2>2. Content[s] = [name |-> sysName[owns[s]], members |-> Members(s)]
    BY <1>1 DEF Content, Members
  <2>3. ASSUME NEW n \in Names
        PROVE  /\ Members(s)[n] # None <=> n \in Held(owns[s])
               /\ n \in Held(owns[s]) => Members(s)[n] = proxy[map[owns[s]][n]]
               /\ Members(s)[n] \in Contents \cup {None}
    <3>1. CASE n \in Held(owns[s])
      <4>1. proxy[map[owns[s]][n]] \in Contents /\ proxy[map[owns[s]][n]] # None
        BY <2>1, <3>1, HeldExist DEF RInv, Contents
      <4> QED BY <3>1, <4>1 DEF Members, Held
    <3>2. CASE n \notin Held(owns[s])
      BY <3>2 DEF Members, Held
    <3> QED BY <3>1, <3>2
  <2>4. Members(s) \in [Names -> Contents \cup {None}]
    BY <2>3 DEF Members
  <2>5. Content[s] \in [name : SystemNames, members : [Names -> Contents \cup {None}]]
    BY <2>1, <2>2, <2>4
  <2>6. Content[s] \notin {None, Moved}
    BY <2>5, NoneAssumption DEF Contents
  <2>7. Held(owns[s]) \subseteq Names /\ owns[s] # None
    BY <2>1, RegistryAssumption DEF Held
  <2> QED BY <1>1, <2>2, <2>3, <2>4, <2>6, <2>7
<1>2. CASE ~Live(s)
  <2>1. owns[s] \in {None, Moved}
    BY <1>2 DEF Live, RInv, OwnersOK
  <2> QED BY <1>2, <2>1 DEF Content
<1> QED BY <1>1, <1>2

\* A System with an Implementation is worth its name and its members.
LEMMA LiveContent ==
  ASSUME RInv, NEW s \in Systems, Live(s)
  PROVE  /\ Content[s] = [name |-> sysName[owns[s]], members |-> Members(s)]
         /\ Content[s].members = Members(s) /\ Content[s] \notin {None, Moved}
         /\ Members(s) \in [Names -> Contents \cup {None}]
<1>1. /\ Content[s] = [name |-> sysName[owns[s]], members |-> Members(s)]
      /\ Members(s) \in [Names -> Contents \cup {None}]
      /\ Content[s] \notin {None, Moved}
  BY ContentIs
<1> QED BY <1>1

\* One System changes its value.
LEMMA ContentBecomes ==
  ASSUME NEW s \in Systems, NEW x, Content'[s] = x,
         \A t \in Systems : t # s => Content'[t] = Content[t]
  PROVE  Content' = [Content EXCEPT ![s] = x]
BY DEF Content

\* Two Systems change their values.
LEMMA ContentsBecome ==
  ASSUME NEW s \in Systems, NEW t \in Systems, s # t, NEW x, NEW y,
         Content'[s] = x, Content'[t] = y,
         \A u \in Systems \ {s, t} : Content'[u] = Content[u]
  PROVE  Content' = [Content EXCEPT ![s] = x, ![t] = y]
<1> DEFINE C == [Content EXCEPT ![s] = x, ![t] = y]
<1>1. \A u \in Systems : C[u] = IF u = t THEN y ELSE IF u = s THEN x ELSE Content[u]
  BY DEF Content
<1>2. C = [u \in Systems |-> C[u]] /\ Content' = [u \in Systems |-> Content'[u]]
  BY DEF Content
<1>3. \A u \in Systems : C[u] = Content'[u]
  BY <1>1
<1> HIDE DEF C
<1>4. C = Content'
  BY <1>2, <1>3
<1> QED BY <1>4 DEF C

\* A System keeps its value as long as nobody writes its objects and its map is the same.
LEMMA SameContent ==
  ASSUME RInv, KeepObjects, NEW s \in Systems, owns'[s] = owns[s],
         Live(s) => map'[owns[s]] = map[owns[s]] /\ sysName'[owns[s]] = sysName[owns[s]]
  PROVE  Content'[s] = Content[s]
<1>1. CASE Live(s)
  <2>1. owns[s] \in Impls /\ Live(s)'
    BY <1>1 DEF Live
  <2>2. ASSUME NEW n \in Names, map[owns[s]][n] # None
        PROVE  proxy'[map[owns[s]][n]] = proxy[map[owns[s]][n]]
    <3>1. map[owns[s]][n] \in Refs(map, handle) /\ map[owns[s]][n] \in Refs(map', handle')
      BY <1>1, <2>1, <2>2 DEF Refs
    <3> QED BY <3>1 DEF KeepObjects
  <2>3. Members(s)' = Members(s)
    BY <1>1, <2>2 DEF Members
  <2> QED BY <1>1, <2>1, <2>3 DEF Content, Members
<1>2. CASE ~Live(s)
  BY <1>2 DEF Content, Live
<1> QED BY <1>1, <1>2

\* When the proxy of the client stands for a member.
LEMMA BoundIs ==
  /\ Bound \subseteq Systems \X Names
  /\ \A s \in Systems, n \in Names :
       <<s, n>> \in Bound <=> Live(s) /\ handle # None /\ map[owns[s]][n] = handle
BY DEF Bound

\* The client's proxy stays what it is.
LEMMA HandleKept ==
  ASSUME KeepObjects, handle' = handle
  PROVE  HandleValue' = HandleValue
BY DEF KeepObjects, HandleValue, Refs

\* Some members of a System become others.
Become(s, N, member) ==
  /\ Content' = [Content EXCEPT ![s].members =
                   [n \in Names |-> IF n \in N THEN member[n] ELSE Members(s)[n]]]
  /\ Bound' = Bound \ ({s} \X N)
  /\ HandleValue' = HandleValue

\* The System that has Implementation i, and nobody else, gets other proxies under the names N.
LEMMA MembersBecome ==
  ASSUME RInv, KeepObjects, handle' = handle, UNCHANGED <<owns, sysName>>,
         NEW s \in Systems, Live(s), NEW N \in SUBSET Names, NEW member,
         \A j \in Impls : j # owns[s] => map'[j] = map[j],
         \A n \in Names \ N : map'[owns[s]][n] = map[owns[s]][n],
         \A n \in N :
           \/ map'[owns[s]][n] = None /\ member[n] = None
           \/ /\ map'[owns[s]][n] \notin {None, handle}
              /\ proxy'[map'[owns[s]][n]] = member[n]
  PROVE  Become(s, N, member)
<1>1. owns[s] \in Impls /\ Live(s)'
  BY DEF Live
<1>2. \A t \in Systems : t # s => Content'[t] = Content[t]
  <2>1. \A t \in Systems : t # s /\ Live(t) => owns[t] # owns[s] /\ owns[t] \in Impls
    BY DEF RInv, OwnersOK, Live
  <2> QED BY <2>1, SameContent
<1> DEFINE M == [n \in Names |-> IF n \in N THEN member[n] ELSE Members(s)[n]]
<1>3. Members(s)' = M
  <2>1. ASSUME NEW n \in Names PROVE Members(s)'[n] = M[n]
    <3>1. CASE n \in N
      BY <3>1 DEF Members
    <3>2. CASE n \notin N /\ map[owns[s]][n] = None
      BY <3>2 DEF Members
    <3>3. CASE n \notin N /\ map[owns[s]][n] # None
      <4>1. map'[owns[s]][n] = map[owns[s]][n]
        BY <3>3
      <4>2. map[owns[s]][n] \in Refs(map, handle) /\ map[owns[s]][n] \in Refs(map', handle')
        BY <1>1, <3>3, <4>1 DEF Refs
      <4>3. proxy'[map[owns[s]][n]] = proxy[map[owns[s]][n]]
        BY <4>2 DEF KeepObjects
      <4> QED BY <3>3, <4>1, <4>3 DEF Members
    <3> QED BY <3>1, <3>2, <3>3
  <2> QED BY <2>1 DEF Members
<1>4. Content[s] = [name |-> sysName[owns[s]], members |-> Members(s)]
  BY ContentIs
<1>5. Content'[s] = [name |-> sysName[owns[s]], members |-> M]
  <2>1. Content'[s] = [name |-> sysName'[owns'[s]], members |-> Members(s)']
    BY <1>1 DEF Content, Members
  <2> QED BY <1>3, <2>1
<1>6. Content' = [Content EXCEPT ![s].members = M]
  <2> HIDE DEF M
  <2>1. Content' = [Content EXCEPT ![s] = [name |-> sysName[owns[s]], members |-> M]]
    BY <1>2, <1>5, ContentBecomes
  <2>2. [Content EXCEPT ![s].members = M] = [Content EXCEPT ![s] = [Content[s] EXCEPT !.members = M]]
    BY DEF Content
  <2>3. [Content[s] EXCEPT !.members = M] = [name |-> sysName[owns[s]], members |-> M]
    BY <1>4
  <2> QED BY <2>1, <2>2, <2>3
<1>7. Bound' = Bound \ ({s} \X N)
  <2>1. ASSUME NEW t \in Systems, NEW n \in Names
        PROVE  <<t, n>> \in Bound' <=> <<t, n>> \in Bound /\ <<t, n>> \notin {s} \X N
    <3>1. /\ <<t, n>> \in Bound <=> Live(t) /\ handle # None /\ map[owns[t]][n] = handle
          /\ <<t, n>> \in Bound' <=> Live(t) /\ handle # None /\ map'[owns[t]][n] = handle
      BY DEF Bound, Live
    <3>2. CASE t = s /\ n \in N
      BY <3>1, <3>2
    <3>3. CASE t = s /\ n \notin N
      BY <3>1, <3>3
    <3>4. CASE t # s
      <4>1. Live(t) => owns[t] # owns[s] /\ owns[t] \in Impls
        BY <3>4 DEF RInv, OwnersOK, Live
      <4> QED BY <3>1, <3>4, <4>1
    <3> QED BY <3>2, <3>3, <3>4
  <2>2. Bound \subseteq Systems \X Names /\ Bound' \subseteq Systems \X Names
    BY DEF Bound
  <2> QED BY <2>1, <2>2
<1>8. HandleValue' = HandleValue
  BY HandleKept
<1> QED BY <1>6, <1>7, <1>8 DEF Become

\* New proxies are members with the values they got.
LEMMA FilledBecome ==
  ASSUME RInv, NEW s \in Systems, Live(s), NEW N \in SUBSET Names, NEW value,
         Filled(owns[s], N, value), UNCHANGED <<owns, sysName>>
  PROVE  Become(s, N, [n \in N |-> [name |-> n, value |-> value[n]]])
<1>1. /\ KeepObjects /\ handle' = handle
      /\ \A j \in Impls : j # owns[s] => map'[j] = map[j]
      /\ \A n \in Names \ N : map'[owns[s]][n] = map[owns[s]][n]
      /\ \A n \in N : /\ map'[owns[s]][n] \in Own(owns[s], n) /\ map'[owns[s]][n] \notin Refs(map, handle)
                      /\ proxy'[map'[owns[s]][n]] = [name |-> n, value |-> value[n]]
  BY DEF Filled
<1>2. handle # None => handle \in Refs(map, handle)
  BY DEF Refs
<1>3. \A n \in N : None \notin Own(owns[s], n)
  BY NoneAssumption DEF Own, Proxies, Live
<1> DEFINE member == [n \in N |-> [name |-> n, value |-> value[n]]]
<1>4. \A n \in N : /\ map'[owns[s]][n] \notin {None, handle}
                   /\ proxy'[map'[owns[s]][n]] = member[n]
  BY <1>1, <1>2, <1>3
<1> HIDE DEF member
<1>5. Become(s, N, member)
  BY <1>1, <1>4, MembersBecome
<1> QED BY <1>5 DEF member

\* Proxies that go are no members any more.
LEMMA EmptiedBecome ==
  ASSUME RInv, NEW s \in Systems, Live(s), NEW N \in SUBSET Names,
         Emptied(owns[s], Without(owns[s], N)), UNCHANGED <<owns, sysName>>
  PROVE  Become(s, N, Nobody)
<1>1. /\ KeepObjects /\ handle' = handle
      /\ \A j \in Impls : j # owns[s] => map'[j] = map[j]
      /\ \A n \in Names \ N : map'[owns[s]][n] = map[owns[s]][n]
      /\ \A n \in N : map'[owns[s]][n] = None
  BY DEF Emptied, Without
<1>2. \A n \in N : Nobody[n] = None
  BY DEF Nobody
<1> QED BY <1>1, <1>2, MembersBecome

-----------------------------------------------------------------------------
(* Every call is the one of the contract, every step of a discovery but the *)
(* last is nothing to it.                                                   *)

\* What the names of a System come to when it is copied.
LEMMA ByNameIs ==
  ASSUME RInv, NEW t \in Systems, Live(t)
  PROVE  Contract!ByName(Members(t)) =
           [m \in Names |-> IF m \in NamesIn(owns[t])
                              THEN [name |-> m, value |-> ValuesIn(owns[t])[m]] ELSE None]
<1>1. owns[t] \in Impls /\ Names \subseteq Nat
  BY RegistryAssumption DEF Live
<1>2. /\ \A n \in Names : Members(t)[n] # None <=> n \in Held(owns[t])
      /\ \A n \in Held(owns[t]) : Members(t)[n] = proxy[map[owns[t]][n]]
      /\ Held(owns[t]) \subseteq Names
  BY ContentIs DEF Held
<1> DEFINE keys(m) == {n \in Names : Members(t)[n] # None /\ Members(t)[n].name = m}
           chosen(m) == CHOOSE n \in keys(m) : \A k \in keys(m) : k <= n
<1>3. Contract!ByName(Members(t)) =
        [m \in Names |-> IF keys(m) = {} THEN None ELSE Members(t)[chosen(m)]]
  BY DEF Contract!ByName
<1>4. ASSUME NEW m \in Names
      PROVE  (IF keys(m) = {} THEN None ELSE Members(t)[chosen(m)]) =
             (IF m \in NamesIn(owns[t]) THEN [name |-> m, value |-> ValuesIn(owns[t])[m]] ELSE None)
  <2>1. keys(m) = {n \in Held(owns[t]) : proxy[map[owns[t]][n]].name = m}
    BY <1>2
  <2>2. keys(m) = {} <=> m \notin NamesIn(owns[t])
    BY <2>1 DEF NamesIn
  <2>3. ASSUME m \in NamesIn(owns[t])
        PROVE  Members(t)[chosen(m)] = [name |-> m, value |-> ValuesIn(owns[t])[m]]
    <3>1. /\ LastOf(owns[t], m) \in Held(owns[t])
          /\ proxy[map[owns[t]][LastOf(owns[t], m)]].name = m
          /\ \A n \in Held(owns[t]) : proxy[map[owns[t]][n]].name = m => n <= LastOf(owns[t], m)
      BY <1>1, <2>3, LastOfIs DEF RInv
    <3>2. LastOf(owns[t], m) \in keys(m) /\ \A k \in keys(m) : k <= LastOf(owns[t], m)
      BY <2>1, <3>1
    <3>3. chosen(m) \in keys(m) /\ \A k \in keys(m) : k <= chosen(m)
      BY <3>2
    <3>4. chosen(m) = LastOf(owns[t], m)
      <4>1. chosen(m) \in Nat /\ LastOf(owns[t], m) \in Nat
        BY <1>1, <3>2, <3>3
      <4> QED BY <3>2, <3>3, <4>1
    <3>5. Members(t)[chosen(m)] = proxy[map[owns[t]][LastOf(owns[t], m)]]
      BY <1>2, <3>1, <3>4
    <3>6. proxy[map[owns[t]][LastOf(owns[t], m)]] \in [name : Names, value : Values]
      BY <1>1, <3>1, HeldExist DEF RInv
    <3>7. ValuesIn(owns[t])[m] = proxy[map[owns[t]][LastOf(owns[t], m)]].value
      BY <2>3 DEF ValuesIn
    <3> QED BY <3>1, <3>5, <3>6, <3>7
  <2> QED BY <2>2, <2>3
<1> QED BY <1>3, <1>4

\* The values are those of a System without participants when it is made.
LEMMA ConstructContract ==
  ASSUME RInv, NEW s \in Systems, Construct(s)
  PROVE  Contract!Construct(s)
<1>1. PICK name \in SystemNames : NewImplementation(name)
  BY DEF Construct
<1>2. /\ owns[s] = None /\ owns' = [owns EXCEPT ![s] = made'] /\ UNCHANGED <<map, proxy, handle>>
      /\ made' = made + 1 /\ made' \in Impls /\ made' > made
      /\ sysName' = [sysName EXCEPT ![made'] = name]
  <2>1. made' = made + 1 /\ made' \in Impls /\ sysName' = [sysName EXCEPT ![made + 1] = name]
    BY <1>1 DEF NewImplementation
  <2>2. made' > made
    BY <2>1, Numbers DEF RInv
  <2> QED BY <2>1, <2>2 DEF Construct
<1>3. KeepObjects
  BY <1>2 DEF KeepObjects
<1>4. /\ owns'[s] = made' /\ sysName'[made'] = name /\ map[made'] = Empty
      /\ \A t \in Systems : t # s => owns'[t] = owns[t]
      /\ \A t \in Systems : Live(t) => owns[t] # made' /\ sysName'[owns[t]] = sysName[owns[t]]
  BY <1>2, LiveIsMade DEF RInv, OwnersOK
<1>5. \A t \in Systems : t # s => Content'[t] = Content[t]
  BY <1>2, <1>3, <1>4, SameContent
<1>6. Content'[s] = [name |-> name, members |-> Nobody]
  BY <1>2, <1>4 DEF Content, Live, Empty, Nobody
<1>7. Content' = [Content EXCEPT ![s] = [name |-> name, members |-> Nobody]]
  BY <1>5, <1>6, ContentBecomes
<1>8. Bound' = Bound
  <2>1. ASSUME NEW t \in Systems, NEW n \in Names
        PROVE  <<t, n>> \in Bound' <=> <<t, n>> \in Bound
    <3>1. CASE t = s
      <4>1. map[made'][n] = None /\ owns[s] \notin Impls
        BY <1>2, <1>4, RegistryAssumption DEF Empty
      <4> QED BY <1>2, <1>4, <3>1, <4>1 DEF Bound, Live
    <3>2. CASE t # s
      BY <1>2, <1>4, <3>2 DEF Bound, Live
    <3> QED BY <3>1, <3>2
  <2>2. Bound \subseteq Systems \X Names /\ Bound' \subseteq Systems \X Names
    BY DEF Bound
  <2> QED BY <2>1, <2>2
<1>9. Content[s] = None
  BY <1>2, ContentIs
<1> QED BY <1>2, <1>7, <1>8, <1>9 DEF Contract!Construct, Contract!Nobody, Nobody

\* add, remove and clear change members and unbind the client's proxy from them.
LEMMA AddContract ==
  ASSUME RInv, NEW s \in Systems, NEW n \in Names, Add(s, n)
  PROVE  Contract!Add(s, n)
<1>1. Live(s) /\ UNCHANGED <<owns, made, sysName>>
  BY DEF Add
<1>2. Become(s, {n}, [k \in {n} |-> [name |-> k, value |-> Defaults[k]]])
  BY <1>1, AddStep, FilledBecome
<1>3. /\ Content' = [Content EXCEPT ![s].members =
                       [k \in Names |-> IF k \in {n} THEN [name |-> n, value |-> Default]
                                                     ELSE Members(s)[k]]]
      /\ Bound' = Bound \ ({s} \X {n}) /\ HandleValue' = HandleValue
  BY <1>2 DEF Become, Defaults
<1>4. /\ Content[s].members = Members(s) /\ Content[s] \notin {None, Moved}
      /\ Members(s) \in [Names -> Contents \cup {None}]
  BY <1>1, LiveContent
<1>5. [Content[s].members EXCEPT ![n] = [name |-> n, value |-> Default]] =
        [k \in Names |-> IF k \in {n} THEN [name |-> n, value |-> Default] ELSE Members(s)[k]]
  BY <1>4
<1>6. {s} \X {n} = {<<s, n>>}
  OBVIOUS
<1> QED BY <1>3, <1>4, <1>5, <1>6
        DEF Contract!Add, Contract!Valid, Contract!Change, Contract!Unbind, HandleValue

\* remove takes one member away and clear all.
LEMMA RemoveContract ==
  ASSUME RInv, NEW s \in Systems, NEW N \in SUBSET Names,
         \/ \E n \in Names : N = {n} /\ Remove(s, n)
         \/ N = Names /\ Clear(s)
  PROVE  Contract!Remove(s, N)
<1>1. Live(s) /\ UNCHANGED <<owns, made, sysName>>
  BY DEF Remove, Clear
<1>2. Become(s, N, Nobody)
  BY <1>1, RemoveStep, EmptiedBecome
<1>3. /\ Content' = [Content EXCEPT ![s].members =
                       [k \in Names |-> IF k \in N THEN None ELSE Members(s)[k]]]
      /\ Bound' = Bound \ ({s} \X N) /\ HandleValue' = HandleValue
  BY <1>2 DEF Become, Nobody
<1>4. Content[s].members = Members(s) /\ Content[s] \notin {None, Moved}
  BY <1>1, LiveContent
<1> QED BY <1>3, <1>4 DEF Contract!Remove, Contract!Valid, Contract!Change, Contract!Unbind, HandleValue

\* An assignment gives the members of the other System, and keeps the name and the rest.
LEMMA AssignContract ==
  ASSUME RInv, NEW s \in Systems, NEW t \in Systems, Assign(s, t)
  PROVE  Contract!Assign(s, t)
<1>1. Live(s) /\ Live(t) /\ owns[t] \in Impls /\ UNCHANGED <<owns, made, sysName>>
  BY DEF Assign, Live
<1> DEFINE N == NamesIn(owns[t])
           given == [n \in N |-> [name |-> n, value |-> ValuesIn(owns[t])[n]]]
           new == Contract!ByName(Members(t))
<1>2. N \in SUBSET Names
  BY <1>1, HeldExist DEF NamesIn, RInv
<1>3. Become(s, N, given)
  BY <1>1, <1>2, AssignStep, FilledBecome
<1>4. /\ Content[s].members = Members(s) /\ Content[s] \notin {None, Moved}
      /\ Content[t].members = Members(t) /\ Content[t] \notin {None, Moved}
  BY <1>1, LiveContent
<1>5. new = [m \in Names |-> IF m \in N THEN given[m] ELSE None]
  BY <1>1, ByNameIs
<1>6. \A m \in N : given[m] # None
  <2>1. \A m \in N : ValuesIn(owns[t])[m] \in Values
    BY <1>1, LastOfIs, HeldExist DEF ValuesIn, RInv
  <2>2. \A m \in N : given[m] \in [name : Names, value : Values]
    BY <1>2, <2>1
  <2> QED BY <2>2, NoneAssumption
<1> DEFINE kept == Names \ N
           members == [m \in Names |-> IF m \in N THEN given[m] ELSE Members(s)[m]]
<1>7. /\ kept = {m \in Names : new[m] = None} /\ Names \ kept = N
      /\ [m \in Names |-> IF m \in kept THEN Members(s)[m] ELSE new[m]] = members
  <2> HIDE DEF N, given, new
  <2> QED BY <1>2, <1>5, <1>6
<1>8. /\ Content' = [Content EXCEPT ![s].members = members]
      /\ Bound' = Bound \ ({s} \X N) /\ HandleValue' = HandleValue
  BY <1>3 DEF Become
<1> HIDE DEF N, given, kept, members
<1>9. Content' = [Content EXCEPT ![s] = [name |-> Content[s].name, members |-> members]]
  <2>1. Content[s] = [name |-> sysName[owns[s]], members |-> Members(s)]
    BY <1>1, LiveContent
  <2>2. [Content[s] EXCEPT !.members = members] = [name |-> Content[s].name, members |-> members]
    BY <2>1
  <2> QED BY <1>8, <2>2
<1>10. kept \in SUBSET {m \in Names : new[m] = None}
  BY <1>7
<1> QED BY <1>4, <1>7, <1>8, <1>9, <1>10
        DEF Contract!Assign, Contract!Valid, Contract!Unbind, HandleValue

\* A copy is worth what the participants of the other are, by their names.
LEMMA CopyContract ==
  ASSUME RInv, NEW s \in Systems, NEW t \in Systems, Copy(s, t)
  PROVE  Contract!Copy(s, t)
<1>1. /\ owns[s] = None /\ Live(t) /\ owns[t] \in Impls /\ NewImplementation(sysName[owns[t]])
      /\ owns' = [owns EXCEPT ![s] = made']
  BY DEF Copy, Live
<1>2. /\ made' = made + 1 /\ made' \in Impls /\ made' > made
      /\ sysName' = [sysName EXCEPT ![made'] = sysName[owns[t]]]
  <2>1. made' = made + 1 /\ made' \in Impls /\ sysName' = [sysName EXCEPT ![made + 1] = sysName[owns[t]]]
    BY <1>1 DEF NewImplementation
  <2>2. made' > made
    BY <2>1, Numbers DEF RInv
  <2> QED BY <2>1, <2>2
<1> DEFINE N == NamesIn(owns[t])
           V == ValuesIn(owns[t])
<1>3. /\ owns'[s] = made' /\ sysName'[made'] = sysName[owns[t]] /\ map[made'] = Empty
      /\ \A u \in Systems : u # s => owns'[u] = owns[u]
      /\ \A u \in Systems : Live(u) => owns[u] # made' /\ sysName'[owns[u]] = sysName[owns[u]]
  BY <1>1, <1>2, LiveIsMade DEF RInv, OwnersOK
<1> HIDE DEF N, V
<1>4. /\ KeepObjects /\ handle' = handle
      /\ \A j \in Impls : j # made' => map'[j] = map[j]
      /\ \A n \in Names \ N : map'[made'][n] = None
      /\ \A n \in N : /\ map'[made'][n] \in Own(made', n) /\ map'[made'][n] \notin Refs(map, handle)
                      /\ proxy'[map'[made'][n]] = [name |-> n, value |-> V[n]]
  BY <1>3, CopyStep DEF Filled, Empty, N, V
<1>5. N \in SUBSET Names
  BY <1>1, HeldExist DEF NamesIn, RInv, N
<1>6. \A n \in N : map'[made'][n] \notin {None, handle}
  <2>1. handle # None => handle \in Refs(map, handle)
    BY DEF Refs
  <2>2. \A n \in N : None \notin Own(made', n)
    BY <1>2, <1>5, NoneAssumption DEF Own, Proxies
  <2> QED BY <1>4, <2>1, <2>2
<1>7. \A u \in Systems : u # s => Content'[u] = Content[u]
  <2>1. \A u \in Systems : u # s /\ Live(u) => map'[owns[u]] = map[owns[u]]
    BY <1>3, <1>4 DEF Live
  <2> QED BY <1>3, <1>4, <2>1, SameContent
<1> DEFINE M == [n \in Names |-> IF n \in N THEN [name |-> n, value |-> V[n]] ELSE None]
<1>8. Content'[s] = [name |-> sysName[owns[t]], members |-> M]
  <2>1. Members(s)' = M
    BY <1>3, <1>4, <1>5, <1>6 DEF Members
  <2>2. Content'[s] = [name |-> sysName'[owns'[s]], members |-> Members(s)']
    BY <1>2, <1>3 DEF Content, Live, Members
  <2> QED BY <1>3, <2>1, <2>2
<1>9. Content' = [Content EXCEPT ![s] = [name |-> sysName[owns[t]], members |-> M]]
  BY <1>7, <1>8, ContentBecomes
<1>10. Contract!ByName(Members(t)) = M
  BY <1>1, ByNameIs DEF N, V
<1>11. /\ Content[t] = [name |-> sysName[owns[t]], members |-> Members(t)]
       /\ Content[t] \notin {None, Moved} /\ Content[s] = None
  BY <1>1, LiveContent, ContentIs
<1>12. Bound' = Bound
  <2>1. ASSUME NEW u \in Systems, NEW n \in Names
        PROVE  <<u, n>> \in Bound' <=> <<u, n>> \in Bound
    <3>1. CASE u = s
      <4>1. map'[made'][n] \notin {None, handle} \/ map'[made'][n] = None
        BY <1>4, <1>6
      <4>2. owns[s] \notin Impls
        BY <1>1, RegistryAssumption
      <4> QED BY <1>3, <1>4, <3>1, <4>1, <4>2 DEF Bound, Live
    <3>2. CASE u # s
      BY <1>3, <1>4, <3>2 DEF Bound, Live
    <3> QED BY <3>1, <3>2
  <2>2. Bound \subseteq Systems \X Names /\ Bound' \subseteq Systems \X Names
    BY DEF Bound
  <2> QED BY <2>1, <2>2
<1>13. HandleValue' = HandleValue
  BY <1>4, HandleKept
<1>14. [Content[t] EXCEPT !.members = Contract!ByName(Members(t))] =
         [name |-> sysName[owns[t]], members |-> M] /\ Content[t].members = Members(t)
  BY <1>10, <1>11
<1> HIDE DEF M
<1>15. Content' = [Content EXCEPT ![s] = [Content[t] EXCEPT !.members = Contract!ByName(@)]]
  BY <1>9, <1>14
<1> QED BY <1>11, <1>12, <1>13, <1>15 DEF Contract!Copy, Contract!Valid, HandleValue

\* The values, and the members that the client's proxy stands for, move.
LEMMA MoveContract ==
  ASSUME RInv, NEW s \in Systems, NEW t \in Systems, Move(s, t)
  PROVE  Contract!Move(s, t)
<1>1. /\ s # t /\ owns[t] # None /\ UNCHANGED <<made, sysName, map, proxy, handle>>
      /\ owns' = [owns EXCEPT ![s] = owns[t], ![t] = IF owns[s] = None THEN Moved ELSE owns[s]]
  BY DEF Move
<1>2. /\ owns'[s] = owns[t] /\ owns'[t] = (IF owns[s] = None THEN Moved ELSE owns[s])
      /\ \A u \in Systems \ {s, t} : owns'[u] = owns[u]
  BY <1>1 DEF RInv, OwnersOK
<1>3. Moved \notin Impls /\ None \notin Impls
  BY RegistryAssumption
<1>4. /\ Content'[s] = Content[t]
      /\ Content'[t] = IF owns[s] = None THEN Moved ELSE Content[s]
      /\ \A u \in Systems \ {s, t} : Content'[u] = Content[u]
  BY <1>1, <1>2, <1>3 DEF Content, Live
<1>5. owns[s] = None <=> Content[s] = None
  BY ContentIs
<1>6. Content[t] # None
  BY <1>1, ContentIs
<1>7. Content' = [Content EXCEPT ![s] = Content[t],
                                 ![t] = IF Content[s] = None THEN Moved ELSE Content[s]]
  BY <1>1, <1>4, <1>5, ContentsBecome
<1> DEFINE to(b) == <<IF b[1] = t THEN s ELSE IF b[1] = s THEN t ELSE b[1], b[2]>>
<1>8. Bound' = {to(b) : b \in Bound}
  <2>1. ASSUME NEW u \in Systems, NEW n \in Names
        PROVE  <<u, n>> \in Bound <=> Live(u) /\ handle # None /\ map[owns[u]][n] = handle
    BY BoundIs
  <2>2. ASSUME NEW u \in Systems, NEW n \in Names
        PROVE  <<u, n>> \in Bound' <=> owns'[u] \in Impls /\ handle # None /\ map[owns'[u]][n] = handle
    BY <1>1 DEF Bound, Live
  <2>3. ASSUME NEW n \in Names
        PROVE  /\ <<s, n>> \in Bound' <=> <<t, n>> \in Bound
               /\ <<t, n>> \in Bound' <=> <<s, n>> \in Bound
               /\ \A u \in Systems \ {s, t} : <<u, n>> \in Bound' <=> <<u, n>> \in Bound
    BY <1>2, <1>3, <2>1, <2>2 DEF Live
  <2>4. Bound \subseteq Systems \X Names /\ Bound' \subseteq Systems \X Names
    BY DEF Bound
  <2>5. ASSUME NEW b \in Bound PROVE to(b) \in Bound'
    <3>1. PICK u \in Systems, n \in Names : b = <<u, n>>
      BY <2>4
    <3> QED BY <1>1, <2>3, <2>5, <3>1
  <2>6. ASSUME NEW c \in Bound' PROVE \E b \in Bound : c = to(b)
    <3>1. PICK u \in Systems, n \in Names : c = <<u, n>>
      BY <2>4
    <3>2. CASE u = s
      <4>1. <<t, n>> \in Bound /\ c = to(<<t, n>>)
        BY <2>3, <3>1, <3>2
      <4> QED BY <4>1
    <3>3. CASE u = t
      <4>1. <<s, n>> \in Bound /\ c = to(<<s, n>>)
        BY <1>1, <2>3, <3>1, <3>3
      <4> QED BY <4>1
    <3>4. CASE u \notin {s, t}
      <4>1. <<u, n>> \in Bound /\ c = to(<<u, n>>)
        BY <2>3, <3>1, <3>4
      <4> QED BY <4>1
    <3> QED BY <3>2, <3>3, <3>4
  <2> HIDE DEF to
  <2> QED BY <2>5, <2>6
<1>9. HandleValue' = HandleValue
  BY <1>1 DEF HandleValue
<1> QED BY <1>1, <1>6, <1>7, <1>8, <1>9 DEF Contract!Move, HandleValue

\* A System that ends is worth nothing, and the client's proxy stands for no member of it.
LEMMA DestroyContract ==
  ASSUME RInv, NEW s \in Systems, Destroy(s)
  PROVE  Contract!Destroy(s)
<1>1. owns[s] # None /\ owns' = [owns EXCEPT ![s] = None] /\ UNCHANGED <<made, sysName>>
  BY DEF Destroy
<1>2. KeepObjects /\ handle' = handle /\ \A j \in Impls : j # owns[s] => map'[j] = map[j]
  <2>1. CASE Live(s)
    BY <2>1, DestroyStep DEF Emptied
  <2>2. CASE ~Live(s)
    BY <2>2 DEF Destroy, KeepObjects
  <2> QED BY <2>1, <2>2
<1>3. owns'[s] = None /\ (\A u \in Systems : u # s => owns'[u] = owns[u]) /\ None \notin Impls
  BY <1>1, RegistryAssumption DEF RInv, OwnersOK
<1>4. \A u \in Systems : u # s /\ Live(u) => map'[owns[u]] = map[owns[u]]
  BY <1>2 DEF RInv, OwnersOK, Live
<1>5. \A u \in Systems : u # s => Content'[u] = Content[u]
  BY <1>1, <1>2, <1>3, <1>4, SameContent
<1>6. Content'[s] = None
  BY <1>3 DEF Content, Live
<1>7. Content' = [Content EXCEPT ![s] = None]
  BY <1>5, <1>6, ContentBecomes
<1>8. Bound' = Bound \ ({s} \X Names)
  <2>1. ASSUME NEW u \in Systems, NEW n \in Names
        PROVE  <<u, n>> \in Bound' <=> <<u, n>> \in Bound /\ <<u, n>> \notin {s} \X Names
    <3>1. CASE u = s
      BY <1>3, <3>1 DEF Bound, Live
    <3>2. CASE u # s
      BY <1>2, <1>3, <1>4, <3>2 DEF Bound, Live
    <3> QED BY <3>1, <3>2
  <2>2. Bound \subseteq Systems \X Names /\ Bound' \subseteq Systems \X Names
    BY DEF Bound
  <2> QED BY <2>1, <2>2
<1>9. HandleValue' = HandleValue
  BY <1>2, HandleKept
<1>10. Content[s] # None
  BY <1>1, ContentIs
<1> QED BY <1>7, <1>8, <1>9, <1>10 DEF Contract!Destroy, Contract!Unbind, HandleValue


\* The client's proxy stands for the member that was asked for, and for no other: no two
\* Systems hold one proxy, and no System holds it twice.
LEMMA GetContract ==
  ASSUME RInv, NEW s \in Systems, NEW n \in Names, GetParticipant(s, n)
  PROVE  Contract!GetParticipant(s, n)
<1>1. /\ Live(s) /\ owns[s] \in Impls /\ n \in Held(owns[s])
      /\ UNCHANGED <<owns, made, sysName>> /\ Store(map, map[owns[s]][n], Unwritten)
  BY DEF GetParticipant, Live, Held
<1>2. map[owns[s]][n] \in Refs(map, handle) /\ proxy[map[owns[s]][n]] # None /\ map[owns[s]][n] # None
  BY <1>1, HeldExist DEF RInv, Held
<1>3. KeepObjects /\ map' = map /\ handle' = map[owns[s]][n]
  BY <1>1, <1>2, StoreHands DEF RInv
<1>4. Content' = Content
  <2>1. \A u \in Systems : Content'[u] = Content[u]
    BY <1>1, <1>3, SameContent
  <2> QED BY <2>1 DEF Content
<1>5. HandleValue' = Members(s)[n]
  <2>1. map[owns[s]][n] \in Refs(map', handle')
    BY <1>2, <1>3 DEF Refs
  <2> QED BY <1>2, <1>3, <2>1 DEF HandleValue, Members, KeepObjects
<1>6. Bound' = {<<s, n>>}
  <2>1. ASSUME NEW u \in Systems, NEW k \in Names
        PROVE  <<u, k>> \in Bound' <=> u = s /\ k = n
    <3>1. <<u, k>> \in Bound' <=> Live(u) /\ map[owns[u]][k] = map[owns[s]][n]
      BY <1>1, <1>2, <1>3 DEF Bound, Live
    <3>2. ASSUME Live(u), map[owns[u]][k] = map[owns[s]][n] PROVE u = s /\ k = n
      <4>1. owns[u] \in Impls
        BY <3>2 DEF Live
      <4>2. map[owns[u]][k] \in Own(owns[u], k) /\ map[owns[s]][n] \in Own(owns[s], n)
        BY <1>1, <1>2, <3>2, <4>1 DEF RInv, MapsOK
      <4>3. owns[u] = owns[s] /\ k = n
        BY <3>2, <4>2 DEF Own
      <4> QED BY <1>1, <3>2, <4>3 DEF RInv, OwnersOK
    <3> QED BY <1>1, <3>1, <3>2
  <2>2. Bound' \subseteq Systems \X Names
    BY DEF Bound
  <2> QED BY <2>1, <2>2
<1>7. /\ Content[s].members = Members(s) /\ Content[s] \notin {None, Moved}
      /\ Members(s)[n] # None
  BY <1>1, LiveContent, ContentIs
<1> QED BY <1>4, <1>5, <1>6, <1>7 DEF Contract!GetParticipant, Contract!Valid, HandleValue

\* The proxy of the client exists.
LEMMA HandleExists ==
  ASSUME RInv, handle # None
  PROVE  /\ handle \in Proxies /\ proxy[handle] \in Contents
         /\ HandleValue = proxy[handle] /\ HandleValue # None
<1>1. handle \in Refs(map, handle) /\ handle \in Proxies
  BY DEF RInv, ObjectsOK, Refs
<1> QED BY <1>1 DEF RInv, ObjectsOK, HandleValue, Contents

\* A proxy that the client lets go stands for nothing, and nothing else changes.
LEMMA ReleaseContract ==
  ASSUME RInv, Release
  PROVE  Contract!Release
<1>1. handle # None /\ Store(map, None, Unwritten) /\ UNCHANGED <<owns, made, sysName>>
  BY DEF Release
<1>2. KeepObjects /\ map' = map /\ handle' = None
  BY <1>1, StoreHands DEF RInv
<1>3. Content' = Content
  <2>1. \A u \in Systems : Content'[u] = Content[u]
    BY <1>1, <1>2, SameContent
  <2> QED BY <2>1 DEF Content
<1>4. Bound' = {} /\ HandleValue' = None
  BY <1>2 DEF Bound, HandleValue
<1>5. HandleValue # None
  BY <1>1, HandleExists
<1> QED BY <1>3, <1>4, <1>5 DEF Contract!Release, HandleValue

\* One object is written.
Writes(o, c) ==
  /\ o \in Proxies /\ c # None /\ proxy[o] # None
  /\ proxy' = [proxy EXCEPT ![o] = c]
  /\ UNCHANGED <<owns, sysName, map, handle>>

WrittenMembers(s, o, c) == [n \in Names |-> IF map[owns[s]][n] = o THEN c ELSE Members(s)[n]]

\* A call that writes one object changes the values of the members that are that object.
LEMMA WriteChanges ==
  ASSUME RInv, NEW o, NEW c, Writes(o, c), NEW s \in Systems, Live(s)
  PROVE  Content'[s] = [name |-> sysName[owns[s]], members |-> WrittenMembers(s, o, c)]
<1> USE DEF Writes, WrittenMembers
<1>1. owns[s] \in Impls /\ None \notin Proxies
  BY NoneAssumption DEF Live
<1>2. ASSUME NEW n \in Names, map[owns[s]][n] # None
      PROVE  proxy'[map[owns[s]][n]] = IF map[owns[s]][n] = o THEN c ELSE proxy[map[owns[s]][n]]
  <2>1. map[owns[s]][n] \in Proxies /\ proxy \in [Proxies -> [name : Names, value : Values] \cup {None}]
    BY <1>1, <1>2 DEF RInv, MapsOK, ObjectsOK
  <2> QED BY <2>1
<1>3. Members(s)' = [n \in Names |-> IF map[owns[s]][n] = o THEN c ELSE Members(s)[n]]
  <2>1. ASSUME NEW n \in Names
        PROVE  Members(s)'[n] = IF map[owns[s]][n] = o THEN c ELSE Members(s)[n]
    <3>1. CASE map[owns[s]][n] = None
      BY <1>1, <3>1 DEF Members
    <3>2. CASE map[owns[s]][n] # None
      BY <1>2, <3>2 DEF Members
    <3> QED BY <3>1, <3>2
  <2> QED BY <2>1 DEF Members
<1>4. Content'[s] = [name |-> sysName[owns[s]], members |-> Members(s)']
  BY <1>1 DEF Content, Members, Live
<1> QED BY <1>3, <1>4

\* A setter reaches the member that the proxy stands for, in the System that has it now.
LEMMA SetValueContract ==
  ASSUME RInv, NEW v \in Values, SetValue(v)
  PROVE  Contract!SetValue(v)
<1>1. /\ handle # None /\ UNCHANGED <<owns, made, sysName, map, handle>>
      /\ proxy' = [proxy EXCEPT ![handle].value = v]
  BY DEF SetValue
<1>2. handle \in Proxies /\ proxy[handle] \in Contents /\ HandleValue = proxy[handle]
      /\ proxy[handle] # None
  BY <1>1, HandleExists
<1> DEFINE c == [proxy[handle] EXCEPT !.value = v]
<1>3. proxy' = [proxy EXCEPT ![handle] = c] /\ c \in Contents
  BY <1>1, <1>2 DEF Contents
<1>4. Writes(handle, c)
  <2>1. c # None
    BY <1>3, NoneAssumption DEF Contents
  <2> QED BY <1>1, <1>2, <1>3, <2>1 DEF Writes
<1>5. HandleValue' = [HandleValue EXCEPT !.value = v]
  BY <1>1, <1>2, <1>3 DEF HandleValue, RInv, ObjectsOK
<1>6. HandleValue' = c
  BY <1>2, <1>5
<1>7. Bound' = Bound
  BY <1>1 DEF Bound, Live
<1> HIDE DEF c
<1> DEFINE becomes(s) ==
      IF \E n \in Names : <<s, n>> \in Bound
        THEN [Content[s] EXCEPT !.members =
               [n \in Names |-> IF <<s, n>> \in Bound THEN c ELSE @[n]]]
        ELSE Content[s]
<1>8. ASSUME NEW s \in Systems PROVE Content'[s] = becomes(s)
  <2>1. CASE Live(s)
    <3> DEFINE M == WrittenMembers(s, handle, c)
    <3>1. Content'[s] = [name |-> sysName[owns[s]], members |-> M]
      BY <1>4, <2>1, WriteChanges
    <3>2. \A n \in Names : <<s, n>> \in Bound <=> map[owns[s]][n] = handle
      BY <1>1, <2>1, BoundIs
    <3>3. /\ Content[s] = [name |-> sysName[owns[s]], members |-> Members(s)]
          /\ Content[s].members = Members(s) /\ Members(s) \in [Names -> Contents \cup {None}]
      BY <2>1, LiveContent
    <3>4. CASE \E n \in Names : <<s, n>> \in Bound
      <4>1. M = [n \in Names |-> IF <<s, n>> \in Bound THEN c ELSE Content[s].members[n]]
        BY <3>2, <3>3 DEF WrittenMembers
      <4> HIDE DEF M
      <4>2. [Content[s] EXCEPT !.members = M] = [name |-> sysName[owns[s]], members |-> M]
        BY <3>3
      <4>3. becomes(s) = [Content[s] EXCEPT !.members = M]
        BY <3>4, <4>1
      <4> QED BY <3>1, <4>2, <4>3
    <3>5. CASE ~\E n \in Names : <<s, n>> \in Bound
      <4>1. M = Members(s)
        BY <3>2, <3>3, <3>5 DEF WrittenMembers
      <4> QED BY <3>1, <3>3, <3>5, <4>1
    <3> QED BY <3>4, <3>5
  <2>2. CASE ~Live(s)
    BY <1>1, <2>2, BoundIs DEF Content, Live
  <2> QED BY <2>1, <2>2
<1>9. Content' = [s \in Systems |-> becomes(s)]
  <2> HIDE DEF becomes
  <2>1. Content' = [s \in Systems |-> Content'[s]]
    BY DEF Content
  <2> QED BY <1>8, <2>1
<1>10. HandleValue # None
  BY <1>1, HandleExists
<1> QED BY <1>5, <1>6, <1>7, <1>9, <1>10 DEF Contract!SetValue, HandleValue

\* copyValuesTo writes the member of one System.
LEMMA CopyValuesContract ==
  ASSUME RInv, NEW s \in Systems, NEW n \in Names, CopyValues(s, n)
  PROVE  Contract!CopyValues(s, n)
<1>1. /\ handle # None /\ Live(s) /\ owns[s] \in Impls /\ n \in Held(owns[s])
      /\ UNCHANGED <<owns, made, sysName, map, handle>>
      /\ proxy' = [proxy EXCEPT ![map[owns[s]][n]] = proxy[handle]]
  BY DEF CopyValues, Live, Held
<1>2. PICK o : o = map[owns[s]][n]
  OBVIOUS
<1>3. o \in Proxies /\ proxy[o] # None /\ o \in Own(owns[s], n)
  BY <1>1, <1>2, HeldExist DEF RInv, MapsOK, Held
<1>4. proxy[handle] # None /\ HandleValue = proxy[handle] /\ handle \in Proxies
  BY <1>1, HandleExists
<1>5. Writes(o, proxy[handle])
  BY <1>1, <1>2, <1>3, <1>4 DEF Writes
<1>6. Bound' = Bound /\ HandleValue' = HandleValue
  BY <1>1, <1>2, <1>3, <1>4 DEF Bound, Live, HandleValue, RInv, ObjectsOK
<1>7. ASSUME NEW u \in Systems, Live(u), NEW k \in Names
      PROVE  map[owns[u]][k] = o <=> u = s /\ k = n
  <2>1. owns[u] \in Impls
    BY <1>7 DEF Live
  <2>2. ASSUME map[owns[u]][k] = o PROVE u = s /\ k = n
    <3>1. o \in Own(owns[u], k)
      BY <1>3, <2>1, <2>2, NoneAssumption DEF RInv, MapsOK
    <3>2. owns[u] = owns[s] /\ k = n
      BY <1>3, <3>1 DEF Own
    <3> QED BY <1>1, <1>7, <3>2 DEF RInv, OwnersOK
  <2> QED BY <1>2, <2>2
<1>8. \A u \in Systems : u # s => Content'[u] = Content[u]
  <2>1. ASSUME NEW u \in Systems, u # s, Live(u) PROVE Content'[u] = Content[u]
    <3>1. /\ Content[u] = [name |-> sysName[owns[u]], members |-> Members(u)]
          /\ Members(u) \in [Names -> Contents \cup {None}]
      BY <2>1, LiveContent
    <3>2. WrittenMembers(u, o, proxy[handle]) = Members(u)
      BY <1>7, <2>1, <3>1 DEF WrittenMembers
    <3>3. Content'[u] = [name |-> sysName[owns[u]], members |-> WrittenMembers(u, o, proxy[handle])]
      BY <1>5, <2>1, WriteChanges
    <3> QED BY <3>1, <3>2, <3>3
  <2>2. ASSUME NEW u \in Systems, ~Live(u) PROVE Content'[u] = Content[u]
    BY <1>1, <2>2 DEF Content, Live
  <2> QED BY <2>1, <2>2
<1>9. /\ Content[s] = [name |-> sysName[owns[s]], members |-> Members(s)]
      /\ Content[s].members = Members(s) /\ Content[s] \notin {None, Moved}
      /\ Members(s) \in [Names -> Contents \cup {None}]
  BY <1>1, LiveContent
<1> DEFINE M == [Members(s) EXCEPT ![n] = proxy[handle]]
<1>10. Content'[s] = [name |-> sysName[owns[s]], members |-> M]
  <2>1. WrittenMembers(s, o, proxy[handle]) = M
    BY <1>1, <1>7, <1>9 DEF WrittenMembers
  <2>2. Content'[s] = [name |-> sysName[owns[s]], members |-> WrittenMembers(s, o, proxy[handle])]
    BY <1>1, <1>5, WriteChanges
  <2> QED BY <2>1, <2>2
<1> HIDE DEF M
<1>11. Content' = [Content EXCEPT ![s].members = M]
  <2>1. Content' = [Content EXCEPT ![s] = [name |-> sysName[owns[s]], members |-> M]]
    BY <1>8, <1>10, ContentBecomes
  <2>2. [Content EXCEPT ![s].members = M] = [Content EXCEPT ![s] = [Content[s] EXCEPT !.members = M]]
    BY DEF Content
  <2>3. [Content[s] EXCEPT !.members = M] = [name |-> sysName[owns[s]], members |-> M]
    BY <1>9
  <2> QED BY <2>1, <2>2, <2>3
<1>12. M = [Content[s].members EXCEPT ![n] = HandleValue]
  BY <1>4, <1>9 DEF M
<1>13. Content[s].members[n] # None /\ HandleValue # None
  BY <1>1, <1>9, ContentIs, HandleExists
<1> QED BY <1>6, <1>9, <1>11, <1>12, <1>13
        DEF Contract!CopyValues, Contract!Valid, Contract!Change, HandleValue

\* What a discovery returns is new, of the participants as they were added, and nobody has a
\* proxy of it.
LEMMA DiscoverContract ==
  ASSUME RInv, DiscoverEnds
  PROVE  target \in Systems /\ Contract!Discover(target)
<1>1. /\ pc = "check" /\ owns' = [owns EXCEPT ![target] = made] /\ UNCHANGED <<made, sysName>>
      /\ made \in Impls /\ target \in Systems /\ owns[target] = None
      /\ sysName[made] \in SystemNames /\ \A s \in Systems : owns[s] # made
  BY DEF DiscoverEnds, RInv, DiscoveryOK, Discovering
<1>2. /\ KeepObjects /\ handle' = handle /\ map'[made] = Without(made, standalone)
      /\ \A j \in Impls : j # made => map'[j] = map[j]
  BY DiscoverEndsStep DEF Emptied
<1>3. \A n \in Held(made) :
        map[made][n] # handle /\ proxy[map[made][n]] = [name |-> n, value |-> Default]
  BY <1>1 DEF RInv, DiscoveryOK, Discovering
<1>4. PICK s \in Systems : s = target
  BY <1>1
<1>5. /\ owns'[s] = made /\ \A t \in Systems : t # s => owns'[t] = owns[t]
      /\ None \notin Impls
  BY <1>1, <1>4, RegistryAssumption DEF RInv, OwnersOK
<1>6. \A t \in Systems : t # s => Content'[t] = Content[t]
  <2>1. \A t \in Systems : Live(t) => map'[owns[t]] = map[owns[t]]
    BY <1>1, <1>4, <1>2 DEF Live
  <2> QED BY <1>1, <1>4, <1>2, <1>5, <2>1, SameContent
<1> DEFINE N == Held(made) \ standalone
           M == [n \in Names |-> IF n \in N THEN [name |-> n, value |-> Default] ELSE None]
<1>7. Members(s)' = M
  <2>1. ASSUME NEW n \in Names PROVE Members(s)'[n] = M[n]
    <3>1. CASE n \in N
      <4>1. map'[made][n] = map[made][n] /\ map[made][n] # None /\ n \in Held(made)
        BY <1>2, <3>1 DEF Without, Held
      <4>2. map[made][n] \in Refs(map, handle) /\ map[made][n] \in Refs(map', handle')
        BY <1>1, <1>4, <4>1 DEF Refs
      <4>3. proxy'[map[made][n]] = [name |-> n, value |-> Default]
        BY <1>2, <1>3, <4>1, <4>2 DEF KeepObjects
      <4> QED BY <1>5, <3>1, <4>1, <4>3 DEF Members
    <3>2. CASE n \notin N
      <4>1. map'[made][n] = None
        BY <1>2, <3>2 DEF Without, Held
      <4> QED BY <1>5, <3>2, <4>1 DEF Members
    <3> QED BY <3>1, <3>2
  <2> HIDE DEF N
  <2> QED BY <2>1 DEF Members
<1> HIDE DEF M
<1>8. Content'[s] = [name |-> sysName[made], members |-> M]
  <2>1. Content'[s] = [name |-> sysName'[owns'[s]], members |-> Members(s)']
    BY <1>1, <1>4, <1>5 DEF Content, Live, Members
  <2> QED BY <1>1, <1>4, <1>5, <1>7, <2>1
<1>9. Content' = [Content EXCEPT ![s] = [name |-> sysName[made], members |-> M]]
  BY <1>1, <1>4, <1>6, <1>8, ContentBecomes
<1>10. Bound' = Bound
  <2>1. ASSUME NEW t \in Systems, NEW n \in Names
        PROVE  <<t, n>> \in Bound' <=> <<t, n>> \in Bound
    <3>1. CASE t = s
      <4>1. map'[made][n] = None \/ map'[made][n] # handle
        BY <1>2, <1>3 DEF Without, Held
      <4> QED BY <1>1, <1>4, <1>2, <1>5, <3>1, <4>1 DEF Bound, Live
    <3>2. CASE t # s
      BY <1>1, <1>4, <1>2, <1>5, <3>2 DEF Bound, Live
    <3> QED BY <3>1, <3>2
  <2>2. Bound \subseteq Systems \X Names /\ Bound' \subseteq Systems \X Names
    BY DEF Bound
  <2> QED BY <2>1, <2>2
<1>11. HandleValue' = HandleValue
  BY <1>2, HandleKept
<1>12. Content[s] = None /\ N \in SUBSET Names
  BY <1>1, <1>4, ContentIs DEF Held
<1> HIDE DEF N
<1> QED BY <1>1, <1>4, <1>9, <1>10, <1>11, <1>12 DEF Contract!Discover, HandleValue, M

Stutters == UNCHANGED <<Content, Bound, HandleValue>>

\* Until it returns, nobody sees the System that a discovery builds.
LEMMA DiscoveryStutters ==
  ASSUME RInv,
         \/ \E s \in Systems : DiscoverBegins(s)
         \/ CheckMember \/ CheckAnswered \/ CheckUnanswered \/ CheckThrows \/ CheckCrashes
         \/ \E n \in Names : FieldChanges(n)
         \/ UNCHANGED vars
  PROVE  Stutters
<1>1. /\ KeepObjects /\ handle' = handle /\ owns' = owns
      /\ \A s \in Systems : Live(s) => map'[owns[s]] = map[owns[s]] /\ sysName'[owns[s]] = sysName[owns[s]]
  <2>1. CASE UNCHANGED pointers
    BY <2>1 DEF pointers, KeepObjects
  <2>2. ASSUME NEW s \in Systems, DiscoverBegins(s) PROVE <1>1!:
    <3>1. /\ Filled(made', todo', Defaults) /\ made' \in Impls /\ made' > made
      BY <2>2, DiscoverBeginsStep
    <3>2. PICK name : sysName' = [sysName EXCEPT ![made'] = name]
      BY <2>2 DEF DiscoverBegins, NewImplementation
    <3>3. \A t \in Systems : Live(t) => owns[t] \in Impls /\ owns[t] # made'
      BY <3>1, LiveIsMade DEF RInv
    <3> QED BY <2>2, <3>1, <3>2, <3>3 DEF DiscoverBegins, Filled, RInv, OwnersOK
  <2>3. CASE CheckThrows
    <3>1. /\ Emptied(made, Empty) /\ UNCHANGED <<owns, made, sysName>>
          /\ \A t \in Systems : owns[t] # made
      BY <2>3, CheckThrowsStep DEF CheckThrows, RInv, DiscoveryOK
    <3> QED BY <3>1 DEF Emptied, Live
  <2>4. ASSUME \/ CheckMember \/ CheckAnswered \/ CheckUnanswered \/ CheckCrashes
               \/ \E n \in Names : FieldChanges(n)
               \/ UNCHANGED vars
        PROVE  UNCHANGED pointers
    BY <2>4 DEF CheckMember, CheckAnswered, CheckUnanswered, CheckCrashes, FieldChanges, vars
  <2> QED BY <2>1, <2>2, <2>3, <2>4
<1>2. Content' = Content
  <2>1. \A s \in Systems : Content'[s] = Content[s]
    BY <1>1, SameContent
  <2> QED BY <2>1 DEF Content
<1>3. Bound' = Bound
  BY <1>1 DEF Bound, Live
<1>4. HandleValue' = HandleValue
  BY <1>1, HandleKept
<1> QED BY <1>2, <1>3, <1>4 DEF Stutters

\* The Systems are values: every step of the pointers is one of the contract or none.
LEMMA StepContract ==
  ASSUME RInv, [Next]_vars
  PROVE  Contract!ContractNext \/ Stutters
<1>1. ASSUME NEW s \in Systems, Construct(s) \/ Destroy(s) \/ Clear(s)
      PROVE  Contract!ContractNext
  <2>1. Construct(s) => Contract!Construct(s)
    BY ConstructContract
  <2>2. Destroy(s) => Contract!Destroy(s)
    BY DestroyContract
  <2>3. Names \in SUBSET Names /\ (Clear(s) => Contract!Remove(s, Names))
    BY RemoveContract
  <2> QED BY <1>1, <2>1, <2>2, <2>3 DEF Contract!ContractNext
<1>2. ASSUME NEW s \in Systems, NEW t \in Systems, Copy(s, t) \/ Assign(s, t) \/ Move(s, t)
      PROVE  Contract!ContractNext
  <2>1. Copy(s, t) => Contract!Copy(s, t)
    BY CopyContract
  <2>2. Assign(s, t) => Contract!Assign(s, t)
    BY AssignContract
  <2>3. Move(s, t) => Contract!Move(s, t)
    BY MoveContract
  <2> QED BY <1>2, <2>1, <2>2, <2>3 DEF Contract!ContractNext
<1>3. ASSUME NEW s \in Systems, NEW n \in Names,
             Add(s, n) \/ Remove(s, n) \/ GetParticipant(s, n) \/ CopyValues(s, n)
      PROVE  Contract!ContractNext
  <2>1. Add(s, n) => Contract!Add(s, n)
    BY AddContract
  <2>2. {n} \in SUBSET Names /\ (Remove(s, n) => Contract!Remove(s, {n}))
    BY RemoveContract
  <2>3. GetParticipant(s, n) => Contract!GetParticipant(s, n)
    BY GetContract
  <2>4. CopyValues(s, n) => Contract!CopyValues(s, n)
    BY CopyValuesContract
  <2> QED BY <1>3, <2>1, <2>2, <2>3, <2>4 DEF Contract!ContractNext
<1>4. CASE Release
  BY <1>4, ReleaseContract DEF Contract!ContractNext
<1>5. ASSUME NEW v \in Values, SetValue(v) PROVE Contract!ContractNext
  BY <1>5, SetValueContract DEF Contract!ContractNext
<1>6. CASE DiscoverEnds
  BY <1>6, DiscoverContract DEF Contract!ContractNext
<1>7. CASE \/ \E s \in Systems : DiscoverBegins(s)
           \/ CheckMember \/ CheckAnswered \/ CheckUnanswered \/ CheckThrows \/ CheckCrashes
           \/ \E n \in Names : FieldChanges(n)
           \/ UNCHANGED vars
  BY <1>7, DiscoveryStutters
<1> QED BY <1>1, <1>2, <1>3, <1>4, <1>5, <1>6, <1>7 DEF Next

\* SystemRegistry implements RegistryContract: whatever is shared, copied, moved and freed
\* behind them, the Systems are independent values, and a proxy of the client stands for the
\* member it was got as, in the System that has it, until that is replaced or goes.
THEOREM RegistryKeepsContract == Spec => KeepsContract
<1>1. Init => Contract!ContractInit
  <2> SUFFICES ASSUME Init PROVE Contract!ContractInit
    OBVIOUS
  <2>1. \A s \in Systems : ~Live(s)
    BY RegistryAssumption DEF Init, Live
  <2>2. Content = [s \in Systems |-> None]
    BY <2>1 DEF Content, Init
  <2>3. Bound = {}
    BY DEF Bound, Init
  <2> QED BY <2>2, <2>3 DEF Contract!ContractInit, Init
<1>2. RInv /\ [Next]_vars => [Contract!ContractNext]_(Contract!contractVars)
  BY StepContract DEF Stutters, HandleValue, Contract!contractVars
<1> QED BY <1>1, <1>2, Invariant, PTL DEF Spec, KeepsContract, Contract!ContractSpec
=============================================================================
