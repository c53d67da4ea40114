------------------------ MODULE Configuration_proofs ------------------------
(***************************************************************************)
(* Proofs about Configuration, for all participants of any kind, whatever  *)
(* they start with, any timing configurations and all bounds.              *)
(***************************************************************************)
EXTENDS Configuration, SequenceTheorems, WellFoundedInduction, TLAPS

-----------------------------------------------------------------------------
(* The inductive invariants.                                                *)

Reading == reading \in {"names", "read", "type"}

\* The trees say of every property whether it is there.
NodeOK(node) ==
  /\ DOMAIN node = Props
  /\ \A n \in Props : node[n] # Missing => DOMAIN node[n] = {"type", "value"}
TreesOK == DOMAIN tree = Participants /\ \A p \in Participants : NodeOK(tree[p])

\* What a copy has read of a property, and what it is about to write down.
CopyInv ==
  /\ peer # 0 <=> Reading
  /\ Reading => \A n \in Node : AsRead(tree[peer][n]) \in seen[n]
  /\ reading # "type" => names \cap DOMAIN copy = {} \/ reading = "names"
  /\ reading = "names" => copy = <<>>
  /\ reading # "type" => value = None
  /\ reading = "type" =>
       /\ TakesTwoCalls
       /\ \A n, m \in names \cap DOMAIN copy : n = m
       /\ \A n \in names \cap DOMAIN copy :
            copy[n] = Blank /\ value \in {s.value : s \in seen[n]} \cup {None}
  /\ \A n \in DOMAIN copy :
       IF via = "old" THEN /\ copy[n].value \in {s.value : s \in seen[n]} \cup {None}
                           /\ copy[n].type \in {s.type : s \in seen[n]} \cup {None}
                           /\ DOMAIN copy[n] = {"type", "value"}
                      ELSE copy[n] \in seen[n]

\* Where configureTiming is.
CallInv ==
  /\ pc \in {"idle", "run", "returned", "refused", "threw", "crashed"}
  /\ pc # "idle" =>
       /\ timing \in Timings /\ steps = Steps(timing) /\ at \in DOMAIN steps
       /\ todo \subseteq Step.who \ failing /\ failing \subseteq Step.who
       /\ Step.who \ Participants \subseteq todo
  /\ pc = "idle" => timing = Timing3NoMaster
  /\ pc \in {"refused", "returned"} => todo = {}
  /\ pc = "returned" => at = Len(steps) /\ failing = {}

\* Visited p at step j with success
Served(j, p) ==
  /\ p \in steps[j].who \ disturbed
  /\ Kind[p] = "new"
  /\ j = at => p \notin todo \cup failing

\* The present step and those of every timing configuration hold for those who were served.
ServedInv ==
  pc \in {"run", "refused", "returned"} =>
    \A j \in 1..at, p \in Participants :
      (j = at \/ j > Len(timing.first)) /\ Served(j, p)
        => tree[p][steps[j].prop] = steps[j].pair

IsMaster(p) == Kind[p] = "new" /\ Has(p, "clock", "SIM_TIME")

SlaveStep == Len(timing.first) + 3

\* Before the new master gets its clock, the others have lost theirs.
ClockInv ==
  /\ OneMasterClock
  /\ pc = "run" /\ timing.master # NoMaster /\ at \in {SlaveStep, SlaveStep + 1} =>
       \A p \in Participants \ {timing.master} :
         (at = SlaveStep => p \notin todo \cup failing) => ~IsMaster(p)

IInv == ReaderTypeOK /\ TreesOK /\ CopyInv /\ CallInv /\ ServedInv /\ ClockInv

-----------------------------------------------------------------------------
(* The steps of a timing configuration.                                     *)

\* Steps that may be set before, and those that configureTiming sets itself.
FirstSteps(t) ==
  [prop : {"trigger", "master_factor"}, pair : [type : STRING, value : STRING], who : {{t.master}}]
Optional(t) == {One(t.master, "factor", Pair("double", t.factor)),
                One(t.master, "stepsize", Pair("int32", t.stepsize)),
                All("cycle", Pair("int32", t.cycle), t.master)}
Required(t) == {All("master", String(t.master), NoMaster),
                All("scheduler", String(t.scheduler), NoMaster),
                All("clock", String(t.slave_clock), t.master),
                One(t.master, "clock", String(t.master_clock))}
AllSteps(t) == FirstSteps(t) \cup Required(t) \cup Optional(t)

\* What a concatenation with a sequence of at most one element is.
LEMMA OneMore ==
  ASSUME NEW S, NEW s \in Seq(S), NEW g \in Seq(S)
  PROVE  /\ s \o g \in Seq(S) /\ Len(s \o g) = Len(s) + Len(g)
         /\ \A i \in 1..Len(s) : (s \o g)[i] = s[i]
         /\ Len(g) = 1 => (s \o g)[Len(s) + 1] = g[1]
<1>1. /\ s \o g \in Seq(S) /\ Len(s \o g) = Len(s) + Len(g)
      /\ \A i \in 1..Len(s) + Len(g) : (s \o g)[i] = IF i <= Len(s) THEN s[i] ELSE g[i - Len(s)]
  BY ConcatProperties
<1> QED BY <1>1, LenProperties

\* z is c followed by what there is in g1, g2 and g3.
ThenUpToThree(S, z, c, g1, g2, g3) ==
  /\ z \in Seq(S) /\ Len(z) = Len(c) + Len(g1) + Len(g2) + Len(g3)
  /\ \A i \in 1..Len(c) : z[i] = c[i]
  /\ Len(g1) = 1 => z[Len(c) + 1] = g1[1]
  /\ Len(g2) = 1 => z[Len(c) + Len(g1) + 1] = g2[1]
  /\ Len(g3) = 1 => z[Len(c) + Len(g1) + Len(g2) + 1] = g3[1]

\* z is f, the pair a, and r.
AroundPair(S, z, f, a, r) ==
  /\ z \in Seq(S) /\ Len(z) = Len(f) + 2 + Len(r)
  /\ \A i \in 1..Len(f) : z[i] = f[i]
  /\ z[Len(f) + 1] = a[1] /\ z[Len(f) + 2] = a[2]
  /\ \A i \in 1..Len(r) : z[Len(f) + 2 + i] = r[i]

\* A sequence followed by up to three more elements.
LEMMA ThreeMore ==
  ASSUME NEW S, NEW c \in Seq(S), NEW g1 \in Seq(S), NEW g2 \in Seq(S), NEW g3 \in Seq(S),
         Len(g1) \in 0..1, Len(g2) \in 0..1, Len(g3) \in 0..1
  PROVE  ThenUpToThree(S, c \o g1 \o g2 \o g3, c, g1, g2, g3)
<1>0. Len(c) \in Nat
  BY LenProperties
<1>1. PICK x : x = c \o g1
  OBVIOUS
<1>2. PICK y : y = x \o g2
  OBVIOUS
<1>3. PICK z : z = y \o g3
  OBVIOUS
<1>4. /\ x \in Seq(S) /\ Len(x) = Len(c) + Len(g1)
      /\ \A i \in 1..Len(c) : x[i] = c[i]
      /\ Len(g1) = 1 => x[Len(c) + 1] = g1[1]
  BY <1>1, OneMore
<1>5. /\ y \in Seq(S) /\ Len(y) = Len(x) + Len(g2)
      /\ \A i \in 1..Len(x) : y[i] = x[i]
      /\ Len(g2) = 1 => y[Len(x) + 1] = g2[1]
  BY <1>2, <1>4, OneMore
<1>6. /\ z \in Seq(S) /\ Len(z) = Len(y) + Len(g3)
      /\ \A i \in 1..Len(y) : z[i] = y[i]
      /\ Len(g3) = 1 => z[Len(y) + 1] = g3[1]
  <2>1. y \in Seq(S) BY <1>5
  <2> QED BY <1>3, <2>1, OneMore
<1>7. /\ z \in Seq(S)
      /\ Len(z) = Len(c) + Len(g1) + Len(g2) + Len(g3)
      /\ \A i \in 1..Len(c) : z[i] = c[i]
  BY <1>0, <1>4, <1>5, <1>6
<1>8. /\ Len(g1) = 1 => z[Len(c) + 1] = g1[1]
      /\ Len(g2) = 1 => z[Len(c) + Len(g1) + 1] = g2[1]
      /\ Len(g3) = 1 => z[Len(c) + Len(g1) + Len(g2) + 1] = g3[1]
  BY <1>0, <1>4, <1>5, <1>6
<1>9. z = c \o g1 \o g2 \o g3
  BY <1>1, <1>2, <1>3
<1>10. ThenUpToThree(S, z, c, g1, g2, g3)
  BY <1>7, <1>8 DEF ThenUpToThree
<1> QED BY <1>9, <1>10

\* A sequence after one of any length and a pair.
LEMMA AfterPair ==
  ASSUME NEW S, NEW f \in Seq(S), NEW a \in Seq(S), Len(a) = 2, NEW r \in Seq(S)
  PROVE  AroundPair(S, f \o a \o r, f, a, r)
<1>1. PICK y : y = f \o a
  OBVIOUS
<1>2. PICK z : z = y \o r
  OBVIOUS
<1>3. /\ y \in Seq(S) /\ Len(y) = Len(f) + Len(a)
      /\ \A i \in 1..Len(f) + Len(a) : y[i] = IF i <= Len(f) THEN f[i] ELSE a[i - Len(f)]
  BY <1>1, ConcatProperties
<1>4. /\ z \in Seq(S) /\ Len(z) = Len(y) + Len(r)
      /\ \A i \in 1..Len(y) + Len(r) : z[i] = IF i <= Len(y) THEN y[i] ELSE r[i - Len(y)]
  <2>1. y \in Seq(S) BY <1>3
  <2> QED BY <1>2, <2>1, ConcatProperties
<1>5. Len(f) \in Nat /\ Len(r) \in Nat
  BY LenProperties
<1>6. Len(y) = Len(f) + 2
  BY <1>3
<1>7. \A i \in 1..Len(f) : z[i] = f[i]
  BY <1>3, <1>4, <1>5, <1>6
<1>8. z[Len(f) + 1] = a[1] /\ z[Len(f) + 2] = a[2]
  <2>1. y[Len(f) + 1] = a[1] /\ y[Len(f) + 2] = a[2]
    BY <1>3, <1>5
  <2>2. z[Len(f) + 1] = y[Len(f) + 1] /\ z[Len(f) + 2] = y[Len(f) + 2]
    BY <1>4, <1>5, <1>6
  <2> QED BY <2>1, <2>2
<1>9. ASSUME NEW i \in 1..Len(r) PROVE z[Len(f) + 2 + i] = r[i]
  <2>1. /\ Len(f) + 2 + i \in 1..Len(y) + Len(r)
        /\ ~(Len(f) + 2 + i <= Len(y)) /\ Len(f) + 2 + i - Len(y) = i
    BY <1>5, <1>6
  <2> QED BY <1>4, <2>1
<1>10. z = f \o a \o r
  BY <1>1, <1>2
<1>11. AroundPair(S, z, f, a, r)
  BY <1>4, <1>6, <1>7, <1>8, <1>9 DEF AroundPair
<1> QED BY <1>10, <1>11

\* The numbers of the places in the plan of a call: f, a pair, a pair, and n1 + n2 + n3 more.
LEMMA PlanIndices ==
  ASSUME NEW k \in Nat, NEW n1 \in 0..1, NEW n2 \in 0..1, NEW n3 \in 0..1,
         NEW z, NEW r, \A i \in 1..2 + n1 + n2 + n3 : z[k + 2 + i] = r[i]
  PROVE  /\ z[k + 3] = r[1] /\ z[k + 4] = r[2]
         /\ n1 = 1 => z[k + 5] = r[3]
         /\ n2 = 1 => z[k + 5 + n1] = r[3 + n1]
         /\ n3 = 1 => z[k + 5 + n1 + n2] = r[3 + n1 + n2]
<1>1. z[k + 2 + 1] = r[1] /\ z[k + 2 + 2] = r[2]
  OBVIOUS
<1>2. /\ n1 = 1 => z[k + 2 + 3] = r[3]
      /\ n2 = 1 => z[k + 2 + (3 + n1)] = r[3 + n1]
      /\ n3 = 1 => z[k + 2 + (3 + n1 + n2)] = r[3 + n1 + n2]
  OBVIOUS
<1>3. /\ k + 2 + 1 = k + 3 /\ k + 2 + 2 = k + 4 /\ k + 2 + 3 = k + 5
      /\ k + 2 + (3 + n1) = k + 5 + n1 /\ k + 2 + (3 + n1 + n2) = k + 5 + n1 + n2
  OBVIOUS
<1> QED BY <1>1, <1>2, <1>3

\* An argument that is empty adds no step.
LEMMA GivenStep ==
  ASSUME NEW S, NEW v, NEW step \in S
  PROVE  /\ Given(v, step) \in Seq(S)
         /\ Len(Given(v, step)) = IF v = None THEN 0 ELSE 1
         /\ v # None => Given(v, step)[1] = step
BY DEF Given

\* S sets the k properties of the variant, the master and the scheduler for everybody, the
\* clock of the slaves, then, if there is a master, its clock and what was given of the rest.
IsPlan(t, S, k) ==
  /\ k \in Nat /\ S \in Seq(AllSteps(t)) /\ Len(S) >= k + 3
  /\ \A i \in 1..k : S[i] \in FirstSteps(t)
  /\ S[k + 1] = All("master", String(t.master), NoMaster)
  /\ S[k + 2] = All("scheduler", String(t.scheduler), NoMaster)
  /\ S[k + 3] = All("clock", String(t.slave_clock), t.master)
  /\ t.master = NoMaster => Len(S) = k + 3
  /\ t.master # NoMaster =>
       /\ Len(S) >= k + 4
       /\ S[k + 4] = One(t.master, "clock", String(t.master_clock))
       /\ \A i \in k + 5 .. Len(S) : S[i] \in Optional(t)
       /\ \A i, j \in k + 5 .. Len(S) : S[i].prop = S[j].prop => i = j
       /\ t.factor # None => \E i \in k + 5 .. Len(S) :
            S[i] = One(t.master, "factor", Pair("double", t.factor))
       /\ t.stepsize # None => \E i \in k + 5 .. Len(S) :
            S[i] = One(t.master, "stepsize", Pair("int32", t.stepsize))
       /\ t.cycle # None => \E i \in k + 5 .. Len(S) :
            S[i] = All("cycle", Pair("int32", t.cycle), t.master)

\* The steps of every timing configuration are in that order.
LEMMA PlanOrder ==
  ASSUME NEW t \in Timings
  PROVE  IsPlan(t, Steps(t), Len(t.first))
<1>0. PICK S, k : S = Steps(t) /\ k = Len(t.first)
  OBVIOUS
<1> DEFINE A == AllSteps(t)
           all == <<All("master", String(t.master), NoMaster),
                    All("scheduler", String(t.scheduler), NoMaster)>>
           slaves == All("clock", String(t.slave_clock), t.master)
           clocks == <<slaves, One(t.master, "clock", String(t.master_clock))>>
           factor == One(t.master, "factor", Pair("double", t.factor))
           stepsize == One(t.master, "stepsize", Pair("int32", t.stepsize))
           cycle == All("cycle", Pair("int32", t.cycle), t.master)
<1>1. t.first \in Seq(FirstSteps(t)) /\ t.first \in Seq(A)
  <2>1. t.first \in Seq(FirstSteps(t))
    BY TimingsAssumption DEF FirstSteps
  <2>2. FirstSteps(t) \subseteq A
    BY DEF AllSteps
  <2> HIDE DEF A
  <2> QED BY <2>1, <2>2, SeqMonotonic
<1>2. k \in Nat /\ \A i \in 1..k : t.first[i] \in FirstSteps(t)
  BY <1>0, <1>1, LenProperties, ElementOfSeq
<1>3. /\ all \in Seq(A) /\ Len(all) = 2
      /\ all[1] = All("master", String(t.master), NoMaster)
      /\ all[2] = All("scheduler", String(t.scheduler), NoMaster)
  BY DEF AllSteps, Required
<1>4. /\ clocks \in Seq(A) /\ Len(clocks) = 2 /\ <<slaves>> \in Seq(A) /\ Len(<<slaves>>) = 1
      /\ clocks[1] = slaves /\ clocks[2] = One(t.master, "clock", String(t.master_clock))
      /\ <<slaves>>[1] = slaves
  BY DEF AllSteps, Required
<1>5. factor \in A /\ stepsize \in A /\ cycle \in A
  BY DEF AllSteps, Optional
<1>6. PICK g1, g2, g3, n1, n2, n3 :
        /\ g1 = Given(t.factor, factor) /\ n1 = Len(g1)
        /\ g2 = Given(t.stepsize, stepsize) /\ n2 = Len(g2)
        /\ g3 = Given(t.cycle, cycle) /\ n3 = Len(g3)
  OBVIOUS
<1>7. PICK r : r = IF t.master = NoMaster THEN <<slaves>> ELSE clocks \o g1 \o g2 \o g3
  OBVIOUS
<1>8. S = t.first \o all \o r
  BY <1>0, <1>6, <1>7 DEF Steps
<1> HIDE DEF A, all, clocks, slaves, factor, stepsize, cycle
<1>9. /\ g1 \in Seq(A) /\ g2 \in Seq(A) /\ g3 \in Seq(A)
      /\ n1 = IF t.factor = None THEN 0 ELSE 1
      /\ n2 = IF t.stepsize = None THEN 0 ELSE 1
      /\ n3 = IF t.cycle = None THEN 0 ELSE 1
      /\ n1 = 1 => g1[1] = factor
      /\ n2 = 1 => g2[1] = stepsize
      /\ n3 = 1 => g3[1] = cycle
  <2>1. /\ n1 = IF t.factor = None THEN 0 ELSE 1
        /\ g1 \in Seq(A)
        /\ t.factor # None => g1[1] = factor
    BY <1>5, <1>6, GivenStep
  <2>2. /\ n2 = IF t.stepsize = None THEN 0 ELSE 1
        /\ g2 \in Seq(A)
        /\ t.stepsize # None => g2[1] = stepsize
    BY <1>5, <1>6, GivenStep
  <2>3. /\ n3 = IF t.cycle = None THEN 0 ELSE 1
        /\ g3 \in Seq(A)
        /\ t.cycle # None => g3[1] = cycle
    BY <1>5, <1>6, GivenStep
  <2> QED BY <2>1, <2>2, <2>3
<1>10. n1 \in 0..1 /\ n2 \in 0..1 /\ n3 \in 0..1
  BY <1>9
<1>11. ASSUME r \in Seq(A)
       PROVE  /\ S \in Seq(A) /\ Len(S) = k + 2 + Len(r)
              /\ \A i \in 1..k : S[i] \in FirstSteps(t)
              /\ S[k + 1] = all[1] /\ S[k + 2] = all[2]
              /\ \A i \in 1..Len(r) : S[k + 2 + i] = r[i]
  <2>1. t.first \in Seq(A) /\ all \in Seq(A) /\ Len(all) = 2 BY <1>1, <1>3
  <2>2. /\ S \in Seq(A) /\ Len(S) = k + 2 + Len(r)
        /\ \A i \in 1..k : S[i] = t.first[i]
        /\ S[k + 1] = all[1] /\ S[k + 2] = all[2]
        /\ \A i \in 1..Len(r) : S[k + 2 + i] = r[i]
    <3>1. AroundPair(A, t.first \o all \o r, t.first, all, r) BY <1>11, <2>1, AfterPair
    <3> QED BY <1>0, <1>8, <3>1 DEF AroundPair
  <2> QED BY <1>2, <2>2
<1>12. CASE t.master = NoMaster
  <2>1. r \in Seq(A) /\ Len(r) = 1 /\ r[1] = slaves
    BY <1>4, <1>7, <1>12
  <2>2. S[k + 2 + 1] = slaves BY <1>11, <2>1
  <2>3. S[k + 3] = slaves /\ Len(S) = k + 3 BY <1>2, <1>11, <2>1, <2>2
  <2> QED BY <1>0, <1>2, <1>3, <1>11, <1>12, <2>1, <2>3 DEF A, slaves, IsPlan
<1>13. CASE t.master # NoMaster
  <2>1. r = clocks \o g1 \o g2 \o g3
    BY <1>7, <1>13
  <2>2. clocks \in Seq(A) /\ Len(clocks) = 2
    BY <1>4
  <2>3. Len(g1) \in 0..1 /\ Len(g2) \in 0..1 /\ Len(g3) \in 0..1
    BY <1>6, <1>10
  <2>4. ThenUpToThree(A, r, clocks, g1, g2, g3)
    <3>1. g1 \in Seq(A) /\ g2 \in Seq(A) /\ g3 \in Seq(A) BY <1>9
    <3>2. ThenUpToThree(A, clocks \o g1 \o g2 \o g3, clocks, g1, g2, g3)
      BY <2>2, <2>3, <3>1, ThreeMore
    <3> QED BY <2>1, <3>2
  <2>5. /\ Len(r) = 2 + n1 + n2 + n3 /\ r[1] = slaves /\ r[2] = clocks[2]
        /\ n1 = 1 => r[3] = factor
        /\ n2 = 1 => r[3 + n1] = stepsize
        /\ n3 = 1 => r[3 + n1 + n2] = cycle
    <3>1. /\ Len(r) = Len(clocks) + n1 + n2 + n3
          /\ \A i \in 1..Len(clocks) : r[i] = clocks[i]
          /\ n1 = 1 => r[Len(clocks) + 1] = g1[1]
          /\ n2 = 1 => r[Len(clocks) + n1 + 1] = g2[1]
          /\ n3 = 1 => r[Len(clocks) + n1 + n2 + 1] = g3[1]
      BY <1>6, <2>4 DEF ThenUpToThree
    <3>2. Len(clocks) + 1 = 3 /\ Len(clocks) + n1 + 1 = 3 + n1
          /\ Len(clocks) + n1 + n2 + 1 = 3 + n1 + n2
          /\ 1 \in 1..Len(clocks) /\ 2 \in 1..Len(clocks)
      BY <1>10, <2>2
    <3> QED BY <1>4, <1>9, <2>2, <3>1, <3>2
  <2>6. \A i \in 1..2 + n1 + n2 + n3 : S[k + 2 + i] = r[i]
    BY <1>11, <2>4, <2>5 DEF ThenUpToThree
  <2>7. /\ S[k + 3] = slaves /\ S[k + 4] = clocks[2]
        /\ n1 = 1 => S[k + 5] = factor
        /\ n2 = 1 => S[k + 5 + n1] = stepsize
        /\ n3 = 1 => S[k + 5 + n1 + n2] = cycle
    BY <1>2, <1>10, <2>5, <2>6, PlanIndices
  <2>8. Len(S) = k + 4 + n1 + n2 + n3
    <3>1. r \in Seq(A) BY <2>4 DEF ThenUpToThree
    <3>2. Len(S) = k + 2 + Len(r) BY <1>11, <3>1
    <3>3. Len(r) = 2 + n1 + n2 + n3 BY <2>5
    <3> QED BY <1>2, <1>10, <3>2, <3>3
  <2>9. \A i \in k + 5 .. Len(S) :
          \/ i = k + 5 /\ n1 = 1
          \/ i = k + 5 + n1 /\ n2 = 1
          \/ i = k + 5 + n1 + n2 /\ n3 = 1
    BY <1>2, <1>10, <2>8
  <2>10. \A i \in k + 5 .. Len(S) : S[i] \in Optional(t)
    BY <2>7, <2>9 DEF Optional, factor, stepsize, cycle
  <2>11. factor.prop = "factor" /\ stepsize.prop = "stepsize" /\ cycle.prop = "cycle"
    BY DEF factor, stepsize, cycle, One, All
  <2>12. \A i, j \in k + 5 .. Len(S) : S[i].prop = S[j].prop => i = j
    BY <2>7, <2>9, <2>11
  <2>13. /\ t.factor # None => k + 5 \in k + 5 .. Len(S) /\ S[k + 5] = factor
         /\ t.stepsize # None => k + 5 + n1 \in k + 5 .. Len(S) /\ S[k + 5 + n1] = stepsize
         /\ t.cycle # None => /\ k + 5 + n1 + n2 \in k + 5 .. Len(S)
                              /\ S[k + 5 + n1 + n2] = cycle
    <3>1. (t.factor # None => n1 = 1) /\ (t.stepsize # None => n2 = 1) /\ (t.cycle # None => n3 = 1)
      BY <1>9
    <3>2. /\ n1 = 1 => k + 5 \in k + 5 .. Len(S)
          /\ n2 = 1 => k + 5 + n1 \in k + 5 .. Len(S)
          /\ n3 = 1 => k + 5 + n1 + n2 \in k + 5 .. Len(S)
      BY <1>2, <1>10, <2>8
    <3> QED BY <2>7, <3>1, <3>2
  <2>14. /\ t.factor # None => \E i \in k + 5 .. Len(S) : S[i] = factor
         /\ t.stepsize # None => \E i \in k + 5 .. Len(S) : S[i] = stepsize
         /\ t.cycle # None => \E i \in k + 5 .. Len(S) : S[i] = cycle
    BY <2>13
  <2>15. Len(S) >= k + 4 /\ Len(S) >= k + 3
    BY <1>2, <1>10, <2>8
  <2>16. /\ S \in Seq(A) /\ \A i \in 1..k : S[i] \in FirstSteps(t)
         /\ S[k + 1] = all[1] /\ S[k + 2] = all[2]
    BY <1>11, <2>4 DEF ThenUpToThree
  <2> QED
    BY <1>0, <1>2, <1>3, <1>4, <1>13, <2>7, <2>10, <2>12, <2>14, <2>15, <2>16
    DEF A, slaves, factor, stepsize, cycle, IsPlan
<1> QED BY <1>0, <1>12, <1>13


\* What every step of a call sets is a pair, of a property of the timing, at participants or
\* at the master.
LEMMA StepIs ==
  ASSUME NEW t \in Timings, NEW s \in AllSteps(t)
  PROVE  /\ s.prop \in {"master", "scheduler", "clock", "factor", "stepsize", "cycle", "trigger",
                        "master_factor"}
         /\ DOMAIN s.pair = {"type", "value"}
         /\ s.who \subseteq Participants \cup {t.master}
<1>1. CASE s \in FirstSteps(t)
  BY <1>1 DEF FirstSteps
<1>2. CASE s \in Required(t)
  BY <1>2 DEF Required, One, All, Pair, String
<1>3. CASE s \in Optional(t)
  BY <1>3 DEF Optional, One, All, Pair
<1> QED BY <1>1, <1>2, <1>3 DEF AllSteps

\* The places in the plan of a call that the invariants speak of: the two clocks, and that
\* no two of its own steps set the same property of the same participant.
LEMMA PlanFacts ==
  ASSUME NEW t \in Timings, NEW S, NEW k, IsPlan(t, S, k)
  PROVE  /\ k \in Nat /\ Len(S) \in Nat /\ Len(S) >= k + 3 /\ DOMAIN S = 1..Len(S)
         /\ \A i \in 1..Len(S) : S[i] \in AllSteps(t)
         /\ \A i \in 1..Len(S) : S[i].prop = "clock" =>
              i = k + 3 \/ (i = k + 4 /\ t.master # NoMaster)
         /\ \A i, j \in k + 1 .. Len(S) :
              i # j /\ S[i].prop = S[j].prop => S[i].who \cap S[j].who = {}
<1>1. /\ k \in Nat /\ S \in Seq(AllSteps(t)) /\ Len(S) >= k + 3
      /\ \A i \in 1..k : S[i] \in FirstSteps(t)
      /\ S[k + 1] = All("master", String(t.master), NoMaster)
      /\ S[k + 2] = All("scheduler", String(t.scheduler), NoMaster)
      /\ S[k + 3] = All("clock", String(t.slave_clock), t.master)
      /\ t.master = NoMaster => Len(S) = k + 3
  BY DEF IsPlan
<1>2. t.master # NoMaster =>
        /\ Len(S) >= k + 4
        /\ S[k + 4] = One(t.master, "clock", String(t.master_clock))
        /\ \A i \in k + 5 .. Len(S) : S[i] \in Optional(t)
        /\ \A i, j \in k + 5 .. Len(S) : S[i].prop = S[j].prop => i = j
  BY DEF IsPlan
<1>3. Len(S) \in Nat /\ DOMAIN S = 1..Len(S) /\ \A i \in 1..Len(S) : S[i] \in AllSteps(t)
  BY <1>1, LenProperties, ElementOfSeq
<1>4. \A i \in 1..k : S[i].prop \in {"trigger", "master_factor"}
  BY <1>1 DEF FirstSteps
<1>5. S[k + 1].prop = "master" /\ S[k + 2].prop = "scheduler" /\ S[k + 3].prop = "clock"
  BY <1>1 DEF All
<1>6. t.master # NoMaster =>
        /\ S[k + 4].prop = "clock"
        /\ \A i \in k + 5 .. Len(S) : S[i].prop \in {"factor", "stepsize", "cycle"}
  BY <1>2 DEF Optional, One, All
<1>7. \A i \in 1..Len(S) :
        \/ i \in 1..k \/ i = k + 1 \/ i = k + 2 \/ i = k + 3
        \/ t.master # NoMaster /\ (i = k + 4 \/ i \in k + 5 .. Len(S))
  <2>1. Len(S) \in Nat /\ k \in Nat /\ (t.master = NoMaster => Len(S) = k + 3)
    BY <1>1, <1>3
  <2> QED BY <2>1
<1>8. \A i \in 1..Len(S) : S[i].prop = "clock" =>
        i = k + 3 \/ (i = k + 4 /\ t.master # NoMaster)
  BY <1>4, <1>5, <1>6, <1>7
<1>9. ASSUME NEW i \in k + 1 .. Len(S), NEW j \in k + 1 .. Len(S), i # j, S[i].prop = S[j].prop
      PROVE  S[i].who \cap S[j].who = {}
  <2>1. /\ i \in 1..Len(S) /\ i \notin 1..k
        /\ j \in 1..Len(S) /\ j \notin 1..k
    <3>1. k \in Nat /\ Len(S) \in Nat BY <1>1, <1>3
    <3> QED BY <3>1
  <2>2. S[i].prop = "clock"
    <3>1. /\ i = k + 1 \/ i = k + 2 \/ i = k + 3
             \/ (t.master # NoMaster /\ (i = k + 4 \/ i \in k + 5 .. Len(S)))
          /\ j = k + 1 \/ j = k + 2 \/ j = k + 3
             \/ (t.master # NoMaster /\ (j = k + 4 \/ j \in k + 5 .. Len(S)))
      BY <1>7, <2>1
    <3> QED BY <1>2, <1>5, <1>6, <1>9, <3>1
  <2>3. /\ i = k + 3 \/ (i = k + 4 /\ t.master # NoMaster)
        /\ j = k + 3 \/ (j = k + 4 /\ t.master # NoMaster)
    BY <1>8, <1>9, <2>1, <2>2
  <2>4. S[k + 3].who = Participants \ {t.master}
    BY <1>1 DEF All
  <2>5. t.master # NoMaster => S[k + 4].who = {t.master}
    BY <1>2 DEF One
  <2> QED BY <1>9, <2>3, <2>4, <2>5
<1> QED BY <1>1, <1>2, <1>3, <1>8, <1>9

-----------------------------------------------------------------------------
(* What setProperty leaves.                                                 *)

\* A visit leaves the tree as it is or with the property stored; a FEP 3 participant that
\* says yes has stored it.
LEMMA VisitLeaves ==
  ASSUME NEW p \in Participants, NEW prop, NEW pair,
         NEW did \in SetProperty(p, prop, pair) \cup SetPropertyFails(p, prop, pair)
  PROVE  /\ did.node \in {tree[p], Stored(p, prop, pair)}
         /\ did.result \in {"true", "false", "throws", "null"}
         /\ Kind[p] = "new" /\ did.result = "true" => did.node = Stored(p, prop, pair)
<1> DEFINE After(d) ==
      /\ d.node \in {tree[p], Stored(p, prop, pair)}
      /\ d.result \in {"true", "false", "throws", "null"}
<1>1. ASSUME NEW k, NEW d \in SetNew(k, p, prop, pair)
      PROVE  After(d) /\ (d.result = "true" => d.node = Stored(p, prop, pair))
  BY <1>1 DEF SetNew, Did
<1>2. ASSUME NEW k, NEW d \in SetNewFails(k, p, prop, pair)
      PROVE  After(d) /\ d.result # "true"
  <2>1. CASE d \in Did({"false", "throws"}, {tree[p]})
    BY <2>1 DEF Did
  <2>2. ASSUME NEW e \in SetNew(k, p, prop, pair), d = [e EXCEPT !.result = "throws"]
        PROVE  After(d) /\ d.result # "true"
    <3>1. e \in [result : {"true", "false"}, node : {tree[p], Stored(p, prop, pair)}]
      BY DEF SetNew, Did
    <3> QED BY <2>2, <3>1
  <2> QED BY <1>2, <2>1, <2>2 DEF SetNewFails
<1>3. ASSUME NEW d \in SetOld(p, prop, pair) \cup SetOldFails(p, prop, pair) PROVE After(d)
  BY <1>3 DEF SetOld, SetOldFails, Did
<1>4. Kind[p] \in {"old", "patched", "new"}
  BY ConfigurationAssumption
<1>5. CASE did \in SetProperty(p, prop, pair)
  <2>1. CASE p \notin up
    BY <1>5, <2>1 DEF SetProperty, Did
  <2>2. CASE p \in up /\ Kind[p] = "old"
    BY <1>3, <1>5, <2>2 DEF SetProperty
  <2>3. CASE p \in up /\ Kind[p] # "old"
    BY <1>1, <1>5, <2>3 DEF SetProperty
  <2> QED BY <2>1, <2>2, <2>3
<1>6. CASE did \in SetPropertyFails(p, prop, pair)
  <2>1. p \in up
    BY <1>6 DEF SetPropertyFails
  <2>2. CASE Kind[p] = "old"
    BY <1>3, <1>6, <2>1, <2>2 DEF SetPropertyFails
  <2>3. CASE Kind[p] = "patched"
    BY <1>2, <1>3, <1>6, <2>1, <2>3 DEF SetPropertyFails
  <2>4. CASE Kind[p] = "new"
    <3>1. did \in SetNewFails("new", p, prop, pair) \cup Did({"null"}, {tree[p]})
      BY <1>6, <2>1, <2>4 DEF SetPropertyFails
    <3> QED BY <1>2, <3>1 DEF Did
  <2> QED BY <1>4, <2>2, <2>3, <2>4
<1> QED BY <1>5, <1>6


\* The node that a visit leaves is one of a tree.
LEMMA NodeKept ==
  ASSUME NEW old, NodeOK(old), NEW prop, NEW pair, DOMAIN pair = {"type", "value"},
         NEW node \in {old, [old EXCEPT ![prop] = pair]}
  PROVE  NodeOK(node)
BY DEF NodeOK

\* What a visit or a restart changes: one tree, and what a copy has seen of it.
Changed(p, node) ==
  /\ \A q \in Participants : tree'[q] = IF q = p THEN node ELSE tree[q]
  /\ TreesOK'
  /\ \A n \in Node : seen[n] \subseteq seen'[n]
  /\ Reading => \A n \in Node : AsRead(tree'[peer][n]) \in seen'[n]

\* A tree that becomes another one changes nothing else but what a running copy has seen.
LEMMA BecomesChanges ==
  ASSUME TreesOK, ReaderTypeOK, CopyInv, NEW p \in Participants, NEW node, NodeOK(node), Becomes(p, node)
  PROVE  Changed(p, node)
<1>1. tree' = [tree EXCEPT ![p] = node] /\ DOMAIN tree = Participants
  BY DEF Becomes, TreesOK
<1>2. \A q \in Participants : tree'[q] = IF q = p THEN node ELSE tree[q]
  BY <1>1
<1>3. TreesOK'
  BY <1>1, <1>2 DEF TreesOK, NodeOK
<1>4. /\ p # peer => seen' = seen
      /\ p = peer => seen' = [n \in Node |-> seen[n] \cup {AsRead(node[n])}]
  BY DEF Becomes
<1>5. \A n \in Node : seen[n] \subseteq seen'[n]
  BY <1>4
<1>6. ASSUME Reading, NEW n \in Node
      PROVE  AsRead(tree'[peer][n]) \in seen'[n]
  <2>1. peer \in Participants /\ AsRead(tree[peer][n]) \in seen[n]
    BY <1>6 DEF CopyInv, ReaderTypeOK
  <2>2. CASE p = peer
    BY <1>2, <1>4, <2>1, <2>2
  <2>3. CASE p # peer
    <3>1. tree'[peer] = tree[peer] BY <1>2, <2>1, <2>3
    <3> QED BY <1>4, <2>1, <2>3, <3>1
  <2> QED BY <2>2, <2>3
<1> QED BY <1>2, <1>3, <1>5, <1>6 DEF Changed

\* What a copy has read stays something it has seen while the field changes.
LEMMA CopyKept ==
  ASSUME CopyInv, ReaderTypeOK, UNCHANGED readerVars,
         \A n \in Node : seen[n] \subseteq seen'[n],
         Reading => \A n \in Node : AsRead(tree'[peer][n]) \in seen'[n]
  PROVE  CopyInv'
<1>1. UNCHANGED <<reading, peer, via, names, value, copy>>
  BY DEF readerVars
<1>2. DOMAIN copy \subseteq Node
  BY DEF ReaderTypeOK
<1>3. \A n \in Node : \A f \in {"type", "value"} :
        {s[f] : s \in seen[n]} \subseteq {s[f] : s \in seen'[n]}
  OBVIOUS
<1>4. \A n \in Node : /\ {s.type : s \in seen[n]} \subseteq {s.type : s \in seen'[n]}
                      /\ {s.value : s \in seen[n]} \subseteq {s.value : s \in seen'[n]}
  BY <1>3
<1>5. /\ (peer # 0 <=> Reading)' 
      /\ (Reading => \A n \in Node : AsRead(tree[peer][n]) \in seen[n])'
      /\ (reading # "type" => names \cap DOMAIN copy = {} \/ reading = "names")'
      /\ (reading = "names" => copy = <<>>)' /\ (reading # "type" => value = None)'
  BY <1>1 DEF CopyInv, Reading
<1>6. (reading = "type" =>
         /\ TakesTwoCalls
         /\ \A n, m \in names \cap DOMAIN copy : n = m
         /\ \A n \in names \cap DOMAIN copy :
              copy[n] = Blank /\ value \in {s.value : s \in seen[n]} \cup {None})'
  BY <1>1, <1>2, <1>4 DEF CopyInv, TakesTwoCalls, Blank
<1>7. ASSUME NEW n \in DOMAIN copy
      PROVE (IF via = "old" THEN /\ copy[n].value \in {s.value : s \in seen[n]} \cup {None}
                                 /\ copy[n].type \in {s.type : s \in seen[n]} \cup {None}
                                 /\ DOMAIN copy[n] = {"type", "value"}
                            ELSE copy[n] \in seen[n])'
  <2>1. n \in Node
    BY <1>2
  <2>2. IF via = "old" THEN /\ copy[n].value \in {s.value : s \in seen[n]} \cup {None}
                            /\ copy[n].type \in {s.type : s \in seen[n]} \cup {None}
                            /\ DOMAIN copy[n] = {"type", "value"}
                       ELSE copy[n] \in seen[n]
    BY DEF CopyInv
  <2> QED BY <1>1, <1>4, <2>1, <2>2
<1> QED BY <1>1, <1>5, <1>6, <1>7 DEF CopyInv

-----------------------------------------------------------------------------
(* The steps of a copy.                                                     *)

\* A copy begins with what the properties are, and has read nothing.
LEMMA CopyBeginsKeeps ==
  ASSUME ReaderTypeOK, TreesOK, CopyInv, NEW p \in Participants, CopyBegins(p)
  PROVE  ReaderTypeOK' /\ CopyInv'
<1> USE ConfigurationAssumption DEF CopyBegins, Call
<1>1. ReaderTypeOK'
  BY DEF ReaderTypeOK
<1>2. CopyInv'
  BY DEF CopyInv, ReaderTypeOK, Reading
<1> QED BY <1>1, <1>2

\* The names of a node are read: nothing has been read of it yet.
LEMMA ReadNamesKeeps ==
  ASSUME ReaderTypeOK, CopyInv, ReadNames
  PROVE  ReaderTypeOK' /\ CopyInv'
<1> USE DEF ReadNames, field
<1>1. ReaderTypeOK'
  BY DEF ReaderTypeOK
<1>2. CopyInv'
  BY DEF CopyInv, ReaderTypeOK, Reading
<1> QED BY <1>1, <1>2

\* A copy ends when every name has been read.
LEMMA CopyEndsKeeps ==
  ASSUME ReaderTypeOK, CopyInv, CopyEnds
  PROVE  ReaderTypeOK' /\ CopyInv'
<1> USE DEF CopyEnds, field
<1>1. ReaderTypeOK'
  BY DEF ReaderTypeOK
<1>2. CopyInv'
  BY DEF CopyInv, ReaderTypeOK, Reading
<1> QED BY <1>1, <1>2

\* A copy that throws leaves nothing.
LEMMA ReadThrowsKeeps ==
  ASSUME ReaderTypeOK, CopyInv, ReadThrows
  PROVE  ReaderTypeOK' /\ CopyInv'
<1> USE ConfigurationAssumption DEF ReadThrows, Trouble, field
<1>1. ReaderTypeOK'
  BY DEF ReaderTypeOK
<1>2. CopyInv'
  BY DEF CopyInv, ReaderTypeOK, Reading
<1> QED BY <1>1, <1>2

\* Writing down what was read of a property leaves the rest of the copy.
LEMMA WritesDown ==
  ASSUME NEW n, NEW pair, copy' = Noted(n, pair)
  PROVE  /\ DOMAIN copy' = DOMAIN copy \cup {n} /\ copy'[n] = pair
         /\ \A m \in DOMAIN copy \ {n} : copy'[m] = copy[m]
BY DEF Noted

\* What is in the copy of a property is right.
Right(n) ==
  IF via = "old" THEN /\ copy[n].value \in {s.value : s \in seen[n]} \cup {None}
                      /\ copy[n].type \in {s.type : s \in seen[n]} \cup {None}
                      /\ DOMAIN copy[n] = {"type", "value"}
                 ELSE copy[n] \in seen[n]

\* Type and value of a property come from one moment.
LEMMA ReadPairKeeps ==
  ASSUME ReaderTypeOK, CopyInv, NEW n \in Node, ReadPair(n)
  PROVE  ReaderTypeOK' /\ CopyInv'
<1> USE DEF ReadPair, field
<1>1. /\ DOMAIN copy' = DOMAIN copy \cup {n} /\ copy'[n] = AsRead(tree[peer][n])
      /\ \A m \in DOMAIN copy \ {n} : copy'[m] = copy[m]
  BY WritesDown
<1>2. ReaderTypeOK'
  BY <1>1 DEF ReaderTypeOK
<1>3. ASSUME NEW m \in DOMAIN copy' PROVE Right(m)'
  <2>1. CASE m = n
    BY <1>1, <2>1 DEF CopyInv, Reading, Right, TakesTwoCalls
  <2>2. CASE m # n
    BY <1>1, <2>2 DEF CopyInv, Right
  <2> QED BY <2>1, <2>2
<1>4. CopyInv'
  BY <1>1, <1>3 DEF CopyInv, Reading, Right
<1> QED BY <1>2, <1>4

\* The legacy interface gives the value of a property, whose type is not yet known.
LEMMA ReadValueKeeps ==
  ASSUME ReaderTypeOK, CopyInv, NEW n \in Node, ReadValue(n)
  PROVE  ReaderTypeOK' /\ CopyInv'
<1> USE DEF ReadValue, field
<1>1. /\ DOMAIN copy' = DOMAIN copy \cup {n} /\ copy'[n] = Blank
      /\ \A m \in DOMAIN copy \ {n} : copy'[m] = copy[m]
  BY WritesDown
<1>2. ReaderTypeOK'
  BY <1>1 DEF ReaderTypeOK
<1>3. ASSUME NEW m \in DOMAIN copy' PROVE Right(m)'
  <2>1. CASE m = n
    BY <1>1, <2>1 DEF Blank, Right, TakesTwoCalls
  <2>2. CASE m # n
    BY <1>1, <2>2 DEF CopyInv, Right
  <2> QED BY <2>1, <2>2
<1>4. names' \cap DOMAIN copy' = {n}
  BY <1>1 DEF CopyInv
<1>5. value' \in {s.value : s \in seen[n]}
  BY DEF CopyInv, Reading
<1>6. CopyInv'
  BY <1>1, <1>3, <1>4, <1>5 DEF CopyInv, Reading, Right, TakesTwoCalls
<1> QED BY <1>2, <1>6

\* ... and then its type.
LEMMA ReadTypeKeeps ==
  ASSUME ReaderTypeOK, CopyInv, NEW n \in Node, ReadType(n)
  PROVE  ReaderTypeOK' /\ CopyInv'
<1> USE DEF ReadType, field
<1>1. ReaderTypeOK'
  BY DEF ReaderTypeOK
<1>2. /\ DOMAIN copy' = DOMAIN copy
      /\ copy'[n] = [type |-> AsRead(tree[peer][n]).type, value |-> value]
      /\ \A m \in DOMAIN copy \ {n} : copy'[m] = copy[m]
  OBVIOUS
<1>3. ASSUME NEW m \in DOMAIN copy' PROVE Right(m)'
  <2>1. CASE m = n
    <3>1. /\ value \in {s.value : s \in seen[n]} \cup {None} /\ via = "old"
          /\ AsRead(tree[peer][n]) \in seen[n]
      BY <1>2 DEF CopyInv, Reading, TakesTwoCalls
    <3>2. AsRead(tree[peer][n]).type \in {s.type : s \in seen[n]}
      BY <3>1
    <3> QED BY <1>2, <2>1, <3>1, <3>2 DEF Right
  <2>2. CASE m # n
    BY <1>2, <2>2 DEF CopyInv, Right
  <2> QED BY <2>1, <2>2
<1>4. names' \cap DOMAIN copy' = {}
  BY <1>2 DEF CopyInv
<1>5. CopyInv'
  BY <1>2, <1>3, <1>4 DEF CopyInv, Reading, Right
<1> QED BY <1>1, <1>5

\* An error of the legacy interface leaves an empty string.
LEMMA ReadsNothingKeeps ==
  ASSUME ReaderTypeOK, CopyInv, ReadsNothing
  PROVE  ReaderTypeOK' /\ CopyInv'
<1> USE ConfigurationAssumption DEF ReadsNothing, Trouble, field
<1>1. CASE reading = "names"
  <2>1. ReaderTypeOK'
    BY <1>1 DEF ReaderTypeOK
  <2>2. CopyInv'
    BY <1>1 DEF CopyInv, Reading
  <2> QED BY <2>1, <2>2
<1>2. CASE reading = "read"
  <2>1. PICK n \in names : copy' = Noted(n, Blank)
    BY <1>2
  <2>2. /\ DOMAIN copy' = DOMAIN copy \cup {n} /\ copy'[n] = Blank
        /\ \A m \in DOMAIN copy \ {n} : copy'[m] = copy[m]
    BY <2>1, WritesDown
  <2>3. ReaderTypeOK'
    BY <1>2, <2>2 DEF ReaderTypeOK
  <2>4. ASSUME NEW m \in DOMAIN copy' PROVE Right(m)'
    <3>1. CASE m = n
      BY <1>2, <2>2, <3>1 DEF Blank, Right
    <3>2. CASE m # n
      BY <1>2, <2>2, <3>2 DEF CopyInv, Right
    <3> QED BY <3>1, <3>2
  <2>5. names' \cap DOMAIN copy' = {n} /\ value' = None
    BY <1>2, <2>2 DEF CopyInv
  <2>6. CopyInv'
    BY <1>2, <2>2, <2>4, <2>5 DEF CopyInv, Reading, Right, TakesTwoCalls
  <2> QED BY <2>3, <2>6
<1>3. CASE reading = "type"
  <2>1. PICK n \in names \cap DOMAIN copy :
          copy' = [copy EXCEPT ![n].value = value] /\ names' = names \ {n}
    BY <1>3
  <2>2. /\ DOMAIN copy' = DOMAIN copy
        /\ copy'[n] = [copy[n] EXCEPT !.value = value]
        /\ \A m \in DOMAIN copy \ {n} : copy'[m] = copy[m]
    BY <2>1
  <2>3. ReaderTypeOK'
    BY <1>3, <2>1, <2>2 DEF ReaderTypeOK
  <2>4. ASSUME NEW m \in DOMAIN copy' PROVE Right(m)'
    <3>1. CASE m = n
      <4>1. copy[n] = Blank /\ value \in {s.value : s \in seen[n]} \cup {None}
        BY <1>3 DEF CopyInv
      <4>2. copy'[n] = [type |-> None, value |-> value]
        BY <2>2, <4>1 DEF Blank
      <4> QED BY <1>3, <3>1, <4>1, <4>2 DEF Right
    <3>2. CASE m # n
      BY <1>3, <2>2, <3>2 DEF CopyInv, Right
    <3> QED BY <3>1, <3>2
  <2>5. names' \cap DOMAIN copy' = {}
    BY <1>3, <2>1, <2>2 DEF CopyInv
  <2>6. CopyInv'
    BY <1>3, <2>1, <2>2, <2>4, <2>5 DEF CopyInv, Reading, Right
  <2> QED BY <2>3, <2>6
<1> QED BY <1>1, <1>2, <1>3


-----------------------------------------------------------------------------
(* The steps of a call.                                                     *)

\* The participants that are to be visited are numbers, of which there is a least one.
LEMMA MinIsIn ==
  ASSUME NEW T, T \subseteq Nat, T # {}
  PROVE  Min(T) \in T
<1> DEFINE R == {ss \in Nat \X Nat : ss[1] < ss[2]}
<1>1. IsWellFoundedOn(R, Nat)
  BY NatLessThanWellFounded DEF OpToRel
<1> HIDE DEF R
<1>2. PICK x \in T : \A y \in T : <<y, x>> \notin R
  BY <1>1, WFMin
<1>3. \A y \in Nat : y < x => <<y, x>> \in R
  BY DEF R
<1>4. ASSUME NEW y \in T PROVE x <= y
  <2>1. x \in Nat /\ y \in Nat
    OBVIOUS
  <2>2. ~(y < x)
    BY <1>2, <1>3, <2>1
  <2> QED BY <2>1, <2>2
<1> QED BY <1>4 DEF Min

\* The parts of the invariant that speak of a call.
CallInvs == CallInv /\ ServedInv /\ ClockInv

\* What a call relies on of its steps.
LEMMA CallSteps ==
  ASSUME CallInv, pc # "idle"
  PROVE  /\ timing \in Timings /\ IsPlan(timing, steps, Len(timing.first))
         /\ Len(timing.first) \in Nat /\ Len(steps) \in Nat /\ DOMAIN steps = 1..Len(steps)
         /\ at \in 1..Len(steps) /\ Step \in AllSteps(timing)
<1>1. timing \in Timings /\ steps = Steps(timing) /\ at \in DOMAIN steps
  BY DEF CallInv
<1>2. IsPlan(timing, steps, Len(timing.first))
  BY <1>1, PlanOrder
<1>3. /\ Len(timing.first) \in Nat /\ Len(steps) \in Nat /\ DOMAIN steps = 1..Len(steps)
      /\ \A i \in 1..Len(steps) : steps[i] \in AllSteps(timing)
  BY <1>1, <1>2, PlanFacts
<1> QED BY <1>1, <1>2, <1>3 DEF Step

\* The field may change at participants that this makes disturbed; none of them gets the
\* clock of a simulation master.
LEMMA OthersKeep ==
  ASSUME CallInvs, UNCHANGED callVars, disturbed \subseteq disturbed',
         \A p \in Participants \ disturbed' : tree'[p] = tree[p],
         \A p \in Participants : IsMaster(p)' => IsMaster(p)
  PROVE  CallInvs'
<1>1. UNCHANGED <<pc, timing, steps, at, todo, failing>>
  BY DEF callVars
<1>2. CallInv'
  BY <1>1 DEF CallInv, CallInvs, Step
<1>3. ServedInv'
  BY <1>1 DEF ServedInv, Served, CallInvs
<1>4. ClockInv'
  BY <1>1 DEF ClockInv, OneMasterClock, IsMaster, SlaveStep, CallInvs
<1> QED BY <1>2, <1>3, <1>4 DEF CallInvs

\* Nor does a call notice that a copy goes on.
LEMMA ReadersKeep ==
  ASSUME CallInvs, TreesOK, UNCHANGED <<callVars, tree, disturbed>>
  PROVE  TreesOK' /\ CallInvs'
<1>1. TreesOK'
  BY DEF TreesOK, NodeOK
<1>2. \A p \in Participants : IsMaster(p)' => IsMaster(p)
  BY DEF IsMaster, Has
<1> QED BY <1>1, <1>2, OthersKeep

\* A call begins at the first of its steps, with nobody served.
LEMMA ConfigureTimingKeeps ==
  ASSUME IInv, NEW t \in Timings, ConfigureTiming(t)
  PROVE  IInv'
<1> USE ConfigurationAssumption DEF ConfigureTiming, Call
<1>1. PICK k : k = Len(t.first)
  OBVIOUS
<1>2. /\ k \in Nat /\ Len(steps') \in Nat /\ Len(steps') >= k + 3
      /\ DOMAIN steps' = 1..Len(steps')
  <2>1. IsPlan(t, steps', k)
    BY <1>1, PlanOrder
  <2> QED BY <2>1, PlanFacts
<1>3. 1 \in DOMAIN steps' /\ at' = 1 /\ timing' = t
  BY <1>2
<1>4. ReaderTypeOK' /\ TreesOK'
  BY DEF IInv, ReaderTypeOK, TreesOK, NodeOK, readerVars
<1>5. CopyInv'
  BY CopyKept DEF IInv, CopyInv, readerVars
<1>6. CallInv'
  BY <1>3 DEF CallInv, Step
<1>7. ServedInv'
  BY <1>2, <1>3 DEF ServedInv, Served
<1>8. ClockInv'
  BY <1>1, <1>2, <1>3 DEF IInv, ClockInv, OneMasterClock, Has, SlaveStep
<1> QED BY <1>4, <1>5, <1>6, <1>7, <1>8 DEF IInv

\* The field and the copy do not change at the end of a round.
LEMMA RestKept ==
  ASSUME IInv, UNCHANGED <<field, readerVars, calls, troubles>>
  PROVE  ReaderTypeOK' /\ TreesOK' /\ CopyInv'
<1>1. ReaderTypeOK' /\ TreesOK'
  BY DEF IInv, ReaderTypeOK, TreesOK, NodeOK, readerVars, field
<1>2. CopyInv'
  BY CopyKept DEF IInv, CopyInv, readerVars, field
<1> QED BY <1>1, <1>2

\* A call that ends does not touch the field.
LEMMA EndsKeep ==
  ASSUME IInv, Unknown \/ Refused \/ Returns
  PROVE  IInv'
<1> USE DEF Unknown, Refused, Returns, Running, field
<1>1. ReaderTypeOK' /\ TreesOK' /\ CopyInv'
  BY RestKept
<1>2. CallInv'
  BY DEF IInv, CallInv, Step
<1>3. ServedInv'
  BY DEF IInv, ServedInv, Served
<1>4. ClockInv'
  BY DEF IInv, ClockInv, OneMasterClock, Has
<1> QED BY <1>1, <1>2, <1>3, <1>4 DEF IInv

\* The next property starts with nobody served; the clock of the master comes only after that
\* of all the others.
LEMMA NextPropertyKeeps ==
  ASSUME IInv, NextProperty
  PROVE  IInv'
<1> USE DEF NextProperty, Running, field
<1>1. ReaderTypeOK' /\ TreesOK' /\ CopyInv'
  BY RestKept
<1>2. PICK k : k = Len(timing.first)
  OBVIOUS
<1>3. /\ timing \in Timings /\ IsPlan(timing, steps, k)
      /\ k \in Nat /\ Len(steps) \in Nat /\ DOMAIN steps = 1..Len(steps) /\ at \in 1..Len(steps)
  BY <1>2, CallSteps DEF IInv
<1>4. at' \in 1..Len(steps) /\ at' = at + 1 /\ todo' = steps[at'].who /\ failing' = {}
  BY <1>3
<1>5. CallInv'
  BY <1>3, <1>4 DEF IInv, CallInv, Step
<1>6. ServedInv'
  <2>1. ASSUME NEW j \in 1..at', NEW p \in Participants, j = at' \/ j > k, Served(j, p)'
        PROVE  tree[p][steps[j].prop] = steps[j].pair
    <3>1. j # at'
      BY <1>4, <2>1 DEF Served
    <3>2. j \in 1..at /\ j > k
      BY <1>3, <1>4, <2>1, <3>1
    <3>3. Served(j, p)
      BY <2>1 DEF Served
    <3> QED BY <1>2, <2>1, <3>2, <3>3 DEF IInv, ServedInv
  <2> QED BY <1>2, <2>1 DEF ServedInv
<1>7. ClockInv'
  <2>1. ASSUME timing.master # NoMaster, at' \in {k + 3, k + 4}, NEW p \in Participants \ {timing.master},
               at' = k + 3 => p \notin todo' \cup failing'
        PROVE  ~IsMaster(p)
    <3>1. steps[k + 3].who = Participants \ {timing.master}
      <4>1. steps[k + 3] = All("clock", String(timing.slave_clock), timing.master)
        BY <1>3 DEF IsPlan
      <4> QED BY <4>1 DEF All
    <3>2. at' = k + 4
      BY <1>4, <2>1, <3>1
    <3>3. at = k + 3
      BY <1>3, <1>4, <3>2
    <3> QED BY <1>2, <2>1, <3>3 DEF IInv, ClockInv, SlaveStep
  <2> QED BY <1>2, <1>3, <2>1 DEF IInv, ClockInv, OneMasterClock, Has, IsMaster, SlaveStep
<1> QED BY <1>1, <1>5, <1>6, <1>7 DEF IInv

\* A visit serves one participant and spares what the steps before gave to it; it makes a
\* simulation master only when there is no other.
LEMMA VisitKeeps ==
  ASSUME IInv, Visit
  PROVE  IInv'
<1> USE DEF Visit, Running
<1>1. PICK p, k : p = Min(todo) /\ k = Len(timing.first)
  OBVIOUS
<1>2. p \in todo /\ p \in Participants
  <2>1. Participants \subseteq Nat
    BY ConfigurationAssumption
  <2> QED BY <1>1, <2>1, MinIsIn
<1>3. /\ timing \in Timings /\ IsPlan(timing, steps, k)
      /\ k \in Nat /\ Len(steps) \in Nat /\ DOMAIN steps = 1..Len(steps) /\ at \in 1..Len(steps)
      /\ Step \in AllSteps(timing) /\ Step = steps[at]
  BY <1>1, CallSteps DEF IInv, Step
<1>4. /\ todo \subseteq Step.who \ failing /\ failing \subseteq Step.who
      /\ Step.who \ Participants \subseteq todo
  BY DEF IInv, CallInv
<1>5. PICK did \in SetProperty(p, Step.prop, Step.pair) \cup SetPropertyFails(p, Step.prop, Step.pair) :
        Visited(p, did) /\ (UNCHANGED troubles \/ Trouble)
  BY <1>1
<1>6. /\ did.node \in {tree[p], Stored(p, Step.prop, Step.pair)}
      /\ did.result \in {"true", "false", "throws", "null"}
      /\ Kind[p] = "new" /\ did.result = "true" => did.node = Stored(p, Step.prop, Step.pair)
  BY <1>2, VisitLeaves
<1>7. /\ Step.prop \in Props /\ DOMAIN Step.pair = {"type", "value"}
  <2>1. /\ Step.prop \in {"master", "scheduler", "clock", "factor", "stepsize", "cycle", "trigger",
                          "master_factor"}
        /\ DOMAIN Step.pair = {"type", "value"}
    BY <1>3, StepIs
  <2>2. Step.prop \in DOMAIN StartTree[p]
    BY <1>2, <2>1, ClockAssumption
  <2> QED BY <1>2, <2>1, <2>2 DEF Props
<1>8. NodeOK(tree[p])
  BY <1>2 DEF IInv, TreesOK
<1>9. Changed(p, did.node)
  <2>1. NodeOK(did.node)
    BY <1>6, <1>7, <1>8, NodeKept DEF Stored
  <2>2. Becomes(p, did.node)
    BY <1>5 DEF Visited
  <2> QED BY <1>2, <2>1, <2>2, BecomesChanges DEF IInv
<1>10. /\ todo' = todo \ {p}
       /\ failing' = IF did.result = "false" THEN failing \cup {p} ELSE failing
       /\ pc' \in {"run", "threw", "crashed"}
       /\ pc' = "run" => did.result \in {"true", "false"}
       /\ UNCHANGED <<timing, steps, at, disturbed>>
  BY <1>5, <1>6 DEF Visited
<1>11. ReaderTypeOK'
  <2>1. UNCHANGED <<up, disturbed, readerVars, calls>> /\ troubles' \in 0..MaxTroubles
    BY <1>5, ConfigurationAssumption DEF Trouble, IInv, ReaderTypeOK
  <2> QED BY <2>1 DEF IInv, ReaderTypeOK, readerVars
<1>12. CopyInv'
  BY <1>9, CopyKept DEF Changed, IInv
<1>13. CallInv'
  BY <1>2, <1>4, <1>10 DEF IInv, CallInv, Step
<1>14. \A q \in Participants : q # p => tree'[q] = tree[q]
  BY <1>9 DEF Changed
<1>15. tree'[p] = did.node
  BY <1>2, <1>9 DEF Changed
<1>16. \A n \in Props : n # Step.prop => tree'[p][n] = tree[p][n]
  BY <1>6, <1>8, <1>15 DEF Stored, NodeOK
<1>17. Kind[p] = "new" /\ did.result = "true" => tree'[p][Step.prop] = Step.pair
  BY <1>6, <1>7, <1>8, <1>15 DEF Stored, NodeOK
<1>18. tree'[p][Step.prop] \in {tree[p][Step.prop], Step.pair}
  BY <1>6, <1>7, <1>8, <1>15 DEF Stored, NodeOK
<1>19. ServedInv'
  <2>1. ASSUME pc' = "run", NEW j \in 1..at, NEW q \in Participants, j = at \/ j > k, Served(j, q)'
        PROVE  tree'[q][steps[j].prop] = steps[j].pair
    <3>1. CASE q # p
      <4>1. Served(j, q)
        BY <1>10, <2>1, <3>1 DEF Served
      <4>2. tree[q][steps[j].prop] = steps[j].pair
        BY <1>1, <2>1, <4>1 DEF IInv, ServedInv
      <4> QED BY <1>14, <3>1, <4>2
    <3>2. CASE q = p /\ j = at
      <4>1. Kind[p] = "new" /\ did.result = "true"
        BY <1>10, <2>1, <3>2 DEF Served
      <4> QED BY <1>3, <1>17, <3>2, <4>1
    <3>3. CASE q = p /\ j # at
      <4>1. Served(j, p) /\ p \in steps[j].who
        BY <1>10, <2>1, <3>3 DEF Served
      <4>2. tree[p][steps[j].prop] = steps[j].pair
        BY <1>1, <1>2, <2>1, <3>3, <4>1 DEF IInv, ServedInv
      <4>3. j \in k + 1 .. Len(steps) /\ at \in k + 1 .. Len(steps) /\ j \in 1..Len(steps)
        BY <1>3, <2>1, <3>3
      <4>4. steps[j].prop # Step.prop
        <5>1. p \in Step.who
          BY <1>2, <1>4
        <5>2. \A i, l \in k + 1 .. Len(steps) :
                i # l /\ steps[i].prop = steps[l].prop => steps[i].who \cap steps[l].who = {}
          BY <1>3, PlanFacts
        <5> QED BY <1>3, <3>3, <4>1, <4>3, <5>1, <5>2
      <4>5. steps[j].prop \in Props
        <5>1. steps[j] \in AllSteps(timing)
          BY <1>3, <4>3, PlanFacts
        <5>2. steps[j].prop \in {"master", "scheduler", "clock", "factor", "stepsize", "cycle",
                                 "trigger", "master_factor"}
          BY <1>3, <5>1, StepIs
        <5>3. steps[j].prop \in DOMAIN StartTree[p]
          BY <1>2, <5>2, ClockAssumption
        <5> QED BY <1>2, <5>3 DEF Props
      <4> QED BY <1>16, <3>3, <4>2, <4>4, <4>5
    <3> QED BY <3>1, <3>2, <3>3
  <2> QED BY <1>1, <1>10, <2>1 DEF ServedInv
<1>20. \A q \in Participants : q # p => IsMaster(q)' = IsMaster(q)
  BY <1>14 DEF IsMaster, Has
<1>21. steps[k + 3] = All("clock", String(timing.slave_clock), timing.master)
  BY <1>3 DEF IsPlan
<1>22. timing.master # NoMaster => steps[k + 4] = One(timing.master, "clock", String(timing.master_clock))
  BY <1>3 DEF IsPlan
<1>23. "clock" \in Props
  <2>1. "clock" \in DOMAIN StartTree[p]
    BY <1>2, ClockAssumption
  <2> QED BY <1>2, <2>1 DEF Props
<1>24. CASE Step.prop # "clock"
  <2>1. IsMaster(p)' = IsMaster(p)
    BY <1>16, <1>23, <1>24 DEF IsMaster, Has
  <2>2. timing.master # NoMaster => at \notin {k + 3, k + 4}
    BY <1>3, <1>21, <1>22, <1>24 DEF All, One
  <2>3. OneMasterClock'
    BY <1>20, <2>1 DEF IInv, ClockInv, OneMasterClock, IsMaster
  <2>4. ClockInv'
    <3>1. SlaveStep' = k + 3 /\ SlaveStep' + 1 = k + 4
      BY <1>1, <1>3, <1>10 DEF SlaveStep
    <3> QED BY <1>10, <2>2, <2>3, <3>1 DEF ClockInv
  <2> QED BY <1>9, <1>11, <1>12, <1>13, <1>19, <2>4 DEF IInv, Changed
<1>25. CASE at = k + 3
  <2>1. Step.pair.value # "SIM_TIME" /\ Step.prop = "clock" /\ Step.who = Participants \ {timing.master}
    <3>1. timing.slave_clock # "SIM_TIME"
      BY <1>3, TimingsAssumption
    <3> QED BY <1>3, <1>21, <1>25, <3>1 DEF All, String, Pair
  <2>2. IsMaster(p)' => IsMaster(p)
    BY <1>18, <2>1 DEF IsMaster, Has
  <2>3. OneMasterClock'
    BY <1>2, <1>20, <2>2 DEF IInv, ClockInv, OneMasterClock, IsMaster
  <2>4. ASSUME pc' = "run", timing.master # NoMaster, NEW q \in Participants \ {timing.master},
               q \notin todo' \cup failing'
        PROVE  ~IsMaster(q)'
    <3>1. CASE q = p
      <4>1. did.result = "true"
        BY <1>10, <2>4, <3>1
      <4> QED BY <1>17, <2>1, <3>1, <4>1 DEF IsMaster, Has
    <3>2. CASE q # p
      <4>1. q \notin todo \cup failing
        BY <1>10, <2>4, <3>2
      <4>2. ~IsMaster(q)
        BY <1>1, <1>25, <2>4, <4>1 DEF IInv, ClockInv, SlaveStep
      <4> QED BY <1>20, <2>4, <3>2, <4>2
    <3> QED BY <3>1, <3>2
  <2>5. ClockInv'
    <3>1. SlaveStep' = k + 3 /\ at' = k + 3
      BY <1>1, <1>10, <1>25 DEF SlaveStep
    <3> QED BY <1>10, <2>3, <2>4, <3>1 DEF ClockInv
  <2> QED BY <1>9, <1>11, <1>12, <1>13, <1>19, <2>5 DEF IInv, Changed
<1>26. CASE at = k + 4 /\ timing.master # NoMaster
  <2>1. p = timing.master
    BY <1>2, <1>3, <1>4, <1>22, <1>26 DEF One
  <2>2. at = SlaveStep + 1 /\ at # SlaveStep
    BY <1>1, <1>3, <1>26 DEF SlaveStep
  <2>3. \A q \in Participants : q # p => ~IsMaster(q)
    BY <1>26, <2>1, <2>2 DEF IInv, ClockInv
  <2>4. \A q \in Participants : q # p => ~IsMaster(q)'
    BY <1>20, <2>3
  <2>5. OneMasterClock'
    BY <2>4 DEF OneMasterClock, IsMaster
  <2>6. ClockInv'
    BY <1>10, <2>1, <2>4, <2>5 DEF ClockInv
  <2> QED BY <1>9, <1>11, <1>12, <1>13, <1>19, <2>6 DEF IInv, Changed
<1>27. Step.prop = "clock" => at = k + 3 \/ (at = k + 4 /\ timing.master # NoMaster)
  BY <1>3, PlanFacts
<1> QED BY <1>24, <1>25, <1>26, <1>27


-----------------------------------------------------------------------------
(* The steps of the field.                                                  *)

\* A participant goes away with its tree.
LEMMA GoesAwayKeeps ==
  ASSUME IInv, NEW p \in Participants, GoesAway(p), UNCHANGED callVars
  PROVE  IInv'
<1> USE ConfigurationAssumption DEF GoesAway, Trouble
<1>1. ReaderTypeOK' /\ TreesOK'
  BY DEF IInv, ReaderTypeOK, TreesOK, NodeOK, readerVars
<1>2. CopyInv'
  BY CopyKept DEF IInv, CopyInv, readerVars
<1>3. CallInvs'
  <2>1. \A q \in Participants : IsMaster(q)' => IsMaster(q)
    BY DEF IsMaster, Has
  <2> QED BY <2>1, OthersKeep DEF IInv, CallInvs
<1> QED BY <1>1, <1>2, <1>3 DEF IInv, CallInvs

\* A participant that is touched does not get the clock of a simulation master: neither from
\* the tree it starts with nor from others.
LEMMA TouchedKeep ==
  ASSUME IInv, NEW p \in Participants, NEW node, NodeOK(node), Becomes(p, node),
         disturbed' = disturbed \cup {p}, UNCHANGED <<callVars, readerVars>>, ReaderTypeOK',
         node["clock"] # Missing /\ node["clock"].value = "SIM_TIME" => node["clock"] = tree[p]["clock"]
  PROVE  IInv'
<1>1. Changed(p, node)
  BY BecomesChanges DEF IInv
<1>2. CopyInv'
  BY <1>1, CopyKept DEF Changed, IInv
<1>3. CallInvs'
  <2>1. /\ \A q \in Participants \ disturbed' : tree'[q] = tree[q]
        /\ \A q \in Participants : IsMaster(q)' => IsMaster(q)
    BY <1>1 DEF Changed, IsMaster, Has
  <2> QED BY <2>1, OthersKeep DEF IInv, CallInvs
<1> QED BY <1>1, <1>2, <1>3 DEF IInv, CallInvs, Changed

\* A participant comes back with the tree it starts with.
LEMMA ComesBackKeeps ==
  ASSUME IInv, NEW p \in Participants, ComesBack(p), UNCHANGED callVars
  PROVE  IInv'
<1> USE DEF ComesBack, Trouble
<1>1. ReaderTypeOK'
  <2>1. /\ up' = up \cup {p} /\ disturbed' = disturbed \cup {p}
        /\ UNCHANGED <<reading, peer, via, names, value, copy, calls>>
        /\ troubles < MaxTroubles /\ troubles' = troubles + 1
    BY DEF readerVars
  <2>2. ReaderTypeOK
    BY DEF IInv
  <2> QED BY <2>1, <2>2, ConfigurationAssumption DEF ReaderTypeOK
<1>2. NodeOK(StartTree[p])
  BY TreeAssumption DEF NodeOK
<1>3. StartTree[p]["clock"] # Missing => StartTree[p]["clock"].value # "SIM_TIME"
  BY ClockAssumption
<1> QED BY <1>1, <1>2, <1>3, TouchedKeep

\* Others set a property that is not the clock.
LEMMA OtherSetsKeeps ==
  ASSUME IInv, NEW p \in Participants, OtherSets(p), UNCHANGED callVars
  PROVE  IInv'
<1> USE DEF OtherSets, Trouble
<1>1. ReaderTypeOK'
  BY ConfigurationAssumption DEF IInv, ReaderTypeOK, readerVars
<1>2. PICK prop \in Node \cup {TimingConfig}, pair \in OtherPairs :
        \E did \in SetProperty(p, prop, pair) : Becomes(p, did.node)
  OBVIOUS
<1>3. PICK did \in SetProperty(p, prop, pair) : Becomes(p, did.node)
  BY <1>2
<1>4. did.node \in {tree[p], Stored(p, prop, pair)}
  BY VisitLeaves
<1>5. NodeOK(tree[p])
  BY DEF IInv, TreesOK
<1>6. NodeOK(did.node)
  BY <1>4, <1>5, NodeKept, TreeAssumption DEF Stored
<1>7. prop # "clock"
  BY ClockAssumption DEF TimingConfig
<1>8. did.node["clock"] = tree[p]["clock"]
  <2>1. Stored(p, prop, pair)["clock"] = tree[p]["clock"]
    <3>1. "clock" \in DOMAIN StartTree[p]
      BY ClockAssumption
    <3>2. "clock" \in DOMAIN tree[p]
      BY <1>5, <3>1 DEF NodeOK, Props
    <3> QED BY <1>7, <3>2 DEF Stored
  <2> QED BY <1>4, <2>1
<1> QED BY <1>1, <1>3, <1>6, <1>8, TouchedKeep

-----------------------------------------------------------------------------
(* The theorems.                                                            *)

\* A System starts in a state that satisfies the invariant.
THEOREM InitIInv == Init => IInv
<1> SUFFICES ASSUME Init PROVE IInv
  OBVIOUS
<1> USE ConfigurationAssumption DEF Init, ProxyInit
<1>1. ReaderTypeOK
  BY DEF ReaderTypeOK
<1>2. TreesOK
  BY TreeAssumption DEF TreesOK, NodeOK
<1>3. CopyInv
  BY DEF CopyInv, Reading
<1>4. CallInv
  BY DEF CallInv
<1>5. ServedInv
  BY DEF ServedInv
<1>6. ClockInv
  BY ClockAssumption DEF ClockInv, OneMasterClock, Has
<1> QED BY <1>1, <1>2, <1>3, <1>4, <1>5, <1>6 DEF IInv

\* The steps of a copy, of which a call notices nothing.
LEMMA ReaderStep ==
  ASSUME IInv, UNCHANGED callVars,
         \/ ReadNames \/ ReadsNothing \/ ReadThrows \/ CopyEnds
         \/ \E n \in Node : ReadPair(n) \/ ReadValue(n) \/ ReadType(n)
         \/ \E p \in Participants : CopyBegins(p)
  PROVE  IInv'
<1>1. ReaderTypeOK' /\ CopyInv'
  BY ReadNamesKeeps, ReadsNothingKeeps, ReadThrowsKeeps, CopyEndsKeeps, ReadPairKeeps,
     ReadValueKeeps, ReadTypeKeeps, CopyBeginsKeeps DEF IInv
<1>2. UNCHANGED <<callVars, tree, disturbed>>
  BY DEF ReadNames, ReadsNothing, ReadThrows, CopyEnds, ReadPair, ReadValue, ReadType,
         CopyBegins, field
<1>3. TreesOK' /\ CallInvs'
  BY <1>2, ReadersKeep DEF IInv, CallInvs
<1> QED BY <1>1, <1>3 DEF IInv, CallInvs

\* Every step of the call, of the copy and of the field keeps the invariant.
THEOREM StepIInv == IInv /\ [Next]_vars => IInv'
<1> SUFFICES ASSUME IInv, [Next]_vars PROVE IInv'
  OBVIOUS
<1>1. CASE \E t \in Timings : ConfigureTiming(t)
  BY <1>1, ConfigureTimingKeeps
<1>2. CASE Unknown \/ Refused \/ Returns
  BY <1>2, EndsKeep
<1>3. CASE Visit
  BY <1>3, VisitKeeps
<1>4. CASE NextProperty
  BY <1>4, NextPropertyKeeps
<1>5. CASE ProxyNext /\ UNCHANGED callVars
  <2>1. CASE \E p \in Participants : GoesAway(p)
    BY <1>5, <2>1, GoesAwayKeeps
  <2>2. CASE \E p \in Participants : ComesBack(p)
    BY <1>5, <2>2, ComesBackKeeps
  <2>3. CASE \E p \in Participants : OtherSets(p)
    BY <1>5, <2>3, OtherSetsKeeps
  <2>4. CASE \/ ReadNames \/ ReadsNothing \/ ReadThrows \/ CopyEnds
             \/ \E n \in Node : ReadPair(n) \/ ReadValue(n) \/ ReadType(n)
             \/ \E p \in Participants : CopyBegins(p)
    BY <1>5, <2>4, ReaderStep
  <2> QED BY <1>5, <2>1, <2>2, <2>3, <2>4 DEF ProxyNext
<1>6. CASE UNCHANGED vars
  <2>1. UNCHANGED <<field, readerVars, calls, troubles>> /\ UNCHANGED callVars
    BY <1>6 DEF vars
  <2>2. ReaderTypeOK' /\ TreesOK' /\ CopyInv'
    BY <2>1, RestKept
  <2>3. CallInvs'
    BY <2>1, ReadersKeep DEF IInv, CallInvs, field
  <2> QED BY <2>2, <2>3 DEF IInv, CallInvs
<1> QED BY <1>1, <1>2, <1>3, <1>4, <1>5, <1>6 DEF Next

\* The invariant holds in every behaviour.
THEOREM Invariant == Spec => []IInv
BY InitIInv, StepIInv, PTL DEF Spec

\* Every variable has its type, and those still to be visited and those that failed are
\* different participants of the running round.
THEOREM TypeCorrect == Spec => []TypeOK
<1>1. IInv => TypeOK
  BY DEF IInv, TypeOK, TreesOK, NodeOK, Blank, CallInv, ReaderTypeOK
<1> QED BY <1>1, Invariant, PTL

\* When configureTiming returns, each FEP 3 participant that nobody touched is configured.
THEOREM ReturnMeansConfigured == Spec => []SuccessConfiguresAll
<1>1. ASSUME IInv, pc = "returned", NEW p \in up \ disturbed, Kind[p] = "new"
      PROVE  /\ Has(p, "master", timing.master) /\ Has(p, "scheduler", timing.scheduler)
             /\ Has(p, "clock", IF p = timing.master THEN timing.master_clock ELSE timing.slave_clock)
             /\ p = timing.master =>
                  /\ timing.factor # None => Has(p, "factor", timing.factor)
                  /\ timing.stepsize # None => Has(p, "stepsize", timing.stepsize)
             /\ p # timing.master /\ timing.master # NoMaster /\ timing.cycle # None =>
                  Has(p, "cycle", timing.cycle)
  <2>1. PICK k : k = Len(timing.first)
    OBVIOUS
  <2>2. /\ timing \in Timings /\ IsPlan(timing, steps, k)
        /\ k \in Nat /\ Len(steps) \in Nat /\ at = Len(steps) /\ todo = {} /\ failing = {}
    BY <1>1, <2>1, CallSteps DEF IInv, CallInv
  <2>3. p \in Participants /\ p # NoMaster
    BY <1>1, ConfigurationAssumption DEF IInv, ReaderTypeOK, NoMaster
  <2>4. ASSUME NEW j \in k + 1 .. Len(steps), p \in steps[j].who
        PROVE  tree[p][steps[j].prop] = steps[j].pair
    <3>1. j \in 1..at /\ j > k
      BY <2>2
    <3>2. Served(j, p)
      BY <1>1, <2>2, <2>4 DEF Served
    <3> QED BY <1>1, <2>1, <2>3, <3>1, <3>2 DEF IInv, ServedInv
  <2>5. ASSUME NEW type \in {"string", "double", "int32"}, NEW arg \in {"master", "scheduler", "slave_clock",
                 "master_clock", "factor", "stepsize", "cycle"}, NEW prop,
               \E j \in k + 1 .. Len(steps) :
                 p \in steps[j].who /\ steps[j].prop = prop /\ steps[j].pair = Pair(type, timing[arg])
        PROVE  Has(p, prop, timing[arg])
    <3>1. Pair(type, timing[arg]) # Missing
      BY <2>2, TimingsAssumption
    <3>2. tree[p][prop] = Pair(type, timing[arg])
      BY <2>4, <2>5
    <3> QED BY <3>1, <3>2 DEF Has, Pair
  <2>6. /\ Len(steps) >= k + 3
        /\ steps[k + 1] = All("master", String(timing.master), NoMaster)
        /\ steps[k + 2] = All("scheduler", String(timing.scheduler), NoMaster)
        /\ steps[k + 3] = All("clock", String(timing.slave_clock), timing.master)
    BY <2>2 DEF IsPlan
  <2>7. timing.master # NoMaster =>
          /\ Len(steps) >= k + 4
          /\ steps[k + 4] = One(timing.master, "clock", String(timing.master_clock))
          /\ timing.factor # None => \E i \in k + 5 .. Len(steps) :
               steps[i] = One(timing.master, "factor", Pair("double", timing.factor))
          /\ timing.stepsize # None => \E i \in k + 5 .. Len(steps) :
               steps[i] = One(timing.master, "stepsize", Pair("int32", timing.stepsize))
          /\ timing.cycle # None => \E i \in k + 5 .. Len(steps) :
               steps[i] = All("cycle", Pair("int32", timing.cycle), timing.master)
    BY <2>2 DEF IsPlan
  <2>8. Has(p, "master", timing.master)
    <3>1. /\ k + 1 \in k + 1 .. Len(steps) /\ p \in steps[k + 1].who
          /\ steps[k + 1].prop = "master" /\ steps[k + 1].pair = Pair("string", timing["master"])
      BY <2>2, <2>3, <2>6 DEF All, String
    <3> QED BY <2>5, <3>1
  <2>9. Has(p, "scheduler", timing.scheduler)
    <3>1. /\ k + 2 \in k + 1 .. Len(steps) /\ p \in steps[k + 2].who
          /\ steps[k + 2].prop = "scheduler" /\ steps[k + 2].pair = Pair("string", timing["scheduler"])
      BY <2>2, <2>3, <2>6 DEF All, String
    <3> QED BY <2>5, <3>1
  <2>10. Has(p, "clock", IF p = timing.master THEN timing.master_clock ELSE timing.slave_clock)
    <3>1. CASE p = timing.master
      <4>1. /\ k + 4 \in k + 1 .. Len(steps) /\ p \in steps[k + 4].who
            /\ steps[k + 4].prop = "clock" /\ steps[k + 4].pair = Pair("string", timing["master_clock"])
        BY <2>2, <2>3, <2>7, <3>1 DEF One, String
      <4>2. Has(p, "clock", timing["master_clock"])
        BY <2>5, <4>1
      <4> QED BY <3>1, <4>2
    <3>2. CASE p # timing.master
      <4>1. /\ k + 3 \in k + 1 .. Len(steps) /\ p \in steps[k + 3].who
            /\ steps[k + 3].prop = "clock" /\ steps[k + 3].pair = Pair("string", timing["slave_clock"])
        BY <2>2, <2>3, <2>6, <3>2 DEF All, String
      <4>2. Has(p, "clock", timing["slave_clock"])
        BY <2>5, <4>1
      <4> QED BY <3>2, <4>2
    <3> QED BY <3>1, <3>2
  <2>11. \A i \in k + 5 .. Len(steps) : i \in k + 1 .. Len(steps)
    BY <2>2
  <2>12. ASSUME p = timing.master, timing.factor # None
         PROVE  Has(p, "factor", timing.factor)
    <3>1. PICK i \in k + 5 .. Len(steps) :
            steps[i] = One(timing.master, "factor", Pair("double", timing.factor))
      BY <2>3, <2>7, <2>12
    <3>2. /\ i \in k + 1 .. Len(steps) /\ p \in steps[i].who
          /\ steps[i].prop = "factor" /\ steps[i].pair = Pair("double", timing["factor"])
      BY <2>11, <2>12, <3>1 DEF One
    <3> QED BY <2>5, <3>2
  <2>13. ASSUME p = timing.master, timing.stepsize # None
         PROVE  Has(p, "stepsize", timing.stepsize)
    <3>1. PICK i \in k + 5 .. Len(steps) :
            steps[i] = One(timing.master, "stepsize", Pair("int32", timing.stepsize))
      BY <2>3, <2>7, <2>13
    <3>2. /\ i \in k + 1 .. Len(steps) /\ p \in steps[i].who
          /\ steps[i].prop = "stepsize" /\ steps[i].pair = Pair("int32", timing["stepsize"])
      BY <2>11, <2>13, <3>1 DEF One
    <3> QED BY <2>5, <3>2
  <2>14. ASSUME p # timing.master, timing.master # NoMaster, timing.cycle # None
         PROVE  Has(p, "cycle", timing.cycle)
    <3>1. PICK i \in k + 5 .. Len(steps) :
            steps[i] = All("cycle", Pair("int32", timing.cycle), timing.master)
      BY <2>7, <2>14
    <3>2. /\ i \in k + 1 .. Len(steps) /\ p \in steps[i].who
          /\ steps[i].prop = "cycle" /\ steps[i].pair = Pair("int32", timing["cycle"])
      BY <2>3, <2>11, <2>14, <3>1 DEF All
    <3> QED BY <2>5, <3>2
  <2> QED BY <2>8, <2>9, <2>10, <2>12, <2>13, <2>14
<1>2. IInv => SuccessConfiguresAll
  BY <1>1 DEF SuccessConfiguresAll
<1> QED BY <1>2, Invariant, PTL

\* When configureTiming refuses, those that it does not name have the property.
THEOREM RefusalNamesTheRest == Spec => []UnnamedHaveIt
<1>1. ASSUME IInv, pc = "refused", NEW p \in Step.who \ (failing \cup disturbed), Kind[p] = "new"
      PROVE  tree[p][Step.prop] = Step.pair
  <2>1. todo = {} /\ p \in Participants /\ at \in 1..Len(steps) /\ Len(steps) \in Nat
    BY <1>1, CallSteps DEF IInv, CallInv
  <2>2. Served(at, p) /\ at \in 1..at
    BY <1>1, <2>1 DEF Served, Step
  <2> QED BY <1>1, <2>1, <2>2 DEF IInv, ServedInv, Step
<1>2. IInv => UnnamedHaveIt
  BY <1>1 DEF UnnamedHaveIt
<1> QED BY <1>2, Invariant, PTL

\* There are never two FEP 3 participants with the clock of a simulation master.
THEOREM NeverTwoMasters == Spec => []OneMasterClock
<1>1. IInv => OneMasterClock
  BY DEF IInv, ClockInv
<1> QED BY <1>1, Invariant, PTL

\* What a copy that ended says of a property, the property has been.
THEOREM CopiesAreReal == Spec => []CopiedPairsAreReal
<1>1. IInv => CopiedPairsAreReal
  BY DEF IInv, CopyInv, CopiedPairsAreReal
<1> QED BY <1>1, Invariant, PTL
=============================================================================
