---------------------------- MODULE Configuration ----------------------------
(***************************************************************************)
(* The timing configuration of a System (fep_system.cpp): configureTiming  *)
(* and its variants set up to eight properties, one after the other, at    *)
(* one participant or at all of them in the order of the map.  A visit to  *)
(* a participant (lookup, getProperties, setProperty) is one step: what    *)
(* others do in the middle of it has the effect of doing it before.        *)
(***************************************************************************)
EXTENDS ConfigurationProxy, Sequences

CONSTANTS Timings   \* the timing configurations this process asks for

VARIABLES
  pc,       \* where configureTiming is, or how it ended
  timing,   \* its arguments
  steps,    \* the properties it sets
  at,       \* the one it is at
  todo,     \* participants it has still to visit for that
  failing   \* failing_participants

callVars == <<pc, timing, steps, at, todo, failing>>
vars == <<field, readerVars, callVars, calls, troubles>>

NoMaster == 0   \* an empty master_element_id

Pair(type, v) == [type |-> type, value |-> v]
String(v) == Pair("string", v)

\* setPropertyValue and setPropertyValueToAll.
One(p, prop, pair) == [prop |-> prop, pair |-> pair, who |-> {p}]
All(prop, pair, except) == [prop |-> prop, pair |-> pair, who |-> Participants \ {except}]
Given(v, step) == IF v = None THEN <<>> ELSE <<step>>

\* MUTANT: the master gets its clock before the others lose theirs.
Steps_MasterFirst(t) ==
  IF t.master = NoMaster THEN <<All("clock", String(t.slave_clock), NoMaster)>>
  ELSE <<One(t.master, "clock", String(t.master_clock)),
         All("clock", String(t.slave_clock), t.master)>>

\* What configureTiming sets, in that order; a variant for FEP 2 sets other properties first.
Steps(t) ==
  t.first \o
  <<All("master", String(t.master), NoMaster), All("scheduler", String(t.scheduler), NoMaster)>> \o
  IF t.master = NoMaster THEN <<All("clock", String(t.slave_clock), NoMaster)>>
  ELSE <<All("clock", String(t.slave_clock), t.master),
         One(t.master, "clock", String(t.master_clock))>> \o
       Given(t.factor, One(t.master, "factor", Pair("double", t.factor))) \o
       Given(t.stepsize, One(t.master, "stepsize", Pair("int32", t.stepsize))) \o
       Given(t.cycle, All("cycle", Pair("int32", t.cycle), t.master))

Timing(master_clock, slave_clock, scheduler, master, stepsize, factor, cycle) ==
  [first |-> <<>>, master_clock |-> master_clock, slave_clock |-> slave_clock,
   scheduler |-> scheduler, master |-> master,
   stepsize |-> stepsize, factor |-> factor, cycle |-> cycle]

LockedStep(master, first) ==
  [Timing("LOCKED_STEP", "LOCKED_STEP", "LOCKED_STEP", master, None, None, None)
     EXCEPT !.first = first]
Trigger(master, mode) == One(master, "trigger", String(mode))

Timing2SystemTime(master, factor) ==
  LockedStep(master, <<Trigger(master, "SYSTEM_TIME"),
                       One(master, "master_factor", Pair("double", factor))>>)
Timing2NoMaster == [LockedStep(NoMaster, <<>>) EXCEPT !.master_clock = None]
Timing2AFAP(master) == LockedStep(master, <<Trigger(master, "AFAP")>>)
Timing3NoMaster == Timing(None, "REAL_TIME", "CLOCK_BASED", NoMaster, None, None, None)
Timing3ClockSyncOnlyInterpolation(master, cycle) ==
  Timing("REAL_TIME", "ONDEMAND", "CLOCK_BASED", master, None, None, cycle)
Timing3ClockSyncOnlyDiscrete(master, cycle) ==
  Timing("REAL_TIME", "ONDEMAND_DISCRETE", "CLOCK_BASED", master, None, None, cycle)
Timing3DiscreteSteps(master, stepsize, factor) ==
  Timing("SIM_TIME", "ONDEMAND_DISCRETE", "CLOCK_BASED", master, stepsize, factor, None)
Timing3AFAP(master, stepsize) ==
  Timing("SIM_TIME", "ONDEMAND_DISCRETE", "CLOCK_BASED", master, stepsize, "0.0", None)

\* The variants of FEP 2 set the trigger mode and the time factor of the master first; none
\* gives the slaves the clock of a simulation master.
ASSUME TimingsAssumption ==
  \A t \in Timings :
    /\ t.master \in Nat /\ t.slave_clock # "SIM_TIME"
    /\ t.first \in Seq([prop : {"trigger", "master_factor"},
                        pair : [type : STRING, value : STRING], who : {{t.master}}])
    /\ \A type \in {"string", "double", "int32"},
          arg \in {"master", "scheduler", "slave_clock", "master_clock", "factor", "stepsize", "cycle"} :
         Pair(type, t[arg]) # Missing

\* Everybody can have the properties of a timing configuration.  A participant starts with
\* another clock than that of a simulation master, and others do not set its clock.
ASSUME ClockAssumption ==
  /\ \A p \in Participants :
       /\ {"master", "scheduler", "clock", "factor", "stepsize", "cycle", "trigger",
           "master_factor"} \subseteq DOMAIN StartTree[p]
       /\ StartTree[p].clock # Missing => StartTree[p].clock.value # "SIM_TIME"
  /\ "clock" \notin Node

Init ==
  /\ ProxyInit
  /\ pc = "idle" /\ timing = Timing3NoMaster /\ steps = <<>>
  /\ at = 1 /\ todo = {} /\ failing = {}

Running == pc = "run"
Step == steps[at]

-----------------------------------------------------------------------------

\* MUTANT: the list of failing participants is kept from the call before.
ConfigureTiming_OldList(t) ==
  /\ pc \notin {"run", "crashed"} /\ Call
  /\ pc' = "run" /\ timing' = t /\ steps' = Steps(t)
  /\ at' = 1 /\ todo' = steps'[1].who
  /\ disturbed' = {}
  /\ UNCHANGED <<up, tree, seen, readerVars, failing, troubles>>

ConfigureTiming(t) ==
  /\ pc \notin {"run", "crashed"} /\ Call
  /\ pc' = "run" /\ timing' = t /\ steps' = Steps(t)
  /\ at' = 1 /\ todo' = steps'[1].who /\ failing' = {}
  /\ disturbed' = {}
  /\ UNCHANGED <<up, tree, seen, readerVars, troubles>>

\* getParticipant throws when the master is not in the System.
Unknown ==
  /\ Running /\ todo \ Participants # {}
  /\ pc' = "threw"
  /\ UNCHANGED <<field, readerVars, timing, steps, at, todo, failing, calls, troubles>>

\* MUTANT: the first participant that refuses ends the round.
Visited_Break(p, did) ==
  /\ Becomes(p, did.node)
  /\ todo' = IF did.result = "false" THEN {} ELSE todo \ {p}
  /\ failing' = IF did.result = "false" THEN failing \cup {p} ELSE failing
  /\ pc' = IF did.result = "throws" THEN "threw" ELSE "run"

\* One participant is done; an exception ends the call, and with it the list.
Visited(p, did) ==
  /\ Becomes(p, did.node)
  /\ todo' = todo \ {p}
  /\ failing' = IF did.result = "false" THEN failing \cup {p} ELSE failing
  /\ pc' = CASE did.result = "throws" -> "threw"
             [] did.result = "null" -> "crashed"
             [] OTHER -> "run"

Visit ==
  /\ Running /\ todo # {} /\ todo \subseteq Participants
  /\ LET p == Min(todo)
     IN  \/ \E did \in SetProperty(p, Step.prop, Step.pair) :
              Visited(p, did) /\ UNCHANGED troubles
         \/ \E did \in SetPropertyFails(p, Step.prop, Step.pair) :
              Visited(p, did) /\ Trouble
  /\ UNCHANGED <<up, disturbed, readerVars, timing, steps, at, calls>>

\* MUTANT: the list is made and dropped.
Refused_Goes ==
  /\ Running /\ todo = {} /\ failing # {}
  /\ failing' = {}
  /\ UNCHANGED <<field, readerVars, pc, timing, steps, at, todo, calls, troubles>>

\* The exception that names the failing participants.
Refused ==
  /\ Running /\ todo = {} /\ failing # {}
  /\ pc' = "refused"
  /\ UNCHANGED <<field, readerVars, timing, steps, at, todo, failing, calls, troubles>>

NextProperty ==
  /\ Running /\ todo = {} /\ failing = {} /\ at < Len(steps)
  /\ at' = at + 1 /\ todo' = steps[at'].who
  /\ UNCHANGED <<field, readerVars, pc, timing, steps, failing, calls, troubles>>

Returns ==
  /\ Running /\ todo = {} /\ failing = {} /\ at = Len(steps)
  /\ pc' = "returned"
  /\ UNCHANGED <<field, readerVars, timing, steps, at, todo, failing, calls, troubles>>

Next ==
  \/ \E t \in Timings : ConfigureTiming(t)
  \/ Unknown \/ Visit \/ Refused \/ NextProperty \/ Returns
  \/ pc # "crashed" /\ ProxyNext /\ UNCHANGED callVars

Spec == Init /\ [][Next]_vars

-----------------------------------------------------------------------------
(* Properties.                                                              *)

\* Every variable has its type; those that are still to be visited and those that failed are
\* different participants of the running round.
TypeOK ==
  /\ ReaderTypeOK
  /\ \A p \in Participants, prop \in Props : tree[p][prop] # Missing => DOMAIN tree[p][prop] = DOMAIN Blank
  /\ pc \in {"idle", "run", "returned", "refused", "threw", "crashed"}
  /\ timing \in Timings \cup {Timing3NoMaster}
  /\ pc # "idle" => at \in DOMAIN steps /\ todo \subseteq Step.who \ failing
                    /\ failing \subseteq Step.who

Has(p, prop, v) == tree[p][prop] # Missing /\ tree[p][prop].value = v

\* A call that returns has configured everybody: each FEP 3 participant that nobody touched
\* has the master, the scheduler and its clock, and what was given for it of the rest.
SuccessConfiguresAll ==
  pc = "returned" =>
    \A p \in up \ disturbed : Kind[p] = "new" =>
      /\ Has(p, "master", timing.master) /\ Has(p, "scheduler", timing.scheduler)
      /\ Has(p, "clock", IF p = timing.master THEN timing.master_clock ELSE timing.slave_clock)
      /\ p = timing.master =>
           /\ timing.factor # None => Has(p, "factor", timing.factor)
           /\ timing.stepsize # None => Has(p, "stepsize", timing.stepsize)
      /\ p # timing.master /\ timing.master # NoMaster /\ timing.cycle # None =>
           Has(p, "cycle", timing.cycle)

\* "could not be set for the following participants": the others, those of them visited after
\* a refusal too, have it.
UnnamedHaveIt ==
  pc = "refused" =>
    \A p \in Step.who \ (failing \cup disturbed) :
      Kind[p] = "new" => tree[p][Step.prop] = Step.pair

\* Whatever fails and whoever restarts, while a master is exchanged or after that, there are
\* never two FEP 3 participants with the clock of a simulation master.
OneMasterClock ==
  \A p, q \in Participants :
    Kind[p] = "new" /\ Kind[q] = "new" /\ Has(p, "clock", "SIM_TIME") /\ Has(q, "clock", "SIM_TIME")
      => p = q
=============================================================================
