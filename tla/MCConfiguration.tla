--------------------------- MODULE MCConfiguration ---------------------------
(* The instance of Configuration for TLC: two participants of FEP 3 and one  *)
(* of FEP 2.5, which has no step size and whose timing client is not set up. *)
EXTENDS Configuration, TLC

ThreeParticipants == 1..3
Kinds == <<"new", "new", "patched">>
CopiedNode == {"factor"}

Text(v) == [type |-> "string", value |-> v]
NumberOrText == {[type |-> "double", value |-> "2.0"], [type |-> "string", value |-> "fast"]}

Shared ==
  [master |-> Text(0), scheduler |-> Text("CLOCK_BASED"), clock |-> Text("REAL_TIME"),
   factor |-> [type |-> "double", value |-> "1.0"], cycle |-> [type |-> "int32", value |-> "100"]]
Fep3 == Shared @@ [stepsize |-> [type |-> "int32", value |-> "100"], trigger |-> Missing,
                   master_factor |-> Missing, timing_config |-> Missing]
Fep2 == Shared @@ [stepsize |-> Missing, trigger |-> Text(None),
                   master_factor |-> [type |-> "double", value |-> "1.0"], timing_config |-> Missing]
Trees == <<Fep3, Fep3, Fep2>>

\* Participant 4 is not in the System.
SomeTimings ==
  {Timing2SystemTime(3, "2.0"), Timing2NoMaster, Timing2AFAP(1), Timing3NoMaster,
   Timing3ClockSyncOnlyInterpolation(2, "50"), Timing3ClockSyncOnlyDiscrete(4, "50"),
   Timing3DiscreteSteps(1, "10", "2.0"), Timing3AFAP(2, "10")}
=============================================================================
