------------------------ MODULE MCStateMachineProxy ------------------------
(* Instances of StateMachineProxy for TLC.                                  *)
EXTENDS StateMachineProxy

\* A component of each kind; "clock" supports none of the interfaces asked for.
TwoInterfaces == {"state_machine", "configuration"}
Offers(is) == [c \in Components |->
  CASE c = "state" -> {"state_machine"} \cap is
    [] c = "config" -> {"configuration"} \cap is]

\* A FEP 2.5 participant has only the configuration, 2.6 both, and a FEP 3 participant
\* answers through the new participant info.
Fep25 == [version |-> 25, info |-> {"old"}, offers |-> Offers({"configuration"})]
Fep26 == [version |-> 26, info |-> {"old"}, offers |-> Offers(TwoInterfaces)]
Fep30 == [version |-> 30, info |-> {"new"}, offers |-> Offers(TwoInterfaces)]
AllVersions == {Fep25, Fep26, Fep30}
=============================================================================
