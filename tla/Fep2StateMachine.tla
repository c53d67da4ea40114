-------------------------- MODULE Fep2StateMachine --------------------------
(***************************************************************************)
(* The state machine of a FEP 2 participant: its states, the control       *)
(* events a system sends it, the events it raises itself, and its          *)
(* transition table.  The participants live in other processes; the table  *)
(* is the one the functional tests of the library hold them to             *)
(* (fep_test_common.h, s_aExpectedStates).                                 *)
(***************************************************************************)

\* The events System sends by AutomationInterface::TriggerEvent.
Commands == {"CE_Initialize", "CE_Start", "CE_Stop", "CE_ErrorFixed",
             "CE_Shutdown", "CE_Restart"}

\* The events a participant raises from its own entry functions or on an error.
InternalEvents == {"StartupDone", "InitDone", "Error"}

States == {"FS_STARTUP", "FS_IDLE", "FS_INITIALIZING", "FS_READY",
           "FS_RUNNING", "FS_ERROR", "FS_SHUTDOWN"}

\* An entry of the table that differs from the state of its column: in a
\* state of `from` the event `ev` leads to `to`.  All other entries say that
\* the event is ignored.
Leads(ev, from, to) == [event |-> ev, from |-> from, to |-> to]

Transitions ==
  { Leads("CE_Shutdown",   {"FS_STARTUP", "FS_IDLE", "FS_ERROR"}, "FS_SHUTDOWN"),
    Leads("StartupDone",   {"FS_STARTUP"},                        "FS_IDLE"),
    Leads("CE_Initialize", {"FS_IDLE"},                           "FS_INITIALIZING"),
    Leads("InitDone",      {"FS_INITIALIZING"},                   "FS_READY"),
    Leads("CE_Start",      {"FS_READY"},                          "FS_RUNNING"),
    Leads("CE_Stop",       {"FS_INITIALIZING", "FS_READY", "FS_RUNNING"}, "FS_IDLE"),
    Leads("Error",         States \ {"FS_STARTUP", "FS_SHUTDOWN"}, "FS_ERROR"),
    Leads("CE_ErrorFixed", {"FS_ERROR"},                          "FS_IDLE"),
    Leads("CE_Restart",    {"FS_IDLE"},                           "FS_STARTUP") }

\* The table as a function of the current state and the event.
NextState(s, ev) ==
  IF \E t \in Transitions : t.event = ev /\ s \in t.from
    THEN (CHOOSE t \in Transitions : t.event = ev /\ s \in t.from).to
    ELSE s
=============================================================================
