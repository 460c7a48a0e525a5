---------------------------- MODULE MCAsdfOutputs ----------------------------
(***************************************************************************)
(* The three devices of the OUT3 line, in the order of the table, and one  *)
(* LED, for two virtual outputs.                                           *)
(***************************************************************************)
EXTENDS AsdfOutputs

MCDriver == <<[line |-> "OUT3", kind |-> "PUSH_PULL"],
              [line |-> "OUT3", kind |-> "OPEN_HI"],
              [line |-> "OUT3", kind |-> "OPEN_LO"],
              [line |-> "LED1", kind |-> "PUSH_PULL"]>>
MCVirtual == {"VRESET", "VCAPS_LED"}

\* Every way to take the devices from each other, with every function.
MCAssignments ==
  {<<"VRESET", 2, "V_PULSE_SHORT", 1>>, <<"VRESET", 3, "V_PULSE_LONG", 0>>,
   <<"VRESET", 4, "V_SET_HI", 0>>, <<"VRESET", 1, "V_SET_LO", 1>>,
   <<"VCAPS_LED", 4, "V_TOGGLE", 0>>, <<"VCAPS_LED", 2, "V_NOFUNC", 0>>,
   <<V_NULL, 1, "V_TOGGLE", 0>>, <<"VCAPS_LED", NO_OUT, "V_TOGGLE", 0>>}

\* What setup_sol_keymap assigns of these: RESET is an open output, at rest high.
SolAssignments ==
  {<<"VRESET", 2, "V_PULSE_SHORT", 1>>, <<"VCAPS_LED", 4, "V_NOFUNC", 0>>}
=============================================================================
