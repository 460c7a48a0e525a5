------------------------------ MODULE MCAsdfArch ------------------------------
(***************************************************************************)
(* A run of AsdfArch sets the devices of one output, or the LEDs, so that  *)
(* every handler of every board is called while the states stay few.       *)
(***************************************************************************)
EXTENDS AsdfArch

MCOutputs == {1..3, 4..6, 7..9, 10..12}
=============================================================================
