---------------------------- MODULE MCAsdfBuffer ----------------------------
(***************************************************************************)
(* A pool of 5 codes and 2 handles, as the firmware uses (a keycode queue  *)
(* and a message queue), requests of 0 to 3: the pool can run out before   *)
(* the handles do, the handles before the pool, and a queue wraps around.  *)
(***************************************************************************)
EXTENDS AsdfBuffer

CONSTANTS a, inv

\* Clients may store ASDF_INVALID_CODE itself (a key bound to ACTION_NOTHING).
MCCodes == {a, inv}
MCSizes == {0, 2, 3}
=============================================================================
