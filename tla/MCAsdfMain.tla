------------------------------ MODULE MCAsdfMain ------------------------------
(***************************************************************************)
(* Two queues of two codes; a message that fits and one that does not; a   *)
(* typed code, and the invalid code that a key bound to ACTION_NOTHING     *)
(* queues.                                                                 *)
(***************************************************************************)
EXTENDS AsdfMain

CONSTANTS a, m, n, inv

MCCodes == {a, m, n, inv}
MCTyped == {a, inv}
MCMessages == {<<m, n>>, <<n, m, n>>}
=============================================================================
