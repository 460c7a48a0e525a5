--------------------------- MODULE MCAsdfKeyscan ---------------------------
(***************************************************************************)
(* Small keyboards for AsdfKeyscan.                                        *)
(***************************************************************************)
EXTENDS AsdfKeyscan, TLC

MCValues == {"a", "A", "^A", "b"}
MCOther == {"RESET", "FN_10"}
MCPrinting == {"FN_10"}

\* A keyboard is written key -> modifier map -> code.
Layout(keys) == [map \in ModifierMaps |-> [key \in Keys |-> keys[key][map]]]
Always(code) == [map \in ModifierMaps |-> code]
Letter == [PLAIN |-> "a", SHIFT |-> "A", CAPS |-> "A", CTRL |-> "^A"]

\* Every modifier and lock around a letter that CTRL makes ACTION_NOTHING, as it
\* does keys of the Apple 2, and a key that prints under CTRL.  The letter shares its row with a modifier on either
\* side, so that one scan can change the modifiers before it and after it.
TypingKeymap == Layout(
  <<0, 0>> :> Always("SHIFT") @@
  <<0, 1>> :> [Letter EXCEPT !["CTRL"] = NOTHING] @@
  <<0, 2>> :> Always("CTRL") @@
  <<1, 0>> :> Always("CAPS") @@
  <<1, 1>> :> Always("SHIFTLOCK_ON") @@
  <<1, 2>> :> [Always("SHIFTLOCK_TOGGLE") EXCEPT !["CTRL"] = "FN_10"])

\* A letter, SHIFT and all that controls repeating: the REPEAT key and the DIP
\* switch that selects autorepeat; and a key that prints.
RepeatKeymap == Layout(
  <<0, 0>> :> Always("SHIFT") @@ <<1, 0>> :> Letter @@
  <<2, 0>> :> Always("REPEAT") @@ <<3, 0>> :> Always("AUTOREPEAT_SELECT") @@
  <<4, 0>> :> Always("FN_10"))

\* The REPEAT key of the Sol-20, which is RESET under CTRL.
SolRepeatKeymap == Layout(
  <<0, 0>> :> [Always("REPEAT") EXCEPT !["CTRL"] = "RESET"] @@
  <<0, 1>> :> Always("CTRL"))
=============================================================================
