------------------------ MODULE MCAsdfKeyscanTiming ------------------------
(***************************************************************************)
(* A small keyboard for AsdfKeyscanTiming.                                 *)
(***************************************************************************)
EXTENDS AsdfKeyscanTiming, TLC

MCValues == {"a", "A", "b"}
MCOther == {}

Layout(keys) == [map \in ModifierMaps |-> [key \in Keys |-> keys[key][map]]]
Always(code) == [map \in ModifierMaps |-> code]

\* Two letters and REPEAT: no modifier, and no code that two keys share.
PlainKeymap == Layout(
  <<0, 0>> :> Always("a") @@ <<1, 0>> :> Always("b") @@
  <<2, 0>> :> Always("REPEAT"))
=============================================================================
