---------------------------- MODULE AsdfModifiers ----------------------------
(***************************************************************************)
(* asdf_modifiers.c: the state of SHIFT, CAPS and CTRL and the keycode map *)
(* it selects.  Each operator is one function of the file: it takes the    *)
(* modifier state and returns the next.  The LEDs those functions set are  *)
(* left out here.                                                          *)
(***************************************************************************)

\* shift_state is a set of bits: ON = 1, LOCKED = 2, BOTH = 3.
ShiftBits == {"ON", "LOCKED"}

ModifierState == [shift : SUBSET ShiftBits, caps : BOOLEAN, ctrl : BOOLEAN]

\* Static storage is zero, and asdf_modifiers_init would write the same.
ModifiersOff == [shift |-> {}, caps |-> FALSE, ctrl |-> FALSE]

ModifierMaps == {"PLAIN", "SHIFT", "CAPS", "CTRL"}

\* Mutants: the lock key flips both bits; releasing SHIFT ends the lock alone.
TogglesAllBits(m) == [m EXCEPT !.shift = ShiftBits \ @]
ReleasesLock(m)   == [m EXCEPT !.shift = @ \ {"LOCKED"}]

\* Assigns the ON bit alone: a SHIFT press ends a shift lock.
shift_activate(m)            == [m EXCEPT !.shift = {"ON"}]
shiftlock_on_activate(m)     == [m EXCEPT !.shift = @ \union {"LOCKED"}]
shiftlock_toggle_activate(m) ==
  [m EXCEPT !.shift = (@ \ {"LOCKED"}) \union ({"LOCKED"} \ @)]
capslock_activate(m)         == [m EXCEPT !.caps = ~@]
ctrl_activate(m)             == [m EXCEPT !.ctrl = TRUE]
shift_deactivate(m)          == [m EXCEPT !.shift = {}]
ctrl_deactivate(m)           == [m EXCEPT !.ctrl = FALSE]

\* CTRL overrides SHIFT, and SHIFT overrides CAPS.
modifier_mapping(shift, caps, ctrl) ==
  CASE ctrl                      -> "CTRL"
    [] ~ctrl /\ shift            -> "SHIFT"
    [] ~ctrl /\ ~shift /\ caps   -> "CAPS"
    [] ~ctrl /\ ~shift /\ ~caps  -> "PLAIN"
modifier_index(m) == modifier_mapping(m.shift # {}, m.caps, m.ctrl)

\* What asdf_activate_action and asdf_deactivate_action do to the modifiers.
PressModifiers(m, action) ==
  CASE action = "SHIFT"            -> shift_activate(m)
    [] action = "SHIFTLOCK_ON"     -> shiftlock_on_activate(m)
    [] action = "SHIFTLOCK_TOGGLE" -> shiftlock_toggle_activate(m)
    [] action = "CAPS"             -> capslock_activate(m)
    [] action = "CTRL"             -> ctrl_activate(m)
    [] OTHER                       -> m

ReleaseModifiers(m, action) ==
  CASE action = "SHIFT" -> shift_deactivate(m)
    [] action = "CTRL"  -> ctrl_deactivate(m)
    [] OTHER            -> m
=============================================================================
