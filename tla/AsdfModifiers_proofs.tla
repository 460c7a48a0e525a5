------------------------- MODULE AsdfModifiers_proofs -------------------------
(***************************************************************************)
(* What the operators of AsdfModifiers do to SHIFT and CTRL, for the       *)
(* proofs about the scan and about keymaps.                                *)
(***************************************************************************)
EXTENDS AsdfModifiers, TLAPS

\* The keymap that the modifiers select is one of the four.
LEMMA IndexType ==
  ASSUME NEW m \in ModifierState
  PROVE  modifier_index(m) \in ModifierMaps
BY DEF modifier_index, modifier_mapping, ModifierMaps, ModifierState

\* Pressing a key turns on the modifier it means, and turns none off.
LEMMA PressModifiersFacts ==
  ASSUME NEW m \in ModifierState, NEW a
  PROVE  /\ PressModifiers(m, a) \in ModifierState
         /\ "ON" \in PressModifiers(m, a).shift
              <=> "ON" \in m.shift \/ a = "SHIFT"
         /\ PressModifiers(m, a).ctrl <=> m.ctrl \/ a = "CTRL"
<1> USE DEF PressModifiers, ModifierState, ShiftBits
<1>1. CASE a = "SHIFT"
  BY <1>1 DEF shift_activate
<1>2. CASE a = "SHIFTLOCK_ON"
  BY <1>2 DEF shiftlock_on_activate
<1>3. CASE a = "SHIFTLOCK_TOGGLE"
  BY <1>3 DEF shiftlock_toggle_activate
<1>4. CASE a = "CAPS"
  BY <1>4 DEF capslock_activate
<1>5. CASE a = "CTRL"
  BY <1>5 DEF ctrl_activate
<1>6. CASE a \notin {"SHIFT", "SHIFTLOCK_ON", "SHIFTLOCK_TOGGLE", "CAPS", "CTRL"}
  BY <1>6
<1> QED
  BY <1>1, <1>2, <1>3, <1>4, <1>5, <1>6

\* Releasing a key turns off the modifier it means, and no other.
LEMMA ReleaseModifiersFacts ==
  ASSUME NEW m \in ModifierState, NEW a
  PROVE  /\ ReleaseModifiers(m, a) \in ModifierState
         /\ "ON" \in ReleaseModifiers(m, a).shift
              <=> "ON" \in m.shift /\ a # "SHIFT"
         /\ ReleaseModifiers(m, a).ctrl <=> m.ctrl /\ a # "CTRL"
<1> USE DEF ReleaseModifiers, ModifierState, ShiftBits
<1>1. CASE a = "SHIFT"
  BY <1>1 DEF shift_deactivate
<1>2. CASE a = "CTRL"
  BY <1>2 DEF ctrl_deactivate
<1>3. CASE a \notin {"SHIFT", "CTRL"}
  BY <1>3
<1> QED
  BY <1>1, <1>2, <1>3

\* CAPS LOCK leaves SHIFT and CTRL alone.
LEMMA CapsFacts ==
  ASSUME NEW m \in ModifierState
  PROVE  /\ capslock_activate(m) \in ModifierState
         /\ capslock_activate(m).shift = m.shift /\ capslock_activate(m).ctrl = m.ctrl
BY DEF capslock_activate, ModifierState
=============================================================================
