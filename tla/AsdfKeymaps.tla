----------------------------- MODULE AsdfKeymaps -----------------------------
(***************************************************************************)
(* asdf_keymaps.c: DIP switches are keys whose actions set and clear the   *)
(* bits of the keymap index.  asdf_keymaps_switch starts over with the new *)
(* keymap (strobe, outputs, setup routine), re-applies the actions of all  *)
(* keys that are down, then asserts the outputs.                           *)
(*                                                                         *)
(* An action that is re-applied may switch again, inside the loop that     *)
(* re-applies; the loop outside then goes on under the newer keymap.  The  *)
(* variable calls is the stack of those loops.  Keys come in the order of  *)
(* the scan; they change between calls, after debouncing (AsdfKeyscan).    *)
(*                                                                         *)
(* Repeat state and keycodes are left out, and of a message that a hook    *)
(* prints there is only the function that printed it.                      *)
(***************************************************************************)
EXTENDS AsdfModifiers, AsdfVirtual, AsdfHooks, FiniteSets

CONSTANTS
  Keys,           \* places of the matrix, numbered in the order of the scan
  ValidKeymaps,   \* the indices, as sets of bits, that have a setup routine
  Keymap,         \* index -> modifier map -> key -> code, for keys of its rows
  Setup           \* index -> what its setup routine does

MapBit == [MAPSEL_0 |-> 0, MAPSEL_1 |-> 1, MAPSEL_2 |-> 2, MAPSEL_3 |-> 3]
MapSelects == DOMAIN MapBit
Bits == {MapBit[action] : action \in MapSelects}
ShiftActions == {"SHIFT", "SHIFTLOCK_ON", "SHIFTLOCK_TOGGLE"}
STROBE == "STROBE_POLARITY_SELECT"

\* The functions that a hook may have: those at first, and those of keymaps.
HookFunctions ==
  {hook_init[id] : id \in HookIds}
    \union UNION {{Setup[i].hooks[n][2] : n \in DOMAIN Setup[i].hooks} : i \in ValidKeymaps}

\* Two actions fall through to the hook of FN_1; FN_11 has none.
HookOf == [NOTHING |-> "USER_1", HERE_IS |-> "USER_1", FN_1 |-> "USER_1", FN_2 |-> "USER_2",
           FN_3 |-> "USER_3", FN_4 |-> "USER_4", FN_5 |-> "USER_5", FN_6 |-> "USER_6",
           FN_7 |-> "USER_7", FN_8 |-> "USER_8", FN_9 |-> "USER_9", FN_10 |-> "USER_10"]

\* A place where some map has the action that selects a bit.
Selects(k, b) ==
  \E i \in ValidKeymaps, m \in ModifierMaps :
    /\ k \in DOMAIN Keymap[i][m]
    /\ Keymap[i][m][k] \in MapSelects /\ MapBit[Keymap[i][m][k]] = b

ASSUME KeymapsAssumption ==
  /\ Keys \subseteq Nat /\ IsFiniteSet(Keys)
  /\ {} \in ValidKeymaps /\ ValidKeymaps \subseteq SUBSET Bits
  /\ \A i \in ValidKeymaps :
       /\ Setup[i].capslock \in BOOLEAN /\ Setup[i].strobe \in {"POSITIVE", "NEGATIVE"}
       /\ Setup[i].assign \in Seq(VirtualDevices \X Resources \X VirtualFunctions \X Values)
       /\ Setup[i].hooks \in Seq(HookIds \X STRING)

\* Such a place selects the bit in every map of every keymap (all of them use
\* ASDF_KEYMAP_DIP_SWITCHES), and keymaps are numbered without gaps.
ASSUME DipSwitchAssumption ==
  /\ \A k \in Keys, b \in Bits :
       Selects(k, b) =>
         \A i \in ValidKeymaps, m \in ModifierMaps :
           /\ k \in DOMAIN Keymap[i][m]
           /\ Keymap[i][m][k] \in MapSelects /\ MapBit[Keymap[i][m][k]] = b
  /\ \A i \in ValidKeymaps : SUBSET i \subseteq ValidKeymaps

\* The LEDs of the modifiers are outputs that keymaps assign dark and without a
\* function, and that no key activates.  Actions are members of one enumeration.
Leds == {"VCAPS_LED", "VSHIFT_LED"}
ASSUME LedAssumption ==
  /\ Leds \subseteq VirtualDevices
  /\ VirtualDevices \intersect (ShiftActions \union {"CAPS"}) = {}
  /\ \A i \in ValidKeymaps :
       /\ \A n \in DOMAIN Setup[i].assign :
            LET a == Setup[i].assign[n] IN a[1] \in Leds => a[3] = "V_NOFUNC" /\ a[4] = 0
       /\ \A m \in ModifierMaps : \A k \in DOMAIN Keymap[i][m] : Keymap[i][m][k] \notin Leds

VARIABLES
  current_keyboard_index,   \* a set of bits
  held,        \* the keys that are down: last_stable_key_state
  modifiers,   \* the state of asdf_modifiers.c
  strobe,      \* the polarity of the strobe
  outputs,     \* the state of asdf_virtual.c and asdf_physical.c
  hook_map,    \* the function of every hook
  ran,         \* the function of the hook that the last step ran
  calls        \* innermost first: the keys each loop has still to re-apply

boardVars == <<current_keyboard_index, modifiers, strobe, outputs, hook_map>>
vars == <<boardVars, held, ran, calls>>

Idle == calls = <<>>
Code(k) == Keymap[current_keyboard_index][modifier_index(modifiers)][k]
Scanned == Keys \intersect
             DOMAIN Keymap[current_keyboard_index][modifier_index(modifiers)]

-----------------------------------------------------------------------------
\* asdf_modifier_set_shift_state and set_caps_state show the state on a LED.
Led(o, v, lit) == virtual_action(o, v, IF lit THEN "V_SET_HI" ELSE "V_SET_LO")
ShiftLed(o, m) == Led(o, "VSHIFT_LED", "LOCKED" \in m.shift)
CapsLed(o, m)  == Led(o, "VCAPS_LED", m.caps)

\* asdf_virtual_activate, with both halves of a pulse.
virtual_activate(o, v) ==
  LET once == virtual_action(o, v, o.function[v])
  IN  IF o.function[v] \in Pulses THEN virtual_action(once, v, o.function[v])
      ELSE once

AssignAll(o, list) ==
  Each(LAMBDA p, a : virtual_assign(p, a[1], a[2], a[3], a[4]), o, list)

AssignHooks(map, list) ==
  Each(LAMBDA hooks, a : hook_assign(hooks, a[1], a[2]), map, list)

\* The outputs, modifiers and hooks that the setup routine of index i leaves.
SetupModifiers(i, m) == IF Setup[i].capslock THEN capslock_activate(m) ELSE m
SetupHooks(i, map) == AssignHooks(map, Setup[i].hooks)

\* Mutant: CAPS LOCK is turned on before its LED is assigned.
LightsFirst(i, o, m) ==
  AssignAll(IF Setup[i].capslock THEN CapsLed(o, SetupModifiers(i, m)) ELSE o,
            Setup[i].assign)

SetupOutputs(i, o, m) ==
  LET assigned == AssignAll(o, Setup[i].assign)
  IN  IF Setup[i].capslock THEN CapsLed(assigned, SetupModifiers(i, m))
      ELSE assigned

\* Mutants: the loop sees a key of before; a nested switch re-applies nothing;
\* no switch does; outputs are not cleared; a setup routine that assigns fewer
\* hooks leaves those of before.
Switching(i, o, frames) ==
  /\ current_keyboard_index' = i
  /\ modifiers' = SetupModifiers(i, modifiers)
  /\ strobe' = Setup[i].strobe
  /\ outputs' = SetupOutputs(i, o, modifiers)
  /\ hook_map' = SetupHooks(i, hook_init)
  /\ calls' = frames
SwitchUsesOldState(i, rest)   == Switching(i, virtual_init(outputs), <<held>> \o rest)
SwitchOnceAppliesAll(i, rest) ==
  Switching(i, virtual_init(outputs), IF rest = <<>> THEN <<held'>> ELSE rest)
SwitchAppliesNothing(i, rest) == Switching(i, virtual_init(outputs), rest)
SwitchKeepsOutputs(i, rest)   == Switching(i, outputs, <<held'>> \o rest)
SwitchKeepsHooks(i, rest) ==
  /\ current_keyboard_index' = i
  /\ modifiers' = SetupModifiers(i, modifiers)
  /\ strobe' = Setup[i].strobe
  /\ outputs' = SetupOutputs(i, virtual_init(outputs), modifiers)
  /\ hook_map' = SetupHooks(i, hook_map)
  /\ calls' = <<held'>> \o rest

\* asdf_keymaps_switch up to the loop over keys.  rest: the loops around it.
\* asdf_arch_init sets the default, positive, strobe before the setup routine.
keymaps_switch(i, rest) ==
  /\ current_keyboard_index' = i
  /\ modifiers' = SetupModifiers(i, modifiers)
  /\ strobe' = Setup[i].strobe
  /\ outputs' = SetupOutputs(i, virtual_init(outputs), modifiers)
  /\ hook_map' = SetupHooks(i, hook_init)
  /\ calls' = <<held'>> \o rest

\* Mutant: a keymap that is already selected is set up again.
SelectsAgain(i, rest) ==
  \/ i \in ValidKeymaps /\ keymaps_switch(i, rest)
  \/ i \notin ValidKeymaps /\ calls' = rest /\ UNCHANGED boardVars

keymaps_select(i, rest) ==
  \/ /\ i # current_keyboard_index /\ i \in ValidKeymaps
     /\ keymaps_switch(i, rest)
  \/ /\ i = current_keyboard_index \/ i \notin ValidKeymaps
     /\ calls' = rest
     /\ UNCHANGED boardVars

-----------------------------------------------------------------------------
PressOutputs(code) ==
  LET m == PressModifiers(modifiers, code) IN
  CASE code \in ShiftActions   -> ShiftLed(outputs, m)
    [] code = "CAPS"           -> CapsLed(outputs, m)
    [] code \in VirtualDevices -> virtual_activate(outputs, code)
    [] OTHER                   -> outputs

\* asdf_keymaps_map_select_0_set to _3_clear.
map_select_set(b, rest)   == keymaps_select(current_keyboard_index \union {b}, rest)
map_select_clear(b, rest) == keymaps_select(current_keyboard_index \ {b}, rest)

activate_action(code, rest) ==
  \/ /\ code \in MapSelects
     /\ map_select_set(MapBit[code], rest)
     /\ ran' = null_func
  \/ /\ code \notin MapSelects
     /\ calls' = rest
     /\ UNCHANGED <<current_keyboard_index, hook_map>>
     /\ ran' = IF code \in DOMAIN HookOf THEN hook_execute(hook_map, HookOf[code])
               ELSE null_func
     /\ modifiers' = PressModifiers(modifiers, code)
     /\ strobe' = IF code = STROBE THEN "POSITIVE" ELSE strobe
     /\ outputs' = PressOutputs(code)

\* asdf_activate_key: a place that is bound to NOTHING runs no action when it
\* is pressed, unlike when it is re-applied.
activate_key(code) ==
  \/ code # "NOTHING" /\ activate_action(code, <<>>)
  \/ code = "NOTHING" /\ calls' = <<>> /\ ran' = null_func /\ UNCHANGED boardVars

deactivate_action(code) ==
  \/ /\ code \in MapSelects
     /\ map_select_clear(MapBit[code], <<>>)
  \/ /\ code \notin MapSelects
     /\ calls' = <<>>
     /\ UNCHANGED <<current_keyboard_index, hook_map>>
     /\ modifiers' = ReleaseModifiers(modifiers, code)
     /\ strobe' = IF code = STROBE THEN "NEGATIVE" ELSE strobe
     /\ outputs' = IF code = "SHIFT" THEN ShiftLed(outputs, modifiers') ELSE outputs

\* A debounced press or release, of a key of the rows that are scanned.  It is
\* recorded before its action runs.
KeyDown(k) ==
  /\ Idle
  /\ k \in Scanned \ held
  /\ held' = held \union {k}
  /\ activate_key(Code(k))

KeyUp(k) ==
  /\ Idle
  /\ k \in Scanned \intersect held
  /\ held' = held \ {k}
  /\ ran' = null_func
  /\ deactivate_action(Code(k))

Remaining == Head(calls) \intersect Scanned

\* Mutant: the loop does not move on.
AppliesAgain(k) ==
  activate_action(Code(k), calls)

\* asdf_apply_all_actions: the next key of the innermost loop.
ApplyAndGoOn(k) ==
  activate_action(Code(k), <<Head(calls) \ {k}>> \o Tail(calls))

ApplyKey ==
  /\ ~Idle
  /\ UNCHANGED held
  /\ \E k \in Remaining :
       /\ \A other \in Remaining : k <= other
       /\ ApplyAndGoOn(k)

\* The loop ends and asdf_keymaps_switch with it.
EndSwitch ==
  /\ ~Idle /\ Remaining = {}
  /\ outputs' = virtual_sync(outputs)
  /\ calls' = Tail(calls)
  /\ ran' = null_func
  /\ UNCHANGED <<current_keyboard_index, modifiers, strobe, hook_map, held>>

\* asdf_keymaps_init: no key is known to be down yet.
Blank == [next |-> <<>>, shadow |-> <<>>, line |-> [l \in Lines |-> "FLOATING"],
          device |-> <<>>, function |-> <<>>]
Init ==
  /\ current_keyboard_index = {}
  /\ held = {}
  /\ modifiers = SetupModifiers({}, ModifiersOff)
  /\ strobe = Setup[{}].strobe
  /\ outputs = SetupOutputs({}, virtual_init(Blank), ModifiersOff)
  /\ hook_map = SetupHooks({}, hook_init)
  /\ ran = null_func
  /\ calls = <<{}>>

Switch == ApplyKey \/ EndSwitch

Next ==
  \/ Switch
  \/ \E k \in Keys : KeyDown(k) \/ KeyUp(k)

Spec == Init /\ [][Next]_vars

-----------------------------------------------------------------------------
\* Only keys that are down are re-applied, and only valid keymaps selected.
TypeOK ==
  /\ current_keyboard_index \in ValidKeymaps
  /\ held \in SUBSET Keys
  /\ modifiers \in ModifierState
  /\ strobe \in {"POSITIVE", "NEGATIVE"}
  /\ calls \in Seq(SUBSET held)
  /\ hook_map \in [HookIds -> HookFunctions]
  /\ ran \in HookFunctions
  /\ outputs.next \in [Resources -> Resources]
  /\ outputs.shadow \in [Resources -> Values]
  /\ outputs.line \in [Lines -> Levels]
  /\ outputs.device \in [VirtualDevices -> Resources]
  /\ outputs.function \in [VirtualDevices -> VirtualFunctions]

\* The bits of the DIP switches that are closed.
Dips == {b \in Bits : \E k \in held : Selects(k, b)}

\* "If the DIP switches are not set to Keymap 0, then their position will be
\* detected as keypresses, and the correct keymap will be set": in whatever
\* order they are moved, the index holds no bit of an open switch, and every
\* bit of a closed one that leads to a valid keymap; so a valid setting is
\* the keymap.
DipsSelect ==
  Idle =>
    /\ current_keyboard_index \subseteq Dips
    /\ \A b \in Dips \ current_keyboard_index :
         current_keyboard_index \union {b} \notin ValidKeymaps
    /\ Dips \in ValidKeymaps => current_keyboard_index = Dips

\* Loops nest no deeper than the closed DIP switches: the stack of a small
\* processor is safe from a keymap that is switched from within a switch.
NestingBounded == Len(calls) <= 1 + Cardinality(Dips)

\* A switch leaves nothing of keymaps before: every virtual output has the
\* devices and the function that the setup routine of the keymap gave it.  And
\* however often a key that is down is re-applied, an output that pulses comes
\* back to the value it was assigned, and the devices of one that toggles (the
\* LOCAL line of the Sol and its LED) change together.
Fresh == [i \in ValidKeymaps |-> AssignAll(virtual_init(Blank), Setup[i].assign)]
FreshLists ==
  [i \in ValidKeymaps |-> [v \in VirtualDevices |-> List(Fresh[i].next, Fresh[i].device[v])]]
OutputsFitKeymap ==
  LET fresh == Fresh[current_keyboard_index]
      list == FreshLists[current_keyboard_index]
      Rests(d) == outputs.shadow[d] = fresh.shadow[d]
  IN  /\ outputs.function = fresh.function
      /\ \A v \in VirtualDevices :
           /\ List(outputs.next, outputs.device[v]) = list[v]
           /\ fresh.function[v] \in Pulses => \A d \in Nodes(list[v]) : Rests(d)
           /\ fresh.function[v] = "V_TOGGLE" =>
                \A c, d \in Nodes(list[v]) : Rests(c) <=> Rests(d)

\* No hook of a keymap before runs under another, though keymaps assign
\* different hooks and re-applied keys run them in the middle of a switch:
\* hooks are those of the keymap, and so is the message of the last key.
HooksFitKeymap ==
  LET own == Setup[current_keyboard_index].hooks IN
  /\ hook_map = AssignHooks(hook_init, own)
  /\ ran = null_func \/ \E n \in DOMAIN own : own[n][2] = ran

\* The LEDs of CAPS and SHIFT LOCK are set when the state changes and assigned,
\* dark, at a switch, with the state carried over.  None is ever lit when its
\* lock is off, and the keymaps that set CAPS up show when it is on.
Shows(v, value) ==
  \A d \in Nodes(List(outputs.next, outputs.device[v])) : outputs.shadow[d] = value
LedsTruthful ==
  /\ ~modifiers.caps => Shows("VCAPS_LED", 0)
  /\ "LOCKED" \notin modifiers.shift => Shows("VSHIFT_LED", 0)
  /\ Setup[current_keyboard_index].capslock /\ modifiers.caps => Shows("VCAPS_LED", 1)

\* "a shift key held down should invoke shift mode, and any DIP switch settings
\* should be applied" (asdf_keymaps_switch): whatever a key that is down meant
\* when it was pressed, what it alone means now is in effect after a switch.
Means(k, action) ==
  \A m \in ModifierMaps :
    LET map == Keymap[current_keyboard_index][m] IN k \in DOMAIN map /\ map[k] = action
AloneMeans(k, action) == {other \in Keys : Means(other, action)} = {k}
HeldKeysApply ==
  Idle =>
    \A k \in held :
      /\ AloneMeans(k, STROBE) => strobe = "POSITIVE"
      /\ AloneMeans(k, "CTRL") => modifiers.ctrl
      /\ AloneMeans(k, "SHIFT") => "ON" \in modifiers.shift

\* Switches that cause switches come to an end: every step of a loop brings it
\* closer, since a switch within a loop sets a bit that it does not clear again.
StepsLeft ==
  Each(LAMBDA n, keys : n + Cardinality(keys) + 1, 0, calls)
    + (Cardinality(Bits) - Cardinality(current_keyboard_index)) * (Cardinality(Keys) + 2)
SwitchEnds == [][~Idle => StepsLeft' < StepsLeft]_vars

-----------------------------------------------------------------------------
\* "Ensure DIP/action state persists across map changes" (asdf_keymaps.c): a
\* switch between keymaps that leave the strobe alone leaves it as it was.
StrobePersists ==
  [][/\ current_keyboard_index' # current_keyboard_index
     /\ Setup[current_keyboard_index].strobe = "POSITIVE"
     /\ Setup[current_keyboard_index'].strobe = "POSITIVE"
     => strobe' = strobe]_vars

\* "For Apple 2, start with CAPS active" (asdf_keymap_apple2.c), "turn on caps
\* lock" (asdf_keymap_ace1000.c): a keymap that does so starts with CAPS on.
CapsStart ==
  [][/\ current_keyboard_index' # current_keyboard_index
     /\ Setup[current_keyboard_index'].capslock
     => modifiers'.caps]_vars
=============================================================================
