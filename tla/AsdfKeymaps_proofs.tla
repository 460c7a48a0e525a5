-------------------------- MODULE AsdfKeymaps_proofs --------------------------
(***************************************************************************)
(* For every set of keymaps that binds the DIP switches alike in all of    *)
(* them: the switches select the keymap, switches nest no deeper than      *)
(* there are closed DIP switches, and keys that are down apply.            *)
(*                                                                         *)
(* The invariant says why: as long as a bit of a closed switch could still *)
(* be added to the index, the innermost loop has a key that will add it.   *)
(* A loop that ends then leaves nothing to the loops around it.            *)
(***************************************************************************)
EXTENDS AsdfKeymaps, AsdfModifiers_proofs, AsdfVirtual_proofs, SequenceTheorems

SwitchTypeOK ==
  /\ current_keyboard_index \in ValidKeymaps
  /\ held \in SUBSET Keys
  /\ calls \in Seq(SUBSET held)

\* Closed switches whose bit could be added to the index.
Pending == {b \in Dips \ current_keyboard_index :
              current_keyboard_index \union {b} \in ValidKeymaps}

BitsOfClosedSwitches == current_keyboard_index \subseteq Dips
PendingWillApply ==
  \A b \in Pending : calls # <<>> /\ \E k \in Head(calls) : Selects(k, b)
DepthBounded == Len(calls) <= 1 + Cardinality(current_keyboard_index)

SwitchInv ==
  SwitchTypeOK /\ BitsOfClosedSwitches /\ PendingWillApply /\ DepthBounded

-----------------------------------------------------------------------------
\* The bits of the index are four, so every index is finite.
LEMMA BitsFinite ==
  /\ IsFiniteSet(Bits)
  /\ \A i \in ValidKeymaps : i \subseteq Bits /\ IsFiniteSet(i)
  /\ \A h : IsFiniteSet({b \in Bits : \E k \in h : Selects(k, b)})
<1>1. Bits = {0, 1, 2, 3}
  BY DEF Bits, MapSelects, MapBit
<1>2. IsFiniteSet({0, 1, 2, 3})
  <2>1. {0, 1, 2, 3} = 0..3
    OBVIOUS
  <2>2. IsFiniteSet(0..3)
    <3>1. 0 \in Int /\ 3 \in Int
      OBVIOUS
    <3> QED BY <3>1, FS_Interval, Zenon
  <2> QED BY <2>1, <2>2
<1>3. IsFiniteSet(Bits)
  BY <1>1, <1>2
<1>4. \A i \in ValidKeymaps : i \subseteq Bits
  BY KeymapsAssumption DEF KeymapsAssumption
<1> QED BY <1>3, <1>4, FS_Subset

\* A key that is bound to a map select action selects its bit and no other;
\* a key that selects a bit is scanned and bound to such an action.
LEMMA CodeSelects ==
  ASSUME current_keyboard_index \in ValidKeymaps,
         NEW k \in Keys, NEW b \in Bits
  PROVE  /\ k \in Scanned /\ Code(k) \in MapSelects /\ MapBit[Code(k)] = b
              => Selects(k, b)
         /\ Selects(k, b) =>
              k \in Scanned /\ Code(k) \in MapSelects /\ MapBit[Code(k)] = b
<1>1. modifier_index(modifiers) \in ModifierMaps
  BY DEF modifier_index, modifier_mapping, ModifierMaps
<1> QED BY <1>1, DipSwitchAssumption DEF Selects, Scanned, Code, DipSwitchAssumption

\* What asdf_keymaps_select does to the index and to the loops.
LEMMA SelectEffect ==
  ASSUME NEW i, NEW rest, keymaps_select(i, rest)
  PROVE  \/ /\ i # current_keyboard_index /\ i \in ValidKeymaps
            /\ current_keyboard_index' = i /\ calls' = <<held'>> \o rest
         \/ /\ i = current_keyboard_index \/ i \notin ValidKeymaps
            /\ current_keyboard_index' = current_keyboard_index /\ calls' = rest
BY DEF keymaps_select, keymaps_switch, boardVars

LEMMA InitEstablishes == Init => SwitchInv
<1> SUFFICES ASSUME Init PROVE SwitchInv
  OBVIOUS
<1>1. {} \in ValidKeymaps
  BY KeymapsAssumption DEF KeymapsAssumption
<1>2. Dips = {}
  BY DEF Init, Dips
<1>3. Cardinality({}) = 0
  BY FS_EmptySet
<1> QED BY <1>1, <1>2, <1>3
        DEF Init, SwitchInv, SwitchTypeOK, BitsOfClosedSwitches, PendingWillApply,
            Pending, DepthBounded

-----------------------------------------------------------------------------
\* A loop that starts over with every key that is down applies all that pends.
LEMMA SwitchKeepsInv ==
  ASSUME SwitchInv, NEW i \in ValidKeymaps, NEW rest,
         current_keyboard_index' = i, calls' = <<held'>> \o rest,
         held' \in SUBSET Keys, rest \in Seq(SUBSET held'),
         i \subseteq Dips', Len(rest) <= Cardinality(i)
  PROVE  SwitchInv'
<1>1. /\ calls' \in Seq(SUBSET held') /\ calls' # <<>>
      /\ Head(calls') = held' /\ Len(calls') = 1 + Len(rest)
  OBVIOUS
<1>2. Cardinality(i) \in Nat
  BY BitsFinite, FS_CardinalityType
<1>3. PendingWillApply'
  BY <1>1 DEF PendingWillApply, Pending, Dips
<1>4. DepthBounded'
  BY <1>1, <1>2 DEF DepthBounded
<1> QED BY <1>1, <1>3, <1>4 DEF SwitchInv, SwitchTypeOK, BitsOfClosedSwitches

\* Between switches nothing pends, and no step but a switch lets anything pend.
LEMMA IdleMeansNothingPends == ASSUME SwitchInv, Idle PROVE Pending = {}
BY DEF SwitchInv, PendingWillApply, Idle

LEMMA KeyDownKeepsInv ==
  ASSUME SwitchInv, NEW k \in Keys, KeyDown(k) PROVE SwitchInv'
<1>1. /\ Idle /\ calls = <<>> /\ k \in Scanned /\ held' = held \union {k}
      /\ held' \in SUBSET Keys /\ current_keyboard_index \in ValidKeymaps
  BY DEF KeyDown, Idle, SwitchInv, SwitchTypeOK
<1>2. Dips' = Dips \union {b \in Bits : Selects(k, b)}
  BY <1>1 DEF Dips
<1>3. Pending = {}
  BY <1>1, IdleMeansNothingPends
<1>4. current_keyboard_index \subseteq Dips
  BY DEF SwitchInv, BitsOfClosedSwitches
<1>5. CASE Code(k) \in MapSelects
  <2> DEFINE b == MapBit[Code(k)]
             i == current_keyboard_index \union {b}
  <2>1. b \in Bits /\ keymaps_select(i, <<>>)
    <3>1. Code(k) # "NOTHING"
      BY <1>5 DEF MapSelects, MapBit
    <3> QED BY <1>5, <3>1 DEF KeyDown, activate_key, activate_action, map_select_set, Bits
  <2>2. Dips' = Dips \union {b}
    BY <1>1, <1>2, <1>5, <2>1, CodeSelects
  <2>3. i \subseteq Dips'
    BY <1>4, <2>2
  <2>4. CASE /\ i # current_keyboard_index /\ i \in ValidKeymaps
             /\ current_keyboard_index' = i /\ calls' = <<held'>> \o <<>>
    <3>1. Cardinality(i) \in Nat
      BY <2>4, BitsFinite, FS_CardinalityType
    <3>2. <<>> \in Seq(SUBSET held') /\ Len(<<>>) <= Cardinality(i)
      BY <3>1
    <3> HIDE DEF i
    <3> QED BY <1>1, <2>3, <2>4, <3>2, SwitchKeepsInv
  <2>5. CASE /\ i = current_keyboard_index \/ i \notin ValidKeymaps
             /\ current_keyboard_index' = current_keyboard_index /\ calls' = <<>>
    <3>1. Pending' = {}
      BY <1>3, <2>2, <2>5 DEF Pending
    <3> QED BY <1>1, <1>4, <2>2, <2>5, <3>1
            DEF SwitchInv, SwitchTypeOK, BitsOfClosedSwitches, PendingWillApply,
                DepthBounded
  <2> QED BY <2>1, <2>4, <2>5, SelectEffect
<1>6. CASE Code(k) \notin MapSelects
  <2>1. current_keyboard_index' = current_keyboard_index /\ calls' = <<>>
    BY <1>6 DEF KeyDown, activate_key, activate_action, boardVars
  <2>2. Dips' = Dips
    BY <1>1, <1>2, <1>6, CodeSelects
  <2>3. Pending' = {}
    BY <1>3, <2>1, <2>2 DEF Pending
  <2> QED BY <1>1, <1>4, <2>1, <2>2, <2>3
          DEF SwitchInv, SwitchTypeOK, BitsOfClosedSwitches, PendingWillApply,
              DepthBounded
<1> QED BY <1>5, <1>6

LEMMA KeyUpKeepsInv ==
  ASSUME SwitchInv, NEW k \in Keys, KeyUp(k) PROVE SwitchInv'
<1>1. /\ Idle /\ calls = <<>> /\ k \in Scanned /\ held' = held \ {k}
      /\ held' \in SUBSET Keys /\ current_keyboard_index \in ValidKeymaps
  BY DEF KeyUp, Idle, SwitchInv, SwitchTypeOK
<1>2. Dips' \subseteq Dips /\ Dips \ {b \in Bits : Selects(k, b)} \subseteq Dips'
  BY <1>1 DEF Dips
<1>3. Pending = {}
  BY <1>1, IdleMeansNothingPends
<1>4. current_keyboard_index \subseteq Dips
  BY DEF SwitchInv, BitsOfClosedSwitches
<1>5. CASE Code(k) \in MapSelects
  <2> DEFINE b == MapBit[Code(k)]
             i == current_keyboard_index \ {b}
  <2>1. b \in Bits /\ keymaps_select(i, <<>>)
    BY <1>5 DEF KeyUp, deactivate_action, map_select_clear, Bits
  <2>2. Dips \ {b} \subseteq Dips'
    BY <1>1, <1>2, <1>5, <2>1, CodeSelects
  <2>3. i \subseteq Dips'
    BY <1>4, <2>2
  <2>4. CASE /\ i # current_keyboard_index /\ i \in ValidKeymaps
             /\ current_keyboard_index' = i /\ calls' = <<held'>> \o <<>>
    <3>1. Cardinality(i) \in Nat
      BY <2>4, BitsFinite, FS_CardinalityType
    <3>2. <<>> \in Seq(SUBSET held') /\ Len(<<>>) <= Cardinality(i)
      BY <3>1
    <3> HIDE DEF i
    <3> QED BY <1>1, <2>3, <2>4, <3>2, SwitchKeepsInv
  <2>5. CASE /\ i = current_keyboard_index \/ i \notin ValidKeymaps
             /\ current_keyboard_index' = current_keyboard_index /\ calls' = <<>>
    <3>1. i \in ValidKeymaps
      BY <1>1, DipSwitchAssumption DEF DipSwitchAssumption
    <3>2. Pending' = {}
      BY <1>2, <1>3, <2>5 DEF Pending
    <3> QED BY <1>1, <2>3, <2>5, <3>1, <3>2
            DEF SwitchInv, SwitchTypeOK, BitsOfClosedSwitches, PendingWillApply,
                DepthBounded
  <2> QED BY <2>1, <2>4, <2>5, SelectEffect
<1>6. CASE Code(k) \notin MapSelects
  <2>1. current_keyboard_index' = current_keyboard_index /\ calls' = <<>>
    BY <1>6 DEF KeyUp, deactivate_action
  <2>2. Dips' = Dips
    BY <1>1, <1>2, <1>6, CodeSelects
  <2>3. Pending' = {}
    BY <1>3, <2>1, <2>2 DEF Pending
  <2> QED BY <1>1, <1>4, <2>1, <2>2, <2>3
          DEF SwitchInv, SwitchTypeOK, BitsOfClosedSwitches, PendingWillApply,
              DepthBounded
<1> QED BY <1>5, <1>6

\* A key that is re-applied adds what its switch selects, or pends nothing.
LEMMA ApplyKeyKeepsInv ==
  ASSUME SwitchInv, ApplyKey PROVE SwitchInv'
<1>1. PICK k \in Remaining :
        activate_action(Code(k), <<Head(calls) \ {k}>> \o Tail(calls))
  BY DEF ApplyKey, ApplyAndGoOn
<1> DEFINE rest == <<Head(calls) \ {k}>> \o Tail(calls)
<1>2. /\ calls # <<>> /\ held' = held /\ calls \in Seq(SUBSET held)
      /\ held \in SUBSET Keys /\ current_keyboard_index \in ValidKeymaps
      /\ current_keyboard_index \subseteq Dips
  BY DEF ApplyKey, Idle, SwitchInv, SwitchTypeOK, BitsOfClosedSwitches
<1>3. /\ Head(calls) \in SUBSET held
      /\ rest \in Seq(SUBSET held) /\ rest # <<>> /\ Len(rest) = Len(calls)
      /\ Head(rest) = Head(calls) \ {k}
  BY <1>2
<1>4. k \in held /\ k \in Keys /\ k \in Scanned
  BY <1>2, <1>3 DEF Remaining
<1>5. Dips' = Dips
  BY <1>2 DEF Dips
<1>6. /\ Cardinality(current_keyboard_index) \in Nat
      /\ Len(calls) <= 1 + Cardinality(current_keyboard_index)
  BY <1>2, BitsFinite, FS_CardinalityType DEF SwitchInv, DepthBounded
<1>7. \A b \in Pending : \E other \in Head(calls) : Selects(other, b)
  BY DEF SwitchInv, PendingWillApply
<1> HIDE DEF rest
<1>8. ASSUME current_keyboard_index' = current_keyboard_index, calls' = rest,
             \A b \in Pending : ~Selects(k, b)
      PROVE  SwitchInv'
  <2>1. Pending' = Pending
    BY <1>5, <1>8 DEF Pending
  <2>2. PendingWillApply'
    BY <1>3, <1>7, <1>8, <2>1 DEF PendingWillApply
  <2>3. DepthBounded'
    BY <1>3, <1>6, <1>8 DEF DepthBounded
  <2>4. SwitchTypeOK' /\ BitsOfClosedSwitches'
    BY <1>2, <1>3, <1>5, <1>8 DEF SwitchTypeOK, BitsOfClosedSwitches
  <2> QED BY <2>2, <2>3, <2>4 DEF SwitchInv
<1>9. CASE Code(k) \in MapSelects
  <2> DEFINE b == MapBit[Code(k)]
             i == current_keyboard_index \union {b}
  <2>1. b \in Bits /\ keymaps_select(i, rest)
    BY <1>1, <1>9 DEF activate_action, map_select_set, Bits, rest
  <2>2. /\ b \in Dips
        /\ \A other \in Bits : Selects(k, other) => other = b
    BY <1>2, <1>4, <1>9, <2>1, CodeSelects DEF Dips
  <2>3. CASE /\ i # current_keyboard_index /\ i \in ValidKeymaps
             /\ current_keyboard_index' = i /\ calls' = <<held'>> \o rest
    <3>1. Cardinality(i) = Cardinality(current_keyboard_index) + 1
      BY <1>2, <2>3, BitsFinite, FS_AddElement
    <3>2. Len(rest) <= Cardinality(i)
      BY <1>3, <1>6, <3>1
    <3>3. i \subseteq Dips'
      BY <1>2, <1>5, <2>2
    <3> HIDE DEF i
    <3> QED BY <1>2, <1>3, <2>3, <3>2, <3>3, SwitchKeepsInv
  <2>4. CASE /\ i = current_keyboard_index \/ i \notin ValidKeymaps
             /\ current_keyboard_index' = current_keyboard_index /\ calls' = rest
    <3>1. \A other \in Pending : ~Selects(k, other)
      BY <2>2, <2>4 DEF Pending, Dips
    <3> QED BY <1>8, <2>4, <3>1
  <2> QED BY <2>1, <2>3, <2>4, SelectEffect
<1>10. CASE Code(k) \notin MapSelects
  <2>1. current_keyboard_index' = current_keyboard_index /\ calls' = rest
    BY <1>1, <1>10 DEF activate_action, rest
  <2>2. \A b \in Pending : ~Selects(k, b)
    BY <1>2, <1>4, <1>10, CodeSelects DEF Pending, Dips
  <2> QED BY <1>8, <2>1, <2>2
<1> QED BY <1>9, <1>10

\* The keys left to a loop that ends are not scanned, so they select nothing.
LEMMA EndSwitchKeepsInv ==
  ASSUME SwitchInv, EndSwitch PROVE SwitchInv'
<1>1. /\ calls # <<>> /\ held' = held /\ calls' = Tail(calls)
      /\ current_keyboard_index' = current_keyboard_index /\ Remaining = {}
      /\ calls \in Seq(SUBSET held) /\ held \in SUBSET Keys
      /\ current_keyboard_index \in ValidKeymaps
  BY DEF EndSwitch, Idle, SwitchInv, SwitchTypeOK
<1>2. Head(calls) \in SUBSET held /\ Tail(calls) \in Seq(SUBSET held)
      /\ Len(Tail(calls)) = Len(calls) - 1
  BY <1>1
<1>3. Pending = {}
  <2>1. \A b \in Bits : \A k \in Head(calls) : ~Selects(k, b)
    BY <1>1, <1>2, CodeSelects DEF Remaining
  <2>2. Pending \subseteq Bits
    BY DEF Pending, Dips
  <2> QED BY <2>1, <2>2 DEF SwitchInv, PendingWillApply
<1>4. Dips' = Dips
  BY <1>1 DEF Dips
<1>5. Pending' = {}
  BY <1>1, <1>3, <1>4 DEF Pending
<1>6. Cardinality(current_keyboard_index) \in Nat
  BY <1>1, BitsFinite, FS_CardinalityType
<1>7. DepthBounded'
  BY <1>1, <1>2, <1>6 DEF SwitchInv, DepthBounded
<1> QED BY <1>1, <1>2, <1>4, <1>5, <1>7
        DEF SwitchInv, SwitchTypeOK, BitsOfClosedSwitches, PendingWillApply

\* The invariant of switching, for every keymap.
THEOREM SwitchInvariant == Spec => []SwitchInv
<1>1. ASSUME SwitchInv, [Next]_vars PROVE SwitchInv'
  <2>1. CASE ApplyKey
    BY <1>1, <2>1, ApplyKeyKeepsInv
  <2>2. CASE EndSwitch
    BY <1>1, <2>2, EndSwitchKeepsInv
  <2>3. CASE \E k \in Keys : KeyDown(k) \/ KeyUp(k)
    BY <1>1, <2>3, KeyDownKeepsInv, KeyUpKeepsInv
  <2>4. CASE UNCHANGED vars
    BY <1>1, <2>4
    DEF vars, boardVars, SwitchInv, SwitchTypeOK, BitsOfClosedSwitches,
        PendingWillApply, Pending, Dips, DepthBounded
  <2> QED BY <1>1, <2>1, <2>2, <2>3, <2>4 DEF Next, Switch
<1> QED BY InitEstablishes, <1>1, PTL DEF Spec

-----------------------------------------------------------------------------
\* When no switch is under way, the index holds bits of closed DIP switches
\* only and none could be added; so a valid setting is the keymap.
THEOREM SwitchesSelectKeymap == Spec => []DipsSelect
<1>1. SwitchInv => DipsSelect
  <2> SUFFICES ASSUME SwitchInv, Idle
               PROVE  /\ current_keyboard_index \subseteq Dips
                      /\ \A b \in Dips \ current_keyboard_index :
                           current_keyboard_index \union {b} \notin ValidKeymaps
                      /\ Dips \in ValidKeymaps => current_keyboard_index = Dips
    BY DEF DipsSelect
  <2>1. current_keyboard_index \subseteq Dips /\ Pending = {}
    BY IdleMeansNothingPends DEF SwitchInv, BitsOfClosedSwitches
  <2>2. \A b \in Dips \ current_keyboard_index :
          current_keyboard_index \union {b} \notin ValidKeymaps
    BY <2>1 DEF Pending
  <2>3. ASSUME Dips \in ValidKeymaps, current_keyboard_index # Dips PROVE FALSE
    <3>1. PICK b \in Dips \ current_keyboard_index : TRUE
      BY <2>1, <2>3
    <3>2. current_keyboard_index \union {b} \in SUBSET Dips
      BY <2>1, <3>1
    <3> QED BY <2>2, <2>3, <3>1, <3>2, DipSwitchAssumption DEF DipSwitchAssumption
  <2> QED BY <2>1, <2>2, <2>3
<1> QED BY <1>1, SwitchInvariant, PTL

\* Loops within loops: never more than one and the closed DIP switches.
THEOREM NestingIsBounded == Spec => []NestingBounded
<1>1. SwitchInv => NestingBounded
  <2> SUFFICES ASSUME SwitchInv PROVE Len(calls) <= 1 + Cardinality(Dips)
    BY DEF NestingBounded
  <2>1. /\ current_keyboard_index \subseteq Dips /\ calls \in Seq(SUBSET held)
        /\ Len(calls) <= 1 + Cardinality(current_keyboard_index)
    BY DEF SwitchInv, SwitchTypeOK, BitsOfClosedSwitches, DepthBounded
  <2>2. IsFiniteSet(Dips)
    BY BitsFinite DEF Dips
  <2>3. /\ Cardinality(Dips) \in Nat /\ Cardinality(current_keyboard_index) \in Nat
        /\ Cardinality(current_keyboard_index) <= Cardinality(Dips)
    BY <2>1, <2>2, FS_Subset, FS_CardinalityType
  <2> QED BY <2>1, <2>3
<1> QED BY <1>1, SwitchInvariant, PTL

-----------------------------------------------------------------------------
(* Keys that are down apply.                                               *)

\* A place that is SHIFT, CTRL or the strobe switch in one map of a keymap is
\* so in all of them.
BoundAlike ==
  \A action \in {STROBE, "CTRL", "SHIFT"}, i \in ValidKeymaps, k \in Keys :
    (\E m \in ModifierMaps : k \in DOMAIN Keymap[i][m] /\ Keymap[i][m][k] = action)
      => \A m \in ModifierMaps : k \in DOMAIN Keymap[i][m] /\ Keymap[i][m][k] = action

\* What a key alone means is in effect, or the innermost loop will see to it.
Applied(k) ==
  /\ AloneMeans(k, STROBE) => strobe = "POSITIVE"
  /\ AloneMeans(k, "CTRL") => modifiers.ctrl
  /\ AloneMeans(k, "SHIFT") => "ON" \in modifiers.shift
WillApply(k) == calls # <<>> /\ k \in Head(calls)

HeldInv ==
  /\ modifiers \in ModifierState
  /\ \A k \in held : WillApply(k) \/ Applied(k)

\* A key is scanned and has the code that it means; none else has it.
LEMMA CodeMeans ==
  ASSUME BoundAlike, current_keyboard_index \in ValidKeymaps,
         NEW k \in Keys, NEW action \in {STROBE, "CTRL", "SHIFT"}
  PROVE  /\ Means(k, action) => k \in Scanned /\ Code(k) = action
         /\ k \in Scanned /\ Code(k) = action => Means(k, action)
<1>1. modifier_index(modifiers) \in ModifierMaps
  BY DEF modifier_index, modifier_mapping, ModifierMaps
<1> QED BY <1>1 DEF BoundAlike, Means, Scanned, Code

\* The same for a key that alone means an action.
LEMMA AloneHasCode ==
  ASSUME BoundAlike, current_keyboard_index \in ValidKeymaps,
         NEW k \in Keys, NEW action \in {STROBE, "CTRL", "SHIFT"}, AloneMeans(k, action)
  PROVE  /\ k \in Scanned /\ Code(k) = action
         /\ \A other \in Keys : other \in Scanned /\ Code(other) = action => other = k
BY CodeMeans DEF AloneMeans

\* What selecting a keymap does to modifiers and loops.
LEMMA SelectModifiers ==
  ASSUME modifiers \in ModifierState, NEW i, NEW rest, keymaps_select(i, rest)
  PROVE  /\ modifiers' \in ModifierState
         /\ \/ calls' = <<held'>> \o rest
            \/ calls' = rest /\ UNCHANGED boardVars
<1>1. SetupModifiers(i, modifiers) \in ModifierState
  BY CapsFacts DEF SetupModifiers
<1> QED BY <1>1 DEF keymaps_select, keymaps_switch, boardVars

\* An action that is activated is in effect, and ends no other.
LEMMA ActivateApplies ==
  ASSUME modifiers \in ModifierState, NEW code, code \notin MapSelects, NEW rest,
         activate_action(code, rest)
  PROVE  /\ modifiers' \in ModifierState /\ calls' = rest
         /\ current_keyboard_index' = current_keyboard_index
         /\ strobe = "POSITIVE" \/ code = STROBE => strobe' = "POSITIVE"
         /\ modifiers.ctrl \/ code = "CTRL" => modifiers'.ctrl
         /\ "ON" \in modifiers.shift \/ code = "SHIFT" => "ON" \in modifiers'.shift
BY PressModifiersFacts DEF activate_action

\* A switch leaves every key that is down to its loop.
LEMMA SwitchHolds ==
  ASSUME modifiers' \in ModifierState, NEW rest, calls' = <<held'>> \o rest
  PROVE  HeldInv'
BY DEF HeldInv, WillApply

\* A step that ends no action keeps those that are in effect.
LEMMA AppliedStays ==
  ASSUME NEW k, Applied(k), current_keyboard_index' = current_keyboard_index,
         strobe = "POSITIVE" => strobe' = "POSITIVE",
         modifiers.ctrl => modifiers'.ctrl,
         "ON" \in modifiers.shift => "ON" \in modifiers'.shift
  PROVE  Applied(k)'
BY DEF Applied, AloneMeans, Means

\* A key that goes down applies at once.
LEMMA KeyDownHolds ==
  ASSUME BoundAlike, SwitchInv, HeldInv, NEW k \in Keys, KeyDown(k) PROVE HeldInv'
<1>1. /\ calls = <<>> /\ held' = held \union {k} /\ activate_key(Code(k))
      /\ current_keyboard_index \in ValidKeymaps /\ modifiers \in ModifierState
      /\ \A other \in held : Applied(other)
  BY DEF KeyDown, Idle, SwitchInv, SwitchTypeOK, HeldInv, WillApply
<1>2. CASE Code(k) \in MapSelects
  <2>1. keymaps_select(current_keyboard_index \union {MapBit[Code(k)]}, <<>>)
    BY <1>1, <1>2 DEF activate_key, activate_action, map_select_set, MapSelects, MapBit
  <2>2. CASE calls' = <<held'>> \o <<>>
    BY <1>1, <2>1, <2>2, SelectModifiers, SwitchHolds
  <2>3. CASE calls' = <<>> /\ UNCHANGED boardVars
    <3>1. \A action \in {STROBE, "CTRL", "SHIFT"} : ~AloneMeans(k, action)
      BY <1>1, <1>2, AloneHasCode DEF MapSelects, MapBit, STROBE
    <3>2. Applied(k)
      BY <3>1 DEF Applied
    <3> QED BY <1>1, <2>3, <3>2, AppliedStays DEF HeldInv, boardVars
  <2> QED BY <1>1, <2>1, <2>2, <2>3, SelectModifiers
<1>3. CASE Code(k) \notin MapSelects
  <2>1. /\ modifiers' \in ModifierState /\ calls' = <<>>
        /\ current_keyboard_index' = current_keyboard_index
        /\ strobe = "POSITIVE" \/ Code(k) = STROBE => strobe' = "POSITIVE"
        /\ modifiers.ctrl \/ Code(k) = "CTRL" => modifiers'.ctrl
        /\ "ON" \in modifiers.shift \/ Code(k) = "SHIFT" => "ON" \in modifiers'.shift
    <3>1. CASE Code(k) # "NOTHING"
      BY <1>1, <1>3, <3>1, ActivateApplies DEF activate_key
    <3>2. CASE Code(k) = "NOTHING"
      BY <1>1, <3>2 DEF activate_key, boardVars, STROBE
    <3> QED BY <3>1, <3>2
  <2>2. Applied(k)'
    <3>1. \A action \in {STROBE, "CTRL", "SHIFT"} : AloneMeans(k, action) => Code(k) = action
      BY <1>1, AloneHasCode
    <3>2. \A action : AloneMeans(k, action)' <=> AloneMeans(k, action)
      BY <2>1 DEF AloneMeans, Means
    <3> QED BY <2>1, <3>1, <3>2 DEF Applied
  <2> QED BY <1>1, <2>1, <2>2, AppliedStays DEF HeldInv
<1> QED BY <1>2, <1>3

\* A key that goes up ends what it means, which no other key alone means.
LEMMA KeyUpHolds ==
  ASSUME BoundAlike, SwitchInv, HeldInv, NEW k \in Keys, KeyUp(k) PROVE HeldInv'
<1>1. /\ calls = <<>> /\ held' = held \ {k} /\ deactivate_action(Code(k)) /\ k \in Scanned
      /\ held \subseteq Keys
      /\ current_keyboard_index \in ValidKeymaps /\ modifiers \in ModifierState
      /\ \A other \in held : Applied(other)
  BY DEF KeyUp, Idle, SwitchInv, SwitchTypeOK, HeldInv, WillApply
<1>2. CASE Code(k) \in MapSelects
  <2>1. keymaps_select(current_keyboard_index \ {MapBit[Code(k)]}, <<>>)
    BY <1>1, <1>2 DEF deactivate_action, map_select_clear
  <2>2. CASE calls' = <<held'>> \o <<>>
    BY <1>1, <2>1, <2>2, SelectModifiers, SwitchHolds
  <2>3. CASE calls' = <<>> /\ UNCHANGED boardVars
    BY <1>1, <2>3, AppliedStays DEF HeldInv, boardVars
  <2> QED BY <1>1, <2>1, <2>2, <2>3, SelectModifiers
<1>3. CASE Code(k) \notin MapSelects
  <2>1. /\ modifiers' = ReleaseModifiers(modifiers, Code(k))
        /\ current_keyboard_index' = current_keyboard_index
        /\ strobe' = IF Code(k) = STROBE THEN "NEGATIVE" ELSE strobe
    BY <1>1, <1>3 DEF deactivate_action
  <2>2. /\ modifiers' \in ModifierState
        /\ modifiers.ctrl /\ Code(k) # "CTRL" => modifiers'.ctrl
        /\ "ON" \in modifiers.shift /\ Code(k) # "SHIFT" => "ON" \in modifiers'.shift
    BY <1>1, <2>1, ReleaseModifiersFacts
  <2>3. ASSUME NEW other \in held' PROVE Applied(other)'
    <3>1. other \in Keys /\ other # k /\ Applied(other)
      BY <1>1, <2>3
    <3>2. \A action \in {STROBE, "CTRL", "SHIFT"} :
            AloneMeans(other, action) => Code(k) # action
      BY <1>1, <3>1, AloneHasCode
    <3>3. \A action : AloneMeans(other, action)' <=> AloneMeans(other, action)
      BY <2>1 DEF AloneMeans, Means
    <3> QED BY <2>1, <2>2, <3>1, <3>2, <3>3 DEF Applied
  <2> QED BY <2>2, <2>3 DEF HeldInv
<1> QED BY <1>2, <1>3

\* A key that is re-applied applies; those after it are left to the loop.
LEMMA ApplyKeyHolds ==
  ASSUME BoundAlike, SwitchInv, HeldInv, ApplyKey PROVE HeldInv'
<1>1. PICK k \in Remaining :
        activate_action(Code(k), <<Head(calls) \ {k}>> \o Tail(calls))
  BY DEF ApplyKey, ApplyAndGoOn
<1> DEFINE rest == <<Head(calls) \ {k}>> \o Tail(calls)
<1>2. /\ calls # <<>> /\ held' = held /\ calls \in Seq(SUBSET held) /\ held \subseteq Keys
      /\ current_keyboard_index \in ValidKeymaps /\ modifiers \in ModifierState
      /\ k \in Keys /\ k \in Scanned
  BY DEF ApplyKey, Idle, SwitchInv, SwitchTypeOK, HeldInv, Remaining, Scanned
<1>3. rest # <<>> /\ Head(rest) = Head(calls) \ {k} /\ activate_action(Code(k), rest)
  BY <1>1, <1>2
<1> HIDE DEF rest
<1>4. ASSUME NEW other \in held, other # k, calls' = rest,
             current_keyboard_index' = current_keyboard_index,
             strobe = "POSITIVE" => strobe' = "POSITIVE",
             modifiers.ctrl => modifiers'.ctrl,
             "ON" \in modifiers.shift => "ON" \in modifiers'.shift
      PROVE  WillApply(other)' \/ Applied(other)'
  BY <1>3, <1>4, AppliedStays DEF HeldInv, WillApply
<1>5. CASE Code(k) \in MapSelects
  <2>1. keymaps_select(current_keyboard_index \union {MapBit[Code(k)]}, rest)
    BY <1>3, <1>5 DEF activate_action, map_select_set
  <2>2. CASE calls' = <<held'>> \o rest
    BY <1>2, <2>1, <2>2, SelectModifiers, SwitchHolds
  <2>3. CASE calls' = rest /\ UNCHANGED boardVars
    <3>1. \A action \in {STROBE, "CTRL", "SHIFT"} : ~AloneMeans(k, action)
      BY <1>2, <1>5, AloneHasCode DEF MapSelects, MapBit, STROBE
    <3>2. Applied(k)'
      BY <2>3, <3>1 DEF Applied, AloneMeans, Means, boardVars
    <3> QED BY <1>2, <1>4, <2>3, <3>2 DEF HeldInv, boardVars
  <2> QED BY <1>2, <2>1, <2>2, <2>3, SelectModifiers
<1>6. CASE Code(k) \notin MapSelects
  <2>1. /\ modifiers' \in ModifierState /\ calls' = rest
        /\ current_keyboard_index' = current_keyboard_index
        /\ strobe = "POSITIVE" \/ Code(k) = STROBE => strobe' = "POSITIVE"
        /\ modifiers.ctrl \/ Code(k) = "CTRL" => modifiers'.ctrl
        /\ "ON" \in modifiers.shift \/ Code(k) = "SHIFT" => "ON" \in modifiers'.shift
    BY <1>2, <1>3, <1>6, ActivateApplies
  <2>2. Applied(k)'
    <3>1. \A action \in {STROBE, "CTRL", "SHIFT"} : AloneMeans(k, action) => Code(k) = action
      BY <1>2, AloneHasCode
    <3>2. \A action : AloneMeans(k, action)' <=> AloneMeans(k, action)
      BY <2>1 DEF AloneMeans, Means
    <3> QED BY <2>1, <3>1, <3>2 DEF Applied
  <2> QED BY <1>2, <1>4, <2>1, <2>2 DEF HeldInv
<1> QED BY <1>5, <1>6

\* A loop that ends has left nothing: a key that means something is scanned.
LEMMA EndSwitchHolds ==
  ASSUME BoundAlike, SwitchInv, HeldInv, EndSwitch PROVE HeldInv'
<1>1. /\ held' = held /\ modifiers' = modifiers /\ strobe' = strobe
      /\ current_keyboard_index' = current_keyboard_index
      /\ Head(calls) \intersect Scanned = {} /\ held \subseteq Keys
      /\ current_keyboard_index \in ValidKeymaps /\ modifiers \in ModifierState
  BY DEF EndSwitch, Remaining, SwitchInv, SwitchTypeOK, HeldInv
<1>2. ASSUME NEW k \in held PROVE Applied(k)
  <2>1. CASE WillApply(k)
    <3>1. k \in Keys /\ k \notin Scanned
      BY <1>1, <2>1 DEF WillApply
    <3>2. \A action \in {STROBE, "CTRL", "SHIFT"} : ~AloneMeans(k, action)
      BY <1>1, <3>1, AloneHasCode
    <3> QED BY <3>2 DEF Applied
  <2> QED BY <2>1 DEF HeldInv
<1> QED BY <1>1, <1>2, AppliedStays DEF HeldInv

\* Whatever the keys that are down meant when they were pressed, after a switch
\* the strobe, CTRL and SHIFT are as the new keymap means them.
THEOREM HeldKeysTakeEffect == ASSUME BoundAlike PROVE Spec => []HeldKeysApply
<1>1. Init => SwitchInv /\ HeldInv
  <2>1. ModifiersOff \in ModifierState
    BY DEF ModifiersOff, ModifierState
  <2> QED BY <2>1, InitEstablishes, CapsFacts DEF Init, HeldInv, SetupModifiers
<1>2. SwitchInv /\ HeldInv /\ [Next]_vars => HeldInv'
  <2> SUFFICES ASSUME SwitchInv, HeldInv, [Next]_vars PROVE HeldInv'
    OBVIOUS
  <2>1. CASE ApplyKey
    BY BoundAlike, <2>1, ApplyKeyHolds
  <2>2. CASE EndSwitch
    BY BoundAlike, <2>2, EndSwitchHolds
  <2>3. CASE \E k \in Keys : KeyDown(k) \/ KeyUp(k)
    BY BoundAlike, <2>3, KeyDownHolds, KeyUpHolds
  <2>4. CASE UNCHANGED vars
    BY <2>4 DEF vars, boardVars, HeldInv, WillApply, Applied, AloneMeans, Means
  <2> QED BY <2>1, <2>2, <2>3, <2>4 DEF Next, Switch
<1>3. HeldInv => HeldKeysApply
  BY DEF HeldInv, HeldKeysApply, Idle, WillApply, Applied
<1> QED BY <1>1, <1>2, <1>3, SwitchInvariant, PTL DEF Spec
-----------------------------------------------------------------------------
(* What a setup routine leaves: the assignments and hooks of its keymap.   *)

Assigns == VirtualDevices \X Resources \X VirtualFunctions \X Values

\* The states between the assignments of a setup routine.
Assigned(after, o, list) ==
  /\ after[0] = o
  /\ \A n \in 1..Len(list) :
       after[n] = virtual_assign(after[n - 1], list[n][1], list[n][2], list[n][3], list[n][4])
  /\ \A n \in 0..Len(list) : after[n] \in GoodOutputs
  /\ AssignAll(o, list) = after[Len(list)]

LEMMA AssignRounds ==
  ASSUME NEW o \in GoodOutputs, NEW list \in Seq(Assigns)
  PROVE  \E after : Assigned(after, o, list)
<1> USE PhysicalAssumption, VirtualAssumption
<1> DEFINE N == Len(list)
           Step(p, a) == virtual_assign(p, a[1], a[2], a[3], a[4])
           round == [n \in 1..N |-> [p \in GoodOutputs |-> Step(p, list[n])]]
           Body(f) == [n \in 0..N |-> IF n = 0 THEN o ELSE Step(f[n - 1], list[n])]
           after == CHOOSE f : f = Body(f)
<1>1. N \in Nat /\ \A n \in 1..N : list[n] \in Assigns
  OBVIOUS
<1>2. ASSUME NEW p \in GoodOutputs, NEW n \in 1..N PROVE Step(p, list[n]) \in GoodOutputs
  <2>1. list[n][3] \in VirtualFunctions /\ list[n][4] \in Values
    BY <1>1 DEF Assigns
  <2> QED BY <2>1, GoodAssign
<1> HIDE DEF N, Step
<1>3. round \in [1..N -> [GoodOutputs -> GoodOutputs]]
  BY <1>2
<1>4. \E f : f = Body(f)
  <2>1. PICK f : Solves(f, N, GoodOutputs, o, round)
    <3> HIDE DEF round
    <3> QED BY <1>1, <1>3, Recursion
  <2>2. ASSUME NEW n \in 1..N PROVE f[n] = Step(f[n - 1], list[n])
    <3>1. f[n - 1] \in GoodOutputs
      BY <1>1, <2>1 DEF Solves
    <3>2. f[n] = round[n][f[n - 1]]
      BY <2>1 DEF Solves
    <3> QED BY <3>1, <3>2
  <2>3. f = Body(f)
    <3> HIDE DEF round
    <3> QED BY <2>1, <2>2, <1>1 DEF Solves
  <2> HIDE DEF Body
  <2> QED BY <2>3
<1>5. after = Body(after)
  <2> HIDE DEF Body
  <2> QED BY <1>4
<1>6. AssignAll(o, list) = after[N]
  BY DEF AssignAll, Each, N, Step
<1> HIDE DEF after
<1>7. after[0] = o /\ \A n \in 1..N : after[n] = Step(after[n - 1], list[n])
  BY <1>1, <1>5
<1> DEFINE Good == {n \in 0..N : after[n] \in GoodOutputs}
<1>8. 0 \in Good
  BY <1>1, <1>7
<1>9. ASSUME NEW n \in 1..N, n - 1 \in Good PROVE n \in Good
  BY <1>1, <1>2, <1>7, <1>9
<1>10. 0..N \subseteq Good
  <2> HIDE DEF Good
  <2> QED BY <1>1, <1>8, <1>9, Rounds
<1>11. Assigned(after, o, list)
  BY <1>6, <1>7, <1>10 DEF Assigned, N, Step
<1> QED BY <1>11

\* All but the lines: what the code of a keymap can tell two states apart by.
Alike(p, q) ==
  p.next = q.next /\ p.shadow = q.shadow /\ p.device = q.device /\ p.function = q.function

LEMMA AssignAlike ==
  ASSUME NEW p \in GoodOutputs, NEW q \in GoodOutputs, Alike(p, q),
         NEW v, NEW d, NEW function \in VirtualFunctions, NEW value \in Values
  PROVE  Alike(virtual_assign(p, v, d, function, value), virtual_assign(q, v, d, function, value))
<1>1. Available(p) = Available(q)
  BY DEF Alike, Available
<1>2. CASE v \in VirtualDevices /\ d \in Available(p)
  <2>1. /\ p \in OutputsState /\ q \in OutputsState
    BY DEF GoodOutputs
  <2>2. \A o \in OutputsState :
          /\ physical_allocate(o, d, o.device[v], value).next =
               [o.next EXCEPT ![Predecessor(o.next, d)] = o.next[d], ![d] = o.device[v]]
          /\ physical_allocate(o, d, o.device[v], value).shadow = [o.shadow EXCEPT ![d] = value]
          /\ physical_allocate(o, d, o.device[v], value).device = o.device
          /\ physical_allocate(o, d, o.device[v], value).function = o.function
          /\ DOMAIN physical_allocate(o, d, o.device[v], value) = DOMAIN o
    BY DEF physical_allocate, OutputsState
  <2>3. \A o \in OutputsState : d \in Available(o) =>
          LET r == virtual_assign(o, v, d, function, value) IN
          /\ r.next = physical_allocate(o, d, o.device[v], value).next
          /\ r.shadow = physical_allocate(o, d, o.device[v], value).shadow
          /\ r.device = [o.device EXCEPT ![v] = d]
          /\ r.function = [o.function EXCEPT ![v] = function]
    <3> SUFFICES ASSUME NEW o \in OutputsState, d \in Available(o)
                 PROVE  LET r == virtual_assign(o, v, d, function, value) IN
                        /\ r.next = physical_allocate(o, d, o.device[v], value).next
                        /\ r.shadow = physical_allocate(o, d, o.device[v], value).shadow
                        /\ r.device = [o.device EXCEPT ![v] = d]
                        /\ r.function = [o.function EXCEPT ![v] = function]
      OBVIOUS
    <3> DEFINE s == physical_allocate(o, d, o.device[v], value)
    <3>1. virtual_assign(o, v, d, function, value) =
            [s EXCEPT !.device[v] = d, !.function[v] = function]
      BY <1>2 DEF virtual_assign
    <3>2. s.device = o.device /\ s.function = o.function /\ DOMAIN s = DOMAIN o
      BY <2>2
    <3>3. {"next", "shadow", "device", "function"} \subseteq DOMAIN o
      BY DEF OutputsState
    <3> HIDE DEF s
    <3> QED BY <3>1, <3>2, <3>3 DEF s
  <2>4. ASSUME NEW o \in OutputsState, d \in Available(o)
        PROVE  LET r == virtual_assign(o, v, d, function, value) IN
               /\ r.next = [o.next EXCEPT ![Predecessor(o.next, d)] = o.next[d], ![d] = o.device[v]]
               /\ r.shadow = [o.shadow EXCEPT ![d] = value]
               /\ r.device = [o.device EXCEPT ![v] = d]
               /\ r.function = [o.function EXCEPT ![v] = function]
    BY <2>2, <2>3, <2>4
  <2>5. p.next = q.next /\ p.shadow = q.shadow /\ p.device = q.device /\ p.function = q.function
    BY DEF Alike
  <2> DEFINE a == virtual_assign(p, v, d, function, value)
             b == virtual_assign(q, v, d, function, value)
  <2>6. /\ a.next = [p.next EXCEPT ![Predecessor(p.next, d)] = p.next[d], ![d] = p.device[v]]
        /\ a.shadow = [p.shadow EXCEPT ![d] = value]
        /\ a.device = [p.device EXCEPT ![v] = d]
        /\ a.function = [p.function EXCEPT ![v] = function]
    BY <1>2, <2>1, <2>4
  <2>7. /\ b.next = [q.next EXCEPT ![Predecessor(q.next, d)] = q.next[d], ![d] = q.device[v]]
        /\ b.shadow = [q.shadow EXCEPT ![d] = value]
        /\ b.device = [q.device EXCEPT ![v] = d]
        /\ b.function = [q.function EXCEPT ![v] = function]
    BY <1>1, <1>2, <2>1, <2>4
  <2>8. /\ a.next = b.next /\ a.shadow = b.shadow /\ a.device = b.device
        /\ a.function = b.function
    BY <2>5, <2>6, <2>7
  <2> HIDE DEF a, b
  <2>9. Alike(a, b)
    BY <2>8 DEF Alike
  <2> QED BY <2>9 DEF a, b
<1>3. CASE ~(v \in VirtualDevices /\ d \in Available(p))
  BY <1>1, <1>3 DEF virtual_assign
<1> QED BY <1>2, <1>3

\* The assignments of a keymap leave the same but for lines, whatever was before.
LEMMA AssignAllAlike ==
  ASSUME NEW p \in GoodOutputs, NEW q \in GoodOutputs, Alike(p, q), NEW list \in Seq(Assigns)
  PROVE  /\ AssignAll(p, list) \in GoodOutputs
         /\ Alike(AssignAll(p, list), AssignAll(q, list))
<1> DEFINE N == Len(list)
<1>1. PICK one : Assigned(one, p, list)
  BY AssignRounds
<1>2. PICK other : Assigned(other, q, list)
  BY AssignRounds
<1>3. N \in Nat /\ \A n \in 1..N : list[n][3] \in VirtualFunctions /\ list[n][4] \in Values
  <2>1. \A n \in 1..N : list[n] \in Assigns
    OBVIOUS
  <2> QED BY <2>1 DEF Assigns
<1> HIDE DEF N
<1> DEFINE Good == {n \in 0..N : Alike(one[n], other[n])}
<1>4. 0 \in Good
  BY <1>1, <1>2, <1>3 DEF Assigned
<1>5. ASSUME NEW n \in 1..N, n - 1 \in Good PROVE n \in Good
  <2>1. /\ one[n - 1] \in GoodOutputs /\ other[n - 1] \in GoodOutputs
        /\ n \in 0..N /\ Alike(one[n - 1], other[n - 1])
    BY <1>1, <1>2, <1>3, <1>5 DEF Assigned, N
  <2>2. /\ one[n] = virtual_assign(one[n - 1], list[n][1], list[n][2], list[n][3], list[n][4])
        /\ other[n] = virtual_assign(other[n - 1], list[n][1], list[n][2], list[n][3], list[n][4])
    BY <1>1, <1>2 DEF Assigned, N
  <2> QED BY <1>3, <2>1, <2>2, AssignAlike
<1>6. 0..N \subseteq Good
  <2> HIDE DEF Good
  <2> QED BY <1>3, <1>4, <1>5, Rounds
<1>7. Alike(one[N], other[N]) /\ one[N] \in GoodOutputs
  BY <1>1, <1>3, <1>6 DEF Assigned, N
<1> QED BY <1>1, <1>2, <1>7 DEF Assigned, N

-----------------------------------------------------------------------------
(* The outputs fit the keymap, and its LEDs the modifiers.                 *)

\* The devices of an output.
Devs(o, v) == Nodes(List(o.next, o.device[v]))

\* No function, and no light.
LedsDark(o) == \A v \in Leds : o.function[v] = "V_NOFUNC" /\ \A d \in Devs(o, v) : o.shadow[d] = 0

LEMMA AssignKeepsDark ==
  ASSUME NEW o \in GoodOutputs, LedsDark(o), NEW v, NEW d,
         NEW function \in VirtualFunctions, NEW value \in Values,
         v \in Leds => function = "V_NOFUNC" /\ value = 0
  PROVE  LedsDark(virtual_assign(o, v, d, function, value))
<1> USE PhysicalAssumption, VirtualAssumption
<1> DEFINE q == virtual_assign(o, v, d, function, value)
<1>1. CASE v \in VirtualDevices /\ d \in Available(o)
  <2>1. Available(o) = Nodes(Lists(o)[V_NULL])
    BY DEF Available, Lists, Masters, HeadOf
  <2>2. PICK after : IsAssigned(o, q, Lists(o), after, v, d, function, value)
    BY <1>1, <2>1, AssignFacts DEF GoodOutputs
  <2> HIDE DEF q
  <2>3. \A w \in VirtualDevices :
          /\ w \in Masters /\ w # V_NULL
          /\ Devs(o, w) = Nodes(Lists(o)[w]) /\ Devs(q, w) = Nodes(after[w])
    <3> SUFFICES ASSUME NEW w \in VirtualDevices
                 PROVE  /\ w \in Masters /\ w # V_NULL
                        /\ Devs(o, w) = Nodes(Lists(o)[w]) /\ Devs(q, w) = Nodes(after[w])
      OBVIOUS
    <3>1. w \in Masters /\ w # V_NULL /\ HeadOf(o, w) = o.device[w] /\ HeadOf(q, w) = q.device[w]
      BY DEF Masters, HeadOf
    <3>2. List(q.next, HeadOf(q, w)) = after[w]
      BY <2>2, <3>1, LinkedLists DEF IsAssigned
    <3> QED BY <3>1, <3>2 DEF Devs, Lists
  <2>4. ASSUME NEW w \in Leds
        PROVE  q.function[w] = "V_NOFUNC" /\ \A e \in Devs(q, w) : q.shadow[e] = 0
    <3>1. w \in VirtualDevices /\ o.function[w] = "V_NOFUNC" /\ \A e \in Devs(o, w) : o.shadow[e] = 0
      BY LedAssumption DEF LedsDark
    <3>2. /\ q.shadow = [o.shadow EXCEPT ![d] = value]
          /\ q.function = [o.function EXCEPT ![v] = function]
          /\ Nodes(after[v]) = Nodes(Lists(o)[v]) \union {d}
          /\ \A u \in VirtualDevices \ {v} : after[u] = Lists(o)[u]
      BY <2>2 DEF IsAssigned
    <3>3. /\ o.shadow \in [Resources -> Values]
          /\ o.function \in [VirtualDevices -> VirtualFunctions]
      BY DEF GoodOutputs, OutputsState
    <3>4. Devs(o, w) \subseteq Resources /\ d \notin Devs(o, w)
      <4>1. d \in Nodes(Lists(o)[V_NULL]) /\ V_NULL \in Masters
        BY <1>1, <2>1 DEF Masters
      <4>2. d \notin Nodes(Lists(o)[w])
        BY <2>3, <3>1, <4>1 DEF GoodOutputs, Linked
      <4> QED BY <2>3, <3>1, <4>2, GoodLists DEF Devs, Resources
    <3>5. CASE w = v
      <4>1. Devs(q, w) = Devs(o, w) \union {d} /\ value = 0 /\ function = "V_NOFUNC"
        BY <2>3, <3>1, <3>2, <3>5
      <4>2. d \in Resources
        <5>1. d \in Devs(q, w) /\ q \in GoodOutputs
          BY <4>1, <2>2, LinkedLists DEF IsAssigned, GoodOutputs
        <5> QED BY <3>1, <5>1, GoodLists DEF Devs, Resources
      <4> QED BY <3>1, <3>2, <3>3, <3>4, <3>5, <4>1, <4>2
    <3>6. CASE w # v
      <4>1. Devs(q, w) = Devs(o, w)
        BY <2>3, <3>1, <3>2, <3>6
      <4> QED BY <3>1, <3>2, <3>3, <3>4, <3>6, <4>1
    <3> QED BY <3>5, <3>6
  <2>5. LedsDark(q)
    BY <2>4 DEF LedsDark
  <2> QED BY <2>5 DEF q
<1>2. CASE ~(v \in VirtualDevices /\ d \in Available(o))
  BY <1>2 DEF virtual_assign
<1> QED BY <1>1, <1>2

\* What the assignments of a keymap leave of outputs that were cleared.
LEMMA FreshFacts ==
  ASSUME NEW i \in ValidKeymaps, NEW levels \in [Lines -> Levels]
  PROVE  LET o == AssignAll(Cleared(levels), Setup[i].assign) IN
         o \in GoodOutputs /\ Alike(o, Fresh[i]) /\ LedsDark(o)
<1> USE PhysicalAssumption, VirtualAssumption
<1> DEFINE start == Cleared(levels)
           list == Setup[i].assign
           N == Len(list)
<1>1. list \in Seq(Assigns)
  BY KeymapsAssumption DEF Assigns
<1>2. start \in GoodOutputs /\ LedsDark(start)
  <2>1. start \in GoodOutputs /\ \A v \in VirtualDevices : Devs(start, v) = {}
    BY GoodCleared DEF Devs
  <2>2. \A v \in VirtualDevices : start.function[v] = "V_NOFUNC"
    BY DEF Cleared
  <2> HIDE DEF start
  <2> QED BY <2>1, <2>2, LedAssumption DEF LedsDark
<1>3. virtual_init(Blank) \in GoodOutputs /\ Alike(start, virtual_init(Blank))
  <2>1. Blank.line \in [Lines -> Levels]
    BY DEF Blank, Levels
  <2>2. virtual_init(Blank) = Cleared(Blank.line)
    <3>1. Blank = [next |-> Blank.next, shadow |-> Blank.shadow, line |-> Blank.line,
                   device |-> Blank.device, function |-> Blank.function]
      BY DEF Blank
    <3> QED BY <3>1, InitIsCleared
  <2> QED BY <2>1, <2>2, GoodCleared DEF Alike, Cleared
<1>4. Fresh[i] = AssignAll(virtual_init(Blank), list)
  BY DEF Fresh
<1> HIDE DEF start
<1>5. AssignAll(start, list) \in GoodOutputs /\ Alike(AssignAll(start, list), Fresh[i])
  BY <1>1, <1>2, <1>3, <1>4, AssignAllAlike
<1>6. PICK after : Assigned(after, start, list)
  BY <1>1, <1>2, AssignRounds
<1>7. /\ N \in Nat
      /\ \A n \in 1..N : /\ list[n][3] \in VirtualFunctions /\ list[n][4] \in Values
                         /\ list[n][1] \in Leds => list[n][3] = "V_NOFUNC" /\ list[n][4] = 0
  <2>1. N \in Nat /\ DOMAIN list = 1..N /\ \A n \in 1..N : list[n] \in Assigns
    BY <1>1
  <2>2. \A n \in DOMAIN list : list[n][1] \in Leds => list[n][3] = "V_NOFUNC" /\ list[n][4] = 0
    BY LedAssumption
  <2> QED BY <2>1, <2>2 DEF Assigns
<1> HIDE DEF N, list
<1> DEFINE Good == {n \in 0..N : LedsDark(after[n])}
<1>8. 0 \in Good
  BY <1>2, <1>6, <1>7 DEF Assigned
<1>9. ASSUME NEW n \in 1..N, n - 1 \in Good PROVE n \in Good
  <2>1. after[n - 1] \in GoodOutputs /\ n \in 0..N /\ LedsDark(after[n - 1])
    BY <1>6, <1>7, <1>9 DEF Assigned, N
  <2>2. after[n] = virtual_assign(after[n - 1], list[n][1], list[n][2], list[n][3], list[n][4])
    BY <1>6 DEF Assigned, N
  <2> QED BY <1>7, <2>1, <2>2, AssignKeepsDark
<1>10. 0..N \subseteq Good
  <2> HIDE DEF Good
  <2> QED BY <1>7, <1>8, <1>9, Rounds
<1>11. LedsDark(AssignAll(start, list))
  BY <1>6, <1>7, <1>10 DEF Assigned, N
<1> QED BY <1>5, <1>11 DEF start, list

\* The outputs are those of keymap i, but for what keys and modifiers change.
Fit(o, i) ==
  /\ o \in GoodOutputs
  /\ o.next = Fresh[i].next /\ o.device = Fresh[i].device /\ o.function = Fresh[i].function
  /\ \A v \in VirtualDevices :
       /\ Fresh[i].function[v] \in Pulses => \A d \in Devs(o, v) : o.shadow[d] = Fresh[i].shadow[d]
       /\ Fresh[i].function[v] = "V_TOGGLE" =>
            \A c, d \in Devs(o, v) : o.shadow[c] = Fresh[i].shadow[c] <=> o.shadow[d] = Fresh[i].shadow[d]

LEMMA FreshFits ==
  ASSUME NEW i \in ValidKeymaps, NEW levels \in [Lines -> Levels]
  PROVE  /\ Fit(AssignAll(Cleared(levels), Setup[i].assign), i)
         /\ LedsDark(AssignAll(Cleared(levels), Setup[i].assign))
         /\ Fresh[i].shadow \in [Resources -> Values]
         /\ Fresh[i].function \in [VirtualDevices -> VirtualFunctions]
         /\ \A v \in Leds : Fresh[i].function[v] = "V_NOFUNC"
<1> DEFINE o == AssignAll(Cleared(levels), Setup[i].assign)
<1>1. o \in GoodOutputs /\ Alike(o, Fresh[i]) /\ LedsDark(o)
  BY FreshFacts
<1> HIDE DEF o
<1>2. o.shadow \in [Resources -> Values] /\ o.function \in [VirtualDevices -> VirtualFunctions]
  BY <1>1 DEF GoodOutputs, OutputsState
<1>3. Fit(o, i)
  BY <1>1 DEF Alike, Fit
<1> QED BY <1>1, <1>2, <1>3 DEF Alike, LedsDark, o

\* The shadows of one output change to those that New gives; the rest stays.
Redone(o, p, v, new) ==
  /\ p \in GoodOutputs
  /\ p.next = o.next /\ p.device = o.device /\ p.function = o.function
  /\ \A d \in Devices : p.shadow[d] = IF d \in Devs(o, v) THEN new[d] ELSE o.shadow[d]

\* A keymap is kept if, on that output, a pulse ends where it was and the
\* devices of one that toggles change together.
LEMMA RedoneFits ==
  ASSUME NEW i \in ValidKeymaps, NEW o, Fit(o, i), NEW p, NEW v \in VirtualDevices, NEW new,
         Redone(o, p, v, new),
         Fresh[i].function[v] \in Pulses => \A d \in Devs(o, v) : new[d] = o.shadow[d],
         Fresh[i].function[v] = "V_TOGGLE" =>
           \/ \A d \in Devs(o, v) : new[d] = o.shadow[d]
           \/ \A d \in Devs(o, v) : new[d] = 1 - o.shadow[d]
  PROVE  /\ Fit(p, i)
         /\ \A w \in VirtualDevices : Devs(p, w) = Devs(o, w)
         /\ \A w \in VirtualDevices \ {v} : \A d \in Devs(o, w) : p.shadow[d] = o.shadow[d]
<1> USE PhysicalAssumption, VirtualAssumption
<1>1. \A w \in VirtualDevices : Devs(p, w) = Devs(o, w)
  BY DEF Redone, Devs
<1>2. /\ o \in GoodOutputs /\ p \in GoodOutputs
      /\ \A w \in VirtualDevices : Devs(o, w) \subseteq Devices
      /\ \A w \in VirtualDevices \ {v} : Devs(o, v) \intersect Devs(o, w) = {}
  BY GoodLists DEF Fit, Redone, Devs
<1>3. ASSUME NEW w \in VirtualDevices \ {v}, NEW d \in Devs(o, w)
      PROVE  p.shadow[d] = o.shadow[d]
  <2>1. d \in Devices /\ d \notin Devs(o, v)
    BY <1>2
  <2> QED BY <2>1 DEF Redone
<1>4. \A d \in Devs(o, v) : p.shadow[d] = new[d]
  BY <1>2 DEF Redone
<1>5. \A d \in Devices : o.shadow[d] \in {0, 1} /\ Fresh[i].shadow[d] \in {0, 1}
  <2>1. PICK levels \in [Lines -> Levels] : TRUE
    <3>1. [l \in Lines |-> "LOW"] \in [Lines -> Levels]
      BY DEF Levels
    <3> QED BY <3>1
  <2>2. Fresh[i].shadow \in [Resources -> Values] /\ o.shadow \in [Resources -> Values]
    BY <1>2, <2>1, FreshFits DEF GoodOutputs, OutputsState
  <2> QED BY <2>2 DEF Resources, Values
<1>6. ASSUME NEW w \in VirtualDevices
      PROVE  /\ Fresh[i].function[w] \in Pulses => \A d \in Devs(p, w) : p.shadow[d] = Fresh[i].shadow[d]
             /\ Fresh[i].function[w] = "V_TOGGLE" =>
                  \A c, d \in Devs(p, w) :
                    p.shadow[c] = Fresh[i].shadow[c] <=> p.shadow[d] = Fresh[i].shadow[d]
  <2>1. /\ Fresh[i].function[w] \in Pulses => \A d \in Devs(o, w) : o.shadow[d] = Fresh[i].shadow[d]
        /\ Fresh[i].function[w] = "V_TOGGLE" =>
             \A c, d \in Devs(o, w) :
               o.shadow[c] = Fresh[i].shadow[c] <=> o.shadow[d] = Fresh[i].shadow[d]
    BY DEF Fit
  <2>2. CASE w # v
    BY <1>1, <1>3, <2>1, <2>2
  <2>3. CASE w = v
    <3>1. Fresh[i].function[w] \in Pulses => \A d \in Devs(p, w) : p.shadow[d] = Fresh[i].shadow[d]
      BY <1>1, <1>4, <2>1, <2>3
    <3>2. ASSUME Fresh[i].function[w] = "V_TOGGLE", NEW c \in Devs(p, w), NEW d \in Devs(p, w)
          PROVE  p.shadow[c] = Fresh[i].shadow[c] <=> p.shadow[d] = Fresh[i].shadow[d]
      <4>1. c \in Devs(o, v) /\ d \in Devs(o, v) /\ c \in Devices /\ d \in Devices
        BY <1>1, <1>2, <2>3, <3>2
      <4>2. o.shadow[c] = Fresh[i].shadow[c] <=> o.shadow[d] = Fresh[i].shadow[d]
        BY <2>1, <2>3, <3>2, <4>1
      <4>3. \/ p.shadow[c] = o.shadow[c] /\ p.shadow[d] = o.shadow[d]
            \/ p.shadow[c] = 1 - o.shadow[c] /\ p.shadow[d] = 1 - o.shadow[d]
        BY <1>4, <2>3, <3>2, <4>1
      <4>4. /\ o.shadow[c] \in {0, 1} /\ Fresh[i].shadow[c] \in {0, 1}
            /\ o.shadow[d] \in {0, 1} /\ Fresh[i].shadow[d] \in {0, 1}
        BY <1>5, <4>1
      <4> QED BY <4>2, <4>3, <4>4
    <3> QED BY <3>1, <3>2
  <2> QED BY <2>2, <2>3
<1>7. Fit(p, i)
  BY <1>6 DEF Fit, Redone
<1> QED BY <1>1, <1>3, <1>7

\* An action is such a change.
LEMMA ActionRedoes ==
  ASSUME NEW o \in GoodOutputs, NEW v \in VirtualDevices, NEW function \in VirtualFunctions
  PROVE  Redone(o, virtual_action(o, v, function), v, [d \in Devices |-> NewValue(function, o.shadow[d])])
<1>1. ActedOn(o, virtual_action(o, v, function), v, function)
  BY PhysicalAssumption, VirtualAssumption, GoodAction
<1> QED BY <1>1 DEF ActedOn, Redone, Devs

\* The lamp of an output is lit or not.
LEMMA LedFits ==
  ASSUME NEW i \in ValidKeymaps, NEW o, Fit(o, i), NEW v \in Leds, NEW lit \in BOOLEAN
  PROVE  /\ Fit(Led(o, v, lit), i)
         /\ \A w \in VirtualDevices : Devs(Led(o, v, lit), w) = Devs(o, w)
         /\ \A d \in Devs(o, v) : Led(o, v, lit).shadow[d] = IF lit THEN 1 ELSE 0
         /\ \A w \in VirtualDevices \ {v} : \A d \in Devs(o, w) : Led(o, v, lit).shadow[d] = o.shadow[d]
<1> DEFINE function == IF lit THEN "V_SET_HI" ELSE "V_SET_LO"
           new == [d \in Devices |-> NewValue(function, o.shadow[d])]
           p == Led(o, v, lit)
<1>1. v \in VirtualDevices /\ function \in VirtualFunctions /\ o \in GoodOutputs
  BY LedAssumption DEF VirtualFunctions, Fit
<1>2. Redone(o, p, v, new)
  <2>1. p = virtual_action(o, v, function)
    BY DEF Led
  <2> HIDE DEF function, p
  <2> QED BY <1>1, <2>1, ActionRedoes
<1>3. Fresh[i].function[v] = "V_NOFUNC"
  <2>1. PICK levels \in [Lines -> Levels] : TRUE
    <3>1. [l \in Lines |-> "LOW"] \in [Lines -> Levels]
      BY DEF Levels
    <3> QED BY <3>1
  <2> QED BY <2>1, FreshFits
<1>4. Fresh[i].function[v] \notin Pulses /\ Fresh[i].function[v] # "V_TOGGLE"
  BY <1>3 DEF Pulses
<1>5. \A d \in Devs(o, v) : p.shadow[d] = IF lit THEN 1 ELSE 0
  <2>1. Devs(o, v) \subseteq Devices
    BY <1>1, PhysicalAssumption, VirtualAssumption, GoodLists DEF Devs
  <2>2. \A x : NewValue(function, x) = IF lit THEN 1 ELSE 0
    BY DEF NewValue, Pulses
  <2> HIDE DEF p, function
  <2> QED BY <1>2, <2>1, <2>2 DEF Redone
<1> HIDE DEF p, new
<1>6. /\ Fit(p, i)
      /\ \A w \in VirtualDevices : Devs(p, w) = Devs(o, w)
      /\ \A w \in VirtualDevices \ {v} : \A d \in Devs(o, w) : p.shadow[d] = o.shadow[d]
  <2>1. Fresh[i].function[v] \in Pulses => \A d \in Devs(o, v) : new[d] = o.shadow[d]
    BY <1>4
  <2>2. Fresh[i].function[v] = "V_TOGGLE" =>
          \/ \A d \in Devs(o, v) : new[d] = o.shadow[d]
          \/ \A d \in Devs(o, v) : new[d] = 1 - o.shadow[d]
    BY <1>4
  <2> QED BY <1>1, <1>2, <2>1, <2>2, RedoneFits
<1> QED BY <1>5, <1>6 DEF p

\* A key activates an output; a pulse is over when the action is.
LEMMA ActivateFits ==
  ASSUME NEW i \in ValidKeymaps, NEW o, Fit(o, i), NEW v \in VirtualDevices
  PROVE  /\ Fit(virtual_activate(o, v), i)
         /\ \A w \in VirtualDevices : Devs(virtual_activate(o, v), w) = Devs(o, w)
         /\ \A w \in VirtualDevices \ {v} : \A d \in Devs(o, w) :
              virtual_activate(o, v).shadow[d] = o.shadow[d]
<1> DEFINE function == o.function[v]
           once == virtual_action(o, v, function)
           twice == virtual_action(once, v, function)
           p == virtual_activate(o, v)
           new == [d \in Devices |-> p.shadow[d]]
<1>1. o \in GoodOutputs /\ function \in VirtualFunctions /\ Fresh[i].function[v] = function
  BY DEF Fit, GoodOutputs, OutputsState
<1>2. \A d \in Devices : o.shadow[d] \in Values
  BY <1>1 DEF GoodOutputs, OutputsState, Resources
<1>3. Devs(o, v) \subseteq Devices
  BY <1>1, PhysicalAssumption, VirtualAssumption, GoodLists DEF Devs
<1>4. Redone(o, once, v, [d \in Devices |-> NewValue(function, o.shadow[d])])
  <2> HIDE DEF function
  <2> QED BY <1>1, ActionRedoes
<1>5. CASE function \notin Pulses
  <2>1. p = once
    BY <1>5 DEF virtual_activate
  <2>2. function = "V_TOGGLE" => \A d \in Devices : NewValue(function, o.shadow[d]) = 1 - o.shadow[d]
    BY <1>2 DEF NewValue
  <2> HIDE DEF p, once, function
  <2> QED BY <1>1, <1>3, <1>4, <1>5, <2>1, <2>2, RedoneFits DEF p
<1>6. CASE function \in Pulses
  <2>1. p = twice
    BY <1>6 DEF virtual_activate
  <2> HIDE DEF p, once, function
  <2>2. Redone(once, twice, v, [d \in Devices |-> NewValue(function, once.shadow[d])])
    BY <1>1, <1>4, ActionRedoes DEF Redone
  <2>3. Devs(once, v) = Devs(o, v)
    BY <1>4 DEF Redone, Devs
  <2>4. ASSUME NEW d \in Devices PROVE twice.shadow[d] = o.shadow[d]
    <3>1. 1 - (1 - o.shadow[d]) = o.shadow[d]
      BY <1>2 DEF Values
    <3>2. \A x : NewValue(function, x) = 1 - x
      BY <1>6 DEF NewValue, Pulses
    <3> HIDE DEF twice
    <3> QED BY <1>4, <2>2, <2>3, <3>1, <3>2 DEF Redone
  <2> HIDE DEF twice
  <2>5. Redone(o, twice, v, [d \in Devices |-> o.shadow[d]])
    BY <1>4, <2>2, <2>4 DEF Redone
  <2> QED BY <1>1, <1>3, <1>6, <2>1, <2>5, RedoneFits DEF p, Pulses
<1> QED BY <1>5, <1>6

-----------------------------------------------------------------------------
(* What the LEDs show, and the invariant of the outputs.                   *)

\* Every device of the output has the value.
ShownOn(o, v, value) == \A d \in Devs(o, v) : o.shadow[d] = value

Lamps(o, i, m) ==
  /\ ~m.caps => ShownOn(o, "VCAPS_LED", 0)
  /\ "LOCKED" \notin m.shift => ShownOn(o, "VSHIFT_LED", 0)
  /\ Setup[i].capslock /\ m.caps => ShownOn(o, "VCAPS_LED", 1)

Kept(o, i, m) == m \in ModifierState /\ Fit(o, i) /\ Lamps(o, i, m)

OutputsInv == Kept(outputs, current_keyboard_index, modifiers)

\* Lamps stay as they are where devices and shadows do.
LEMMA ShownStays ==
  ASSUME NEW o, NEW p, NEW v, NEW value, Devs(p, v) = Devs(o, v),
         \A d \in Devs(o, v) : p.shadow[d] = o.shadow[d], ShownOn(o, v, value)
  PROVE  ShownOn(p, v, value)
BY DEF ShownOn

\* CAPS is turned on or off, and its LED with it.
LEMMA CapsLedKeeps ==
  ASSUME NEW i \in ValidKeymaps, NEW o, NEW m \in ModifierState, Fit(o, i),
         "LOCKED" \notin m.shift => ShownOn(o, "VSHIFT_LED", 0)
  PROVE  Kept(CapsLed(o, m), i, m)
<1> DEFINE lit == m.caps
           p == Led(o, "VCAPS_LED", lit)
<1>1. "VCAPS_LED" \in Leds /\ lit \in BOOLEAN /\ "VSHIFT_LED" \in VirtualDevices \ {"VCAPS_LED"}
  BY LedAssumption DEF Leds, ModifierState
<1> HIDE DEF lit
<1>2. /\ Fit(p, i)
      /\ \A w \in VirtualDevices : Devs(p, w) = Devs(o, w)
      /\ \A d \in Devs(o, "VCAPS_LED") : p.shadow[d] = IF lit THEN 1 ELSE 0
      /\ \A w \in VirtualDevices \ {"VCAPS_LED"} : \A d \in Devs(o, w) : p.shadow[d] = o.shadow[d]
  BY <1>1, LedFits
<1> HIDE DEF p
<1>3. ShownOn(p, "VCAPS_LED", IF lit THEN 1 ELSE 0)
  BY <1>1, <1>2, LedAssumption DEF ShownOn, Leds
<1>4. ASSUME "LOCKED" \notin m.shift PROVE ShownOn(p, "VSHIFT_LED", 0)
  BY <1>1, <1>2, <1>4, ShownStays
<1>5. Lamps(p, i, m)
  BY <1>3, <1>4 DEF Lamps, lit
<1> QED BY <1>2, <1>5 DEF Kept, CapsLed, p, lit

\* SHIFT LOCK is, and its LED.
LEMMA ShiftLedKeeps ==
  ASSUME NEW i \in ValidKeymaps, NEW o, NEW m \in ModifierState, Fit(o, i),
         ~m.caps => ShownOn(o, "VCAPS_LED", 0),
         Setup[i].capslock /\ m.caps => ShownOn(o, "VCAPS_LED", 1)
  PROVE  Kept(ShiftLed(o, m), i, m)
<1> DEFINE lit == "LOCKED" \in m.shift
           p == Led(o, "VSHIFT_LED", lit)
<1>1. "VSHIFT_LED" \in Leds /\ lit \in BOOLEAN /\ "VCAPS_LED" \in VirtualDevices \ {"VSHIFT_LED"}
  BY LedAssumption DEF Leds
<1> HIDE DEF lit
<1>2. /\ Fit(p, i)
      /\ \A w \in VirtualDevices : Devs(p, w) = Devs(o, w)
      /\ \A d \in Devs(o, "VSHIFT_LED") : p.shadow[d] = IF lit THEN 1 ELSE 0
      /\ \A w \in VirtualDevices \ {"VSHIFT_LED"} : \A d \in Devs(o, w) : p.shadow[d] = o.shadow[d]
  BY <1>1, LedFits
<1> HIDE DEF p
<1>3. ShownOn(p, "VSHIFT_LED", IF lit THEN 1 ELSE 0)
  BY <1>1, <1>2, LedAssumption DEF ShownOn, Leds
<1>4. \A value : ShownOn(o, "VCAPS_LED", value) => ShownOn(p, "VCAPS_LED", value)
  BY <1>1, <1>2, ShownStays
<1>5. Lamps(p, i, m)
  BY <1>3, <1>4 DEF Lamps, lit
<1> QED BY <1>2, <1>5 DEF Kept, ShiftLed, p, lit

\* A change of the outputs or the modifiers that no LED is about.
LEMMA OthersKeep ==
  ASSUME NEW i, NEW o, NEW m, Kept(o, i, m),
         NEW p, Fit(p, i), NEW new \in ModifierState, new.caps = m.caps, new.shift = m.shift,
         \A v \in Leds : Devs(p, v) = Devs(o, v) /\ \A d \in Devs(o, v) : p.shadow[d] = o.shadow[d]
  PROVE  Kept(p, i, new)
<1>1. \A v \in Leds : \A value : ShownOn(o, v, value) => ShownOn(p, v, value)
  BY ShownStays
<1> QED BY <1>1 DEF Kept, Lamps, Leds

\* What the modifiers are after a key, as far as LEDs show them.
LEMMA LocksAfterPress ==
  ASSUME NEW m \in ModifierState, NEW code
  PROVE  /\ PressModifiers(m, code) \in ModifierState
         /\ code \notin ShiftActions => PressModifiers(m, code).shift = m.shift
         /\ code # "CAPS" => PressModifiers(m, code).caps = m.caps
<1>1. CASE code = "SHIFT"
  BY <1>1, PressModifiersFacts DEF PressModifiers, shift_activate, ModifierState, ShiftActions
<1>2. CASE code = "SHIFTLOCK_ON"
  BY <1>2, PressModifiersFacts DEF PressModifiers, shiftlock_on_activate, ModifierState, ShiftActions
<1>3. CASE code = "SHIFTLOCK_TOGGLE"
  BY <1>3, PressModifiersFacts DEF PressModifiers, shiftlock_toggle_activate, ModifierState, ShiftActions
<1>4. CASE code = "CAPS"
  BY <1>4, PressModifiersFacts DEF PressModifiers, capslock_activate, ModifierState
<1>5. CASE code = "CTRL"
  BY <1>5, PressModifiersFacts DEF PressModifiers, ctrl_activate, ModifierState
<1>6. CASE code \notin {"SHIFT", "SHIFTLOCK_ON", "SHIFTLOCK_TOGGLE", "CAPS", "CTRL"}
  BY <1>6 DEF PressModifiers
<1> QED BY <1>1, <1>2, <1>3, <1>4, <1>5, <1>6

\* A key that is pressed or re-applied.
LEMMA PressKeeps ==
  ASSUME OutputsInv, current_keyboard_index \in ValidKeymaps, NEW code, code \notin Leds
  PROVE  Kept(PressOutputs(code), current_keyboard_index, PressModifiers(modifiers, code))
<1> DEFINE i == current_keyboard_index
           o == outputs
           m == modifiers
           new == PressModifiers(m, code)
<1>1. m \in ModifierState /\ Fit(o, i) /\ Lamps(o, i, m) /\ i \in ValidKeymaps /\ Kept(o, i, m)
  BY DEF OutputsInv, Kept
<1>2. /\ new \in ModifierState
      /\ code \notin ShiftActions => new.shift = m.shift
      /\ code # "CAPS" => new.caps = m.caps
  BY <1>1, LocksAfterPress
<1>3. /\ code \in ShiftActions => code # "CAPS" /\ code \notin VirtualDevices
      /\ code = "CAPS" => code \notin VirtualDevices
  BY LedAssumption DEF ShiftActions
<1>4. /\ code \in ShiftActions => PressOutputs(code) = ShiftLed(o, new)
      /\ code = "CAPS" => PressOutputs(code) = CapsLed(o, new)
      /\ code \in VirtualDevices => PressOutputs(code) = virtual_activate(o, code)
      /\ code \notin ShiftActions /\ code # "CAPS" /\ code \notin VirtualDevices =>
           PressOutputs(code) = o
  BY <1>3 DEF PressOutputs
<1> HIDE DEF new, o, m, i
<1>5. CASE code \in ShiftActions
  BY <1>1, <1>2, <1>3, <1>4, <1>5, ShiftLedKeeps DEF Lamps, i, new, m
<1>6. CASE code = "CAPS"
  <2>1. "LOCKED" \notin new.shift => ShownOn(o, "VSHIFT_LED", 0)
    BY <1>1, <1>2, <1>3, <1>6 DEF Lamps
  <2> QED BY <1>1, <1>2, <1>4, <1>6, <2>1, CapsLedKeeps DEF i, new, m
<1>7. CASE code \in VirtualDevices
  <2>1. /\ Fit(virtual_activate(o, code), i)
        /\ \A w \in VirtualDevices : Devs(virtual_activate(o, code), w) = Devs(o, w)
        /\ \A w \in VirtualDevices \ {code} : \A d \in Devs(o, w) :
             virtual_activate(o, code).shadow[d] = o.shadow[d]
    BY <1>1, <1>7, ActivateFits
  <2>2. Leds \subseteq VirtualDevices \ {code}
    BY LedAssumption
  <2>3. new.caps = m.caps /\ new.shift = m.shift
    BY <1>2, <1>3, <1>7
  <2>4. Kept(virtual_activate(o, code), i, new)
    BY <1>1, <1>2, <2>1, <2>2, <2>3, OthersKeep
  <2> QED BY <1>4, <1>7, <2>4 DEF i, new, m
<1>8. CASE code \notin ShiftActions /\ code # "CAPS" /\ code \notin VirtualDevices
  <2>1. Kept(o, i, new)
    BY <1>1, <1>2, <1>8, OthersKeep
  <2> QED BY <1>4, <1>8, <2>1 DEF i, new, m
<1> QED BY <1>5, <1>6, <1>7, <1>8

\* A key that is released: only SHIFT has a LED.
LEMMA ReleaseKeeps ==
  ASSUME OutputsInv, current_keyboard_index \in ValidKeymaps, NEW code
  PROVE  LET new == ReleaseModifiers(modifiers, code) IN
         Kept(IF code = "SHIFT" THEN ShiftLed(outputs, new) ELSE outputs,
              current_keyboard_index, new)
<1> DEFINE i == current_keyboard_index
           o == outputs
           m == modifiers
           new == ReleaseModifiers(m, code)
<1>1. m \in ModifierState /\ Fit(o, i) /\ Lamps(o, i, m) /\ i \in ValidKeymaps /\ Kept(o, i, m)
  BY DEF OutputsInv, Kept
<1>2. new \in ModifierState /\ new.caps = m.caps /\ (code # "SHIFT" => new.shift = m.shift)
  <2>1. new \in ModifierState
    BY <1>1, ReleaseModifiersFacts
  <2>2. new.caps = m.caps /\ (code # "SHIFT" => new.shift = m.shift)
    BY <1>1 DEF ReleaseModifiers, shift_deactivate, ctrl_deactivate, ModifierState
  <2> QED BY <2>1, <2>2
<1> HIDE DEF new, o, m, i
<1>3. CASE code = "SHIFT"
  <2>1. Kept(ShiftLed(o, new), i, new)
    BY <1>1, <1>2, ShiftLedKeeps DEF Lamps
  <2> QED BY <1>3, <2>1 DEF i, new, m, o
<1>4. CASE code # "SHIFT"
  <2>1. Kept(o, i, new)
    BY <1>1, <1>2, <1>4, OthersKeep
  <2> QED BY <1>4, <2>1 DEF i, new, m, o
<1> QED BY <1>3, <1>4

\* The setup routine of a keymap, after outputs are cleared.
LEMMA SetupKeeps ==
  ASSUME NEW i \in ValidKeymaps, NEW o, o.line \in [Lines -> Levels],
         o = [next |-> o.next, shadow |-> o.shadow, line |-> o.line,
              device |-> o.device, function |-> o.function],
         NEW m \in ModifierState
  PROVE  Kept(SetupOutputs(i, virtual_init(o), m), i, SetupModifiers(i, m))
<1> DEFINE levels == o.line
           assigned == AssignAll(virtual_init(o), Setup[i].assign)
           new == SetupModifiers(i, m)
<1>1. virtual_init(o) = Cleared(levels)
  BY InitIsCleared
<1>2. Fit(assigned, i) /\ LedsDark(assigned)
  <2>1. levels \in [Lines -> Levels]
    OBVIOUS
  <2> HIDE DEF levels
  <2> QED BY <1>1, <2>1, FreshFits
<1>3. new \in ModifierState /\ new.shift = m.shift
  BY CapsFacts DEF SetupModifiers
<1>4. ShownOn(assigned, "VCAPS_LED", 0) /\ ShownOn(assigned, "VSHIFT_LED", 0)
  <2> HIDE DEF assigned
  <2> QED BY <1>2 DEF LedsDark, ShownOn, Leds
<1>5. SetupOutputs(i, virtual_init(o), m) = IF Setup[i].capslock THEN CapsLed(assigned, new)
                                            ELSE assigned
  BY DEF SetupOutputs
<1> HIDE DEF assigned, new
<1>6. CASE Setup[i].capslock
  <2>1. Kept(CapsLed(assigned, new), i, new)
    BY <1>2, <1>3, <1>4, CapsLedKeeps
  <2> QED BY <1>5, <1>6, <2>1 DEF new
<1>7. CASE ~Setup[i].capslock
  <2>1. Kept(assigned, i, new)
    BY <1>2, <1>3, <1>4, <1>7 DEF Kept, Lamps
  <2> QED BY <1>5, <1>7, <2>1 DEF new
<1> QED BY <1>6, <1>7

\* Selecting a keymap switches to it or does nothing.
LEMMA SelectKeeps ==
  ASSUME OutputsInv, current_keyboard_index \in ValidKeymaps, NEW i, NEW rest,
         keymaps_select(i, rest)
  PROVE  OutputsInv'
<1>1. CASE i \in ValidKeymaps /\ keymaps_switch(i, rest)
  <2>1. /\ current_keyboard_index' = i
        /\ modifiers' = SetupModifiers(i, modifiers)
        /\ outputs' = SetupOutputs(i, virtual_init(outputs), modifiers)
    BY <1>1 DEF keymaps_switch
  <2>2. modifiers \in ModifierState /\ outputs \in OutputsState
    BY DEF OutputsInv, Kept, Fit, GoodOutputs
  <2>3. /\ outputs.line \in [Lines -> Levels]
        /\ outputs = [next |-> outputs.next, shadow |-> outputs.shadow, line |-> outputs.line,
                      device |-> outputs.device, function |-> outputs.function]
    BY <2>2 DEF OutputsState
  <2>4. Kept(SetupOutputs(i, virtual_init(outputs), modifiers), i, SetupModifiers(i, modifiers))
    BY <1>1, <2>2, <2>3, SetupKeeps
  <2> QED BY <2>1, <2>4 DEF OutputsInv
<1>2. CASE UNCHANGED boardVars
  BY <1>2 DEF OutputsInv, boardVars
<1> QED BY <1>1, <1>2 DEF keymaps_select

\* No key that is scanned has the code of a LED.
LEMMA ScannedCode ==
  ASSUME current_keyboard_index \in ValidKeymaps, NEW k \in Scanned
  PROVE  Code(k) \notin Leds
<1>1. modifier_index(modifiers) \in ModifierMaps
  BY DEF modifier_index, modifier_mapping, ModifierMaps
<1> QED BY <1>1, LedAssumption DEF Scanned, Code

LEMMA ActivateKeeps ==
  ASSUME OutputsInv, current_keyboard_index \in ValidKeymaps,
         NEW code, code \notin Leds, NEW rest, activate_action(code, rest)
  PROVE  OutputsInv'
<1>1. CASE code \in MapSelects
  BY <1>1, SelectKeeps DEF activate_action, map_select_set
<1>2. CASE code \notin MapSelects
  <2>1. /\ current_keyboard_index' = current_keyboard_index
        /\ modifiers' = PressModifiers(modifiers, code) /\ outputs' = PressOutputs(code)
    BY <1>2 DEF activate_action
  <2>2. Kept(PressOutputs(code), current_keyboard_index, PressModifiers(modifiers, code))
    BY PressKeeps
  <2> QED BY <2>1, <2>2 DEF OutputsInv
<1> QED BY <1>1, <1>2

\* The invariant of the outputs under keymaps.
THEOREM OutputsInvariant == Spec => []OutputsInv
<1>1. Init => OutputsInv
  <2> SUFFICES ASSUME Init PROVE OutputsInv
    OBVIOUS
  <2>1. {} \in ValidKeymaps /\ ModifiersOff \in ModifierState
    BY KeymapsAssumption DEF ModifiersOff, ModifierState
  <2>2. /\ Blank.line \in [Lines -> Levels]
        /\ Blank = [next |-> Blank.next, shadow |-> Blank.shadow, line |-> Blank.line,
                    device |-> Blank.device, function |-> Blank.function]
    BY DEF Blank, Levels
  <2>3. Kept(SetupOutputs({}, virtual_init(Blank), ModifiersOff), {}, SetupModifiers({}, ModifiersOff))
    BY <2>1, <2>2, SetupKeeps
  <2> QED BY <2>3 DEF Init, OutputsInv
<1>2. SwitchInv /\ OutputsInv /\ [Next]_vars => OutputsInv'
  <2> SUFFICES ASSUME SwitchInv, OutputsInv, [Next]_vars PROVE OutputsInv'
    OBVIOUS
  <2>1. current_keyboard_index \in ValidKeymaps
    BY DEF SwitchInv, SwitchTypeOK
  <2>2. CASE ApplyKey
    <3>1. PICK k \in Remaining : activate_action(Code(k), <<Head(calls) \ {k}>> \o Tail(calls))
      BY <2>2 DEF ApplyKey, ApplyAndGoOn
    <3>2. k \in Scanned
      BY DEF Remaining
    <3> QED BY <2>1, <3>1, <3>2, ScannedCode, ActivateKeeps
  <2>3. CASE EndSwitch
    <3>1. /\ outputs' = virtual_sync(outputs) /\ modifiers' = modifiers
          /\ current_keyboard_index' = current_keyboard_index
      BY <2>3 DEF EndSwitch
    <3>2. outputs \in GoodOutputs
      BY DEF OutputsInv, Kept, Fit
    <3> DEFINE p == virtual_sync(outputs)
    <3>3. /\ p \in GoodOutputs
          /\ p.next = outputs.next /\ p.device = outputs.device
          /\ p.function = outputs.function /\ p.shadow = outputs.shadow
      BY <3>2, GoodSync, PhysicalAssumption, VirtualAssumption
    <3> HIDE DEF p
    <3>4. \A v : Devs(p, v) = Devs(outputs, v)
      BY <3>3 DEF Devs
    <3>5. Fit(p, current_keyboard_index)
      BY <3>3, <3>4 DEF OutputsInv, Kept, Fit
    <3>6. Kept(p, current_keyboard_index, modifiers)
      BY <3>3, <3>4, <3>5, OthersKeep DEF OutputsInv, Kept
    <3> QED BY <3>1, <3>6 DEF OutputsInv, p
  <2>4. ASSUME NEW k \in Keys, KeyDown(k) PROVE OutputsInv'
    <3>1. activate_key(Code(k)) /\ Code(k) \notin Leds
      BY <2>1, <2>4, ScannedCode DEF KeyDown
    <3>2. CASE activate_action(Code(k), <<>>)
      BY <2>1, <3>1, <3>2, ActivateKeeps
    <3>3. CASE UNCHANGED boardVars
      BY <3>3 DEF OutputsInv, boardVars
    <3> QED BY <3>1, <3>2, <3>3 DEF activate_key
  <2>5. ASSUME NEW k \in Keys, KeyUp(k) PROVE OutputsInv'
    <3> DEFINE code == Code(k)
    <3>1. deactivate_action(code)
      BY <2>5 DEF KeyUp
    <3> HIDE DEF code
    <3>2. CASE code \in MapSelects
      BY <2>1, <3>1, <3>2, SelectKeeps DEF deactivate_action, map_select_clear
    <3>3. CASE code \notin MapSelects
      <4>1. /\ current_keyboard_index' = current_keyboard_index
            /\ modifiers' = ReleaseModifiers(modifiers, code)
            /\ outputs' = IF code = "SHIFT" THEN ShiftLed(outputs, ReleaseModifiers(modifiers, code))
                          ELSE outputs
        BY <3>1, <3>3 DEF deactivate_action
      <4> QED BY <2>1, <4>1, ReleaseKeeps DEF OutputsInv
    <3> QED BY <3>2, <3>3
  <2>6. CASE UNCHANGED vars
    BY <2>6 DEF OutputsInv, vars, boardVars
  <2> QED BY <2>2, <2>3, <2>4, <2>5, <2>6 DEF Next, Switch
<1> QED BY <1>1, <1>2, SwitchInvariant, PTL DEF Spec

\* A switch leaves nothing of keymaps before: every output has the devices and
\* the function of its keymap, pulses end where they began, and the devices of
\* an output that toggles do so together.
THEOREM OutputsFit == Spec => []OutputsFitKeymap
<1>1. SwitchInv /\ OutputsInv => OutputsFitKeymap
  <2> SUFFICES ASSUME SwitchInv, OutputsInv PROVE OutputsFitKeymap
    OBVIOUS
  <2>1. Fit(outputs, current_keyboard_index) /\ current_keyboard_index \in ValidKeymaps
    BY DEF SwitchInv, SwitchTypeOK, OutputsInv, Kept
  <2>2. \A v \in VirtualDevices :
          /\ List(outputs.next, outputs.device[v]) = FreshLists[current_keyboard_index][v]
          /\ Devs(outputs, v) = Nodes(FreshLists[current_keyboard_index][v])
    BY <2>1 DEF Fit, FreshLists, Devs
  <2> QED BY <2>1, <2>2 DEF Fit, OutputsFitKeymap
<1> QED BY <1>1, SwitchInvariant, OutputsInvariant, PTL

\* No LED of a lock is lit when its lock is off, and that of CAPS is lit when
\* it is on in a keymap that turned it on.
THEOREM LedsAreTruthful == Spec => []LedsTruthful
<1>1. OutputsInv => LedsTruthful
  BY DEF OutputsInv, Kept, Lamps, ShownOn, Devs, LedsTruthful, Shows
<1> QED BY <1>1, OutputsInvariant, PTL

-----------------------------------------------------------------------------
(* Hooks, and the types of all variables.                                  *)

HookMaps == [HookIds -> HookFunctions]

\* A hook has the function it had or one of those that are assigned.
OfThese(map, hooks, list) ==
  \A id \in HookIds : hooks[id] = map[id] \/ \E n \in DOMAIN list : list[n][2] = hooks[id]

LEMMA AssignHooksFacts ==
  ASSUME NEW map \in HookMaps, NEW list \in Seq(HookIds \X HookFunctions)
  PROVE  AssignHooks(map, list) \in HookMaps /\ OfThese(map, AssignHooks(map, list), list)
<1> DEFINE N == Len(list)
           Step(hooks, a) == hook_assign(hooks, a[1], a[2])
           round == [n \in 1..N |-> [hooks \in HookMaps |-> Step(hooks, list[n])]]
           Body(f) == [n \in 0..N |-> IF n = 0 THEN map ELSE Step(f[n - 1], list[n])]
           after == CHOOSE f : f = Body(f)
<1>1. N \in Nat /\ DOMAIN list = 1..N /\ \A n \in 1..N : list[n] \in HookIds \X HookFunctions
  OBVIOUS
<1>2. ASSUME NEW hooks \in HookMaps, NEW n \in 1..N
      PROVE  /\ Step(hooks, list[n]) \in HookMaps
             /\ \A id \in HookIds : \/ Step(hooks, list[n])[id] = hooks[id]
                                    \/ Step(hooks, list[n])[id] = list[n][2]
  <2>1. list[n][2] \in HookFunctions
    BY <1>1
  <2>2. \/ Step(hooks, list[n]) = hooks
        \/ list[n][1] \in HookIds /\ Step(hooks, list[n]) = [hooks EXCEPT ![list[n][1]] = list[n][2]]
    BY DEF hook_assign, valid_id
  <2> HIDE DEF Step
  <2> QED BY <2>1, <2>2 DEF HookMaps
<1> HIDE DEF N, Step
<1>3. round \in [1..N -> [HookMaps -> HookMaps]]
  BY <1>2
<1>4. \E f : f = Body(f)
  <2>1. PICK f : Solves(f, N, HookMaps, map, round)
    <3> HIDE DEF round
    <3> QED BY <1>1, <1>3, Recursion
  <2>2. ASSUME NEW n \in 1..N PROVE f[n] = Step(f[n - 1], list[n])
    <3>1. f[n - 1] \in HookMaps
      BY <1>1, <2>1 DEF Solves
    <3>2. f[n] = round[n][f[n - 1]]
      BY <2>1 DEF Solves
    <3> QED BY <3>1, <3>2
  <2>3. f = Body(f)
    <3> HIDE DEF round
    <3> QED BY <2>1, <2>2, <1>1 DEF Solves
  <2> HIDE DEF Body
  <2> QED BY <2>3
<1>5. after = Body(after)
  <2> HIDE DEF Body
  <2> QED BY <1>4
<1>6. AssignHooks(map, list) = after[N]
  BY DEF AssignHooks, Each, N, Step
<1> HIDE DEF after
<1>7. after[0] = map /\ \A n \in 1..N : after[n] = Step(after[n - 1], list[n])
  BY <1>1, <1>5
<1> DEFINE Good == {n \in 0..N : after[n] \in HookMaps /\ OfThese(map, after[n], list)}
<1>8. 0 \in Good
  BY <1>1, <1>7 DEF OfThese
<1>9. ASSUME NEW n \in 1..N, n - 1 \in Good PROVE n \in Good
  <2>1. after[n - 1] \in HookMaps /\ OfThese(map, after[n - 1], list) /\ n \in 0..N
    BY <1>1, <1>9
  <2>2. after[n] = Step(after[n - 1], list[n])
    BY <1>7
  <2>3. after[n] \in HookMaps
    BY <1>2, <2>1, <2>2
  <2>4. ASSUME NEW id \in HookIds
        PROVE  after[n][id] = map[id] \/ \E k \in DOMAIN list : list[k][2] = after[n][id]
    <3>1. after[n][id] = after[n - 1][id] \/ after[n][id] = list[n][2]
      BY <1>2, <2>1, <2>2
    <3>2. n \in DOMAIN list
      BY <1>1
    <3> QED BY <2>1, <3>1, <3>2 DEF OfThese
  <2> QED BY <2>1, <2>3, <2>4 DEF OfThese
<1>10. 0..N \subseteq Good
  <2> HIDE DEF Good
  <2> QED BY <1>1, <1>8, <1>9, Rounds
<1> QED BY <1>1, <1>6, <1>10

\* The hooks that actions run are those of users, which hook_init leaves empty.
LEMMA SetupHooksFacts ==
  ASSUME NEW i \in ValidKeymaps
  PROVE  /\ SetupHooks(i, hook_init) \in HookMaps
         /\ \A code \in DOMAIN HookOf :
              LET func == hook_execute(SetupHooks(i, hook_init), HookOf[code]) IN
              func = null_func \/ \E n \in DOMAIN Setup[i].hooks : Setup[i].hooks[n][2] = func
<1> DEFINE list == Setup[i].hooks
           map == SetupHooks(i, hook_init)
<1>1. hook_init \in HookMaps
  <2>1. hook_init = [id \in HookIds |-> hook_init[id]]
    BY DEF hook_init
  <2> QED BY <2>1 DEF HookMaps, HookFunctions
<1>2. list \in Seq(HookIds \X HookFunctions)
  <2>1. list \in Seq(HookIds \X STRING)
    BY KeymapsAssumption
  <2>2. ASSUME NEW n \in 1..Len(list) PROVE list[n] \in HookIds \X HookFunctions
    <3>1. list[n][2] \in HookFunctions
      BY <2>1 DEF HookFunctions
    <3>2. list[n] \in HookIds \X STRING
      <4> HIDE DEF list
      <4> QED BY <2>1
    <3> QED BY <3>1, <3>2
  <2> HIDE DEF list
  <2> QED BY <2>1, <2>2
<1>3. map \in HookMaps /\ OfThese(hook_init, map, list)
  BY <1>1, <1>2, AssignHooksFacts DEF SetupHooks
<1> HIDE DEF map
<1>4. ASSUME NEW code \in DOMAIN HookOf
      PROVE  HookOf[code] \in HookIds /\ hook_init[HookOf[code]] = null_func
  BY DEF HookOf, HookIds, hook_init, DefaultHooks
<1>5. ASSUME NEW code \in DOMAIN HookOf
      PROVE  LET func == hook_execute(map, HookOf[code]) IN
             func = null_func \/ \E n \in DOMAIN list : list[n][2] = func
  <2> DEFINE id == HookOf[code]
  <2>1. id \in HookIds /\ hook_init[id] = null_func
    BY <1>4
  <2> HIDE DEF id
  <2>2. map[id] = null_func \/ \E n \in DOMAIN list : list[n][2] = map[id]
    BY <1>3, <2>1 DEF OfThese
  <2>3. hook_execute(map, id) = map[id]
    BY <2>1 DEF hook_execute, hook_get, valid_id
  <2> QED BY <2>2, <2>3 DEF id
<1> QED BY <1>3, <1>5 DEF map

\* A step that changes the keymap sets its hooks up and runs none.
LEMMA SelectHooks ==
  ASSUME HooksFitKeymap, NEW i, NEW rest, keymaps_select(i, rest), ran' = null_func
  PROVE  HooksFitKeymap'
<1>1. CASE keymaps_switch(i, rest)
  BY <1>1 DEF keymaps_switch, HooksFitKeymap, SetupHooks
<1>2. CASE UNCHANGED boardVars
  BY <1>2 DEF HooksFitKeymap, boardVars
<1> QED BY <1>1, <1>2 DEF keymaps_select

LEMMA ActivateHooks ==
  ASSUME HooksFitKeymap, current_keyboard_index \in ValidKeymaps,
         NEW code, NEW rest, activate_action(code, rest)
  PROVE  HooksFitKeymap'
<1>1. CASE code \in MapSelects
  BY <1>1, SelectHooks DEF activate_action, map_select_set
<1>2. CASE code \notin MapSelects
  <2>1. /\ current_keyboard_index' = current_keyboard_index /\ hook_map' = hook_map
        /\ ran' = IF code \in DOMAIN HookOf THEN hook_execute(hook_map, HookOf[code]) ELSE null_func
    BY <1>2 DEF activate_action
  <2>2. hook_map = SetupHooks(current_keyboard_index, hook_init)
    BY DEF HooksFitKeymap, SetupHooks
  <2>3. ran' = null_func \/ \E n \in DOMAIN Setup[current_keyboard_index].hooks :
                               Setup[current_keyboard_index].hooks[n][2] = ran'
    <3>1. CASE code \in DOMAIN HookOf
      BY <2>1, <2>2, <3>1, SetupHooksFacts
    <3> QED BY <2>1, <3>1
  <2> QED BY <2>1, <2>3 DEF HooksFitKeymap
<1> QED BY <1>1, <1>2

\* No hook of a keymap before is there, or runs, under another.
THEOREM HooksFit == Spec => []HooksFitKeymap
<1>1. Init => HooksFitKeymap
  BY DEF Init, HooksFitKeymap, SetupHooks
<1>2. SwitchInv /\ HooksFitKeymap /\ [Next]_vars => HooksFitKeymap'
  <2> SUFFICES ASSUME SwitchInv, HooksFitKeymap, [Next]_vars PROVE HooksFitKeymap'
    OBVIOUS
  <2>1. current_keyboard_index \in ValidKeymaps
    BY DEF SwitchInv, SwitchTypeOK
  <2>2. CASE ApplyKey
    BY <2>1, <2>2, ActivateHooks DEF ApplyKey, ApplyAndGoOn
  <2>3. CASE EndSwitch
    BY <2>3 DEF EndSwitch, HooksFitKeymap
  <2>4. ASSUME NEW k \in Keys, KeyDown(k) PROVE HooksFitKeymap'
    <3>1. CASE activate_action(Code(k), <<>>)
      BY <2>1, <3>1, ActivateHooks
    <3>2. CASE ran' = null_func /\ UNCHANGED boardVars
      BY <3>2 DEF HooksFitKeymap, boardVars
    <3> QED BY <2>4, <3>1, <3>2 DEF KeyDown, activate_key
  <2>5. ASSUME NEW k \in Keys, KeyUp(k) PROVE HooksFitKeymap'
    <3>1. ran' = null_func /\ deactivate_action(Code(k))
      BY <2>5 DEF KeyUp
    <3>2. CASE Code(k) \in MapSelects
      BY <3>1, <3>2, SelectHooks DEF deactivate_action, map_select_clear
    <3>3. CASE Code(k) \notin MapSelects
      BY <3>1, <3>3 DEF deactivate_action, HooksFitKeymap
    <3> QED BY <3>2, <3>3
  <2>6. CASE UNCHANGED vars
    BY <2>6 DEF HooksFitKeymap, vars, boardVars
  <2> QED BY <2>2, <2>3, <2>4, <2>5, <2>6 DEF Next, Switch
<1> QED BY <1>1, <1>2, SwitchInvariant, PTL DEF Spec

\* The strobe has one of its two polarities.
StrobeOK == strobe \in {"POSITIVE", "NEGATIVE"}

LEMMA StrobeInvariant == Spec => []StrobeOK
<1>1. Init => StrobeOK
  BY KeymapsAssumption DEF Init, StrobeOK
<1>2. StrobeOK /\ [Next]_vars => StrobeOK'
  <2>1. \A i, rest : StrobeOK /\ keymaps_select(i, rest) => StrobeOK'
    BY KeymapsAssumption DEF StrobeOK, keymaps_select, keymaps_switch, boardVars
  <2>2. \A code, rest : StrobeOK /\ activate_action(code, rest) => StrobeOK'
    BY <2>1 DEF StrobeOK, activate_action, map_select_set
  <2>3. \A code : StrobeOK /\ activate_key(code) => StrobeOK'
    BY <2>2 DEF StrobeOK, activate_key, boardVars
  <2>4. \A code : StrobeOK /\ deactivate_action(code) => StrobeOK'
    BY <2>1 DEF StrobeOK, deactivate_action, map_select_clear
  <2>5. StrobeOK /\ UNCHANGED vars => StrobeOK'
    BY DEF StrobeOK, vars, boardVars
  <2>6. StrobeOK /\ EndSwitch => StrobeOK'
    BY DEF StrobeOK, EndSwitch
  <2>7. StrobeOK /\ ApplyKey => StrobeOK'
    BY <2>2 DEF ApplyKey, ApplyAndGoOn
  <2>8. \A k : StrobeOK /\ (KeyDown(k) \/ KeyUp(k)) => StrobeOK'
    BY <2>3, <2>4 DEF KeyDown, KeyUp
  <2> QED BY <2>5, <2>6, <2>7, <2>8 DEF Next, Switch
<1> QED BY <1>1, <1>2, PTL DEF Spec

\* Every variable has its type; the links and heads of all lists are devices of
\* the table, and only keys that are down are left to re-apply.
THEOREM TypesHold == Spec => []TypeOK
<1>1. SwitchInv /\ OutputsInv /\ HooksFitKeymap /\ StrobeOK => TypeOK
  <2> SUFFICES ASSUME SwitchInv, OutputsInv, HooksFitKeymap, StrobeOK PROVE TypeOK
    OBVIOUS
  <2>1. /\ current_keyboard_index \in ValidKeymaps /\ held \in SUBSET Keys
        /\ calls \in Seq(SUBSET held)
    BY DEF SwitchInv, SwitchTypeOK
  <2>2. modifiers \in ModifierState /\ outputs \in OutputsState
    BY DEF OutputsInv, Kept, Fit, GoodOutputs
  <2>3. hook_map \in [HookIds -> HookFunctions]
    BY <2>1, SetupHooksFacts DEF HooksFitKeymap, SetupHooks, HookMaps
  <2>4. ran \in HookFunctions
    <3>1. null_func \in HookFunctions
      <4>1. "USER_1" \in HookIds /\ hook_init["USER_1"] = null_func
        BY DEF HookIds, hook_init, DefaultHooks
      <4> QED BY <4>1 DEF HookFunctions
    <3>2. \A n \in DOMAIN Setup[current_keyboard_index].hooks :
            Setup[current_keyboard_index].hooks[n][2] \in HookFunctions
      BY <2>1 DEF HookFunctions
    <3> QED BY <3>1, <3>2 DEF HooksFitKeymap
  <2>5. /\ outputs.next \in [Resources -> Resources]
        /\ outputs.shadow \in [Resources -> Values]
        /\ outputs.line \in [Lines -> Levels]
        /\ outputs.device \in [VirtualDevices -> Resources]
        /\ outputs.function \in [VirtualDevices -> VirtualFunctions]
    BY <2>2 DEF OutputsState
  <2> QED BY <2>1, <2>2, <2>3, <2>4, <2>5 DEF TypeOK, StrobeOK
<1> QED BY <1>1, SwitchInvariant, OutputsInvariant, HooksFit, StrobeInvariant, PTL

-----------------------------------------------------------------------------
(* Switches come to an end.                                                *)

\* The steps that the loops on the stack have still to make.
LoopSteps(stack) == Each(LAMBDA n, keys : n + Cardinality(keys) + 1, 0, stack)

Counted(after, stack) ==
  /\ after[0] = 0
  /\ \A n \in 1..Len(stack) : after[n] = after[n - 1] + Cardinality(stack[n]) + 1
  /\ \A n \in 0..Len(stack) : after[n] \in Nat
  /\ LoopSteps(stack) = after[Len(stack)]

LEMMA LoopRounds ==
  ASSUME NEW stack \in Seq(SUBSET Keys)
  PROVE  \E after : Counted(after, stack)
<1> DEFINE N == Len(stack)
           Step(n, keys) == n + Cardinality(keys) + 1
           round == [n \in 1..N |-> [m \in Nat |-> Step(m, stack[n])]]
           Body(f) == [n \in 0..N |-> IF n = 0 THEN 0 ELSE Step(f[n - 1], stack[n])]
           after == CHOOSE f : f = Body(f)
<1>1. N \in Nat /\ \A n \in 1..N : stack[n] \in SUBSET Keys
  OBVIOUS
<1>2. ASSUME NEW m \in Nat, NEW n \in 1..N PROVE Step(m, stack[n]) \in Nat
  <2>1. IsFiniteSet(stack[n])
    BY <1>1, KeymapsAssumption, FS_Subset
  <2>2. Cardinality(stack[n]) \in Nat
    BY <2>1, FS_CardinalityType
  <2> QED BY <2>2
<1> HIDE DEF N, Step
<1>3. round \in [1..N -> [Nat -> Nat]]
  BY <1>2
<1>4. \E f : f = Body(f)
  <2>1. PICK f : Solves(f, N, Nat, 0, round)
    <3> HIDE DEF round
    <3> QED BY <1>1, <1>3, Recursion
  <2>2. ASSUME NEW n \in 1..N PROVE f[n] = Step(f[n - 1], stack[n])
    <3>1. f[n - 1] \in Nat
      BY <1>1, <2>1 DEF Solves
    <3>2. f[n] = round[n][f[n - 1]]
      BY <2>1 DEF Solves
    <3> QED BY <3>1, <3>2
  <2>3. f = Body(f)
    <3> HIDE DEF round
    <3> QED BY <2>1, <2>2, <1>1 DEF Solves
  <2> HIDE DEF Body
  <2> QED BY <2>3
<1>5. after = Body(after)
  <2> HIDE DEF Body
  <2> QED BY <1>4
<1>6. LoopSteps(stack) = after[N]
  BY DEF LoopSteps, Each, N, Step
<1> HIDE DEF after
<1>7. after[0] = 0 /\ \A n \in 1..N : after[n] = Step(after[n - 1], stack[n])
  BY <1>1, <1>5
<1> DEFINE Good == {n \in 0..N : after[n] \in Nat}
<1>8. 0 \in Good
  BY <1>1, <1>7
<1>9. ASSUME NEW n \in 1..N, n - 1 \in Good PROVE n \in Good
  BY <1>1, <1>2, <1>7, <1>9
<1>10. 0..N \subseteq Good
  <2> HIDE DEF Good
  <2> QED BY <1>1, <1>8, <1>9, Rounds
<1>11. Counted(after, stack)
  BY <1>6, <1>7, <1>10 DEF Counted, N, Step
<1> QED BY <1>11

\* A loop has a step for each key and one to end.
LEMMA LoopStepsOnTop ==
  ASSUME NEW top \in SUBSET Keys, NEW stack \in Seq(SUBSET Keys)
  PROVE  /\ LoopSteps(<<top>> \o stack) = LoopSteps(stack) + Cardinality(top) + 1
         /\ LoopSteps(stack) \in Nat /\ Cardinality(top) \in Nat
<1> DEFINE more == <<top>> \o stack
           N == Len(stack)
<1>1. /\ more \in Seq(SUBSET Keys) /\ Len(more) = N + 1 /\ N \in Nat
      /\ more[1] = top /\ \A n \in 1..N : more[n + 1] = stack[n]
  OBVIOUS
<1> HIDE DEF more
<1>2. PICK below : Counted(below, stack)
  BY LoopRounds
<1>3. PICK all : Counted(all, more)
  BY <1>1, LoopRounds
<1>4. Cardinality(top) \in Nat
  BY KeymapsAssumption, FS_Subset, FS_CardinalityType
<1>5. \A n \in 1..N : stack[n] \in SUBSET Keys /\ Cardinality(stack[n]) \in Nat
  <2>1. \A n \in 1..N : stack[n] \in SUBSET Keys
    OBVIOUS
  <2>2. \A n \in 1..N : IsFiniteSet(stack[n])
    BY <2>1, KeymapsAssumption, FS_Subset
  <2> QED BY <2>1, <2>2, FS_CardinalityType
<1> HIDE DEF N
<1> DEFINE c == Cardinality(top)
           Good == {n \in 0..N : all[n + 1] = below[n] + c + 1}
<1>6. 0 \in Good
  <2>1. all[1] = all[0] + c + 1 /\ all[0] = 0 /\ below[0] = 0
    <3>1. 1 \in 1..Len(more) /\ 1 - 1 = 0
      BY <1>1
    <3> QED BY <1>1, <1>2, <1>3, <3>1 DEF Counted
  <2> QED BY <1>1, <1>4, <2>1
<1>7. ASSUME NEW n \in 1..N, n - 1 \in Good PROVE n \in Good
  <2>1. n \in Nat /\ (n - 1) + 1 = n /\ (n + 1) - 1 = n /\ n - 1 \in 0..N /\ n \in 0..N
    BY <1>1
  <2>2. all[n] = below[n - 1] + c + 1
    BY <1>7, <2>1
  <2>3. all[n + 1] = all[n] + Cardinality(stack[n]) + 1
    <3>1. n + 1 \in 1..Len(more) /\ more[n + 1] = stack[n]
      BY <1>1
    <3> QED BY <1>3, <2>1, <3>1 DEF Counted
  <2>4. below[n] = below[n - 1] + Cardinality(stack[n]) + 1 /\ below[n - 1] \in Nat
    BY <1>2, <2>1 DEF Counted, N
  <2>5. all[n + 1] = below[n] + c + 1
    BY <1>4, <1>5, <2>2, <2>3, <2>4
  <2> QED BY <2>1, <2>5
<1>8. 0..N \subseteq Good
  <2> HIDE DEF Good
  <2> QED BY <1>1, <1>6, <1>7, Rounds
<1>9. all[N + 1] = below[N] + c + 1 /\ below[N] \in Nat
  BY <1>1, <1>2, <1>8 DEF Counted, N
<1>10. LoopSteps(more) = all[N + 1] /\ LoopSteps(stack) = below[N]
  BY <1>1, <1>2, <1>3 DEF Counted, N
<1> QED BY <1>4, <1>9, <1>10 DEF more

LEMMA LessByOne ==
  ASSUME NEW a \in Int, NEW b \in Int
  PROVE  (a - 1) * b = a * b - b /\ a * b \in Int
OBVIOUS

\* Every step of a switch brings its end closer: a switch within it adds to the
\* index a bit that stays, which is worth more than the loop it starts.
THEOREM SwitchesEnd == Spec => SwitchEnds
<1>1. SwitchInv /\ [Next]_vars => [~Idle => StepsLeft' < StepsLeft]_vars
  <2> SUFFICES ASSUME SwitchInv, Next, ~Idle PROVE StepsLeft' < StepsLeft
    OBVIOUS
  <2> DEFINE bits == Cardinality(Bits)
             worth == Cardinality(Keys) + 2
             index == Cardinality(current_keyboard_index)
  <2>1. /\ current_keyboard_index \in ValidKeymaps /\ held \subseteq Keys
        /\ calls \in Seq(SUBSET Keys) /\ calls # <<>>
        /\ Head(calls) \in SUBSET Keys /\ Tail(calls) \in Seq(SUBSET Keys)
        /\ calls = <<Head(calls)>> \o Tail(calls)
    <3>1. /\ current_keyboard_index \in ValidKeymaps /\ held \subseteq Keys
          /\ calls \in Seq(SUBSET held) /\ calls # <<>>
      BY DEF SwitchInv, SwitchTypeOK, Idle
    <3>2. calls \in Seq(SUBSET Keys)
      BY <3>1
    <3> QED BY <3>1, <3>2
  <2>2. bits \in Nat /\ worth \in Nat /\ index \in Nat
    BY <2>1, BitsFinite, KeymapsAssumption, FS_CardinalityType
  <2>3. /\ StepsLeft = LoopSteps(calls) + (bits - index) * worth
        /\ StepsLeft' = LoopSteps(calls') + (bits - Cardinality(current_keyboard_index')) * worth
    BY DEF StepsLeft, LoopSteps, Each
  <2>4. /\ LoopSteps(calls) = LoopSteps(Tail(calls)) + Cardinality(Head(calls)) + 1
        /\ LoopSteps(Tail(calls)) \in Nat /\ Cardinality(Head(calls)) \in Nat
    BY <2>1, LoopStepsOnTop
  <2>5. (bits - index) * worth \in Int
    BY <2>2, LessByOne
  <2>6. CASE EndSwitch
    <3>1. calls' = Tail(calls) /\ current_keyboard_index' = current_keyboard_index
      BY <2>6 DEF EndSwitch
    <3> HIDE DEF bits, worth, index
    <3>2. StepsLeft' = LoopSteps(Tail(calls)) + (bits - index) * worth
      BY <2>3, <3>1 DEF index
    <3> QED BY <2>3, <2>4, <2>5, <3>2
  <2>7. CASE ApplyKey
    <3>1. PICK k \in Remaining : activate_action(Code(k), <<Head(calls) \ {k}>> \o Tail(calls))
      BY <2>7 DEF ApplyKey, ApplyAndGoOn
    <3> DEFINE left == Head(calls) \ {k}
               rest == <<left>> \o Tail(calls)
    <3>2. held' = held
      BY <2>7 DEF ApplyKey
    <3>3. left \in SUBSET Keys /\ rest \in Seq(SUBSET Keys) /\ Cardinality(left) = Cardinality(Head(calls)) - 1
      <4>1. k \in Head(calls) /\ IsFiniteSet(Head(calls))
        BY <2>1, KeymapsAssumption, FS_Subset DEF Remaining
      <4>2. Cardinality(left) = Cardinality(Head(calls)) - 1
        BY <4>1, FS_RemoveElement
      <4>3. left \in SUBSET Keys
        BY <2>1
      <4> HIDE DEF left
      <4> QED BY <2>1, <4>2, <4>3
    <3>4. LoopSteps(rest) = LoopSteps(calls) - 1 /\ LoopSteps(rest) \in Nat
      <4>1. LoopSteps(rest) = LoopSteps(Tail(calls)) + Cardinality(left) + 1
        BY <2>1, <3>3, LoopStepsOnTop
      <4>2. Cardinality(left) \in Nat
        BY <2>1, <3>3, LoopStepsOnTop
      <4> HIDE DEF rest, left
      <4> QED BY <2>4, <3>3, <4>1, <4>2
    <3> HIDE DEF rest, left
    <3>5. CASE calls' = rest /\ current_keyboard_index' = current_keyboard_index
      <4> HIDE DEF bits, worth, index
      <4>1. StepsLeft' = LoopSteps(rest) + (bits - index) * worth
        BY <2>3, <3>5 DEF index
      <4> QED BY <2>3, <2>4, <2>5, <3>4, <4>1
    <3>6. CASE Code(k) \in MapSelects
      <4> DEFINE b == MapBit[Code(k)]
                 i == current_keyboard_index \union {b}
      <4>1. keymaps_select(i, rest)
        BY <3>1, <3>6 DEF activate_action, map_select_set, rest, left
      <4>2. CASE /\ i # current_keyboard_index /\ i \in ValidKeymaps
                 /\ current_keyboard_index' = i /\ calls' = <<held'>> \o rest
        <5>1. Cardinality(i) = index + 1
          BY <2>1, <4>2, BitsFinite, FS_AddElement
        <5>2. /\ LoopSteps(calls') = LoopSteps(rest) + Cardinality(held) + 1
              /\ Cardinality(held) \in Nat
          BY <2>1, <3>2, <3>3, <4>2, LoopStepsOnTop
        <5>3. Cardinality(held) <= worth - 2
          <6>1. IsFiniteSet(Keys)
            BY KeymapsAssumption
          <6>2. /\ Cardinality(held) \in Nat /\ Cardinality(Keys) \in Nat
                /\ Cardinality(held) <= Cardinality(Keys)
            BY <2>1, <6>1, FS_Subset, FS_CardinalityType
          <6> QED BY <6>2
        <5>4. (bits - Cardinality(i)) * worth = (bits - index) * worth - worth
          <6>1. bits - Cardinality(i) = (bits - index) - 1
            BY <2>2, <5>1
          <6>2. bits - index \in Int /\ worth \in Int
            BY <2>2
          <6> HIDE DEF bits, worth, index
          <6>3. ((bits - index) - 1) * worth = (bits - index) * worth - worth
            BY <6>2, LessByOne
          <6> QED BY <6>1, <6>3
        <5> HIDE DEF bits, worth, index, i
        <5>5. StepsLeft' = LoopSteps(calls') + ((bits - index) * worth - worth)
          BY <2>3, <4>2, <5>4
        <5> QED BY <2>2, <2>3, <2>4, <2>5, <3>4, <5>2, <5>3, <5>5
      <4>3. CASE calls' = rest /\ current_keyboard_index' = current_keyboard_index
        BY <3>5, <4>3
      <4> QED BY <4>1, <4>2, <4>3, SelectEffect
    <3>7. CASE Code(k) \notin MapSelects
      <4>1. calls' = rest /\ current_keyboard_index' = current_keyboard_index
        BY <3>1, <3>7 DEF activate_action, rest, left
      <4> QED BY <3>5, <4>1
    <3> QED BY <3>6, <3>7
  <2>8. ASSUME NEW k \in Keys, KeyDown(k) \/ KeyUp(k) PROVE FALSE
    BY <2>8 DEF KeyDown, KeyUp
  <2> QED BY <2>6, <2>7, <2>8 DEF Next, Switch
<1> QED BY <1>1, SwitchInvariant, PTL DEF Spec, SwitchEnds
=============================================================================
