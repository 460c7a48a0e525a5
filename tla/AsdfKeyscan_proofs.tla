------------------------- MODULE AsdfKeyscan_proofs -------------------------
(***************************************************************************)
(* Proofs about AsdfKeyscan for every keymap, matrix, debounce time, queue *)
(* size and repeat time: its invariants, and that it implements Typing;    *)
(* and about AsdfKeyscanTiming: keys are pressed and released neither      *)
(* early nor late, whatever their contacts do, repeats keep their          *)
(* distance, and a queue with room for a code of every key is enough.      *)
(***************************************************************************)
EXTENDS AsdfKeyscanTiming, AsdfModifiers_proofs, WellFoundedInduction, SequenceTheorems,
        FiniteSetTheorems, TLAPS

-----------------------------------------------------------------------------
(* The operators the model is built from.                                  *)

\* A set of naturals has a smallest element (the column whose turn it is).
LEMMA Smallest ==
  ASSUME NEW S \in SUBSET Nat, S # {}
  PROVE  \E c \in S : \A d \in S : c <= d
<1> DEFINE R == OpToRel(<, Nat)
<1>1. \A x, y \in Nat : x < y => <<x, y>> \in R
  BY DEF OpToRel
<1>2. IsWellFoundedOn(R, Nat)
  BY NatLessThanWellFounded
<1> HIDE DEF R
<1>3. PICK c \in S : \A d \in S : ~ (<<d, c>> \in R)
  BY <1>2, WFMin
<1>4. \A d \in S : ~ (d < c)
  BY <1>1, <1>3
<1>5. \A d \in S : c <= d
  BY <1>4, SMT
<1> QED
  BY <1>5

\* What RepeatTimerFits says of one state of the repeat timer.
Fits(r) ==
  /\ r \in RepeatState
  /\ r.base # REPEAT_ON /\ r.state \in {REPEAT_ON, r.base}
  /\ r.timer = 0 <=> r.state = REPEAT_OFF
  /\ r.timer <= r.state

\* The timer fits its state after every operation on it, and only the REPEAT
\* key turns REPEAT on or off.
LEMMA RepeatFacts ==
  ASSUME NEW r, Fits(r), NEW a
  PROVE  /\ Fits(PressRepeat(r, a)) /\ Fits(ReleaseRepeat(r, a))
         /\ PressRepeat(r, a).state = REPEAT_ON
              => r.state = REPEAT_ON \/ a = "REPEAT"
         /\ ReleaseRepeat(r, a).state = REPEAT_ON
              => r.state = REPEAT_ON /\ a # "REPEAT"
         /\ Fits(repeat_reset_count(r)) /\ repeat_reset_count(r).state = r.state
         /\ Fits(asdf_repeat(r)) /\ asdf_repeat(r).state = r.state
<1> USE RepeatAssumption DEF Fits, RepeatState, RepeatStates, REPEAT_OFF
<1>1. Fits(repeat_reset_count(r)) /\ repeat_reset_count(r).state = r.state
  BY DEF repeat_reset_count
<1>2. Fits(asdf_repeat(r)) /\ asdf_repeat(r).state = r.state
  BY DEF asdf_repeat
<1>3. ASSUME NEW x \in {REPEAT_ON, r.base}
      PROVE  LET q == [r EXCEPT !.state = x, !.timer = x]
             IN  Fits(q) /\ q.state = x
  <2> DEFINE q == [r EXCEPT !.state = x, !.timer = x]
  <2>a. x \in RepeatStates /\ x \in 0..REPEAT_AUTO
    BY SMT
  <2>1. /\ q \in RepeatState
        /\ q.state = x /\ q.timer = x /\ q.base = r.base
    <3> HIDE DEF RepeatStates
    <3> QED
      BY <2>a, Zenon
  <2> HIDE DEF q
  <2>2. Fits(q) /\ q.state = x
    BY <2>1
  <2> QED
    BY <2>2 DEF q
<1>4. Fits(repeat_activate(r))
  BY <1>3 DEF repeat_activate
<1>10. Fits(repeat_deactivate(r)) /\ repeat_deactivate(r).state # REPEAT_ON
  <2> HIDE DEF Fits
  <2>1. r.base # REPEAT_ON
    BY DEF Fits
  <2> QED
    BY <1>3, <2>1 DEF repeat_deactivate
<1>5. /\ Fits(repeat_auto_on(r))
      /\ repeat_auto_on(r).state = REPEAT_ON => r.state = REPEAT_ON
  BY DEF repeat_auto_on, WithBase
<1>6. /\ Fits(repeat_auto_off(r))
      /\ repeat_auto_off(r).state = REPEAT_ON => r.state = REPEAT_ON
  BY DEF repeat_auto_off, WithBase
<1> HIDE DEF Fits
<1>7. CASE a = "REPEAT"
  BY <1>1, <1>2, <1>4, <1>10, <1>7 DEF PressRepeat, ReleaseRepeat
<1>8. CASE a = "AUTOREPEAT_SELECT"
  BY <1>1, <1>2, <1>5, <1>6, <1>8 DEF PressRepeat, ReleaseRepeat
<1>9. CASE a \notin {"REPEAT", "AUTOREPEAT_SELECT"}
  BY <1>1, <1>2, <1>9 DEF PressRepeat, ReleaseRepeat
<1> QED
  BY <1>7, <1>8, <1>9

-----------------------------------------------------------------------------
(* The inductive invariant.  The properties need each other only through   *)
(* TypeOK and TurnsPending, which make the key whose turn it is a key.     *)

IInv ==
  /\ TypeOK /\ TurnsPending
  /\ NoStuckModifier /\ ModifierWhileHeld
  /\ NoStuckRepeat /\ RepeatTimerFits

\* The column whose turn it is is one of those left, of a row being scanned.
LEMMA CurrentIsKey ==
  ASSUME TypeOK, TurnsPending, cols_left # {}
  PROVE  /\ row \in Rows /\ Current \in Keys
         /\ Current[1] = row /\ Current[2] \in cols_left
<1>1. row \in Rows
  BY KeyscanAssumption DEF TypeOK, TurnsPending, BetweenScans, Rows
<1>2. cols_left \subseteq Cols /\ Cols \subseteq Nat
  BY KeyscanAssumption DEF TypeOK, Cols
<1>3. \E c \in cols_left : \A d \in cols_left : c <= d
  BY <1>2, Smallest
<1> DEFINE c == CHOOSE c \in cols_left : \A d \in cols_left : c <= d
<1>4. c \in cols_left
  BY <1>3
<1>5. Current = <<row, c>>
  BY DEF Current
<1> HIDE DEF c
<1> QED
  BY <1>1, <1>2, <1>4, <1>5 DEF Keys

\* Every key has a code under every state of the modifiers.
LEMMA CodeType ==
  ASSUME TypeOK, NEW key \in Keys
  PROVE  lookup_keycode(key) \in Actions \union Sendable
<1>1. modifier_index(modifiers) \in ModifierMaps
  BY IndexType DEF TypeOK
<1> QED
  BY <1>1, KeyscanAssumption DEF lookup_keycode

\* asdf_put_code keeps the queue a queue of codes no longer than its buffer.
LEMMA QueueType ==
  ASSUME TypeOK, NEW code \in Sendable, put_code(code)
  PROVE  /\ asdf_keycode_buffer' \in Seq(Sendable)
         /\ Len(asdf_keycode_buffer') <= BufferSize
BY KeyscanAssumption DEF TypeOK, put_code

\* The characters that wait are a number, no larger than their buffer.
LEMMA MessageType ==
  ASSUME TypeOK, Next PROVE asdf_message_buffer' \in 0..MessageSize
<1>1. asdf_message_buffer \in 0..MessageSize /\ MessageSize \in Nat
  BY KeyscanAssumption DEF TypeOK
<1>2. CASE KeyPress
  <2>1. PICK code : activate_key(code)
    BY <1>2 DEF KeyPress
  <2> QED
    BY <1>1, <2>1 DEF activate_key, asdf_print
<1>3. CASE KeyRelease
  BY <1>1, <1>3 DEF KeyRelease, deactivate_key
<1>4. CASE Tick
  BY <1>1, <1>4 DEF Tick, asdf_next_code
<1>5. CASE KeySettles \/ KeyHeld \/ KeyRepeats \/ NextRow \/ EndScan
  BY <1>1, <1>5 DEF KeySettles, KeyHeld, KeyRepeats, NextRow, EndScan, codeVars
<1> QED
  BY <1>2, <1>3, <1>4, <1>5 DEF Next, HandleKey

\* What the press of a debounced key does to everything but the key's state.
LEMMA ActivateFacts ==
  ASSUME TypeOK, RepeatTimerFits,
         NEW code \in Actions \union Sendable, activate_key(code)
  PROVE  /\ last_key' \in Sendable /\ modifiers' \in ModifierState
         /\ asdf_keycode_buffer' \in Seq(Sendable)
         /\ Len(asdf_keycode_buffer') <= BufferSize
         /\ Fits(repeat')
         /\ "ON" \in modifiers'.shift
              <=> "ON" \in modifiers.shift \/ code = "SHIFT"
         /\ modifiers'.ctrl <=> modifiers.ctrl \/ code = "CTRL"
         /\ repeat'.state = REPEAT_ON
              => repeat.state = REPEAT_ON \/ code = "REPEAT"
<1>1. Fits(repeat) /\ modifiers \in ModifierState
  BY DEF TypeOK, RepeatTimerFits, Fits
<1>2. CASE code \in Actions
  <2>1. /\ modifiers' = PressModifiers(modifiers, code)
        /\ repeat' = PressRepeat(repeat, code)
        /\ UNCHANGED <<last_key, asdf_keycode_buffer>>
    BY <1>2 DEF activate_key
  <2> QED
    BY <1>1, <2>1, PressModifiersFacts, RepeatFacts DEF TypeOK
<1>3. CASE code \notin Actions
  <2>1. /\ put_code(code) /\ last_key' = code /\ modifiers' = modifiers
        /\ repeat' = repeat_reset_count(repeat) \/ repeat' = repeat
    BY <1>3 DEF activate_key
  <2>2. code \in Sendable /\ code \notin {"SHIFT", "CTRL", "REPEAT"}
    BY <1>3 DEF Actions, KeyActions
  <2>3. Fits(repeat') /\ repeat'.state = repeat.state
    BY <1>1, <2>1, RepeatFacts
  <2> QED
    BY <1>1, <2>1, <2>2, <2>3, QueueType
<1> QED
  BY <1>2, <1>3

\* What the release of a debounced key does to everything but the key's state.
LEMMA DeactivateFacts ==
  ASSUME TypeOK, RepeatTimerFits,
         NEW code \in Actions \union Sendable, deactivate_key(code)
  PROVE  /\ last_key' \in Sendable /\ modifiers' \in ModifierState
         /\ asdf_keycode_buffer' = asdf_keycode_buffer
         /\ Fits(repeat')
         /\ "ON" \in modifiers'.shift
              <=> "ON" \in modifiers.shift /\ code # "SHIFT"
         /\ modifiers'.ctrl <=> modifiers.ctrl /\ code # "CTRL"
         /\ repeat'.state = REPEAT_ON
              => repeat.state = REPEAT_ON /\ code # "REPEAT"
<1>1. Fits(repeat) /\ modifiers \in ModifierState
  BY DEF TypeOK, RepeatTimerFits, Fits
<1>2. CASE code \in Actions
  <2>1. /\ modifiers' = ReleaseModifiers(modifiers, code)
        /\ repeat' = ReleaseRepeat(repeat, code)
        /\ UNCHANGED <<last_key, asdf_keycode_buffer>>
    BY <1>2 DEF deactivate_key
  <2> QED
    BY <1>1, <2>1, ReleaseModifiersFacts, RepeatFacts DEF TypeOK
<1>3. CASE code \notin Actions
  <2>1. /\ last_key' = IF last_key = code THEN NOTHING ELSE last_key
        /\ UNCHANGED <<repeat, modifiers, asdf_keycode_buffer>>
    BY <1>3 DEF deactivate_key
  <2>2. code \notin {"SHIFT", "CTRL", "REPEAT"}
    BY <1>3 DEF Actions, KeyActions
  <2> QED
    BY <1>1, <2>1, <2>2 DEF TypeOK, Sendable
<1> QED
  BY <1>2, <1>3

\* Eight bits hold every count of the debounce counter.
LEMMA DecrementType ==
  ASSUME NEW count \in 1..DEBOUNCE, Decrement(count) # 0
  PROVE  Decrement(count) = count - 1 /\ count - 1 \in 1..DEBOUNCE
BY KeyscanAssumption DEF Decrement

\* A key that is pressed was up, is down afterwards, and no other key changes.
LEMMA PressedKey ==
  ASSUME IInv, KeyPress
  PROVE  /\ Current \in Keys /\ ~Stable(Current)
         /\ last_stable_key_state' \in [Rows -> SUBSET Cols]
         /\ \A key \in Keys : Stable(key)' <=> Stable(key) \/ key = Current
<1>1. /\ TypeOK /\ cols_left # {}
      /\ Pressed(Current) /\ Changed(Current)
      /\ last_stable_key_state' =
           [last_stable_key_state EXCEPT ![row] = @ \union {Current[2]}]
  BY DEF IInv, KeyPress, Debounced, RunsOut
<1>2. /\ row \in Rows /\ Current \in Keys /\ Current[1] = row
  BY <1>1, CurrentIsKey DEF IInv
<1> DEFINE c == Current
<1>3. c \in Keys /\ c[1] = row
  BY <1>2
<1>4. /\ last_stable_key_state \in [Rows -> SUBSET Cols]
      /\ last_stable_key_state' =
           [last_stable_key_state EXCEPT ![row] = @ \union {c[2]}]
  BY <1>1 DEF TypeOK
<1> HIDE DEF c
<1>5. last_stable_key_state' \in [Rows -> SUBSET Cols]
  BY <1>2, <1>3, <1>4 DEF Keys
<1>6. \A key \in Keys : Stable(key)' <=> Stable(key) \/ key = c
  BY <1>2, <1>3, <1>4 DEF Keys, Stable
<1>7. ~Stable(Current)
  BY <1>1 DEF Changed, Pressed, Stable
<1> QED
  BY <1>2, <1>5, <1>6, <1>7 DEF c

\* A key that is released was down, is up afterwards, and no other key changes.
LEMMA ReleasedKey ==
  ASSUME IInv, KeyRelease
  PROVE  /\ Current \in Keys /\ Stable(Current)
         /\ last_stable_key_state' \in [Rows -> SUBSET Cols]
         /\ \A key \in Keys : Stable(key)' <=> Stable(key) /\ key # Current
<1>1. /\ TypeOK /\ cols_left # {}
      /\ ~Pressed(Current) /\ Changed(Current)
      /\ last_stable_key_state' =
           [last_stable_key_state EXCEPT ![row] = @ \ {Current[2]}]
  BY DEF IInv, KeyRelease, Debounced, RunsOut
<1>2. /\ row \in Rows /\ Current \in Keys /\ Current[1] = row
  BY <1>1, CurrentIsKey DEF IInv
<1> DEFINE c == Current
<1>3. c \in Keys /\ c[1] = row
  BY <1>2
<1>4. /\ last_stable_key_state \in [Rows -> SUBSET Cols]
      /\ last_stable_key_state' =
           [last_stable_key_state EXCEPT ![row] = @ \ {c[2]}]
  BY <1>1 DEF TypeOK
<1> HIDE DEF c
<1>5. last_stable_key_state' \in [Rows -> SUBSET Cols]
  BY <1>2, <1>3, <1>4 DEF Keys
<1>6. \A key \in Keys : Stable(key)' <=> Stable(key) /\ key # c
  BY <1>2, <1>3, <1>4 DEF Keys, Stable
<1>7. Stable(Current)
  BY <1>1 DEF Changed, Pressed, Stable
<1> QED
  BY <1>2, <1>5, <1>6, <1>7 DEF c

\* The turn of a key leaves only columns that still need a turn.
LEMMA TurnKept ==
  ASSUME IInv, cols_left # {}, Turn,
         last_stable_key_state' \in [Rows -> SUBSET Cols],
         \A key \in Keys : key # Current => (Stable(key)' <=> Stable(key))
  PROVE  /\ TurnsPending'
         /\ row' \in 0..NumRows /\ row_key_state' \in SUBSET Cols
         /\ cols_left' \in SUBSET Cols
<1>1. /\ row \in Rows /\ Current[1] = row /\ Current[2] \in cols_left
  BY CurrentIsKey DEF IInv
<1> DEFINE c == Current
<1>2. cols_left' = cols_left \ {c[2]} /\ UNCHANGED <<row, row_key_state>>
  BY DEF Turn
<1>3. /\ row \in 0..NumRows /\ row # NumRows
      /\ row_key_state \in SUBSET Cols /\ cols_left \in SUBSET Cols
      /\ cols_left \subseteq row_key_state \union last_stable_key_state[row]
  BY <1>1, KeyscanAssumption DEF IInv, TypeOK, TurnsPending, BetweenScans, Rows
<1>4. \A col \in Cols : col # c[2] =>
        (col \in last_stable_key_state'[row] <=> col \in last_stable_key_state[row])
  <2> SUFFICES ASSUME NEW col \in Cols, col # c[2]
               PROVE  col \in last_stable_key_state'[row]
                        <=> col \in last_stable_key_state[row]
    OBVIOUS
  <2>1. PICK key \in Keys : key = <<row, col>>
    BY <1>1 DEF Keys
  <2>2. Stable(key)' <=> Stable(key)
    BY <2>1
  <2> QED
    BY <1>2, <2>1, <2>2 DEF Stable
<1> HIDE DEF c
<1> QED
  BY <1>2, <1>3, <1>4 DEF TurnsPending, BetweenScans

\* The keys that are bound to an action under every modifier have its code.
LEMMA FixedCode ==
  ASSUME TypeOK, NEW key \in Keys, NEW action
  PROVE  /\ key \in Fixed(action) => lookup_keycode(key) = action
         /\ lookup_keycode(key) = action => key \in Bound(action)
<1>1. modifier_index(modifiers) \in ModifierMaps
  BY IndexType DEF TypeOK
<1> QED
  BY <1>1 DEF lookup_keycode, Fixed, Bound

\* asdf_init starts with no key down and everything off.
LEMMA InitInv == Init => IInv
<1> SUFFICES ASSUME Init PROVE IInv
  OBVIOUS
<1> USE KeyscanAssumption, RepeatAssumption DEF Init
<1>1. TypeOK
  <2>1. repeat \in RepeatState
    BY DEF repeat_init, RepeatState, RepeatStates
  <2>2. modifiers \in ModifierState
    BY DEF ModifiersOff, ModifierState
  <2>3. debounce_counters \in [Keys -> 1..DEBOUNCE]
    OBVIOUS
  <2>4. last_stable_key_state \in [Rows -> SUBSET Cols]
    OBVIOUS
  <2> QED
    BY <2>1, <2>2, <2>3, <2>4 DEF TypeOK, Sendable
<1>2. RepeatTimerFits /\ NoStuckRepeat
  BY DEF RepeatTimerFits, NoStuckRepeat, repeat_init, REPEAT_OFF
<1>3. "ON" \notin modifiers.shift /\ ~modifiers.ctrl
  BY DEF ModifiersOff
<1>4. \A key \in Keys : ~Stable(key)
  BY DEF Stable, Keys
<1> QED
  BY <1>1, <1>2, <1>3, <1>4
  DEF IInv, NoStuckModifier, ModifierWhileHeld, TurnsPending, BetweenScans

\* The press of a debounced key.  A modifier it turns on is held by that key,
\* the others by the keys that held them before.
LEMMA PressInv == ASSUME IInv, KeyPress PROVE IInv'
<1> DEFINE code == lookup_keycode(Current)
<1>1. /\ Current \in Keys
      /\ last_stable_key_state' \in [Rows -> SUBSET Cols]
      /\ \A key \in Keys : Stable(key)' <=> Stable(key) \/ key = Current
  BY PressedKey
<1>2. /\ TypeOK /\ RepeatTimerFits /\ cols_left # {} /\ Turn
      /\ activate_key(code)
      /\ debounce_counters' = [debounce_counters EXCEPT ![Current] = DEBOUNCE]
  BY DEF IInv, KeyPress, Debounced, RunsOut
<1>3. code \in Actions \union Sendable
  BY <1>1, <1>2, CodeType
<1> HIDE DEF code
<1>4. /\ last_key' \in Sendable /\ modifiers' \in ModifierState
      /\ asdf_keycode_buffer' \in Seq(Sendable)
      /\ Len(asdf_keycode_buffer') <= BufferSize
      /\ Fits(repeat')
      /\ "ON" \in modifiers'.shift
           <=> "ON" \in modifiers.shift \/ code = "SHIFT"
      /\ modifiers'.ctrl <=> modifiers.ctrl \/ code = "CTRL"
      /\ repeat'.state = REPEAT_ON => repeat.state = REPEAT_ON \/ code = "REPEAT"
  BY <1>2, <1>3, ActivateFacts
<1>5. /\ TurnsPending'
      /\ row' \in 0..NumRows /\ row_key_state' \in SUBSET Cols
      /\ cols_left' \in SUBSET Cols
  BY <1>1, <1>2, TurnKept
<1>6. TypeOK'
  <2>1. asdf_message_buffer' \in 0..MessageSize
    BY <1>2, MessageType DEF Next, HandleKey
  <2> QED
    BY <1>1, <1>2, <1>4, <1>5, <2>1, KeyscanAssumption DEF TypeOK, Fits
<1>7. \A action : code = action /\ AllFixed(action) => HeldDown(action)'
  BY <1>1, <1>2, FixedCode DEF AllFixed, HeldDown, Fixed, code
<1>8. \A action : HeldDown(action) => HeldDown(action)'
  BY <1>1 DEF HeldDown, Fixed
<1>9. NoStuckModifier' /\ NoStuckRepeat'
  BY <1>4, <1>7, <1>8 DEF IInv, NoStuckModifier, NoStuckRepeat
<1>10. ModifierWhileHeld'
  <2>1. \A key \in Keys : \A action :
          /\ Bound(action) = {key} /\ AllFixed(action) /\ Stable(key)'
            => Stable(key) \/ code = action
    BY <1>1, <1>2, FixedCode DEF AllFixed, code
  <2> QED
    BY <1>4, <2>1 DEF IInv, ModifierWhileHeld
<1>11. RepeatTimerFits'
  BY <1>4 DEF RepeatTimerFits, Fits
<1> QED
  BY <1>5, <1>6, <1>9, <1>10, <1>11 DEF IInv

\* The release of a debounced key.  What stays on is held by another key.
LEMMA ReleaseInv == ASSUME IInv, KeyRelease PROVE IInv'
<1> DEFINE code == lookup_keycode(Current)
<1>1. /\ Current \in Keys
      /\ last_stable_key_state' \in [Rows -> SUBSET Cols]
      /\ \A key \in Keys : Stable(key)' <=> Stable(key) /\ key # Current
  BY ReleasedKey
<1>2. /\ TypeOK /\ RepeatTimerFits /\ cols_left # {} /\ Turn
      /\ deactivate_key(code)
      /\ debounce_counters' = [debounce_counters EXCEPT ![Current] = DEBOUNCE]
  BY DEF IInv, KeyRelease, Debounced, RunsOut
<1>3. code \in Actions \union Sendable
  BY <1>1, <1>2, CodeType
<1> HIDE DEF code
<1>4. /\ last_key' \in Sendable /\ modifiers' \in ModifierState
      /\ asdf_keycode_buffer' = asdf_keycode_buffer
      /\ Fits(repeat')
      /\ "ON" \in modifiers'.shift
           <=> "ON" \in modifiers.shift /\ code # "SHIFT"
      /\ modifiers'.ctrl <=> modifiers.ctrl /\ code # "CTRL"
      /\ repeat'.state = REPEAT_ON => repeat.state = REPEAT_ON /\ code # "REPEAT"
  BY <1>2, <1>3, DeactivateFacts
<1>5. /\ TurnsPending'
      /\ row' \in 0..NumRows /\ row_key_state' \in SUBSET Cols
      /\ cols_left' \in SUBSET Cols
  BY <1>1, <1>2, TurnKept
<1>6. TypeOK'
  <2>1. asdf_message_buffer' \in 0..MessageSize
    BY <1>2, MessageType DEF Next, HandleKey
  <2> QED
    BY <1>1, <1>2, <1>4, <1>5, <2>1, KeyscanAssumption DEF TypeOK, Fits
<1>7. \A action : HeldDown(action) /\ code # action => HeldDown(action)'
  BY <1>1, <1>2, FixedCode DEF HeldDown, Fixed, code
<1>8. NoStuckModifier' /\ NoStuckRepeat'
  BY <1>4, <1>7 DEF IInv, NoStuckModifier, NoStuckRepeat
<1>9. ModifierWhileHeld'
  <2>1. \A key \in Keys : \A action :
          Bound(action) = {key} /\ Stable(key)' => Stable(key) /\ code # action
    BY <1>1, <1>2, FixedCode DEF code
  <2> QED
    BY <1>4, <2>1 DEF IInv, ModifierWhileHeld
<1>10. RepeatTimerFits'
  BY <1>4 DEF RepeatTimerFits, Fits
<1> QED
  BY <1>5, <1>6, <1>8, <1>9, <1>10 DEF IInv

\* Where no key and no modifier changes, and REPEAT neither, only the types
\* and the repeat timer are left to check.
LEMMA SameKeysInv ==
  ASSUME IInv, TypeOK', TurnsPending', Fits(repeat'),
         repeat'.state = repeat.state,
         UNCHANGED <<last_stable_key_state, modifiers>>
  PROVE  IInv'
<1>1. \A key \in Keys : Stable(key)' <=> Stable(key)
  BY DEF Stable
<1>2. \A action : HeldDown(action)' <=> HeldDown(action)
  BY <1>1 DEF HeldDown, Fixed
<1>3. NoStuckModifier' /\ NoStuckRepeat' /\ ModifierWhileHeld'
  BY <1>1, <1>2
  DEF IInv, NoStuckModifier, NoStuckRepeat, ModifierWhileHeld
<1>4. RepeatTimerFits'
  BY DEF RepeatTimerFits, Fits
<1> QED
  BY <1>3, <1>4 DEF IInv

\* A key that is still debouncing only counts.
LEMMA SettlesInv == ASSUME IInv, KeySettles PROVE IInv'
<1>1. /\ TypeOK /\ cols_left # {} /\ Turn
      /\ Decrement(debounce_counters[Current]) # 0
      /\ debounce_counters' =
           [debounce_counters EXCEPT ![Current] = Decrement(@)]
      /\ UNCHANGED <<last_stable_key_state, last_key, repeat, modifiers,
                     asdf_keycode_buffer>>
  BY DEF IInv, KeySettles, codeVars
<1>2. Current \in Keys
  BY <1>1, CurrentIsKey DEF IInv
<1>3. Decrement(debounce_counters[Current]) \in 1..DEBOUNCE
  BY <1>1, <1>2, DecrementType DEF TypeOK
<1>4. debounce_counters' \in [Keys -> 1..DEBOUNCE]
  BY <1>1, <1>3 DEF TypeOK
<1>5. /\ TurnsPending'
      /\ row' \in 0..NumRows /\ row_key_state' \in SUBSET Cols
      /\ cols_left' \in SUBSET Cols
  <2>1. /\ last_stable_key_state' \in [Rows -> SUBSET Cols]
        /\ \A key \in Keys : Stable(key)' <=> Stable(key)
    BY <1>1 DEF TypeOK, Stable
  <2> QED
    BY <1>1, <2>1, TurnKept
<1>6. TypeOK'
  <2>1. asdf_message_buffer' \in 0..MessageSize
    BY <1>1, MessageType DEF Next, HandleKey
  <2> QED
    BY <1>1, <1>4, <1>5, <2>1 DEF TypeOK
<1>7. Fits(repeat') /\ repeat'.state = repeat.state
  BY <1>1 DEF IInv, TypeOK, RepeatTimerFits, Fits
<1> QED
  BY <1>1, <1>5, <1>6, <1>7, SameKeysInv

\* A key that is held runs the repeat timer, and may queue the code again.
LEMMA HeldInv == ASSUME IInv, KeyHeld \/ KeyRepeats PROVE IInv'
<1>1. /\ TypeOK /\ cols_left # {} /\ Turn
      /\ UNCHANGED <<keyVars, last_key, modifiers>>
      /\ repeat' = asdf_repeat(repeat) \/ repeat' = repeat
      /\ asdf_keycode_buffer' = asdf_keycode_buffer \/ put_code(last_key)
  BY DEF IInv, KeyHeld, KeyRepeats
<1>2. /\ TurnsPending'
      /\ row' \in 0..NumRows /\ row_key_state' \in SUBSET Cols
      /\ cols_left' \in SUBSET Cols
  <2>1. /\ last_stable_key_state' \in [Rows -> SUBSET Cols]
        /\ \A key \in Keys : Stable(key)' <=> Stable(key)
    BY <1>1 DEF TypeOK, Stable, keyVars
  <2> QED
    BY <1>1, <2>1, TurnKept
<1>3. /\ asdf_keycode_buffer' \in Seq(Sendable)
      /\ Len(asdf_keycode_buffer') <= BufferSize
  <2>1. last_key \in Sendable
    BY <1>1 DEF TypeOK
  <2>2. CASE put_code(last_key)
    BY <1>1, <2>1, <2>2, QueueType
  <2>3. CASE asdf_keycode_buffer' = asdf_keycode_buffer
    BY <1>1, <2>3 DEF TypeOK
  <2> QED
    BY <1>1, <2>2, <2>3
<1>4. Fits(repeat)
  BY DEF IInv, TypeOK, RepeatTimerFits, Fits
<1>5. Fits(repeat') /\ repeat'.state = repeat.state
  BY <1>1, <1>4, RepeatFacts
<1>6. TypeOK'
  <2>1. asdf_message_buffer' \in 0..MessageSize
    BY <1>1, MessageType DEF Next, HandleKey
  <2> QED
    BY <1>1, <1>2, <1>3, <1>5, <2>1 DEF TypeOK, keyVars, Fits
<1> QED
  BY <1>1, <1>2, <1>5, <1>6, SameKeysInv DEF keyVars

\* Reading a row, and the end of the scan, change no key.
LEMMA ScanInv == ASSUME IInv, Tick \/ NextRow \/ EndScan PROVE IInv'
<1>1. TypeOK /\ Fits(repeat)
  BY DEF IInv, TypeOK, RepeatTimerFits, Fits
<1>2. /\ UNCHANGED <<keyVars, last_key, repeat, modifiers>>
      /\ \/ asdf_keycode_buffer' = asdf_keycode_buffer
         \/ /\ asdf_keycode_buffer # <<>>
            /\ asdf_keycode_buffer' = Tail(asdf_keycode_buffer)
  BY DEF Tick, asdf_next_code, NextRow, EndScan, codeVars
<1>3. /\ asdf_keycode_buffer' \in Seq(Sendable)
      /\ Len(asdf_keycode_buffer') <= BufferSize
  BY <1>1, <1>2, KeyscanAssumption DEF TypeOK
<1>4. /\ row' \in 0..NumRows
      /\ row_key_state' \in SUBSET Cols /\ cols_left' \in SUBSET Cols
      /\ TurnsPending'
  <2>1. ASSUME NEW r \in Rows, ReadRow(r),
               last_stable_key_state' = last_stable_key_state
        PROVE  /\ row' \in 0..NumRows
               /\ row_key_state' \in SUBSET Cols /\ cols_left' \in SUBSET Cols
               /\ TurnsPending'
    <3>1. r \in 0..NumRows /\ r # NumRows
      BY KeyscanAssumption DEF Rows
    <3> QED
      BY <1>1, <2>1, <3>1 DEF ReadRow, TypeOK, TurnsPending, BetweenScans
  <2>2. CASE Tick
    <3>1. 0 \in Rows
      BY KeyscanAssumption DEF Rows
    <3> QED
      BY <1>2, <2>1, <2>2, <3>1 DEF Tick, keyVars
  <2>3. CASE NextRow
    <3>1. row + 1 \in Rows
      BY <1>1, <2>3, KeyscanAssumption DEF NextRow, TypeOK, Rows
    <3> QED
      BY <1>2, <2>1, <2>3, <3>1 DEF NextRow, keyVars
  <2>4. CASE EndScan
    BY <1>1, <2>4, KeyscanAssumption
    DEF EndScan, TypeOK, TurnsPending, BetweenScans
  <2> QED
    BY <2>2, <2>3, <2>4
<1>5. TypeOK'
  <2>1. asdf_message_buffer' \in 0..MessageSize
    BY <1>1, MessageType DEF Next
  <2> QED
    BY <1>1, <1>2, <1>3, <1>4, <2>1 DEF TypeOK, keyVars
<1> QED
  BY <1>1, <1>2, <1>4, <1>5, SameKeysInv DEF keyVars

-----------------------------------------------------------------------------
(* The theorems.                                                           *)

\* Every step of the loop keeps the invariant.
LEMMA StepInv == ASSUME IInv, [Next]_vars PROVE IInv'
<1>1. CASE Tick \/ NextRow \/ EndScan
  BY <1>1, ScanInv
<1>2. CASE KeySettles
  BY <1>2, SettlesInv
<1>3. CASE KeyPress
  BY <1>3, PressInv
<1>4. CASE KeyRelease
  BY <1>4, ReleaseInv
<1>5. CASE KeyHeld \/ KeyRepeats
  BY <1>5, HeldInv
<1>6. CASE UNCHANGED vars
  <2> USE <1>6 DEF vars, keyVars, codeVars, scanVars
  <2>1. TypeOK' /\ TurnsPending'
    BY DEF IInv, TypeOK, TurnsPending, BetweenScans
  <2>2. Fits(repeat') /\ repeat'.state = repeat.state
    BY DEF IInv, TypeOK, RepeatTimerFits, Fits
  <2> QED
    BY <2>1, <2>2, SameKeysInv
<1> QED
  BY <1>1, <1>2, <1>3, <1>4, <1>5, <1>6 DEF Next, HandleKey

\* The inductive invariant holds in every state of the key scanner.
THEOREM KeyscanInvariant == Spec => []IInv
<1>1. Init => IInv
  BY InitInv
<1>2. IInv /\ [Next]_vars => IInv'
  BY StepInv
<1> QED
  BY <1>1, <1>2, PTL DEF Spec

\* Every variable keeps its type, and the queue never outgrows its buffer.
THEOREM TypeCorrect == Spec => []TypeOK
BY KeyscanInvariant, PTL DEF IInv

\* Under no keymap that binds SHIFT and CTRL to the same keys everywhere can
\* one stick without a key that holds it.
THEOREM ModifiersNeverStick == Spec => []NoStuckModifier
BY KeyscanInvariant, PTL DEF IInv

\* A modifier with one key is on for as long as the key is down.
THEOREM ModifiersStayOn == Spec => []ModifierWhileHeld
BY KeyscanInvariant, PTL DEF IInv

\* Under no keymap that binds REPEAT to the same keys everywhere can it stick.
THEOREM RepeatNeverSticks == Spec => []NoStuckRepeat
BY KeyscanInvariant, PTL DEF IInv

\* For every repeat time and delay the repeat timer fits its state.
THEOREM RepeatTimerAlwaysFits == Spec => []RepeatTimerFits
BY KeyscanInvariant, PTL DEF IInv

-----------------------------------------------------------------------------
(* AsdfKeyscan implements Typing.                                          *)

Down == {key \in Keys : Stable(key)}

\* Typing has its own copies of the operators of AsdfModifiers.
LEMMA SameOperators ==
  /\ Promise!ModifiersOff = ModifiersOff
  /\ \A m : Promise!modifier_index(m) = modifier_index(m)
  /\ \A m, a : /\ Promise!PressModifiers(m, a) = PressModifiers(m, a)
               /\ Promise!ReleaseModifiers(m, a) = ReleaseModifiers(m, a)
<1>1. Promise!ModifiersOff = ModifiersOff
  BY DEF Promise!ModifiersOff, ModifiersOff
<1>2. \A m : Promise!modifier_index(m) = modifier_index(m)
  BY Zenon DEF Promise!modifier_index, modifier_index, Promise!modifier_mapping, modifier_mapping
<1>3. \A m, a : Promise!PressModifiers(m, a) = PressModifiers(m, a)
  BY Zenon
  DEF Promise!PressModifiers, Promise!shift_activate,
      Promise!shiftlock_on_activate, Promise!shiftlock_toggle_activate,
      Promise!capslock_activate, Promise!ctrl_activate,
      PressModifiers, shift_activate, shiftlock_on_activate,
      shiftlock_toggle_activate, capslock_activate, ctrl_activate
<1>4. \A m, a : Promise!ReleaseModifiers(m, a) = ReleaseModifiers(m, a)
  BY Zenon
  DEF Promise!ReleaseModifiers, Promise!shift_deactivate,
      Promise!ctrl_deactivate, ReleaseModifiers, shift_deactivate,
      ctrl_deactivate
<1> QED
  BY <1>1, <1>2, <1>3, <1>4

\* A key is handled as held only when it is down.
LEMMA HeldIsDown ==
  ASSUME IInv, cols_left # {}, ~Changed(Current)
  PROVE  Current \in Keys /\ Stable(Current)
<1>1. /\ row \in Rows /\ Current \in Keys
      /\ Current[1] = row /\ Current[2] \in cols_left
  BY CurrentIsKey DEF IInv
<1>2. cols_left \subseteq row_key_state \union last_stable_key_state[row]
  BY <1>1, KeyscanAssumption DEF IInv, TurnsPending, BetweenScans, Rows
<1>3. Pressed(Current) \/ Stable(Current)
  BY <1>1, <1>2 DEF Pressed, Stable
<1> QED
  BY <1>1, <1>3 DEF Changed

\* The press of a debounced key is a press of Typing.
LEMMA PressPromised == ASSUME IInv, KeyPress PROVE Promise!Press(Current)
<1>1. /\ Current \in Keys /\ ~Stable(Current)
      /\ \A key \in Keys : Stable(key)' <=> Stable(key) \/ key = Current
  BY PressedKey
<1>2. Current \notin Down /\ Down' = Down \union {Current}
  BY <1>1 DEF Down
<1>3. activate_key(lookup_keycode(Current))
  BY DEF KeyPress
<1> QED
  BY <1>2, <1>3, SameOperators
  DEF Promise!Press, Promise!Meaning, Promise!Enqueue, Down, activate_key,
      put_code, lookup_keycode

\* The release of a debounced key is a release of Typing.
LEMMA ReleasePromised == ASSUME IInv, KeyRelease PROVE Promise!Release(Current)
<1>1. /\ Current \in Keys /\ Stable(Current)
      /\ \A key \in Keys : Stable(key)' <=> Stable(key) /\ key # Current
  BY ReleasedKey
<1>2. Current \in Down /\ Down' = Down \ {Current}
  BY <1>1 DEF Down
<1>3. deactivate_key(lookup_keycode(Current))
  BY DEF KeyRelease
<1> QED
  BY <1>2, <1>3, SameOperators
  DEF Promise!Release, Promise!Meaning, Down, deactivate_key, lookup_keycode

\* A timeout of the repeat timer is a repeat of Typing: the key is down and
\* means the code typed last, which is no action.
LEMMA RepeatPromised == ASSUME IInv, KeyRepeats PROVE Promise!Repeat(Current)
<1>1. /\ cols_left # {} /\ ~Changed(Current) /\ Repeats
      /\ put_code(last_key)
      /\ UNCHANGED <<last_stable_key_state, last_key, modifiers>>
  BY DEF KeyRepeats, keyVars
<1>2. Current \in Down
  BY <1>1, HeldIsDown DEF Down
<1>3. Down' = Down
  BY <1>1 DEF Down, Stable
<1>4. last_key \notin Actions
  BY KeyscanAssumption DEF IInv, TypeOK
<1> QED
  BY <1>1, <1>2, <1>3, <1>4, SameOperators
  DEF Promise!Repeat, Promise!Meaning, Promise!Enqueue, Down, put_code,
      Repeats, lookup_keycode

\* Every step of the scan is a step of Typing or a stutter.
LEMMA StepPromised ==
  ASSUME IInv, [Next]_vars PROVE [Promise!Next]_(Promise!vars)
<1> DEFINE stutter == UNCHANGED <<last_stable_key_state, modifiers, last_key,
                                  asdf_keycode_buffer>>
<1>1. ASSUME UNCHANGED <<last_stable_key_state>> PROVE Down' = Down
  BY <1>1 DEF Down, Stable
<1>2. ASSUME stutter PROVE UNCHANGED Promise!vars
  BY <1>1, <1>2 DEF Promise!vars, Down
<1>3. CASE Tick
  <2>1. CASE asdf_keycode_buffer' = asdf_keycode_buffer
    BY <1>2, <1>3, <2>1 DEF Tick, keyVars
  <2>2. CASE asdf_keycode_buffer' # asdf_keycode_buffer
    <3>1. Promise!Take
      BY <1>1, <1>3, <2>2 DEF Tick, asdf_next_code, keyVars, Promise!Take, Down
    <3> QED
      BY <3>1 DEF Promise!Next
  <2> QED
    BY <2>1, <2>2
<1>4. CASE NextRow \/ EndScan \/ KeySettles \/ KeyHeld \/ UNCHANGED vars
  BY <1>2, <1>4
  DEF NextRow, EndScan, KeySettles, KeyHeld, vars, keyVars, codeVars
<1>5. CASE KeyPress
  <2>1. Current \in Keys /\ Promise!Press(Current)
    BY <1>5, PressedKey, PressPromised
  <2> QED
    BY <2>1 DEF Promise!Next
<1>6. CASE KeyRelease
  <2>1. Current \in Keys /\ Promise!Release(Current)
    BY <1>6, ReleasedKey, ReleasePromised
  <2> QED
    BY <2>1 DEF Promise!Next
<1>7. CASE KeyRepeats
  <2>1. Current \in Keys
    BY <1>7, HeldIsDown DEF KeyRepeats
  <2>2. Promise!Repeat(Current)
    BY <1>7, RepeatPromised
  <2> QED
    BY <2>1, <2>2 DEF Promise!Next
<1> QED
  BY <1>3, <1>4, <1>5, <1>6, <1>7 DEF Next, HandleKey

\* For every matrix, keymap and timing, and every way the contacts bounce, the
\* keyboard keeps what Typing promises.
THEOREM KeyscanImplementsTyping == Spec => KeepsPromise
<1>1. Init => Promise!Init
  <2>1. Init => \A key \in Keys : ~Stable(key)
    BY DEF Init, Stable, Keys
  <2> QED
    BY <2>1, SameOperators DEF Init, Promise!Init
<1>2. IInv /\ [Next]_vars => [Promise!Next]_(Promise!vars)
  BY StepPromised
<1> QED
  BY <1>1, <1>2, KeyscanInvariant, PTL DEF Spec, KeepsPromise, Promise!Spec

-----------------------------------------------------------------------------
(* Timing.  The debounce counter of a key bounds both how long its contact *)
(* has disagreed and how long ago it last changed; the repeat timer bounds *)
(* how long it has been quiet.  Each bound is one scan wider for a key     *)
(* that still has its turn to come in this scan.                           *)

\* The key was read and its turn has not come.
Pends(key) == row = key[1] /\ key[2] \in cols_left

\* The counts of one key that waits for its turn, and of one that had it.
CountsBefore(key) ==
  /\ differs[key] + debounce_counters[key] <= DEBOUNCE + 1
  /\ since[key] = DEBOUNCE \/ since[key] + debounce_counters[key] >= DEBOUNCE + 1
  /\ ~Changed(key) => differs[key] = 0
CountsAfter(key) ==
  /\ differs[key] + debounce_counters[key] <= DEBOUNCE
  /\ since[key] + debounce_counters[key] >= DEBOUNCE

CountsType ==
  /\ since \in [Keys -> 0..DEBOUNCE]
  /\ differs \in [Keys -> 0..DEBOUNCE]

DebounceInv ==
  /\ CountsType
  /\ \A key \in Keys : IF Pends(key) THEN CountsBefore(key) ELSE CountsAfter(key)

-----------------------------------------------------------------------------
(* Debouncing.                                                             *)

\* The counter of a key is a count of scans, and runs out at one.
LEMMA CounterFacts ==
  ASSUME TypeOK, NEW key \in Keys
  PROVE  /\ DEBOUNCE \in Nat /\ debounce_counters[key] \in 1..DEBOUNCE
         /\ Decrement(debounce_counters[key]) = debounce_counters[key] - 1
<1>1. DEBOUNCE \in 1..255 /\ debounce_counters[key] \in 1..DEBOUNCE
  BY KeyscanAssumption DEF TypeOK
<1> QED BY <1>1 DEF Decrement

\* asdf_init: no contact disagrees and every counter is full.
LEMMA DebounceInit == TimedInit => DebounceInv
<1> SUFFICES ASSUME TimedInit PROVE DebounceInv
  OBVIOUS
<1>1. DEBOUNCE \in 1..255 /\ CountsType
  BY KeyscanAssumption DEF TimedInit, CountsType
<1>2. \A key \in Keys : ~Pends(key) /\ CountsAfter(key)
  BY <1>1 DEF TimedInit, Init, Pends, CountsAfter
<1> QED BY <1>1, <1>2 DEF DebounceInv

\* A row is read: its keys are due for their turns, with counts one higher.
LEMMA ReadingKeeps ==
  ASSUME IInv, DebounceInv, NEW r \in Rows, cols_left = {},
         ReadRow(r), Reading(r), UNCHANGED keyVars
  PROVE  DebounceInv'
<1>1. /\ TypeOK /\ DEBOUNCE \in Nat
      /\ since \in [Keys -> 0..DEBOUNCE] /\ differs \in [Keys -> 0..DEBOUNCE]
      /\ last_stable_key_state' = last_stable_key_state
      /\ debounce_counters' = debounce_counters
  BY KeyscanAssumption DEF IInv, DebounceInv, CountsType, keyVars
<1>2. row' = r /\ cols_left' = row_key_state' \union last_stable_key_state[r]
  BY DEF ReadRow
<1>3. CountsType'
  <2>1. \A key \in Keys : AtMost(DEBOUNCE, since[key] + 1) \in 0..DEBOUNCE
    BY <1>1 DEF AtMost
  <2>2. \A key \in Keys : AtMost(DEBOUNCE, differs[key] + 1) \in 0..DEBOUNCE
    BY <1>1 DEF AtMost
  <2>3. since' \in [Keys -> 0..DEBOUNCE]
    BY <1>1, <2>1 DEF Reading
  <2>4. differs' \in [Keys -> 0..DEBOUNCE]
    BY <1>1, <2>2 DEF Reading
  <2> QED BY <2>3, <2>4 DEF CountsType
<1>4. SUFFICES ASSUME NEW key \in Keys
               PROVE  (IF Pends(key) THEN CountsBefore(key) ELSE CountsAfter(key))'
  BY <1>3 DEF DebounceInv
<1>5. /\ DEBOUNCE \in Nat /\ debounce_counters[key] \in 1..DEBOUNCE
      /\ since[key] \in 0..DEBOUNCE /\ differs[key] \in 0..DEBOUNCE
      /\ since'[key] \in 0..DEBOUNCE /\ differs'[key] \in 0..DEBOUNCE
  BY <1>1, <1>3, CounterFacts DEF CountsType
<1>6. CountsAfter(key)
  BY DEF DebounceInv, Pends
<1>7. CASE key[1] # r
  <2>1. since'[key] = since[key] /\ differs'[key] = differs[key] /\ ~Pends(key)'
    BY <1>2, <1>7 DEF Reading, Pends
  <2> QED BY <1>1, <1>6, <2>1 DEF CountsAfter
<1>8. CASE key[1] = r
  <2>1. /\ since'[key] = AtMost(DEBOUNCE, since[key] + 1)
        /\ differs'[key] = IF (key[2] \in row_key_state') = Stable(key) THEN 0
                           ELSE AtMost(DEBOUNCE, differs[key] + 1)
    BY <1>8 DEF Reading
  <2>2. /\ since'[key] = DEBOUNCE \/ since'[key] = since[key] + 1
        /\ differs'[key] <= differs[key] + 1
    BY <1>5, <2>1 DEF AtMost
  <2>3. Pends(key)' <=> key[2] \in row_key_state' \/ Stable(key)
    BY <1>2, <1>8 DEF Pends, Stable
  <2>4. Stable(key)' <=> Stable(key)
    BY <1>1 DEF Stable
  <2>5. ~Changed(key)' \/ ~Pends(key)' => differs'[key] = 0
    BY <2>1, <2>3, <2>4 DEF Changed, Pressed, Stable
  <2>6. CASE Pends(key)'
    BY <1>1, <1>5, <1>6, <2>2, <2>5, <2>6 DEF CountsAfter, CountsBefore
  <2>7. CASE ~Pends(key)'
    <3>1. since'[key] + debounce_counters[key] >= DEBOUNCE
      BY <1>5, <1>6, <2>2 DEF CountsAfter
    <3>2. differs'[key] = 0
      BY <2>5, <2>7
    <3> QED BY <1>1, <1>5, <2>7, <3>1, <3>2 DEF CountsAfter
  <2> QED BY <2>6, <2>7
<1> QED BY <1>7, <1>8

\* The turn of a key disturbs the counts of no other key.
LEMMA TurnKeepsCounts ==
  ASSUME IInv, DebounceInv, cols_left # {}, Turn, CountsType',
         NEW c \in Keys, c = Current, CountsAfter(c)',
         \A key \in Keys : key # c =>
           /\ Stable(key)' <=> Stable(key)
           /\ debounce_counters'[key] = debounce_counters[key]
           /\ since'[key] = since[key] /\ differs'[key] = differs[key]
  PROVE  DebounceInv'
<1>1. /\ row \in Rows /\ c[1] = row /\ c[2] \in cols_left
      /\ cols_left' = cols_left \ {c[2]} /\ UNCHANGED <<row, row_key_state>>
  BY CurrentIsKey DEF IInv, Turn
<1>2. ASSUME NEW key \in Keys
      PROVE  (IF Pends(key) THEN CountsBefore(key) ELSE CountsAfter(key))'
  <2>1. CASE key = c
    <3>1. ~Pends(key)'
      BY <1>1, <2>1 DEF Pends
    <3> QED BY <2>1, <3>1
  <2>2. CASE key # c
    <3>1. ~(key[1] = c[1] /\ key[2] = c[2])
      BY <2>2 DEF Keys
    <3>2. Pends(key)' <=> Pends(key)
      BY <1>1, <3>1 DEF Pends
    <3>3. Changed(key)' <=> Changed(key)
      BY <1>1, <2>2 DEF Changed, Pressed, Stable
    <3>4. IF Pends(key) THEN CountsBefore(key) ELSE CountsAfter(key)
      BY DEF DebounceInv
    <3> QED BY <2>2, <3>2, <3>3, <3>4 DEF CountsBefore, CountsAfter
  <2> QED BY <2>1, <2>2
<1> QED BY <1>2 DEF DebounceInv

\* The key whose turn it is has the counts of one that waits for it.
LEMMA CurrentCounts ==
  ASSUME IInv, DebounceInv, cols_left # {}
  PROVE  /\ Current \in Keys /\ CountsBefore(Current)
         /\ DEBOUNCE \in Nat /\ debounce_counters[Current] \in 1..DEBOUNCE
         /\ since[Current] \in 0..DEBOUNCE /\ differs[Current] \in 0..DEBOUNCE
<1> DEFINE c == Current
<1>1. c \in Keys /\ c[1] = row /\ c[2] \in cols_left
  BY CurrentIsKey DEF IInv
<1> HIDE DEF c
<1>2. Pends(c)
  BY <1>1 DEF Pends
<1>3. CountsBefore(c)
  BY <1>1, <1>2 DEF DebounceInv
<1>4. /\ DEBOUNCE \in Nat /\ debounce_counters[c] \in 1..DEBOUNCE
  BY <1>1, CounterFacts DEF IInv
<1>5. since[c] \in 0..DEBOUNCE /\ differs[c] \in 0..DEBOUNCE
  BY <1>1 DEF DebounceInv, CountsType
<1> QED BY <1>1, <1>3, <1>4, <1>5 DEF c

\* A counter that has not run out goes down with what its contact still owes.
LEMMA SettlingKeeps ==
  ASSUME IInv, DebounceInv, KeySettles, UNCHANGED history PROVE DebounceInv'
<1>1. PICK c \in Keys : c = Current
  BY CurrentCounts DEF KeySettles
<1>2. /\ cols_left # {} /\ Turn /\ Changed(c)
      /\ debounce_counters' = [debounce_counters EXCEPT ![c] = Decrement(@)]
      /\ last_stable_key_state' = last_stable_key_state
      /\ since' = since /\ differs' = differs
  BY <1>1 DEF KeySettles, history
<1>3. /\ CountsBefore(c) /\ DEBOUNCE \in Nat /\ debounce_counters[c] \in 1..DEBOUNCE
      /\ since[c] \in 0..DEBOUNCE /\ differs[c] \in 0..DEBOUNCE
  BY <1>1, <1>2, CurrentCounts
<1>4. Decrement(debounce_counters[c]) = debounce_counters[c] - 1 /\ debounce_counters[c] # 1
  <2>1. Decrement(debounce_counters[c]) = debounce_counters[c] - 1
    BY CounterFacts DEF IInv
  <2>2. Decrement(debounce_counters[c]) # 0
    BY <1>1 DEF KeySettles
  <2> QED BY <1>3, <2>1, <2>2
<1>5. /\ debounce_counters'[c] = debounce_counters[c] - 1
      /\ \A key \in Keys : key # c => debounce_counters'[key] = debounce_counters[key]
  BY <1>2, <1>4 DEF IInv, TypeOK
<1>6. CountsAfter(c)'
  BY <1>2, <1>3, <1>4, <1>5 DEF CountsAfter, CountsBefore
<1>7. CountsType'
  BY <1>2 DEF DebounceInv, CountsType
<1>8. \A key \in Keys : Stable(key)' <=> Stable(key)
  BY <1>2 DEF Stable
<1> QED BY <1>1, <1>2, <1>5, <1>6, <1>7, <1>8, TurnKeepsCounts

\* A key that reads as it is held owes nothing.
LEMMA HoldingKeeps ==
  ASSUME IInv, DebounceInv, KeyHeld \/ KeyRepeats, UNCHANGED <<since, differs>>
  PROVE  DebounceInv'
<1>1. PICK c \in Keys : c = Current
  BY CurrentCounts DEF KeyHeld, KeyRepeats
<1>2. /\ cols_left # {} /\ Turn /\ ~Changed(c)
      /\ UNCHANGED keyVars /\ since' = since /\ differs' = differs
  BY <1>1 DEF KeyHeld, KeyRepeats
<1>3. /\ CountsBefore(c) /\ DEBOUNCE \in Nat /\ debounce_counters[c] \in 1..DEBOUNCE
      /\ since[c] \in 0..DEBOUNCE
  BY <1>1, <1>2, CurrentCounts
<1>4. CountsAfter(c)'
  BY <1>2, <1>3 DEF CountsAfter, CountsBefore, keyVars
<1>5. CountsType'
  BY <1>2 DEF DebounceInv, CountsType
<1>6. \A key \in Keys : Stable(key)' <=> Stable(key)
  BY <1>2 DEF Stable, keyVars
<1> QED BY <1>1, <1>2, <1>4, <1>5, <1>6, TurnKeepsCounts DEF keyVars

\* A key changes when its counter runs out: it last did a period ago.  It
\* starts over with a full counter.
LEMMA ChangeFacts ==
  ASSUME IInv, DebounceInv, TimedChange
  PROVE  /\ DebounceInv' /\ since[Current] >= DEBOUNCE
         /\ \A key \in Keys : key # Current => (Stable(key)' <=> Stable(key))
<1>1. PICK c \in Keys : c = Current
  BY CurrentCounts DEF TimedChange, KeyPress, KeyRelease, Debounced, RunsOut
<1>2. /\ cols_left # {} /\ Turn
      /\ Decrement(debounce_counters[c]) = 0
      /\ debounce_counters' = [debounce_counters EXCEPT ![c] = DEBOUNCE]
      /\ since' = [since EXCEPT ![c] = 0] /\ differs' = [differs EXCEPT ![c] = 0]
  BY <1>1 DEF TimedChange, KeyPress, KeyRelease, Debounced, RunsOut
<1>3. /\ CountsBefore(c) /\ DEBOUNCE \in Nat /\ debounce_counters[c] \in 1..DEBOUNCE
      /\ since[c] \in 0..DEBOUNCE
  BY <1>1, <1>2, CurrentCounts
<1>4. debounce_counters[c] = 1
  <2>1. Decrement(debounce_counters[c]) = debounce_counters[c] - 1
    BY CounterFacts DEF IInv
  <2> QED BY <1>2, <1>3, <2>1
<1>5. since[c] >= DEBOUNCE
  BY <1>3, <1>4 DEF CountsBefore
<1>6. /\ debounce_counters'[c] = DEBOUNCE /\ since'[c] = 0 /\ differs'[c] = 0
      /\ \A key \in Keys : key # c =>
           /\ debounce_counters'[key] = debounce_counters[key]
           /\ since'[key] = since[key] /\ differs'[key] = differs[key]
  BY <1>2 DEF IInv, TypeOK, DebounceInv, CountsType
<1>7. CountsAfter(c)'
  BY <1>3, <1>6 DEF CountsAfter
<1>8. CountsType'
  BY <1>2, <1>3 DEF DebounceInv, CountsType
<1>9. \A key \in Keys : key # c => (Stable(key)' <=> Stable(key))
  BY <1>1, PressedKey, ReleasedKey DEF TimedChange
<1>10. DebounceInv'
  BY <1>1, <1>2, <1>6, <1>7, <1>8, <1>9, TurnKeepsCounts
<1> QED BY <1>1, <1>5, <1>9, <1>10

\* Between rows and scans no turn is due, and the counts stay as they were.
LEMMA ScanningKeeps ==
  ASSUME IInv, DebounceInv, TimedTick \/ TimedNextRow \/ (EndScan /\ UNCHANGED history)
  PROVE  DebounceInv'
<1>1. CASE TimedTick
  <2>1. Tick /\ Reading(0) /\ cols_left = {} /\ 0 \in Rows
    BY <1>1, KeyscanAssumption DEF TimedTick, Tick, IInv, TurnsPending, Rows
  <2> QED BY <2>1, ReadingKeeps DEF Tick
<1>2. CASE TimedNextRow
  <2>1. NextRow /\ Reading(row + 1) /\ cols_left = {} /\ row + 1 \in Rows
    BY <1>2, KeyscanAssumption DEF TimedNextRow, NextRow, IInv, TypeOK, Rows
  <2>2. PICK r \in Rows : r = row + 1
    BY <2>1
  <2>3. ReadRow(r) /\ Reading(r) /\ UNCHANGED keyVars
    BY <2>1, <2>2 DEF NextRow
  <2> QED BY <2>1, <2>3, ReadingKeeps
<1>3. CASE EndScan /\ UNCHANGED history
  <2>1. /\ cols_left = {} /\ cols_left' = {} /\ UNCHANGED keyVars
        /\ since' = since /\ differs' = differs
    BY <1>3 DEF EndScan, history
  <2>2. \A key \in Keys : ~Pends(key) /\ ~Pends(key)'
    BY <2>1 DEF Pends
  <2> QED BY <2>1, <2>2 DEF DebounceInv, CountsType, CountsAfter, keyVars
<1> QED BY <1>1, <1>2, <1>3

\* Every step of the timed loop is one of the loop, or none.
LEMMA TimedStep == [TimedNext]_timedVars => [Next]_vars
BY DEF TimedNext, TimedTick, TimedNextRow, TimedChange, TimedRepeat, Untimed,
       Next, HandleKey, timedVars

\* What holds of the loop holds of the timed loop.
THEOREM TimedInvariant == TimedSpec => [](IInv /\ DebounceInv)
<1>1. TimedInit => IInv /\ DebounceInv
  BY InitInv, DebounceInit DEF TimedInit
<1>2. IInv /\ DebounceInv /\ [TimedNext]_timedVars => (IInv /\ DebounceInv)'
  <2> SUFFICES ASSUME IInv, DebounceInv, [TimedNext]_timedVars
               PROVE  IInv' /\ DebounceInv'
    OBVIOUS
  <2>1. IInv'
    BY TimedStep, StepInv
  <2>2. CASE TimedTick \/ TimedNextRow
    BY <2>1, <2>2, ScanningKeeps
  <2>3. CASE TimedChange
    BY <2>1, <2>3, ChangeFacts
  <2>4. CASE TimedRepeat
    <3>1. KeyRepeats /\ UNCHANGED <<since, differs>>
      BY <2>4 DEF TimedRepeat
    <3> QED BY <2>1, <3>1, HoldingKeeps
  <2>5. CASE Untimed
    <3>1. /\ KeySettles \/ KeyHeld \/ EndScan
          /\ UNCHANGED history /\ UNCHANGED <<since, differs>>
      BY <2>5 DEF Untimed, history
    <3> QED BY <2>1, <3>1, SettlingKeeps, HoldingKeeps, ScanningKeeps
  <2>6. CASE UNCHANGED timedVars
    BY <2>1, <2>6 DEF timedVars, vars, keyVars, scanVars, history, DebounceInv, CountsType,
      CountsBefore, CountsAfter, Pends, Changed, Pressed, Stable
  <2> QED BY <2>2, <2>3, <2>4, <2>5, <2>6 DEF TimedNext
<1> QED BY <1>1, <1>2, PTL DEF TimedSpec

\* A key that reads differently for a debounce period is pressed or released in
\* the last of its scans, whatever the other keys do.
THEOREM NeverLate == TimedSpec => []NoLateEvent
<1>1. IInv /\ DebounceInv => NoLateEvent
  <2> SUFFICES ASSUME IInv, DebounceInv, BetweenScans, NEW key \in Keys
               PROVE  differs[key] < DEBOUNCE
    BY DEF NoLateEvent
  <2>1. CountsAfter(key)
    BY DEF DebounceInv, Pends, IInv, TurnsPending
  <2>2. /\ DEBOUNCE \in Nat /\ debounce_counters[key] \in 1..DEBOUNCE
        /\ differs[key] \in 0..DEBOUNCE
    BY CounterFacts DEF IInv, DebounceInv, CountsType
  <2> QED BY <2>1, <2>2 DEF CountsAfter
<1> QED BY <1>1, TimedInvariant, PTL

\* No key is pressed or released twice within a debounce period, however its
\* contact bounces.
THEOREM EventsAreSpaced == TimedSpec => EventsSpaced
<1>1. ASSUME IInv, DebounceInv, TimedNext
      PROVE  \A key \in Keys : Stable(key)' # Stable(key) => since[key] >= DEBOUNCE
  <2>1. CASE TimedChange
    <3>1. /\ since[Current] >= DEBOUNCE
          /\ \A key \in Keys : key # Current => (Stable(key)' <=> Stable(key))
      BY <1>1, <2>1, ChangeFacts
    <3>2. \A key \in Keys : Stable(key)' # Stable(key) => key = Current
      BY <3>1 DEF Stable
    <3> QED BY <3>1, <3>2
  <2>2. CASE ~TimedChange
    <3>1. UNCHANGED last_stable_key_state
      BY <1>1, <2>2 DEF TimedNext, TimedTick, TimedNextRow, TimedRepeat, Untimed, Tick, NextRow,
                  EndScan, KeySettles, KeyHeld, KeyRepeats, keyVars
    <3> QED BY <3>1 DEF Stable
  <2> QED BY <2>1, <2>2
<1>2. IInv /\ DebounceInv /\ [TimedNext]_timedVars
        => [\A key \in Keys : Stable(key)' # Stable(key) => since[key] >= DEBOUNCE]_timedVars
  BY <1>1
<1> QED BY <1>2, TimedInvariant, PTL DEF TimedSpec, EventsSpaced

-----------------------------------------------------------------------------
(* Repeating, on a keyboard without modifiers.                             *)

\* Every key has one code, whatever the modifiers, and no other key has it.
CodeOf(key) == Keymap["PLAIN"][key]
OneCodeEach ==
  /\ \A key \in Keys : \A map \in ModifierMaps : Keymap[map][key] = CodeOf(key)
  /\ \A key \in Keys : CodeOf(key) # NOTHING
  /\ \A one, other \in Keys :
       CodeOf(one) = CodeOf(other) /\ CodeOf(one) \in Sendable => one = other

\* The key that repeats, and one that has its turn still to come in this scan.
Owns(key) == CodeOf(key) = last_key
ToCome(key) == row < key[1] \/ Pends(key)

\* How long it has to be quiet before the next code, and that the timer r runs
\* no shorter than that, q scans after the last code.
WaitFor(r, again) ==
  IF ~again /\ r.state = REPEAT_AUTO THEN REPEAT_AUTO ELSE REPEAT_ON
Far(r, q, again, more) ==
  r.timer = 0 \/ q >= WaitFor(r, again) \/ q + r.timer >= WaitFor(r, again) + more

SpacingInv ==
  /\ quiet \in 0..REPEAT_AUTO /\ repeated \in BOOLEAN
  /\ Far(repeat, quiet, repeated, 0)
  /\ \A key \in Keys : Owns(key) => Stable(key)
  /\ \A key \in Keys :
       Owns(key) /\ ToCome(key) => quiet >= 1 /\ Far(repeat, quiet, repeated, 1)

\* The key whose turn it is has its own code, whatever the modifiers are.
LEMMA CurrentCode ==
  ASSUME OneCodeEach, IInv, cols_left # {}
  PROVE  /\ Current \in Keys /\ ToCome(Current)
         /\ lookup_keycode(Current) = CodeOf(Current)
<1> DEFINE c == Current
<1>1. c \in Keys /\ c[1] = row /\ c[2] \in cols_left
  BY CurrentIsKey DEF IInv
<1>2. modifier_index(modifiers) \in ModifierMaps
  BY IndexType DEF IInv, TypeOK
<1> HIDE DEF c
<1>3. ToCome(c)
  BY <1>1 DEF ToCome, Pends
<1>4. lookup_keycode(c) = CodeOf(c)
  BY <1>1, <1>2 DEF OneCodeEach, lookup_keycode
<1> QED BY <1>1, <1>3, <1>4 DEF c

\* After the turn of a key only others have theirs to come.
LEMMA TurnsToCome ==
  ASSUME IInv, cols_left # {}, Turn, NEW key \in Keys, ToCome(key)'
  PROVE  ToCome(key) /\ key # Current
<1> DEFINE c == Current
<1>1. /\ row \in Rows /\ c[1] = row /\ c[2] \in cols_left
      /\ cols_left' = cols_left \ {c[2]} /\ row' = row
  BY CurrentIsKey DEF IInv, Turn
<1>2. row \in Nat
  BY <1>1 DEF Rows
<1> HIDE DEF c
<1>3. ToCome(key) /\ key # c
  BY <1>1, <1>2 DEF ToCome, Pends
<1> QED BY <1>3 DEF c

\* What a REPEAT key or the autorepeat switch does to the timer: it is loaded,
\* or goes on as it was.
LEMMA TimerLoads ==
  ASSUME NEW r \in RepeatState, NEW a, NEW q, q \in {PressRepeat(r, a), ReleaseRepeat(r, a)}
  PROVE  q.timer = q.state \/ (q.timer = r.timer /\ q.state = r.state)
<1>1. repeat_activate(r) = r \/ repeat_activate(r).timer = repeat_activate(r).state
  BY DEF repeat_activate, RepeatState
<1>2. repeat_deactivate(r).timer = repeat_deactivate(r).state
  BY DEF repeat_deactivate, RepeatState
<1>3. \A base :
        \/ WithBase(r, base).timer = WithBase(r, base).state
        \/ WithBase(r, base).timer = r.timer /\ WithBase(r, base).state = r.state
  BY DEF WithBase, RepeatState
<1> QED BY <1>1, <1>2, <1>3 DEF PressRepeat, ReleaseRepeat, repeat_auto_on, repeat_auto_off

\* A timer that was just loaded runs long enough.
LEMMA LoadedIsFar ==
  ASSUME NEW r, Fits(r), r.timer = r.state, NEW q \in Nat, NEW again \in BOOLEAN
  PROVE  Far(r, q, again, 0) /\ (q >= 1 => Far(r, q, again, 1))
BY RepeatAssumption DEF Fits, RepeatState, RepeatStates, Far, WaitFor, REPEAT_OFF

\* A step that loads the timer or leaves it, and types no code.
LEMMA QuietStep ==
  ASSUME IInv, SpacingInv, IInv', UNCHANGED <<quiet, repeated>>,
         \/ repeat'.timer = repeat'.state
         \/ repeat'.timer = repeat.timer /\ repeat'.state = repeat.state,
         last_key' \in {last_key, NOTHING}, OneCodeEach,
         \A key \in Keys : ToCome(key)' => ToCome(key),
         \A key \in Keys : Owns(key) /\ Owns(key)' /\ Stable(key) => Stable(key)'
  PROVE  SpacingInv'
<1>1. /\ Fits(repeat') /\ Fits(repeat)
      /\ quiet \in 0..REPEAT_AUTO /\ quiet \in Nat /\ repeated \in BOOLEAN
  BY RepeatAssumption DEF IInv, TypeOK, RepeatTimerFits, Fits, SpacingInv
<1>2. \A key \in Keys : Owns(key)' => Owns(key)
  BY DEF Owns, OneCodeEach
<1>3. \A more \in {0, 1} :
        (more = 1 => quiet >= 1) /\ Far(repeat, quiet, repeated, more)
          => Far(repeat', quiet, repeated, more)
  <2>1. CASE repeat'.timer = repeat'.state
    BY <1>1, <2>1, LoadedIsFar
  <2>2. CASE repeat'.timer = repeat.timer /\ repeat'.state = repeat.state
    BY <2>2 DEF Far, WaitFor
  <2> QED BY <2>1, <2>2
<1>4. Far(repeat', quiet, repeated, 0)
  BY <1>3 DEF SpacingInv
<1>5. \A key \in Keys :
        Owns(key)' /\ ToCome(key)' => quiet >= 1 /\ Far(repeat', quiet, repeated, 1)
  BY <1>2, <1>3 DEF SpacingInv
<1>6. \A key \in Keys : Owns(key)' => Stable(key)'
  BY <1>2 DEF SpacingInv
<1> QED BY <1>1, <1>4, <1>5, <1>6 DEF SpacingInv

\* asdf_init: nothing was ever typed, and nothing repeats.
LEMMA SpacingInit == ASSUME OneCodeEach, TimedInit PROVE SpacingInv
<1>1. quiet = REPEAT_AUTO /\ repeated = FALSE /\ last_key = NOTHING
  BY DEF TimedInit, Init
<1>2. Far(repeat, quiet, repeated, 0)
  BY <1>1, RepeatAssumption DEF Far, WaitFor
<1>3. \A key \in Keys : ~Owns(key)
  BY <1>1 DEF OneCodeEach, Owns
<1>4. quiet \in 0..REPEAT_AUTO
  BY <1>1, RepeatAssumption
<1>5. repeated \in BOOLEAN
  BY <1>1, Zenon
<1> QED BY <1>2, <1>3, <1>4, <1>5 DEF SpacingInv

\* A scan begins: it has been quiet for one more.
LEMMA TickSpaces ==
  ASSUME OneCodeEach, IInv, SpacingInv, TimedTick PROVE SpacingInv'
<1>1. /\ quiet \in 0..REPEAT_AUTO /\ quiet' = AtMost(REPEAT_AUTO, quiet + 1)
      /\ repeated' = repeated /\ repeated \in BOOLEAN /\ repeat' = repeat
      /\ last_key' = last_key /\ last_stable_key_state' = last_stable_key_state
      /\ Far(repeat, quiet, repeated, 0)
  BY DEF TimedTick, Tick, SpacingInv, keyVars
<1>2. /\ quiet' \in 0..REPEAT_AUTO /\ quiet' >= 1
      /\ quiet' = REPEAT_AUTO \/ quiet' = quiet + 1
  BY <1>1, RepeatAssumption DEF AtMost
<1>3. repeat.timer \in Nat /\ WaitFor(repeat, repeated) \in Nat
      /\ WaitFor(repeat, repeated) <= REPEAT_AUTO
  BY RepeatAssumption DEF IInv, TypeOK, RepeatState, WaitFor, REPEAT_OFF
<1>4. Far(repeat, quiet', repeated, 0) /\ Far(repeat, quiet', repeated, 1)
  <2> DEFINE wait == WaitFor(repeat, repeated)
             timer == repeat.timer
  <2>1. timer \in Nat /\ wait \in Nat /\ wait <= REPEAT_AUTO
    BY <1>3
  <2>2. timer = 0 \/ quiet >= wait \/ quiet + timer >= wait
    BY <1>1, <1>3 DEF Far
  <2> HIDE DEF wait, timer
  <2>3. timer = 0 \/ quiet' >= wait \/ quiet' + timer >= wait + 1
    BY <1>1, <1>2, <2>1, <2>2, RepeatAssumption
  <2>4. timer = 0 \/ quiet' >= wait \/ quiet' + timer >= wait + 0
    BY <1>1, <1>2, <2>1, <2>3
  <2> QED BY <2>3, <2>4 DEF Far, wait, timer
<1>5. \A key \in Keys : (Owns(key)' <=> Owns(key)) /\ (Stable(key)' <=> Stable(key))
  BY <1>1 DEF Owns, Stable
<1> QED BY <1>1, <1>2, <1>4, <1>5 DEF SpacingInv

\* A typed code loads the timer, since its key was up and did not repeat.
LEMMA TypingSpaces ==
  ASSUME OneCodeEach, IInv, SpacingInv, IInv', TimedChange, KeyPress, TypedCode
  PROVE  SpacingInv'
<1>1. PICK c \in Keys : c = Current
  BY CurrentCode DEF KeyPress, Debounced, RunsOut
<1>2. /\ lookup_keycode(Current) = CodeOf(c) /\ CodeOf(c) \in Sendable /\ ~Owns(c)
      /\ CodeOf(c) \notin Actions
  <2>1. lookup_keycode(Current) = CodeOf(c)
    BY <1>1, CurrentCode DEF KeyPress, Debounced, RunsOut
  <2>2. ~Stable(c)
    BY <1>1, PressedKey
  <2> QED BY <2>1, <2>2, KeyscanAssumption DEF TypedCode, SpacingInv, KeyscanAssumption
<1>3. /\ last_key' = CodeOf(c) /\ repeat' = repeat_reset_count(repeat)
      /\ quiet' = 0 /\ repeated' = FALSE /\ cols_left # {} /\ Turn
  BY <1>2 DEF TimedChange, KeyPress, activate_key, Owns, Debounced, RunsOut
<1>4. Fits(repeat') /\ repeat'.timer = repeat'.state
  BY <1>3 DEF IInv, TypeOK, RepeatTimerFits, Fits, repeat_reset_count, RepeatState
<1>5. Far(repeat', 0, FALSE, 0)
  BY <1>4, LoadedIsFar
<1>6. \A key \in Keys : Owns(key)' => key = c
  BY <1>2, <1>3 DEF Owns, OneCodeEach
<1>7. Stable(c)'
  BY <1>1, PressedKey
<1>8. \A key \in Keys : ToCome(key)' => key # c
  BY <1>1, <1>3, TurnsToCome
<1>9. quiet' \in 0..REPEAT_AUTO
  BY <1>3, RepeatAssumption
<1>10. repeated' \in BOOLEAN
  BY <1>3, Zenon
<1>11. Far(repeat', quiet', repeated', 0)
  BY <1>3, <1>5, Zenon
<1> QED BY <1>6, <1>7, <1>8, <1>9, <1>10, <1>11 DEF SpacingInv

\* No other press or release types a code, and at most they load the timer.
LEMMA ChangeSpaces ==
  ASSUME OneCodeEach, IInv, SpacingInv, IInv', TimedChange, ~(KeyPress /\ TypedCode)
  PROVE  SpacingInv'
<1>1. PICK c \in Keys : c = Current
  BY CurrentCode DEF TimedChange, KeyPress, KeyRelease, Debounced, RunsOut
<1>2. /\ cols_left # {} /\ Turn /\ UNCHANGED <<quiet, repeated>>
      /\ lookup_keycode(Current) = CodeOf(c) /\ CodeOf(c) \in Actions \union Sendable
  <2>1. cols_left # {} /\ Turn /\ UNCHANGED <<quiet, repeated>>
    BY DEF TimedChange, KeyPress, KeyRelease, Debounced, RunsOut
  <2>2. lookup_keycode(Current) = CodeOf(c)
    BY <1>1, <2>1, CurrentCode
  <2>3. lookup_keycode(Current) \in Actions \union Sendable
    BY <1>1, CodeType DEF IInv
  <2> QED BY <2>1, <2>2, <2>3
<1>3. \A key \in Keys : ToCome(key)' => ToCome(key)
  BY <1>2, TurnsToCome
<1>4. repeat \in RepeatState /\ last_key \in Sendable
  BY DEF IInv, TypeOK
<1>5. CASE KeyPress
  <2>1. CodeOf(c) \in Actions
    BY <1>2, <1>5 DEF TypedCode
  <2>2. repeat' = PressRepeat(repeat, CodeOf(c)) /\ last_key' = last_key
    BY <1>2, <1>5, <2>1 DEF KeyPress, activate_key
  <2>3. \/ repeat'.timer = repeat'.state
        \/ repeat'.timer = repeat.timer /\ repeat'.state = repeat.state
    BY <1>4, <2>2, TimerLoads
  <2>4. \A key \in Keys : Stable(key) => Stable(key)'
    BY <1>5, PressedKey
  <2> QED BY <1>2, <1>3, <2>2, <2>3, <2>4, QuietStep
<1>6. CASE KeyRelease
  <2>1. /\ last_key' \in {last_key, NOTHING}
        /\ Owns(c) => last_key' = NOTHING
        /\ repeat' \in {repeat, ReleaseRepeat(repeat, CodeOf(c))}
    <3>1. CASE CodeOf(c) \in Actions
      BY <1>2, <1>4, <1>6, <3>1, KeyscanAssumption DEF KeyRelease, deactivate_key, Owns
    <3>2. CASE CodeOf(c) \notin Actions
      BY <1>2, <1>6, <3>2 DEF KeyRelease, deactivate_key, Owns
    <3> QED BY <3>1, <3>2
  <2>2. \/ repeat'.timer = repeat'.state
        \/ repeat'.timer = repeat.timer /\ repeat'.state = repeat.state
    BY <1>4, <2>1, TimerLoads
  <2>3. \A key \in Keys : Owns(key) /\ Owns(key)' /\ Stable(key) => Stable(key)'
    <3>1. ~(Owns(c) /\ Owns(c)')
      BY <2>1 DEF Owns, OneCodeEach
    <3>2. \A key \in Keys : Stable(key) /\ key # c => Stable(key)'
      BY <1>1, <1>6, ReleasedKey
    <3> QED BY <3>1, <3>2
  <2> QED BY <1>2, <1>3, <2>1, <2>2, <2>3, QuietStep
<1> QED BY <1>5, <1>6 DEF TimedChange

\* The key that repeats runs the timer once in a scan, by one.
LEMMA HoldingSpaces ==
  ASSUME OneCodeEach, IInv, SpacingInv, IInv',
         \/ KeyHeld /\ UNCHANGED <<quiet, repeated>>
         \/ TimedRepeat
  PROVE  SpacingInv'
<1>1. /\ cols_left # {} /\ Turn /\ last_key' = last_key /\ UNCHANGED keyVars
      /\ last_key \in Sendable
  BY DEF KeyHeld, TimedRepeat, KeyRepeats, IInv, TypeOK
<1>2. PICK c \in Keys : c = Current
  BY <1>1, CurrentCode
<1>3. /\ Repeats <=> Owns(c)
      /\ Owns(c) => \A key \in Keys : Owns(key) => key = c
      /\ ToCome(c)
  BY <1>1, <1>2, CurrentCode DEF Repeats, Owns, OneCodeEach
<1>4. /\ \A key \in Keys : ToCome(key)' => ToCome(key) /\ key # c
      /\ \A key \in Keys : Owns(key)' <=> Owns(key)
      /\ \A key \in Keys : Stable(key)' <=> Stable(key)
  BY <1>1, <1>2, TurnsToCome DEF Owns, Stable, keyVars
<1>5. CASE KeyHeld /\ UNCHANGED <<quiet, repeated>> /\ ~Owns(c)
  <2>1. repeat' = repeat
    BY <1>3, <1>5 DEF KeyHeld
  <2> QED BY <1>1, <1>4, <1>5, <2>1, QuietStep
<1>6. ASSUME Owns(c), Far(repeat', quiet', repeated', 0),
             quiet' \in 0..REPEAT_AUTO, repeated' \in BOOLEAN
      PROVE  SpacingInv'
  BY <1>3, <1>4, <1>6 DEF SpacingInv
<1>7. CASE KeyHeld /\ UNCHANGED <<quiet, repeated>> /\ Owns(c)
  <2>1. repeat' = asdf_repeat(repeat) /\ repeat.timer # 1
    BY <1>3, <1>7 DEF KeyHeld, TimesOut
  <2>2. Far(repeat, quiet, repeated, 1) /\ quiet \in 0..REPEAT_AUTO /\ repeated \in BOOLEAN
    BY <1>3, <1>7 DEF SpacingInv
  <2>3. /\ repeat.timer \in 0..REPEAT_AUTO /\ repeat'.state = repeat.state
        /\ repeat'.timer = IF repeat.timer = 0 THEN 0 ELSE repeat.timer - 1
    BY <2>1, RepeatAssumption DEF IInv, TypeOK, RepeatState, asdf_repeat
  <2>4. Far(repeat', quiet, repeated, 0)
    BY <2>2, <2>3, RepeatAssumption DEF Far, WaitFor
  <2> QED BY <1>6, <1>7, <2>2, <2>4
<1>8. CASE TimedRepeat
  <2>1. /\ Owns(c) /\ quiet' = 0 /\ repeated' = TRUE
        /\ repeat' = asdf_repeat(repeat) /\ repeat.timer = 1
    BY <1>3, <1>8 DEF TimedRepeat, KeyRepeats, TimesOut
  <2>2. repeat'.timer = REPEAT_ON
    BY <2>1, RepeatAssumption DEF IInv, TypeOK, RepeatState, asdf_repeat
  <2>3. Far(repeat', 0, TRUE, 0)
    BY <2>2, RepeatAssumption DEF Far, WaitFor
  <2> QED BY <1>6, <2>1, <2>3, RepeatAssumption
<1> QED BY <1>5, <1>7, <1>8

\* The other steps of the loop type nothing and leave the timer.
LEMMA OtherStepsSpace ==
  ASSUME OneCodeEach, IInv, SpacingInv, IInv',
         TimedNextRow \/ (KeySettles /\ UNCHANGED history) \/ (EndScan /\ UNCHANGED history)
  PROVE  SpacingInv'
<1>1. /\ UNCHANGED <<quiet, repeated>> /\ last_key' = last_key /\ repeat' = repeat
      /\ last_stable_key_state' = last_stable_key_state
  BY DEF TimedNextRow, NextRow, KeySettles, EndScan, history, codeVars, keyVars
<1>2. ASSUME NEW key \in Keys, ToCome(key)' PROVE ToCome(key)
  <2>1. CASE KeySettles
    BY <1>2, <2>1, TurnsToCome DEF KeySettles
  <2>2. CASE TimedNextRow
    <3>1. row' = row + 1 /\ row \in Nat /\ key[1] \in Nat
      BY <2>2, KeyscanAssumption DEF TimedNextRow, NextRow, ReadRow, IInv, TypeOK, Keys, Rows
    <3> QED BY <1>2, <3>1 DEF ToCome, Pends
  <2>3. CASE EndScan
    <3>1. row' = NumRows /\ NumRows \in Nat /\ key[1] \in 0..(NumRows - 1)
      BY <2>3, KeyscanAssumption DEF EndScan, Keys, Rows
    <3> QED BY <1>2, <3>1 DEF ToCome, Pends
  <2> QED BY <2>1, <2>2, <2>3
<1>3. \A key \in Keys : Stable(key)' <=> Stable(key)
  BY <1>1 DEF Stable
<1> QED BY <1>1, <1>2, <1>3, QuietStep

\* The invariant of the repeat timer.
THEOREM SpacingInvariant == ASSUME OneCodeEach PROVE TimedSpec => [](IInv /\ SpacingInv)
<1>1. TimedInit => IInv /\ SpacingInv
  BY OneCodeEach, InitInv, SpacingInit DEF TimedInit
<1>2. IInv /\ SpacingInv /\ [TimedNext]_timedVars => (IInv /\ SpacingInv)'
  <2> SUFFICES ASSUME IInv, SpacingInv, [TimedNext]_timedVars
               PROVE  IInv' /\ SpacingInv'
    OBVIOUS
  <2>1. IInv'
    BY TimedStep, StepInv
  <2>2. CASE TimedTick
    BY OneCodeEach, <2>1, <2>2, TickSpaces
  <2>3. CASE TimedChange
    BY OneCodeEach, <2>1, <2>3, TypingSpaces, ChangeSpaces
  <2>4. CASE TimedRepeat
    BY OneCodeEach, <2>1, <2>4, HoldingSpaces
  <2>5. CASE TimedNextRow
    BY OneCodeEach, <2>1, <2>5, OtherStepsSpace
  <2>6. CASE Untimed
    <3>1. /\ KeySettles \/ KeyHeld \/ EndScan
          /\ UNCHANGED history /\ UNCHANGED <<quiet, repeated>>
      BY <2>6 DEF Untimed, history
    <3> QED BY OneCodeEach, <2>1, <3>1, HoldingSpaces, OtherStepsSpace
  <2>7. CASE UNCHANGED timedVars
    BY <2>1, <2>7 DEF timedVars, vars, keyVars, codeVars, scanVars, history, SpacingInv,
                      Owns, ToCome, Pends, Stable, Far, WaitFor
  <2> QED BY <2>2, <2>3, <2>4, <2>5, <2>6, <2>7 DEF TimedNext
<1> QED BY <1>1, <1>2, PTL DEF TimedSpec

\* When a code is repeated it has been quiet for as long as the state of the
\* timer asks for.
LEMMA RepeatIsFar ==
  ASSUME OneCodeEach, IInv, SpacingInv, KeyRepeats
  PROVE  /\ quiet \in Nat /\ quiet >= WaitFor(repeat, repeated)
         /\ WaitFor(repeat, repeated) >= REPEAT_ON
<1>1. /\ cols_left # {} /\ repeat.timer = 1 /\ lookup_keycode(Current) = last_key
  BY DEF KeyRepeats, Repeats, TimesOut
<1>2. PICK c \in Keys : c = Current
  BY <1>1, CurrentCode
<1>3. Owns(c) /\ ToCome(c)
  BY <1>1, <1>2, CurrentCode DEF Owns
<1>4. Far(repeat, quiet, repeated, 1) /\ quiet \in 0..REPEAT_AUTO
  BY <1>3 DEF SpacingInv
<1>5. WaitFor(repeat, repeated) \in Nat /\ WaitFor(repeat, repeated) >= REPEAT_ON
  BY RepeatAssumption DEF WaitFor
<1> QED BY <1>1, <1>4, <1>5, RepeatAssumption DEF Far

\* No two codes of a held key are closer than the repeat time.
THEOREM RepeatsAreSpaced == ASSUME OneCodeEach PROVE TimedSpec => RepeatsSpaced
<1>1. IInv /\ SpacingInv /\ [TimedNext]_timedVars
        => [KeyRepeats => quiet >= REPEAT_ON]_timedVars
  <2>1. ASSUME IInv, SpacingInv, KeyRepeats PROVE quiet >= REPEAT_ON
    <3>1. /\ quiet \in Nat /\ quiet >= WaitFor(repeat, repeated)
          /\ WaitFor(repeat, repeated) \in Nat /\ WaitFor(repeat, repeated) >= REPEAT_ON
      BY OneCodeEach, <2>1, RepeatIsFar, RepeatAssumption DEF WaitFor
    <3> QED BY <3>1, RepeatAssumption
  <2> QED BY <2>1
<1> QED BY OneCodeEach, <1>1, SpacingInvariant, PTL DEF TimedSpec, RepeatsSpaced

\* Autorepeat begins no earlier than its delay after the code was typed.
THEOREM AutorepeatIsDelayed == ASSUME OneCodeEach PROVE TimedSpec => AutorepeatDelayed
<1>1. IInv /\ SpacingInv /\ [TimedNext]_timedVars
        => [KeyRepeats /\ ~repeated /\ repeat.state = REPEAT_AUTO
              => quiet >= REPEAT_AUTO]_timedVars
  <2>1. ASSUME IInv, SpacingInv, KeyRepeats, ~repeated, repeat.state = REPEAT_AUTO
        PROVE  quiet >= REPEAT_AUTO
    BY OneCodeEach, <2>1, RepeatIsFar DEF WaitFor
  <2> QED BY <2>1
<1> QED BY OneCodeEach, <1>1, SpacingInvariant, PTL DEF TimedSpec, AutorepeatDelayed

-----------------------------------------------------------------------------
(* The queue.  A code costs Unit.  Every letter earns one in the time that *)
(* debouncing takes to release and press it, and a held one by waiting for *)
(* the repeat timer; what a scan earns all letters together is no more     *)
(* than a code, which is what it takes from the queue.  That it does so    *)
(* takes a keyboard on which no key prints: messages go first.             *)

Letters == {key \in Keys : CodeOf(key) \in Sendable}
Period == 2 * DEBOUNCE
Unit == Period * REPEAT_ON

\* In a scan no more than one code is earned.
SlowEnough == Cardinality(Letters) * REPEAT_ON + Period <= Unit

\* The scans since the key was typed, as far as its counts tell, with one for a
\* row that this scan has still to read.
Due(key) == AtMost(DEBOUNCE, since[key] + (IF row < key[1] THEN 1 ELSE 0))
Age(key) == IF Stable(key) THEN Due(key) ELSE DEBOUNCE + Due(key)
Ages == [key \in Keys |-> Age(key)]

\* A mark for each of these scans: so many marks are the sum of the ages.
Marks(age) == {p \in Letters \X (1..Period) : p[2] <= age[p[1]]}

\* The time that a key which may repeat has waited.
Waited == IF \E key \in Keys : Owns(key) THEN AtMost(REPEAT_ON, quiet) ELSE 0

Spent(length, marks, wait) == Unit * length + REPEAT_ON * marks + Period * wait
Budget == Unit * Cardinality(Letters) + DEBOUNCE * REPEAT_ON
QueueInv == Spent(Len(asdf_keycode_buffer), Cardinality(Marks(Ages)), Waited) <= Budget

\* There are finitely many letters.
LEMMA LetterCount ==
  /\ IsFiniteSet(Letters) /\ Cardinality(Letters) \in Nat
  /\ IsFiniteSet(Letters \X (1..Period))
  /\ Cardinality(Letters \X (1..Period)) = Cardinality(Letters) * Period
  /\ DEBOUNCE \in Nat \ {0} /\ Period \in Nat /\ Period = DEBOUNCE + DEBOUNCE
<1>1. /\ DEBOUNCE \in Nat \ {0} /\ Period \in Nat /\ Period = DEBOUNCE + DEBOUNCE
      /\ NumRows \in Nat /\ NumCols \in Nat
  BY KeyscanAssumption DEF KeyscanAssumption, Period
<1>2. IsFiniteSet(Rows) /\ IsFiniteSet(Cols)
  BY <1>1, FS_Interval DEF Rows, Cols
<1>3. IsFiniteSet(Keys)
  BY <1>2, FS_Product DEF Keys
<1>4. IsFiniteSet(Letters) /\ Cardinality(Letters) \in Nat
  BY <1>3, FS_Subset, FS_CardinalityType DEF Letters
<1>5. IsFiniteSet(1..Period) /\ Cardinality(1..Period) = Period
  BY <1>1, FS_Interval
<1> QED BY <1>1, <1>4, <1>5, FS_Product

LEMMA MarkCount ==
  ASSUME NEW age
  PROVE  /\ Marks(age) \subseteq Letters \X (1..Period)
         /\ IsFiniteSet(Marks(age)) /\ Cardinality(Marks(age)) \in Nat
         /\ Cardinality(Marks(age)) <= Cardinality(Letters) * Period
<1>1. Marks(age) \subseteq Letters \X (1..Period)
  BY DEF Marks
<1> QED BY <1>1, LetterCount, FS_Subset, FS_CardinalityType

\* Ages that are no higher have no more marks.
LEMMA FewerMarks ==
  ASSUME NEW age \in [Keys -> 0..Period], NEW less \in [Keys -> 0..Period],
         \A key \in Letters : less[key] <= age[key]
  PROVE  Cardinality(Marks(less)) <= Cardinality(Marks(age))
<1>1. ASSUME NEW p \in Marks(less) PROVE p \in Marks(age)
  <2>1. /\ p \in Letters \X (1..Period) /\ p[1] \in Letters /\ p[2] \in 1..Period
        /\ p[2] <= less[p[1]] /\ p[1] \in Keys
    BY DEF Marks, Letters
  <2>2. p[2] \in Int /\ less[p[1]] \in Int /\ age[p[1]] \in Int
    BY <2>1, LetterCount
  <2> QED BY <2>1, <2>2 DEF Marks
<1> QED BY <1>1, MarkCount, FS_Subset

\* When all ages go up by one, so does the number of marks by that of letters.
LEMMA MoreMarks ==
  ASSUME NEW age \in [Keys -> 0..Period], NEW more \in [Keys -> 0..Period],
         \A key \in Letters : more[key] <= age[key] + 1
  PROVE  Cardinality(Marks(more)) <= Cardinality(Marks(age)) + Cardinality(Letters)
<1> DEFINE new == Marks(more) \ Marks(age)
           f == [p \in new |-> p[1]]
<1>1. ASSUME NEW p \in new PROVE p[1] \in Letters /\ p = <<p[1], age[p[1]] + 1>>
  <2>1. /\ p \in Letters \X (1..Period) /\ p[1] \in Letters /\ p[1] \in Keys
        /\ p = <<p[1], p[2]>> /\ p[2] \in 1..Period
        /\ p[2] <= more[p[1]] /\ ~(p[2] <= age[p[1]])
    BY DEF Marks, Letters
  <2>2. p[2] \in Int /\ more[p[1]] \in Int /\ age[p[1]] \in Int
    BY <2>1, LetterCount
  <2>3. p[2] = age[p[1]] + 1
    BY <2>1, <2>2
  <2> QED BY <2>1, <2>3
<1>2. f \in Injection(new, Letters)
  <2>1. f \in [new -> Letters]
    BY <1>1
  <2>2. \A p, q \in new : f[p] = f[q] => p = q
    <3> SUFFICES ASSUME NEW p \in new, NEW q \in new, p[1] = q[1] PROVE p = q
      OBVIOUS
    <3>1. p = <<p[1], age[p[1]] + 1>> /\ q = <<q[1], age[q[1]] + 1>>
      BY <1>1
    <3> HIDE DEF new
    <3> QED BY <3>1
  <2> QED BY <2>1, <2>2 DEF Injection, IsInjective
<1>3. IsFiniteSet(new) /\ Cardinality(new) <= Cardinality(Letters)
  <2> HIDE DEF new, f
  <2> QED BY <1>2, LetterCount, FS_Injection
<1>4. Cardinality(Marks(age) \union new) =
        Cardinality(Marks(age)) + Cardinality(new) - Cardinality(Marks(age) \intersect new)
      /\ IsFiniteSet(Marks(age) \union new)
  <2> HIDE DEF new
  <2> QED BY <1>3, MarkCount, FS_Union
<1>5. Marks(age) \intersect new = {} /\ Marks(more) \subseteq Marks(age) \union new
  OBVIOUS
<1>6. Cardinality(Marks(more)) <= Cardinality(Marks(age) \union new)
  <2> HIDE DEF new
  <2> QED BY <1>4, <1>5, FS_Subset
<1>7. Cardinality(new) \in Nat /\ Cardinality(Marks(age) \intersect new) = 0
  BY <1>3, <1>5, FS_CardinalityType, FS_EmptySet
<1> HIDE DEF new
<1> QED BY <1>3, <1>4, <1>6, <1>7, MarkCount, LetterCount

\* The marks of one letter, from one age to another.
LEMMA MarksOfOne ==
  ASSUME NEW c \in Letters, NEW a \in 1..Period, NEW S,
         S \subseteq Letters \X (1..Period), S \intersect ({c} \X (a..Period)) = {}
  PROVE  /\ IsFiniteSet(S \union ({c} \X (a..Period)))
         /\ Cardinality(S \union ({c} \X (a..Period))) = Cardinality(S) + (Period - a + 1)
         /\ S \union ({c} \X (a..Period)) \subseteq Letters \X (1..Period)
<1> DEFINE one == {c} \X (a..Period)
<1>1. a \in Int /\ Period \in Int /\ a <= Period
  BY LetterCount
<1>2. IsFiniteSet(a..Period) /\ Cardinality(a..Period) = Period - a + 1
  BY <1>1, FS_Interval
<1>3. IsFiniteSet({c}) /\ Cardinality({c}) = 1
  BY FS_Singleton
<1>4. IsFiniteSet(one) /\ Cardinality(one) = Period - a + 1
  <2>1. IsFiniteSet(one) /\ Cardinality(one) = Cardinality({c}) * Cardinality(a..Period)
    BY <1>2, <1>3, FS_Product
  <2> HIDE DEF one
  <2> QED BY <1>1, <1>2, <1>3, <2>1
<1>5. IsFiniteSet(S) /\ Cardinality(S) \in Nat
  BY LetterCount, FS_Subset, FS_CardinalityType
<1>6. one \subseteq Letters \X (1..Period)
  BY <1>1
<1> HIDE DEF one
<1>7. /\ IsFiniteSet(S \union one)
      /\ Cardinality(S \union one) = Cardinality(S) + Cardinality(one) - Cardinality(S \intersect one)
  BY <1>4, <1>5, FS_Union
<1>8. Cardinality(S \intersect one) = 0
  BY FS_EmptySet DEF one
<1> QED BY <1>1, <1>4, <1>5, <1>6, <1>7, <1>8 DEF one

\* A letter that is typed gives up all its marks.
LEMMA TypedMarks ==
  ASSUME NEW age \in [Keys -> 0..Period], NEW less \in [Keys -> 0..Period],
         NEW c \in Letters, age[c] = Period, less[c] = 0,
         \A key \in Letters : less[key] <= age[key]
  PROVE  Cardinality(Marks(less)) + Period <= Cardinality(Marks(age))
<1> DEFINE all == Marks(less) \union ({c} \X (1..Period))
<1>1. Period \in Nat \ {0} /\ 1 \in 1..Period
  BY LetterCount
<1>2. Marks(less) \intersect ({c} \X (1..Period)) = {}
  BY <1>1 DEF Marks
<1>3. IsFiniteSet(all) /\ Cardinality(all) = Cardinality(Marks(less)) + (Period - 1 + 1)
  BY <1>1, <1>2, MarksOfOne, MarkCount
<1>4. all \subseteq Marks(age)
  <2>1. ASSUME NEW p \in {c} \X (1..Period) PROVE p \in Marks(age)
    BY <1>1 DEF Marks
  <2>2. ASSUME NEW p \in Marks(less) PROVE p \in Marks(age)
    <3>1. /\ p \in Letters \X (1..Period) /\ p[1] \in Letters /\ p[2] \in 1..Period
          /\ p[2] <= less[p[1]] /\ p[1] \in Keys
      BY DEF Marks, Letters
    <3>2. p[2] \in Int /\ less[p[1]] \in Int /\ age[p[1]] \in Int
      BY <3>1, LetterCount
    <3> QED BY <3>1, <3>2 DEF Marks
  <2> QED BY <2>1, <2>2
<1> HIDE DEF all
<1>5. Cardinality(all) <= Cardinality(Marks(age))
  BY <1>4, MarkCount, FS_Subset
<1> QED BY <1>1, <1>3, <1>5, MarkCount

\* A letter that is held has no more than half its marks.
LEMMA HeldMarks ==
  ASSUME NEW age \in [Keys -> 0..Period], NEW c \in Letters, age[c] <= DEBOUNCE
  PROVE  Cardinality(Marks(age)) + DEBOUNCE <= Cardinality(Letters) * Period
<1> DEFINE all == Marks(age) \union ({c} \X ((DEBOUNCE + 1)..Period))
<1>1. /\ Period = DEBOUNCE + DEBOUNCE /\ DEBOUNCE \in Nat \ {0}
      /\ DEBOUNCE + 1 \in 1..Period /\ age[c] \in Int
  <2>1. c \in Keys
    BY DEF Letters
  <2> QED BY <2>1, LetterCount
<1>2. Marks(age) \intersect ({c} \X ((DEBOUNCE + 1)..Period)) = {}
  BY <1>1 DEF Marks
<1>3. /\ IsFiniteSet(all) /\ all \subseteq Letters \X (1..Period)
      /\ Cardinality(all) = Cardinality(Marks(age)) + (Period - (DEBOUNCE + 1) + 1)
  BY <1>1, <1>2, MarksOfOne, MarkCount
<1> HIDE DEF all
<1>4. Cardinality(all) <= Cardinality(Letters) * Period
  BY <1>3, LetterCount, FS_Subset
<1> QED BY <1>1, <1>3, <1>4, MarkCount

-----------------------------------------------------------------------------
\* The numbers that are spent.
LEMMA Sizes ==
  /\ Unit \in Nat /\ Period \in Nat /\ REPEAT_ON \in Nat /\ Cardinality(Letters) \in Nat
  /\ REPEAT_ON * Period = Unit /\ Period * REPEAT_ON = Unit
  /\ DEBOUNCE * REPEAT_ON \in Nat /\ REPEAT_ON * DEBOUNCE = DEBOUNCE * REPEAT_ON
  /\ Unit = DEBOUNCE * REPEAT_ON + DEBOUNCE * REPEAT_ON /\ DEBOUNCE * REPEAT_ON > 0
<1>1. /\ DEBOUNCE \in Nat \ {0} /\ Period \in Nat /\ Period = DEBOUNCE + DEBOUNCE
      /\ REPEAT_ON \in Nat \ {0} /\ Cardinality(Letters) \in Nat
  BY LetterCount, RepeatAssumption DEF REPEAT_OFF
<1>2. /\ Unit \in Nat /\ REPEAT_ON * Period = Unit /\ Period * REPEAT_ON = Unit
      /\ DEBOUNCE * REPEAT_ON \in Nat /\ REPEAT_ON * DEBOUNCE = DEBOUNCE * REPEAT_ON
      /\ DEBOUNCE * REPEAT_ON > 0
  BY <1>1 DEF Unit
<1>3. Unit = DEBOUNCE * REPEAT_ON + DEBOUNCE * REPEAT_ON
  BY <1>1 DEF Unit
<1> QED BY <1>1, <1>2, <1>3

LEMMA Numbers == Unit \in Nat /\ Period \in Nat /\ REPEAT_ON \in Nat /\ Cardinality(Letters) \in Nat
BY Sizes

LEMMA Distributes ==
  ASSUME NEW a \in Nat, NEW b \in Nat, NEW k \in Nat
  PROVE  a * (b + k) = a * b + a * k /\ a * b \in Nat /\ a * k \in Nat
OBVIOUS

\* What one code, so many marks and so long a wait are worth.
LEMMA SpentCode ==
  ASSUME NEW n \in Nat, NEW m \in Nat, NEW w \in Nat
  PROVE  Spent(n, m, w) \in Nat /\ Spent(n + 1, m, w) = Spent(n, m, w) + Unit
<1> DEFINE x == Unit * n
           y == REPEAT_ON * m
           z == Period * w
<1>1. x \in Nat /\ y \in Nat /\ z \in Nat /\ Unit \in Nat
  BY Sizes, Distributes
<1>2. Unit * (n + 1) = x + Unit
  BY <1>1
<1>3. Spent(n, m, w) = x + y + z /\ Spent(n + 1, m, w) = (x + Unit) + y + z
  BY <1>2 DEF Spent
<1> HIDE DEF x, y, z
<1> QED BY <1>1, <1>3

LEMMA SpentMarks ==
  ASSUME NEW n \in Nat, NEW m \in Nat, NEW w \in Nat, NEW k \in Nat
  PROVE  Spent(n, m + k, w) = Spent(n, m, w) + REPEAT_ON * k /\ REPEAT_ON * k \in Nat
<1> DEFINE x == Unit * n
           y == REPEAT_ON * m
           z == Period * w
           u == REPEAT_ON * k
<1>1. x \in Nat /\ y \in Nat /\ z \in Nat /\ u \in Nat
  BY Sizes, Distributes
<1>2. REPEAT_ON * (m + k) = y + u
  BY Sizes, Distributes
<1>3. Spent(n, m, w) = x + y + z /\ Spent(n, m + k, w) = x + (y + u) + z
  BY <1>2 DEF Spent
<1> HIDE DEF x, y, z, u
<1>4. Spent(n, m + k, w) = Spent(n, m, w) + u
  BY <1>1, <1>3
<1> QED BY <1>1, <1>4 DEF u

LEMMA SpentWait ==
  ASSUME NEW n \in Nat, NEW m \in Nat, NEW w \in Nat, NEW k \in Nat
  PROVE  Spent(n, m, w + k) = Spent(n, m, w) + Period * k /\ Period * k \in Nat
<1> DEFINE x == Unit * n
           y == REPEAT_ON * m
           z == Period * w
           u == Period * k
<1>1. x \in Nat /\ y \in Nat /\ z \in Nat /\ u \in Nat
  BY Sizes, Distributes
<1>2. Period * (w + k) = z + u
  BY Sizes, Distributes
<1>3. Spent(n, m, w) = x + y + z /\ Spent(n, m, w + k) = x + y + (z + u)
  BY <1>2 DEF Spent
<1> HIDE DEF x, y, z, u
<1>4. Spent(n, m, w + k) = Spent(n, m, w) + u
  BY <1>1, <1>3
<1> QED BY <1>1, <1>4 DEF u

\* A full wait is worth a code.
LEMMA FullWait ==
  ASSUME NEW n \in Nat, NEW m \in Nat, NEW w \in Nat
  PROVE  Spent(n, m, w + REPEAT_ON) = Spent(n, m, w) + Unit
<1>1. REPEAT_ON \in Nat
  BY Numbers
<1>2. Spent(n, m, w + REPEAT_ON) = Spent(n, m, w) + Period * REPEAT_ON
  BY <1>1, SpentWait
<1> QED BY <1>2, Sizes

\* More marks and a longer wait spend more.
LEMMA SpendingMore ==
  ASSUME NEW n \in Nat, NEW m \in Nat, NEW w \in Nat, NEW k \in Nat, NEW v \in Nat,
         m <= k, w <= v
  PROVE  Spent(n, m, w) <= Spent(n, k, v)
<1>1. PICK d \in Nat : k = m + d
  <2>1. k - m \in Nat /\ k = m + (k - m)
    OBVIOUS
  <2> QED BY <2>1
<1>2. PICK e \in Nat : v = w + e
  <2>1. v - w \in Nat /\ v = w + (v - w)
    OBVIOUS
  <2> QED BY <2>1
<1>3. Spent(n, k, v) = Spent(n, k, w) + Period * e
  BY <1>2, SpentWait
<1>4. Spent(n, k, w) = Spent(n, m, w) + REPEAT_ON * d
  BY <1>1, SpentMarks
<1>5. REPEAT_ON * d \in Nat /\ Period * e \in Nat /\ Spent(n, m, w) \in Nat
  BY SpentMarks, SpentWait, SpentCode
<1> QED BY <1>3, <1>4, <1>5

-----------------------------------------------------------------------------
LEMMA AgeType == CountsType => Ages \in [Keys -> 0..Period]
<1> SUFFICES ASSUME CountsType, NEW key \in Keys PROVE Age(key) \in 0..Period
  BY DEF Ages
<1>1. since[key] \in 0..DEBOUNCE /\ DEBOUNCE \in Nat /\ Period = DEBOUNCE + DEBOUNCE
  BY LetterCount DEF CountsType
<1>2. Due(key) \in 0..DEBOUNCE
  BY <1>1 DEF Due, AtMost
<1> QED BY <1>1, <1>2 DEF Age

LEMMA WaitType == SpacingInv => Waited \in Nat /\ Waited <= REPEAT_ON
BY RepeatAssumption DEF SpacingInv, Waited, AtMost

LEMMA BudgetType == Unit * Cardinality(Letters) \in Nat /\ Budget \in Nat
<1> DEFINE n == Cardinality(Letters)
           half == DEBOUNCE * REPEAT_ON
<1>1. Unit \in Nat /\ half \in Nat /\ n \in Nat
  BY Sizes
<1> HIDE DEF n, half
<1>2. Unit * n \in Nat
  BY <1>1
<1> QED BY <1>1, <1>2 DEF Budget, n, half

\* What the invariants say of the numbers that are spent.
LEMMA NumberTypes ==
  IInv /\ DebounceInv /\ SpacingInv
    => /\ Len(asdf_keycode_buffer) \in Nat /\ Ages \in [Keys -> 0..Period]
       /\ Waited \in Nat /\ Waited <= REPEAT_ON
BY AgeType, WaitType DEF IInv, TypeOK, DebounceInv

\* A step that takes no code and no letter nearer to one.
LEMMA NothingSpent ==
  ASSUME IInv, DebounceInv, SpacingInv, IInv', DebounceInv', SpacingInv', QueueInv,
         asdf_keycode_buffer' = asdf_keycode_buffer,
         \A key \in Letters : Age(key)' <= Age(key), Waited' <= Waited
  PROVE  QueueInv'
<1>1. /\ Len(asdf_keycode_buffer) \in Nat /\ Ages \in [Keys -> 0..Period] /\ Waited \in Nat
      /\ Ages' \in [Keys -> 0..Period] /\ Waited' \in Nat
  <2>1. /\ Len(asdf_keycode_buffer) \in Nat /\ Ages \in [Keys -> 0..Period] /\ Waited \in Nat
    BY NumberTypes
  <2>2. (Ages \in [Keys -> 0..Period])' /\ (Waited \in Nat)'
    BY NumberTypes, PTL
  <2> QED BY <2>1, <2>2
<1>2. \A key \in Letters : Ages'[key] <= Ages[key]
  BY DEF Ages, Letters
<1>3. Cardinality(Marks(Ages')) <= Cardinality(Marks(Ages))
  BY <1>1, <1>2, FewerMarks
<1>4. /\ Cardinality(Marks(Ages')) \in Nat /\ Cardinality(Marks(Ages)) \in Nat
      /\ Cardinality(Letters) \in Nat
  BY MarkCount, LetterCount
<1> DEFINE n == Len(asdf_keycode_buffer)
<1>5. Spent(n, Cardinality(Marks(Ages')), Waited') <= Spent(n, Cardinality(Marks(Ages)), Waited)
  BY <1>1, <1>3, <1>4, SpendingMore
<1>6. /\ Spent(n, Cardinality(Marks(Ages')), Waited') \in Nat
      /\ Spent(n, Cardinality(Marks(Ages)), Waited) \in Nat
      /\ Budget \in Nat
  BY <1>1, <1>4, SpentCode, BudgetType
<1>7. Spent(n, Cardinality(Marks(Ages)), Waited) <= Budget
  BY DEF QueueInv
<1>8. Spent(n, Cardinality(Marks(Ages')), Waited') <= Budget
  <2> HIDE DEF n
  <2> QED BY <1>5, <1>6, <1>7
<1> QED BY <1>8 DEF QueueInv, Marks

\* What all letters have earned when none has been typed for long.
LEMMA FullSpending ==
  /\ \A n \in Nat : Spent(n, 0, 0) = Unit * n
  /\ Spent(0, Cardinality(Letters) * Period, 0) = Unit * Cardinality(Letters)
<1> DEFINE n == Cardinality(Letters)
<1>1. n \in Nat /\ Period \in Nat /\ REPEAT_ON \in Nat /\ Unit \in Nat
  BY Sizes
<1> HIDE DEF n
<1>2. REPEAT_ON * 0 = 0 /\ Period * 0 = 0 /\ Unit * 0 = 0
  BY <1>1
<1>3. \A k \in Nat : Unit * k \in Nat
  BY <1>1
<1>4. REPEAT_ON * (n * Period) = Unit * n /\ REPEAT_ON * (n * Period) \in Nat
  BY <1>1 DEF Unit
<1>5. Spent(0, n * Period, 0) = Unit * n
  BY <1>2, <1>4 DEF Spent
<1> QED BY <1>2, <1>3, <1>5 DEF Spent, n

\* A letter that has earned a code finds room for it.
LEMMA RoomLeft ==
  ASSUME NEW n \in Nat, NEW m \in Nat, NEW w \in Nat, Spent(n, m, w) <= Budget,
         m >= Period \/ w >= REPEAT_ON
  PROVE  n < Cardinality(Letters)
<1> DEFINE k == Cardinality(Letters)
           half == DEBOUNCE * REPEAT_ON
<1>1. /\ Unit \in Nat /\ half \in Nat /\ k \in Nat /\ Unit * n \in Nat /\ Unit * k \in Nat
      /\ Unit = half + half /\ half > 0 /\ Period \in Nat /\ REPEAT_ON \in Nat
  BY Sizes, BudgetType, Distributes
<1>2. REPEAT_ON * Period = Unit /\ Period * REPEAT_ON = Unit
  BY Sizes
<1>3. Spent(n, 0, 0) + Unit <= Spent(n, m, w)
  <2>1. CASE m >= Period
    <3>1. Spent(n, 0 + Period, 0) = Spent(n, 0, 0) + Unit
      BY <1>1, <1>2, SpentMarks
    <3>2. Spent(n, 0 + Period, 0) <= Spent(n, m, w)
      BY <1>1, <2>1, SpendingMore
    <3> QED BY <3>1, <3>2
  <2>2. CASE w >= REPEAT_ON
    <3>1. Spent(n, 0, 0 + REPEAT_ON) = Spent(n, 0, 0) + Unit
      BY FullWait
    <3>2. Spent(n, 0, 0 + REPEAT_ON) <= Spent(n, m, w)
      BY <1>1, <2>2, SpendingMore
    <3> QED BY <3>1, <3>2
  <2> QED BY <2>1, <2>2
<1>4. Spent(n, 0, 0) = Unit * n /\ Spent(n, m, w) \in Nat /\ Budget = Unit * k + half
  BY FullSpending, SpentCode DEF Budget
<1>5. Unit * n < Unit * k
  <2> HIDE DEF k, half
  <2>1. Unit * n + Unit <= Unit * k + half
    BY <1>1, <1>3, <1>4
  <2> QED BY <1>1, <2>1
<1>6. CASE n >= k
  <2>1. PICK e \in Nat : n = k + e
    <3>1. n - k \in Nat /\ n = k + (n - k)
      BY <1>1, <1>6
    <3> QED BY <3>1
  <2> HIDE DEF k, half
  <2>2. Unit * n = Unit * k + Unit * e /\ Unit * e \in Nat
    BY <1>1, <2>1
  <2> QED BY <1>1, <1>5, <2>2
<1> QED BY <1>1, <1>6

\* A code more is paid for by a letter's marks, or by the wait of the one held.
LEMMA CodeSpent ==
  ASSUME NEW n \in Nat, NEW m \in Nat, NEW w \in Nat, NEW k \in Nat, NEW v \in Nat,
         \/ k + Period <= m /\ v <= w
         \/ k <= m /\ v + REPEAT_ON <= w
  PROVE  Spent(n + 1, k, v) <= Spent(n, m, w)
<1>1. /\ Unit \in Nat /\ Period \in Nat /\ REPEAT_ON \in Nat
      /\ Spent(n, k, v) \in Nat /\ Spent(n, m, w) \in Nat
      /\ Spent(n + 1, k, v) = Spent(n, k, v) + Unit
  BY Numbers, SpentCode
<1>2. REPEAT_ON * Period = Unit /\ Period * REPEAT_ON = Unit
  BY Sizes
<1>3. CASE k + Period <= m /\ v <= w
  <2>1. Spent(n, k + Period, v) = Spent(n, k, v) + Unit
    BY <1>1, <1>2, SpentMarks
  <2>2. Spent(n, k + Period, v) <= Spent(n, m, w)
    BY <1>1, <1>3, SpendingMore
  <2> QED BY <1>1, <2>1, <2>2
<1>4. CASE k <= m /\ v + REPEAT_ON <= w
  <2>1. Spent(n, k, v + REPEAT_ON) = Spent(n, k, v) + Unit
    BY FullWait
  <2>2. Spent(n, k, v + REPEAT_ON) <= Spent(n, m, w)
    BY <1>1, <1>4, SpendingMore
  <2> QED BY <1>1, <2>1, <2>2
<1> QED BY <1>3, <1>4

\* A scan that takes a code pays for what it earns the letters.
LEMMA ScanSpent ==
  ASSUME SlowEnough, NEW n \in Nat, NEW m \in Nat, NEW w \in Nat, NEW k \in Nat, NEW v \in Nat,
         k <= m + Cardinality(Letters), v <= w + 1
  PROVE  Spent(n, k, v) <= Spent(n + 1, m, w)
<1> DEFINE l == Cardinality(Letters)
<1>1. /\ Unit \in Nat /\ Period \in Nat /\ REPEAT_ON \in Nat /\ l \in Nat
      /\ Spent(n, k, v) \in Nat /\ Spent(n, m, w) \in Nat
      /\ Spent(n + 1, m, w) = Spent(n, m, w) + Unit
  BY Numbers, SpentCode
<1>2. REPEAT_ON * l = l * REPEAT_ON /\ REPEAT_ON * l \in Nat /\ Period * 1 = Period
  BY <1>1
<1>3. REPEAT_ON * l + Period <= Unit
  BY <1>2 DEF SlowEnough
<1>4. m + l \in Nat /\ w + 1 \in Nat /\ k <= m + l
  BY <1>1
<1> HIDE DEF l
<1>5. Spent(n, k, v) <= Spent(n, m + l, w + 1)
  BY <1>4, SpendingMore
<1>6. Spent(n, m + l, w + 1) = Spent(n, m + l, w) + Period
  BY <1>2, <1>4, SpentWait
<1>7. Spent(n, m + l, w) = Spent(n, m, w) + REPEAT_ON * l
  BY <1>1, SpentMarks
<1> QED BY <1>1, <1>2, <1>3, <1>5, <1>6, <1>7

\* With an empty queue the letters have earned what they can.
LEMMA EmptySpent ==
  ASSUME NEW m \in Nat, NEW w \in Nat,
         \/ m <= Cardinality(Letters) * Period /\ w = 0
         \/ m + DEBOUNCE <= Cardinality(Letters) * Period /\ w <= REPEAT_ON
  PROVE  Spent(0, m, w) <= Budget
<1> DEFINE l == Cardinality(Letters)
           all == l * Period
           half == DEBOUNCE * REPEAT_ON
<1>1. /\ Unit \in Nat /\ Period \in Nat /\ REPEAT_ON \in Nat /\ DEBOUNCE \in Nat /\ l \in Nat
      /\ half \in Nat /\ Unit = half + half /\ Unit * l \in Nat
      /\ Spent(0, m, w) \in Nat
  BY Sizes, SpentCode, LetterCount, BudgetType
<1>2. all \in Nat
  <2> HIDE DEF l
  <2> QED BY <1>1
<1>3. Spent(0, all, 0) = Unit * l /\ Budget = Unit * l + half
  BY FullSpending DEF Budget
<1>4. REPEAT_ON * DEBOUNCE = half /\ Period * REPEAT_ON = Unit
  BY Sizes
<1> HIDE DEF all
<1>5. CASE m <= all /\ w = 0
  <2>1. Spent(0, m, w) <= Spent(0, all, 0)
    BY <1>2, <1>5, SpendingMore
  <2> QED BY <1>1, <1>3, <2>1
<1>6. CASE m + DEBOUNCE <= all /\ w <= REPEAT_ON
  <2>1. Spent(0, m, w) <= Spent(0, m, REPEAT_ON)
    BY <1>1, <1>6, SpendingMore
  <2>2. Spent(0, m, 0 + REPEAT_ON) = Spent(0, m, 0) + Unit
    BY <1>1, FullWait
  <2>3. Spent(0, m + DEBOUNCE, 0) = Spent(0, m, 0) + half
    BY <1>1, <1>4, SpentMarks
  <2>4. Spent(0, m + DEBOUNCE, 0) <= Spent(0, all, 0)
    BY <1>1, <1>2, <1>6, SpendingMore
  <2>5. Spent(0, m, 0) \in Nat /\ 0 + REPEAT_ON = REPEAT_ON
    BY <1>1, SpentCode
  <2> HIDE DEF l, half
  <2> QED BY <1>1, <1>3, <2>1, <2>2, <2>3, <2>4, <2>5
<1> QED BY <1>5, <1>6 DEF all

-----------------------------------------------------------------------------
\* Nothing but ticks, presses and releases change an age.
LEMMA AgesStay ==
  ASSUME IInv, DebounceInv,
         \/ TimedNextRow
         \/ TimedRepeat
         \/ (KeySettles \/ KeyHeld \/ EndScan) /\ UNCHANGED history,
         NEW key \in Keys
  PROVE  Age(key)' = Age(key)
<1>1. /\ last_stable_key_state' = last_stable_key_state
      /\ since[key] \in 0..DEBOUNCE /\ DEBOUNCE \in Nat /\ row \in Nat
      /\ key[1] \in 0..(NumRows - 1) /\ NumRows \in Nat
  BY LetterCount, KeyscanAssumption DEF TimedNextRow, NextRow, TimedRepeat, KeyRepeats, KeySettles, KeyHeld,
    EndScan, keyVars, DebounceInv, CountsType, IInv, TypeOK, Keys, Rows
<1>2. Due(key)' = Due(key)
  <2>1. CASE TimedNextRow
    <3>1. /\ row' = row + 1
          /\ since'[key] = IF key[1] = row + 1 THEN AtMost(DEBOUNCE, since[key] + 1) ELSE since[key]
      BY <2>1 DEF TimedNextRow, NextRow, ReadRow, Reading
    <3> QED BY <1>1, <3>1 DEF Due, AtMost
  <2>2. CASE TimedRepeat \/ ((KeySettles \/ KeyHeld) /\ UNCHANGED history)
    BY <2>2 DEF TimedRepeat, KeyRepeats, KeySettles, KeyHeld, Turn, history, Due, AtMost
  <2>3. CASE EndScan /\ UNCHANGED history
    <3>1. row = NumRows - 1 /\ row' = NumRows /\ since'[key] = since[key]
      BY <2>3 DEF EndScan, history
    <3>2. ~(row < key[1]) /\ ~(row' < key[1])
      BY <1>1, <3>1
    <3> QED BY <1>1, <3>1, <3>2 DEF Due, AtMost
  <2> QED BY <2>1, <2>2, <2>3
<1> QED BY <1>1, <1>2 DEF Age, Stable

\* A wait is not longer for a key that no longer repeats.
LEMMA WaitStays ==
  ASSUME OneCodeEach, SpacingInv, quiet' = quiet, last_key' \in {last_key, NOTHING}
  PROVE  Waited' <= Waited
<1>1. \A key \in Keys : Owns(key)' => Owns(key)
  BY DEF Owns, OneCodeEach
<1>2. quiet \in Nat /\ REPEAT_ON \in Nat
  BY RepeatAssumption DEF SpacingInv
<1>3. AtMost(REPEAT_ON, quiet) \in Nat
  BY <1>2 DEF AtMost
<1> QED BY <1>1, <1>3 DEF Waited

\* The invariants that the rest builds on.
SoFar == IInv /\ DebounceInv /\ SpacingInv

\* What the queue holds, and what room there is for a code.
LEMMA QueueGrows ==
  ASSUME SoFar, NEW code, put_code(code), Len(asdf_keycode_buffer) < BufferSize
  PROVE  /\ Len(asdf_keycode_buffer') = Len(asdf_keycode_buffer) + 1
         /\ asdf_keycode_buffer' # asdf_keycode_buffer
         /\ Len(asdf_keycode_buffer) \in Nat
<1>1. /\ asdf_keycode_buffer \in Seq(Sendable) /\ Len(asdf_keycode_buffer) \in Nat
      /\ asdf_keycode_buffer' = Append(asdf_keycode_buffer, code)
  BY DEF SoFar, IInv, TypeOK, put_code
<1>2. Len(asdf_keycode_buffer') = Len(asdf_keycode_buffer) + 1
  BY <1>1
<1> QED BY <1>1, <1>2

\* No key prints, and so no message ever keeps codes waiting.
Silent == \A key \in Keys : CodeOf(key) \notin Printing
NoMessage == asdf_message_buffer = 0

LEMMA NoMessageKept ==
  ASSUME OneCodeEach, Silent, IInv, NoMessage, [TimedNext]_timedVars PROVE NoMessage'
<1>1. CASE KeyPress
  <2> DEFINE code == lookup_keycode(Current)
  <2>1. activate_key(code)
    BY <1>1 DEF KeyPress
  <2>2. cols_left # {} /\ Current \in Keys
    <3>1. cols_left # {}
      BY <1>1 DEF KeyPress, Debounced, RunsOut
    <3> QED BY <3>1, CurrentIsKey DEF IInv
  <2>3. code = CodeOf(Current)
    BY <2>2, IndexType DEF lookup_keycode, OneCodeEach, IInv, TypeOK
  <2>4. code \notin Printing
    BY <2>2, <2>3 DEF Silent
  <2> HIDE DEF code
  <2> QED BY <2>1, <2>4 DEF activate_key, asdf_print, NoMessage
<1>2. CASE KeyRelease
  BY <1>2 DEF KeyRelease, deactivate_key, NoMessage
<1>3. CASE Tick
  BY <1>3 DEF Tick, asdf_next_code, NoMessage
<1>4. CASE KeySettles \/ KeyHeld \/ KeyRepeats \/ NextRow \/ EndScan \/ UNCHANGED timedVars
  BY <1>4 DEF KeySettles, KeyHeld, KeyRepeats, NextRow, EndScan, timedVars, vars, codeVars,
              NoMessage
<1> QED BY <1>1, <1>2, <1>3, <1>4
        DEF TimedNext, TimedTick, TimedNextRow, TimedChange, TimedRepeat, Untimed

\* A scan that begins takes a code from the queue, or finds it empty.
LEMMA TickSpends ==
  ASSUME OneCodeEach, SlowEnough, SoFar, SoFar', NoMessage, QueueInv, TimedTick
  PROVE  QueueInv'
<1>1. /\ Len(asdf_keycode_buffer) \in Nat /\ Ages \in [Keys -> 0..Period] /\ Waited \in Nat
      /\ Ages' \in [Keys -> 0..Period] /\ Waited' \in Nat /\ Waited' <= REPEAT_ON
  <2>1. /\ Len(asdf_keycode_buffer) \in Nat /\ Ages \in [Keys -> 0..Period] /\ Waited \in Nat
    BY NumberTypes DEF SoFar
  <2>2. /\ (IInv /\ DebounceInv /\ SpacingInv)'
    BY DEF SoFar
  <2>3. (Ages \in [Keys -> 0..Period])' /\ (Waited \in Nat)' /\ (Waited <= REPEAT_ON)'
    BY <2>2, NumberTypes, PTL
  <2> QED BY <2>1, <2>3
<1>2. /\ row = NumRows /\ row' = 0 /\ NumRows \in Nat
      /\ last_stable_key_state' = last_stable_key_state /\ last_key' = last_key
      /\ quiet' = AtMost(REPEAT_AUTO, quiet + 1) /\ quiet \in 0..REPEAT_AUTO
      /\ \A key \in Keys :
           since'[key] = IF key[1] = 0 THEN AtMost(DEBOUNCE, since[key] + 1) ELSE since[key]
  BY KeyscanAssumption
     DEF TimedTick, Tick, ReadRow, Reading, BetweenScans, keyVars, SoFar, SpacingInv
<1>3. ASSUME NEW key \in Letters PROVE Ages'[key] <= Ages[key] + 1
  <2>1. /\ since[key] \in 0..DEBOUNCE /\ DEBOUNCE \in Nat /\ key[1] \in 0..(NumRows - 1)
        /\ key \in Keys
    BY LetterCount DEF SoFar, DebounceInv, CountsType, Letters, Keys, Rows
  <2>2. Due(key) = since[key]
    BY <1>2, <2>1 DEF Due, AtMost
  <2>3. Due(key)' <= since[key] + 1 /\ Due(key)' \in Nat
    BY <1>2, <2>1 DEF Due, AtMost
  <2>4. Age(key)' <= Age(key) + 1
    BY <1>2, <2>1, <2>2, <2>3 DEF Age, Stable
  <2> QED BY <2>1, <2>4 DEF Ages
<1> DEFINE m == Cardinality(Marks(Ages))
           k == Cardinality(Marks(Ages'))
<1>4. k <= m + Cardinality(Letters) /\ m \in Nat /\ k \in Nat
  BY <1>1, <1>3, MoreMarks, MarkCount
<1>5. Waited' <= Waited + 1
  <2>1. \A key \in Keys : Owns(key)' <=> Owns(key)
    BY <1>2 DEF Owns
  <2>2. quiet' <= quiet + 1 /\ quiet' \in Nat /\ quiet \in Nat /\ REPEAT_ON \in Nat
    BY <1>2, RepeatAssumption DEF AtMost
  <2>3. AtMost(REPEAT_ON, quiet') <= AtMost(REPEAT_ON, quiet) + 1
    BY <2>2 DEF AtMost
  <2> QED BY <2>1, <2>3 DEF Waited
<1>6. Spent(Len(asdf_keycode_buffer'), k, Waited') <= Budget
  <2>1. CASE asdf_keycode_buffer # <<>>
    <3> DEFINE n == Len(asdf_keycode_buffer')
    <3>1. n \in Nat /\ Len(asdf_keycode_buffer) = n + 1
      BY <2>1 DEF TimedTick, Tick, asdf_next_code, NoMessage, SoFar, IInv, TypeOK
    <3> HIDE DEF n, m, k
    <3>2. Spent(n, k, Waited') <= Spent(n + 1, m, Waited)
      BY <1>1, <1>4, <1>5, <3>1, ScanSpent
    <3>3. Spent(n + 1, m, Waited) <= Budget
      BY <3>1 DEF QueueInv, m
    <3>4. /\ Spent(n, k, Waited') \in Nat /\ Budget \in Nat
          /\ Spent(n + 1, m, Waited) \in Nat
      <4>1. n + 1 \in Nat
        BY <3>1
      <4> QED BY <1>1, <1>4, <3>1, <4>1, SpentCode, BudgetType
    <3>5. Spent(n, k, Waited') <= Budget
      BY <3>2, <3>3, <3>4
    <3> QED BY <3>5 DEF n, k
  <2>2. CASE asdf_keycode_buffer = <<>>
    <3>1. Len(asdf_keycode_buffer') = 0
      BY <2>2 DEF TimedTick, Tick, asdf_next_code
    <3>2. CASE \E key \in Keys : Owns(key)
      <4>1. PICK c \in Keys : Owns(c)
        BY <3>2
      <4>2. c \in Letters /\ Stable(c)
        BY <4>1 DEF Letters, Owns, SoFar, SpacingInv, IInv, TypeOK
      <4>3. Ages'[c] <= DEBOUNCE
        <5>1. Stable(c)' /\ since'[c] \in 0..DEBOUNCE /\ DEBOUNCE \in Nat
          BY <1>2, <4>2, LetterCount DEF Stable, SoFar, DebounceInv, CountsType
        <5>2. Due(c)' <= DEBOUNCE
          BY <5>1 DEF Due, AtMost
        <5> QED BY <5>1, <5>2 DEF Ages, Age
      <4>4. k + DEBOUNCE <= Cardinality(Letters) * Period
        BY <1>1, <4>2, <4>3, HeldMarks
      <4> HIDE DEF k
      <4> QED BY <1>1, <1>4, <3>1, <4>4, EmptySpent
    <3>3. CASE ~\E key \in Keys : Owns(key)
      <4>1. Waited' = 0
        BY <1>2, <3>3 DEF Waited, Owns
      <4>2. k <= Cardinality(Letters) * Period
        BY MarkCount
      <4> HIDE DEF k
      <4> QED BY <1>4, <3>1, <4>1, <4>2, EmptySpent
    <3> QED BY <3>2, <3>3
  <2> QED BY <2>1, <2>2
<1> QED BY <1>6 DEF QueueInv, Marks

\* A letter that is typed has waited through a release, and finds room.
LEMMA TypedSpends ==
  ASSUME OneCodeEach, Cardinality(Letters) <= BufferSize, SoFar, SoFar', QueueInv,
         TimedChange, KeyPress, TypedCode
  PROVE  QueueInv' /\ asdf_keycode_buffer' # asdf_keycode_buffer
<1>1. PICK c \in Keys : c = Current
  BY CurrentCode DEF SoFar, KeyPress, Debounced, RunsOut
<1>2. /\ lookup_keycode(Current) = CodeOf(c) /\ c \in Letters /\ CodeOf(c) \notin Actions
      /\ cols_left # {} /\ Turn
  <2>1. cols_left # {} /\ Turn
    BY DEF KeyPress, Debounced, RunsOut
  <2>2. lookup_keycode(Current) = CodeOf(c)
    BY <1>1, <2>1, CurrentCode DEF SoFar
  <2> QED BY <2>1, <2>2, KeyscanAssumption DEF TypedCode, Letters
<1>3. /\ put_code(CodeOf(c)) /\ quiet' = 0 /\ since' = [since EXCEPT ![c] = 0] /\ row' = row
  BY <1>1, <1>2 DEF TimedChange, KeyPress, activate_key, Turn
<1>4. /\ Len(asdf_keycode_buffer) \in Nat /\ Ages \in [Keys -> 0..Period] /\ Waited \in Nat
      /\ Ages' \in [Keys -> 0..Period]
  <2>1. /\ Len(asdf_keycode_buffer) \in Nat /\ Ages \in [Keys -> 0..Period] /\ Waited \in Nat
    BY NumberTypes DEF SoFar
  <2>2. (IInv /\ DebounceInv /\ SpacingInv)'
    BY DEF SoFar
  <2>3. (Ages \in [Keys -> 0..Period])'
    BY <2>2, NumberTypes, PTL
  <2> QED BY <2>1, <2>3
<1>5. /\ ~Stable(c) /\ \A key \in Keys : Stable(key)' <=> Stable(key) \/ key = c
      /\ since[c] >= DEBOUNCE
  BY <1>1, PressedKey, ChangeFacts DEF SoFar
<1>6. /\ since \in [Keys -> 0..DEBOUNCE] /\ DEBOUNCE \in Nat /\ Period = DEBOUNCE + DEBOUNCE
      /\ c[1] = row /\ row \in Nat
  BY <1>1, <1>2, CurrentIsKey, LetterCount DEF SoFar, IInv, TypeOK, DebounceInv, CountsType
<1>7. Ages[c] = Period
  <2>1. Due(c) = DEBOUNCE
    BY <1>5, <1>6 DEF Due, AtMost
  <2> QED BY <1>5, <1>6, <2>1 DEF Ages, Age
<1>8. Ages'[c] = 0
  <2>1. since'[c] = 0 /\ Stable(c)'
    BY <1>3, <1>5, <1>6
  <2>2. Due(c)' = 0
    BY <1>3, <1>6, <2>1 DEF Due, AtMost
  <2> QED BY <2>1, <2>2 DEF Ages, Age
<1>9. \A key \in Letters : Ages'[key] <= Ages[key]
  <2> SUFFICES ASSUME NEW key \in Letters, key # c PROVE Ages'[key] <= Ages[key]
    BY <1>4, <1>7, <1>8, <1>6
  <2>1. key \in Keys /\ since'[key] = since[key] /\ (Stable(key)' <=> Stable(key))
    BY <1>3, <1>5, <1>6 DEF Letters
  <2>2. Age(key)' = Age(key)
    BY <1>3, <2>1 DEF Age, Due
  <2>3. Ages'[key] = Ages[key]
    BY <2>1, <2>2 DEF Ages
  <2>4. Ages[key] \in Int
    BY <1>4, <1>6, <2>1
  <2> QED BY <2>3, <2>4
<1>10. Waited' = 0
  BY <1>3, RepeatAssumption DEF Waited, AtMost, REPEAT_OFF
<1> DEFINE n == Len(asdf_keycode_buffer)
           m == Cardinality(Marks(Ages))
           k == Cardinality(Marks(Ages'))
<1>11. k + Period <= m /\ m \in Nat /\ k \in Nat
  BY <1>2, <1>4, <1>7, <1>8, <1>9, TypedMarks, MarkCount
<1>12. n \in Nat /\ Spent(n, m, Waited) <= Budget
  BY <1>4 DEF QueueInv
<1>13. n < BufferSize
  <2>1. m >= Period /\ BufferSize \in Nat
    BY <1>6, <1>11, KeyscanAssumption
  <2>2. n < Cardinality(Letters)
    <3> HIDE DEF n, m, k
    <3> QED BY <1>4, <1>11, <1>12, <2>1, RoomLeft
  <2> QED BY <1>12, <2>1, <2>2, Numbers
<1>14. Len(asdf_keycode_buffer') = n + 1 /\ asdf_keycode_buffer' # asdf_keycode_buffer
  BY <1>3, <1>13, QueueGrows
<1>15. Spent(n + 1, k, 0) <= Budget
  <2> HIDE DEF n, m, k
  <2>1. Spent(n + 1, k, 0) <= Spent(n, m, Waited)
    BY <1>4, <1>11, <1>12, CodeSpent
  <2>2. n + 1 \in Nat
    BY <1>12
  <2>3. Spent(n + 1, k, 0) \in Nat /\ Spent(n, m, Waited) \in Nat /\ Budget \in Nat
    BY <1>4, <1>11, <1>12, <2>2, SpentCode, BudgetType
  <2> QED BY <1>12, <2>1, <2>3
<1> QED BY <1>10, <1>14, <1>15 DEF QueueInv, Marks

\* A letter that repeats has waited for the timer, and finds room.
LEMMA RepeatSpends ==
  ASSUME OneCodeEach, Cardinality(Letters) <= BufferSize, SoFar, SoFar', QueueInv, TimedRepeat
  PROVE  QueueInv' /\ asdf_keycode_buffer' # asdf_keycode_buffer
<1>1. KeyRepeats /\ cols_left # {} /\ put_code(last_key) /\ quiet' = 0
  BY DEF TimedRepeat, KeyRepeats
<1>2. PICK c \in Keys : c = Current /\ Owns(c)
  <2>1. Current \in Keys /\ lookup_keycode(Current) = CodeOf(Current)
    BY <1>1, CurrentCode DEF SoFar
  <2> QED BY <1>1, <2>1 DEF KeyRepeats, Repeats, Owns
<1>3. quiet \in Nat /\ quiet >= REPEAT_ON /\ REPEAT_ON \in Nat
  <2>1. /\ quiet \in Nat /\ quiet >= WaitFor(repeat, repeated)
        /\ WaitFor(repeat, repeated) >= REPEAT_ON /\ WaitFor(repeat, repeated) \in Nat
    BY <1>1, RepeatIsFar, RepeatAssumption DEF SoFar, WaitFor
  <2> QED BY <2>1, RepeatAssumption
<1>4. Waited = REPEAT_ON /\ Waited' = 0
  <2>1. Waited = REPEAT_ON
    BY <1>2, <1>3 DEF Waited, AtMost
  <2>2. Waited' = 0
    BY <1>1, RepeatAssumption DEF Waited, AtMost, REPEAT_OFF
  <2> QED BY <2>1, <2>2
<1>5. \A key \in Keys : Age(key)' = Age(key)
  BY AgesStay DEF SoFar
<1>6. Ages' = Ages
  BY <1>5 DEF Ages
<1> DEFINE n == Len(asdf_keycode_buffer)
           m == Cardinality(Marks(Ages))
<1>7. m \in Nat /\ n \in Nat /\ Spent(n, m, REPEAT_ON) <= Budget
  BY <1>4, MarkCount, NumberTypes DEF SoFar, QueueInv
<1>8. n < BufferSize
  <2>1. n < Cardinality(Letters)
    <3> HIDE DEF n, m
    <3> QED BY <1>3, <1>7, RoomLeft
  <2> QED BY <1>7, <2>1, Numbers, KeyscanAssumption
<1>9. Len(asdf_keycode_buffer') = n + 1 /\ asdf_keycode_buffer' # asdf_keycode_buffer
  BY <1>1, <1>8, QueueGrows
<1>10. Spent(n + 1, m, 0) <= Budget
  <2> HIDE DEF n, m
  <2>1. Spent(n + 1, m, 0) <= Spent(n, m, REPEAT_ON)
    BY <1>3, <1>7, CodeSpent
  <2>2. n + 1 \in Nat
    BY <1>7
  <2>3. Spent(n + 1, m, 0) \in Nat /\ Spent(n, m, REPEAT_ON) \in Nat /\ Budget \in Nat
    BY <1>3, <1>7, <2>2, SpentCode, BudgetType
  <2> QED BY <1>7, <2>1, <2>3
<1> QED BY <1>4, <1>6, <1>9, <1>10 DEF QueueInv, Marks

\* Other presses and all releases take no letter nearer to a code.
LEMMA ChangeSpends ==
  ASSUME OneCodeEach, SoFar, SoFar', QueueInv, TimedChange, ~(KeyPress /\ TypedCode)
  PROVE  QueueInv'
<1>1. PICK c \in Keys : c = Current
  BY CurrentCode DEF SoFar, TimedChange, KeyPress, KeyRelease, Debounced, RunsOut
<1>2. /\ cols_left # {} /\ row' = row /\ quiet' = quiet
      /\ since' = [since EXCEPT ![c] = 0]
      /\ lookup_keycode(c) = CodeOf(c) /\ CodeOf(c) \in Actions \union Sendable
      /\ last_key \in Sendable
  <2>1. /\ cols_left # {} /\ row' = row /\ quiet' = quiet /\ since' = [since EXCEPT ![c] = 0]
    BY <1>1 DEF TimedChange, KeyPress, KeyRelease, Debounced, RunsOut, Turn
  <2>2. lookup_keycode(c) = CodeOf(c)
    BY <1>1, <2>1, CurrentCode DEF SoFar
  <2> QED BY <1>1, <2>1, <2>2, CodeType DEF SoFar, IInv, TypeOK
<1>3. /\ since \in [Keys -> 0..DEBOUNCE] /\ since[c] >= DEBOUNCE
      /\ DEBOUNCE \in Nat /\ c[1] = row /\ row \in Nat
  BY <1>1, <1>2, CurrentIsKey, LetterCount, ChangeFacts
     DEF SoFar, IInv, TypeOK, DebounceInv, CountsType
<1>4. ASSUME NEW key \in Keys, key # c, Stable(key)' <=> Stable(key) PROVE Age(key)' <= Age(key)
  <2>1. since'[key] = since[key] /\ since[key] \in Nat
    BY <1>2, <1>3, <1>4
  <2>2. Age(key)' = Age(key)
    BY <1>2, <1>4, <2>1 DEF Age, Due
  <2>3. Age(key) \in Nat
    BY <1>3, <2>1 DEF Age, Due, AtMost
  <2> QED BY <2>2, <2>3
<1>5. CASE KeyPress
  <2>1. CodeOf(c) \in Actions /\ c \notin Letters
    BY <1>1, <1>2, <1>5, KeyscanAssumption DEF TypedCode, Letters
  <2>2. last_key' = last_key /\ asdf_keycode_buffer' = asdf_keycode_buffer
    BY <1>1, <1>2, <1>5, <2>1, KeyscanAssumption DEF KeyPress, activate_key
  <2>3. \A key \in Keys : key # c => (Stable(key)' <=> Stable(key))
    BY <1>1, <1>5, PressedKey DEF SoFar
  <2>4. \A key \in Letters : Age(key)' <= Age(key)
    BY <1>4, <2>1, <2>3 DEF Letters
  <2>5. Waited' <= Waited
    BY <1>2, <2>2, WaitStays DEF SoFar
  <2> QED BY <2>2, <2>4, <2>5, NothingSpent DEF SoFar
<1>6. CASE KeyRelease
  <2>1. last_key' \in {last_key, NOTHING} /\ asdf_keycode_buffer' = asdf_keycode_buffer
    BY <1>6 DEF KeyRelease, deactivate_key
  <2>2. /\ Stable(c) /\ ~Stable(c)'
        /\ \A key \in Keys : key # c => (Stable(key)' <=> Stable(key))
    BY <1>1, <1>6, ReleasedKey DEF SoFar
  <2>3. Age(c)' <= Age(c)
    <3>1. Due(c) = DEBOUNCE
      BY <1>3 DEF Due, AtMost
    <3>2. since'[c] = 0
      BY <1>2, <1>3
    <3>3. Due(c)' = 0
      BY <1>2, <1>3, <3>2 DEF Due, AtMost
    <3> QED BY <1>3, <2>2, <3>1, <3>3 DEF Age
  <2>4. \A key \in Letters : Age(key)' <= Age(key)
    BY <1>4, <2>2, <2>3 DEF Letters
  <2>5. Waited' <= Waited
    BY <1>2, <2>1, WaitStays DEF SoFar
  <2> QED BY <2>1, <2>4, <2>5, NothingSpent DEF SoFar
<1> QED BY <1>5, <1>6 DEF TimedChange

\* The other steps only go through the matrix.
LEMMA OtherStepsSpend ==
  ASSUME OneCodeEach, SoFar, SoFar', QueueInv,
         TimedNextRow \/ ((KeySettles \/ KeyHeld \/ EndScan) /\ UNCHANGED history)
  PROVE  QueueInv'
<1>1. last_key' = last_key /\ asdf_keycode_buffer' = asdf_keycode_buffer /\ quiet' = quiet
  BY DEF TimedNextRow, NextRow, KeySettles, KeyHeld, EndScan, history, codeVars
<1>2. ASSUME NEW key \in Letters PROVE Age(key)' <= Age(key)
  <2>1. key \in Keys
    BY DEF Letters
  <2>2. Age(key)' = Age(key)
    BY <2>1, AgesStay DEF SoFar
  <2>3. Age(key) \in Nat
    BY <2>1, LetterCount DEF SoFar, DebounceInv, CountsType, Age, Due, AtMost
  <2> QED BY <2>2, <2>3
<1>3. Waited' <= Waited
  BY <1>1, WaitStays DEF SoFar
<1> QED BY <1>1, <1>2, <1>3, NothingSpent DEF SoFar

\* asdf_init: nothing is queued, and every letter may be typed.
LEMMA QueueInit == ASSUME OneCodeEach, TimedInit PROVE QueueInv
<1>1. Len(asdf_keycode_buffer) = 0
  BY DEF TimedInit, Init
<1>2. Waited = 0
  BY DEF TimedInit, Init, Waited, Owns, OneCodeEach
<1>3. /\ Cardinality(Marks(Ages)) \in Nat
      /\ Cardinality(Marks(Ages)) <= Cardinality(Letters) * Period
  BY MarkCount
<1> QED BY <1>1, <1>2, <1>3, EmptySpent DEF QueueInv


\* The invariant of the queue.
THEOREM QueueInvariant ==
  ASSUME OneCodeEach, Silent, Cardinality(Letters) <= BufferSize, SlowEnough
  PROVE  TimedSpec => [](SoFar /\ NoMessage /\ QueueInv)
<1>1. TimedInit => QueueInv
  BY OneCodeEach, QueueInit
<1>2. SoFar /\ SoFar' /\ NoMessage /\ QueueInv /\ [TimedNext]_timedVars => QueueInv'
  <2> SUFFICES ASSUME SoFar, SoFar', NoMessage, QueueInv, [TimedNext]_timedVars
               PROVE  QueueInv'
    OBVIOUS
  <2>1. CASE TimedTick
    BY OneCodeEach, SlowEnough, <2>1, TickSpends
  <2>2. CASE TimedChange
    BY OneCodeEach, Cardinality(Letters) <= BufferSize, <2>2, TypedSpends, ChangeSpends
  <2>3. CASE TimedRepeat
    BY OneCodeEach, Cardinality(Letters) <= BufferSize, <2>3, RepeatSpends
  <2>4. CASE TimedNextRow \/ Untimed
    <3>1. TimedNextRow \/ ((KeySettles \/ KeyHeld \/ EndScan) /\ UNCHANGED history)
      BY <2>4 DEF Untimed
    <3> QED BY OneCodeEach, <3>1, OtherStepsSpend
  <2>5. CASE UNCHANGED timedVars
    <3>1. /\ last_stable_key_state' = last_stable_key_state /\ last_key' = last_key
          /\ asdf_keycode_buffer' = asdf_keycode_buffer /\ row' = row
          /\ since' = since /\ quiet' = quiet
      BY <2>5 DEF timedVars, vars, keyVars, codeVars, scanVars, history
    <3>2. Ages' = Ages /\ Waited' = Waited
      BY <3>1 DEF Ages, Age, Due, Stable, Waited, Owns
    <3> QED BY <3>1, <3>2 DEF QueueInv, Marks
  <2> QED BY <2>1, <2>2, <2>3, <2>4, <2>5 DEF TimedNext
<1>3. SoFar <=> IInv /\ DebounceInv /\ SpacingInv
  BY DEF SoFar
<1>4. TimedInit => NoMessage
  BY DEF TimedInit, Init, NoMessage
<1>5. SoFar /\ NoMessage /\ [TimedNext]_timedVars => NoMessage'
  BY OneCodeEach, Silent, NoMessageKept DEF SoFar
<1> QED BY OneCodeEach, <1>1, <1>2, <1>3, <1>4, <1>5, TimedInvariant, SpacingInvariant, PTL DEF TimedSpec

\* With no more letters than the queue has room for, and no key that prints a
\* message, no code is lost at it, whatever is typed and held.
THEOREM CodesAreNotLost ==
  ASSUME OneCodeEach, Silent, Cardinality(Letters) <= BufferSize, SlowEnough
  PROVE  TimedSpec => NoCodeLost
<1> DEFINE Queues == (KeyPress /\ lookup_keycode(Current) \in Sendable) \/ KeyRepeats
<1>1. ASSUME SoFar, SoFar', QueueInv, TimedNext, Queues
      PROVE  asdf_keycode_buffer' # asdf_keycode_buffer
  <2>1. cols_left # {} /\ Current \in Keys /\ ~BetweenScans
    <3>1. cols_left # {}
      BY <1>1 DEF KeyPress, KeyRepeats, Debounced, RunsOut
    <3> QED BY <1>1, <3>1, CurrentCode DEF SoFar, IInv, TurnsPending
  <2>2. ~TimedTick /\ ~TimedNextRow /\ ~EndScan
    BY <2>1 DEF TimedTick, Tick, TimedNextRow, NextRow, EndScan
  <2>3. CASE KeyPress /\ lookup_keycode(Current) \in Sendable
    <3>1. ~Stable(Current) /\ last_stable_key_state' # last_stable_key_state
      BY <1>1, <2>1, <2>3, PressedKey DEF SoFar, Stable
    <3>2. TimedChange
      BY <1>1, <2>2, <3>1 DEF TimedNext, TimedRepeat, KeyRepeats, Untimed, KeySettles, KeyHeld, keyVars
    <3> QED BY OneCodeEach, Cardinality(Letters) <= BufferSize, <1>1, <2>3, <3>2, TypedSpends
            DEF TypedCode
  <2>4. CASE KeyRepeats
    <3>1. TimedRepeat
      BY <1>1, <2>2, <2>4 DEF TimedNext, TimedChange, KeyPress, KeyRelease, Debounced, RunsOut,
                              Untimed, KeySettles, KeyHeld, KeyRepeats
    <3> QED BY OneCodeEach, Cardinality(Letters) <= BufferSize, <1>1, <3>1, RepeatSpends
  <2> QED BY <1>1, <2>3, <2>4
<1>2. SoFar /\ SoFar' /\ QueueInv /\ [TimedNext]_timedVars
        => [Queues => asdf_keycode_buffer' # asdf_keycode_buffer]_vars
  <2> HIDE DEF Queues
  <2>1. UNCHANGED timedVars => UNCHANGED vars
    BY DEF timedVars
  <2> QED BY <1>1, <2>1
<1> QED BY OneCodeEach, Silent, Cardinality(Letters) <= BufferSize, SlowEnough, <1>2,
           QueueInvariant, PTL
        DEF TimedSpec, NoCodeLost
=============================================================================
