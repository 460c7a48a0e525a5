---------------------------- MODULE AsdfKeyscan ----------------------------
(***************************************************************************)
(* The path of a keystroke through asdf.c: scan the matrix, debounce each  *)
(* key, look its code up under the modifiers, act on it or queue it for    *)
(* the host, and repeat it while it is held.                               *)
(*                                                                         *)
(* The firmware is one loop; a step of it here is the handling of one key  *)
(* of the row being scanned, so that the modifiers a key changes are seen  *)
(* by the keys after it in the same scan.  Columns that need no handling   *)
(* are skipped.  What the contacts read is the environment's choice, at    *)
(* each row of each scan: they may bounce in any way.                      *)
(*                                                                         *)
(* The keymap is fixed: DIP switch actions that replace it, and the        *)
(* outputs that actions drive, are not in this module.  Of the messages    *)
(* that keys print it has the length: as long as one waits, no code is     *)
(* taken from the keycode queue.                                           *)
(***************************************************************************)
EXTENDS AsdfModifiers, AsdfRepeat, Sequences, FiniteSets

CONSTANTS
  NumRows, NumCols,   \* the size of the matrix
  DEBOUNCE,           \* ASDF_DEBOUNCE_TIME_MS, 10
  BufferSize,         \* ASDF_KEYCODE_BUFFER_SIZE, 16
  Values,             \* keycodes below ASDF_ACTION: they are sent to the host
  OtherActions,       \* action codes whose effect is outside this module
  Printing,           \* those of them that print a message: FN keys
  MessageSize,        \* ASDF_MESSAGE_BUFFER_SIZE, 128
  Keymap              \* modifier map -> key -> keycode

Rows == 0..(NumRows - 1)
Cols == 0..(NumCols - 1)
Keys == Rows \X Cols

NOTHING == "NOTHING"  \* ACTION_NOTHING = ASDF_ACTION = ASDF_INVALID_CODE
KeyActions == {"SHIFT", "SHIFTLOCK_ON", "SHIFTLOCK_TOGGLE", "CAPS", "CTRL",
               "REPEAT", "AUTOREPEAT_SELECT"}
Actions == KeyActions \union OtherActions
Sendable == Values \union {NOTHING}   \* what asdf_activate_key queues

ASSUME KeyscanAssumption ==
  /\ NumRows \in Nat \ {0} /\ NumCols \in Nat \ {0}
  /\ DEBOUNCE \in 1..255
  /\ BufferSize \in Nat /\ MessageSize \in Nat
  /\ Printing \subseteq OtherActions
  /\ Actions \intersect Sendable = {}
  /\ Keymap \in [ModifierMaps -> [Keys -> Actions \union Sendable]]

VARIABLES
  last_stable_key_state,  \* row -> its columns that are pressed, debounced
  debounce_counters,      \* key -> scans still to disagree before it changes
  last_key,               \* the code that repeats while its key is held
  repeat,                 \* the state of asdf_repeat.c
  modifiers,              \* the state of asdf_modifiers.c
  asdf_keycode_buffer,    \* codes waiting for the host, a queue of AsdfBuffer
  asdf_message_buffer,    \* how many characters of messages wait before them
  row,                    \* the row being scanned, NumRows between scans
  row_key_state,          \* the columns of the row that read as pressed
  cols_left               \* its columns still to be handled

keyVars == <<last_stable_key_state, debounce_counters>>
codeVars == <<last_key, repeat, modifiers, asdf_keycode_buffer,
              asdf_message_buffer>>
scanVars == <<row, row_key_state, cols_left>>
vars == <<keyVars, codeVars, scanVars>>

-----------------------------------------------------------------------------
BetweenScans == row = NumRows

Stable(key) == key[2] \in last_stable_key_state[key[1]]

lookup_keycode(key) == Keymap[modifier_index(modifiers)][key]

\* Mutant of put_code: a queue with one slot left is full.
PutLeavesSlot(code) ==
  asdf_keycode_buffer' = IF Len(asdf_keycode_buffer) < BufferSize - 1
                         THEN Append(asdf_keycode_buffer, code)
                         ELSE asdf_keycode_buffer

put_code(code) ==
  asdf_keycode_buffer' = IF Len(asdf_keycode_buffer) < BufferSize
                         THEN Append(asdf_keycode_buffer, code)
                         ELSE asdf_keycode_buffer

\* asdf_putc for each character of a text, of which the queue takes what fits.
asdf_print(action) ==
  IF action \in Printing THEN asdf_message_buffer' \in asdf_message_buffer..MessageSize
                         ELSE UNCHANGED asdf_message_buffer

\* The key whose turn it is: bits are shifted out from column 0 up.
Current ==
  <<row, CHOOSE c \in cols_left : \A d \in cols_left : c <= d>>
Pressed(key) == key[2] \in row_key_state
Changed(key) == Pressed(key) # Stable(key)

-----------------------------------------------------------------------------
(* What pressing and releasing a key does, once debounced.                 *)

\* asdf_activate_action and asdf_deactivate_action, on the repeat timer.
PressRepeat(r, action) ==
  CASE action = "REPEAT"            -> repeat_activate(r)
    [] action = "AUTOREPEAT_SELECT" -> repeat_auto_on(r)
    [] OTHER                        -> r

ReleaseRepeat(r, action) ==
  CASE action = "REPEAT"            -> repeat_deactivate(r)
    [] action = "AUTOREPEAT_SELECT" -> repeat_auto_off(r)
    [] OTHER                        -> r

\* A code repeats in a new cycle unless it is the one that repeats already.
activate_key(code) ==
  \/ /\ code \in Actions
     /\ modifiers' = PressModifiers(modifiers, code)
     /\ repeat' = PressRepeat(repeat, code)
     /\ asdf_print(code)
     /\ UNCHANGED <<last_key, asdf_keycode_buffer>>
  \/ /\ code \notin Actions
     /\ put_code(code)
     /\ last_key' = code
     /\ repeat' = IF last_key # code THEN repeat_reset_count(repeat)
                                     ELSE repeat
     /\ UNCHANGED <<modifiers, asdf_message_buffer>>

deactivate_key(code) ==
  \/ /\ code \in Actions
     /\ modifiers' = ReleaseModifiers(modifiers, code)
     /\ repeat' = ReleaseRepeat(repeat, code)
     /\ UNCHANGED <<last_key, asdf_keycode_buffer, asdf_message_buffer>>
  \/ /\ code \notin Actions
     /\ last_key' = IF last_key = code THEN NOTHING ELSE last_key
     /\ UNCHANGED <<repeat, modifiers, asdf_keycode_buffer, asdf_message_buffer>>
-----------------------------------------------------------------------------
(* The turn of one key in a scan.                                          *)

Decrement(count) == (count - 1) % 256   \* 8 bits

Turn == cols_left' = cols_left \ {Current[2]} /\ UNCHANGED <<row, row_key_state>>

\* asdf_handle_key_press_or_release returns early: the counter has not run out.
KeySettles ==
  /\ cols_left # {} /\ Changed(Current)
  /\ Decrement(debounce_counters[Current]) # 0
  /\ debounce_counters' = [debounce_counters EXCEPT ![Current] = Decrement(@)]
  /\ Turn
  /\ UNCHANGED <<last_stable_key_state, codeVars>>

RunsOut == cols_left # {} /\ Changed(Current)
             /\ Decrement(debounce_counters[Current]) = 0

\* Mutants of Debounced: the counter is not loaded again, or one off.
CounterNotReloaded ==
  RunsOut /\ debounce_counters' = [debounce_counters EXCEPT ![Current] = 0]
CounterReloadedLess ==
  RunsOut /\ debounce_counters' = [debounce_counters EXCEPT ![Current] = DEBOUNCE - 1]
CounterReloadedMore ==
  RunsOut /\ debounce_counters' = [debounce_counters EXCEPT ![Current] = DEBOUNCE + 1]

\* The counter runs out: the key has a new stable state.
Debounced ==
  RunsOut /\ debounce_counters' = [debounce_counters EXCEPT ![Current] = DEBOUNCE]

KeyPress ==
  /\ Debounced /\ Pressed(Current)
  /\ last_stable_key_state' =
       [last_stable_key_state EXCEPT ![row] = @ \union {Current[2]}]
  /\ activate_key(lookup_keycode(Current))
  /\ Turn

KeyRelease ==
  /\ Debounced /\ ~Pressed(Current)
  /\ last_stable_key_state' =
       [last_stable_key_state EXCEPT ![row] = @ \ {Current[2]}]
  /\ deactivate_key(lookup_keycode(Current))
  /\ Turn

\* asdf_handle_key_held_pressed: every key that is held and whose code is
\* last_key runs the repeat timer.
AnyKeyRepeats == TRUE   \* mutant of Repeats: whatever its code is
Repeats == lookup_keycode(Current) = last_key

KeyHeld ==
  /\ cols_left # {} /\ ~Changed(Current)
  /\ ~(Repeats /\ TimesOut(repeat))
  /\ repeat' = IF Repeats THEN asdf_repeat(repeat) ELSE repeat
  /\ Turn
  /\ UNCHANGED <<keyVars, last_key, modifiers, asdf_keycode_buffer, asdf_message_buffer>>

\* On a timeout asdf_activate_key queues last_key, which is never an action,
\* and leaves it and the reloaded timer as they are.
KeyRepeats ==
  /\ cols_left # {} /\ ~Changed(Current)
  /\ Repeats /\ TimesOut(repeat)
  /\ repeat' = asdf_repeat(repeat)
  /\ put_code(last_key)
  /\ Turn
  /\ UNCHANGED <<keyVars, last_key, modifiers, asdf_message_buffer>>

-----------------------------------------------------------------------------
(* The superloop: once per tick, hand one character to the host, and scan. *)

\* Mutant of ReadRow: the columns end with the last that reads as pressed.
ReadPressed(r) ==
  \E pressed \in SUBSET Cols :
    row' = r /\ row_key_state' = pressed /\ cols_left' = pressed

ReadRow(r) ==
  \E pressed \in SUBSET Cols :
    /\ row' = r
    /\ row_key_state' = pressed
    /\ cols_left' = pressed \union last_stable_key_state[r]

\* Codes are taken only when no message waits.
asdf_next_code ==
  \/ /\ asdf_message_buffer > 0
     /\ asdf_message_buffer' = asdf_message_buffer - 1
     /\ UNCHANGED asdf_keycode_buffer
  \/ /\ asdf_message_buffer = 0
     /\ asdf_keycode_buffer' = IF asdf_keycode_buffer = <<>> THEN <<>>
                               ELSE Tail(asdf_keycode_buffer)
     /\ UNCHANGED asdf_message_buffer

Tick ==
  /\ BetweenScans
  /\ asdf_next_code
  /\ ReadRow(0)
  /\ UNCHANGED <<keyVars, last_key, repeat, modifiers>>

NextRow ==
  /\ row < NumRows - 1 /\ cols_left = {}
  /\ ReadRow(row + 1)
  /\ UNCHANGED <<keyVars, codeVars>>

EndScan ==
  /\ row = NumRows - 1 /\ cols_left = {}
  /\ row' = NumRows /\ row_key_state' = {}
  /\ UNCHANGED <<keyVars, codeVars, cols_left>>

\* asdf_init
Init ==
  /\ last_stable_key_state = [r \in Rows |-> {}]
  /\ debounce_counters = [key \in Keys |-> DEBOUNCE]
  /\ last_key = NOTHING
  /\ repeat = repeat_init
  /\ modifiers = ModifiersOff
  /\ asdf_keycode_buffer = <<>> /\ asdf_message_buffer = 0
  /\ row = NumRows /\ row_key_state = {} /\ cols_left = {}

HandleKey == KeySettles \/ KeyPress \/ KeyRelease \/ KeyHeld \/ KeyRepeats
Next == Tick \/ HandleKey \/ NextRow \/ EndScan

\* The tick interrupt never stops and no handler blocks: the loop goes on.
Spec == Init /\ [][Next]_vars /\ WF_vars(Next)

-----------------------------------------------------------------------------
(* Properties.                                                             *)

\* Every variable has its type, and the queues fit their buffers.
TypeOK ==
  /\ last_stable_key_state \in [Rows -> SUBSET Cols]
  /\ debounce_counters \in [Keys -> 1..DEBOUNCE]
  /\ last_key \in Sendable
  /\ repeat \in RepeatState
  /\ modifiers \in ModifierState
  /\ asdf_keycode_buffer \in Seq(Sendable)
  /\ Len(asdf_keycode_buffer) <= BufferSize
  /\ asdf_message_buffer \in 0..MessageSize
  /\ row \in 0..NumRows
  /\ row_key_state \in SUBSET Cols /\ cols_left \in SUBSET Cols

\* The keys that mean an action in some map, and those that do in every map.
Bound(action) ==
  {key \in Keys : \E map \in ModifierMaps : Keymap[map][key] = action}
Fixed(action) ==
  {key \in Keys : \A map \in ModifierMaps : Keymap[map][key] = action}
AllFixed(action) == Bound(action) = Fixed(action)
HeldDown(action) == \E key \in Fixed(action) : Stable(key)

\* No modifier sticks: if its keys mean it under every modifier, SHIFT and
\* CTRL are on only while one of their keys is down (asdf.c and
\* asdf_modifiers.c, which never reset a modifier but on a release).
NoStuckModifier ==
  /\ AllFixed("SHIFT") /\ "ON" \in modifiers.shift => HeldDown("SHIFT")
  /\ AllFixed("CTRL") /\ modifiers.ctrl => HeldDown("CTRL")

\* Nor does a modifier drop out: with one SHIFT or CTRL key, the modifier is on
\* as long as it is down, whatever the locks do meanwhile.
ModifierWhileHeld ==
  \A key \in Keys :
    /\ Bound("SHIFT") = {key} /\ AllFixed("SHIFT") /\ Stable(key)
         => "ON" \in modifiers.shift
    /\ Bound("CTRL") = {key} /\ AllFixed("CTRL") /\ Stable(key)
         => modifiers.ctrl

\* Nor does REPEAT: codes repeat without a delay only while its key is down.
NoStuckRepeat ==
  AllFixed("REPEAT") /\ repeat.state = REPEAT_ON => HeldDown("REPEAT")

\* The timer never stops or runs on in the wrong state (asdf_repeat.c): it is
\* zero, and stays so, exactly when repeating is off, and it never waits
\* longer than its state says.
RepeatTimerFits ==
  /\ repeat.base # REPEAT_ON /\ repeat.state \in {REPEAT_ON, repeat.base}
  /\ repeat.timer = 0 <=> repeat.state = REPEAT_OFF
  /\ repeat.timer <= repeat.state

\* While a row is handled, what is left is a key that reads as pressed or is
\* held as pressed: no key that is up has a turn.
TurnsPending ==
  IF BetweenScans THEN cols_left = {}
  ELSE cols_left \subseteq row_key_state \union last_stable_key_state[row]

\* What the host and the typist are promised (Typing.tla) is what the scan,
\* the debouncing and the repeat timer deliver, for every bounce of a contact.
Promise ==
  INSTANCE Typing WITH Nothing <- NOTHING, QueueSize <- BufferSize,
    down <- {key \in Keys : Stable(key)}, last <- last_key,
    keycodes <- asdf_keycode_buffer

KeepsPromise == Promise!Spec

\* No code is lost at the full queue, when there are no more keys than the
\* queue has room for and none of them prints (what is typed while a message
\* goes out has to wait, and may be more than fits): the scan hands the host a
\* code per tick, and debouncing and the repeat timer keep every key slow
\* enough.
NoCodeLost ==
  [][(KeyPress /\ lookup_keycode(Current) \in Sendable) \/ KeyRepeats
       => asdf_keycode_buffer' # asdf_keycode_buffer]_vars

\* Contacts that come to rest.
RestsClosed(key) == <>[](row = key[1] => key[2] \in row_key_state)
RestsOpen(key) == <>[](row = key[1] => key[2] \notin row_key_state)

\* However it bounced before, and whatever the other keys do, a key that stays
\* closed is pressed at last and one that stays open is released.
ContactsSettle ==
  \A key \in Keys : /\ RestsClosed(key) => <>[]Stable(key)
                    /\ RestsOpen(key) => <>[]~Stable(key)

\* When the typist lets go of all the keys the keyboard comes to rest: every
\* message and then every code reaches the host, and no modifier or REPEAT is
\* left on.
ComesToRest ==
  (\A key \in Keys : RestsOpen(key)) =>
     <>[](/\ asdf_keycode_buffer = <<>> /\ asdf_message_buffer = 0
          /\ "ON" \notin modifiers.shift /\ ~modifiers.ctrl
          /\ repeat.state = repeat.base)

\* A key that is held and whose code is last_key repeats for ever, if autorepeat
\* is on and the REPEAT keys rest: tapping REPEAT restarts the timer.
Repeating(key) ==
  /\ Stable(key) /\ lookup_keycode(key) = last_key
  /\ row = key[1] => key[2] \in row_key_state
  /\ repeat.base = REPEAT_AUTO
GoesOnRepeating ==
  (\A key \in Bound("REPEAT") : RestsOpen(key) \/ RestsClosed(key)) =>
     \A key \in Keys : <>[]Repeating(key) => []<><<KeyRepeats>>_vars

-----------------------------------------------------------------------------
(* What the comments say and the code does not keep.                       *)

\* asdf_repeat_deactivate, when the REPEAT key is released: "Reset repeat state
\* to default state".
ReleasedRepeatIsOff ==
  repeat.state = REPEAT_ON => \E key \in Bound("REPEAT") : Stable(key)
=============================================================================
