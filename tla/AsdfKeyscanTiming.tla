------------------------- MODULE AsdfKeyscanTiming -------------------------
(***************************************************************************)
(* How fast AsdfKeyscan reacts and repeats, measured in scans, which run   *)
(* once per millisecond tick.  The variables added here only record what   *)
(* happened; no step of AsdfKeyscan depends on them.                       *)
(***************************************************************************)
EXTENDS AsdfKeyscan

VARIABLES
  since,     \* key -> times it was read since its stable state changed
  differs,   \* key -> times in succession it was read as not its stable state
  quiet,     \* scans since a code was last typed or repeated
  repeated   \* the code typed last has been repeated

history == <<since, differs, quiet, repeated>>
timedVars == <<vars, history>>

AtMost(bound, count) == IF count < bound THEN count ELSE bound

TypedCode == lookup_keycode(Current) \in Sendable

\* Every count stops at the delay it is compared with.
Reading(r) ==
  /\ since' = [key \in Keys |-> IF key[1] = r THEN AtMost(DEBOUNCE, since[key] + 1)
                                              ELSE since[key]]
  /\ differs' = [key \in Keys |->
       IF key[1] # r THEN differs[key]
       ELSE IF (key[2] \in row_key_state') = Stable(key) THEN 0
       ELSE AtMost(DEBOUNCE, differs[key] + 1)]

TimedTick ==
  /\ Tick /\ Reading(0)
  /\ quiet' = AtMost(REPEAT_AUTO, quiet + 1)
  /\ UNCHANGED repeated

TimedNextRow ==
  /\ NextRow /\ Reading(row + 1)
  /\ UNCHANGED <<quiet, repeated>>

TimedChange ==
  /\ KeyPress \/ KeyRelease
  /\ since' = [since EXCEPT ![Current] = 0]
  /\ differs' = [differs EXCEPT ![Current] = 0]
  /\ IF KeyPress /\ TypedCode THEN quiet' = 0 /\ repeated' = FALSE
                              ELSE UNCHANGED <<quiet, repeated>>

TimedRepeat ==
  /\ KeyRepeats
  /\ quiet' = 0 /\ repeated' = TRUE
  /\ UNCHANGED <<since, differs>>

Untimed ==
  /\ KeySettles \/ KeyHeld \/ EndScan
  /\ UNCHANGED history

TimedInit ==
  /\ Init
  /\ since = [key \in Keys |-> DEBOUNCE]
  /\ differs = [key \in Keys |-> 0]
  /\ quiet = REPEAT_AUTO /\ repeated = FALSE

TimedNext ==
  TimedTick \/ TimedNextRow \/ TimedChange \/ TimedRepeat \/ Untimed

TimedSpec == TimedInit /\ [][TimedNext]_timedVars

-----------------------------------------------------------------------------
\* Debouncing (asdf_handle_key_press_or_release): whatever a contact does in
\* between, a key is pressed or released only when it has been read a full
\* debounce period of scans since it last was.
EventsSpaced ==
  [][\A key \in Keys : Stable(key)' # Stable(key) => since[key] >= DEBOUNCE]_timedVars

\* And no later: a key that reads differently for a debounce period is
\* pressed or released in the last of those scans.
NoLateEvent == BetweenScans => \A key \in Keys : differs[key] < DEBOUNCE

\* No two codes of a held key are closer than the repeat time ...
RepeatsSpaced == [][KeyRepeats => quiet >= REPEAT_ON]_timedVars

\* ... and autorepeat starts no earlier than its delay (asdf_config.h).
AutorepeatDelayed ==
  [][KeyRepeats /\ ~repeated /\ repeat.state = REPEAT_AUTO
       => quiet >= REPEAT_AUTO]_timedVars

=============================================================================
