----------------------------- MODULE AsdfRepeat -----------------------------
(***************************************************************************)
(* asdf_repeat.c: the one repeat timer of the keyboard.  Each operator is  *)
(* one function of the file: it takes the record of the three static       *)
(* variables and returns the next.                                         *)
(*                                                                         *)
(* A repeat state is the number of scans it loads into the timer.          *)
(***************************************************************************)
EXTENDS Integers

CONSTANTS
  REPEAT_ON,    \* ASDF_REPEAT_TIME_MS, 66
  REPEAT_AUTO   \* ASDF_AUTOREPEAT_TIME_MS, 525

REPEAT_OFF == 0

\* The three states are three values of an enum, and 16 bits hold them.
ASSUME RepeatAssumption ==
  /\ REPEAT_ON \in Nat /\ REPEAT_AUTO \in Nat
  /\ REPEAT_OFF < REPEAT_ON /\ REPEAT_ON < REPEAT_AUTO

RepeatStates == {REPEAT_OFF, REPEAT_ON, REPEAT_AUTO}

\* repeat_state, base_repeat_state and key_repeat_timer.
RepeatState == [state : RepeatStates, base : RepeatStates,
                timer : 0..REPEAT_AUTO]

\* ASDF_DEFAULT_REPEAT_STATE is REPEAT_AUTO.
repeat_init ==
  [state |-> REPEAT_AUTO, base |-> REPEAT_AUTO, timer |-> REPEAT_AUTO]

\* Mutants: a new code goes on with the count of the last one; the base state
\* does not take effect; releasing REPEAT leaves the state; the timer is not
\* loaded again; it is loaded with one too few.
KeepsCount(r) == r
SetsBaseOnly(r, base) == [r EXCEPT !.base = base]
ResetsTimerOnly(r) == [r EXCEPT !.timer = r.base]
TimesOutOnce(r) == [r EXCEPT !.timer = IF @ = 0 THEN 0 ELSE @ - 1]
ReloadsOneLess(r) ==
  [r EXCEPT !.timer = IF @ = 1 THEN REPEAT_ON - 1 ELSE IF @ = 0 THEN 0 ELSE @ - 1]

repeat_reset_count(r) == [r EXCEPT !.timer = r.state]

\* While the REPEAT key is down only the base state changes.
WithBase(r, base) ==
  IF r.state # REPEAT_ON THEN [state |-> base, base |-> base, timer |-> base]
                         ELSE [r EXCEPT !.base = base]
repeat_auto_off(r) == WithBase(r, REPEAT_OFF)
repeat_auto_on(r)  == WithBase(r, REPEAT_AUTO)

\* The REPEAT key is pressed; a key that repeats already is not disturbed.
repeat_activate(r) ==
  IF r.timer > REPEAT_ON \/ r.state = REPEAT_OFF
  THEN [r EXCEPT !.state = REPEAT_ON, !.timer = REPEAT_ON]
  ELSE r

repeat_deactivate(r) == [r EXCEPT !.state = r.base, !.timer = r.base]

\* asdf_repeat: whether this call times out, and the timer it leaves.
TimesOut(r) == r.timer = 1
asdf_repeat(r) ==
  [r EXCEPT !.timer = CASE r.timer = 0 -> 0
                        [] r.timer = 1 -> REPEAT_ON
                        [] r.timer > 1 -> r.timer - 1]
=============================================================================
