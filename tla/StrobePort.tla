------------------------------ MODULE StrobePort ------------------------------
(***************************************************************************)
(* What a host is promised of the parallel port.  The host takes the code  *)
(* on the data lines at one edge of the strobe, the one it was built for.  *)
(* It takes each code that is sent exactly once, before the next is sent,  *)
(* whichever way the strobe idles.  Only when the idle level changes may   *)
(* it take a code that was not sent.                                       *)
(***************************************************************************)
EXTENDS Naturals

CONSTANTS Codes, NoCode

VARIABLES
  edge,      \* the level the strobe changes to when this host takes a code
  idle,      \* the level of the strobe between codes
  sending,   \* a code that is sent and not taken yet, or NoCode
  taken      \* the code taken last, and a bit that changes with each

vars == <<edge, idle, sending, taken>>

Init ==
  /\ edge \in {"HIGH", "LOW"}
  /\ idle \in {"HIGH", "LOW", "FLOATING"}
  /\ sending = NoCode
  /\ taken = [code |-> NoCode, parity |-> 0]

Takes(code) == taken' = [code |-> code, parity |-> 1 - taken.parity]

Send(code) ==
  /\ sending = NoCode
  /\ sending' = code
  /\ UNCHANGED <<edge, idle, taken>>

Take ==
  /\ sending # NoCode
  /\ Takes(sending)
  /\ sending' = NoCode
  /\ UNCHANGED <<edge, idle>>

Opposite(level) == IF level = "HIGH" THEN "LOW" ELSE "HIGH"

\* What the data lines show then may be anything.
Select(level) ==
  /\ sending = NoCode
  /\ idle' = level
  /\ IF level = edge /\ idle = Opposite(edge)
     THEN \E code \in Codes : Takes(code)
     ELSE UNCHANGED taken
  /\ UNCHANGED <<edge, sending>>

Next ==
  \/ \E code \in Codes : Send(code)
  \/ Take
  \/ \E level \in {"HIGH", "LOW"} : Select(level)

Spec == Init /\ [][Next]_vars
=============================================================================
