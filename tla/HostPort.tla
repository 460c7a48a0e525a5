------------------------------ MODULE HostPort ------------------------------
(***************************************************************************)
(* What the host at the parallel port may rely on, without ticks, rings or *)
(* delays: typed codes and the characters of messages each arrive in their *)
(* order, no code arrives twice, none is lost but at a full queue, and a   *)
(* message arrives in one piece, with no typed code inside it.             *)
(***************************************************************************)
EXTENDS Naturals, Sequences

CONSTANTS TypedCodes, Messages, Invalid, KeycodeSize, MessageSize

VARIABLES
  messages,   \* characters of messages that wait
  keycodes,   \* typed codes that wait
  port        \* the code at the port, and a bit that each new one changes

vars == <<messages, keycodes, port>>

Sent(before, code) == [code |-> code, strobe |-> 1 - before.strobe]

Type(code) ==
  /\ keycodes' = IF Len(keycodes) < KeycodeSize THEN Append(keycodes, code)
                 ELSE keycodes
  /\ UNCHANGED <<messages, port>>

\* What does not fit is cut off at the end.
AsFits(message, room) ==
  SubSeq(message, 1, IF Len(message) < room THEN Len(message) ELSE room)

PrintMessage(message) ==
  /\ messages' = messages \o AsFits(message, MessageSize - Len(messages))
  /\ UNCHANGED <<keycodes, port>>

SendMessage ==
  /\ messages # <<>>
  /\ messages' = Tail(messages) /\ port' = Sent(port, Head(messages))
  /\ UNCHANGED keycodes

SendKeycode ==
  /\ messages = <<>> /\ keycodes # <<>>
  /\ keycodes' = Tail(keycodes)
  /\ port' = IF Head(keycodes) = Invalid THEN port ELSE Sent(port, Head(keycodes))
  /\ UNCHANGED messages

Init ==
  /\ messages = <<>> /\ keycodes = <<>>
  /\ port = [code |-> Invalid, strobe |-> 0]

Next ==
  \/ \E code \in TypedCodes : Type(code)
  \/ \E message \in Messages : PrintMessage(message)
  \/ SendMessage \/ SendKeycode

Spec == Init /\ [][Next]_vars
=============================================================================
