------------------------------- MODULE Typing -------------------------------
(***************************************************************************)
(* What the keyboard promises to its typist and to the host, with no       *)
(* matrix, no debouncing and no timer: each key goes down and up in turn;  *)
(* a key that goes down is translated at that moment under the modifiers,  *)
(* and either acts or appends exactly one code to what the host will read; *)
(* a code is repeated only if it was the last one typed and a key that     *)
(* means it is down; and the host reads codes in the order they were       *)
(* appended.  Codes are lost only at the end of a full queue.              *)
(***************************************************************************)
EXTENDS AsdfModifiers, Naturals, Sequences

CONSTANTS Keys, Actions, Keymap, Nothing, QueueSize

VARIABLES
  down,        \* the keys that are down
  modifiers,
  last,        \* the code typed last, Nothing once its key is up
  keycodes     \* what the host will read

vars == <<down, modifiers, last, keycodes>>

Meaning(key) == Keymap[modifier_index(modifiers)][key]

Enqueue(code) ==
  IF Len(keycodes) < QueueSize THEN keycodes' = Append(keycodes, code)
                               ELSE UNCHANGED keycodes

Press(key) ==
  /\ key \notin down
  /\ down' = down \union {key}
  /\ \/ /\ Meaning(key) \in Actions
        /\ modifiers' = PressModifiers(modifiers, Meaning(key))
        /\ UNCHANGED <<last, keycodes>>
     \/ /\ Meaning(key) \notin Actions
        /\ Enqueue(Meaning(key)) /\ last' = Meaning(key)
        /\ UNCHANGED modifiers

Release(key) ==
  /\ key \in down
  /\ down' = down \ {key}
  /\ \/ /\ Meaning(key) \in Actions
        /\ modifiers' = ReleaseModifiers(modifiers, Meaning(key))
        /\ UNCHANGED <<last, keycodes>>
     \/ /\ Meaning(key) \notin Actions
        /\ last' = IF last = Meaning(key) THEN Nothing ELSE last
        /\ UNCHANGED <<modifiers, keycodes>>

Repeat(key) ==
  /\ key \in down
  /\ Meaning(key) = last /\ last \notin Actions
  /\ Enqueue(last)
  /\ UNCHANGED <<down, modifiers, last>>

Take ==
  /\ keycodes # <<>>
  /\ keycodes' = Tail(keycodes)
  /\ UNCHANGED <<down, modifiers, last>>

Init ==
  /\ down = {} /\ modifiers = ModifiersOff
  /\ last = Nothing /\ keycodes = <<>>

Next ==
  \/ \E key \in Keys : Press(key) \/ Release(key) \/ Repeat(key)
  \/ Take

Spec == Init /\ [][Next]_vars
=============================================================================
