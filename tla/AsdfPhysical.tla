----------------------------- MODULE AsdfPhysical -----------------------------
(***************************************************************************)
(* asdf_physical.c: the output devices of the keyboard.  A device drives   *)
(* one line of the hardware in its own way, and several may drive the same *)
(* line.  Each is an entry of a table and a node of one list: the list of  *)
(* devices still available, which NO_OUT heads, or that of the virtual     *)
(* output it was assigned to.                                              *)
(*                                                                         *)
(* Each operator is one function of the file: it takes the record of the   *)
(* outputs and returns the next.  Fields used here: next and shadow of the *)
(* table, and line, the level that each line of the hardware is driven to. *)
(***************************************************************************)
EXTENDS Naturals, Sequences, FiniteSets

CONSTANTS
  LastDevice,   \* ASDF_PHYSICAL_NUM_RESOURCES - 1, 12
  Driver        \* device -> the line it drives, and how

NO_OUT == 0     \* PHYSICAL_NO_OUT; its handler does nothing
Devices == 1..LastDevice
Resources == {NO_OUT} \union Devices
Values == {0, 1}
Lines == {Driver[d].line : d \in Devices}
Levels == {"HIGH", "LOW", "FLOATING"}

ASSUME PhysicalAssumption ==
  /\ LastDevice \in Nat \ {0}
  /\ \A d \in Devices : Driver[d].kind \in {"PUSH_PULL", "OPEN_HI", "OPEN_LO"}

-----------------------------------------------------------------------------
\* The handlers of the architecture layer: what they drive the line to.
Level(d, value) ==
  CASE Driver[d].kind = "PUSH_PULL" -> IF value = 1 THEN "HIGH" ELSE "LOW"
    [] Driver[d].kind = "OPEN_HI"   -> IF value = 1 THEN "FLOATING" ELSE "LOW"
    [] Driver[d].kind = "OPEN_LO"   -> IF value = 1 THEN "HIGH" ELSE "FLOATING"

Handle(o, d, value) == [o EXCEPT !.line[Driver[d].line] = Level(d, value)]

physical_set(o, d, value) == [Handle(o, d, value) EXCEPT !.shadow[d] = value]
physical_on(o, d)     == physical_set(o, d, 1)
physical_off(o, d)    == physical_set(o, d, 0)
physical_assert(o, d) == Handle(o, d, o.shadow[d])

\* Mutant: the shadow keeps the value that was toggled.
TogglesLineOnly(o, d) == Handle(o, d, 1 - o.shadow[d])
physical_toggle(o, d) == physical_set(o, d, 1 - o.shadow[d])

-----------------------------------------------------------------------------
\* A loop that applies f to each member of a sequence: FoldLeft of SequencesExt,
\* by a function of the number of rounds.
Each(f(_, _), o, members) ==
  LET after[n \in 0..Len(members)] ==
        IF n = 0 THEN o ELSE f(after[n - 1], members[n])
  IN  after[Len(members)]

\* The nodes from d on, and those to the end of the list.  The loops of the code
\* run until NO_OUT; no list has more nodes than there are devices.
Walk(next, d) ==
  LET walk[i \in Devices] ==
        IF i = 1 THEN d
        ELSE LET node == walk[i - 1] IN
             IF node = NO_OUT THEN NO_OUT ELSE next[node]
  IN  walk
List(next, d) ==
  LET walk == Walk(next, d)
  IN  [i \in 1..Cardinality({j \in Devices : walk[j] # NO_OUT}) |-> walk[i]]
Nodes(list) == {list[i] : i \in DOMAIN list}

Available(o) == Nodes(List(o.next, o.next[NO_OUT]))

\* physical_device_is_available: the node before d in the available list.
Predecessor(next, d) ==
  CHOOSE p \in {NO_OUT} \union Nodes(List(next, next[NO_OUT])) : next[p] = d

\* Mutant: the device stays in the available list too.
AllocateKeepsLink(o, d, tail, value) ==
  [o EXCEPT !.next[d] = tail, !.shadow[d] = value]

\* A device that is available becomes the head of the list that tail heads.
physical_allocate(o, d, tail, value) ==
  [o EXCEPT !.next[Predecessor(o.next, d)] = o.next[d],
            !.next[d] = tail,
            !.shadow[d] = value]

\* Mutant: the last device of the table has a successor.
InitLeavesBogusEnd(o) ==
  [o EXCEPT !.shadow = [d \in Resources |-> 1],
            !.next = [d \in Resources |-> d + 1]]

physical_init(o) ==
  [o EXCEPT !.shadow = [d \in Resources |-> 1],
            !.next = [d \in Resources |-> IF d = LastDevice THEN NO_OUT ELSE d + 1]]
=============================================================================
