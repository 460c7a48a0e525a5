------------------------------- MODULE Outputs -------------------------------
(***************************************************************************)
(* What asdf_virtual.c promises to keymaps, without tables and lists: a    *)
(* device belongs to at most one virtual output, the first it was assigned *)
(* to; a function acts on all devices of its output and on no other; and a *)
(* pulse leaves every device as it was.                                    *)
(***************************************************************************)
EXTENDS Naturals

CONSTANTS Devices, VirtualDevices, Functions, Nobody

VARIABLES
  owner,      \* device -> the virtual output it belongs to, or Nobody
  value,      \* device -> 0 or 1, the value it rests at
  function    \* virtual output -> what activating it does

vars == <<owner, value, function>>

Reset ==
  /\ owner' = [d \in Devices |-> Nobody]
  /\ value' = [d \in Devices |-> 1]
  /\ function' = [v \in VirtualDevices |-> "V_NOFUNC"]

\* A device that is taken is refused: the step stutters.
Assign(v, d, f, initial) ==
  /\ owner[d] = Nobody
  /\ owner' = [owner EXCEPT ![d] = v]
  /\ value' = [value EXCEPT ![d] = initial]
  /\ function' = [function EXCEPT ![v] = f]

SetAll(v, New(_)) ==
  /\ value' = [d \in Devices |-> IF owner[d] = v THEN New(value[d]) ELSE value[d]]
  /\ UNCHANGED <<owner, function>>

Toggle(v) == function[v] = "V_TOGGLE" /\ SetAll(v, LAMBDA old : 1 - old)
SetHi(v) == SetAll(v, LAMBDA old : 1)
SetLo(v) == SetAll(v, LAMBDA old : 0)

Init ==
  /\ owner = [d \in Devices |-> Nobody]
  /\ value = [d \in Devices |-> 1]
  /\ function = [v \in VirtualDevices |-> "V_NOFUNC"]

Next ==
  \/ Reset
  \/ \E v \in VirtualDevices :
       \/ Toggle(v) \/ SetHi(v) \/ SetLo(v)
       \/ \E d \in Devices, f \in Functions, initial \in {0, 1} :
            Assign(v, d, f, initial)

Spec == Init /\ [][Next]_vars
=============================================================================
