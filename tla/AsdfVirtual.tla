----------------------------- MODULE AsdfVirtual -----------------------------
(***************************************************************************)
(* asdf_virtual.c: the outputs that keymaps name.  A virtual output is a   *)
(* list of physical devices and the function that a key applies to all of  *)
(* them.  Fields of the record of outputs used here, with those of         *)
(* AsdfPhysical: device, the head of the list, and function.               *)
(***************************************************************************)
EXTENDS AsdfPhysical

CONSTANT VirtualDevices   \* valid ones: all but V_NULL

V_NULL == "V_NULL"
Pulses == {"V_PULSE_SHORT", "V_PULSE_LONG"}
VirtualFunctions == {"V_NOFUNC", "V_SET_HI", "V_SET_LO", "V_TOGGLE"} \union Pulses

ASSUME VirtualAssumption == V_NULL \notin VirtualDevices

\* asdf_virtual_map_function applies a function to each of these in turn.
Mapped(o, v) == List(o.next, o.device[v])

\* What it does to one of them.  A pulse toggles, waits and toggles again: this
\* is the state after each.
Effect(o, d, function) ==
  CASE function \in Pulses \union {"V_TOGGLE"} -> physical_toggle(o, d)
    [] function = "V_SET_HI" -> physical_on(o, d)
    [] function = "V_SET_LO" -> physical_off(o, d)
    [] function = "V_NOFUNC" -> o

virtual_action(o, v, function) ==
  Each(LAMBDA p, d : Effect(p, d, function), o, Mapped(o, v))

\* Mutant: the function of a virtual output changes though the device is taken.
AssignsFunctionFirst(o, v, d, function, value) ==
  IF v \notin VirtualDevices THEN o
  ELSE IF d \notin Available(o) THEN [o EXCEPT !.function[v] = function]
  ELSE [physical_allocate(o, d, o.device[v], value) EXCEPT
          !.device[v] = d, !.function[v] = function]

\* Invalid or taken devices are refused without effect.
virtual_assign(o, v, d, function, value) ==
  IF v \in VirtualDevices /\ d \in Available(o)
  THEN [physical_allocate(o, d, o.device[v], value) EXCEPT
          !.device[v] = d, !.function[v] = function]
  ELSE o

virtual_init(o) ==
  [physical_init(o) EXCEPT
     !.device = [v \in VirtualDevices |-> NO_OUT],
     !.function = [v \in VirtualDevices |-> "V_NOFUNC"]]

\* All devices are asserted in the order of the table, assigned or not.
virtual_sync(o) == Each(physical_assert, o, [d \in Devices |-> d])
=============================================================================
