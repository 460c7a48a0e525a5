----------------------------- MODULE AsdfOutputs -----------------------------
(***************************************************************************)
(* The life of the outputs under a keymap: asdf_keymaps_switch clears them,*)
(* the setup routine of the keymap assigns devices, actions may be applied,*)
(* and asdf_virtual_sync asserts the initial values; then keys activate    *)
(* them, and the modifiers set their LEDs, until the next switch.          *)
(*                                                                         *)
(* The code waits in the middle of a pulse.  No other code changes outputs *)
(* meanwhile, but the world sees the lines.                                *)
(***************************************************************************)
EXTENDS AsdfVirtual

CONSTANT Assignments   \* the arguments that setup routines pass when they
                       \* assign a device: output, device, function, value

ASSUME OutputsAssumption ==
  Assignments \subseteq (VirtualDevices \union {V_NULL}) \X Resources
                          \X VirtualFunctions \X Values

VARIABLES
  outputs,   \* the tables of asdf_physical.c and asdf_virtual.c and the lines
  phase,     \* "SETUP" from the reset of the outputs to their sync
  pulsing    \* the virtual output in the middle of its pulse, or V_NULL

outputVars == <<outputs, phase, pulsing>>

Still == pulsing = V_NULL

Init ==
  \E levels \in [Lines -> Levels] :
    /\ outputs = virtual_init([next |-> <<>>, shadow |-> <<>>, line |-> levels,
                               device |-> <<>>, function |-> <<>>])
    /\ phase = "SETUP" /\ pulsing = V_NULL

Reset ==
  /\ Still
  /\ outputs' = virtual_init(outputs) /\ phase' = "SETUP"
  /\ UNCHANGED pulsing

Assign(v, d, function, value) ==
  /\ Still /\ phase = "SETUP"
  /\ outputs' = virtual_assign(outputs, v, d, function, value)
  /\ UNCHANGED <<phase, pulsing>>

Sync ==
  /\ Still
  /\ outputs' = virtual_sync(outputs) /\ phase' = "RUNNING"
  /\ UNCHANGED pulsing

\* asdf_virtual_activate, by a key: the first half of a pulse, or all.
Activate(v) ==
  /\ Still
  /\ outputs' = virtual_action(outputs, v, outputs.function[v])
  /\ pulsing' = IF outputs.function[v] \in Pulses THEN v ELSE V_NULL
  /\ UNCHANGED phase

PulseEnds ==
  /\ ~Still
  /\ outputs' = virtual_action(outputs, pulsing, outputs.function[pulsing])
  /\ pulsing' = V_NULL
  /\ UNCHANGED phase

\* asdf_virtual_action, by asdf_modifiers.c for its LEDs.
SetLed(v, function) ==
  /\ Still
  /\ outputs' = virtual_action(outputs, v, function)
  /\ UNCHANGED <<phase, pulsing>>

Next ==
  \/ Reset \/ Sync \/ PulseEnds
  \/ \E a \in Assignments : Assign(a[1], a[2], a[3], a[4])
  \/ \E v \in VirtualDevices :
       \/ Activate(v)
       \/ \E function \in {"V_SET_HI", "V_SET_LO"} : SetLed(v, function)

Spec == Init /\ [][Next]_outputVars

-----------------------------------------------------------------------------
\* Every node of every list is a device, and shadows are bits.
TypeOK ==
  /\ outputs.next \in [Resources -> Resources]
  /\ outputs.shadow \in [Resources -> Values]
  /\ outputs.line \in [Lines -> Levels]
  /\ outputs.device \in [VirtualDevices -> Resources]
  /\ outputs.function \in [VirtualDevices -> VirtualFunctions]
  /\ phase \in {"SETUP", "RUNNING"}
  /\ pulsing \in VirtualDevices \union {V_NULL}

Owned(v) == Nodes(List(outputs.next, outputs.device[v]))
Owner(d) == IF \E v \in VirtualDevices : d \in Owned(v)
            THEN CHOOSE v \in VirtualDevices : d \in Owned(v)
            ELSE V_NULL

\* Every device is in exactly one list, the available one or that of one
\* virtual output, and the lists end (asdf_physical_allocate relinks nodes
\* from one list to another in place): no loop of the code runs for ever and
\* no device obeys two masters.
ListsPartition ==
  /\ \A d \in Devices : d \in Available(outputs) <=> Owner(d) = V_NULL
  /\ \A v, w \in VirtualDevices : v # w => Owned(v) \intersect Owned(w) = {}
  /\ \A head \in {outputs.device[v] : v \in VirtualDevices} \union {outputs.next[NO_OUT]} :
       LET list == List(outputs.next, head) IN
       list # <<>> => outputs.next[list[Len(list)]] = NO_OUT

\* Once a keymap is set up, a device that is assigned, and is the last of those
\* that share its line, holds the line at what its value says, in pulses too.
Sharing(d) == {e \in Devices : Driver[e].line = Driver[d].line}
Alone(d) == Owner(d) # V_NULL /\ \A e \in Sharing(d) \ {d} : Owner(e) = V_NULL
Follows(d) == outputs.line[Driver[d].line] = Level(d, outputs.shadow[d])
LinesFollow ==
  phase = "RUNNING" =>
    \A d \in Devices : Alone(d) /\ (\A e \in Sharing(d) : e <= d) => Follows(d)

\* In a pulse the devices of the output have the other value.
Resting(d) == IF ~Still /\ Owner(d) = pulsing THEN 1 - outputs.shadow[d]
              ELSE outputs.shadow[d]

\* The tables and lists implement what keymaps are promised (Outputs.tla).
Promise ==
  INSTANCE Outputs WITH
    Functions <- VirtualFunctions, Nobody <- V_NULL,
    owner <- [d \in Devices |-> Owner(d)],
    value <- [d \in Devices |-> Resting(d)],
    function <- outputs.function
KeepsOutputs == Promise!Spec

-----------------------------------------------------------------------------
\* asdf_virtual_sync: "Synchronize the physical outputs with their controlling
\* virtual devices".
SyncedToOwners ==
  phase = "RUNNING" => \A d \in Devices : Alone(d) => Follows(d)
=============================================================================
