-------------------------- MODULE AsdfOutputs_proofs --------------------------
(***************************************************************************)
(* Proofs about AsdfOutputs, for every table of devices, set of virtual    *)
(* outputs and set of assignments.  The invariant says which device is on  *)
(* which list: what an action does to shadows and lines follows from that. *)
(***************************************************************************)
EXTENDS AsdfOutputs, AsdfVirtual_proofs

-----------------------------------------------------------------------------
(* Owners, by the record of outputs.                                       *)

OwnerOf(o, d) ==
  IF \E v \in VirtualDevices : d \in Nodes(List(o.next, o.device[v]))
  THEN CHOOSE v \in VirtualDevices : d \in Nodes(List(o.next, o.device[v]))
  ELSE V_NULL
AloneOf(o, d) == OwnerOf(o, d) # V_NULL /\ \A e \in Sharing(d) \ {d} : OwnerOf(o, e) = V_NULL
FollowsOf(o, d) == o.line[Driver[d].line] = Level(d, o.shadow[d])

\* The owner of a device is the one that has it on its list.
LEMMA OwnerFacts ==
  ASSUME PhysicalAssumption, VirtualAssumption, NEW o, NEW lists, Linked(o, lists),
         NEW d \in Devices
  PROVE  OwnerOf(o, d) \in Masters /\ \A h \in Masters : d \in Nodes(lists[h]) <=> OwnerOf(o, d) = h
<1>1. \A v \in VirtualDevices : v \in Masters /\ v # V_NULL /\ List(o.next, o.device[v]) = lists[v]
  BY LinkedLists, VirtualAssumption DEF Masters, HeadOf
<1>2. PICK h \in Masters : d \in Nodes(lists[h])
  BY DEF Linked
<1>3. \A g \in Masters : d \in Nodes(lists[g]) => g = h
  BY <1>2 DEF Linked
<1>4. OwnerOf(o, d) = h
  <2>1. CASE h = V_NULL
    BY <1>1, <1>2, <1>3, <2>1 DEF OwnerOf
  <2>2. CASE h # V_NULL
    <3>1. h \in VirtualDevices /\ d \in Nodes(List(o.next, o.device[h]))
      BY <1>1, <1>2, <2>2 DEF Masters
    <3>2. \A g \in VirtualDevices : d \in Nodes(List(o.next, o.device[g])) => g = h
      BY <1>1, <1>3
    <3> QED BY <3>1, <3>2 DEF OwnerOf
  <2> QED BY <2>1, <2>2
<1> QED BY <1>2, <1>3, <1>4

\* States with the same lists have the same owners.
LEMMA SameOwners ==
  ASSUME PhysicalAssumption, VirtualAssumption,
         NEW o, NEW p, NEW lists, Linked(o, lists), Linked(p, lists)
  PROVE  \A d \in Devices : OwnerOf(p, d) = OwnerOf(o, d)
BY OwnerFacts

-----------------------------------------------------------------------------
(* The effect of an action, on shadows and lines, by owner.                *)

IsAction(o, p, v, function) ==
  /\ p \in OutputsState
  /\ Linked(p, Lists(o))
  /\ p.function = o.function
  /\ \A d \in Devices :
       /\ OwnerOf(p, d) = OwnerOf(o, d)
       /\ p.shadow[d] = IF OwnerOf(o, d) = v THEN NewValue(function, o.shadow[d]) ELSE o.shadow[d]
       /\ AloneOf(o, d) /\ FollowsOf(o, d) => FollowsOf(p, d)

LEMMA ActionByOwner ==
  ASSUME PhysicalAssumption, VirtualAssumption, NEW o \in OutputsState, Linked(o, Lists(o)),
         NEW v \in VirtualDevices, NEW function \in VirtualFunctions
  PROVE  IsAction(o, virtual_action(o, v, function), v, function)
<1> DEFINE p == virtual_action(o, v, function)
           lists == Lists(o)
           done == Nodes(lists[v])
<1>1. v \in Masters /\ v # V_NULL /\ HeadOf(o, v) = o.device[v]
  BY VirtualAssumption DEF Masters, HeadOf
<1>2. Chain(o.next, o.device[v], lists[v])
  BY <1>1 DEF Linked
<1>3. Acted(o, p, done, function)
  BY <1>2, ActionFacts
<1> HIDE DEF p, lists
<1>4. p \in OutputsState /\ p.next = o.next /\ p.device = o.device /\ p.function = o.function
  BY <1>3 DEF Acted
<1>5. Linked(o, lists) /\ Linked(p, lists)
  BY <1>4, SameLists DEF lists
<1>6. \A d \in Devices : OwnerOf(p, d) = OwnerOf(o, d)
  BY <1>5, SameOwners
<1>7. \A d \in Devices : d \in done <=> OwnerOf(o, d) = v
  BY <1>1, <1>5, OwnerFacts
<1>8. done \subseteq Devices
  <2>1. lists[v] \in Seq(Devices)
    BY <1>2 DEF Chain, lists
  <2> QED BY <2>1 DEF Nodes
<1>9. \A d \in Devices :
        p.shadow[d] = IF d \in done THEN NewValue(function, o.shadow[d]) ELSE o.shadow[d]
  BY <1>3 DEF Acted, Resources
<1>10. ASSUME NEW d \in Devices, AloneOf(o, d), FollowsOf(o, d) PROVE FollowsOf(p, d)
  <2>1. \A e \in Devices \ {d} : Driver[e].line = Driver[d].line => OwnerOf(o, e) = V_NULL
    BY <1>10 DEF AloneOf, Sharing
  <2>2. \A e \in done \ {d} : Driver[e].line # Driver[d].line
    BY <1>1, <1>7, <1>8, <2>1
  <2>3. Driver[d].line \in Lines
    BY DEF Lines
  <2>4. CASE function = "V_NOFUNC"
    BY <1>3, <1>10, <2>4 DEF Acted
  <2>5. CASE function # "V_NOFUNC" /\ d \in done
    <3>1. p.line[Driver[d].line] = Level(d, p.shadow[d])
      BY <1>3, <2>2, <2>5 DEF Acted
    <3> QED BY <3>1 DEF FollowsOf
  <2>6. CASE d \notin done
    <3>1. p.line[Driver[d].line] = o.line[Driver[d].line]
      BY <1>3, <2>2, <2>3, <2>6 DEF Acted
    <3> QED BY <1>9, <1>10, <2>6, <3>1 DEF FollowsOf
  <2> QED BY <2>4, <2>5, <2>6
<1>11. IsAction(o, p, v, function)
  BY <1>4, <1>5, <1>6, <1>7, <1>9, <1>10 DEF IsAction, lists
<1> QED BY <1>11 DEF p

-----------------------------------------------------------------------------
(* The inductive invariant.                                                *)

\* What the runs check, and: the lists are chains that share no device, and an
\* output in the middle of its pulse has a pulse for its function.
Inv ==
  /\ outputs \in OutputsState
  /\ phase \in {"SETUP", "RUNNING"}
  /\ pulsing \in Masters
  /\ Linked(outputs, Lists(outputs))
  /\ ~Still => outputs.function[pulsing] \in Pulses
  /\ phase = "RUNNING" =>
       \A d \in Devices : AloneOf(outputs, d) /\ (\A e \in Sharing(d) : e <= d) => FollowsOf(outputs, d)

LEMMA InitInv == Init => Inv
<1> USE PhysicalAssumption, VirtualAssumption
<1> SUFFICES ASSUME Init PROVE Inv
  OBVIOUS
<1>1. PICK levels \in [Lines -> Levels] :
         outputs = virtual_init([next |-> <<>>, shadow |-> <<>>, line |-> levels,
                                 device |-> <<>>, function |-> <<>>])
  BY DEF Init
<1>2. outputs = Cleared(levels)
  BY <1>1, InitIsCleared
<1>3. outputs \in OutputsState /\ Linked(outputs, Lists(outputs))
  BY <1>2, ClearedFacts, LinkedLists
<1> QED BY <1>3 DEF Init, Inv, Still, Masters

\* The part of the invariant that is about the outputs, for a state in which no
\* pulse is under way.
Good(o, ph) ==
  /\ o \in OutputsState
  /\ Linked(o, Lists(o))
  /\ ph = "RUNNING" =>
       \A d \in Devices : AloneOf(o, d) /\ (\A e \in Sharing(d) : e <= d) => FollowsOf(o, d)

LEMMA ActionGood ==
  ASSUME PhysicalAssumption, VirtualAssumption, NEW o, NEW ph, Good(o, ph),
         NEW v \in VirtualDevices, NEW function \in VirtualFunctions
  PROVE  Good(virtual_action(o, v, function), ph)
<1> DEFINE p == virtual_action(o, v, function)
<1>1. IsAction(o, p, v, function)
  BY ActionByOwner DEF Good
<1> HIDE DEF p
<1>2. p \in OutputsState /\ Linked(p, Lists(p))
  BY <1>1, LinkedLists DEF IsAction
<1>3. ASSUME NEW d \in Devices, AloneOf(p, d), \A e \in Sharing(d) : e <= d, ph = "RUNNING"
      PROVE  FollowsOf(p, d)
  <2>1. \A e \in Sharing(d) : e \in Devices
    BY DEF Sharing
  <2>2. AloneOf(o, d)
    BY <1>1, <1>3, <2>1 DEF IsAction, AloneOf
  <2>3. FollowsOf(o, d)
    BY <1>3, <2>2 DEF Good
  <2> QED BY <1>1, <2>2, <2>3 DEF IsAction
<1>4. Good(p, ph)
  BY <1>2, <1>3 DEF Good
<1> QED BY <1>4 DEF p

LEMMA SyncGood ==
  ASSUME PhysicalAssumption, VirtualAssumption, NEW o, NEW ph, Good(o, "SETUP")
  PROVE  /\ Good(virtual_sync(o), ph)
         /\ Linked(virtual_sync(o), Lists(o))
         /\ virtual_sync(o).shadow = o.shadow /\ virtual_sync(o).function = o.function
<1> DEFINE p == virtual_sync(o)
<1>1. Asserted(o, p, LastDevice)
  BY SyncFacts DEF Good
<1> HIDE DEF p
<1>2. p \in OutputsState /\ Linked(p, Lists(o)) /\ p.shadow = o.shadow /\ p.function = o.function
  BY <1>1, SameLists DEF Asserted, Good
<1>3. ASSUME NEW d \in Devices, \A e \in Sharing(d) : e <= d PROVE FollowsOf(p, d)
  <2>1. \A e \in 1..LastDevice : Driver[e].line = Driver[d].line => e <= d
    BY <1>3 DEF Sharing, Devices
  <2>2. p.line[Driver[d].line] = Level(d, o.shadow[d])
    BY <1>1, <2>1 DEF Asserted, Devices
  <2> QED BY <1>2, <2>2 DEF FollowsOf
<1>4. Good(p, ph)
  BY <1>2, <1>3, LinkedLists DEF Good
<1> QED BY <1>2, <1>4 DEF p

LEMMA AssignGood ==
  ASSUME PhysicalAssumption, VirtualAssumption, NEW o, Good(o, "SETUP"),
         NEW v, NEW d, NEW function \in VirtualFunctions, NEW value \in Values
  PROVE  Good(virtual_assign(o, v, d, function, value), "SETUP")
BY GoodAssign DEF Good, GoodOutputs

LEMMA InvIsGood ==
  Inv <=> /\ Good(outputs, phase)
          /\ phase \in {"SETUP", "RUNNING"} /\ pulsing \in Masters
          /\ ~Still => outputs.function[pulsing] \in Pulses
BY DEF Inv, Good

LEMMA NextInv == Inv /\ [Next]_outputVars => Inv'
<1> USE PhysicalAssumption, VirtualAssumption
<1> SUFFICES ASSUME Inv, [Next]_outputVars PROVE Inv'
  OBVIOUS
<1> USE DEF Still, Masters
<1>1. /\ Good(outputs, phase) /\ Good(outputs, "SETUP")
      /\ phase \in {"SETUP", "RUNNING"} /\ pulsing \in Masters
      /\ ~Still => outputs.function[pulsing] \in Pulses
      /\ outputs \in OutputsState
      /\ outputs.function \in [VirtualDevices -> VirtualFunctions]
  BY InvIsGood DEF Good, OutputsState
<1>2. Inv' <=> /\ Good(outputs', phase')
               /\ phase' \in {"SETUP", "RUNNING"} /\ pulsing' \in Masters
               /\ ~Still' => outputs'.function[pulsing'] \in Pulses
  BY DEF Inv, Good
<1>3. \A v \in VirtualDevices : \A function \in VirtualFunctions :
        virtual_action(outputs, v, function).function = outputs.function
  BY <1>1, ActionByOwner DEF Good, IsAction
<1>a. CASE Reset
  <2>1. outputs' = Cleared(outputs.line)
    BY <1>1, <1>a, InitIsCleared DEF Reset, OutputsState
  <2>2. outputs.line \in [Lines -> Levels]
    BY <1>1 DEF OutputsState
  <2>3. Good(outputs', "SETUP")
    BY <2>1, <2>2, ClearedFacts, LinkedLists DEF Good
  <2> QED BY <1>1, <1>2, <1>a, <2>3 DEF Reset
<1>b. ASSUME NEW a \in Assignments, Assign(a[1], a[2], a[3], a[4]) PROVE Inv'
  <2>1. a[3] \in VirtualFunctions /\ a[4] \in Values
    BY OutputsAssumption
  <2>2. Good(outputs', "SETUP")
    BY <1>1, <1>b, <2>1, AssignGood DEF Assign
  <2> QED BY <1>1, <1>2, <1>b, <2>2 DEF Assign
<1>c. CASE Sync
  <2>1. Good(outputs', "RUNNING")
    BY <1>1, <1>c, SyncGood DEF Sync
  <2> QED BY <1>1, <1>2, <1>c, <2>1 DEF Sync
<1>d. ASSUME NEW v \in VirtualDevices, Activate(v) PROVE Inv'
  <2>1. outputs.function[v] \in VirtualFunctions
    BY <1>1
  <2>2. Good(outputs', phase') /\ outputs'.function = outputs.function
    BY <1>1, <1>3, <1>d, <2>1, ActionGood DEF Activate
  <2> QED BY <1>1, <1>2, <1>d, <2>2 DEF Activate
<1>e. CASE PulseEnds
  <2>1. pulsing \in VirtualDevices /\ outputs.function[pulsing] \in VirtualFunctions
    BY <1>1, <1>e DEF PulseEnds
  <2>2. Good(outputs', phase')
    BY <1>1, <1>e, <2>1, ActionGood DEF PulseEnds
  <2> QED BY <1>1, <1>2, <1>e, <2>2 DEF PulseEnds
<1>f. ASSUME NEW v \in VirtualDevices, NEW function \in {"V_SET_HI", "V_SET_LO"},
             SetLed(v, function)
      PROVE  Inv'
  <2>1. function \in VirtualFunctions
    BY DEF VirtualFunctions
  <2>2. Good(outputs', phase')
    BY <1>1, <1>f, <2>1, ActionGood DEF SetLed
  <2> QED BY <1>1, <1>2, <1>f, <2>2 DEF SetLed
<1>g. CASE UNCHANGED outputVars
  BY <1>g DEF outputVars, Inv
<1> QED
  BY <1>a, <1>b, <1>c, <1>d, <1>e, <1>f, <1>g DEF Next

THEOREM Invariance == Spec => []Inv
<1> QED BY InitInv, NextInv, PTL DEF Spec

-----------------------------------------------------------------------------
(* The invariants that the runs check.                                     *)

LEMMA OwnersAgree ==
  /\ \A d : Owner(d) = OwnerOf(outputs, d)
  /\ \A d : Owner(d)' = OwnerOf(outputs', d)
BY DEF Owner, Owned, OwnerOf

\* Every step leaves every table with entries of their types: no link and no
\* head is out of the range of the devices.
THEOREM TypeCorrect == Spec => []TypeOK
<1>1. Inv => TypeOK
  BY DEF Inv, TypeOK, OutputsState, Masters
<1> QED BY <1>1, Invariance, PTL

\* Every device is on one list, that of the available devices or that of one
\* virtual output, and every list ends at NO_OUT.
THEOREM DevicesPartitioned == Spec => []ListsPartition
<1>1. Inv => ListsPartition
  <2> USE PhysicalAssumption, VirtualAssumption
  <2> SUFFICES ASSUME Inv PROVE ListsPartition
    OBVIOUS
  <2> DEFINE lists == Lists(outputs)
  <2>1. Linked(outputs, lists)
    BY DEF Inv
  <2>2. \A d \in Devices :
          Owner(d) \in Masters /\ \A h \in Masters : d \in Nodes(lists[h]) <=> Owner(d) = h
    BY <2>1, OwnerFacts, OwnersAgree
  <2>3. /\ Available(outputs) = Nodes(lists[V_NULL])
        /\ \A v \in VirtualDevices : Owned(v) = Nodes(lists[v])
    BY DEF Available, Owned, Lists, Masters, HeadOf
  <2>4. V_NULL \in Masters /\ VirtualDevices \subseteq Masters
    BY DEF Masters
  <2>5. \A d \in Devices : d \in Available(outputs) <=> Owner(d) = V_NULL
    BY <2>2, <2>3, <2>4
  <2>6. \A v, w \in VirtualDevices : v # w => Owned(v) \intersect Owned(w) = {}
    BY <2>1, <2>3, <2>4 DEF Linked
  <2>7. ASSUME NEW h \in Masters
        PROVE  LET list == List(outputs.next, HeadOf(outputs, h)) IN
               list # <<>> => outputs.next[list[Len(list)]] = NO_OUT
    <3>1. Chain(outputs.next, HeadOf(outputs, h), lists[h])
      BY <2>1 DEF Linked
    <3>2. List(outputs.next, HeadOf(outputs, h)) = lists[h]
      BY DEF Lists
    <3>3. lists[h] # <<>> => Len(lists[h]) \in DOMAIN lists[h]
      BY <3>1 DEF Chain
    <3> HIDE DEF lists
    <3> QED BY <3>1, <3>2, <3>3 DEF Chain
  <2>8. \A head \in {outputs.device[v] : v \in VirtualDevices} \union {outputs.next[NO_OUT]} :
          \E h \in Masters : head = HeadOf(outputs, h)
    BY DEF HeadOf, Masters
  <2> HIDE DEF lists
  <2> QED BY <2>5, <2>6, <2>7, <2>8 DEF ListsPartition
<1> QED BY <1>1, Invariance, PTL

\* After the sync that ends the setup of a keymap, the line of a device that is
\* assigned, and comes last of those that share it, is at what its value says,
\* whatever keys and LEDs do, until the outputs are cleared.
THEOREM AssignedLinesFollow == Spec => []LinesFollow
<1>1. Inv => LinesFollow
  BY OwnersAgree DEF Inv, LinesFollow, Alone, AloneOf, Follows, FollowsOf, Sharing
<1> QED BY <1>1, Invariance, PTL

-----------------------------------------------------------------------------
(* The tables and lists implement Outputs.                                 *)

\* The values that devices rest at, by the record of outputs.
RestOf(o, v, d) == IF v # V_NULL /\ OwnerOf(o, d) = v THEN 1 - o.shadow[d] ELSE o.shadow[d]
OwnersOf(o) == [d \in Devices |-> OwnerOf(o, d)]
RestsOf(o, v) == [d \in Devices |-> RestOf(o, v, d)]

LEMMA Barred ==
  /\ [d \in Devices |-> Owner(d)] = OwnersOf(outputs)
  /\ [d \in Devices |-> Owner(d)]' = OwnersOf(outputs')
  /\ [d \in Devices |-> Resting(d)] = RestsOf(outputs, pulsing)
  /\ [d \in Devices |-> Resting(d)]' = RestsOf(outputs', pulsing')
BY OwnersAgree DEF Resting, RestOf, RestsOf, OwnersOf, Still

\* A step of the abstract specification, by the values of its variables.
LEMMA PromisedStep ==
  ASSUME OwnersOf(outputs') = OwnersOf(outputs),
         outputs'.function = outputs.function,
         NEW v \in VirtualDevices, NEW function \in VirtualFunctions,
         RestsOf(outputs', pulsing') =
           [d \in Devices |-> IF OwnersOf(outputs)[d] = v
                              THEN NewValue(function, RestsOf(outputs, pulsing)[d])
                              ELSE RestsOf(outputs, pulsing)[d]],
         function = "V_TOGGLE" => outputs.function[v] = "V_TOGGLE",
         function \notin Pulses
  PROVE  [Promise!Next]_(Promise!vars)
<1>1. CASE function = "V_TOGGLE"
  <2>1. \A x : NewValue(function, x) = 1 - x
    BY <1>1 DEF NewValue
  <2>2. Promise!Toggle(v)
    BY <1>1, <2>1, Barred DEF Promise!Toggle, Promise!SetAll
  <2> QED BY <2>2 DEF Promise!Next
<1>2. CASE function = "V_SET_HI"
  <2>1. \A x : NewValue(function, x) = 1
    BY <1>2 DEF NewValue, Pulses
  <2>2. Promise!SetHi(v)
    BY <1>2, <2>1, Barred DEF Promise!SetHi, Promise!SetAll
  <2> QED BY <2>2 DEF Promise!Next
<1>3. CASE function = "V_SET_LO"
  <2>1. \A x : NewValue(function, x) = 0
    BY <1>3 DEF NewValue, Pulses
  <2>2. Promise!SetLo(v)
    BY <1>3, <2>1, Barred DEF Promise!SetLo, Promise!SetAll
  <2> QED BY <2>2 DEF Promise!Next
<1>4. CASE function = "V_NOFUNC"
  <2>1. \A x : NewValue(function, x) = x
    BY <1>4 DEF NewValue, Pulses
  <2>2. RestsOf(outputs', pulsing') = RestsOf(outputs, pulsing)
    BY <2>1 DEF RestsOf
  <2> QED BY <2>2, Barred DEF Promise!vars
<1> QED BY <1>1, <1>2, <1>3, <1>4 DEF VirtualFunctions

LEMMA NewValueTwice ==
  ASSUME NEW function \in Pulses, NEW value \in Values
  PROVE  /\ NewValue(function, value) = 1 - value
         /\ 1 - NewValue(function, value) = value
BY DEF NewValue, Pulses, Values

\* An action changes the values that devices rest at as the abstract one does;
\* half a pulse does not change them.
LEMMA ActionPromised ==
  ASSUME PhysicalAssumption, VirtualAssumption, Good(outputs, phase), NEW v \in VirtualDevices,
         NEW function \in VirtualFunctions, outputs' = virtual_action(outputs, v, function),
         \/ /\ pulsing = V_NULL /\ pulsing' = V_NULL
            /\ function \notin Pulses
            /\ function = "V_TOGGLE" => outputs.function[v] = "V_TOGGLE"
         \/ /\ {pulsing, pulsing'} = {V_NULL, v} /\ function \in Pulses
  PROVE  [Promise!Next]_(Promise!vars)
<1> DEFINE o == outputs
           p == outputs'
<1>1. IsAction(o, p, v, function)
  BY ActionByOwner DEF Good
<1>2. o.shadow \in [Resources -> Values] /\ Devices \subseteq Resources /\ v # V_NULL
  BY VirtualAssumption DEF Good, OutputsState, Resources
<1>3. OwnersOf(p) = OwnersOf(o) /\ p.function = o.function
  BY <1>1 DEF IsAction, OwnersOf
<1>4. CASE pulsing = V_NULL /\ pulsing' = V_NULL
  <2>1. function \notin Pulses /\ (function = "V_TOGGLE" => o.function[v] = "V_TOGGLE")
    BY <1>2, <1>4
  <2>2. \A d \in Devices : RestOf(o, pulsing, d) = o.shadow[d] /\ RestOf(p, pulsing', d) = p.shadow[d]
    BY <1>4 DEF RestOf
  <2>3. RestsOf(p, pulsing') =
          [d \in Devices |-> IF OwnersOf(o)[d] = v
                             THEN NewValue(function, RestsOf(o, pulsing)[d])
                             ELSE RestsOf(o, pulsing)[d]]
    BY <1>1, <2>2 DEF RestsOf, OwnersOf, IsAction
  <2> QED BY <1>3, <2>1, <2>3, PromisedStep
<1>5. CASE {pulsing, pulsing'} = {V_NULL, v} /\ function \in Pulses
  <2>1. ASSUME NEW d \in Devices PROVE RestOf(p, pulsing', d) = RestOf(o, pulsing, d)
    <3>1. o.shadow[d] \in Values
      BY <1>2
    <3>2. /\ p.shadow[d] = IF OwnerOf(o, d) = v THEN NewValue(function, o.shadow[d]) ELSE o.shadow[d]
          /\ OwnerOf(p, d) = OwnerOf(o, d)
      BY <1>1 DEF IsAction
    <3>3. NewValue(function, o.shadow[d]) = 1 - o.shadow[d] /\ 1 - (1 - o.shadow[d]) = o.shadow[d]
      BY <1>5, <3>1, NewValueTwice
    <3>4. (pulsing = V_NULL /\ pulsing' = v) \/ (pulsing = v /\ pulsing' = V_NULL)
      BY <1>2, <1>5
    <3> QED BY <1>2, <3>2, <3>3, <3>4 DEF RestOf
  <2>2. RestsOf(p, pulsing') = RestsOf(o, pulsing)
    BY <2>1 DEF RestsOf
  <2> QED BY <1>3, <2>2, Barred DEF Promise!vars
<1> QED BY <1>4, <1>5

\* What an assignment changes, by owner.
LEMMA AssignPromised ==
  ASSUME PhysicalAssumption, VirtualAssumption, Good(outputs, "SETUP"),
         NEW v \in VirtualDevices, NEW d \in Available(outputs),
         NEW function \in VirtualFunctions, NEW value \in Values,
         outputs' = virtual_assign(outputs, v, d, function, value),
         pulsing = V_NULL, pulsing' = V_NULL
  PROVE  Promise!Next
<1> DEFINE o == outputs
           p == outputs'
           lists == Lists(o)
<1>1. Available(o) = Nodes(lists[V_NULL])
  BY DEF Available, Lists, Masters, HeadOf
<1>2. PICK after : IsAssigned(o, p, lists, after, v, d, function, value)
  BY <1>1, AssignFacts DEF Good
<1> HIDE DEF lists
<1>3. Linked(o, lists) /\ Linked(p, after)
  BY <1>2 DEF IsAssigned, Good, lists
<1>4. V_NULL \in Masters /\ v \in Masters /\ VirtualDevices \subseteq Masters /\ v # V_NULL
  BY VirtualAssumption DEF Masters
<1>5. d \in Devices
  <2>1. lists[V_NULL] \in Seq(Devices)
    BY <1>3, <1>4 DEF Linked, Chain
  <2> QED BY <1>1, <2>1 DEF Nodes
<1>6. OwnerOf(o, d) = V_NULL /\ OwnerOf(p, d) = v
  BY <1>1, <1>2, <1>3, <1>4, <1>5, OwnerFacts DEF IsAssigned
<1>7. ASSUME NEW e \in Devices, e # d PROVE OwnerOf(p, e) = OwnerOf(o, e)
  <2>1. PICK h \in Masters : e \in Nodes(lists[h])
    BY <1>3 DEF Linked
  <2>2. e \in Nodes(after[h])
    BY <1>2, <1>7, <2>1 DEF IsAssigned, Masters
  <2>3. OwnerOf(o, e) = h
    BY <1>3, <2>1, OwnerFacts
  <2>4. OwnerOf(p, e) = h
    BY <1>3, <2>2, OwnerFacts
  <2> QED BY <2>3, <2>4
<1>8. OwnersOf(p) = [OwnersOf(o) EXCEPT ![d] = v] /\ OwnersOf(o)[d] = V_NULL
  BY <1>5, <1>6, <1>7 DEF OwnersOf
<1>9. RestsOf(p, pulsing') = [RestsOf(o, pulsing) EXCEPT ![d] = value]
  <2>1. p.shadow = [o.shadow EXCEPT ![d] = value] /\ o.shadow \in [Resources -> Values]
    BY <1>2 DEF IsAssigned, Good, OutputsState
  <2>2. \A e \in Devices : e \in Resources
    BY DEF Resources
  <2> QED BY <1>5, <2>1, <2>2 DEF RestsOf, RestOf
<1>10. p.function = [o.function EXCEPT ![v] = function]
  BY <1>2 DEF IsAssigned
<1>11. Promise!Assign(v, d, function, value)
  BY <1>8, <1>9, <1>10, Barred DEF Promise!Assign
<1>12. value \in {0, 1}
  BY DEF Values
<1> QED BY <1>5, <1>11, <1>12 DEF Promise!Next

\* The outputs after they are cleared.
LEMMA ClearedPromised ==
  ASSUME PhysicalAssumption, VirtualAssumption, NEW o, NEW levels \in [Lines -> Levels],
         o = Cleared(levels)
  PROVE  /\ OwnersOf(o) = [d \in Devices |-> V_NULL]
         /\ RestsOf(o, V_NULL) = [d \in Devices |-> 1]
         /\ o.function = [v \in VirtualDevices |-> "V_NOFUNC"]
<1>1. Linked(o, AllAvailable)
  BY ClearedFacts
<1>2. ASSUME NEW d \in Devices PROVE OwnerOf(o, d) = V_NULL
  <2>1. V_NULL \in Masters /\ Nodes(AllAvailable[V_NULL]) = Devices
    BY DEF AllAvailable, Masters, Nodes
  <2> QED BY <1>1, <2>1, OwnerFacts
<1>3. \A d \in Devices : o.shadow[d] = 1
  BY DEF Cleared, Resources
<1>4. o.function = [v \in VirtualDevices |-> "V_NOFUNC"]
  BY DEF Cleared
<1> QED BY <1>2, <1>3, <1>4 DEF OwnersOf, RestsOf, RestOf

LEMMA InitPromised == Init => Promise!Init
<1> USE PhysicalAssumption, VirtualAssumption
<1> SUFFICES ASSUME Init PROVE Promise!Init
  OBVIOUS
<1>1. PICK levels \in [Lines -> Levels] :
         outputs = virtual_init([next |-> <<>>, shadow |-> <<>>, line |-> levels,
                                 device |-> <<>>, function |-> <<>>])
  BY DEF Init
<1>2. outputs = Cleared(levels) /\ pulsing = V_NULL
  BY <1>1, InitIsCleared DEF Init
<1> QED BY <1>2, ClearedPromised, Barred DEF Promise!Init

LEMMA NextPromised == Inv /\ [Next]_outputVars => [Promise!Next]_(Promise!vars)
<1> USE PhysicalAssumption, VirtualAssumption
<1> SUFFICES ASSUME Inv, [Next]_outputVars PROVE [Promise!Next]_(Promise!vars)
  OBVIOUS
<1>1. /\ Good(outputs, phase) /\ Good(outputs, "SETUP")
      /\ pulsing \in Masters
      /\ ~Still => outputs.function[pulsing] \in Pulses
      /\ outputs.function \in [VirtualDevices -> VirtualFunctions]
  BY InvIsGood DEF Good, OutputsState
<1>2. ASSUME OwnersOf(outputs') = OwnersOf(outputs),
             RestsOf(outputs', pulsing') = RestsOf(outputs, pulsing),
             outputs'.function = outputs.function
      PROVE  [Promise!Next]_(Promise!vars)
  BY <1>2, Barred DEF Promise!vars
<1>a. CASE Reset
  <2>1. outputs.line \in [Lines -> Levels] /\ outputs' = Cleared(outputs.line)
    BY <1>1, <1>a, InitIsCleared DEF Reset, Good, OutputsState
  <2>2. pulsing' = V_NULL
    BY <1>a DEF Reset, Still
  <2>3. Promise!Reset
    BY <2>1, <2>2, ClearedPromised, Barred DEF Promise!Reset
  <2> QED BY <2>3 DEF Promise!Next
<1>b. ASSUME NEW a \in Assignments, Assign(a[1], a[2], a[3], a[4])
      PROVE  [Promise!Next]_(Promise!vars)
  <2>1. a[3] \in VirtualFunctions /\ a[4] \in Values
    BY OutputsAssumption
  <2>2. pulsing = V_NULL /\ pulsing' = V_NULL
    BY <1>b DEF Assign, Still
  <2>3. outputs' = virtual_assign(outputs, a[1], a[2], a[3], a[4])
    BY <1>b DEF Assign
  <2>4. CASE a[1] \in VirtualDevices /\ a[2] \in Available(outputs)
    <3>1. Promise!Next
      BY <1>1, <2>1, <2>2, <2>3, <2>4, AssignPromised
    <3> QED BY <3>1
  <2>5. CASE ~(a[1] \in VirtualDevices /\ a[2] \in Available(outputs))
    <3>1. outputs' = outputs
      BY <2>3, <2>5 DEF virtual_assign
    <3> QED BY <1>2, <2>2, <3>1
  <2> QED BY <2>4, <2>5
<1>c. CASE Sync
  <2>1. /\ Linked(outputs', Lists(outputs)) /\ outputs'.shadow = outputs.shadow
        /\ outputs'.function = outputs.function /\ pulsing' = pulsing
    BY <1>1, <1>c, SyncGood DEF Sync
  <2>2. \A d \in Devices : OwnerOf(outputs', d) = OwnerOf(outputs, d)
    BY <1>1, <2>1, SameOwners DEF Good
  <2> QED BY <1>2, <2>1, <2>2 DEF OwnersOf, RestsOf, RestOf
<1>d. ASSUME NEW v \in VirtualDevices, Activate(v) PROVE [Promise!Next]_(Promise!vars)
  <2>1. outputs.function[v] \in VirtualFunctions
    BY <1>1
  <2>2. /\ pulsing = V_NULL /\ outputs' = virtual_action(outputs, v, outputs.function[v])
        /\ pulsing' = IF outputs.function[v] \in Pulses THEN v ELSE V_NULL
    BY <1>d DEF Activate, Still
  <2> QED BY <1>1, <2>1, <2>2, ActionPromised
<1>e. CASE PulseEnds
  <2>1. /\ pulsing \in VirtualDevices /\ outputs.function[pulsing] \in Pulses
        /\ pulsing' = V_NULL
        /\ outputs' = virtual_action(outputs, pulsing, outputs.function[pulsing])
    BY <1>1, <1>e DEF PulseEnds, Still, Masters
  <2>2. outputs.function[pulsing] \in VirtualFunctions
    BY <1>1, <2>1
  <2> QED BY <1>1, <2>1, <2>2, ActionPromised
<1>f. ASSUME NEW v \in VirtualDevices, NEW function \in {"V_SET_HI", "V_SET_LO"},
             SetLed(v, function)
      PROVE  [Promise!Next]_(Promise!vars)
  <2>1. function \in VirtualFunctions /\ function \notin Pulses /\ function # "V_TOGGLE"
    BY DEF VirtualFunctions, Pulses
  <2>2. pulsing = V_NULL /\ pulsing' = V_NULL /\ outputs' = virtual_action(outputs, v, function)
    BY <1>f DEF SetLed, Still
  <2> QED BY <1>1, <2>1, <2>2, ActionPromised
<1>g. CASE UNCHANGED outputVars
  BY <1>2, <1>g DEF outputVars
<1> QED
  BY <1>a, <1>b, <1>c, <1>d, <1>e, <1>f, <1>g DEF Next

\* The tables and lists keep every promise of Outputs.tla: a device belongs to
\* at most one output, the first it was assigned to; a function acts on all
\* devices of its output and on no other; a pulse leaves every device as it was.
THEOREM ImplementsOutputs == Spec => KeepsOutputs
<1>1. Inv /\ [Next]_outputVars => [Promise!Next]_(Promise!vars)
  BY NextPromised
<1> QED BY <1>1, Invariance, InitPromised, PTL DEF Spec, KeepsOutputs, Promise!Spec
=============================================================================
