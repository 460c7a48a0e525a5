------------------------- MODULE AsdfVirtual_proofs -------------------------
(***************************************************************************)
(* Lemmas about the lists of devices (AsdfPhysical) and the operators on   *)
(* virtual outputs (AsdfVirtual), for every table of devices: what a walk  *)
(* along links finds, how an assignment moves a device from one list to    *)
(* another, and what an action or a sync does to shadows and lines.        *)
(*                                                                         *)
(* The loops of the code are recursive functions here.  That they are well *)
(* defined, and what holds after their last round, is proved by induction  *)
(* on the rounds; the principle is stated for sets and functions (Rounds   *)
(* and Recursion), so that it can be cited like any other lemma.           *)
(***************************************************************************)
EXTENDS AsdfVirtual, Integers, FunctionTheorems, FiniteSetTheorems, WellFoundedInduction, TLAPS

-----------------------------------------------------------------------------
(* Induction and recursion.                                                *)

\* A set of naturals that is not empty has a least member.
LEMMA LeastNatural ==
  ASSUME NEW S, S \subseteq Nat, S # {}
  PROVE  \E n \in S : \A m \in S : n <= m
<1> DEFINE R == OpToRel(<, Nat)
<1>1. PICK n \in S : \A m \in S : <<m, n>> \notin R
  BY NatLessThanWellFounded, WFMin
<1>2. ASSUME NEW m \in S PROVE n <= m
  <2>1. n \in Nat /\ m \in Nat
    OBVIOUS
  <2>2. ~(m < n)
    BY <1>1, <2>1 DEF OpToRel
  <2> QED BY <2>1, <2>2
<1> QED BY <1>2

\* What holds before the first round and is kept by each holds after the last.
LEMMA Rounds ==
  ASSUME NEW N \in Nat, NEW Good,
         0 \in Good, \A n \in 1..N : n - 1 \in Good => n \in Good
  PROVE  0..N \subseteq Good
<1> SUFFICES ASSUME NEW k \in 0..N, k \notin Good PROVE FALSE
  OBVIOUS
<1> DEFINE Bad == {n \in 0..N : n \notin Good}
<1>1. Bad \subseteq Nat /\ k \in Bad
  OBVIOUS
<1>2. PICK n \in Bad : \A m \in Bad : n <= m
  <2> HIDE DEF Bad
  <2> QED BY <1>1, LeastNatural
<1>3. n \in 1..N /\ n - 1 \in 0..N
  OBVIOUS
<1>4. n - 1 \notin Bad
  BY <1>2, <1>3
<1> QED BY <1>3, <1>4

\* The states after each of N rounds, where round[n] is what round n does.
Solves(after, N, State, start, round) ==
  /\ after \in [0..N -> State]
  /\ after[0] = start
  /\ \A n \in 1..N : after[n] = round[n][after[n - 1]]

\* Rounds that can be made from every state can be made in turn.
LEMMA Recursion ==
  ASSUME NEW N \in Nat, NEW State, NEW start \in State, NEW round \in [1..N -> [State -> State]]
  PROVE  \E after : Solves(after, N, State, start, round)
<1> DEFINE Good == {n \in 0..N : \E f : Solves(f, n, State, start, round)}
<1>1. 0 \in Good
  <2>1. Solves([i \in 0..0 |-> start], 0, State, start, round)
    BY DEF Solves
  <2> QED BY <2>1
<1>2. ASSUME NEW n \in 1..N, n - 1 \in Good PROVE n \in Good
  <2>1. PICK f : Solves(f, n - 1, State, start, round)
    BY <1>2
  <2> DEFINE g == [i \in 0..n |-> IF i = n THEN round[n][f[n - 1]] ELSE f[i]]
  <2>2. n \in Nat /\ n >= 1 /\ n - 1 \in 0..(n-1) /\ f[n-1] \in State
    BY <2>1 DEF Solves
  <2>3. round[n][f[n - 1]] \in State
    BY <2>2
  <2>4. g \in [0..n -> State] /\ g[0] = start
    BY <2>1, <2>2, <2>3 DEF Solves
  <2>5. ASSUME NEW i \in 1..n PROVE g[i] = round[i][g[i - 1]]
    <3>1. i - 1 \in 0..(n-1) /\ i - 1 # n /\ i \in 0..n /\ i - 1 \in 0..n
      BY <2>2
    <3>2. g[i - 1] = f[i - 1]
      BY <3>1
    <3>3. CASE i = n
      BY <3>1, <3>2, <3>3
    <3>4. CASE i # n
      <4>1. i \in 1..(n-1)
        BY <3>4, <2>2
      <4> QED BY <4>1, <3>1, <3>2, <3>4, <2>1 DEF Solves
    <3> QED BY <3>3, <3>4
  <2>6. Solves(g, n, State, start, round)
    BY <2>4, <2>5 DEF Solves
  <2> HIDE DEF g
  <2> QED BY <2>6
<1>3. 0..N \subseteq Good
  <2> HIDE DEF Good
  <2> QED BY <1>1, <1>2, Rounds
<1> QED BY <1>3

-----------------------------------------------------------------------------
(* Lists.                                                                  *)

OutputsState ==
  [next : [Resources -> Resources], shadow : [Resources -> Values],
   line : [Lines -> Levels], device : [VirtualDevices -> Resources],
   function : [VirtualDevices -> VirtualFunctions]]

\* The links next make up the list s, from its head to NO_OUT.
Chain(next, head, s) ==
  /\ s \in Seq(Devices)
  /\ \A i, j \in DOMAIN s : s[i] = s[j] => i = j
  /\ head = IF s = <<>> THEN NO_OUT ELSE s[1]
  /\ \A i \in DOMAIN s : next[s[i]] = IF i = Len(s) THEN NO_OUT ELSE s[i + 1]

LEMMA IntervalSize ==
  ASSUME NEW n \in Nat
  PROVE  IsFiniteSet(1..n) /\ Cardinality(1..n) = n
<1>1. /\ IsFiniteSet(1..n)
      /\ Cardinality(1..n) = IF 1 > n THEN 0 ELSE n - 1 + 1
  BY FS_Interval
<1> QED BY <1>1

\* A list has no more nodes than there are devices.
LEMMA ChainLength ==
  ASSUME PhysicalAssumption, NEW next, NEW head, NEW s, Chain(next, head, s)
  PROVE  Len(s) \in 0..LastDevice
<1>1. Len(s) \in Nat /\ DOMAIN s = 1..Len(s) /\ s \in [1..Len(s) -> Devices]
  BY DEF Chain
<1>2. s \in Injection(1..Len(s), Devices)
  BY <1>1 DEF Chain, Injection, IsInjective
<1>3. /\ IsFiniteSet(Devices) /\ Cardinality(Devices) = LastDevice
      /\ Cardinality(1..Len(s)) = Len(s)
  BY <1>1, IntervalSize, PhysicalAssumption DEF Devices
<1>4. Cardinality(1..Len(s)) <= Cardinality(Devices)
  BY <1>2, <1>3, FS_Injection
<1> QED BY <1>1, <1>3, <1>4, PhysicalAssumption

\* A walk from the head of a list comes past its nodes in turn.
LEMMA WalkOfChain ==
  ASSUME PhysicalAssumption, NEW next, NEW head, NEW s, Chain(next, head, s)
  PROVE  Walk(next, head) = [i \in Devices |-> IF i <= Len(s) THEN s[i] ELSE NO_OUT]
<1> DEFINE Body(w) == [i \in Devices |->
                         IF i = 1 THEN head
                         ELSE IF w[i - 1] = NO_OUT THEN NO_OUT ELSE next[w[i - 1]]]
           way == [i \in Devices |-> IF i <= Len(s) THEN s[i] ELSE NO_OUT]
           walk == CHOOSE w : w = Body(w)
<1>1. /\ Len(s) \in 0..LastDevice /\ LastDevice \in Nat \ {0}
      /\ Devices = 1..LastDevice /\ DOMAIN s = 1..Len(s)
      /\ NO_OUT = 0 /\ \A i \in DOMAIN s : s[i] \in Devices /\ s[i] # NO_OUT
      /\ s = <<>> <=> Len(s) = 0
  <2>1. Len(s) \in 0..LastDevice
    BY ChainLength
  <2> QED BY <2>1, PhysicalAssumption DEF Chain, Devices, NO_OUT
<1>2. way[1] = head
  BY <1>1 DEF Chain
<1>3. ASSUME NEW i \in Devices, i # 1
      PROVE  way[i] = IF way[i - 1] = NO_OUT THEN NO_OUT ELSE next[way[i - 1]]
  <2>1. i - 1 \in Devices /\ i \in Nat /\ i >= 2
    BY <1>1, <1>3
  <2>2. CASE i - 1 <= Len(s)
    <3>1. i - 1 \in DOMAIN s /\ way[i - 1] = s[i - 1]
      BY <1>1, <2>1, <2>2
    <3>2. next[s[i - 1]] = IF i - 1 = Len(s) THEN NO_OUT ELSE s[(i - 1) + 1]
      BY <3>1 DEF Chain
    <3>3. (i - 1) + 1 = i /\ (i - 1 # Len(s) => i <= Len(s)) /\ (i - 1 = Len(s) => ~(i <= Len(s)))
      BY <1>1, <2>1, <2>2
    <3> QED BY <1>1, <3>1, <3>2, <3>3
  <2>3. CASE ~(i - 1 <= Len(s))
    BY <1>1, <2>1, <2>3
  <2> QED BY <2>2, <2>3
<1>4. way = Body(way)
  <2>1. ASSUME NEW i \in Devices PROVE way[i] = Body(way)[i]
    BY <1>2, <1>3
  <2> QED BY <2>1
<1>5. walk = Body(walk)
  <2> HIDE DEF Body, way
  <2> QED BY <1>4
<1>6. Walk(next, head) = walk
  BY DEF Walk
<1> HIDE DEF walk
<1>7. ASSUME NEW i \in Devices PROVE walk[i] = way[i]
  <2> DEFINE Good == {n \in 0..LastDevice : n = 0 \/ walk[n] = way[n]}
  <2>1. ASSUME NEW n \in 1..LastDevice, n - 1 \in Good PROVE n \in Good
    <3>1. CASE n = 1
      BY <1>1, <1>2, <1>5, <3>1
    <3>2. CASE n # 1
      <4>1. n \in Devices /\ n - 1 \in Devices /\ n - 1 # 0 /\ n \in 0..LastDevice
        BY <1>1, <3>2
      <4>2. walk[n - 1] = way[n - 1]
        BY <2>1, <4>1
      <4>3. walk[n] = IF walk[n - 1] = NO_OUT THEN NO_OUT ELSE next[walk[n - 1]]
        <5> HIDE DEF way
        <5> QED BY <1>5, <4>1, <3>2
      <4>4. way[n] = IF way[n - 1] = NO_OUT THEN NO_OUT ELSE next[way[n - 1]]
        BY <1>3, <4>1, <3>2
      <4> HIDE DEF way
      <4> QED BY <4>1, <4>2, <4>3, <4>4
    <3> QED BY <3>1, <3>2
  <2>2. 0..LastDevice \subseteq Good
    <3>1. 0 \in Good
      BY <1>1
    <3> HIDE DEF Good
    <3> QED BY <1>1, <2>1, <3>1, Rounds
  <2>3. i \in 0..LastDevice /\ i # 0
    BY <1>1
  <2> HIDE DEF way
  <2> QED BY <2>2, <2>3
<1>8. walk = way
  <2>1. walk = [i \in Devices |-> walk[i]]
    BY <1>5
  <2> HIDE DEF Body
  <2> QED BY <1>7, <2>1
<1> QED BY <1>6, <1>8

\* The list found from the head of a chain is that chain.
LEMMA ListOfChain ==
  ASSUME PhysicalAssumption, NEW next, NEW head, NEW s, Chain(next, head, s)
  PROVE  List(next, head) = s
<1> DEFINE walk == Walk(next, head)
<1>1. /\ Len(s) \in 0..LastDevice /\ LastDevice \in Nat \ {0}
      /\ Devices = 1..LastDevice /\ DOMAIN s = 1..Len(s)
      /\ NO_OUT = 0 /\ \A i \in DOMAIN s : s[i] \in Devices /\ s[i] # NO_OUT
      /\ s \in Seq(Devices)
  <2>1. Len(s) \in 0..LastDevice
    BY ChainLength
  <2> QED BY <2>1, PhysicalAssumption DEF Chain, Devices, NO_OUT
<1>2. \A i \in Devices : walk[i] = IF i <= Len(s) THEN s[i] ELSE NO_OUT
  BY WalkOfChain
<1> HIDE DEF walk
<1>3. {j \in Devices : walk[j] # NO_OUT} = 1..Len(s)
  BY <1>1, <1>2
<1>4. Cardinality(1..Len(s)) = Len(s)
  BY <1>1, IntervalSize
<1>5. List(next, head) = [i \in 1..Len(s) |-> walk[i]]
  BY <1>3, <1>4 DEF List, walk
<1>6. \A i \in 1..Len(s) : walk[i] = s[i]
  BY <1>1, <1>2
<1>7. s = [i \in 1..Len(s) |-> s[i]]
  BY <1>1
<1> QED BY <1>5, <1>6, <1>7
-----------------------------------------------------------------------------
(* Actions.                                                                *)

\* What a function makes of a value.
NewValue(function, value) ==
  CASE function \in Pulses \union {"V_TOGGLE"} -> 1 - value
    [] function = "V_SET_HI" -> 1
    [] function = "V_SET_LO" -> 0
    [] function = "V_NOFUNC" -> value

\* A value is set: the shadow of the device and the level of its line.
IsSet(o, p, d, value) ==
  /\ p \in OutputsState
  /\ p.next = o.next /\ p.device = o.device /\ p.function = o.function
  /\ p.shadow = [o.shadow EXCEPT ![d] = value]
  /\ p.line = [o.line EXCEPT ![Driver[d].line] = Level(d, value)]

LEMMA LevelType ==
  ASSUME PhysicalAssumption, NEW d \in Devices, NEW value \in Values
  PROVE  Level(d, value) \in Levels /\ Driver[d].line \in Lines
BY PhysicalAssumption DEF Level, Levels, Lines, Values

LEMMA SetFacts ==
  ASSUME PhysicalAssumption, NEW o \in OutputsState, NEW d \in Devices, NEW value \in Values
  PROVE  IsSet(o, physical_set(o, d, value), d, value)
<1>1. Level(d, value) \in Levels /\ Driver[d].line \in Lines /\ d \in Resources
  BY LevelType DEF Resources
<1>2. /\ o.next \in [Resources -> Resources] /\ o.shadow \in [Resources -> Values]
      /\ o.line \in [Lines -> Levels] /\ o.device \in [VirtualDevices -> Resources]
      /\ o.function \in [VirtualDevices -> VirtualFunctions]
  BY DEF OutputsState
<1> QED
  BY <1>1, <1>2 DEF IsSet, physical_set, Handle, OutputsState

LEMMA EffectFacts ==
  ASSUME PhysicalAssumption, NEW o \in OutputsState, NEW d \in Devices,
         NEW function \in VirtualFunctions
  PROVE  /\ Effect(o, d, function) \in OutputsState
         /\ o.shadow[d] \in Values /\ NewValue(function, o.shadow[d]) \in Values
         /\ function = "V_NOFUNC" => Effect(o, d, function) = o
         /\ function # "V_NOFUNC" =>
              IsSet(o, Effect(o, d, function), d, NewValue(function, o.shadow[d]))
<1>1. o.shadow[d] \in Values
  BY DEF OutputsState, Resources
<1>2. 1 - o.shadow[d] \in Values /\ 0 \in Values /\ 1 \in Values
  BY <1>1 DEF Values
<1>3. CASE function \in Pulses \union {"V_TOGGLE"}
  BY <1>1, <1>2, <1>3, SetFacts DEF Effect, NewValue, physical_toggle, Pulses, IsSet
<1>4. CASE function = "V_SET_HI"
  BY <1>1, <1>2, <1>4, SetFacts DEF Effect, NewValue, physical_on, Pulses, IsSet
<1>5. CASE function = "V_SET_LO"
  BY <1>1, <1>2, <1>5, SetFacts DEF Effect, NewValue, physical_off, Pulses, IsSet
<1>6. CASE function = "V_NOFUNC"
  BY <1>1, <1>6 DEF Effect, NewValue, Pulses
<1> QED BY <1>3, <1>4, <1>5, <1>6 DEF VirtualFunctions

\* An action is the effects on the devices of a list, in turn.
EffectAll(o, list, function) == Each(LAMBDA p, d : Effect(p, d, function), o, list)
LEMMA EffectRounds ==
  ASSUME PhysicalAssumption, NEW o \in OutputsState, NEW list \in Seq(Devices),
         NEW function \in VirtualFunctions
  PROVE  \E after \in [0..Len(list) -> OutputsState] :
           /\ after[0] = o
           /\ \A n \in 1..Len(list) : after[n] = Effect(after[n - 1], list[n], function)
           /\ EffectAll(o, list, function) = after[Len(list)]
<1> DEFINE N == Len(list)
           round == [n \in 1..N |-> [p \in OutputsState |-> Effect(p, list[n], function)]]
           Body(f) == [n \in 0..N |-> IF n = 0 THEN o ELSE Effect(f[n - 1], list[n], function)]
           after == CHOOSE f : f = Body(f)
<1>1. N \in Nat /\ round \in [1..N -> [OutputsState -> OutputsState]]
  BY EffectFacts
<1>2. \E f : f = Body(f)
  <2>1. PICK f : Solves(f, N, OutputsState, o, round)
    <3> HIDE DEF round, N
    <3> QED BY <1>1, Recursion
  <2>2. ASSUME NEW n \in 1..N PROVE f[n] = Effect(f[n - 1], list[n], function)
    <3>1. f[n - 1] \in OutputsState
      BY <1>1, <2>1 DEF Solves
    <3>2. f[n] = round[n][f[n - 1]]
      BY <2>1 DEF Solves
    <3> HIDE DEF N, Body
    <3> QED BY <3>1, <3>2
  <2>3. f = Body(f)
    <3> HIDE DEF round, N
    <3> QED BY <2>1, <2>2, <1>1 DEF Solves
  <2> HIDE DEF Body
  <2> QED BY <2>3
<1>3. after = Body(after)
  <2> HIDE DEF Body
  <2> QED BY <1>2
<1>4. EffectAll(o, list, function) = after[N]
  BY DEF EffectAll, Each
<1> HIDE DEF after, N
<1>5. /\ after[0] = o
      /\ \A n \in 1..N : after[n] = Effect(after[n - 1], list[n], function)
  BY <1>1, <1>3
<1>6. after \in [0..N -> OutputsState]
  <2> DEFINE Good == {n \in 0..N : after[n] \in OutputsState}
  <2>1. 0 \in Good
    BY <1>1, <1>5
  <2>2. ASSUME NEW n \in 1..N, n - 1 \in Good PROVE n \in Good
    <3>1. list[n] \in Devices /\ n \in 0..N
      BY <1>1 DEF N
    <3> QED BY <3>1, <1>5, <2>2, EffectFacts
  <2>3. 0..N \subseteq Good
    <3> HIDE DEF Good
    <3> QED BY <2>1, <2>2, <1>1, Rounds
  <2> QED BY <2>3, <1>1, <1>3
<1> QED BY <1>4, <1>5, <1>6 DEF N

\* What the state p is after the effects on the devices that were done, of o.
Acted(o, p, done, function) ==
  /\ p \in OutputsState
  /\ p.next = o.next /\ p.device = o.device /\ p.function = o.function
  /\ \A d \in Resources :
       p.shadow[d] = IF d \in done THEN NewValue(function, o.shadow[d]) ELSE o.shadow[d]
  /\ \A l \in Lines : (\A d \in done : Driver[d].line # l) => p.line[l] = o.line[l]
  /\ \A d \in done :
       function # "V_NOFUNC" /\ (\A e \in done \ {d} : Driver[e].line # Driver[d].line)
         => p.line[Driver[d].line] = Level(d, p.shadow[d])
  /\ function = "V_NOFUNC" => p = o

\* One more device, which was not done before.
LEMMA ActedNext ==
  ASSUME PhysicalAssumption, NEW o \in OutputsState, NEW p, NEW done \in SUBSET Devices,
         NEW function \in VirtualFunctions, Acted(o, p, done, function),
         NEW d \in Devices \ done
  PROVE  Acted(o, Effect(p, d, function), done \union {d}, function)
<1> DEFINE q == Effect(p, d, function)
           value == NewValue(function, p.shadow[d])
<1> SUFFICES Acted(o, q, done \union {d}, function)
  OBVIOUS
<1>1. p \in OutputsState /\ d \in Resources /\ p.shadow[d] = o.shadow[d]
  BY DEF Acted, Resources
<1>2. /\ q \in OutputsState /\ value \in Values
      /\ function = "V_NOFUNC" => q = p
      /\ function # "V_NOFUNC" => IsSet(p, q, d, value)
  BY <1>1, EffectFacts
<1>3. CASE function = "V_NOFUNC"
  <2>1. \A w : NewValue(function, w) = w
    BY <1>3 DEF NewValue, Pulses
  <2>2. p = o /\ q = o
    <3> HIDE DEF q
    <3> QED BY <1>2, <1>3 DEF Acted
  <2> HIDE DEF q
  <2>3. /\ q \in OutputsState
        /\ q.next = o.next /\ q.device = o.device /\ q.function = o.function
        /\ \A e \in Resources : q.shadow[e] = o.shadow[e]
        /\ \A l \in Lines : q.line[l] = o.line[l]
    BY <1>1, <2>2
  <2> HIDE DEF OutputsState, Resources, Lines
  <2> QED BY <1>3, <2>1, <2>2, <2>3 DEF Acted
<1>4. CASE function # "V_NOFUNC"
  <2> HIDE DEF q
  <2>1. /\ q.next = p.next /\ q.device = p.device /\ q.function = p.function
        /\ q.shadow = [p.shadow EXCEPT ![d] = value]
        /\ q.line = [p.line EXCEPT ![Driver[d].line] = Level(d, value)]
    BY <1>2, <1>4 DEF IsSet
  <2>2. p.shadow \in [Resources -> Values] /\ p.line \in [Lines -> Levels]
    BY <1>1 DEF OutputsState
  <2>3. Driver[d].line \in Lines
    BY LevelType DEF Lines
  <2>4. ASSUME NEW e \in Resources
        PROVE  q.shadow[e] = IF e \in done \union {d} THEN NewValue(function, o.shadow[e])
                             ELSE o.shadow[e]
    BY <1>1, <2>1, <2>2 DEF Acted
  <2>5. ASSUME NEW l \in Lines, \A e \in done \union {d} : Driver[e].line # l
        PROVE  q.line[l] = o.line[l]
    BY <2>1, <2>2, <2>5 DEF Acted
  <2>6. ASSUME NEW e \in done \union {d},
               \A f \in (done \union {d}) \ {e} : Driver[f].line # Driver[e].line
        PROVE  q.line[Driver[e].line] = Level(e, q.shadow[e])
    <3>1. CASE e = d
      BY <2>1, <2>2, <2>3, <1>1, <3>1
    <3>2. CASE e # d
      <4>1. e \in done /\ e \in Devices /\ e \in Resources /\ Driver[e].line # Driver[d].line
        BY <2>6, <3>2 DEF Resources
      <4>2. p.line[Driver[e].line] = Level(e, p.shadow[e])
        BY <1>4, <2>6, <4>1 DEF Acted
      <4>3. Driver[e].line \in Lines
        BY <4>1, LevelType DEF Lines
      <4> QED BY <2>1, <2>2, <3>2, <4>1, <4>2, <4>3
    <3> QED BY <3>1, <3>2
  <2>7. q.next = o.next /\ q.device = o.device /\ q.function = o.function
    BY <2>1 DEF Acted
  <2>8. /\ \A e \in Resources :
             q.shadow[e] = IF e \in done \union {d} THEN NewValue(function, o.shadow[e])
                           ELSE o.shadow[e]
        /\ \A l \in Lines : (\A e \in done \union {d} : Driver[e].line # l) => q.line[l] = o.line[l]
        /\ \A e \in done \union {d} :
             (\A f \in (done \union {d}) \ {e} : Driver[f].line # Driver[e].line)
               => q.line[Driver[e].line] = Level(e, q.shadow[e])
    BY <2>4, <2>5, <2>6
  <2>9. q \in OutputsState
    BY <1>2
  <2> HIDE DEF Resources, Lines
  <2> QED BY <1>4, <2>7, <2>8, <2>9 DEF Acted
<1> QED BY <1>3, <1>4

\* All devices of a list without repetitions are done.
LEMMA EffectAllFacts ==
  ASSUME PhysicalAssumption, NEW o \in OutputsState, NEW list \in Seq(Devices),
         \A i, j \in DOMAIN list : list[i] = list[j] => i = j,
         NEW function \in VirtualFunctions
  PROVE  Acted(o, EffectAll(o, list, function), Nodes(list), function)
<1> DEFINE N == Len(list)
           Done(n) == {list[i] : i \in 1..n}
<1>1. PICK after \in [0..N -> OutputsState] :
         /\ after[0] = o
         /\ \A n \in 1..N : after[n] = Effect(after[n - 1], list[n], function)
         /\ EffectAll(o, list, function) = after[N]
  BY EffectRounds
<1>2. N \in Nat /\ DOMAIN list = 1..N /\ Nodes(list) = Done(N)
  BY DEF Nodes
<1> HIDE DEF N
<1> DEFINE Good == {n \in 0..N : Acted(o, after[n], Done(n), function)}
<1>3. 0 \in Good
  <2>1. Done(0) = {}
    OBVIOUS
  <2>2. Acted(o, o, {}, function)
    BY DEF Acted, OutputsState
  <2>3. Acted(o, after[0], Done(0), function)
    <3> HIDE DEF Done
    <3> QED BY <1>1, <2>1, <2>2
  <2>4. 0 \in 0..N
    BY <1>2
  <2> HIDE DEF Done
  <2> QED BY <2>3, <2>4
<1>4. ASSUME NEW n \in 1..N, n - 1 \in Good PROVE n \in Good
  <2>1. Done(n - 1) \union {list[n]} = Done(n) /\ Done(n - 1) \in SUBSET Devices
    <3>1. 1..n = 1..(n-1) \union {n} /\ 1..(n-1) \subseteq 1..N
      BY <1>2
    <3>2. \A i \in 1..N : list[i] \in Devices
      BY <1>2
    <3> QED BY <3>1, <3>2
  <2>2. list[n] \in Devices \ Done(n - 1)
    BY <1>2
  <2>3. Acted(o, after[n - 1], Done(n - 1), function) /\ n \in 0..N
    BY <1>2, <1>4
  <2>4. after[n] = Effect(after[n - 1], list[n], function)
    BY <1>1
  <2> HIDE DEF Done
  <2>5. Acted(o, after[n], Done(n - 1) \union {list[n]}, function)
    BY <2>1, <2>2, <2>3, <2>4, ActedNext
  <2> QED BY <2>1, <2>3, <2>5
<1>5. N \in Good
  <2> HIDE DEF Good, Done
  <2>1. 0..N \subseteq Good
    BY <1>2, <1>3, <1>4, Rounds
  <2> QED BY <1>2, <2>1
<1> HIDE DEF Done
<1> QED BY <1>1, <1>2, <1>5

\* asdf_virtual_action, by the list of the output.
LEMMA ActionFacts ==
  ASSUME PhysicalAssumption, NEW o \in OutputsState, NEW v,
         NEW list, Chain(o.next, o.device[v], list), NEW function \in VirtualFunctions
  PROVE  Acted(o, virtual_action(o, v, function), Nodes(list), function)
<1>1. Mapped(o, v) = list
  BY ListOfChain DEF Mapped
<1>2. virtual_action(o, v, function) = EffectAll(o, list, function)
  BY <1>1 DEF virtual_action, EffectAll
<1>3. list \in Seq(Devices) /\ \A i, j \in DOMAIN list : list[i] = list[j] => i = j
  BY DEF Chain
<1> QED BY <1>2, <1>3, EffectAllFacts

-----------------------------------------------------------------------------
(* Sync.                                                                   *)

\* What the state p is after the devices 1..n were asserted, of o.
Asserted(o, p, n) ==
  /\ p \in OutputsState
  /\ p.next = o.next /\ p.device = o.device /\ p.function = o.function
  /\ p.shadow = o.shadow
  /\ \A d \in 1..n :
       (\A e \in 1..n : Driver[e].line = Driver[d].line => e <= d)
         => p.line[Driver[d].line] = Level(d, o.shadow[d])

LEMMA AssertFacts ==
  ASSUME PhysicalAssumption, NEW o \in OutputsState, NEW d \in Devices
  PROVE  /\ physical_assert(o, d) \in OutputsState
         /\ physical_assert(o, d).next = o.next
         /\ physical_assert(o, d).device = o.device
         /\ physical_assert(o, d).function = o.function
         /\ physical_assert(o, d).shadow = o.shadow
         /\ physical_assert(o, d).line =
              [o.line EXCEPT ![Driver[d].line] = Level(d, o.shadow[d])]
<1>1. o.shadow[d] \in Values
  BY DEF OutputsState, Resources
<1>2. Level(d, o.shadow[d]) \in Levels /\ Driver[d].line \in Lines
  BY <1>1, LevelType
<1>3. /\ o.next \in [Resources -> Resources] /\ o.shadow \in [Resources -> Values]
      /\ o.line \in [Lines -> Levels] /\ o.device \in [VirtualDevices -> Resources]
      /\ o.function \in [VirtualDevices -> VirtualFunctions]
  BY DEF OutputsState
<1> QED
  BY <1>2, <1>3 DEF physical_assert, Handle, OutputsState

LEMMA AssertedNext ==
  ASSUME PhysicalAssumption, NEW o \in OutputsState, NEW p, NEW n \in Devices,
         Asserted(o, p, n - 1)
  PROVE  Asserted(o, physical_assert(p, n), n)
<1> DEFINE q == physical_assert(p, n)
<1>1. p \in OutputsState /\ p.shadow = o.shadow
  BY DEF Asserted
<1>2. /\ q \in OutputsState
      /\ q.next = p.next /\ q.device = p.device /\ q.function = p.function
      /\ q.shadow = p.shadow
      /\ q.line = [p.line EXCEPT ![Driver[n].line] = Level(n, p.shadow[n])]
  BY <1>1, AssertFacts
<1>3. p.line \in [Lines -> Levels]
  BY <1>1 DEF OutputsState
<1>4. \A d \in Devices : Driver[d].line \in Lines
  BY DEF Lines
<1>5. /\ n \in Nat /\ n >= 1 /\ 1..n = 1..(n-1) \union {n}
      /\ 1..n \subseteq Devices /\ \A d \in 1..(n-1) : d < n
  BY PhysicalAssumption DEF Devices
<1> HIDE DEF q
<1>6. ASSUME NEW d \in 1..n,
             \A e \in 1..n : Driver[e].line = Driver[d].line => e <= d
      PROVE  q.line[Driver[d].line] = Level(d, o.shadow[d])
  <2>1. CASE d = n
    BY <1>1, <1>2, <1>3, <1>4, <1>5, <2>1
  <2>2. CASE d # n
    <3>1. d \in 1..(n-1) /\ d < n
      BY <1>5, <2>2
    <3>2. Driver[n].line # Driver[d].line
      BY <1>5, <1>6, <3>1
    <3>3. p.line[Driver[d].line] = Level(d, o.shadow[d])
      BY <1>5, <1>6, <3>1 DEF Asserted
    <3> QED BY <1>2, <1>3, <1>4, <1>5, <3>2, <3>3
  <2> QED BY <2>1, <2>2
<1>7. Asserted(o, q, n)
  BY <1>2, <1>6 DEF Asserted
<1> QED BY <1>7 DEF q

\* asdf_virtual_sync changes lines only, and leaves each line at what the last
\* of its devices, in the order of the table, says.
LEMMA SyncFacts ==
  ASSUME PhysicalAssumption, NEW o \in OutputsState
  PROVE  Asserted(o, virtual_sync(o), LastDevice)
<1> DEFINE N == LastDevice
           list == [d \in Devices |-> d]
           round == [n \in 1..N |-> [p \in OutputsState |-> physical_assert(p, n)]]
           Body(f) == [n \in 0..N |-> IF n = 0 THEN o ELSE physical_assert(f[n - 1], list[n])]
           after == CHOOSE f : f = Body(f)
<1>1. N \in Nat /\ Devices = 1..N /\ Len(list) = N
  BY PhysicalAssumption DEF Devices
<1>2. round \in [1..N -> [OutputsState -> OutputsState]]
  BY <1>1, AssertFacts
<1>3. \E f : f = Body(f)
  <2>1. PICK f : Solves(f, N, OutputsState, o, round)
    <3> HIDE DEF round, N
    <3> QED BY <1>1, <1>2, Recursion
  <2>2. ASSUME NEW n \in 1..N PROVE f[n] = physical_assert(f[n - 1], list[n])
    <3>1. f[n - 1] \in OutputsState
      BY <1>1, <2>1 DEF Solves
    <3>2. f[n] = round[n][f[n - 1]]
      BY <2>1 DEF Solves
    <3>3. list[n] = n
      BY <1>1
    <3> HIDE DEF N, Body, list
    <3> QED BY <3>1, <3>2, <3>3
  <2>3. f = Body(f)
    <3> HIDE DEF round, N, list
    <3> QED BY <2>1, <2>2, <1>1 DEF Solves
  <2> HIDE DEF Body
  <2> QED BY <2>3
<1>4. after = Body(after)
  <2> HIDE DEF Body
  <2> QED BY <1>3
<1>5. virtual_sync(o) = after[N]
  BY <1>1 DEF virtual_sync, Each
<1> HIDE DEF after, N
<1>6. /\ after[0] = o
      /\ \A n \in 1..N : after[n] = physical_assert(after[n - 1], n)
  <2>1. 0 \in 0..N /\ after[0] = o
    BY <1>1, <1>4
  <2>2. ASSUME NEW n \in 1..N PROVE after[n] = physical_assert(after[n - 1], n)
    <3>1. n \in 0..N /\ n # 0 /\ list[n] = n
      BY <1>1
    <3> HIDE DEF list
    <3> QED BY <1>4, <3>1
  <2> QED BY <2>1, <2>2
<1> DEFINE Good == {n \in 0..N : Asserted(o, after[n], n)}
<1>7. 0 \in Good
  <2>1. Asserted(o, o, 0)
    BY DEF Asserted
  <2> QED BY <1>1, <1>6, <2>1
<1>8. ASSUME NEW n \in 1..N, n - 1 \in Good PROVE n \in Good
  <2>1. Asserted(o, after[n - 1], n - 1) /\ n \in Devices /\ n \in 0..N
    BY <1>1, <1>8
  <2>2. Asserted(o, physical_assert(after[n - 1], n), n)
    BY <2>1, AssertedNext
  <2>3. after[n] = physical_assert(after[n - 1], n)
    BY <1>6
  <2> QED BY <2>1, <2>2, <2>3
<1>9. N \in Good
  <2> HIDE DEF Good
  <2>1. 0..N \subseteq Good
    BY <1>1, <1>7, <1>8, Rounds
  <2> QED BY <1>1, <2>1
<1> QED BY <1>5, <1>9 DEF N

-----------------------------------------------------------------------------
(* Who owns which device.                                                  *)

\* The available list is that of V_NULL.
Masters == VirtualDevices \union {V_NULL}
HeadOf(o, h) == IF h = V_NULL THEN o.next[NO_OUT] ELSE o.device[h]
Lists(o) == [h \in Masters |-> List(o.next, HeadOf(o, h))]

\* Every device is on exactly one of the lists.
Linked(o, lists) ==
  /\ \A h \in Masters : Chain(o.next, HeadOf(o, h), lists[h])
  /\ \A d \in Devices : \E h \in Masters : d \in Nodes(lists[h])
  /\ \A g, h \in Masters : \A d \in Nodes(lists[g]) \intersect Nodes(lists[h]) : g = h

\* The lists are what the loops of the code walk along.
LEMMA LinkedLists ==
  ASSUME PhysicalAssumption, NEW o, NEW lists, Linked(o, lists)
  PROVE  /\ \A h \in Masters : List(o.next, HeadOf(o, h)) = lists[h]
         /\ Linked(o, Lists(o))
<1>1. ASSUME NEW h \in Masters PROVE List(o.next, HeadOf(o, h)) = lists[h]
  <2>1. Chain(o.next, HeadOf(o, h), lists[h])
    BY DEF Linked
  <2> QED BY <2>1, ListOfChain
<1>2. \A h \in Masters : Lists(o)[h] = lists[h]
  BY <1>1 DEF Lists
<1>3. Linked(o, Lists(o))
  BY <1>2 DEF Linked
<1> QED BY <1>1, <1>3

\* The state after the outputs are cleared, but for the levels of the lines.
Cleared(levels) ==
  [next |-> [d \in Resources |-> IF d = LastDevice THEN NO_OUT ELSE d + 1],
   shadow |-> [d \in Resources |-> 1],
   line |-> levels,
   device |-> [v \in VirtualDevices |-> NO_OUT],
   function |-> [v \in VirtualDevices |-> "V_NOFUNC"]]
AllAvailable ==
  [h \in Masters |-> IF h = V_NULL THEN [i \in Devices |-> i] ELSE <<>>]

LEMMA ClearedFacts ==
  ASSUME PhysicalAssumption, VirtualAssumption, NEW levels \in [Lines -> Levels]
  PROVE  Cleared(levels) \in OutputsState /\ Linked(Cleared(levels), AllAvailable)
<1> DEFINE o == Cleared(levels)
           all == [i \in Devices |-> i]
<1>1. /\ LastDevice \in Nat \ {0} /\ Devices = 1..LastDevice
      /\ Resources = 0..LastDevice /\ NO_OUT = 0
  BY PhysicalAssumption DEF Devices, Resources, NO_OUT
<1>2. o \in OutputsState
  <2>1. o.next \in [Resources -> Resources]
    BY <1>1 DEF Cleared
  <2>2. o.shadow \in [Resources -> Values] /\ o.device \in [VirtualDevices -> Resources]
    BY <1>1 DEF Cleared, Values
  <2>3. o.function \in [VirtualDevices -> VirtualFunctions] /\ o.line \in [Lines -> Levels]
    BY DEF Cleared, VirtualFunctions
  <2> QED BY <2>1, <2>2, <2>3 DEF OutputsState, Cleared
<1>3. Chain(o.next, o.next[NO_OUT], all)
  <2>1. all \in Seq(Devices) /\ DOMAIN all = Devices /\ Len(all) = LastDevice /\ all # <<>>
    BY <1>1
  <2>2. o.next[NO_OUT] = 1 /\ all[1] = 1
    BY <1>1 DEF Cleared
  <2>3. \A i \in DOMAIN all : o.next[all[i]] = IF i = Len(all) THEN NO_OUT ELSE all[i + 1]
    BY <1>1, <2>1 DEF Cleared
  <2>4. \A i, j \in DOMAIN all : all[i] = all[j] => i = j
    BY <2>1
  <2> HIDE DEF o, all
  <2> QED BY <2>1, <2>2, <2>3, <2>4 DEF Chain
<1>4. \A v \in VirtualDevices : Chain(o.next, o.device[v], <<>>)
  BY DEF Chain, Cleared
<1>5. Nodes(all) = Devices /\ Nodes(<<>>) = {}
  BY DEF Nodes
<1>6. V_NULL \notin VirtualDevices
  BY VirtualAssumption
<1>7. /\ AllAvailable[V_NULL] = all
      /\ \A v \in VirtualDevices : AllAvailable[v] = <<>>
  BY <1>6 DEF AllAvailable, Masters
<1> HIDE DEF o, all
<1>8. \A h \in Masters : Chain(o.next, HeadOf(o, h), AllAvailable[h])
  BY <1>3, <1>4, <1>6, <1>7 DEF Masters, HeadOf
<1>9. Linked(o, AllAvailable)
  BY <1>5, <1>7, <1>8 DEF Linked, Masters
<1> QED BY <1>2, <1>9 DEF o

\* A change that leaves the links and the heads alone leaves the lists.
LEMMA SameLists ==
  ASSUME NEW o, NEW p, p.next = o.next, p.device = o.device, NEW lists, Linked(o, lists)
  PROVE  Linked(p, lists)
BY DEF Linked, HeadOf

LEMMA SameChain ==
  ASSUME NEW next, NEW nextt, NEW head, NEW s, Chain(next, head, s),
         \A d \in Nodes(s) : nextt[d] = next[d]
  PROVE  Chain(nextt, head, s)
BY DEF Chain, Nodes

\* A device becomes the head of a list.
Push(d, s) == [i \in 1..Len(s) + 1 |-> IF i = 1 THEN d ELSE s[i - 1]]
LEMMA PushChain ==
  ASSUME NEW next, NEW nextt, NEW head, NEW s, Chain(next, head, s),
         NEW d \in Devices, d \notin Nodes(s), nextt[d] = head,
         \A e \in Nodes(s) : nextt[e] = next[e]
  PROVE  Chain(nextt, d, Push(d, s)) /\ Nodes(Push(d, s)) = Nodes(s) \union {d}
<1> DEFINE t == Push(d, s)
<1>1. /\ Len(s) \in Nat /\ DOMAIN s = 1..Len(s) /\ s \in Seq(Devices)
      /\ \A i \in 1..Len(s) : s[i] \in Devices /\ s[i] # d
      /\ s = <<>> <=> Len(s) = 0
  BY DEF Chain, Nodes
<1>2. /\ t \in Seq(Devices) /\ Len(t) = Len(s) + 1 /\ DOMAIN t = 1..(Len(s) + 1)
      /\ t[1] = d /\ t # <<>>
      /\ \A i \in 2..(Len(s) + 1) : t[i] = s[i - 1] /\ i - 1 \in 1..Len(s)
  BY <1>1 DEF Push
<1> HIDE DEF t
<1>3. \A i, j \in DOMAIN t : t[i] = t[j] => i = j
  <2> SUFFICES ASSUME NEW i \in DOMAIN t, NEW j \in DOMAIN t, t[i] = t[j] PROVE i = j
    OBVIOUS
  <2>1. CASE i = 1 \/ j = 1
    BY <1>1, <1>2, <2>1
  <2>2. CASE i # 1 /\ j # 1
    <3>1. i \in 2..(Len(s) + 1) /\ j \in 2..(Len(s) + 1)
      BY <1>1, <1>2, <2>2
    <3>2. i - 1 = j - 1
      BY <1>1, <1>2, <3>1 DEF Chain
    <3> QED BY <3>1, <3>2
  <2> QED BY <2>1, <2>2
<1>4. ASSUME NEW i \in DOMAIN t
      PROVE  nextt[t[i]] = IF i = Len(t) THEN NO_OUT ELSE t[i + 1]
  <2>1. CASE i = 1
    <3>1. nextt[t[i]] = IF s = <<>> THEN NO_OUT ELSE s[1]
      BY <1>2, <2>1 DEF Chain
    <3> QED BY <1>1, <1>2, <2>1, <3>1
  <2>2. CASE i # 1
    <3>1. i \in 2..(Len(s) + 1) /\ i - 1 \in 1..Len(s) /\ t[i] = s[i - 1]
      BY <1>1, <1>2, <2>2
    <3>2. nextt[s[i - 1]] = next[s[i - 1]]
      BY <1>1, <3>1 DEF Nodes
    <3>3. next[s[i - 1]] = IF i - 1 = Len(s) THEN NO_OUT ELSE s[(i - 1) + 1]
      BY <1>1, <3>1 DEF Chain
    <3>4. i # Len(t) => t[i + 1] = s[(i - 1) + 1]
      BY <1>1, <1>2, <3>1
    <3>5. i - 1 = Len(s) <=> i = Len(t)
      BY <1>1, <1>2, <3>1
    <3> QED BY <3>1, <3>2, <3>3, <3>4, <3>5
  <2> QED BY <2>1, <2>2
<1>5. Chain(nextt, d, t)
  BY <1>2, <1>3, <1>4 DEF Chain
<1>6. Nodes(t) = Nodes(s) \union {d}
  <2>1. ASSUME NEW e \in Nodes(t) PROVE e \in Nodes(s) \union {d}
    <3>1. PICK i \in 1..(Len(s) + 1) : e = t[i]
      BY <1>2 DEF Nodes
    <3>2. i = 1 \/ i \in 2..(Len(s) + 1)
      BY <1>1, <3>1
    <3> QED BY <1>1, <1>2, <3>1, <3>2 DEF Nodes
  <2>2. ASSUME NEW e \in Nodes(s) PROVE e \in Nodes(t)
    <3>1. PICK i \in 1..Len(s) : e = s[i]
      BY <1>1 DEF Nodes
    <3>2. i + 1 \in 2..(Len(s) + 1) /\ (i + 1) - 1 = i /\ i + 1 \in DOMAIN t
      BY <1>1, <1>2, <3>1
    <3>3. t[i + 1] = e
      BY <1>2, <3>1, <3>2
    <3> QED BY <3>2, <3>3 DEF Nodes
  <2>3. d \in Nodes(t)
    BY <1>1, <1>2 DEF Nodes
  <2> QED BY <2>1, <2>2, <2>3
<1> QED BY <1>5, <1>6 DEF t

\* A device is taken out of a list.
Without(s, k) == [i \in 1..Len(s) - 1 |-> IF i < k THEN s[i] ELSE s[i + 1]]
LEMMA WithoutChain ==
  ASSUME NEW next, NEW nextt, NEW head, NEW s, Chain(next, head, s), NEW k \in DOMAIN s,
         \A i \in DOMAIN s \ {k, k - 1} : nextt[s[i]] = next[s[i]],
         k # 1 => nextt[s[k - 1]] = next[s[k]]
  PROVE  /\ Chain(nextt, IF k = 1 THEN next[s[k]] ELSE head, Without(s, k))
         /\ Nodes(Without(s, k)) = Nodes(s) \ {s[k]}
<1> DEFINE t == Without(s, k)
<1>1. /\ Len(s) \in Nat \ {0} /\ DOMAIN s = 1..Len(s) /\ s \in Seq(Devices)
      /\ k \in 1..Len(s) /\ s # <<>> /\ head = s[1]
      /\ \A i \in 1..Len(s) : s[i] \in Devices
  BY DEF Chain
<1>2. \A i, j \in 1..Len(s) : s[i] = s[j] => i = j
  BY <1>1 DEF Chain
<1>3. /\ t \in Seq(Devices) /\ Len(t) = Len(s) - 1 /\ DOMAIN t = 1..(Len(s) - 1)
      /\ t = <<>> <=> Len(s) = 1
      /\ \A i \in 1..(Len(s) - 1) : t[i] = IF i < k THEN s[i] ELSE s[i + 1]
  BY <1>1 DEF Without
<1>9. \A i \in 1..Len(s) : next[s[i]] = IF i = Len(s) THEN NO_OUT ELSE s[i + 1]
  BY <1>1 DEF Chain
<1> HIDE DEF t
<1>4. \A i, j \in DOMAIN t : t[i] = t[j] => i = j
  BY <1>1, <1>2, <1>3
<1>5. ASSUME NEW i \in DOMAIN t
      PROVE  nextt[t[i]] = IF i = Len(t) THEN NO_OUT ELSE t[i + 1]
  <2>1. CASE i < k - 1
    <3>1. i \in DOMAIN s \ {k, k - 1} /\ i + 1 < k /\ i < k /\ i # Len(s) /\ i # Len(t)
      BY <1>1, <1>3, <2>1
    <3> QED BY <1>1, <1>3, <1>9, <3>1
  <2>2. CASE i = k - 1
    <3>1. k # 1 /\ i + 1 = k /\ i < k /\ (i = Len(t) <=> k = Len(s))
      BY <1>1, <1>3, <2>2
    <3>2. nextt[t[i]] = IF k = Len(s) THEN NO_OUT ELSE s[k + 1]
      BY <1>1, <1>3, <1>9, <2>2, <3>1
    <3> QED BY <1>1, <1>3, <3>1, <3>2
  <2>3. CASE i > k - 1
    <3>1. /\ i + 1 \in DOMAIN s \ {k, k - 1} /\ ~(i < k) /\ ~(i + 1 < k)
          /\ i + 1 \in 1..Len(s) /\ (i = Len(t) <=> i + 1 = Len(s))
          /\ t[i] = s[i + 1]
      BY <1>1, <1>3, <2>3
    <3>2. nextt[s[i + 1]] = next[s[i + 1]]
      BY <3>1
    <3>3. next[s[i + 1]] = IF i + 1 = Len(s) THEN NO_OUT ELSE s[(i + 1) + 1]
      BY <1>9, <3>1
    <3>4. i # Len(t) => t[i + 1] = s[(i + 1) + 1]
      BY <1>1, <1>3, <3>1
    <3> QED BY <3>1, <3>2, <3>3, <3>4
  <2> QED BY <1>1, <1>3, <2>1, <2>2, <2>3
<1>6. (IF k = 1 THEN next[s[k]] ELSE head) = IF t = <<>> THEN NO_OUT ELSE t[1]
  <2>1. CASE k = 1
    <3>1. next[s[k]] = IF k = Len(s) THEN NO_OUT ELSE s[k + 1]
      BY <1>1, <1>9
    <3>2. Len(s) # 1 => t[1] = s[k + 1]
      BY <1>1, <1>3, <2>1
    <3> QED BY <1>3, <2>1, <3>1, <3>2
  <2>2. CASE k # 1
    <3>1. Len(s) # 1 /\ t[1] = s[1]
      BY <1>1, <1>3, <2>2
    <3> QED BY <1>1, <1>3, <2>2, <3>1
  <2> QED BY <2>1, <2>2
<1>7. Chain(nextt, IF k = 1 THEN next[s[k]] ELSE head, t)
  BY <1>3, <1>4, <1>5, <1>6 DEF Chain
<1>8. Nodes(t) = Nodes(s) \ {s[k]}
  <2>1. ASSUME NEW e \in Nodes(t) PROVE e \in Nodes(s) \ {s[k]}
    <3>1. PICK i \in 1..(Len(s) - 1) : e = t[i]
      BY <1>3 DEF Nodes
    <3>2. CASE i < k
      <4>1. e = s[i] /\ i \in 1..Len(s) /\ i # k
        BY <1>1, <1>3, <3>1, <3>2
      <4> QED BY <1>1, <1>2, <4>1 DEF Nodes
    <3>3. CASE ~(i < k)
      <4>1. e = s[i + 1] /\ i + 1 \in 1..Len(s) /\ i + 1 # k
        BY <1>1, <1>3, <3>1, <3>3
      <4> QED BY <1>1, <1>2, <4>1 DEF Nodes
    <3> QED BY <3>2, <3>3
  <2>2. ASSUME NEW e \in Nodes(s) \ {s[k]} PROVE e \in Nodes(t)
    <3>1. PICK i \in 1..Len(s) : e = s[i]
      BY <1>1 DEF Nodes
    <3>2. CASE i < k
      <4>1. i \in 1..(Len(s) - 1) /\ t[i] = e
        BY <1>1, <1>3, <3>1, <3>2
      <4> QED BY <1>3, <4>1 DEF Nodes
    <3>3. CASE ~(i < k)
      <4>1. i > k
        BY <1>1, <2>2, <3>1, <3>3
      <4>2. i - 1 \in 1..(Len(s) - 1) /\ ~(i - 1 < k) /\ (i - 1) + 1 = i
        BY <1>1, <3>1, <4>1
      <4>3. t[i - 1] = e
        BY <1>3, <3>1, <4>2
      <4> QED BY <1>3, <4>2, <4>3 DEF Nodes
    <3> QED BY <3>2, <3>3
  <2> QED BY <2>1, <2>2
<1> QED BY <1>7, <1>8 DEF t

\* An assignment of a device that was available, as seen in the lists.
IsAssigned(o, q, lists, after, v, d, function, value) ==
  /\ q \in OutputsState
  /\ q.shadow = [o.shadow EXCEPT ![d] = value]
  /\ q.line = o.line
  /\ q.function = [o.function EXCEPT ![v] = function]
  /\ Linked(q, after)
  /\ Nodes(after[V_NULL]) = Nodes(lists[V_NULL]) \ {d}
  /\ Nodes(after[v]) = Nodes(lists[v]) \union {d}
  /\ \A w \in VirtualDevices \ {v} : after[w] = lists[w]

\* Only the node before d in the available list has d as its successor.
LEMMA PredecessorFacts ==
  ASSUME PhysicalAssumption, NEW next, NEW s, Chain(next, next[NO_OUT], s),
         NEW k \in DOMAIN s
  PROVE  Predecessor(next, s[k]) = IF k = 1 THEN NO_OUT ELSE s[k - 1]
<1> DEFINE p == IF k = 1 THEN NO_OUT ELSE s[k - 1]
<1>1. /\ Len(s) \in Nat /\ DOMAIN s = 1..Len(s) /\ k \in 1..Len(s)
      /\ NO_OUT = 0 /\ Len(s) # 0
  BY DEF Chain, NO_OUT
<1>2. Nodes(List(next, next[NO_OUT])) = Nodes(s)
  BY ListOfChain
<1>3. \A i \in 1..Len(s) : s[i] \in Devices /\ s[i] # NO_OUT
  BY PhysicalAssumption, <1>1 DEF Chain, Devices
<1>4. next[NO_OUT] = s[1]
  BY <1>1 DEF Chain
<1>5. \A i \in 1..Len(s) : next[s[i]] = IF i = Len(s) THEN NO_OUT ELSE s[i + 1]
  BY <1>1 DEF Chain
<1>6. \A i \in 1..Len(s) : s[i] = s[k] => i = k
  BY <1>1 DEF Chain
<1>7. p \in {NO_OUT} \union Nodes(List(next, next[NO_OUT])) /\ next[p] = s[k]
  <2>1. CASE k = 1
    BY <1>4, <2>1
  <2>2. CASE k # 1
    <3>1. k - 1 \in 1..Len(s) /\ k - 1 # Len(s) /\ (k - 1) + 1 = k
      BY <1>1, <2>2
    <3>2. next[s[k - 1]] = s[k]
      BY <1>5, <3>1
    <3> QED BY <1>1, <1>2, <2>2, <3>1, <3>2 DEF Nodes
  <2> QED BY <2>1, <2>2
<1>8. ASSUME NEW e \in {NO_OUT} \union Nodes(List(next, next[NO_OUT])), next[e] = s[k] PROVE e = p
  <2>1. CASE e = NO_OUT
    <3>1. 1 \in 1..Len(s) /\ s[1] = s[k]
      BY <1>1, <1>4, <1>8, <2>1
    <3>2. k = 1
      BY <1>6, <3>1
    <3> QED BY <2>1, <3>2
  <2>2. CASE e # NO_OUT
    <3>1. PICK i \in 1..Len(s) : e = s[i]
      BY <1>1, <1>2, <2>2 DEF Nodes
    <3>2. next[s[i]] = s[k] /\ s[k] # NO_OUT
      BY <1>1, <1>3, <1>8, <3>1
    <3>3. i # Len(s) /\ s[i + 1] = s[k]
      BY <1>5, <3>1, <3>2
    <3>4. i + 1 \in 1..Len(s)
      BY <1>1, <3>1, <3>3
    <3>5. i + 1 = k
      BY <1>6, <3>3, <3>4
    <3>6. k # 1 /\ i = k - 1
      BY <1>1, <3>1, <3>5
    <3> QED BY <3>1, <3>6
  <2> QED BY <2>1, <2>2
<1> HIDE DEF p
<1>9. Predecessor(next, s[k]) = p
  BY <1>7, <1>8 DEF Predecessor
<1> QED BY <1>9 DEF p

LEMMA AssignFacts ==
  ASSUME PhysicalAssumption, VirtualAssumption, NEW o \in OutputsState,
         NEW lists, Linked(o, lists), NEW v \in VirtualDevices,
         NEW d \in Nodes(lists[V_NULL]), NEW function \in VirtualFunctions, NEW value \in Values
  PROVE  \E after :
           IsAssigned(o, virtual_assign(o, v, d, function, value), lists, after, v, d, function, value)
<1> DEFINE s == lists[V_NULL]
           q == virtual_assign(o, v, d, function, value)
<1>1. V_NULL \in Masters /\ v \in Masters /\ v # V_NULL /\ VirtualDevices \subseteq Masters
  BY VirtualAssumption DEF Masters
<1>2. Chain(o.next, o.next[NO_OUT], s) /\ Chain(o.next, o.device[v], lists[v])
  BY <1>1 DEF Linked, HeadOf
<1>3. Available(o) = Nodes(s)
  BY <1>2, ListOfChain DEF Available
<1>4. PICK k \in DOMAIN s : d = s[k]
  BY DEF Nodes
<1> DEFINE p == IF k = 1 THEN NO_OUT ELSE s[k - 1]
           next == [[o.next EXCEPT ![p] = o.next[d]] EXCEPT ![d] = o.device[v]]
           after == [h \in Masters |-> IF h = V_NULL THEN Without(s, k)
                                       ELSE IF h = v THEN Push(d, lists[v])
                                       ELSE lists[h]]
<1>5. Predecessor(o.next, d) = p
  BY <1>2, <1>4, PredecessorFacts
<1>6. /\ Len(s) \in Nat /\ DOMAIN s = 1..Len(s) /\ k \in 1..Len(s)
      /\ \A i \in 1..Len(s) : s[i] \in Devices
      /\ \A i, j \in 1..Len(s) : s[i] = s[j] => i = j
      /\ d \in Devices /\ Devices \subseteq Resources /\ NO_OUT \in Resources
      /\ NO_OUT \notin Devices
  <2>1. /\ Len(s) \in Nat /\ DOMAIN s = 1..Len(s) /\ k \in 1..Len(s)
        /\ \A i \in 1..Len(s) : s[i] \in Devices
    BY <1>2 DEF Chain
  <2>2. \A i, j \in 1..Len(s) : s[i] = s[j] => i = j
    BY <1>2, <2>1 DEF Chain
  <2>3. Devices \subseteq Resources /\ NO_OUT \in Resources /\ NO_OUT \notin Devices
    BY PhysicalAssumption DEF Devices, Resources, NO_OUT
  <2> QED BY <1>4, <2>1, <2>2, <2>3
<1>7. p \in Resources /\ p # d /\ (k # 1 => k - 1 \in 1..Len(s))
  BY <1>4, <1>6
<1>8. /\ o.next \in [Resources -> Resources] /\ o.shadow \in [Resources -> Values]
      /\ o.line \in [Lines -> Levels] /\ o.device \in [VirtualDevices -> Resources]
      /\ o.function \in [VirtualDevices -> VirtualFunctions]
      /\ o = [next |-> o.next, shadow |-> o.shadow, line |-> o.line,
              device |-> o.device, function |-> o.function]
  BY DEF OutputsState
<1>9. /\ q.next = next
      /\ q.shadow = [o.shadow EXCEPT ![d] = value]
      /\ q.line = o.line
      /\ q.device = [o.device EXCEPT ![v] = d]
      /\ q.function = [o.function EXCEPT ![v] = function]
      /\ q = [next |-> q.next, shadow |-> q.shadow, line |-> q.line,
              device |-> q.device, function |-> q.function]
  <2>1. q = [physical_allocate(o, d, o.device[v], value) EXCEPT
               !.device[v] = d, !.function[v] = function]
    BY <1>3 DEF virtual_assign
  <2> DEFINE r == physical_allocate(o, d, o.device[v], value)
  <2>2. r = [o EXCEPT !.next[p] = o.next[d], !.next[d] = o.device[v], !.shadow[d] = value]
    BY <1>5 DEF physical_allocate
  <2>3. o \in [next : [Resources -> Resources], shadow : [Resources -> Values],
               line : [Lines -> Levels], device : [VirtualDevices -> Resources],
               function : [VirtualDevices -> VirtualFunctions]]
    BY DEF OutputsState
  <2>4. /\ r.next = next /\ r.shadow = [o.shadow EXCEPT ![d] = value]
        /\ r.line = o.line /\ r.device = o.device /\ r.function = o.function
        /\ r = [next |-> r.next, shadow |-> r.shadow, line |-> r.line,
                device |-> r.device, function |-> r.function]
    <3> HIDE DEF p, r
    <3> QED BY <2>2, <2>3
  <2> HIDE DEF q, next, r
  <2>5. q = [r EXCEPT !.device[v] = d, !.function[v] = function]
    BY <2>1 DEF r
  <2> QED BY <2>4, <2>5
<1>a. /\ next \in [Resources -> Resources]
      /\ next[d] = o.device[v] /\ next[p] = o.next[d]
      /\ \A e \in Resources \ {p, d} : next[e] = o.next[e]
  <2> HIDE DEF p
  <2> QED BY <1>6, <1>7, <1>8
<1> HIDE DEF q, next
<1>b. q \in OutputsState
  BY <1>6, <1>8, <1>9, <1>a DEF OutputsState
<1>c. /\ Chain(next, IF k = 1 THEN o.next[d] ELSE o.next[NO_OUT], Without(s, k))
      /\ Nodes(Without(s, k)) = Nodes(s) \ {d}
  <2>1. ASSUME NEW i \in DOMAIN s \ {k, k - 1} PROVE next[s[i]] = o.next[s[i]]
    <3>1. s[i] # d /\ s[i] # p /\ s[i] \in Resources
      BY <1>4, <1>6, <1>7
    <3> QED BY <1>a, <3>1
  <2>2. k # 1 => next[s[k - 1]] = o.next[s[k]]
    BY <1>4, <1>a
  <2> QED BY <1>2, <1>4, <2>1, <2>2, WithoutChain
<1>d. next[NO_OUT] = IF k = 1 THEN o.next[d] ELSE o.next[NO_OUT]
  BY <1>6, <1>7, <1>a
<1>e. ASSUME NEW w \in VirtualDevices, NEW e \in Nodes(lists[w])
      PROVE  e # d /\ next[e] = o.next[e]
  <2>1. w \in Masters /\ w # V_NULL
    BY <1>1, VirtualAssumption
  <2>2. e \notin Nodes(s)
    BY <1>1, <2>1 DEF Linked
  <2>3. d \in Nodes(s) /\ (k # 1 => s[k - 1] \in Nodes(s))
    BY <1>7, <1>6 DEF Nodes
  <2>4. e \in Devices
    <3>1. lists[w] \in Seq(Devices)
      BY <2>1 DEF Linked, Chain
    <3> QED BY <3>1 DEF Nodes
  <2> QED BY <1>6, <1>a, <2>2, <2>3, <2>4
<1>f. Chain(next, d, Push(d, lists[v])) /\ Nodes(Push(d, lists[v])) = Nodes(lists[v]) \union {d}
  BY <1>2, <1>6, <1>a, <1>e, PushChain
<1>g. \A w \in VirtualDevices : Chain(next, o.device[w], lists[w])
  <2> SUFFICES ASSUME NEW w \in VirtualDevices PROVE Chain(next, o.device[w], lists[w])
    OBVIOUS
  <2>1. Chain(o.next, o.device[w], lists[w])
    BY <1>1, VirtualAssumption DEF Linked, HeadOf
  <2> QED BY <2>1, <1>e, SameChain
<1>h. /\ after[V_NULL] = Without(s, k)
      /\ after[v] = Push(d, lists[v])
      /\ \A w \in VirtualDevices \ {v} : after[w] = lists[w]
  BY <1>1, VirtualAssumption
<1> HIDE DEF after, s, p
<1>i. \A h \in Masters : Chain(q.next, HeadOf(q, h), after[h])
  <2>1. Chain(q.next, HeadOf(q, V_NULL), after[V_NULL])
    BY <1>9, <1>c, <1>d, <1>h DEF HeadOf
  <2>2. Chain(q.next, HeadOf(q, v), after[v])
    BY <1>1, <1>8, <1>9, <1>f, <1>h DEF HeadOf
  <2>3. ASSUME NEW w \in VirtualDevices \ {v} PROVE Chain(q.next, HeadOf(q, w), after[w])
    <3>1. q.device[w] = o.device[w] /\ w # V_NULL
      BY <1>8, <1>9, VirtualAssumption
    <3> QED BY <1>9, <1>g, <1>h, <3>1 DEF HeadOf
  <2> QED BY <2>1, <2>2, <2>3 DEF Masters
<1>j. /\ Nodes(after[V_NULL]) = Nodes(lists[V_NULL]) \ {d}
      /\ Nodes(after[v]) = Nodes(lists[v]) \union {d}
      /\ \A w \in VirtualDevices \ {v} : Nodes(after[w]) = Nodes(lists[w])
  BY <1>c, <1>f, <1>h DEF s
<1>k. \A e \in Devices : \E h \in Masters : e \in Nodes(after[h])
  <2> SUFFICES ASSUME NEW e \in Devices PROVE \E h \in Masters : e \in Nodes(after[h])
    OBVIOUS
  <2>1. PICK h \in Masters : e \in Nodes(lists[h])
    BY DEF Linked
  <2>2. CASE e = d
    BY <1>1, <1>j, <2>2
  <2>3. CASE e # d
    BY <1>j, <2>1, <2>3 DEF Masters
  <2> QED BY <2>2, <2>3
<1>l. \A g, h \in Masters : \A e \in Nodes(after[g]) \intersect Nodes(after[h]) : g = h
  <2> SUFFICES ASSUME NEW g \in Masters, NEW h \in Masters,
                      NEW e, e \in Nodes(after[g]), e \in Nodes(after[h])
               PROVE  g = h
    OBVIOUS
  <2>1. \A m \in Masters : e \in Nodes(after[m]) => (e = d /\ m = v) \/ (e # d /\ e \in Nodes(lists[m]))
    <3> SUFFICES ASSUME NEW m \in Masters, e \in Nodes(after[m])
                 PROVE  (e = d /\ m = v) \/ (e # d /\ e \in Nodes(lists[m]))
      OBVIOUS
    <3>1. CASE m = V_NULL
      BY <1>j, <3>1
    <3>2. CASE m = v
      BY <1>e, <1>j, <3>2
    <3>3. CASE m \in VirtualDevices \ {v}
      BY <1>e, <1>j, <3>3
    <3> QED BY <3>1, <3>2, <3>3 DEF Masters
  <2>2. \A a, b \in Masters : e \in Nodes(lists[a]) /\ e \in Nodes(lists[b]) => a = b
    BY DEF Linked
  <2> QED BY <2>1, <2>2
<1>m. Linked(q, after)
  BY <1>i, <1>k, <1>l DEF Linked
<1>n. IsAssigned(o, q, lists, after, v, d, function, value)
  BY <1>9, <1>b, <1>h, <1>j, <1>m DEF IsAssigned
<1> QED BY <1>n DEF q

-----------------------------------------------------------------------------
(* The outputs that every operation takes and returns.                     *)

GoodOutputs == {o \in OutputsState : Linked(o, Lists(o))}

\* An assignment, whether it is refused or not.
LEMMA GoodAssign ==
  ASSUME PhysicalAssumption, VirtualAssumption, NEW o \in GoodOutputs,
         NEW v, NEW d, NEW function \in VirtualFunctions, NEW value \in Values
  PROVE  virtual_assign(o, v, d, function, value) \in GoodOutputs
<1> DEFINE q == virtual_assign(o, v, d, function, value)
<1>1. CASE v \in VirtualDevices /\ d \in Available(o)
  <2>1. Available(o) = Nodes(Lists(o)[V_NULL])
    BY DEF Available, Lists, Masters, HeadOf
  <2>2. PICK after : IsAssigned(o, q, Lists(o), after, v, d, function, value)
    BY <1>1, <2>1, AssignFacts DEF GoodOutputs
  <2> HIDE DEF q
  <2>3. q \in GoodOutputs
    BY <2>2, LinkedLists DEF IsAssigned, GoodOutputs
  <2> QED BY <2>3 DEF q
<1>2. CASE ~(v \in VirtualDevices /\ d \in Available(o))
  BY <1>2 DEF virtual_assign
<1> QED BY <1>1, <1>2

\* An action changes the shadows of the devices of its output, and lines.
ActedOn(o, p, v, function) ==
  /\ p \in GoodOutputs
  /\ p.next = o.next /\ p.device = o.device /\ p.function = o.function
  /\ \A d \in Devices :
       p.shadow[d] = IF d \in Nodes(List(o.next, o.device[v]))
                     THEN NewValue(function, o.shadow[d]) ELSE o.shadow[d]

LEMMA GoodAction ==
  ASSUME PhysicalAssumption, VirtualAssumption, NEW o \in GoodOutputs,
         NEW v \in VirtualDevices, NEW function \in VirtualFunctions
  PROVE  ActedOn(o, virtual_action(o, v, function), v, function)
<1> DEFINE p == virtual_action(o, v, function)
           list == List(o.next, o.device[v])
<1>1. v \in Masters /\ HeadOf(o, v) = o.device[v] /\ Lists(o)[v] = list
  BY VirtualAssumption DEF Masters, HeadOf, Lists
<1>2. Chain(o.next, o.device[v], list)
  BY <1>1 DEF Linked, GoodOutputs
<1>3. Acted(o, p, Nodes(list), function)
  BY <1>2, ActionFacts DEF GoodOutputs
<1> HIDE DEF p, list
<1>4. p \in OutputsState /\ p.next = o.next /\ p.device = o.device /\ p.function = o.function
  BY <1>3 DEF Acted
<1>5. p \in GoodOutputs
  BY <1>4, SameLists, LinkedLists DEF GoodOutputs
<1>6. \A d \in Devices :
        p.shadow[d] = IF d \in Nodes(list) THEN NewValue(function, o.shadow[d]) ELSE o.shadow[d]
  BY <1>3 DEF Acted, Resources
<1>7. ActedOn(o, p, v, function)
  BY <1>4, <1>5, <1>6 DEF ActedOn, list
<1> QED BY <1>7 DEF p

LEMMA GoodSync ==
  ASSUME PhysicalAssumption, VirtualAssumption, NEW o \in GoodOutputs
  PROVE  /\ virtual_sync(o) \in GoodOutputs
         /\ virtual_sync(o).next = o.next /\ virtual_sync(o).device = o.device
         /\ virtual_sync(o).function = o.function /\ virtual_sync(o).shadow = o.shadow
<1>1. Asserted(o, virtual_sync(o), LastDevice)
  BY SyncFacts DEF GoodOutputs
<1> QED BY <1>1, SameLists, LinkedLists DEF Asserted, GoodOutputs

\* No device is on the lists of two outputs, and every list is of devices.
LEMMA GoodLists ==
  ASSUME PhysicalAssumption, VirtualAssumption, NEW o \in GoodOutputs,
         NEW v \in VirtualDevices
  PROVE  /\ Nodes(List(o.next, o.device[v])) \subseteq Devices
         /\ \A w \in VirtualDevices \ {v} :
              Nodes(List(o.next, o.device[v])) \intersect Nodes(List(o.next, o.device[w])) = {}
<1>1. \A w \in VirtualDevices : w \in Masters /\ Lists(o)[w] = List(o.next, o.device[w])
  BY VirtualAssumption DEF Masters, HeadOf, Lists
<1>2. Linked(o, Lists(o))
  BY DEF GoodOutputs
<1>3. Nodes(Lists(o)[v]) \subseteq Devices
  <2>1. Lists(o)[v] \in Seq(Devices)
    BY <1>1, <1>2 DEF Linked, Chain
  <2> HIDE DEF Devices
  <2> QED BY <2>1 DEF Nodes
<1>4. \A w \in VirtualDevices \ {v} : Nodes(Lists(o)[v]) \intersect Nodes(Lists(o)[w]) = {}
  BY <1>1, <1>2 DEF Linked
<1> QED BY <1>1, <1>3, <1>4

\* The outputs after they are cleared.
LEMMA GoodCleared ==
  ASSUME PhysicalAssumption, VirtualAssumption, NEW levels \in [Lines -> Levels]
  PROVE  /\ Cleared(levels) \in GoodOutputs
         /\ \A v \in VirtualDevices :
              Nodes(List(Cleared(levels).next, Cleared(levels).device[v])) = {}
<1> DEFINE o == Cleared(levels)
<1>1. o \in OutputsState /\ Linked(o, AllAvailable)
  BY ClearedFacts
<1>2. o \in GoodOutputs
  BY <1>1, LinkedLists DEF GoodOutputs
<1>3. ASSUME NEW v \in VirtualDevices PROVE Nodes(List(o.next, o.device[v])) = {}
  <2>1. v \in Masters /\ HeadOf(o, v) = o.device[v] /\ AllAvailable[v] = <<>>
    BY VirtualAssumption DEF Masters, HeadOf, AllAvailable
  <2>2. List(o.next, HeadOf(o, v)) = AllAvailable[v]
    <3> HIDE DEF o
    <3> QED BY <1>1, <2>1, LinkedLists
  <2>3. Nodes(<<>>) = {}
    BY DEF Nodes
  <2> HIDE DEF o
  <2> QED BY <2>1, <2>2, <2>3
<1> QED BY <1>2, <1>3

\* virtual_init clears them.
LEMMA InitIsCleared ==
  ASSUME NEW o, NEW levels,
         o.line = levels,
         o = [next |-> o.next, shadow |-> o.shadow, line |-> o.line,
              device |-> o.device, function |-> o.function]
  PROVE  virtual_init(o) = Cleared(levels)
<1> DEFINE r == physical_init(o)
           c == Cleared(levels)
<1>1. r = [next |-> c.next, shadow |-> c.shadow, line |-> levels,
           device |-> o.device, function |-> o.function]
  <2>1. r = [o EXCEPT !.shadow = c.shadow, !.next = c.next]
    BY DEF physical_init, Cleared
  <2> HIDE DEF r, c
  <2> QED BY <2>1
<1>2. c = [next |-> c.next, shadow |-> c.shadow, line |-> levels,
           device |-> c.device, function |-> c.function]
  BY DEF Cleared
<1>3. virtual_init(o) = [r EXCEPT !.device = c.device, !.function = c.function]
  BY DEF virtual_init, Cleared
<1> HIDE DEF r, c
<1>4. virtual_init(o) = c
  BY <1>1, <1>2, <1>3
<1> QED BY <1>4 DEF c
=============================================================================
