-------------------------- MODULE AsdfMain_proofs --------------------------
(***************************************************************************)
(* For queues of any size and any messages: the superloop gives the host   *)
(* what HostPort promises, and every pass of it has a tick of its own.     *)
(***************************************************************************)
EXTENDS AsdfMain, AsdfBuffer_proofs

-----------------------------------------------------------------------------
(* The inductive invariant.                                                *)

\* The handles are the only two there are, with the sizes that asdf_init asked
\* for.
QueuesExist ==
  /\ pc \in {"INIT", "KEYCODE_BUFFER"} =>
       next_handle = 0 /\ buffer_pool_next_available = 0
  /\ pc = "MESSAGE_BUFFER" =>
       /\ next_handle = 1 /\ buffer_pool_next_available = KeycodeSize
       /\ asdf_keycode_buffer = 0
       /\ buffers[0].size = KeycodeSize /\ buffers[0].count = 0
  /\ ~Booting =>
       /\ next_handle = 2
       /\ buffers[0].size = KeycodeSize /\ buffers[1].size = MessageSize

\* In the message queue and in the hand of the loop are characters, so that an
\* invalid code tells that the queue is empty.
Characters ==
  /\ ~Booting => Contents(1) \in Seq(Codes \ {InvalidCode})
  /\ printing \in Seq(Codes \ {InvalidCode})
  /\ pc = "DELAY" => got \in Codes \ {InvalidCode}

\* Messages are printed in a scan, and typed codes taken when none waits.
InTurn ==
  /\ printing # <<>> => pc = "SCAN"
  /\ pc \in {"KEYCODE", "OUTPUT"} => Contents(1) = <<>>

TicksDue == (tick => due) /\ (pc = "CLEAR" /\ retval => due)

MainInv ==
  MainTypeOK /\ IInv /\ QueuesExist /\ Characters /\ InTurn /\ TicksDue

-----------------------------------------------------------------------------
(* What a get and a put do to the two queues.                              *)

\* The two handles that asdf_init has allocated.
LEMMA TwoHandles ==
  ASSUME next_handle = 2
  PROVE  Valid = {0, 1} /\ {0, 1} \subseteq Handles
<1>1. Valid = 0..1
  BY DEF Valid
<1>2. 0..1 = {0, 1}
  OBVIOUS
<1>3. 0 \in Handles /\ 1 \in Handles
  BY MainAssumption, BufferAssumption DEF Handles, INVALID
<1> QED
  BY <1>1, <1>2, <1>3

\* A get on either takes the oldest code, or InvalidCode if there is none, and
\* disturbs nothing else.
LEMMA GetQueue ==
  ASSUME IInv, next_handle = 2, NEW h \in {0, 1}, asdf_buffer_get(h)
  PROVE  /\ IInv' /\ next_handle' = 2
         /\ \A g \in {0, 1} : buffers'[g].size = buffers[g].size
         /\ \A g \in {0, 1} : g # h => Contents(g)' = Contents(g)
         /\ \/ /\ Contents(h) = <<>> /\ Contents(h)' = <<>>
               /\ got' = InvalidCode
            \/ /\ Contents(h) # <<>> /\ Contents(h)' = Tail(Contents(h))
               /\ got' = Head(Contents(h))
<1>1. Valid = {0, 1} /\ h \in Handles
  BY TwoHandles
<1>2. IInv'
  BY <1>1, GetInv
<1>3. next_handle' = 2
  BY DEF asdf_buffer_get
<1>4. CASE buffers[h].count # 0
  BY <1>1, <1>2, <1>3, <1>4, GetContents
<1>5. CASE buffers[h].count = 0
  <2>1. UNCHANGED <<buffers, buffer_pool>> /\ got' = InvalidCode
    BY <1>5 DEF asdf_buffer_get
  <2>2. \A g \in {0, 1} : Contents(g)' = Contents(g)
    BY <2>1 DEF Contents, Slot
  <2>3. Contents(h) = <<>>
    BY <1>5 DEF Contents
  <2> QED
    BY <1>2, <1>3, <2>1, <2>2, <2>3
<1> QED
  BY <1>4, <1>5

\* A put on either appends, or does nothing if the queue is full, and disturbs
\* nothing else.
LEMMA PutQueue ==
  ASSUME IInv, next_handle = 2, NEW h \in {0, 1}, NEW code \in Codes,
         Put(h, code)
  PROVE  /\ IInv' /\ next_handle' = 2
         /\ \A g \in {0, 1} : buffers'[g].size = buffers[g].size
         /\ \A g \in {0, 1} : g # h => Contents(g)' = Contents(g)
         /\ \/ /\ Len(Contents(h)) < buffers[h].size
               /\ Contents(h)' = Append(Contents(h), code)
            \/ /\ Len(Contents(h)) = buffers[h].size
               /\ Contents(h)' = Contents(h)
<1>1. Valid = {0, 1} /\ h \in Handles
  BY TwoHandles
<1>2. CASE asdf_buffer_put(h, code)
  <2>1. IInv' /\ next_handle' = 2
    BY <1>1, <1>2, PutInv DEF asdf_buffer_put
  <2> QED
    BY <1>1, <1>2, <2>1, PutContents
<1>3. CASE buffers[h].count = buffers[h].size /\ UNCHANGED bufferVars
  <2>1. /\ UNCHANGED <<buffer_pool, buffers, buffer_pool_next_available,
                       next_handle, got>>
    BY <1>3 DEF bufferVars
  <2>2. IInv'
    BY <2>1 DEF IInv, TypeOK, RingsConsistent, RingsDisjoint, Valid, Region
  <2>3. \A g \in {0, 1} : Contents(g)' = Contents(g)
    BY <2>1 DEF Contents, Slot
  <2>4. Len(Contents(h)) = buffers[h].size
    BY <1>1, <1>3, ContentsIsSeq
  <2> QED
    BY <2>1, <2>2, <2>3, <2>4
<1> QED
  BY <1>2, <1>3 DEF Put

-----------------------------------------------------------------------------
(* The invariant, step by step.                                            *)

\* Steps that leave the rings alone.
LEMMA RingsKept ==
  ASSUME IInv, UNCHANGED bufferVars
  PROVE  IInv' /\ \A h : Contents(h)' = Contents(h)
BY DEF bufferVars, IInv, TypeOK, RingsConsistent, RingsDisjoint, Valid, Region,
       Contents, Slot

\* Static storage is zero.
LEMMA MainInitInv == MainInit => MainInv
<1> SUFFICES ASSUME MainInit PROVE MainInv
  OBVIOUS
<1>1. IInv
  BY InitInv DEF MainInit
<1>2. TypeOK
  BY <1>1 DEF IInv
<1>3. pc = "INIT" /\ next_handle = 0 /\ buffer_pool_next_available = 0
  BY DEF MainInit, Init
<1>4. MainTypeOK
  <2>1. port = [code |-> InvalidCode, strobe |-> 0]
    BY DEF MainInit
  <2>2. port \in [code : Codes \union {InvalidCode}, strobe : {0, 1}]
    BY <2>1
  <2>3. tick \in BOOLEAN /\ retval \in BOOLEAN /\ due \in BOOLEAN /\ printing = <<>>
    BY Zenon DEF MainInit
  <2> QED
    BY <1>2, <1>3, <2>2, <2>3 DEF MainTypeOK, Booting
<1> QED
  BY <1>1, <1>3, <1>4 DEF MainInit, MainInv, QueuesExist, Characters, InTurn,
     TicksDue, Booting

\* asdf_init gets both buffers: the pool has the size of the two.
LEMMA BootInv ==
  ASSUME MainInv, Boot
  PROVE  MainInv'
<1> USE DEF MainInv
<1>1. CASE InitBuffers
  <2>1. IInv' /\ TypeOK'
    BY <1>1, ResetInv DEF InitBuffers, IInv
  <2> QED
    BY <1>1, <2>1 DEF InitBuffers, Goto, asdf_buffer_init, loopVars, MainTypeOK,
       QueuesExist, Characters, InTurn, TicksDue, Booting
<1>2. CASE NewKeycodeBuffer
  <2>1. pc = "KEYCODE_BUFFER" /\ pc' = "MESSAGE_BUFFER"
    BY <1>2 DEF NewKeycodeBuffer, Goto
  <2>2. IInv' /\ TypeOK'
    BY <1>2, NewInv, MainAssumption DEF NewKeycodeBuffer, IInv
  <2>3. /\ next_handle' = 1 /\ buffer_pool_next_available' = KeycodeSize
        /\ asdf_keycode_buffer' = 0
        /\ buffers'[0].size = KeycodeSize /\ buffers'[0].count = 0
    BY <1>2, <2>1, MainAssumption, BufferAssumption
    DEF NewKeycodeBuffer, asdf_buffer_new, QueuesExist, IInv, TypeOK
  <2> QED
    BY <1>2, <2>1, <2>2, <2>3 DEF NewKeycodeBuffer, MainTypeOK, QueuesExist,
       Characters, InTurn, TicksDue, Booting
<1>3. CASE NewMessageBuffer
  <2>1. pc = "MESSAGE_BUFFER" /\ pc' = "READ"
    BY <1>3 DEF NewMessageBuffer, Goto
  <2>2. IInv' /\ TypeOK'
    BY <1>3, NewInv, MainAssumption DEF NewMessageBuffer, IInv
  <2>3. /\ next_handle' = 2 /\ asdf_keycode_buffer' = 0 /\ asdf_message_buffer' = 1
        /\ buffers'[0].size = KeycodeSize
        /\ buffers'[1].size = MessageSize /\ buffers'[1].count = 0
    BY <1>3, <2>1, MainAssumption, BufferAssumption
    DEF NewMessageBuffer, asdf_buffer_new, QueuesExist, IInv, TypeOK
  <2>4. Contents(1)' = <<>>
    BY <2>3 DEF Contents
  <2> QED
    BY <1>3, <2>1, <2>2, <2>3, <2>4 DEF NewMessageBuffer, MainTypeOK, QueuesExist,
       Characters, InTurn, TicksDue, Booting
<1> QED
  BY <1>1, <1>2, <1>3 DEF Boot

\* Steps of the loop, the interrupt and keymap switches that use no ring.
LEMMA NoRingInv ==
  ASSUME MainInv,
         \/ Interrupt \/ ReadTick \/ ClearTick \/ Output \/ SwitchKeymap \/ EndScan
  PROVE  MainInv'
<1>1. IInv' /\ TypeOK' /\ Contents(1)' = Contents(1) /\ UNCHANGED bufferVars
  BY RingsKept DEF MainInv, IInv, Interrupt, ReadTick, ClearTick, Output,
     SwitchKeymap, EndScan
<1>2. QueuesExist /\ Characters /\ InTurn /\ TicksDue /\ MainTypeOK
  BY DEF MainInv
<1>3. UNCHANGED <<buffers, next_handle, buffer_pool_next_available, got>>
  BY <1>1 DEF bufferVars
<1>4. CASE Interrupt
  BY <1>1, <1>2, <1>3, <1>4 DEF Interrupt, loopVars, MainInv, MainTypeOK, QueuesExist,
     Characters, InTurn, TicksDue, Booting
<1>5. CASE ReadTick
  BY <1>1, <1>2, <1>3, <1>5 DEF ReadTick, Goto, MainInv, MainTypeOK, QueuesExist,
     Characters, InTurn, TicksDue, Booting
<1>6. CASE ClearTick
  BY <1>1, <1>2, <1>3, <1>6 DEF ClearTick, Goto, loopVars, MainInv, MainTypeOK,
     QueuesExist, Characters, InTurn, TicksDue, Booting
<1>7. CASE Output
  <2>1. port' \in [code : Codes \union {InvalidCode}, strobe : {0, 1}]
    BY <1>1, <1>2, <1>7 DEF Output, MainTypeOK, TypeOK
  <2> QED
    BY <1>1, <1>2, <1>3, <1>7, <2>1 DEF Output, MainInv, MainTypeOK, QueuesExist,
       Characters, InTurn, TicksDue, Booting
<1>8. CASE SwitchKeymap
  BY <1>1, <1>2, <1>3, <1>8 DEF SwitchKeymap, Scanning, loopVars, MainInv, MainTypeOK,
     QueuesExist, Characters, InTurn, TicksDue, Booting
<1>9. CASE EndScan
  BY <1>1, <1>2, <1>3, <1>9 DEF EndScan, Scanning, loopVars, MainInv, MainTypeOK,
     QueuesExist, Characters, InTurn, TicksDue, Booting
<1> QED
  BY <1>4, <1>5, <1>6, <1>7, <1>8, <1>9

\* A message of characters.
LEMMA PrintInv ==
  ASSUME MainInv, NEW message \in Messages, PrintMessage(message)
  PROVE  MainInv'
<1>1. IInv' /\ TypeOK' /\ Contents(1)' = Contents(1) /\ UNCHANGED bufferVars
  BY RingsKept DEF MainInv, IInv, PrintMessage
<1>2. UNCHANGED <<buffers, next_handle, buffer_pool_next_available, got>>
  BY <1>1 DEF bufferVars
<1>3. /\ printing' \in Seq(Codes \ {InvalidCode}) /\ printing' \in Seq(Codes)
      /\ pc = "SCAN" /\ pc' = "SCAN"
  BY MainAssumption DEF PrintMessage, Scanning
<1> QED
  BY <1>1, <1>2, <1>3 DEF PrintMessage, MainInv, MainTypeOK, QueuesExist, Characters,
     InTurn, TicksDue, Booting

\* The loop has the two handles once it runs.
LEMMA Running ==
  ASSUME MainInv, ~Booting
  PROVE  /\ next_handle = 2 /\ asdf_keycode_buffer = 0 /\ asdf_message_buffer = 1
         /\ buffers[0].size = KeycodeSize /\ buffers[1].size = MessageSize
         /\ Contents(0) \in Seq(Codes) /\ Contents(1) \in Seq(Codes \ {InvalidCode})
         /\ Len(Contents(0)) \in 0..KeycodeSize
         /\ Len(Contents(1)) \in 0..MessageSize
<1>1. /\ next_handle = 2 /\ asdf_keycode_buffer = 0 /\ asdf_message_buffer = 1
      /\ buffers[0].size = KeycodeSize /\ buffers[1].size = MessageSize
      /\ Contents(1) \in Seq(Codes \ {InvalidCode})
  BY DEF MainInv, MainTypeOK, QueuesExist, Characters
<1>2. 0 \in Valid /\ 1 \in Valid
  BY <1>1, TwoHandles
<1>3. IInv
  BY DEF MainInv
<1> QED
  BY <1>1, <1>2, <1>3, ContentsIsSeq, MainAssumption

\* An invalid code from the message queue says that it is empty.
LEMMA NextMessageInv ==
  ASSUME MainInv, NextMessage
  PROVE  MainInv'
<1>1. pc = "MESSAGE" /\ ~Booting
  BY DEF NextMessage, Goto, Booting
<1>2. IInv /\ next_handle = 2 /\ asdf_buffer_get(1)
  BY <1>1, Running DEF NextMessage, MainInv, asdf_buffer_get
<1>3. /\ IInv' /\ next_handle' = 2
      /\ buffers'[0].size = buffers[0].size /\ buffers'[1].size = buffers[1].size
      /\ \/ Contents(1) = <<>> /\ Contents(1)' = <<>> /\ got' = InvalidCode
         \/ /\ Contents(1) # <<>> /\ Contents(1)' = Tail(Contents(1))
            /\ got' = Head(Contents(1))
  BY <1>2, GetQueue
<1>4. TypeOK'
  BY <1>3 DEF IInv
<1>5. Contents(1) \in Seq(Codes \ {InvalidCode})
  BY <1>1, Running
<1>6. /\ Contents(1)' \in Seq(Codes \ {InvalidCode})
      /\ pc' \in {"KEYCODE", "DELAY"}
      /\ pc' = "DELAY" => got' \in Codes \ {InvalidCode}
      /\ pc' = "KEYCODE" => Contents(1)' = <<>>
  BY <1>1, <1>3, <1>5 DEF NextMessage, Goto
<1> QED
  BY <1>1, <1>3, <1>4, <1>6 DEF NextMessage, loopVars, MainInv, MainTypeOK, QueuesExist,
     Characters, InTurn, TicksDue, Booting

\* A get on the keycode queue.
LEMMA NextKeycodeInv ==
  ASSUME MainInv, NextKeycode
  PROVE  MainInv'
<1>1. pc = "KEYCODE" /\ pc' = "OUTPUT" /\ ~Booting
  BY DEF NextKeycode, Goto, Booting
<1>2. IInv /\ next_handle = 2 /\ asdf_buffer_get(0)
  BY <1>1, Running DEF NextKeycode, MainInv, asdf_buffer_get
<1>3. /\ IInv' /\ next_handle' = 2 /\ Contents(1)' = Contents(1)
      /\ buffers'[0].size = buffers[0].size /\ buffers'[1].size = buffers[1].size
  BY <1>2, GetQueue
<1>4. TypeOK'
  BY <1>3 DEF IInv
<1> QED
  BY <1>1, <1>3, <1>4 DEF NextKeycode, loopVars, MainInv, MainTypeOK, QueuesExist,
     Characters, InTurn, TicksDue, Booting

\* A put on the keycode queue.
LEMMA TypeCodeInv ==
  ASSUME MainInv, NEW code \in TypedCodes, TypeCode(code)
  PROVE  MainInv'
<1>1. pc = "SCAN" /\ pc' = "SCAN" /\ ~Booting
  BY DEF TypeCode, Scanning, Booting
<1>2. /\ IInv /\ next_handle = 2 /\ code \in Codes /\ Put(0, code)
  BY <1>1, Running, MainAssumption DEF TypeCode, MainInv, Put, asdf_buffer_put
<1>3. /\ IInv' /\ next_handle' = 2 /\ Contents(1)' = Contents(1)
      /\ buffers'[0].size = buffers[0].size /\ buffers'[1].size = buffers[1].size
  BY <1>2, PutQueue
<1>4. TypeOK'
  BY <1>3 DEF IInv
<1> QED
  BY <1>1, <1>3, <1>4 DEF TypeCode, loopVars, MainInv, MainTypeOK, QueuesExist,
     Characters, InTurn, TicksDue, Booting

\* A put of a character on the message queue.
LEMMA PutCharInv ==
  ASSUME MainInv, PutChar
  PROVE  MainInv'
<1>1. pc = "SCAN" /\ pc' = "SCAN" /\ ~Booting
  BY DEF PutChar, MainInv, InTurn, Booting
<1>2. /\ printing \in Seq(Codes \ {InvalidCode}) /\ printing # <<>>
      /\ printing' = Tail(printing)
  BY DEF PutChar, MainInv, Characters
<1>3. PICK char \in Codes \ {InvalidCode} : char = Head(printing)
  BY <1>2
<1>4. printing' \in Seq(Codes \ {InvalidCode}) /\ printing' \in Seq(Codes)
  BY <1>2
<1>5. IInv /\ next_handle = 2 /\ Put(1, char)
  BY <1>1, <1>3, Running DEF PutChar, MainInv, Put, asdf_buffer_put
<1>6. /\ IInv' /\ next_handle' = 2
      /\ buffers'[0].size = buffers[0].size /\ buffers'[1].size = buffers[1].size
      /\ Contents(1)' = Append(Contents(1), char) \/ Contents(1)' = Contents(1)
  BY <1>5, PutQueue
<1>7. TypeOK'
  BY <1>6 DEF IInv
<1>8. Contents(1)' \in Seq(Codes \ {InvalidCode})
  BY <1>1, <1>6, Running
<1> QED
  BY <1>1, <1>4, <1>6, <1>7, <1>8 DEF PutChar, MainInv, MainTypeOK, QueuesExist,
     Characters, InTurn, TicksDue, Booting

-----------------------------------------------------------------------------
\* The queues of asdf.c are in the rings they asked for, with no invalid code
\* among the characters of messages; a code is typed to the port only when no
\* message waits; and each pass of the loop has a tick.
THEOREM MainInvariant == MainSpec => []MainInv
<1>1. MainInv /\ [MainNext]_mainVars => MainInv'
  <2> SUFFICES ASSUME MainInv, [MainNext]_mainVars PROVE MainInv'
    OBVIOUS
  <2>1. CASE UNCHANGED mainVars
    <3>1. IInv' /\ TypeOK' /\ Contents(1)' = Contents(1) /\ UNCHANGED bufferVars
      BY <2>1, RingsKept DEF MainInv, IInv, mainVars
    <3>2. UNCHANGED <<buffers, next_handle, buffer_pool_next_available, got>>
      BY <3>1 DEF bufferVars
    <3> QED
      BY <2>1, <3>1, <3>2 DEF mainVars, loopVars, MainInv, MainTypeOK, QueuesExist,
         Characters, InTurn, TicksDue, Booting
  <2>2. CASE Boot
    BY <2>2, BootInv
  <2>3. CASE \/ Interrupt \/ ReadTick \/ ClearTick \/ Output \/ SwitchKeymap
             \/ EndScan
    BY <2>3, NoRingInv
  <2>4. CASE NextMessage
    BY <2>4, NextMessageInv
  <2>5. CASE NextKeycode
    BY <2>5, NextKeycodeInv
  <2>6. CASE PutChar
    BY <2>6, PutCharInv
  <2>7. CASE \E code \in TypedCodes : TypeCode(code)
    BY <2>7, TypeCodeInv
  <2>8. CASE \E message \in Messages : PrintMessage(message)
    BY <2>8, PrintInv
  <2> QED
    BY <2>1, <2>2, <2>3, <2>4, <2>5, <2>6, <2>7, <2>8 DEF MainNext, Loop
<1> QED
  BY <1>1, MainInitInv, PTL DEF MainSpec

\* The types of the loop, for any queues.
THEOREM MainTypeCorrect == MainSpec => []MainTypeOK
<1>1. MainInv => MainTypeOK
  BY DEF MainInv
<1> QED
  BY <1>1, MainInvariant, PTL

\* The loop makes no pass without a tick of its own.
THEOREM MainOnePassPerTick == MainSpec => OnePassPerTick
<1>1. MainInv /\ [MainNext]_mainVars => [StartPass => due]_mainVars
  <2> SUFFICES ASSUME MainInv, MainNext, StartPass PROVE due
    BY DEF StartPass, mainVars
  <2>1. pc = "CLEAR" /\ pc' = "MESSAGE"
    BY DEF StartPass
  <2>2. ClearTick
    BY <2>1 DEF MainNext, Loop, Boot, InitBuffers, NewKeycodeBuffer,
       NewMessageBuffer, Interrupt, ReadTick, ClearTick, NextMessage, NextKeycode,
       Output, TypeCode, PrintMessage, PutChar, SwitchKeymap, EndScan, Scanning, Goto
  <2>3. retval
    BY <2>1, <2>2 DEF ClearTick, Goto
  <2> QED
    BY <2>1, <2>3 DEF MainInv, TicksDue
<1> QED
  BY <1>1, MainInvariant, PTL DEF MainSpec, OnePassPerTick

-----------------------------------------------------------------------------
(* What the host is promised.                                              *)

AsFits(message, room) == Promised!AsFits(message, room)

\* Of a message, a prefix fits.
LEMMA FittingIsSeq ==
  ASSUME NEW S, NEW s \in Seq(S), NEW room \in Nat
  PROVE  AsFits(s, room) \in Seq(S)
<1> DEFINE n == IF Len(s) < room THEN Len(s) ELSE room
<1>1. n \in 0..Len(s)
  OBVIOUS
<1>2. AsFits(s, room) = SubSeq(s, 1, n)
  BY DEF AsFits, Promised!AsFits
<1> HIDE DEF n
<1>3. \A i \in 1..n : s[i] \in S
  BY <1>1
<1> QED
  BY <1>1, <1>2, <1>3, SubSeqProperties

\* Nothing fits in a full queue, and of an empty message nothing is to fit.
LEMMA NothingFits ==
  ASSUME NEW S, NEW s \in Seq(S), NEW room \in Nat, room = 0 \/ s = <<>>
  PROVE  AsFits(s, room) = <<>>
<1>1. (IF Len(s) < room THEN Len(s) ELSE room) = 0
  OBVIOUS
<1>2. AsFits(s, room) = SubSeq(s, 1, 0)
  BY <1>1 DEF AsFits, Promised!AsFits
<1> QED
  BY <1>2, SubSeqEmpty

\* An element between two sequences belongs to either.
LEMMA AppendInside ==
  ASSUME NEW S, NEW s \in Seq(S), NEW e \in S, NEW r \in Seq(S)
  PROVE  s \o (<<e>> \o r) = Append(s, e) \o r
<1>1. <<e>> \in Seq(S)
  OBVIOUS
<1>2. (s \o <<e>>) \o r = s \o (<<e>> \o r)
  BY <1>1, ConcatAssociative
<1>3. Append(s, e) = s \o <<e>>
  BY AppendIsConcat
<1> QED
  BY <1>2, <1>3

\* A sequence is its first element and the rest.
LEMMA HeadThenTail ==
  ASSUME NEW S, NEW s \in Seq(S), s # <<>>
  PROVE  s = <<Head(s)>> \o Tail(s)
<1>1. Len(s) \in Nat \ {0} /\ Head(s) = s[1]
  BY EmptySeq
<1>2. SubSeq(s, 1, Len(s)) = <<s[1]>> \o SubSeq(s, 1 + 1, Len(s))
  BY <1>1, SubSeqRecursiveFirst
<1>3. SubSeq(s, 1, Len(s)) = s
  BY SubSeqFull
<1>4. Tail(s) = SubSeq(s, 2, Len(s))
  BY TailIsSubSeq
<1>5. 1 + 1 = 2
  OBVIOUS
<1> QED
  BY <1>1, <1>2, <1>3, <1>4, <1>5, Zenon

\* One character at a time, what fits of a message is appended.
LEMMA OneMoreFits ==
  ASSUME NEW S, NEW s \in Seq(S), NEW p \in Seq(S), p # <<>>, NEW room \in Nat \ {0}
  PROVE  s \o AsFits(p, room) = Append(s, Head(p)) \o AsFits(Tail(p), room - 1)
<1> DEFINE n == IF Len(p) < room THEN Len(p) ELSE room
           m == IF Len(Tail(p)) < room - 1 THEN Len(Tail(p)) ELSE room - 1
<1>1. /\ Head(p) \in S /\ Tail(p) \in Seq(S) /\ Len(Tail(p)) = Len(p) - 1
      /\ \A i \in 1..Len(Tail(p)) : Tail(p)[i] = p[i + 1]
      /\ Head(p) = p[1] /\ Len(p) \in Nat \ {0}
  BY HeadTailProperties, EmptySeq
<1>2. n \in 1..Len(p) /\ m = n - 1
  BY <1>1
<1>3. AsFits(p, room) = SubSeq(p, 1, n) /\ AsFits(Tail(p), room - 1) = SubSeq(Tail(p), 1, m)
  BY DEF AsFits, Promised!AsFits
<1> HIDE DEF n, m
<1>4. SubSeq(p, 1, n) = <<Head(p)>> \o SubSeq(p, 2, n)
  <2>1. 1 \in 1..Len(p) /\ n \in 1..Len(p)
    BY <1>1, <1>2
  <2>2. SubSeq(p, 1, n) = <<p[1]>> \o SubSeq(p, 1 + 1, n)
    BY <2>1, SubSeqRecursiveFirst
  <2>3. 1 + 1 = 2
    OBVIOUS
  <2> QED
    BY <1>1, <2>2, <2>3, Zenon
<1>5. SubSeq(p, 2, n) = SubSeq(Tail(p), 1, m) /\ SubSeq(Tail(p), 1, m) \in Seq(S)
  <2>1. /\ SubSeq(p, 2, n) \in Seq(S)
        /\ Len(SubSeq(p, 2, n)) = n - 1
        /\ \A i \in 1..(n - 1) : SubSeq(p, 2, n)[i] = p[i + 1]
    <3>1. \A i \in 2..n : p[i] \in S
      BY <1>1, <1>2
    <3> QED
      BY <1>1, <1>2, <3>1, SubSeqProperties
  <2>2. /\ SubSeq(Tail(p), 1, m) \in Seq(S)
        /\ Len(SubSeq(Tail(p), 1, m)) = n - 1
        /\ \A i \in 1..(n - 1) : SubSeq(Tail(p), 1, m)[i] = Tail(p)[i]
    <3>1. \A i \in 1..m : Tail(p)[i] \in S
      BY <1>1, <1>2
    <3> QED
      BY <1>1, <1>2, <3>1, SubSeqProperties
  <2>3. \A i \in 1..(n - 1) : Tail(p)[i] = p[i + 1]
    BY <1>1, <1>2
  <2> QED
    BY <2>1, <2>2, <2>3, SeqEqual
<1>6. PICK e \in S : e = Head(p)
  BY <1>1
<1>7. PICK r \in Seq(S) : r = SubSeq(Tail(p), 1, m)
  BY <1>5
<1>8. s \o (<<e>> \o r) = Append(s, e) \o r
  BY AppendInside
<1> QED
  BY <1>3, <1>4, <1>5, <1>6, <1>7, <1>8, Zenon

\* What is left to send, where the loop is.
Left ==
  /\ Booting => KeycodesLeft = <<>> /\ MessagesLeft = <<>>
  /\ ~Booting =>
       /\ KeycodesLeft = IF pc = "OUTPUT" /\ got # InvalidCode
                         THEN <<got>> \o Contents(0) ELSE Contents(0)
       /\ MessagesLeft = CASE pc = "DELAY" -> <<got>> \o Contents(1)
                           [] pc = "SCAN" -> Contents(1) \o
                                AsFits(printing, MessageSize - Len(Contents(1)))
                           [] OTHER -> Contents(1)
       /\ pc # "DELAY" /\ printing = <<>> => MessagesLeft = Contents(1)

\* The invariant simplifies it.
LEMMA WhatIsLeft == MainInv => Left
<1> SUFFICES ASSUME MainInv PROVE Left
  OBVIOUS
<1>1. MessageSize \in Nat /\ <<>> \in Seq(Codes)
  BY MainAssumption
<1>2. printing \in Seq(Codes)
  BY DEF MainInv, MainTypeOK
<1>3. pc # "SCAN" => printing = <<>>
  BY DEF MainInv, InTurn
<1>4. Fitting = AsFits(printing, Room)
  BY DEF Fitting, AsFits, Promised!AsFits
<1>5. CASE Booting
  <2>1. pc \notin {"OUTPUT", "DELAY", "SCAN"}
    BY <1>5 DEF Booting
  <2>2. Room = MessageSize
    BY <1>1, <1>5 DEF Room, Waiting
  <2>3. Fitting = <<>>
    BY <1>1, <1>2, <1>3, <1>4, <2>1, <2>2, NothingFits
  <2> QED
    BY <1>5, <2>1, <2>3 DEF Left, KeycodesLeft, MessagesLeft, Waiting
<1>6. CASE ~Booting
  <2>1. /\ asdf_keycode_buffer = 0 /\ asdf_message_buffer = 1
        /\ Contents(0) \in Seq(Codes) /\ Contents(1) \in Seq(Codes)
        /\ Len(Contents(1)) \in 0..MessageSize
    BY <1>6, Running
  <2>2. /\ Waiting(asdf_keycode_buffer) = Contents(0)
        /\ Waiting(asdf_message_buffer) = Contents(1)
    BY <1>6, <2>1 DEF Waiting
  <2>3. Room = MessageSize - Len(Contents(1)) /\ Room \in Nat
    BY <1>1, <2>1, <2>2 DEF Room
  <2>4. got \in Codes \union {InvalidCode} /\ (pc = "DELAY" => got \in Codes \ {InvalidCode})
    BY DEF MainInv, MainTypeOK, TypeOK, Characters
  <2>5. KeycodesLeft = IF pc = "OUTPUT" /\ got # InvalidCode
                       THEN <<got>> \o Contents(0) ELSE Contents(0)
    <3>1. <<>> \o Contents(0) = Contents(0)
      BY <2>1, ConcatEmptySeq
    <3> QED
      BY <2>2, <3>1 DEF KeycodesLeft, InHand
  <2>6. printing = <<>> => Fitting = <<>>
    BY <1>2, <1>4, <2>3, NothingFits
  <2>7. CASE pc = "DELAY"
    <3>1. <<got>> \in Seq(Codes) /\ InHand = <<got>>
      BY <2>4, <2>7 DEF InHand
    <3>2. (<<got>> \o Contents(1)) \o <<>> = <<got>> \o Contents(1)
      BY <2>1, <3>1, ConcatEmptySeq, ConcatProperties
    <3> QED
      BY <1>3, <1>6, <2>2, <2>5, <2>6, <2>7, <3>1, <3>2 DEF Left, MessagesLeft
  <2>8. CASE pc # "DELAY"
    <3>1. <<>> \o Contents(1) = Contents(1) /\ Contents(1) \o <<>> = Contents(1)
      BY <2>1, ConcatEmptySeq
    <3>2. MessagesLeft = Contents(1) \o Fitting
      BY <2>2, <2>8, <3>1 DEF MessagesLeft
    <3> QED
      BY <1>3, <1>4, <1>6, <2>3, <2>5, <2>6, <2>8, <3>1, <3>2 DEF Left
  <2> QED
    BY <2>7, <2>8
<1> QED
  BY <1>5, <1>6

\* Both queues are empty when the loop starts.
LEMMA BootStutters ==
  ASSUME MainInv, Left, Left', Boot
  PROVE  UNCHANGED Promised!vars
<1>1. Booting /\ port' = port
  BY DEF Boot, InitBuffers, NewKeycodeBuffer, NewMessageBuffer, Goto, loopVars, Booting
<1>2. CASE InitBuffers \/ NewKeycodeBuffer
  <2>1. Booting'
    BY <1>2 DEF InitBuffers, NewKeycodeBuffer, Goto, Booting
  <2> QED
    BY <1>1, <2>1 DEF Left, Promised!vars
<1>3. CASE NewMessageBuffer
  <2>1. pc = "MESSAGE_BUFFER" /\ pc' = "READ" /\ ~Booting'
    BY <1>3 DEF NewMessageBuffer, Goto, Booting
  <2>2. buffers'[0].count = 0 /\ buffers'[1].count = 0
    BY <1>3, <2>1, MainAssumption, BufferAssumption
    DEF NewMessageBuffer, asdf_buffer_new, MainInv, QueuesExist, IInv, TypeOK
  <2>3. Contents(0)' = <<>> /\ Contents(1)' = <<>>
    BY <2>2 DEF Contents
  <2> QED
    BY <1>1, <2>1, <2>3 DEF Left, Promised!vars
<1> QED
  BY <1>2, <1>3 DEF Boot

\* Ticks, and the end of a scan, send and queue nothing.
LEMMA TickStutters ==
  ASSUME MainInv, Left, Left',
         Interrupt \/ ReadTick \/ ClearTick \/ SwitchKeymap \/ EndScan
  PROVE  UNCHANGED Promised!vars
<1>1. \A h : Contents(h)' = Contents(h)
  BY RingsKept DEF MainInv, Interrupt, ReadTick, ClearTick, SwitchKeymap, EndScan
<1>2. got' = got /\ port' = port /\ printing' = printing
  BY DEF Interrupt, ReadTick, ClearTick, SwitchKeymap, EndScan, loopVars, bufferVars
<1>3. CASE pc' = pc
  <2>1. KeycodesLeft' = KeycodesLeft /\ MessagesLeft' = MessagesLeft
    BY <1>1, <1>2, <1>3 DEF Left, Booting
  <2> QED
    BY <1>2, <2>1 DEF Promised!vars
<1>4. CASE ReadTick \/ ClearTick
  <2>1. /\ pc \in {"READ", "CLEAR"} /\ pc' \in {"READ", "CLEAR", "MESSAGE"}
        /\ ~Booting /\ ~Booting'
    BY <1>4 DEF ReadTick, ClearTick, Goto, Booting
  <2> QED
    BY <1>1, <1>2, <2>1 DEF Left, Promised!vars
<1>5. CASE EndScan
  <2>1. pc = "SCAN" /\ pc' = "READ" /\ ~Booting /\ ~Booting' /\ printing = <<>>
    BY <1>5 DEF EndScan, Scanning, Booting
  <2> QED
    BY <1>1, <1>2, <2>1 DEF Left, Promised!vars
<1> QED
  BY <1>3, <1>4, <1>5 DEF Interrupt, SwitchKeymap, loopVars

\* A character taken from the message queue is still to be sent.
LEMMA NextMessageStutters ==
  ASSUME MainInv, Left, Left', NextMessage
  PROVE  UNCHANGED Promised!vars
<1>1. pc = "MESSAGE" /\ ~Booting
  BY DEF NextMessage, Goto, Booting
<1>2. IInv /\ next_handle = 2 /\ asdf_buffer_get(1)
  BY <1>1, Running DEF NextMessage, MainInv, asdf_buffer_get
<1>3. /\ Contents(0)' = Contents(0)
      /\ \/ Contents(1) = <<>> /\ Contents(1)' = <<>> /\ got' = InvalidCode
         \/ /\ Contents(1) # <<>> /\ Contents(1)' = Tail(Contents(1))
            /\ got' = Head(Contents(1))
  BY <1>2, GetQueue
<1>4. Contents(1) \in Seq(Codes \ {InvalidCode})
  BY <1>1, Running
<1>5. port' = port /\ KeycodesLeft = Contents(0) /\ MessagesLeft = Contents(1)
  BY <1>1 DEF NextMessage, loopVars, Left
<1>6. CASE Contents(1) = <<>>
  <2>1. Contents(1)' = <<>> /\ got' = InvalidCode
    BY <1>3, <1>6
  <2>2. pc' = "KEYCODE" /\ ~Booting'
    BY <2>1 DEF NextMessage, Goto, Booting
  <2> QED
    BY <1>3, <1>5, <1>6, <2>1, <2>2 DEF Left, Promised!vars
<1>7. CASE Contents(1) # <<>>
  <2>1. Contents(1)' = Tail(Contents(1)) /\ got' = Head(Contents(1))
    BY <1>3, <1>7
  <2>2. got' # InvalidCode
    BY <1>4, <1>7, <2>1
  <2>3. pc' = "DELAY" /\ ~Booting'
    BY <2>2 DEF NextMessage, Goto, Booting
  <2>4. Contents(1) = <<Head(Contents(1))>> \o Tail(Contents(1))
    BY <1>4, <1>7, HeadThenTail
  <2> QED
    BY <1>3, <1>5, <2>1, <2>3, <2>4 DEF Left, Promised!vars
<1> QED
  BY <1>6, <1>7

\* A typed code taken from its queue is still to be sent, unless it is invalid;
\* no message waits.
LEMMA NextKeycodeSimulated ==
  ASSUME MainInv, Left, Left', NextKeycode
  PROVE  Promised!SendKeycode \/ UNCHANGED Promised!vars
<1>1. pc = "KEYCODE" /\ pc' = "OUTPUT" /\ ~Booting /\ ~Booting' /\ port' = port
  BY DEF NextKeycode, Goto, Booting, loopVars
<1>2. IInv /\ next_handle = 2 /\ asdf_buffer_get(0)
  BY <1>1, Running DEF NextKeycode, MainInv, asdf_buffer_get
<1>3. /\ Contents(1)' = Contents(1)
      /\ \/ Contents(0) = <<>> /\ Contents(0)' = <<>> /\ got' = InvalidCode
         \/ /\ Contents(0) # <<>> /\ Contents(0)' = Tail(Contents(0))
            /\ got' = Head(Contents(0))
  BY <1>2, GetQueue
<1>4. Contents(0) \in Seq(Codes) /\ Contents(1) = <<>>
  BY <1>1, Running DEF MainInv, InTurn
<1>5. /\ KeycodesLeft = Contents(0) /\ MessagesLeft = <<>> /\ MessagesLeft' = <<>>
      /\ KeycodesLeft' = IF got' # InvalidCode
                         THEN <<got'>> \o Contents(0)' ELSE Contents(0)'
  BY <1>1, <1>3, <1>4 DEF Left
<1>6. CASE Contents(0) = <<>>
  BY <1>1, <1>3, <1>5, <1>6 DEF Promised!vars
<1>7. CASE Contents(0) # <<>> /\ Head(Contents(0)) = InvalidCode
  BY <1>1, <1>3, <1>5, <1>7 DEF Promised!SendKeycode
<1>8. CASE Contents(0) # <<>> /\ Head(Contents(0)) # InvalidCode
  <2>1. Contents(0) = <<Head(Contents(0))>> \o Tail(Contents(0))
    BY <1>4, <1>8, HeadThenTail
  <2> QED
    BY <1>1, <1>3, <1>5, <1>8, <2>1 DEF Promised!vars
<1> QED
  BY <1>6, <1>7, <1>8

\* A sequence with an element before it.
LEMMA HeadTailOfPair ==
  ASSUME NEW S, NEW e \in S, NEW s \in Seq(S)
  PROVE  /\ <<e>> \o s # <<>>
         /\ Head(<<e>> \o s) = e /\ Tail(<<e>> \o s) = s
<1>1. PICK one \in Seq(S) : one = <<e>>
  <2>1. <<e>> \in Seq(S)
    OBVIOUS
  <2> QED
    BY <2>1, Zenon
<1>2. Len(one) = 1 /\ one[1] = e
  BY <1>1
<1>3. /\ one \o s \in Seq(S) /\ Len(one \o s) = 1 + Len(s) /\ Len(s) \in Nat
      /\ \A i \in 1..(1 + Len(s)) :
           (one \o s)[i] = IF i <= 1 THEN one[i] ELSE s[i - 1]
  BY <1>2, ConcatProperties, LenProperties
<1>4. one \o s # <<>>
  BY <1>3
<1>5. Head(one \o s) = e
  BY <1>2, <1>3, <1>4
<1>6. \A i \in 1..Len(s) : s[i] = (one \o s)[i + 1]
  BY <1>3
<1>7. s = Tail(one \o s)
  BY <1>3, <1>4, <1>6, IsTail
<1> QED
  BY <1>1, <1>4, <1>5, <1>7, Zenon

\* The code in hand is sent, if it is valid.
LEMMA OutputSimulated ==
  ASSUME MainInv, Left, Left', Output
  PROVE  \/ Promised!SendMessage \/ Promised!SendKeycode
         \/ UNCHANGED Promised!vars
<1>1. /\ pc \in {"DELAY", "OUTPUT"} /\ pc' = "SCAN" /\ ~Booting /\ ~Booting'
      /\ got' = got
  BY DEF Output, Booting, bufferVars
<1>2. Contents(0)' = Contents(0) /\ Contents(1)' = Contents(1)
  BY RingsKept DEF MainInv, Output
<1>3. printing = <<>> /\ printing' = <<>>
  BY <1>1 DEF MainInv, InTurn, Output
<1>4. /\ Contents(0) \in Seq(Codes) /\ Contents(1) \in Seq(Codes \ {InvalidCode})
      /\ got \in Codes \union {InvalidCode}
  BY <1>1, Running DEF MainInv, MainTypeOK, TypeOK
<1>5. KeycodesLeft' = Contents(0) /\ MessagesLeft' = Contents(1)
  BY <1>1, <1>2, <1>3 DEF Left
<1>6. CASE pc = "DELAY"
  <2>1. got \in Codes \ {InvalidCode}
    BY <1>6 DEF MainInv, Characters
  <2>2. KeycodesLeft = Contents(0) /\ MessagesLeft = <<got>> \o Contents(1)
    BY <1>1, <1>6 DEF Left
  <2>3. /\ <<got>> \o Contents(1) # <<>>
        /\ Head(<<got>> \o Contents(1)) = got /\ Tail(<<got>> \o Contents(1)) = Contents(1)
    BY <1>4, <2>1, HeadTailOfPair
  <2>4. port' = Promised!Sent(port, got)
    BY <2>1 DEF Output, Promised!Sent
  <2>5. Promised!SendMessage
    BY <1>5, <2>2, <2>3, <2>4, Zenon DEF Promised!SendMessage
  <2> QED
    BY <2>5
<1>7. CASE pc = "OUTPUT" /\ got # InvalidCode
  <2>1. Contents(1) = <<>> /\ got \in Codes
    BY <1>4, <1>7 DEF MainInv, InTurn
  <2>2. KeycodesLeft = <<got>> \o Contents(0) /\ MessagesLeft = Contents(1)
    BY <1>1, <1>3, <1>7 DEF Left
  <2>3. /\ <<got>> \o Contents(0) # <<>>
        /\ Head(<<got>> \o Contents(0)) = got /\ Tail(<<got>> \o Contents(0)) = Contents(0)
    BY <1>4, <2>1, HeadTailOfPair
  <2>4. port' = Promised!Sent(port, got)
    BY <1>7 DEF Output, Promised!Sent
  <2>5. port' = IF Head(KeycodesLeft) = InvalidCode THEN port
                ELSE Promised!Sent(port, Head(KeycodesLeft))
    BY <1>7, <2>2, <2>3, <2>4, Zenon
  <2>6. Promised!SendKeycode
    BY <1>5, <2>1, <2>2, <2>3, <2>5, Zenon DEF Promised!SendKeycode
  <2> QED
    BY <2>6
<1>8. CASE pc = "OUTPUT" /\ got = InvalidCode
  <2>1. KeycodesLeft = Contents(0) /\ MessagesLeft = Contents(1)
    BY <1>1, <1>3, <1>8 DEF Left
  <2>2. port' = port
    BY <1>8 DEF Output
  <2> QED
    BY <1>5, <2>1, <2>2 DEF Promised!vars
<1> QED
  BY <1>1, <1>6, <1>7, <1>8

\* A typed code waits if its queue has room.
LEMMA TypeCodeSimulated ==
  ASSUME MainInv, Left, Left', NEW code \in TypedCodes, TypeCode(code)
  PROVE  Promised!Type(code)
<1>1. /\ pc = "SCAN" /\ pc' = "SCAN" /\ ~Booting /\ ~Booting' /\ port' = port
      /\ printing = <<>> /\ printing' = <<>>
  BY DEF TypeCode, Scanning, Booting, loopVars
<1>2. /\ IInv /\ next_handle = 2 /\ code \in Codes /\ Put(0, code)
      /\ buffers[0].size = KeycodeSize
  BY <1>1, Running, MainAssumption DEF TypeCode, MainInv, Put, asdf_buffer_put
<1>3. /\ Contents(1)' = Contents(1)
      /\ \/ /\ Len(Contents(0)) < buffers[0].size
            /\ Contents(0)' = Append(Contents(0), code)
         \/ /\ Len(Contents(0)) = buffers[0].size
            /\ Contents(0)' = Contents(0)
  BY <1>2, PutQueue
<1>4. Contents(0)' = IF Len(Contents(0)) < KeycodeSize THEN Append(Contents(0), code)
                     ELSE Contents(0)
  <2>1. ~(KeycodeSize < KeycodeSize)
    BY MainAssumption
  <2> QED
    BY <1>2, <1>3, <2>1
<1>5. /\ KeycodesLeft = Contents(0) /\ KeycodesLeft' = Contents(0)'
      /\ MessagesLeft = Contents(1) /\ MessagesLeft' = Contents(1)'
  BY <1>1 DEF Left
<1> QED
  BY <1>1, <1>3, <1>4, <1>5 DEF Promised!Type

\* Of a message, what fits in the queue waits.
LEMMA PrintSimulated ==
  ASSUME MainInv, Left, Left', NEW message \in Messages, PrintMessage(message)
  PROVE  Promised!PrintMessage(message)
<1>1. /\ pc = "SCAN" /\ pc' = "SCAN" /\ ~Booting /\ ~Booting' /\ port' = port
      /\ printing = <<>> /\ printing' = message
  BY DEF PrintMessage, Scanning, Booting
<1>2. Contents(0)' = Contents(0) /\ Contents(1)' = Contents(1)
  BY RingsKept DEF MainInv, PrintMessage
<1>3. /\ KeycodesLeft = Contents(0) /\ KeycodesLeft' = Contents(0)
      /\ MessagesLeft = Contents(1)
      /\ MessagesLeft' =
           Contents(1) \o AsFits(message, MessageSize - Len(Contents(1)))
  BY <1>1, <1>2 DEF Left
<1> QED
  BY <1>1, <1>3 DEF Promised!PrintMessage, AsFits

\* A character that fits waited already, and one that does not is dropped.
LEMMA PutCharStutters ==
  ASSUME MainInv, Left, Left', PutChar
  PROVE  UNCHANGED Promised!vars
<1>1. /\ pc = "SCAN" /\ pc' = "SCAN" /\ ~Booting /\ ~Booting' /\ port' = port
  BY DEF PutChar, MainInv, InTurn, Booting
<1>2. /\ printing \in Seq(Codes \ {InvalidCode}) /\ printing # <<>>
      /\ printing' = Tail(printing)
  BY DEF PutChar, MainInv, Characters
<1>3. PICK char \in Codes \ {InvalidCode} : char = Head(printing)
  BY <1>2
<1>4. /\ IInv /\ next_handle = 2 /\ Put(1, char) /\ buffers[1].size = MessageSize
  BY <1>1, <1>3, Running DEF PutChar, MainInv, Put, asdf_buffer_put
<1>5. /\ Contents(0)' = Contents(0)
      /\ \/ /\ Len(Contents(1)) < buffers[1].size
            /\ Contents(1)' = Append(Contents(1), char)
         \/ /\ Len(Contents(1)) = buffers[1].size
            /\ Contents(1)' = Contents(1)
  BY <1>4, PutQueue
<1>6. /\ Contents(1) \in Seq(Codes \ {InvalidCode}) /\ Len(Contents(1)) \in 0..MessageSize
      /\ MessageSize \in Nat
  BY <1>1, Running, MainAssumption
<1>7. /\ KeycodesLeft = Contents(0) /\ KeycodesLeft' = Contents(0)'
      /\ MessagesLeft = Contents(1) \o AsFits(printing, MessageSize - Len(Contents(1)))
      /\ MessagesLeft' =
           Contents(1)' \o AsFits(printing', MessageSize - Len(Contents(1)'))
  BY <1>1 DEF Left
<1>8. CASE Len(Contents(1)) < MessageSize
  <2>1. Contents(1)' = Append(Contents(1), char)
    BY <1>4, <1>5, <1>8
  <2>2. Len(Contents(1)') = Len(Contents(1)) + 1
    BY <1>6, <2>1
  <2> DEFINE room == MessageSize - Len(Contents(1))
  <2>3. room \in Nat \ {0} /\ MessageSize - Len(Contents(1)') = room - 1
    BY <1>6, <1>8, <2>2
  <2> HIDE DEF room
  <2>4. Contents(1) \o AsFits(printing, room)
          = Append(Contents(1), Head(printing)) \o AsFits(Tail(printing), room - 1)
    BY <1>2, <1>6, <2>3, OneMoreFits
  <2>5. MessagesLeft' = MessagesLeft
    BY <1>2, <1>3, <1>7, <2>1, <2>3, <2>4, Zenon DEF room
  <2> QED
    BY <1>1, <1>5, <1>7, <2>5 DEF Promised!vars
<1>9. CASE Len(Contents(1)) = MessageSize
  <2>1. Contents(1)' = Contents(1) /\ MessageSize - Len(Contents(1)) = 0
    BY <1>4, <1>5, <1>6, <1>9
  <2>2. AsFits(printing, 0) = <<>>
    BY <1>2, NothingFits
  <2>3. AsFits(Tail(printing), 0) = <<>>
    <3>1. Tail(printing) \in Seq(Codes \ {InvalidCode})
      BY <1>2
    <3> QED
      BY <3>1, NothingFits
  <2> QED
    BY <1>1, <1>2, <1>5, <1>7, <2>1, <2>2, <2>3 DEF Promised!vars
<1> QED
  BY <1>6, <1>8, <1>9

\* Codes and messages reach the host as HostPort promises, for queues of any
\* size: in order, once, messages first and in one piece, and none lost but at
\* a full queue.
THEOREM MainKeepsPort == MainSpec => KeepsPort
<1>1. MainInit /\ MainInv => Promised!Init
  <2> SUFFICES ASSUME MainInit, MainInv PROVE Promised!Init
    OBVIOUS
  <2>1. Left
    BY WhatIsLeft
  <2>2. Booting /\ port = [code |-> InvalidCode, strobe |-> 0]
    BY DEF MainInit, Booting
  <2> QED
    BY <2>1, <2>2 DEF Left, Promised!Init
<1>2. MainInv /\ Left /\ Left' /\ [MainNext]_mainVars => [Promised!Next]_(Promised!vars)
  <2> SUFFICES ASSUME MainInv, Left, Left', [MainNext]_mainVars
               PROVE  Promised!Next \/ UNCHANGED Promised!vars
    OBVIOUS
  <2>1. CASE UNCHANGED mainVars
    <3>1. \A h : Contents(h)' = Contents(h)
      BY <2>1, RingsKept DEF MainInv, mainVars
    <3>2. UNCHANGED <<got, port, printing, pc>>
      BY <2>1 DEF mainVars, loopVars, bufferVars
    <3>3. KeycodesLeft' = KeycodesLeft /\ MessagesLeft' = MessagesLeft
      BY <3>1, <3>2 DEF Left, Booting
    <3> QED
      BY <3>2, <3>3 DEF Promised!vars
  <2>2. CASE Boot
    BY <2>2, BootStutters
  <2>3. CASE Interrupt \/ ReadTick \/ ClearTick \/ SwitchKeymap \/ EndScan
    BY <2>3, TickStutters
  <2>4. CASE NextMessage
    BY <2>4, NextMessageStutters
  <2>5. CASE NextKeycode
    BY <2>5, NextKeycodeSimulated DEF Promised!Next
  <2>6. CASE Output
    BY <2>6, OutputSimulated DEF Promised!Next
  <2>7. CASE PutChar
    BY <2>7, PutCharStutters
  <2>8. CASE \E code \in TypedCodes : TypeCode(code)
    BY <2>8, TypeCodeSimulated DEF Promised!Next
  <2>9. CASE \E message \in Messages : PrintMessage(message)
    BY <2>9, PrintSimulated DEF Promised!Next
  <2> QED
    BY <2>1, <2>2, <2>3, <2>4, <2>5, <2>6, <2>7, <2>8, <2>9 DEF MainNext, Loop
<1> QED
  BY <1>1, <1>2, MainInvariant, WhatIsLeft, PTL
  DEF MainSpec, KeepsPort, Promised!Spec
=============================================================================
