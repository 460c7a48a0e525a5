-------------------------- MODULE AsdfArch_proofs --------------------------
(***************************************************************************)
(* Proofs about AsdfArch, for any codes, rows and devices in use, any      *)
(* number of columns and either polarity of strobe and data: its types,    *)
(* what the outputs and the strobe show, that an output changes without a  *)
(* glitch, that AsdfArch implements StrobePort, and that a row is read as  *)
(* it was sampled.                                                         *)
(*                                                                         *)
(* The first part says what the routines of the four boards have in        *)
(* common, derived from the accesses that each makes: whichever board it   *)
(* is, asdf_arch_init, the selection of a polarity, the handlers of the    *)
(* outputs, the sending of a code and the reading of a row have the shapes *)
(* defined there.  The second part needs no more.  What a line will show   *)
(* depends on the accesses that are still to come: a bit settles at a      *)
(* value if they leave it at that value, and the invariants say at which   *)
(* values the bits of each line settle.                                    *)
(***************************************************************************)
EXTENDS AsdfArch, SequencesExt, SequenceTheorems, TLAPS

-----------------------------------------------------------------------------
(* Sequences and the sets of their elements, and accesses.                 *)

\* The elements of a sequence are its head and those of its tail.
LEMMA TailSet ==
  ASSUME NEW S, NEW s \in Seq(S), s # <<>>
  PROVE  /\ Head(s) \in S /\ Tail(s) \in Seq(S)
         /\ ToSet(s) = {Head(s)} \union ToSet(Tail(s))
<1>1. Len(s) \in Nat \ {0} /\ DOMAIN s = 1..Len(s)
  BY EmptySeq
<1>2. /\ Tail(s) \in Seq(S) /\ Head(s) = s[1] /\ Head(s) \in S
      /\ Len(Tail(s)) = Len(s) - 1 /\ DOMAIN Tail(s) = 1..(Len(s) - 1)
      /\ \A i \in 1..(Len(s) - 1) : Tail(s)[i] = s[i + 1]
  BY <1>1
<1>3. ASSUME NEW i \in 1..Len(s)  PROVE s[i] \in {Head(s)} \union ToSet(Tail(s))
  <2>1. CASE i = 1
    BY <1>2, <2>1
  <2>2. CASE i # 1
    <3>1. i - 1 \in 1..(Len(s) - 1) /\ i - 1 + 1 = i
      BY <1>1, <2>2
    <3> QED
      BY <3>1, <1>2 DEF ToSet
  <2> QED
    BY <2>1, <2>2
<1>4. ASSUME NEW i \in 1..(Len(s) - 1)  PROVE Tail(s)[i] \in ToSet(s)
  <2>1. i + 1 \in 1..Len(s)
    BY <1>1
  <2> QED
    BY <2>1, <1>1, <1>2 DEF ToSet
<1>5. 1 \in 1..Len(s)
  BY <1>1
<1> QED
  BY <1>1, <1>2, <1>3, <1>4, <1>5 DEF ToSet

\* The elements of two sequences, one after the other.
LEMMA ConcatSet ==
  ASSUME NEW S, NEW s \in Seq(S), NEW t \in Seq(S)
  PROVE  s \o t \in Seq(S) /\ ToSet(s \o t) = ToSet(s) \union ToSet(t)
<1>1. /\ Len(s) \in Nat /\ Len(t) \in Nat /\ DOMAIN s = 1..Len(s) /\ DOMAIN t = 1..Len(t)
      /\ s \o t \in Seq(S) /\ DOMAIN (s \o t) = 1..(Len(s) + Len(t))
      /\ \A i \in 1..(Len(s) + Len(t)) :
           (s \o t)[i] = IF i <= Len(s) THEN s[i] ELSE t[i - Len(s)]
  OBVIOUS
<1>2. ASSUME NEW i \in 1..(Len(s) + Len(t))
      PROVE  (s \o t)[i] \in ToSet(s) \union ToSet(t)
  <2>1. CASE i <= Len(s)
    BY <2>1, <1>1 DEF ToSet
  <2>2. CASE ~(i <= Len(s))
    <3>1. i - Len(s) \in 1..Len(t)
      BY <2>2, <1>1
    <3> QED
      BY <3>1, <2>2, <1>1 DEF ToSet
  <2> QED
    BY <2>1, <2>2
<1>3. ASSUME NEW i \in 1..Len(s)  PROVE s[i] \in ToSet(s \o t)
  <2>1. i \in 1..(Len(s) + Len(t)) /\ i <= Len(s)
    BY <1>1
  <2> QED
    BY <2>1, <1>1 DEF ToSet
<1>4. ASSUME NEW i \in 1..Len(t)  PROVE t[i] \in ToSet(s \o t)
  <2>1. /\ i + Len(s) \in 1..(Len(s) + Len(t)) /\ ~(i + Len(s) <= Len(s))
        /\ i + Len(s) - Len(s) = i
    BY <1>1
  <2> QED
    BY <2>1, <1>1 DEF ToSet
<1> QED
  BY <1>1, <1>2, <1>3, <1>4 DEF ToSet

\* The elements of short tuples.
LEMMA TupleSets ==
  ASSUME NEW S
  PROVE  /\ <<>> \in Seq(S) /\ ToSet(<<>>) = {}
         /\ \A a \in S : <<a>> \in Seq(S) /\ ToSet(<<a>>) = {a}
         /\ \A a, b \in S : <<a, b>> \in Seq(S) /\ ToSet(<<a, b>>) = {a, b}
         /\ \A a, b, c \in S : <<a, b, c>> \in Seq(S) /\ ToSet(<<a, b, c>>) = {a, b, c}
<1>1. <<>> \in Seq(S) /\ ToSet(<<>>) = {}
  BY DEF ToSet
<1>2. ASSUME NEW a \in S PROVE <<a>> \in Seq(S) /\ ToSet(<<a>>) = {a}
  BY DEF ToSet
<1>3. ASSUME NEW a \in S, NEW b \in S PROVE <<a, b>> \in Seq(S) /\ ToSet(<<a, b>>) = {a, b}
  BY DEF ToSet
<1>4. ASSUME NEW a \in S, NEW b \in S, NEW c \in S
      PROVE <<a, b, c>> \in Seq(S) /\ ToSet(<<a, b, c>>) = {a, b, c}
  BY DEF ToSet
<1> QED
  BY <1>1, <1>2, <1>3, <1>4

\* The lines that the devices drive.
LEMMA TheLines == Lines = {"OUT1", "OUT2", "OUT3", "LED1", "LED2", "LED3"}
<1>1. Devices = {1, 2, 3, 4, 5, 6, 7, 8, 9, 10, 11, 12}
  BY ArchAssumption DEF Devices
<1> QED
  BY <1>1, ArchAssumption DEF Lines, DeviceTable, Device

\* An access of one of these kinds is one that the boards have.
LEMMA AccessTypes ==
  /\ \A line \in PortLines, value \in {0, 1} :
       Access("PORT", line, value) \in Accesses /\ Access("DDR", line, value) \in Accesses
  /\ Access("PIN", "STROBE", 1) \in Accesses
  /\ \A value \in 0..255 : Access("ASCII", "ASCII", value) \in Accesses
  /\ \A line \in {"ROWS", "LOROW", "HIROW"}, row \in Rows :
       Access("ROWS", line, row) \in Accesses /\ Access("DESELECT", line, row) \in Accesses
  /\ \A n \in Cols : Access("BIT", "COL", n) \in Accesses
  /\ Access("COLUMNS", "COLUMNS", 0) \in Accesses
BY DEF Access, Accesses

\* The fields of an access.
LEMMA AccessFields ==
  \A op, line, value : /\ Access(op, line, value).op = op
                       /\ Access(op, line, value).line = line
                       /\ Access(op, line, value).value = value
BY DEF Access

-----------------------------------------------------------------------------
Leds == {"LED1", "LED2", "LED3"}
StrobeBit(p) == IF p = "POSITIVE" THEN 0 ELSE 1

\* An access that asdf_arch_init makes, when it selects polarity p.
InitAccess(a, p) ==
  /\ a.op \in {"PORT", "DDR", "ASCII", "ROWS", "DESELECT"}
  /\ a.op = "ASCII" => a.value = DataPolarity
  /\ a.line \in Lines => a.op = "DDR" /\ a.value = 1
  /\ a.line = "STROBE" =>
       \/ a.op = "DDR" /\ a.value = 1
       \/ a.op = "PORT" /\ a.value = StrobeBit(p)
InitShape(program, p) ==
  /\ program \in Seq(Accesses)
  /\ \A a \in ToSet(program) : InitAccess(a, p)
  /\ \A line \in Leds \union {"STROBE"} : Access("DDR", line, 1) \in ToSet(program)
  /\ Access("PORT", "STROBE", StrobeBit(p)) \in ToSet(program)

\* What has to be wired for rows to be read: bits that asdf_arch_init gives the
\* registers of the lines of rows, and of those that clock the shift register.
SerialWires ==
  {Access("DDR", "ROWS", 1), Access("DDR", "COLCLK", 1),
   Access("PORT", "COLCLK", 0), Access("PORT", "COLMODE", 1)}
PairWires == {Access("DDR", "LOROW", 1), Access("DDR", "HIROW", 1)}
PlainWires == {Access("DDR", "ROWS", 1)}
Wires ==
  IF board \in SerialBoards THEN SerialWires
  ELSE IF board = "atmega2560" THEN PairWires ELSE PlainWires
Wiring(program, wires) ==
  /\ wires \subseteq ToSet(program)
  /\ \A a \in ToSet(program), w \in wires : a.op = w.op /\ a.line = w.line => a = w

-----------------------------------------------------------------------------
(* What asdf_arch_init of each board does.                                 *)

\* Values and lines that the routines use.
LEMMA LineTypes ==
  /\ \A line \in {"OUT1", "OUT2", "OUT3", "LED1", "LED2", "LED3", "STROBE", "ASCII", "ROWS",
                  "LOROW", "HIROW", "COL", "COLCLK", "COLMODE", "COLUMNS"} : line \in PortLines
  /\ "STROBE" \notin Lines /\ "ASCII" \notin Lines
  /\ \A n \in {0, 9, 10} : n \in Rows
  /\ DataPolarity \in 0..255
  /\ \A p : StrobeBit(p) \in {0, 1}
BY TheLines, PinsAssumption DEF PortLines, Rows, StrobeBit

\* On the ATmega328P.
LEMMA Init328 ==
  InitShape(M328!asdf_arch_init, StrobePolarity) /\ Wiring(M328!asdf_arch_init, SerialWires)
<1> DEFINE strobe == IF StrobePolarity = "POSITIVE" THEN M328!asdf_arch_set_pos_strobe
                                                   ELSE M328!asdf_arch_set_neg_strobe
<1>1. /\ M328!asdf_arch_init_ascii_output \in Seq(Accesses)
      /\ ToSet(M328!asdf_arch_init_ascii_output) =
           {Access("ASCII", "ASCII", DataPolarity), Access("DDR", "ASCII", 1)}
  <2>1. M328!asdf_arch_init_ascii_output =
          <<Access("ASCII", "ASCII", DataPolarity), Access("DDR", "ASCII", 1)>>
    BY Zenon DEF M328!asdf_arch_init_ascii_output, M328!Access, M328!set_bit, M328!clear_bit,
         Access
  <2>2. /\ Access("ASCII", "ASCII", DataPolarity) \in Accesses
        /\ Access("DDR", "ASCII", 1) \in Accesses
    BY LineTypes, AccessTypes
  <2> QED
    BY <2>1, <2>2, TupleSets
<1>2. /\ strobe \in Seq(Accesses)
      /\ ToSet(strobe) =
           {Access("PORT", "STROBE", StrobeBit(StrobePolarity)), Access("DDR", "STROBE", 1)}
  <2>1. strobe =
          <<Access("PORT", "STROBE", StrobeBit(StrobePolarity)), Access("DDR", "STROBE", 1)>>
    BY Zenon DEF M328!asdf_arch_set_pos_strobe, M328!asdf_arch_set_neg_strobe, StrobeBit,
             M328!Access, M328!set_bit, M328!clear_bit, Access
  <2>2. /\ Access("PORT", "STROBE", StrobeBit(StrobePolarity)) \in Accesses
        /\ Access("DDR", "STROBE", 1) \in Accesses
    BY LineTypes, AccessTypes
  <2> HIDE DEF strobe
  <2> QED
    BY <2>1, <2>2, TupleSets
<1>3. /\ M328!asdf_arch_init_leds \in Seq(Accesses)
      /\ ToSet(M328!asdf_arch_init_leds) =
           {Access("DDR", "LED1", 1), Access("DDR", "LED2", 1), Access("DDR", "LED3", 1)}
  <2>1. M328!asdf_arch_init_leds =
          <<Access("DDR", "LED1", 1), Access("DDR", "LED2", 1), Access("DDR", "LED3", 1)>>
    BY Zenon DEF M328!asdf_arch_init_leds, M328!Access, M328!set_bit, M328!clear_bit, Access
  <2>2. /\ Access("DDR", "LED1", 1) \in Accesses
        /\ Access("DDR", "LED2", 1) \in Accesses
        /\ Access("DDR", "LED3", 1) \in Accesses
    BY LineTypes, AccessTypes
  <2> QED
    BY <2>1, <2>2, TupleSets
<1>4. /\ M328!asdf_arch_init_row_outputs \in Seq(Accesses)
      /\ ToSet(M328!asdf_arch_init_row_outputs) =
           {Access("ROWS", "ROWS", 0), Access("DDR", "ROWS", 1)}
  <2>1. M328!asdf_arch_init_row_outputs =
          <<Access("ROWS", "ROWS", 0), Access("DDR", "ROWS", 1)>>
    BY Zenon DEF M328!asdf_arch_init_row_outputs, M328!Access, M328!set_bit, M328!clear_bit,
         Access
  <2>2. /\ Access("ROWS", "ROWS", 0) \in Accesses
        /\ Access("DDR", "ROWS", 1) \in Accesses
    BY LineTypes, AccessTypes
  <2> QED
    BY <2>1, <2>2, TupleSets
<1>5. /\ M328!asdf_arch_init_column_control \in Seq(Accesses)
      /\ ToSet(M328!asdf_arch_init_column_control) =
           {Access("PORT", "COLCLK", 0), Access("DDR", "COLCLK", 1),
            Access("PORT", "COLMODE", 1), Access("DDR", "COLMODE", 1), Access("DDR", "COL", 0),
            Access("PORT", "COL", 0)}
  <2>1. M328!asdf_arch_init_column_control =
          <<Access("PORT", "COLCLK", 0), Access("DDR", "COLCLK", 1),
            Access("PORT", "COLMODE", 1), Access("DDR", "COLMODE", 1), Access("DDR", "COL", 0),
            Access("PORT", "COL", 0)>>
    BY Zenon DEF M328!asdf_arch_init_column_control, M328!Access, M328!set_bit, M328!clear_bit,
         Access
  <2>2. /\ Access("PORT", "COLCLK", 0) \in Accesses
        /\ Access("DDR", "COLCLK", 1) \in Accesses
        /\ Access("PORT", "COLMODE", 1) \in Accesses
        /\ Access("DDR", "COLMODE", 1) \in Accesses
        /\ Access("DDR", "COL", 0) \in Accesses
        /\ Access("PORT", "COL", 0) \in Accesses
    BY LineTypes, AccessTypes
  <2> QED
    BY <2>1, <2>2 DEF ToSet
<1> HIDE DEF strobe
<1>6. /\ M328!asdf_arch_init \in Seq(Accesses)
      /\ ToSet(M328!asdf_arch_init) =
           ToSet(M328!asdf_arch_init_ascii_output) \union ToSet(strobe) \union
           ToSet(M328!asdf_arch_init_leds) \union ToSet(M328!asdf_arch_init_row_outputs) \union
           ToSet(M328!asdf_arch_init_column_control)
  <2> DEFINE a == M328!asdf_arch_init_ascii_output \o strobe
             b == a \o M328!asdf_arch_init_leds
             c == b \o M328!asdf_arch_init_leds
             d == c \o M328!asdf_arch_init_row_outputs
             e == d \o M328!asdf_arch_init_column_control
  <2>1. M328!asdf_arch_init = e
    BY Zenon DEF M328!asdf_arch_init, strobe
  <2>2. /\ a \in Seq(Accesses)
        /\ ToSet(a) = ToSet(M328!asdf_arch_init_ascii_output) \union ToSet(strobe)
    BY <1>1, <1>2, ConcatSet
  <2> HIDE DEF a
  <2>3. b \in Seq(Accesses) /\ ToSet(b) = ToSet(a) \union ToSet(M328!asdf_arch_init_leds)
    BY <2>2, <1>3, ConcatSet
  <2> HIDE DEF b
  <2>4. c \in Seq(Accesses) /\ ToSet(c) = ToSet(b) \union ToSet(M328!asdf_arch_init_leds)
    BY <2>3, <1>3, ConcatSet
  <2> HIDE DEF c
  <2>5. d \in Seq(Accesses) /\ ToSet(d) = ToSet(c) \union ToSet(M328!asdf_arch_init_row_outputs)
    BY <2>4, <1>4, ConcatSet
  <2> HIDE DEF d
  <2>6. e \in Seq(Accesses) /\ ToSet(e) = ToSet(d) \union ToSet(M328!asdf_arch_init_column_control)
    BY <2>5, <1>5, ConcatSet
  <2> HIDE DEF e
  <2> QED
    BY <2>1, <2>2, <2>3, <2>4, <2>5, <2>6
<1>7. ASSUME NEW x \in ToSet(M328!asdf_arch_init)  PROVE InitAccess(x, StrobePolarity)
  BY <1>1, <1>2, <1>3, <1>4, <1>5, <1>6, TheLines, AccessFields DEF InitAccess
<1>8. Wiring(M328!asdf_arch_init, SerialWires)
  BY <1>1, <1>2, <1>3, <1>4, <1>5, <1>6, AccessFields DEF Wiring, SerialWires
<1> QED
  BY <1>1, <1>2, <1>3, <1>4, <1>5, <1>6, <1>7, <1>8 DEF InitShape, Leds

\* On the ATmega2560.
LEMMA Init2560 ==
  InitShape(M2560!asdf_arch_init, StrobePolarity) /\ Wiring(M2560!asdf_arch_init, PairWires)
<1> DEFINE strobe == IF StrobePolarity = "POSITIVE" THEN M2560!asdf_arch_set_pos_strobe
                                                   ELSE M2560!asdf_arch_set_neg_strobe
<1>1. /\ M2560!asdf_arch_init_ascii_output \in Seq(Accesses)
      /\ ToSet(M2560!asdf_arch_init_ascii_output) =
           {Access("ASCII", "ASCII", DataPolarity), Access("DDR", "ASCII", 1)}
  <2>1. M2560!asdf_arch_init_ascii_output =
          <<Access("ASCII", "ASCII", DataPolarity), Access("DDR", "ASCII", 1)>>
    BY Zenon DEF M2560!asdf_arch_init_ascii_output, M2560!Access, M2560!set_bit,
         M2560!clear_bit, Access
  <2>2. /\ Access("ASCII", "ASCII", DataPolarity) \in Accesses
        /\ Access("DDR", "ASCII", 1) \in Accesses
    BY LineTypes, AccessTypes
  <2> QED
    BY <2>1, <2>2, TupleSets
<1>2. /\ strobe \in Seq(Accesses)
      /\ ToSet(strobe) =
           {Access("PORT", "STROBE", StrobeBit(StrobePolarity)), Access("DDR", "STROBE", 1)}
  <2>1. strobe =
          <<Access("PORT", "STROBE", StrobeBit(StrobePolarity)), Access("DDR", "STROBE", 1)>>
    BY Zenon DEF M2560!asdf_arch_set_pos_strobe, M2560!asdf_arch_set_neg_strobe, StrobeBit,
             M2560!Access, M2560!set_bit, M2560!clear_bit, Access
  <2>2. /\ Access("PORT", "STROBE", StrobeBit(StrobePolarity)) \in Accesses
        /\ Access("DDR", "STROBE", 1) \in Accesses
    BY LineTypes, AccessTypes
  <2> HIDE DEF strobe
  <2> QED
    BY <2>1, <2>2, TupleSets
<1>3. /\ M2560!asdf_arch_init_leds \in Seq(Accesses)
      /\ ToSet(M2560!asdf_arch_init_leds) =
           {Access("DDR", "LED1", 1), Access("DDR", "LED2", 1), Access("DDR", "LED3", 1)}
  <2>1. M2560!asdf_arch_init_leds =
          <<Access("DDR", "LED1", 1), Access("DDR", "LED2", 1), Access("DDR", "LED3", 1)>>
    BY Zenon DEF M2560!asdf_arch_init_leds, M2560!Access, M2560!set_bit, M2560!clear_bit, Access
  <2>2. /\ Access("DDR", "LED1", 1) \in Accesses
        /\ Access("DDR", "LED2", 1) \in Accesses
        /\ Access("DDR", "LED3", 1) \in Accesses
    BY LineTypes, AccessTypes
  <2> QED
    BY <2>1, <2>2, TupleSets
<1>4. /\ M2560!asdf_arch_init_row_outputs \in Seq(Accesses)
      /\ ToSet(M2560!asdf_arch_init_row_outputs) =
           {Access("DDR", "HIROW", 1), Access("DDR", "LOROW", 1)}
  <2>1. M2560!asdf_arch_init_row_outputs =
          <<Access("DDR", "HIROW", 1), Access("DDR", "LOROW", 1)>>
    BY Zenon DEF M2560!asdf_arch_init_row_outputs, M2560!Access, M2560!set_bit,
         M2560!clear_bit, Access
  <2>2. /\ Access("DDR", "HIROW", 1) \in Accesses
        /\ Access("DDR", "LOROW", 1) \in Accesses
    BY LineTypes, AccessTypes
  <2> QED
    BY <2>1, <2>2, TupleSets
<1>5. /\ M2560!asdf_arch_init_columns \in Seq(Accesses)
      /\ ToSet(M2560!asdf_arch_init_columns) =
           {Access("DDR", "COLUMNS", 0), Access("PORT", "COLUMNS", 1)}
  <2>1. M2560!asdf_arch_init_columns =
          <<Access("DDR", "COLUMNS", 0), Access("PORT", "COLUMNS", 1)>>
    BY Zenon DEF M2560!asdf_arch_init_columns, M2560!Access, M2560!set_bit, M2560!clear_bit,
         Access
  <2>2. /\ Access("DDR", "COLUMNS", 0) \in Accesses
        /\ Access("PORT", "COLUMNS", 1) \in Accesses
    BY LineTypes, AccessTypes
  <2> QED
    BY <2>1, <2>2, TupleSets
<1> HIDE DEF strobe
<1>6. /\ M2560!asdf_arch_init \in Seq(Accesses)
      /\ ToSet(M2560!asdf_arch_init) =
           ToSet(M2560!asdf_arch_init_ascii_output) \union ToSet(strobe) \union
           ToSet(M2560!asdf_arch_init_leds) \union ToSet(M2560!asdf_arch_init_row_outputs) \union
           ToSet(M2560!asdf_arch_init_columns)
  <2> DEFINE a == M2560!asdf_arch_init_ascii_output \o strobe
             b == a \o M2560!asdf_arch_init_leds
             c == b \o M2560!asdf_arch_init_row_outputs
             d == c \o M2560!asdf_arch_init_columns
  <2>1. M2560!asdf_arch_init = d
    BY Zenon DEF M2560!asdf_arch_init, strobe
  <2>2. /\ a \in Seq(Accesses)
        /\ ToSet(a) = ToSet(M2560!asdf_arch_init_ascii_output) \union ToSet(strobe)
    BY <1>1, <1>2, ConcatSet
  <2> HIDE DEF a
  <2>3. b \in Seq(Accesses) /\ ToSet(b) = ToSet(a) \union ToSet(M2560!asdf_arch_init_leds)
    BY <2>2, <1>3, ConcatSet
  <2> HIDE DEF b
  <2>4. c \in Seq(Accesses) /\ ToSet(c) = ToSet(b) \union ToSet(M2560!asdf_arch_init_row_outputs)
    BY <2>3, <1>4, ConcatSet
  <2> HIDE DEF c
  <2>5. d \in Seq(Accesses) /\ ToSet(d) = ToSet(c) \union ToSet(M2560!asdf_arch_init_columns)
    BY <2>4, <1>5, ConcatSet
  <2> HIDE DEF d
  <2> QED
    BY <2>1, <2>2, <2>3, <2>4, <2>5
<1>7. ASSUME NEW x \in ToSet(M2560!asdf_arch_init)  PROVE InitAccess(x, StrobePolarity)
  BY <1>1, <1>2, <1>3, <1>4, <1>5, <1>6, TheLines, AccessFields DEF InitAccess
<1>8. Wiring(M2560!asdf_arch_init, PairWires)
  BY <1>1, <1>2, <1>3, <1>4, <1>5, <1>6, AccessFields DEF Wiring, PairWires
<1> QED
  BY <1>1, <1>2, <1>3, <1>4, <1>5, <1>6, <1>7, <1>8 DEF InitShape, Leds

\* On the PIC32CM of 28 pins.
LEMMA InitDip28 ==
  InitShape(Dip28!asdf_arch_init, "POSITIVE") /\ Wiring(Dip28!asdf_arch_init, SerialWires)
<1> DEFINE first ==
          <<Dip28!pin_dir_out("ROWS"), Dip28!pin_dir_out("ASCII"), Dip28!pin_clear("COLCLK"),
            Dip28!pin_dir_out("COLCLK"), Dip28!pin_set("COLMODE"), Dip28!pin_dir_out("COLMODE"),
            Dip28!pin_dir_in("COL")>>
<1>1. /\ first \in Seq(Accesses)
      /\ ToSet(first) =
           {Access("DDR", "ROWS", 1), Access("DDR", "ASCII", 1), Access("PORT", "COLCLK", 0),
            Access("DDR", "COLCLK", 1), Access("PORT", "COLMODE", 1),
            Access("DDR", "COLMODE", 1), Access("DDR", "COL", 0)}
  <2>1. first =
          <<Access("DDR", "ROWS", 1), Access("DDR", "ASCII", 1), Access("PORT", "COLCLK", 0),
            Access("DDR", "COLCLK", 1), Access("PORT", "COLMODE", 1),
            Access("DDR", "COLMODE", 1), Access("DDR", "COL", 0)>>
    BY Zenon DEF Dip28!Access, Dip28!pin_set, Dip28!pin_clear,
             Dip28!pin_dir_out, Dip28!pin_dir_in, Access
  <2>2. /\ Access("DDR", "ROWS", 1) \in Accesses
        /\ Access("DDR", "ASCII", 1) \in Accesses
        /\ Access("PORT", "COLCLK", 0) \in Accesses
        /\ Access("DDR", "COLCLK", 1) \in Accesses
        /\ Access("PORT", "COLMODE", 1) \in Accesses
        /\ Access("DDR", "COLMODE", 1) \in Accesses
        /\ Access("DDR", "COL", 0) \in Accesses
    BY LineTypes, AccessTypes
  <2> HIDE DEF first
  <2> QED
    BY <2>1, <2>2 DEF ToSet
<1>2. /\ Dip28!DriveOutputs \in Seq(Accesses)
      /\ ToSet(Dip28!DriveOutputs) =
           {Access("DDR", "LED1", 1), Access("DDR", "LED2", 1), Access("DDR", "LED3", 1),
            Access("DDR", "OUT1", 1), Access("DDR", "OUT2", 1), Access("DDR", "OUT3", 1)}
  <2>1. Dip28!DriveOutputs =
          <<Access("DDR", "LED1", 1), Access("DDR", "LED2", 1), Access("DDR", "LED3", 1),
            Access("DDR", "OUT1", 1), Access("DDR", "OUT2", 1), Access("DDR", "OUT3", 1)>>
    BY Zenon DEF Dip28!DriveOutputs, Dip28!Access, Dip28!pin_set, Dip28!pin_clear,
             Dip28!pin_dir_out, Dip28!pin_dir_in, Access
  <2>2. /\ Access("DDR", "LED1", 1) \in Accesses
        /\ Access("DDR", "LED2", 1) \in Accesses
        /\ Access("DDR", "LED3", 1) \in Accesses
        /\ Access("DDR", "OUT1", 1) \in Accesses
        /\ Access("DDR", "OUT2", 1) \in Accesses
        /\ Access("DDR", "OUT3", 1) \in Accesses
    BY LineTypes, AccessTypes
  <2> QED
    BY <2>1, <2>2 DEF ToSet
<1>3. /\ Dip28!asdf_arch_set_pos_strobe \in Seq(Accesses)
      /\ ToSet(Dip28!asdf_arch_set_pos_strobe) =
           {Access("PORT", "STROBE", 0), Access("DDR", "STROBE", 1)}
  <2>1. Dip28!asdf_arch_set_pos_strobe =
          <<Access("PORT", "STROBE", 0), Access("DDR", "STROBE", 1)>>
    BY Zenon DEF Dip28!asdf_arch_set_pos_strobe, Dip28!Access, Dip28!pin_set, Dip28!pin_clear,
             Dip28!pin_dir_out, Dip28!pin_dir_in, Access
  <2>2. /\ Access("PORT", "STROBE", 0) \in Accesses
        /\ Access("DDR", "STROBE", 1) \in Accesses
    BY LineTypes, AccessTypes
  <2> QED
    BY <2>1, <2>2, TupleSets
<1> HIDE DEF first
<1>4. /\ Dip28!asdf_arch_init \in Seq(Accesses)
      /\ ToSet(Dip28!asdf_arch_init) =
           ToSet(first) \union ToSet(Dip28!DriveOutputs) \union
           ToSet(Dip28!asdf_arch_set_pos_strobe)
  <2> DEFINE a == first \o Dip28!DriveOutputs
             b == a \o Dip28!asdf_arch_set_pos_strobe
  <2>1. Dip28!asdf_arch_init = b
    BY Zenon DEF Dip28!asdf_arch_init, first
  <2>2. /\ a \in Seq(Accesses)
        /\ ToSet(a) = ToSet(first) \union ToSet(Dip28!DriveOutputs)
    BY <1>1, <1>2, ConcatSet
  <2> HIDE DEF a
  <2>3. b \in Seq(Accesses) /\ ToSet(b) = ToSet(a) \union ToSet(Dip28!asdf_arch_set_pos_strobe)
    BY <2>2, <1>3, ConcatSet
  <2> HIDE DEF b
  <2> QED
    BY <2>1, <2>2, <2>3
<1>5. ASSUME NEW x \in ToSet(Dip28!asdf_arch_init)  PROVE InitAccess(x, "POSITIVE")
  BY <1>1, <1>2, <1>3, <1>4, TheLines, AccessFields DEF InitAccess, StrobeBit
<1>6. Wiring(Dip28!asdf_arch_init, SerialWires)
  BY <1>1, <1>2, <1>3, <1>4, AccessFields DEF Wiring, SerialWires
<1> QED
  BY <1>1, <1>2, <1>3, <1>4, <1>5, <1>6 DEF InitShape, Leds, StrobeBit

\* On the PIC32CM of 64 pins.
LEMMA InitQ64 ==
  InitShape(Q64!asdf_arch_init, "POSITIVE") /\ Wiring(Q64!asdf_arch_init, PlainWires)
<1> DEFINE first ==
          <<Q64!pin_dir_out("ROWS"), Q64!pin_dir_out("ASCII"), Q64!pin_dir_in("COLUMNS")>>
           osi ==
          <<Q64!Access("DESELECT", "ROWS", Q64!OSI_KBE_ROW),
            Q64!Access("DESELECT", "ROWS", Q64!OSI_RW_ROW)>>
<1>1. /\ first \in Seq(Accesses)
      /\ ToSet(first) =
           {Access("DDR", "ROWS", 1), Access("DDR", "ASCII", 1), Access("DDR", "COLUMNS", 0)}
  <2>1. first =
          <<Access("DDR", "ROWS", 1), Access("DDR", "ASCII", 1), Access("DDR", "COLUMNS", 0)>>
    BY Zenon DEF Q64!Access, Q64!pin_set, Q64!pin_clear,
             Q64!pin_dir_out, Q64!pin_dir_in, Access, Q64!OSI_KBE_ROW, Q64!OSI_RW_ROW
  <2>2. /\ Access("DDR", "ROWS", 1) \in Accesses
        /\ Access("DDR", "ASCII", 1) \in Accesses
        /\ Access("DDR", "COLUMNS", 0) \in Accesses
    BY LineTypes, AccessTypes
  <2> HIDE DEF first
  <2> QED
    BY <2>1, <2>2, TupleSets
<1>2. /\ Q64!DriveOutputs \in Seq(Accesses)
      /\ ToSet(Q64!DriveOutputs) =
           {Access("DDR", "LED1", 1), Access("DDR", "LED2", 1), Access("DDR", "LED3", 1),
            Access("DDR", "OUT1", 1), Access("DDR", "OUT2", 1), Access("DDR", "OUT3", 1)}
  <2>1. Q64!DriveOutputs =
          <<Access("DDR", "LED1", 1), Access("DDR", "LED2", 1), Access("DDR", "LED3", 1),
            Access("DDR", "OUT1", 1), Access("DDR", "OUT2", 1), Access("DDR", "OUT3", 1)>>
    BY Zenon DEF Q64!DriveOutputs, Q64!Access, Q64!pin_set, Q64!pin_clear,
             Q64!pin_dir_out, Q64!pin_dir_in, Access, Q64!OSI_KBE_ROW, Q64!OSI_RW_ROW
  <2>2. /\ Access("DDR", "LED1", 1) \in Accesses
        /\ Access("DDR", "LED2", 1) \in Accesses
        /\ Access("DDR", "LED3", 1) \in Accesses
        /\ Access("DDR", "OUT1", 1) \in Accesses
        /\ Access("DDR", "OUT2", 1) \in Accesses
        /\ Access("DDR", "OUT3", 1) \in Accesses
    BY LineTypes, AccessTypes
  <2> QED
    BY <2>1, <2>2 DEF ToSet
<1>3. /\ Q64!asdf_arch_set_pos_strobe \in Seq(Accesses)
      /\ ToSet(Q64!asdf_arch_set_pos_strobe) =
           {Access("PORT", "STROBE", 0), Access("DDR", "STROBE", 1)}
  <2>1. Q64!asdf_arch_set_pos_strobe =
          <<Access("PORT", "STROBE", 0), Access("DDR", "STROBE", 1)>>
    BY Zenon DEF Q64!asdf_arch_set_pos_strobe, Q64!Access, Q64!pin_set, Q64!pin_clear,
             Q64!pin_dir_out, Q64!pin_dir_in, Access, Q64!OSI_KBE_ROW, Q64!OSI_RW_ROW
  <2>2. /\ Access("PORT", "STROBE", 0) \in Accesses
        /\ Access("DDR", "STROBE", 1) \in Accesses
    BY LineTypes, AccessTypes
  <2> QED
    BY <2>1, <2>2, TupleSets
<1>4. /\ osi \in Seq(Accesses)
      /\ ToSet(osi) =
           {Access("DESELECT", "ROWS", 9), Access("DESELECT", "ROWS", 10)}
  <2>1. osi =
          <<Access("DESELECT", "ROWS", 9), Access("DESELECT", "ROWS", 10)>>
    BY Zenon DEF Q64!Access, Q64!pin_set, Q64!pin_clear,
             Q64!pin_dir_out, Q64!pin_dir_in, Access, Q64!OSI_KBE_ROW, Q64!OSI_RW_ROW
  <2>2. /\ Access("DESELECT", "ROWS", 9) \in Accesses
        /\ Access("DESELECT", "ROWS", 10) \in Accesses
    BY LineTypes, AccessTypes
  <2> HIDE DEF osi
  <2> QED
    BY <2>1, <2>2, TupleSets
<1> HIDE DEF first, osi
<1>5. /\ Q64!asdf_arch_init \in Seq(Accesses)
      /\ ToSet(Q64!asdf_arch_init) =
           ToSet(first) \union ToSet(Q64!DriveOutputs) \union ToSet(osi) \union
           ToSet(Q64!asdf_arch_set_pos_strobe)
  <2> DEFINE a == first \o Q64!DriveOutputs
             b == a \o osi
             c == b \o Q64!asdf_arch_set_pos_strobe
  <2>1. Q64!asdf_arch_init = c
    BY Zenon DEF Q64!asdf_arch_init, first, osi
  <2>2. /\ a \in Seq(Accesses)
        /\ ToSet(a) = ToSet(first) \union ToSet(Q64!DriveOutputs)
    BY <1>1, <1>2, ConcatSet
  <2> HIDE DEF a
  <2>3. b \in Seq(Accesses) /\ ToSet(b) = ToSet(a) \union ToSet(osi)
    BY <2>2, <1>4, ConcatSet
  <2> HIDE DEF b
  <2>4. c \in Seq(Accesses) /\ ToSet(c) = ToSet(b) \union ToSet(Q64!asdf_arch_set_pos_strobe)
    BY <2>3, <1>3, ConcatSet
  <2> HIDE DEF c
  <2> QED
    BY <2>1, <2>2, <2>3, <2>4
<1>6. ASSUME NEW x \in ToSet(Q64!asdf_arch_init)  PROVE InitAccess(x, "POSITIVE")
  BY <1>1, <1>2, <1>3, <1>4, <1>5, TheLines, AccessFields DEF InitAccess, StrobeBit
<1>7. Wiring(Q64!asdf_arch_init, PlainWires)
  BY <1>1, <1>2, <1>3, <1>4, <1>5, AccessFields DEF Wiring, PlainWires
<1> QED
  BY <1>1, <1>2, <1>3, <1>4, <1>5, <1>6, <1>7 DEF InitShape, Leds, StrobeBit

-----------------------------------------------------------------------------
(* What the routines do on whatever board.                                 *)

Idle(p) == <<Access("PORT", "STROBE", StrobeBit(p)), Access("DDR", "STROBE", 1)>>
Pulse(code) ==
  <<Access("ASCII", "ASCII", Encoded(code)),
    Access("PIN", "STROBE", 1), Access("PIN", "STROBE", 1)>>

\* The polarity that asdf_arch_init selects.
Default == IF board \in AvrBoards THEN StrobePolarity ELSE "POSITIVE"

\* asdf_arch_init makes the LEDs and the strobe outputs, with the strobe at the
\* idle level of the default polarity, disturbs no other latch of an output, and
\* wires what rows are read through.
LEMMA InitProgramShape ==
  ASSUME board \in Boards
  PROVE  InitShape(InitProgram, Default) /\ Wiring(InitProgram, Wires)
<1>1. CASE board = "atmega328p"
  BY <1>1, Init328 DEF InitProgram, Default, AvrBoards, Wires, SerialBoards
<1>2. CASE board = "atmega2560"
  BY <1>2, Init2560 DEF InitProgram, Default, AvrBoards, Wires, SerialBoards
<1>3. CASE board = "pic32cm_dip28"
  BY <1>3, InitDip28 DEF InitProgram, Default, AvrBoards, Wires, SerialBoards
<1>4. CASE board = "pic32cm_q64"
  BY <1>4, InitQ64 DEF InitProgram, Default, AvrBoards, Wires, SerialBoards
<1> QED
  BY <1>1, <1>2, <1>3, <1>4 DEF Boards, AvrBoards

\* A polarity is selected by setting the idle level, then driving the strobe.
LEMMA StrobeProgramShape ==
  ASSUME board \in Boards, NEW p \in Polarities
  PROVE  StrobeProgram(p) = Idle(p)
<1>1. CASE board = "atmega328p"
  BY <1>1
  DEF StrobeProgram, Idle, StrobeBit, Polarities, Access,
      M328!asdf_arch_set_pos_strobe, M328!asdf_arch_set_neg_strobe, M328!Access,
      M328!set_bit, M328!clear_bit
<1>2. CASE board = "atmega2560"
  BY <1>2
  DEF StrobeProgram, Idle, StrobeBit, Polarities, Access,
      M2560!asdf_arch_set_pos_strobe, M2560!asdf_arch_set_neg_strobe, M2560!Access,
      M2560!set_bit, M2560!clear_bit
<1>3. CASE board = "pic32cm_dip28"
  BY <1>3
  DEF StrobeProgram, Idle, StrobeBit, Polarities, Access,
      Dip28!asdf_arch_set_pos_strobe, Dip28!asdf_arch_set_neg_strobe, Dip28!Access,
      Dip28!pin_set, Dip28!pin_clear, Dip28!pin_dir_out
<1>4. CASE board = "pic32cm_q64"
  BY <1>4
  DEF StrobeProgram, Idle, StrobeBit, Polarities, Access,
      Q64!asdf_arch_set_pos_strobe, Q64!asdf_arch_set_neg_strobe, Q64!Access,
      Q64!pin_set, Q64!pin_clear, Q64!pin_dir_out
<1> QED
  BY <1>1, <1>2, <1>3, <1>4 DEF Boards, AvrBoards

\* A code is sent by setting the data, then toggling the strobe twice.
LEMMA SendProgramShape ==
  ASSUME board \in Boards, NEW code
  PROVE  SendProgram(code) = Pulse(code)
<1>1. CASE board = "atmega328p"
  BY <1>1
  DEF SendProgram, Pulse, Access, Encoded, M328!asdf_arch_send_code, M328!SendData, M328!Access,
      M328!pin_toggle, M328!Encoded
<1>2. CASE board = "atmega2560"
  BY <1>2
  DEF SendProgram, Pulse, Access, Encoded, M2560!asdf_arch_send_code, M2560!SendData,
         M2560!Access,
      M2560!pin_toggle, M2560!Encoded
<1>3. CASE board = "pic32cm_dip28"
  BY <1>3
  DEF SendProgram, Pulse, Access, Encoded, Dip28!asdf_arch_send_code, Dip28!SendData,
         Dip28!Access,
      Dip28!pin_toggle, Dip28!Encoded
<1>4. CASE board = "pic32cm_q64"
  BY <1>4
  DEF SendProgram, Pulse, Access, Encoded, Q64!asdf_arch_send_code, Q64!SendData, Q64!Access,
      Q64!pin_toggle, Q64!Encoded
<1> QED
  BY <1>1, <1>2, <1>3, <1>4 DEF Boards, AvrBoards
\* Reading a row disturbs no output, neither strobe nor data, and no direction.
Reads(a) ==
  a \in Accesses /\ a.line \notin Lines \union {"STROBE"} /\ a.op \notin {"PIN", "ASCII", "DDR"}
ReadShape(program) ==
  /\ program \in Seq(Accesses)
  /\ \A a \in ToSet(program) : Reads(a)

\* Short tuples of such accesses.
LEMMA ReadTuples ==
  /\ \A a : Reads(a) => ReadShape(<<a>>)
  /\ \A a, b : Reads(a) /\ Reads(b) => ReadShape(<<a, b>>)
  /\ \A a, b, c : Reads(a) /\ Reads(b) /\ Reads(c) => ReadShape(<<a, b, c>>)
<1>1. ASSUME NEW a, Reads(a) PROVE ReadShape(<<a>>)
  <2>1. a \in Accesses
    BY <1>1 DEF Reads
  <2>2. <<a>> \in Seq(Accesses) /\ ToSet(<<a>>) = {a}
    BY <2>1, TupleSets
  <2> QED
    BY <1>1, <2>2 DEF ReadShape
<1>2. ASSUME NEW a, NEW b, Reads(a), Reads(b) PROVE ReadShape(<<a, b>>)
  <2>1. a \in Accesses /\ b \in Accesses
    BY <1>2 DEF Reads
  <2>2. <<a, b>> \in Seq(Accesses) /\ ToSet(<<a, b>>) = {a, b}
    BY <2>1, TupleSets
  <2> QED
    BY <1>2, <2>2 DEF ReadShape
<1>3. ASSUME NEW a, NEW b, NEW c, Reads(a), Reads(b), Reads(c) PROVE ReadShape(<<a, b, c>>)
  <2>1. a \in Accesses /\ b \in Accesses /\ c \in Accesses
    BY <1>3 DEF Reads
  <2>2. <<a, b, c>> \in Seq(Accesses) /\ ToSet(<<a, b, c>>) = {a, b, c}
    BY <2>1, TupleSets
  <2> QED
    BY <1>3, <2>2 DEF ReadShape
<1> QED
  BY <1>1, <1>2, <1>3

\* The accesses that rows are read with are such accesses.
LEMMA ReadAccesses ==
  /\ \A line \in {"COLCLK", "COLMODE"}, value \in {0, 1} : Reads(Access("PORT", line, value))
  /\ \A line \in {"ROWS", "LOROW", "HIROW"}, row \in Rows : Reads(Access("ROWS", line, row))
  /\ \A n \in Cols : Reads(Access("BIT", "COL", n))
  /\ Reads(Access("COLUMNS", "COLUMNS", 0))
<1>1. \A op, line, value :
        /\ Access(op, line, value) \in Accesses
        /\ line \notin Lines \union {"STROBE"} /\ op \notin {"PIN", "ASCII", "DDR"}
        => Reads(Access(op, line, value))
  BY AccessFields DEF Reads
<1> QED
  BY <1>1, AccessTypes, LineTypes, TheLines

\* One such sequence after the other.
LEMMA ReadConcat ==
  ASSUME NEW s, NEW t, ReadShape(s), ReadShape(t)
  PROVE  ReadShape(s \o t)
BY ConcatSet DEF ReadShape

\* Two of them clock the columns in through a shift register.
SerialRead(row) ==
  (<<Access("ROWS", "ROWS", row % 16)>> \o LoadColumns) \o ShiftColumns

\* The shift register is loaded.
LEMMA LoadShape == ReadShape(LoadColumns)
<1> DEFINE load == <<clear_bit("PORT", "COLMODE")>>
           shift == <<set_bit("PORT", "COLMODE")>>
<1>1. load = <<Access("PORT", "COLMODE", 0)>> /\ shift = <<Access("PORT", "COLMODE", 1)>>
  BY Zenon DEF set_bit, clear_bit
<1>2. ClockPulse = <<Access("PORT", "COLCLK", 1), Access("PORT", "COLCLK", 0)>>
  BY Zenon DEF ClockPulse, set_bit, clear_bit
<1>3. LoadColumns = (load \o ClockPulse) \o shift
  BY Zenon DEF LoadColumns
<1>4. ReadShape(ClockPulse)
  BY <1>2, ReadAccesses, ReadTuples
<1> HIDE DEF load, shift
<1>5. ReadShape(load) /\ ReadShape(shift)
  BY <1>1, ReadAccesses, ReadTuples
<1>6. ReadShape(load \o ClockPulse)
  BY <1>4, <1>5, ReadConcat
<1>7. ReadShape((load \o ClockPulse) \o shift)
  BY <1>5, <1>6, ReadConcat
<1> QED
  BY <1>3, <1>7

\* The bits are read, and shifted.
LEMMA ShiftShape == ReadShape(ShiftColumns)
<1>1. ASSUME NEW n \in 1..(3 * MaxCols)
      PROVE  /\ n % 3 \in {0, 1, 2}
             /\ n % 3 = 1 => n \div 3 \in Cols
  BY PinsAssumption DEF Cols
<1> DEFINE Step(n) == CASE n % 3 = 1 -> Access("BIT", "COL", n \div 3)
                        [] n % 3 = 2 -> set_bit("PORT", "COLCLK")
                        [] n % 3 = 0 -> clear_bit("PORT", "COLCLK")
<1>2. ASSUME NEW n \in 1..(3 * MaxCols)
      PROVE  \/ n % 3 = 1 /\ Step(n) = Access("BIT", "COL", n \div 3)
             \/ Step(n) = Access("PORT", "COLCLK", 1)
             \/ Step(n) = Access("PORT", "COLCLK", 0)
  BY <1>1 DEF set_bit, clear_bit
<1>3. ASSUME NEW n \in 1..(3 * MaxCols)
      PROVE Reads(Step(n)) /\ Step(n) \in Accesses
  <2> HIDE DEF Step
  <2> QED
    BY <1>1, <1>2, ReadAccesses DEF Reads
<1>4. ShiftColumns = [n \in 1..(3 * MaxCols) |-> Step(n)]
  BY Zenon DEF ShiftColumns
<1> HIDE DEF Step
<1>5. 3 * MaxCols \in Nat
  BY PinsAssumption
<1>6. /\ ShiftColumns \in Seq(Accesses)
      /\ ToSet(ShiftColumns) = {Step(n) : n \in 1..(3 * MaxCols)}
  <2> DEFINE k == 3 * MaxCols
  <2>1. k \in Nat
    BY <1>5
  <2> HIDE DEF k
  <2>2. [n \in 1..k |-> Step(n)] \in Seq(Accesses)
    BY <1>3, <2>1, IsASeq DEF k
  <2>3. ToSet([n \in 1..k |-> Step(n)]) = {Step(n) : n \in 1..k}
    BY <2>1 DEF ToSet
  <2> QED
    BY <1>4, <2>2, <2>3, Zenon DEF k
<1> QED
  BY <1>3, <1>6 DEF ReadShape

\* A row is read through the shift register.
LEMMA SerialReadShape ==
  ASSUME NEW row \in Rows
  PROVE  ReadShape(SerialRead(row))
<1> DEFINE first == <<Access("ROWS", "ROWS", row % 16)>>
<1>1. row % 16 \in Rows
  BY DEF Rows
<1>2. ReadShape(first)
  BY <1>1, ReadAccesses, ReadTuples
<1> HIDE DEF first
<1>3. ReadShape((first \o LoadColumns) \o ShiftColumns)
  BY <1>2, LoadShape, ShiftShape, ReadConcat, Zenon
<1> QED
  BY <1>3, Zenon DEF SerialRead, first

\* Where columns have pins of their own, the rows are selected, then they are read.
Columns == Access("COLUMNS", "COLUMNS", 0)
PairRead(row) == <<Access("ROWS", "LOROW", row), Access("ROWS", "HIROW", row), Columns>>
PlainRead(row) == <<Access("ROWS", "ROWS", row), Columns>>

\* How each board reads a row.
LEMMA ReadPrograms ==
  ASSUME board \in Boards, NEW row
  PROVE  /\ board \in SerialBoards => ReadProgram(row) = SerialRead(row)
         /\ board = "atmega2560" => ReadProgram(row) = PairRead(row)
         /\ board = "pic32cm_q64" => ReadProgram(row) = PlainRead(row)
<1>1. CASE board = "atmega328p"
  <2>1. /\ \A op, line, value : M328!Access(op, line, value) = Access(op, line, value)
        /\ \A r, line : M328!set_bit(r, line) = set_bit(r, line)
        /\ \A r, line : M328!clear_bit(r, line) = clear_bit(r, line)
    BY Zenon DEF M328!Access, Access, M328!set_bit, M328!clear_bit, set_bit, clear_bit
  <2>2. M328!ClockPulse = ClockPulse
    BY <2>1, Zenon DEF M328!ClockPulse, ClockPulse
  <2>3. M328!LoadColumns = LoadColumns
    BY <2>1, <2>2, Zenon DEF M328!LoadColumns, LoadColumns
  <2>4. M328!ShiftColumns = ShiftColumns
    BY Zenon
    DEF M328!ShiftColumns, ShiftColumns, M328!Access, Access, M328!set_bit, set_bit,
        M328!clear_bit, clear_bit
  <2>5. M328!asdf_arch_read_row(row) = SerialRead(row)
    BY <2>1, <2>3, <2>4, Zenon DEF M328!asdf_arch_read_row, M328!RowNumber, SerialRead
  <2> QED
    BY <1>1, <2>5 DEF ReadProgram
<1>2. CASE board = "atmega2560"
  <2>1. M2560!asdf_arch_read_row(row) = PairRead(row)
    BY Zenon DEF M2560!asdf_arch_read_row, M2560!Access, Access, PairRead, Columns
  <2> QED
    BY <1>2, <2>1 DEF ReadProgram, SerialBoards
<1>3. CASE board = "pic32cm_dip28"
  <2>1. /\ \A op, line, value : Dip28!Access(op, line, value) = Access(op, line, value)
        /\ \A r, line : Dip28!set_bit(r, line) = set_bit(r, line)
        /\ \A r, line : Dip28!clear_bit(r, line) = clear_bit(r, line)
    BY Zenon DEF Dip28!Access, Access, Dip28!set_bit, Dip28!clear_bit, set_bit, clear_bit
  <2>2. Dip28!ClockPulse = ClockPulse
    BY <2>1, Zenon DEF Dip28!ClockPulse, ClockPulse
  <2>3. Dip28!LoadColumns = LoadColumns
    BY <2>1, <2>2, Zenon DEF Dip28!LoadColumns, LoadColumns
  <2>4. Dip28!ShiftColumns = ShiftColumns
    BY Zenon
    DEF Dip28!ShiftColumns, ShiftColumns, Dip28!Access, Access, Dip28!set_bit, set_bit,
        Dip28!clear_bit, clear_bit
  <2>5. Dip28!asdf_arch_read_row(row) = SerialRead(row)
    BY <2>1, <2>3, <2>4, Zenon DEF Dip28!asdf_arch_read_row, Dip28!RowNumber, SerialRead
  <2> QED
    BY <1>3, <2>5 DEF ReadProgram
<1>4. CASE board = "pic32cm_q64"
  <2>1. Q64!asdf_arch_read_row(row) = PlainRead(row)
    BY Zenon DEF Q64!asdf_arch_read_row, Q64!Access, Access, PlainRead, Columns
  <2> QED
    BY <1>4, <2>1 DEF ReadProgram, SerialBoards
<1> QED
  BY <1>1, <1>2, <1>3, <1>4 DEF Boards, AvrBoards

\* A row is read on every board.
LEMMA ReadProgramShape ==
  ASSUME board \in Boards, NEW row \in Rows
  PROVE  ReadShape(ReadProgram(row))
<1>1. board \in SerialBoards \/ board = "atmega2560" \/ board = "pic32cm_q64"
  BY DEF Boards, AvrBoards, SerialBoards
<1>2. ReadShape(PairRead(row)) /\ ReadShape(PlainRead(row))
  BY ReadAccesses, ReadTuples DEF PairRead, PlainRead, Columns
<1> QED
  BY <1>1, <1>2, ReadPrograms, SerialReadShape

-----------------------------------------------------------------------------
(* What the handlers of the outputs do.                                    *)

Drives(line, bit) == <<Access("PORT", line, bit), Access("DDR", line, 1)>>
Lights(line, bit) == <<Access("PORT", line, bit)>>
Releases(line, program) ==
  \/ program = <<Access("DDR", line, 0)>>
  \/ \E bit \in {0, 1} : program = <<Access("DDR", line, 0), Access("PORT", line, bit)>>
OpenHi(line, program, value) ==
  IF value = 1 THEN Releases(line, program) ELSE program = Drives(line, 0)
OpenLo(line, program, value) ==
  IF value = 1 THEN program = Drives(line, 1) ELSE Releases(line, program)
Bit(line, value, inverted) == IF line \in inverted THEN 1 - value ELSE value

\* The handlers h of a board that inverts some lines, in the order of the table.
TableShape(h, value, inverted) ==
  /\ h[1] = Drives("OUT1", value)
  /\ OpenHi("OUT1", h[2], value) /\ OpenLo("OUT1", h[3], value)
  /\ h[4] = Drives("OUT2", Bit("OUT2", value, inverted))
  /\ IF "OUT2" \in inverted THEN h[5] = <<>> /\ h[6] = <<>>
     ELSE OpenHi("OUT2", h[5], value) /\ OpenLo("OUT2", h[6], value)
  /\ h[7] = Drives("OUT3", value)
  /\ OpenHi("OUT3", h[8], value) /\ OpenLo("OUT3", h[9], value)
  /\ h[10] = Lights("LED1", Bit("LED1", value, inverted))
  /\ h[11] = Lights("LED2", Bit("LED2", value, inverted))
  /\ h[12] = Lights("LED3", Bit("LED3", value, inverted))

\* On the ATmega328P.
LEMMA Handlers328 ==
  ASSUME NEW value \in Values
  PROVE  TableShape(M328!Handlers(value), value, M328!Inverted)
<1>1. value = 0 \/ value = 1
  BY DEF Values
<1>2. /\ M328!Handlers(value)[1] = M328!asdf_arch_out1_set(value)
      /\ M328!Handlers(value)[2] = M328!asdf_arch_out1_open_hi_set(value)
      /\ M328!Handlers(value)[3] = M328!asdf_arch_out1_open_lo_set(value)
      /\ M328!Handlers(value)[4] = M328!asdf_arch_out2_set(value)
      /\ M328!Handlers(value)[5] = M328!asdf_arch_out2_open_hi_set(value)
      /\ M328!Handlers(value)[6] = M328!asdf_arch_out2_open_lo_set(value)
      /\ M328!Handlers(value)[7] = M328!asdf_arch_out3_set(value)
      /\ M328!Handlers(value)[8] = M328!asdf_arch_out3_open_hi_set(value)
      /\ M328!Handlers(value)[9] = M328!asdf_arch_out3_open_lo_set(value)
      /\ M328!Handlers(value)[10] = M328!asdf_arch_led1_set(value)
      /\ M328!Handlers(value)[11] = M328!asdf_arch_led2_set(value)
      /\ M328!Handlers(value)[12] = M328!asdf_arch_led3_set(value)
  BY DEF M328!Handlers
<1>3. M328!asdf_arch_out1_set(value) = Drives("OUT1", value)
  BY <1>1, Zenon DEF M328!asdf_arch_out1_set, M328!asdf_arch_null_output, Drives, M328!Access,
         Access,
         M328!set_bit, M328!clear_bit
<1>4. OpenHi("OUT1", M328!asdf_arch_out1_open_hi_set(value), value)
  BY Zenon DEF M328!asdf_arch_out1_open_hi_set, M328!asdf_arch_null_output, OpenHi, Releases,
         Drives, M328!Access, Access,
         M328!set_bit, M328!clear_bit
<1>5. OpenLo("OUT1", M328!asdf_arch_out1_open_lo_set(value), value)
  BY Zenon DEF M328!asdf_arch_out1_open_lo_set, M328!asdf_arch_null_output, OpenLo, Releases,
         Drives, M328!Access, Access,
         M328!set_bit, M328!clear_bit
<1>6. M328!asdf_arch_out2_set(value) = Drives("OUT2", Bit("OUT2", value, M328!Inverted))
  BY Zenon DEF M328!asdf_arch_out2_set, Drives, Bit, M328!Inverted, M328!Access, Access,
         M328!set_bit, M328!clear_bit
<1>7. M328!asdf_arch_out2_open_hi_set(value) = <<>> /\ M328!asdf_arch_out2_open_lo_set(value) = <<>>
  BY Zenon DEF M328!asdf_arch_out2_open_hi_set, M328!asdf_arch_out2_open_lo_set,
         M328!asdf_arch_null_output
<1>8. M328!asdf_arch_out3_set(value) = Drives("OUT3", value)
  BY <1>1, Zenon DEF M328!asdf_arch_out3_set, M328!asdf_arch_null_output, Drives, M328!Access,
         Access,
         M328!set_bit, M328!clear_bit
<1>9. OpenHi("OUT3", M328!asdf_arch_out3_open_hi_set(value), value)
  BY Zenon DEF M328!asdf_arch_out3_open_hi_set, M328!asdf_arch_null_output, OpenHi, Releases,
         Drives, M328!Access, Access,
         M328!set_bit, M328!clear_bit
<1>10. OpenLo("OUT3", M328!asdf_arch_out3_open_lo_set(value), value)
  BY Zenon DEF M328!asdf_arch_out3_open_lo_set, M328!asdf_arch_null_output, OpenLo, Releases,
         Drives, M328!Access, Access,
         M328!set_bit, M328!clear_bit
<1>11. "OUT2" \in M328!Inverted
  BY DEF M328!Inverted
<1>12. M328!asdf_arch_led1_set(value) = Lights("LED1", Bit("LED1", value, M328!Inverted))
  BY <1>1 DEF M328!asdf_arch_led1_set, Lights, Bit, M328!Inverted, M328!Access, Access,
         M328!set_bit, M328!clear_bit
<1>13. M328!asdf_arch_led2_set(value) = Lights("LED2", Bit("LED2", value, M328!Inverted))
  BY <1>1 DEF M328!asdf_arch_led2_set, Lights, Bit, M328!Inverted, M328!Access, Access,
         M328!set_bit, M328!clear_bit
<1>14. M328!asdf_arch_led3_set(value) = Lights("LED3", Bit("LED3", value, M328!Inverted))
  BY <1>1 DEF M328!asdf_arch_led3_set, Lights, Bit, M328!Inverted, M328!Access, Access,
         M328!set_bit, M328!clear_bit
<1> QED
  BY <1>2, <1>3, <1>4, <1>5, <1>6, <1>7, <1>8, <1>9, <1>10, <1>11, <1>12, <1>13,
         <1>14 DEF TableShape

\* On the ATmega2560.
LEMMA Handlers2560 ==
  ASSUME NEW value \in Values
  PROVE  TableShape(M2560!Handlers(value), value, M2560!Inverted)
<1>1. value = 0 \/ value = 1
  BY DEF Values
<1>2. /\ M2560!Handlers(value)[1] = M2560!asdf_arch_out1_set(value)
      /\ M2560!Handlers(value)[2] = M2560!asdf_arch_out1_open_hi_set(value)
      /\ M2560!Handlers(value)[3] = M2560!asdf_arch_out1_open_lo_set(value)
      /\ M2560!Handlers(value)[4] = M2560!asdf_arch_out2_set(value)
      /\ M2560!Handlers(value)[5] = M2560!asdf_arch_out2_open_hi_set(value)
      /\ M2560!Handlers(value)[6] = M2560!asdf_arch_out2_open_lo_set(value)
      /\ M2560!Handlers(value)[7] = M2560!asdf_arch_out3_set(value)
      /\ M2560!Handlers(value)[8] = M2560!asdf_arch_out3_open_hi_set(value)
      /\ M2560!Handlers(value)[9] = M2560!asdf_arch_out3_open_lo_set(value)
      /\ M2560!Handlers(value)[10] = M2560!asdf_arch_led1_set(value)
      /\ M2560!Handlers(value)[11] = M2560!asdf_arch_led2_set(value)
      /\ M2560!Handlers(value)[12] = M2560!asdf_arch_led3_set(value)
  BY DEF M2560!Handlers
<1>3. M2560!asdf_arch_out1_set(value) = Drives("OUT1", value)
  BY <1>1, Zenon DEF M2560!asdf_arch_out1_set, Drives, M2560!Access, Access,
         M2560!set_bit, M2560!clear_bit
<1>4. OpenHi("OUT1", M2560!asdf_arch_out1_open_hi_set(value), value)
  BY Zenon DEF M2560!asdf_arch_out1_open_hi_set, OpenHi, Releases, Drives, M2560!Access, Access,
         M2560!set_bit, M2560!clear_bit
<1>5. OpenLo("OUT1", M2560!asdf_arch_out1_open_lo_set(value), value)
  BY Zenon DEF M2560!asdf_arch_out1_open_lo_set, OpenLo, Releases, Drives, M2560!Access, Access,
         M2560!set_bit, M2560!clear_bit
<1>6. M2560!asdf_arch_out2_set(value) = Drives("OUT2", value)
  BY <1>1, Zenon DEF M2560!asdf_arch_out2_set, Drives, M2560!Access, Access,
         M2560!set_bit, M2560!clear_bit
<1>7. OpenHi("OUT2", M2560!asdf_arch_out2_open_hi_set(value), value)
  BY Zenon DEF M2560!asdf_arch_out2_open_hi_set, OpenHi, Releases, Drives, M2560!Access, Access,
         M2560!set_bit, M2560!clear_bit
<1>8. OpenLo("OUT2", M2560!asdf_arch_out2_open_lo_set(value), value)
  BY Zenon DEF M2560!asdf_arch_out2_open_lo_set, OpenLo, Releases, Drives, M2560!Access, Access,
         M2560!set_bit, M2560!clear_bit
<1>9. M2560!asdf_arch_out3_set(value) = Drives("OUT3", value)
  BY <1>1, Zenon DEF M2560!asdf_arch_out3_set, Drives, M2560!Access, Access,
         M2560!set_bit, M2560!clear_bit
<1>10. OpenHi("OUT3", M2560!asdf_arch_out3_open_hi_set(value), value)
  BY Zenon DEF M2560!asdf_arch_out3_open_hi_set, OpenHi, Releases, Drives, M2560!Access, Access,
         M2560!set_bit, M2560!clear_bit
<1>11. OpenLo("OUT3", M2560!asdf_arch_out3_open_lo_set(value), value)
  BY Zenon DEF M2560!asdf_arch_out3_open_lo_set, OpenLo, Releases, Drives, M2560!Access, Access,
         M2560!set_bit, M2560!clear_bit
<1>12. "OUT2" \notin M2560!Inverted
  BY DEF M2560!Inverted
<1>13. M2560!asdf_arch_led1_set(value) = Lights("LED1", Bit("LED1", value, M2560!Inverted))
  BY <1>1 DEF M2560!asdf_arch_led1_set, Lights, Bit, M2560!Inverted, M2560!Access, Access,
         M2560!set_bit, M2560!clear_bit
<1>14. M2560!asdf_arch_led2_set(value) = Lights("LED2", Bit("LED2", value, M2560!Inverted))
  BY <1>1 DEF M2560!asdf_arch_led2_set, Lights, Bit, M2560!Inverted, M2560!Access, Access,
         M2560!set_bit, M2560!clear_bit
<1>15. M2560!asdf_arch_led3_set(value) = Lights("LED3", Bit("LED3", value, M2560!Inverted))
  BY <1>1 DEF M2560!asdf_arch_led3_set, Lights, Bit, M2560!Inverted, M2560!Access, Access,
         M2560!set_bit, M2560!clear_bit
<1> QED
  BY <1>2, <1>3, <1>4, <1>5, <1>6, <1>7, <1>8, <1>9, <1>10, <1>11, <1>12, <1>13, <1>14,
         <1>15 DEF TableShape, Bit

\* On the PIC32CM of 28 pins.
LEMMA HandlersDip28 ==
  ASSUME NEW value \in Values
  PROVE  TableShape(Dip28!Handlers(value), value, Dip28!Inverted)
<1>1. value = 0 \/ value = 1
  BY DEF Values
<1>2. /\ Dip28!Handlers(value)[1] = Dip28!asdf_arch_out1_set(value)
      /\ Dip28!Handlers(value)[2] = Dip28!asdf_arch_out1_open_hi_set(value)
      /\ Dip28!Handlers(value)[3] = Dip28!asdf_arch_out1_open_lo_set(value)
      /\ Dip28!Handlers(value)[4] = Dip28!asdf_arch_out2_set(value)
      /\ Dip28!Handlers(value)[5] = Dip28!asdf_arch_out2_open_hi_set(value)
      /\ Dip28!Handlers(value)[6] = Dip28!asdf_arch_out2_open_lo_set(value)
      /\ Dip28!Handlers(value)[7] = Dip28!asdf_arch_out3_set(value)
      /\ Dip28!Handlers(value)[8] = Dip28!asdf_arch_out3_open_hi_set(value)
      /\ Dip28!Handlers(value)[9] = Dip28!asdf_arch_out3_open_lo_set(value)
      /\ Dip28!Handlers(value)[10] = Dip28!asdf_arch_led1_set(value)
      /\ Dip28!Handlers(value)[11] = Dip28!asdf_arch_led2_set(value)
      /\ Dip28!Handlers(value)[12] = Dip28!asdf_arch_led3_set(value)
  BY DEF Dip28!Handlers
<1>3. Dip28!asdf_arch_out1_set(value) = Drives("OUT1", value)
  BY <1>1, Zenon DEF Dip28!asdf_arch_out1_set, Dip28!out_set, Dip28!out_open_hi,
         Dip28!out_open_lo, Drives, Dip28!Access, Access,
         Dip28!pin_set, Dip28!pin_clear, Dip28!pin_dir_out, Dip28!pin_dir_in
<1>4. OpenHi("OUT1", Dip28!asdf_arch_out1_open_hi_set(value), value)
  BY Zenon DEF Dip28!asdf_arch_out1_open_hi_set, Dip28!out_set, Dip28!out_open_hi,
         Dip28!out_open_lo, OpenHi, Releases, Drives, Dip28!Access, Access,
         Dip28!pin_set, Dip28!pin_clear, Dip28!pin_dir_out, Dip28!pin_dir_in
<1>5. OpenLo("OUT1", Dip28!asdf_arch_out1_open_lo_set(value), value)
  BY Zenon DEF Dip28!asdf_arch_out1_open_lo_set, Dip28!out_set, Dip28!out_open_hi,
         Dip28!out_open_lo, OpenLo, Releases, Drives, Dip28!Access, Access,
         Dip28!pin_set, Dip28!pin_clear, Dip28!pin_dir_out, Dip28!pin_dir_in
<1>6. Dip28!asdf_arch_out2_set(value) = Drives("OUT2", value)
  BY <1>1, Zenon DEF Dip28!asdf_arch_out2_set, Dip28!out_set, Dip28!out_open_hi,
         Dip28!out_open_lo, Drives, Dip28!Access, Access,
         Dip28!pin_set, Dip28!pin_clear, Dip28!pin_dir_out, Dip28!pin_dir_in
<1>7. OpenHi("OUT2", Dip28!asdf_arch_out2_open_hi_set(value), value)
  BY Zenon DEF Dip28!asdf_arch_out2_open_hi_set, Dip28!out_set, Dip28!out_open_hi,
         Dip28!out_open_lo, OpenHi, Releases, Drives, Dip28!Access, Access,
         Dip28!pin_set, Dip28!pin_clear, Dip28!pin_dir_out, Dip28!pin_dir_in
<1>8. OpenLo("OUT2", Dip28!asdf_arch_out2_open_lo_set(value), value)
  BY Zenon DEF Dip28!asdf_arch_out2_open_lo_set, Dip28!out_set, Dip28!out_open_hi,
         Dip28!out_open_lo, OpenLo, Releases, Drives, Dip28!Access, Access,
         Dip28!pin_set, Dip28!pin_clear, Dip28!pin_dir_out, Dip28!pin_dir_in
<1>9. Dip28!asdf_arch_out3_set(value) = Drives("OUT3", value)
  BY <1>1, Zenon DEF Dip28!asdf_arch_out3_set, Dip28!out_set, Dip28!out_open_hi,
         Dip28!out_open_lo, Drives, Dip28!Access, Access,
         Dip28!pin_set, Dip28!pin_clear, Dip28!pin_dir_out, Dip28!pin_dir_in
<1>10. OpenHi("OUT3", Dip28!asdf_arch_out3_open_hi_set(value), value)
  BY Zenon DEF Dip28!asdf_arch_out3_open_hi_set, Dip28!out_set, Dip28!out_open_hi,
         Dip28!out_open_lo, OpenHi, Releases, Drives, Dip28!Access, Access,
         Dip28!pin_set, Dip28!pin_clear, Dip28!pin_dir_out, Dip28!pin_dir_in
<1>11. OpenLo("OUT3", Dip28!asdf_arch_out3_open_lo_set(value), value)
  BY Zenon DEF Dip28!asdf_arch_out3_open_lo_set, Dip28!out_set, Dip28!out_open_hi,
         Dip28!out_open_lo, OpenLo, Releases, Drives, Dip28!Access, Access,
         Dip28!pin_set, Dip28!pin_clear, Dip28!pin_dir_out, Dip28!pin_dir_in
<1>12. "OUT2" \notin Dip28!Inverted
  BY DEF Dip28!Inverted
<1>13. Dip28!asdf_arch_led1_set(value) = Lights("LED1", Bit("LED1", value, Dip28!Inverted))
  BY <1>1 DEF Dip28!asdf_arch_led1_set, Lights, Bit, Dip28!Inverted, Dip28!Access, Access,
         Dip28!pin_set, Dip28!pin_clear, Dip28!pin_dir_out, Dip28!pin_dir_in
<1>14. Dip28!asdf_arch_led2_set(value) = Lights("LED2", Bit("LED2", value, Dip28!Inverted))
  BY <1>1 DEF Dip28!asdf_arch_led2_set, Lights, Bit, Dip28!Inverted, Dip28!Access, Access,
         Dip28!pin_set, Dip28!pin_clear, Dip28!pin_dir_out, Dip28!pin_dir_in
<1>15. Dip28!asdf_arch_led3_set(value) = Lights("LED3", Bit("LED3", value, Dip28!Inverted))
  BY <1>1 DEF Dip28!asdf_arch_led3_set, Lights, Bit, Dip28!Inverted, Dip28!Access, Access,
         Dip28!pin_set, Dip28!pin_clear, Dip28!pin_dir_out, Dip28!pin_dir_in
<1> QED
  BY <1>2, <1>3, <1>4, <1>5, <1>6, <1>7, <1>8, <1>9, <1>10, <1>11, <1>12, <1>13, <1>14,
         <1>15 DEF TableShape, Bit

\* On the PIC32CM of 64 pins.
LEMMA HandlersQ64 ==
  ASSUME NEW value \in Values
  PROVE  TableShape(Q64!Handlers(value), value, Q64!Inverted)
<1>1. value = 0 \/ value = 1
  BY DEF Values
<1>2. /\ Q64!Handlers(value)[1] = Q64!asdf_arch_out1_set(value)
      /\ Q64!Handlers(value)[2] = Q64!asdf_arch_out1_open_hi_set(value)
      /\ Q64!Handlers(value)[3] = Q64!asdf_arch_out1_open_lo_set(value)
      /\ Q64!Handlers(value)[4] = Q64!asdf_arch_out2_set(value)
      /\ Q64!Handlers(value)[5] = Q64!asdf_arch_out2_open_hi_set(value)
      /\ Q64!Handlers(value)[6] = Q64!asdf_arch_out2_open_lo_set(value)
      /\ Q64!Handlers(value)[7] = Q64!asdf_arch_out3_set(value)
      /\ Q64!Handlers(value)[8] = Q64!asdf_arch_out3_open_hi_set(value)
      /\ Q64!Handlers(value)[9] = Q64!asdf_arch_out3_open_lo_set(value)
      /\ Q64!Handlers(value)[10] = Q64!asdf_arch_led1_set(value)
      /\ Q64!Handlers(value)[11] = Q64!asdf_arch_led2_set(value)
      /\ Q64!Handlers(value)[12] = Q64!asdf_arch_led3_set(value)
  BY DEF Q64!Handlers
<1>3. Q64!asdf_arch_out1_set(value) = Drives("OUT1", value)
  BY <1>1, Zenon DEF Q64!asdf_arch_out1_set, Q64!out_set, Q64!out_open_hi, Q64!out_open_lo,
         Drives, Q64!Access, Access,
         Q64!pin_set, Q64!pin_clear, Q64!pin_dir_out, Q64!pin_dir_in
<1>4. OpenHi("OUT1", Q64!asdf_arch_out1_open_hi_set(value), value)
  BY Zenon DEF Q64!asdf_arch_out1_open_hi_set, Q64!out_set, Q64!out_open_hi, Q64!out_open_lo,
         OpenHi, Releases, Drives, Q64!Access, Access,
         Q64!pin_set, Q64!pin_clear, Q64!pin_dir_out, Q64!pin_dir_in
<1>5. OpenLo("OUT1", Q64!asdf_arch_out1_open_lo_set(value), value)
  BY Zenon DEF Q64!asdf_arch_out1_open_lo_set, Q64!out_set, Q64!out_open_hi, Q64!out_open_lo,
         OpenLo, Releases, Drives, Q64!Access, Access,
         Q64!pin_set, Q64!pin_clear, Q64!pin_dir_out, Q64!pin_dir_in
<1>6. Q64!asdf_arch_out2_set(value) = Drives("OUT2", value)
  BY <1>1, Zenon DEF Q64!asdf_arch_out2_set, Q64!out_set, Q64!out_open_hi, Q64!out_open_lo,
         Drives, Q64!Access, Access,
         Q64!pin_set, Q64!pin_clear, Q64!pin_dir_out, Q64!pin_dir_in
<1>7. OpenHi("OUT2", Q64!asdf_arch_out2_open_hi_set(value), value)
  BY Zenon DEF Q64!asdf_arch_out2_open_hi_set, Q64!out_set, Q64!out_open_hi, Q64!out_open_lo,
         OpenHi, Releases, Drives, Q64!Access, Access,
         Q64!pin_set, Q64!pin_clear, Q64!pin_dir_out, Q64!pin_dir_in
<1>8. OpenLo("OUT2", Q64!asdf_arch_out2_open_lo_set(value), value)
  BY Zenon DEF Q64!asdf_arch_out2_open_lo_set, Q64!out_set, Q64!out_open_hi, Q64!out_open_lo,
         OpenLo, Releases, Drives, Q64!Access, Access,
         Q64!pin_set, Q64!pin_clear, Q64!pin_dir_out, Q64!pin_dir_in
<1>9. Q64!asdf_arch_out3_set(value) = Drives("OUT3", value)
  BY <1>1, Zenon DEF Q64!asdf_arch_out3_set, Q64!out_set, Q64!out_open_hi, Q64!out_open_lo,
         Drives, Q64!Access, Access,
         Q64!pin_set, Q64!pin_clear, Q64!pin_dir_out, Q64!pin_dir_in
<1>10. OpenHi("OUT3", Q64!asdf_arch_out3_open_hi_set(value), value)
  BY Zenon DEF Q64!asdf_arch_out3_open_hi_set, Q64!out_set, Q64!out_open_hi, Q64!out_open_lo,
         OpenHi, Releases, Drives, Q64!Access, Access,
         Q64!pin_set, Q64!pin_clear, Q64!pin_dir_out, Q64!pin_dir_in
<1>11. OpenLo("OUT3", Q64!asdf_arch_out3_open_lo_set(value), value)
  BY Zenon DEF Q64!asdf_arch_out3_open_lo_set, Q64!out_set, Q64!out_open_hi, Q64!out_open_lo,
         OpenLo, Releases, Drives, Q64!Access, Access,
         Q64!pin_set, Q64!pin_clear, Q64!pin_dir_out, Q64!pin_dir_in
<1>12. "OUT2" \notin Q64!Inverted
  BY DEF Q64!Inverted
<1>13. Q64!asdf_arch_led1_set(value) = Lights("LED1", Bit("LED1", value, Q64!Inverted))
  BY <1>1 DEF Q64!asdf_arch_led1_set, Lights, Bit, Q64!Inverted, Q64!Access, Access,
         Q64!pin_set, Q64!pin_clear, Q64!pin_dir_out, Q64!pin_dir_in
<1>14. Q64!asdf_arch_led2_set(value) = Lights("LED2", Bit("LED2", value, Q64!Inverted))
  BY <1>1 DEF Q64!asdf_arch_led2_set, Lights, Bit, Q64!Inverted, Q64!Access, Access,
         Q64!pin_set, Q64!pin_clear, Q64!pin_dir_out, Q64!pin_dir_in
<1>15. Q64!asdf_arch_led3_set(value) = Lights("LED3", Bit("LED3", value, Q64!Inverted))
  BY <1>1 DEF Q64!asdf_arch_led3_set, Lights, Bit, Q64!Inverted, Q64!Access, Access,
         Q64!pin_set, Q64!pin_clear, Q64!pin_dir_out, Q64!pin_dir_in
<1> QED
  BY <1>2, <1>3, <1>4, <1>5, <1>6, <1>7, <1>8, <1>9, <1>10, <1>11, <1>12, <1>13, <1>14,
         <1>15 DEF TableShape, Bit

\* The level that an output is to show, as a bit of its latch.
LevelBit(line, level) == IF (level = "HIGH") <=> (line \in Inverted) THEN 0 ELSE 1

SetShape(program, d, value) ==
  LET line == Driver[d].line
      level == Level(d, value)
  IN  IF ~Connected(d) THEN program = <<>>
      ELSE IF level = "FLOATING" THEN Releases(line, program)
      ELSE \/ program = Drives(line, LevelBit(line, level))
           \/ line \in Leds /\ program = Lights(line, LevelBit(line, level))

\* A device is set as its kind and the wiring of its line have it.
LEMMA SetProgramShape ==
  ASSUME board \in Boards, NEW d \in Devices, NEW value \in Values
  PROVE  SetShape(SetProgram(d, value), d, value)
<1>1. PICK h : /\ TableShape(h, value, Inverted)
               /\ SetProgram(d, value) = h[d]
               /\ "OUT2" \in Inverted <=> board = "atmega328p"
               /\ "OUT1" \notin Inverted /\ "OUT3" \notin Inverted
  <2>1. CASE board = "atmega328p"
    BY <2>1, Handlers328, Zenon DEF SetProgram, Inverted, M328!Inverted
  <2>2. CASE board = "atmega2560"
    BY <2>2, Handlers2560, Zenon DEF SetProgram, Inverted, M2560!Inverted
  <2>3. CASE board = "pic32cm_dip28"
    BY <2>3, HandlersDip28, Zenon DEF SetProgram, Inverted, Dip28!Inverted
  <2>4. CASE board = "pic32cm_q64"
    BY <2>4, HandlersQ64, Zenon DEF SetProgram, Inverted, Q64!Inverted
  <2> QED
    BY <2>1, <2>2, <2>3, <2>4 DEF Boards, AvrBoards
<1>2. d \in {1, 2, 3, 4, 5, 6, 7, 8, 9, 10, 11, 12}
  BY ArchAssumption DEF Devices
<1>3. value = 0 \/ value = 1
  BY DEF Values
<1>4. \A line, kind : Device(line, kind).line = line /\ Device(line, kind).kind = kind
  BY DEF Device
<1>5. Driver[d] = DeviceTable[d]
  BY ArchAssumption
<1> DEFINE line == Driver[d].line
           level == Level(d, value)
<1>6. CASE /\ Connected(d) /\ Driver[d].kind = "PUSH_PULL"
           /\ \/ h[d] = Drives(line, Bit(line, value, Inverted))
              \/ line \in Leds /\ h[d] = Lights(line, Bit(line, value, Inverted))
  <2>1. level \in {"HIGH", "LOW"} /\ LevelBit(line, level) = Bit(line, value, Inverted)
    BY <1>3, <1>6 DEF Level, LevelBit, Bit
  <2> HIDE DEF level
  <2> QED
    BY <1>1, <1>6, <2>1 DEF SetShape, level
<1>7. CASE /\ Connected(d) /\ Driver[d].kind = "OPEN_HI"
           /\ line \notin Inverted /\ OpenHi(line, h[d], value)
  <2>1. CASE value = 1
    BY <1>1, <1>7, <2>1 DEF SetShape, OpenHi, Level
  <2>2. CASE value = 0
    <3>1. level = "LOW" /\ LevelBit(line, level) = 0 /\ h[d] = Drives(line, 0)
      BY <1>7, <2>2 DEF Level, LevelBit, OpenHi
    <3> HIDE DEF level
    <3> QED
      BY <1>1, <1>7, <3>1 DEF SetShape, level
  <2> QED
    BY <1>3, <2>1, <2>2
<1>8. CASE /\ Connected(d) /\ Driver[d].kind = "OPEN_LO"
           /\ line \notin Inverted /\ OpenLo(line, h[d], value)
  <2>1. CASE value = 0
    BY <1>1, <1>8, <2>1 DEF SetShape, OpenLo, Level
  <2>2. CASE value = 1
    <3>1. level = "HIGH" /\ LevelBit(line, level) = 1 /\ h[d] = Drives(line, 1)
      BY <1>8, <2>2 DEF Level, LevelBit, OpenLo
    <3> HIDE DEF level
    <3> QED
      BY <1>1, <1>8, <3>1 DEF SetShape, level
  <2> QED
    BY <1>3, <2>1, <2>2
<1>9. CASE ~Connected(d) /\ h[d] = <<>>
  BY <1>1, <1>9 DEF SetShape
<1>10. /\ d = 1 => line = "OUT1" /\ Driver[d].kind = "PUSH_PULL"
       /\ d = 2 => line = "OUT1" /\ Driver[d].kind = "OPEN_HI"
       /\ d = 3 => line = "OUT1" /\ Driver[d].kind = "OPEN_LO"
       /\ d = 4 => line = "OUT2" /\ Driver[d].kind = "PUSH_PULL"
       /\ d = 5 => line = "OUT2" /\ Driver[d].kind = "OPEN_HI"
       /\ d = 6 => line = "OUT2" /\ Driver[d].kind = "OPEN_LO"
       /\ d = 7 => line = "OUT3" /\ Driver[d].kind = "PUSH_PULL"
       /\ d = 8 => line = "OUT3" /\ Driver[d].kind = "OPEN_HI"
       /\ d = 9 => line = "OUT3" /\ Driver[d].kind = "OPEN_LO"
       /\ d = 10 => line = "LED1" /\ Driver[d].kind = "PUSH_PULL"
       /\ d = 11 => line = "LED2" /\ Driver[d].kind = "PUSH_PULL"
       /\ d = 12 => line = "LED3" /\ Driver[d].kind = "PUSH_PULL"
  BY <1>4, <1>5 DEF DeviceTable
<1>11. Connected(d) <=> ~("OUT2" \in Inverted /\ d \in {5, 6})
  BY <1>1, <1>2, <1>10 DEF Connected
<1> HIDE DEF line
<1>12. CASE d \in {1, 4, 7, 10, 11, 12}
  BY <1>1, <1>6, <1>10, <1>11, <1>12 DEF TableShape, Bit, Leds
<1>13. CASE d \in {2, 5, 8}
  BY <1>1, <1>7, <1>9, <1>10, <1>11, <1>13 DEF TableShape
<1>14. CASE d \in {3, 6, 9}
  BY <1>1, <1>8, <1>9, <1>10, <1>11, <1>14 DEF TableShape
<1> QED
  BY <1>2, <1>12, <1>13, <1>14

\* An access that the handler of a device makes.
SetAccess(a, d, value) ==
  /\ Connected(d) /\ a.line = Driver[d].line
  /\ \/ a.op = "DDR" /\ a.value = IF Level(d, value) = "FLOATING" THEN 0 ELSE 1
     \/ a.op = "PORT" /\ Level(d, value) # "FLOATING"
                      /\ a.value = LevelBit(Driver[d].line, Level(d, value))
     \/ a.op = "PORT" /\ Level(d, value) = "FLOATING"

\* An output that is set has such accesses only.
LEMMA SetAccesses ==
  ASSUME NEW program, NEW d \in Devices, NEW value, SetShape(program, d, value)
  PROVE  program \in Seq(Accesses) /\ \A a \in ToSet(program) : SetAccess(a, d, value)
<1> DEFINE line == Driver[d].line
           bit == LevelBit(line, Level(d, value))
<1>1. line \in Lines /\ line \in PortLines
  BY DEF Lines, PortLines
<1>2. bit \in {0, 1}
  BY DEF LevelBit
<1>3. \A b \in {0, 1} : Access("PORT", line, b) \in Accesses /\ Access("DDR", line, b) \in Accesses
  BY <1>1, AccessTypes
<1> HIDE DEF line, bit
<1>4. CASE ~Connected(d)
  BY <1>4, TupleSets DEF SetShape
<1>5. CASE Connected(d) /\ Level(d, value) = "FLOATING"
  <2>1. Releases(line, program)
    BY <1>5 DEF SetShape, line
  <2>2. CASE program = <<Access("DDR", line, 0)>>
    <3>1. program \in Seq(Accesses) /\ ToSet(program) = {Access("DDR", line, 0)}
      BY <2>2, <1>3, TupleSets
    <3> QED
      BY <3>1, <1>5, AccessFields DEF line, SetAccess
  <2>3. ASSUME NEW b \in {0, 1}, program = <<Access("DDR", line, 0), Access("PORT", line, b)>>
        PROVE  /\ program \in Seq(Accesses)
               /\ ToSet(program) = {Access("DDR", line, 0), Access("PORT", line, b)}
    BY <2>3, <1>3, TupleSets
  <2> QED
    BY <2>1, <2>2, <2>3, <1>5, AccessFields DEF Releases, line, SetAccess
<1>6. CASE Connected(d) /\ Level(d, value) # "FLOATING"
  <2>1. program = Drives(line, bit) \/ program = Lights(line, bit)
    BY <1>6 DEF SetShape, line, bit
  <2>2. Access("PORT", line, bit) \in Accesses /\ Access("DDR", line, 1) \in Accesses
    BY <1>2, <1>3
  <2>3. /\ Drives(line, bit) \in Seq(Accesses)
        /\ ToSet(Drives(line, bit)) = {Access("PORT", line, bit), Access("DDR", line, 1)}
    BY <2>2, TupleSets DEF Drives
  <2>4. /\ Lights(line, bit) \in Seq(Accesses)
        /\ ToSet(Lights(line, bit)) = {Access("PORT", line, bit)}
    BY <2>2, TupleSets DEF Lights
  <2> QED
    BY <2>1, <2>3, <2>4, <1>6, AccessFields DEF line, bit, SetAccess
<1> QED
  BY <1>4, <1>5, <1>6

\* It is the latch that is written first, or the direction if the line is to float.
LEMMA SetOrder ==
  ASSUME NEW program, NEW d \in Devices, NEW value, SetShape(program, d, value), Connected(d)
  PROVE  /\ program # <<>>
         /\ Level(d, value) = "FLOATING" => \E a \in ToSet(program) : a.op = "DDR"
         /\ Level(d, value) # "FLOATING" =>
              /\ \E a \in ToSet(program) : a.op = "PORT"
              /\ Driver[d].line \in Leds \/ \E a \in ToSet(program) : a.op = "DDR"
         /\ \A a \in ToSet(Tail(program)) :
              a.op # IF Level(d, value) = "FLOATING" THEN "DDR" ELSE "PORT"
<1> DEFINE line == Driver[d].line
           bit == LevelBit(line, Level(d, value))
<1>1. bit \in {0, 1}
  BY DEF LevelBit
<1>2. \A b \in {0, 1} : Access("PORT", line, b) \in Accesses /\ Access("DDR", line, b) \in Accesses
  BY AccessTypes DEF Lines, PortLines
<1> HIDE DEF line, bit
<1>3. ASSUME NEW x \in Accesses, NEW y \in Accesses
      PROVE  /\ <<x>> # <<>> /\ ToSet(<<x>>) = {x} /\ ToSet(Tail(<<x>>)) = {}
             /\ <<x, y>> # <<>> /\ ToSet(<<x, y>>) = {x, y} /\ ToSet(Tail(<<x, y>>)) = {y}
  <2>1. Tail(<<x>>) = <<>> /\ Tail(<<x, y>>) = <<y>>
    OBVIOUS
  <2> QED
    BY <2>1, TupleSets
<1>4. CASE Level(d, value) = "FLOATING"
  <2>1. Releases(line, program)
    BY <1>4 DEF SetShape, line
  <2>2. CASE program = <<Access("DDR", line, 0)>>
    <3>1. /\ program # <<>> /\ ToSet(program) = {Access("DDR", line, 0)}
          /\ ToSet(Tail(program)) = {}
      BY <1>2, <1>3, <2>2
    <3> QED
      BY <1>4, <3>1, AccessFields
  <2>3. ASSUME NEW b \in {0, 1}, program = <<Access("DDR", line, 0), Access("PORT", line, b)>>
        PROVE  /\ program # <<>>
               /\ ToSet(program) = {Access("DDR", line, 0), Access("PORT", line, b)}
               /\ ToSet(Tail(program)) = {Access("PORT", line, b)}
    BY <1>2, <1>3, <2>3
  <2> QED
    BY <1>4, <2>1, <2>2, <2>3, AccessFields DEF Releases
<1>5. CASE Level(d, value) # "FLOATING"
  <2>1. \/ program = <<Access("PORT", line, bit), Access("DDR", line, 1)>>
        \/ line \in Leds /\ program = <<Access("PORT", line, bit)>>
    BY <1>5 DEF SetShape, Drives, Lights, line, bit
  <2>2. CASE program = <<Access("PORT", line, bit), Access("DDR", line, 1)>>
    <3>1. /\ program # <<>>
          /\ ToSet(program) = {Access("PORT", line, bit), Access("DDR", line, 1)}
          /\ ToSet(Tail(program)) = {Access("DDR", line, 1)}
      BY <1>1, <1>2, <1>3, <2>2
    <3> QED
      BY <1>5, <3>1, AccessFields
  <2>3. CASE line \in Leds /\ program = <<Access("PORT", line, bit)>>
    <3>1. /\ program # <<>> /\ ToSet(program) = {Access("PORT", line, bit)}
          /\ ToSet(Tail(program)) = {}
      BY <1>1, <1>2, <1>3, <2>3
    <3> QED
      BY <1>5, <2>3, <3>1, AccessFields DEF line
  <2> QED
    BY <2>1, <2>2, <2>3
<1> QED
  BY <1>4, <1>5

\* No LED floats.
LEMMA LedLevels ==
  ASSUME NEW d \in Devices, Driver[d].line \in Leds, NEW value
  PROVE  Level(d, value) # "FLOATING"
<1>1. d \in {1, 2, 3, 4, 5, 6, 7, 8, 9, 10, 11, 12}
  BY ArchAssumption DEF Devices
<1>2. \A line, kind : Device(line, kind).line = line /\ Device(line, kind).kind = kind
  BY DEF Device
<1>3. Driver[d].kind = "PUSH_PULL"
  BY <1>1, <1>2, ArchAssumption DEF DeviceTable, Leds
<1> QED
  BY <1>3 DEF Level

-----------------------------------------------------------------------------
(* The calls, and what they make of the accesses that are to come.         *)

\* The calls that the firmware makes, by their kind.
LEMMA CallShapes ==
  ASSUME used \in Outputs, NEW c \in Calls
  PROVE  /\ c # NoCall
         /\ \/ c.op = "INIT"
            \/ c.op \in Polarities
            \/ c.op = "SET" /\ c.arg \in used /\ c.arg \in Devices /\ c.value \in Values
            \/ c.op = "SEND" /\ c.arg \in Codes /\ c.arg \in 0..255
            \/ c.op = "READ" /\ c.arg \in RowsRead /\ c.arg \in Rows
<1>1. /\ NoCall.op = "NONE" /\ InitBoard.op = "INIT"
      /\ \A p : SelectStrobe(p).op = p
      /\ \A d, v : /\ SetOutput(d, v).op = "SET"
                   /\ SetOutput(d, v).arg = d /\ SetOutput(d, v).value = v
      /\ \A code : SendCode(code).op = "SEND" /\ SendCode(code).arg = code
      /\ \A row : ReadRow(row).op = "READ" /\ ReadRow(row).arg = row
  BY DEF NoCall, InitBoard, SelectStrobe, SetOutput, SendCode, ReadRow
<1>2. used \subseteq Devices /\ Codes \subseteq 0..255 /\ RowsRead \subseteq Rows
  BY ArchAssumption
<1> QED
  BY <1>1, <1>2 DEF Calls, Polarities

\* The routine of each kind of call.
LEMMA Programs ==
  ASSUME NEW c
  PROVE  /\ c.op = "INIT" => Program(c) = InitProgram
         /\ c.op \in Polarities => Program(c) = StrobeProgram(c.op)
         /\ c.op = "SET" => Program(c) = SetProgram(c.arg, c.value)
         /\ c.op = "SEND" => Program(c) = SendProgram(c.arg)
         /\ c.op = "READ" => Program(c) = ReadProgram(c.arg)
BY DEF Program, Polarities

\* The accesses that send a code.
LEMMA PulseShape ==
  ASSUME NEW code \in 0..255
  PROVE  /\ Pulse(code) \in Seq(Accesses)
         /\ ToSet(Pulse(code)) =
              {Access("ASCII", "ASCII", Encoded(code)), Access("PIN", "STROBE", 1)}
<1>1. Encoded(code) \in 0..255
  BY DEF Encoded
<1>2. /\ Access("ASCII", "ASCII", Encoded(code)) \in Accesses
      /\ Access("PIN", "STROBE", 1) \in Accesses
  BY <1>1, AccessTypes
<1> QED
  BY <1>2, TupleSets DEF Pulse

\* The accesses that select a polarity.
LEMMA IdleShape ==
  ASSUME NEW p
  PROVE  /\ Idle(p) \in Seq(Accesses)
         /\ ToSet(Idle(p)) = {Access("PORT", "STROBE", StrobeBit(p)), Access("DDR", "STROBE", 1)}
<1>1. /\ Access("PORT", "STROBE", StrobeBit(p)) \in Accesses
      /\ Access("DDR", "STROBE", 1) \in Accesses
  BY LineTypes, AccessTypes
<1> QED
  BY <1>1, TupleSets DEF Idle

\* Every routine makes accesses that the boards have.
LEMMA ProgramTypes ==
  ASSUME board \in Boards, used \in Outputs, NEW c \in Calls
  PROVE  Program(c) \in Seq(Accesses)
<1>1. CASE c.op = "INIT"
  BY <1>1, Programs, InitProgramShape DEF InitShape
<1>2. CASE c.op \in Polarities
  BY <1>2, Programs, StrobeProgramShape, IdleShape
<1>3. CASE c.op = "SET" /\ c.arg \in Devices /\ c.value \in Values
  BY <1>3, Programs, SetProgramShape, SetAccesses
<1>4. CASE c.op = "SEND" /\ c.arg \in 0..255
  BY <1>4, Programs, SendProgramShape, PulseShape
<1>5. CASE c.op = "READ" /\ c.arg \in Rows
  BY <1>5, Programs, ReadProgramShape DEF ReadShape
<1> QED
  BY <1>1, <1>2, <1>3, <1>4, <1>5, CallShapes

-----------------------------------------------------------------------------
(* What a step does.                                                       *)

\* The step that makes the next access, whichever it is.
AccessStep ==
  \/ WritePort \/ WriteDirection \/ WriteData
  \/ WriteRows \/ DeselectRow \/ ReadBit \/ ReadColumns

\* A step is a call or an access.
LEMMA Steps == Next <=> (\E c \in Calls : Call(c)) \/ AccessStep
BY DEF Next, AccessStep

\* What such a step does to the latches, to the directions and to the data.
LEMMA AccessEffects ==
  ASSUME ArchTypeOK, AccessStep
  PROVE  /\ todo # <<>> /\ todo' = Tail(todo) /\ Head(todo) \in Accesses
         /\ ToSet(todo) = {Head(todo)} \union ToSet(todo')
         /\ UNCHANGED <<board, used, host, call, ghostVars>>
         /\ \A line \in PortLines :
              /\ dir'[line] = IF Head(todo).op = "DDR" /\ Head(todo).line = line
                              THEN Head(todo).value ELSE dir[line]
              /\ out'[line] = IF Head(todo).op = "PORT" /\ Head(todo).line = line
                              THEN Head(todo).value
                              ELSE IF Head(todo).op = "PIN" /\ Head(todo).line = line
                              THEN 1 - out[line] ELSE out[line]
         /\ data' = IF Head(todo).op = "ASCII" THEN Head(todo).value ELSE data
<1>1. PICK ops : Next1(ops)
  BY DEF AccessStep, WritePort, WriteDirection, WriteData, WriteRows, DeselectRow, ReadBit,
         ReadColumns
<1>2. /\ todo # <<>> /\ todo' = Tail(todo)
      /\ UNCHANGED <<board, used, host, call, ghostVars>>
  BY <1>1 DEF Next1
<1>3. todo \in Seq(Accesses)
  BY DEF ArchTypeOK
<1>4. Head(todo) \in Accesses /\ ToSet(todo) = {Head(todo)} \union ToSet(todo')
  BY <1>2, <1>3, TailSet
<1>5. out \in [PortLines -> {0, 1}] /\ dir \in [PortLines -> {0, 1}]
  BY DEF ArchTypeOK
<1>6. CASE WritePort
  <2>1. /\ Head(todo).op \in {"PORT", "PIN"} /\ dir' = dir /\ data' = data
        /\ out' = [out EXCEPT ![Head(todo).line] =
                     IF Head(todo).op = "PIN" THEN 1 - @ ELSE Head(todo).value]
    BY <1>6 DEF WritePort, Next1, Line, Value, Host
  <2> QED
    BY <1>2, <1>4, <1>5, <2>1
<1>7. CASE WriteDirection
  <2>1. /\ Head(todo).op = "DDR" /\ out' = out /\ data' = data
        /\ dir' = [dir EXCEPT ![Head(todo).line] = Head(todo).value]
    BY <1>7 DEF WriteDirection, Next1, Line, Value, Host
  <2> QED
    BY <1>2, <1>4, <1>5, <2>1
<1>8. CASE WriteData
  <2>1. /\ Head(todo).op = "ASCII" /\ out' = out /\ dir' = dir /\ data' = Head(todo).value
    BY <1>8 DEF WriteData, Next1, Value, lineVars
  <2> QED
    BY <1>2, <1>4, <1>5, <2>1
<1>9. CASE WriteRows \/ DeselectRow \/ ReadBit \/ ReadColumns
  <2>1. /\ Head(todo).op \in {"ROWS", "DESELECT", "BIT", "COLUMNS"}
        /\ out' = out /\ dir' = dir /\ data' = data
    BY <1>9 DEF WriteRows, DeselectRow, ReadBit, ReadColumns, Next1, lineVars, portVars
  <2> QED
    BY <1>2, <1>4, <1>5, <2>1
<1> QED
  BY <1>6, <1>7, <1>8, <1>9 DEF AccessStep

\* What a call does: it changes no line.
LEMMA CallEffects ==
  ASSUME ArchTypeOK, NEW c \in Calls, Call(c)
  PROVE  /\ todo = <<>> /\ todo' = Program(c) /\ todo' \in Seq(Accesses)
         /\ call' = c /\ call' # NoCall /\ (call = NoCall => c.op = "INIT")
         /\ polarity' = SelectedBy(c) /\ asked' = AskedBy(c)
         /\ UNCHANGED <<board, used, host, lineVars, portVars>>
BY ProgramTypes, CallShapes DEF ArchTypeOK, Call, InitBoard

-----------------------------------------------------------------------------
(* Type correctness.                                                       *)

\* The types hold when power is applied.
LEMMA TypeInit == Init => ArchTypeOK
<1> SUFFICES ASSUME Init PROVE ArchTypeOK
  OBVIOUS
<1>1. /\ board \in Boards /\ used \in Outputs /\ host \in {"HIGH", "LOW"}
      /\ call \in Calls \union {NoCall} /\ todo \in Seq(Accesses)
  BY TupleSets DEF Init
<1>2. out \in [PortLines -> {0, 1}] /\ dir \in [PortLines -> {0, 1}]
  BY DEF Init
<1>3. rows \in SUBSET Rows /\ data \in 0..255
  BY DEF Init, Rows
<1>4. taken \in [code : 0..256, parity : {0, 1}]
  BY DEF Init, NoCode
<1>5. shifter \in Seq({0, 1}) /\ cols \in SUBSET Cols /\ samples \in Seq(SUBSET Cols)
  BY TupleSets DEF Init
<1>6. polarity \in Polarities /\ asked \in [Lines -> Levels \union {"ANY"}]
  BY DEF Init, Polarities
<1> QED
  BY <1>1, <1>2, <1>3, <1>4, <1>5, <1>6 DEF ArchTypeOK

\* A call preserves the types.
LEMMA TypeCall ==
  ASSUME ArchTypeOK, NEW c \in Calls, Call(c)
  PROVE  ArchTypeOK'
<1>1. UNCHANGED <<board, used, host, out, dir, rows, data, taken, shifter>>
  BY DEF Call, lineVars, portVars
<1>2. call' \in (Calls \union {NoCall})' /\ todo' \in Seq(Accesses)
  BY <1>1, CallEffects DEF Calls
<1>3. cols' \in SUBSET Cols /\ samples' \in Seq(SUBSET Cols)
  BY TupleSets DEF Call
<1>4. polarity' \in Polarities
  <2>1. SelectedBy(c) \in {c.op, StrobePolarity, "POSITIVE", polarity}
        /\ (c.op \in Polarities \/ SelectedBy(c) # c.op \/ c.op = polarity
            \/ c.op = StrobePolarity \/ c.op = "POSITIVE")
    BY DEF SelectedBy
  <2>2. StrobePolarity \in Polarities /\ "POSITIVE" \in Polarities /\ polarity \in Polarities
    BY PinsAssumption DEF Polarities, ArchTypeOK
  <2> QED
    BY <2>1, <2>2, CallEffects
<1>5. asked' \in [Lines -> Levels \union {"ANY"}]
  <2>1. asked \in [Lines -> Levels \union {"ANY"}]
    BY DEF ArchTypeOK
  <2>2. CASE c.op = "SET"
    <3>1. c.arg \in Devices /\ c.value \in Values
      BY <2>2, CallShapes DEF ArchTypeOK, Polarities
    <3>2. Driver[c.arg].line \in Lines /\ Level(c.arg, c.value) \in Levels
      BY <3>1, PhysicalAssumption DEF Lines, Level, Levels
    <3> QED
      BY <2>1, <2>2, <3>2, CallEffects DEF AskedBy
  <2>3. CASE c.op # "SET"
    BY <2>1, <2>3, CallEffects DEF AskedBy
  <2> QED
    BY <2>2, <2>3
<1> QED
  BY <1>1, <1>2, <1>3, <1>4, <1>5 DEF ArchTypeOK

\* The contacts of a row, and what is read of those of the rows selected.
LEMMA SamplingTypes ==
  ASSUME NEW contacts \in Sampling
  PROVE  contacts[call.arg] \in SUBSET Cols /\ Sampled(contacts) \in SUBSET Cols
<1>1. contacts \in [SelectedRows \union {call.arg} -> SUBSET Cols]
  BY DEF Sampling
<1> QED
  BY <1>1 DEF Sampled

\* The shift register holds bits, and samples are sets of columns.
LEMMA ShiftRegisterTypes ==
  ASSUME ArchTypeOK, ShiftRegister
  PROVE  shifter' \in Seq({0, 1}) /\ samples' \in Seq(SUBSET Cols) /\ cols' = cols
<1>1. shifter \in Seq({0, 1}) /\ samples \in Seq(SUBSET Cols)
  BY DEF ArchTypeOK
<1>2. CASE Clocked
  <2>1. CASE out["COLMODE"] = 0
    <3>1. PICK contacts \in Sampling :
            /\ shifter' = [n \in 1..MaxCols |-> IF n - 1 \in Sampled(contacts) THEN 0 ELSE 1]
            /\ samples' = Append(samples, contacts[call.arg])
      BY <1>2, <2>1 DEF Clocked
    <3>2. samples' \in Seq(SUBSET Cols)
      BY <1>1, <3>1, SamplingTypes
    <3>3. shifter' \in Seq({0, 1})
      <4>1. \A n \in 1..MaxCols : (IF n - 1 \in Sampled(contacts) THEN 0 ELSE 1) \in {0, 1}
        OBVIOUS
      <4>2. MaxCols \in Nat
        BY PinsAssumption
      <4> QED
        BY <3>1, <4>1, <4>2, IsASeq
    <3> QED
      BY <3>2, <3>3 DEF ShiftRegister
  <2>2. CASE out["COLMODE"] # 0
    BY <1>1, <1>2, <2>2, TailSet DEF Clocked, ShiftRegister
  <2> QED
    BY <2>1, <2>2
<1>3. CASE UNCHANGED <<shifter, samples>>
  BY <1>1, <1>3 DEF ShiftRegister
<1> QED
  BY <1>2, <1>3 DEF ShiftRegister

\* An access preserves the types.
LEMMA TypeAccess ==
  ASSUME ArchTypeOK, AccessStep
  PROVE  ArchTypeOK'
<1> DEFINE access == Head(todo)
<1>1. /\ access \in Accesses /\ todo' \in Seq(Accesses)
      /\ UNCHANGED <<board, used, host, call, polarity, asked>>
  <2>1. todo \in Seq(Accesses)
    BY DEF ArchTypeOK
  <2>2. /\ todo # <<>> /\ todo' = Tail(todo) /\ access \in Accesses
        /\ UNCHANGED <<board, used, host, call, polarity, asked>>
    BY AccessEffects DEF ghostVars
  <2> QED
    BY <2>1, <2>2, TailSet
<1>2. Calls' = Calls
  BY <1>1 DEF Calls
<1>3. /\ access.op \in {"PORT", "DDR"} => access.value \in {0, 1}
      /\ access.op \in {"ROWS", "DESELECT"} => access.value \in Rows
      /\ access.op = "ASCII" => access.value \in 0..255
      /\ access.op = "BIT" => access.value \in Cols
  BY <1>1 DEF Accesses
<1>4. /\ board \in Boards /\ used \in Outputs /\ host \in {"HIGH", "LOW"}
      /\ call \in Calls \union {NoCall}
      /\ out \in [PortLines -> {0, 1}] /\ dir \in [PortLines -> {0, 1}]
      /\ rows \in SUBSET Rows /\ data \in 0..255
      /\ taken \in [code : 0..256, parity : {0, 1}]
      /\ shifter \in Seq({0, 1}) /\ cols \in SUBSET Cols /\ samples \in Seq(SUBSET Cols)
      /\ polarity \in Polarities /\ asked \in [Lines -> Levels \union {"ANY"}]
  BY DEF ArchTypeOK
<1> HIDE DEF access
<1> DEFINE RestOK ==
             /\ rows' \in SUBSET Rows /\ data' \in 0..255
             /\ taken' \in [code : 0..256, parity : {0, 1}]
             /\ shifter' \in Seq({0, 1}) /\ cols' \in SUBSET Cols /\ samples' \in Seq(SUBSET Cols)
           BitsOK == out' \in [PortLines -> {0, 1}] /\ dir' \in [PortLines -> {0, 1}]
<1>5. ASSUME Host, data \in 0..255
      PROVE  taken' \in [code : 0..256, parity : {0, 1}] /\ data' \in 0..255
  <2>1. Encoded(data) \in 0..256
    BY <1>5 DEF Encoded
  <2>2. 1 - taken.parity \in {0, 1}
    BY <1>4
  <2> QED
    BY <1>4, <1>5, <2>1, <2>2 DEF Host
<1>6. ASSUME WritePort \/ WriteDirection  PROVE BitsOK /\ RestOK
  <2>1. BitsOK
    <3>1. \A v \in {0, 1} : 1 - v \in {0, 1}
      OBVIOUS
    <3>2. CASE WritePort
      <4>1. /\ access.op \in {"PORT", "PIN"} /\ dir' = dir
            /\ out' = [out EXCEPT ![access.line] =
                         IF access.op = "PIN" THEN 1 - out[access.line] ELSE access.value]
        BY <3>2 DEF WritePort, Next1, Line, Value, access
      <4>2. access.line \in PortLines
        BY <1>1, TheLines DEF Accesses, PortLines
      <4>3. (IF access.op = "PIN" THEN 1 - out[access.line] ELSE access.value) \in {0, 1}
        BY <1>3, <1>4, <3>1, <4>1, <4>2
      <4> QED
        BY <1>4, <4>1, <4>3
    <3>3. CASE WriteDirection
      BY <1>3, <1>4, <3>3 DEF WriteDirection, Next1, Line, Value, access
    <3> QED
      BY <1>6, <3>2, <3>3
  <2>2. RestOK
    BY <1>4, <1>5, <1>6, ShiftRegisterTypes DEF WritePort, WriteDirection
  <2> QED
    BY <2>1, <2>2
<1>7. ASSUME WriteData  PROVE BitsOK /\ RestOK
  BY <1>3, <1>4, <1>7 DEF WriteData, Next1, Value, lineVars, readVars, access
<1>8. ASSUME WriteRows \/ DeselectRow  PROVE BitsOK /\ RestOK
  <2>1. rows' \subseteq rows \union {access.value} /\ access.op \in {"ROWS", "DESELECT"}
    BY <1>8 DEF WriteRows, DeselectRow, Next1, Value, access
  <2>2. UNCHANGED <<out, dir, shifter, cols, samples, data, taken>>
    BY <1>8 DEF WriteRows, DeselectRow, lineVars, readVars, portVars
  <2> QED
    BY <1>3, <1>4, <2>1, <2>2
<1>9. ASSUME ReadBit  PROVE BitsOK /\ RestOK
  BY <1>3, <1>4, <1>9 DEF ReadBit, Next1, Value, lineVars, portVars, access
<1>10. ASSUME ReadColumns  PROVE BitsOK /\ RestOK
  BY <1>4, <1>10, SamplingTypes DEF ReadColumns, lineVars, portVars
<1>11. BitsOK /\ RestOK
  <2> HIDE DEF BitsOK, RestOK
  <2> QED
    BY <1>6, <1>7, <1>8, <1>9, <1>10 DEF AccessStep
<1> QED
  BY <1>1, <1>2, <1>4, <1>11 DEF ArchTypeOK

\* The registers hold bits, every access is one that the boards have, and the
\* ghost variables are levels, whatever routines are called on whatever board.
THEOREM Typed == Spec => []ArchTypeOK
<1>1. ArchTypeOK /\ [Next]_vars => ArchTypeOK'
  <2> SUFFICES ASSUME ArchTypeOK, [Next]_vars PROVE ArchTypeOK'
    OBVIOUS
  <2>1. CASE Next
    BY <2>1, Steps, TypeCall, TypeAccess
  <2>2. CASE UNCHANGED vars
    <3>1. Calls' = Calls
      BY <2>2 DEF vars, Calls
    <3> QED
      BY <2>2, <3>1 DEF vars, lineVars, readVars, ghostVars, portVars, ArchTypeOK
  <2> QED
    BY <2>1, <2>2
<1> QED
  BY <1>1, TypeInit, PTL DEF Spec

-----------------------------------------------------------------------------
(* A bit of a register settles: the accesses to come leave it at a value.  *)

Settles(op, reg, accesses, line, bit) ==
  /\ \A a \in accesses : a.op = op /\ a.line = line => a.value = bit
  /\ reg[line] = bit \/ \E a \in accesses : a.op = op /\ a.line = line

\* Making an access leaves a bit settled.
LEMMA SettlesNext ==
  ASSUME NEW op, NEW reg, NEW regNext, NEW a, NEW accesses, NEW line, NEW bit,
         Settles(op, reg, {a} \union accesses, line, bit),
         regNext[line] = IF a.op = op /\ a.line = line THEN a.value ELSE reg[line]
  PROVE  Settles(op, regNext, accesses, line, bit)
BY DEF Settles

\* With no access to come, a bit that settles has its value.
LEMMA Settled ==
  ASSUME NEW op, NEW reg, NEW line, NEW bit
  PROVE  Settles(op, reg, {}, line, bit) <=> reg[line] = bit
BY DEF Settles

\* Accesses to other lines do not matter.
LEMMA SettlesElsewhere ==
  ASSUME NEW op, NEW reg, NEW accesses, NEW line, NEW bit,
         \A a \in accesses : a.op = op => a.line # line
  PROVE  Settles(op, reg, accesses, line, bit) <=> reg[line] = bit
BY DEF Settles

-----------------------------------------------------------------------------
(* The strobe: asdf_arch_send_code toggles it twice, and every other       *)
(* routine leaves it alone or selects its idle level.                      *)

Pin == Access("PIN", "STROBE", 1)
StrobeInv ==
  call # NoCall =>
    /\ Settles("DDR", dir, ToSet(todo), "STROBE", 1)
    /\ call.op # "SEND" =>
         /\ Settles("PORT", out, ToSet(todo), "STROBE", StrobeBit(polarity))
         /\ \A a \in ToSet(todo) : a.op # "PIN"
    /\ call.op = "SEND" =>
         \/ todo = Pulse(call.arg) /\ out["STROBE"] = StrobeBit(polarity)
         \/ todo = <<Pin, Pin>> /\ out["STROBE"] = StrobeBit(polarity)
         \/ todo = <<Pin>> /\ out["STROBE"] = 1 - StrobeBit(polarity)
         \/ todo = <<>> /\ out["STROBE"] = StrobeBit(polarity)

\* Of the calls, only these select a polarity.
LEMMA Selections ==
  ASSUME NEW c
  PROVE  /\ c.op = "INIT" => SelectedBy(c) = Default
         /\ c.op \in Polarities => SelectedBy(c) = c.op
         /\ c.op \notin Polarities \union {"INIT"} => SelectedBy(c) = polarity
BY DEF SelectedBy, Polarities, Default

\* The arguments of the calls.
LEMMA CallArgs ==
  ASSUME ArchTypeOK, NEW c \in Calls
  PROVE  /\ c.op = "SET" => c.arg \in Devices /\ c.value \in Values
         /\ c.op = "SEND" => c.arg \in Codes /\ c.arg \in 0..255
         /\ c.op = "READ" => c.arg \in Rows
         /\ c.op \in {"INIT", "SET", "SEND", "READ"} \union Polarities
<1>1. used \in Outputs
  BY DEF ArchTypeOK
<1>2. \/ c.op = "INIT"
      \/ c.op \in Polarities
      \/ c.op = "SET" /\ c.arg \in Devices /\ c.value \in Values
      \/ c.op = "SEND" /\ c.arg \in Codes /\ c.arg \in 0..255
      \/ c.op = "READ" /\ c.arg \in Rows
  BY <1>1, CallShapes
<1> HIDE DEF Calls
<1> QED
  BY <1>2, Zenon DEF Polarities

\* Neither setting an output nor reading a row has to do with the strobe.
LEMMA StrobeLeftAlone ==
  ASSUME ArchTypeOK, NEW c \in Calls, c.op \in {"SET", "READ"}
  PROVE  \A a \in ToSet(Program(c)) : a.line # "STROBE" /\ a.op # "PIN"
<1>1. CASE c.op = "SET"
  <2>1. c.arg \in Devices /\ c.value \in Values
    BY <1>1, CallArgs
  <2>2. Driver[c.arg].line # "STROBE"
    BY <2>1, TheLines DEF Lines
  <2>3. SetShape(Program(c), c.arg, c.value)
    BY <1>1, <2>1, Programs, SetProgramShape DEF ArchTypeOK
  <2> QED
    BY <2>1, <2>2, <2>3, SetAccesses DEF SetAccess
<1>2. CASE c.op = "READ"
  <2>1. c.arg \in Rows
    BY <1>2, CallArgs
  <2> QED
    BY <1>2, <2>1, Programs, ReadProgramShape DEF ArchTypeOK, ReadShape, Reads
<1> QED
  BY <1>1, <1>2

\* A call preserves the invariant of the strobe.
LEMMA StrobeCall ==
  ASSUME ArchTypeOK, StrobeInv, NEW c \in Calls, Call(c)
  PROVE  StrobeInv'
<1>1. /\ todo = <<>> /\ todo' = Program(c) /\ call' = c
      /\ call = NoCall => c.op = "INIT"
      /\ polarity' = SelectedBy(c) /\ dir' = dir /\ out' = out
  BY CallEffects DEF lineVars
<1>2. call # NoCall => dir["STROBE"] = 1 /\ out["STROBE"] = StrobeBit(polarity)
  <2>1. ToSet(todo) = {}
    BY <1>1, TupleSets
  <2>2. Pulse(call.arg) # <<>> /\ <<Pin, Pin>> # <<>> /\ <<Pin>> # <<>>
    BY DEF Pulse
  <2>3. call # NoCall => /\ Settles("DDR", dir, {}, "STROBE", 1)
                         /\ \/ Settles("PORT", out, {}, "STROBE", StrobeBit(polarity))
                            \/ out["STROBE"] = StrobeBit(polarity)
    BY <1>1, <2>1, <2>2 DEF StrobeInv
  <2> QED
    BY <2>3, Settled
<1>3. CASE c.op = "INIT"
  <2>1. InitShape(todo', polarity')
    BY <1>1, <1>3, Programs, Selections, InitProgramShape DEF ArchTypeOK
  <2>2. /\ Access("DDR", "STROBE", 1) \in ToSet(todo')
        /\ Access("PORT", "STROBE", StrobeBit(polarity')) \in ToSet(todo')
        /\ \A a \in ToSet(todo') : InitAccess(a, polarity')
    BY <2>1 DEF InitShape
  <2> QED
    BY <1>1, <1>3, <2>2, AccessFields DEF StrobeInv, Settles, InitAccess
<1>4. CASE c.op \in Polarities
  <2>1. todo' = Idle(polarity') /\ polarity' = c.op
    BY <1>1, <1>4, Programs, Selections, StrobeProgramShape DEF ArchTypeOK
  <2>2. ToSet(todo') = {Access("PORT", "STROBE", StrobeBit(polarity')), Access("DDR", "STROBE", 1)}
    BY <2>1, IdleShape
  <2> QED
    BY <1>1, <1>4, <2>2, AccessFields DEF StrobeInv, Settles, Polarities
<1>5. CASE c.op \in {"SET", "READ"}
  <2>1. /\ \A a \in ToSet(todo') : a.line # "STROBE" /\ a.op # "PIN"
        /\ polarity' = polarity /\ call # NoCall
    BY <1>1, <1>5, StrobeLeftAlone, Selections DEF Polarities
  <2> QED
    BY <1>1, <1>2, <1>5, <2>1 DEF StrobeInv, Settles
<1>6. CASE c.op = "SEND"
  <2>1. c.arg \in 0..255
    BY <1>6, CallArgs
  <2>2. todo' = Pulse(c.arg) /\ polarity' = polarity /\ call # NoCall
    BY <1>1, <1>6, Programs, SendProgramShape, Selections DEF ArchTypeOK, Polarities
  <2>3. \A a \in ToSet(todo') : a.op # "DDR"
    <3>1. ToSet(todo') = {Access("ASCII", "ASCII", Encoded(c.arg)), Access("PIN", "STROBE", 1)}
      BY <2>1, <2>2, PulseShape
    <3> QED
      BY <3>1, AccessFields
  <2> QED
    BY <1>1, <1>2, <1>6, <2>2, <2>3 DEF StrobeInv, Settles
<1> QED
  BY <1>3, <1>4, <1>5, <1>6, CallArgs

\* An access preserves the invariant of the strobe.
LEMMA StrobeAccess ==
  ASSUME ArchTypeOK, StrobeInv, AccessStep
  PROVE  StrobeInv'
<1>1. /\ todo # <<>> /\ todo' = Tail(todo)
      /\ ToSet(todo) = {Head(todo)} \union ToSet(todo')
      /\ call' = call /\ polarity' = polarity
      /\ \A line \in PortLines :
           /\ dir'[line] = IF Head(todo).op = "DDR" /\ Head(todo).line = line
                           THEN Head(todo).value ELSE dir[line]
           /\ out'[line] = IF Head(todo).op = "PORT" /\ Head(todo).line = line
                           THEN Head(todo).value
                           ELSE IF Head(todo).op = "PIN" /\ Head(todo).line = line
                           THEN 1 - out[line] ELSE out[line]
  BY AccessEffects DEF ghostVars
<1>2. "STROBE" \in PortLines
  BY LineTypes
<1> SUFFICES ASSUME call # NoCall PROVE StrobeInv'
  BY <1>1 DEF StrobeInv
<1>3. Settles("DDR", dir', ToSet(todo'), "STROBE", 1)
  BY <1>1, <1>2, SettlesNext DEF StrobeInv
<1>4. CASE call.op # "SEND"
  <2>1. /\ Settles("PORT", out, {Head(todo)} \union ToSet(todo'), "STROBE", StrobeBit(polarity))
        /\ \A a \in {Head(todo)} \union ToSet(todo') : a.op # "PIN"
    BY <1>1, <1>4 DEF StrobeInv
  <2>2. Settles("PORT", out', ToSet(todo'), "STROBE", StrobeBit(polarity))
    BY <1>1, <1>2, <2>1, SettlesNext
  <2> QED
    BY <1>1, <1>3, <1>4, <2>1, <2>2 DEF StrobeInv
<1>5. CASE call.op = "SEND"
  <2>1. /\ Pin.op = "PIN" /\ Pin.line = "STROBE"
        /\ Access("ASCII", "ASCII", Encoded(call.arg)).op = "ASCII"
    BY AccessFields DEF Pin
  <2>2. CASE todo = Pulse(call.arg) /\ out["STROBE"] = StrobeBit(polarity)
    <3>1. /\ Head(todo) = Access("ASCII", "ASCII", Encoded(call.arg))
          /\ Tail(todo) = <<Pin, Pin>>
      BY <2>2 DEF Pulse, Pin
    <3> QED
      BY <1>1, <1>2, <1>3, <1>5, <2>1, <2>2, <3>1 DEF StrobeInv
  <2>3. CASE todo = <<Pin, Pin>> /\ out["STROBE"] = StrobeBit(polarity)
    <3>1. Head(todo) = Pin /\ Tail(todo) = <<Pin>>
      BY <2>3
    <3> QED
      BY <1>1, <1>2, <1>3, <1>5, <2>1, <2>3, <3>1 DEF StrobeInv
  <2>4. CASE todo = <<Pin>> /\ out["STROBE"] = 1 - StrobeBit(polarity)
    <3>1. /\ Head(todo) = Pin /\ Tail(todo) = <<>>
          /\ 1 - (1 - StrobeBit(polarity)) = StrobeBit(polarity)
      BY <2>4 DEF StrobeBit
    <3> QED
      BY <1>1, <1>2, <1>3, <1>5, <2>1, <2>4, <3>1 DEF StrobeInv
  <2> QED
    BY <1>1, <1>5, <2>2, <2>3, <2>4 DEF StrobeInv
<1> QED
  BY <1>4, <1>5

\* It is an invariant, of every board.
LEMMA StrobeInvariant == Spec => []StrobeInv
<1>1. Init => StrobeInv
  BY DEF Init, StrobeInv
<1>2. ArchTypeOK /\ StrobeInv /\ [Next]_vars => StrobeInv'
  <2> SUFFICES ASSUME ArchTypeOK, StrobeInv, [Next]_vars PROVE StrobeInv'
    OBVIOUS
  <2>1. CASE Next
    BY <2>1, Steps, StrobeCall, StrobeAccess
  <2>2. CASE UNCHANGED vars
    BY <2>2 DEF vars, lineVars, ghostVars, StrobeInv
  <2> QED
    BY <2>1, <2>2
<1> QED
  BY <1>1, <1>2, Typed, PTL DEF Spec

\* Between calls the strobe is at the idle level of the polarity selected last:
\* asdf_arch_send_code leaves it as it was, and no other routine reaches it.
THEOREM Idles == Spec => []StrobeIdles
<1>1. ArchTypeOK /\ StrobeInv => StrobeIdles
  <2> SUFFICES ASSUME ArchTypeOK, StrobeInv, todo = <<>>, call # NoCall
               PROVE  Drive("STROBE") = IdleLevel(polarity)
    BY DEF StrobeIdles
  <2>1. /\ ToSet(todo) = {}
        /\ Pulse(call.arg) # <<>> /\ <<Pin, Pin>> # <<>> /\ <<Pin>> # <<>>
    BY TupleSets DEF Pulse
  <2>2. /\ Settles("DDR", dir, {}, "STROBE", 1)
        /\ \/ Settles("PORT", out, {}, "STROBE", StrobeBit(polarity))
           \/ out["STROBE"] = StrobeBit(polarity)
    BY <2>1 DEF StrobeInv
  <2>3. dir["STROBE"] = 1 /\ out["STROBE"] = StrobeBit(polarity)
    BY <2>2, Settled
  <2> QED
    BY <2>3 DEF Drive, IdleLevel, StrobeBit
<1> QED
  BY <1>1, Typed, StrobeInvariant, PTL

-----------------------------------------------------------------------------
(* The outputs.  The accesses to come leave each line at the level that it *)
(* was asked for last, and only those of the routine that is called for    *)
(* the line, or of asdf_arch_init, reach it.                               *)

\* The line settles at a level, by a latch and a direction.
SettlesAt(line, level) ==
  IF level = "FLOATING" THEN Settles("DDR", dir, ToSet(todo), line, 0)
  ELSE /\ Settles("DDR", dir, ToSet(todo), line, 1)
       /\ Settles("PORT", out, ToSet(todo), line, LevelBit(line, level))

\* The routine called is the handler of a device that is wired to this line.
Sets(line) == call.op = "SET" /\ Driver[call.arg].line = line

OwnInv ==
  \A a \in ToSet(todo) : a.line \in Lines =>
    \/ Sets(a.line)
    \/ call.op = "INIT" /\ a.op = "DDR" /\ a.value = 1 /\ a.line \in InitDrives
\* A handler of a level changes the latch, then the direction; one that lets a
\* line float changes the direction first.
OrderInv ==
  call.op = "SET" /\ todo # <<>> =>
    \A a \in ToSet(Tail(todo)) :
      a.op # IF asked[Driver[call.arg].line] = "FLOATING" THEN "DDR" ELSE "PORT"
LineInv ==
  /\ call = NoCall => todo = <<>> /\ \A line \in Lines : asked[line] = "ANY"
  /\ call # NoCall => \A led \in Leds : Settles("DDR", dir, ToSet(todo), led, 1)
  /\ call.op = "SET" => call.arg \in Devices
  /\ call.op = "SET" /\ todo # <<>> => asked[Driver[call.arg].line] # "ANY"
  /\ \A line \in Lines : asked[line] # "ANY" => SettlesAt(line, asked[line])
LinesInv == OwnInv /\ OrderInv /\ LineInv /\ LevelsAsAsked

\* A line that nothing reaches any more shows the level that it settled at.
LEMMA ShownSettled ==
  ASSUME ArchTypeOK, NEW line \in Lines, NEW level \in Levels, SettlesAt(line, level),
         \A a \in ToSet(todo) : a.line # line
  PROVE  Shown(line) = level
<1>1. line \in PortLines
  BY DEF PortLines
<1>2. out[line] \in {0, 1} /\ dir[line] \in {0, 1}
  BY <1>1 DEF ArchTypeOK
<1>3. CASE level = "FLOATING"
  <2>1. dir[line] = 0
    BY <1>3, SettlesElsewhere DEF SettlesAt
  <2> QED
    BY <1>3, <2>1 DEF Shown, Drive, Opposite
<1>4. CASE level # "FLOATING"
  <2>1. dir[line] = 1 /\ out[line] = LevelBit(line, level)
    BY <1>4, SettlesElsewhere DEF SettlesAt
  <2>2. level = "HIGH" \/ level = "LOW"
    BY <1>4 DEF Levels
  <2> QED
    BY <2>1, <2>2 DEF Shown, Drive, Opposite, LevelBit
<1> QED
  BY <1>3, <1>4

\* What a line shows, by its latch and its direction.
LEMMA Showing ==
  ASSUME ArchTypeOK, NEW line \in Lines
  PROVE  /\ out[line] \in {0, 1} /\ dir[line] \in {0, 1}
         /\ dir[line] = 0 <=> Shown(line) = "FLOATING"
         /\ \A level \in {"HIGH", "LOW"} :
              Shown(line) = level <=> dir[line] = 1 /\ out[line] = LevelBit(line, level)
<1>1. line \in PortLines
  BY DEF PortLines
<1>2. out[line] \in {0, 1} /\ dir[line] \in {0, 1}
  BY <1>1 DEF ArchTypeOK
<1> QED
  BY <1>2 DEF Shown, Drive, Opposite, LevelBit

\* The lines that asdf_arch_init drives are those it makes outputs.
LEMMA InitDrivesLines ==
  ASSUME NEW line
  PROVE  line \in InitDrives <=> \E a \in ToSet(InitProgram) : a.op = "DDR" /\ a.line = line
BY DEF InitDrives, ToSet

\* A call preserves the invariant of the outputs: lines that have settled stay so
\* unless the call is for them.
LEMMA LinesCall ==
  ASSUME ArchTypeOK, LinesInv, NEW c \in Calls, Call(c)
  PROVE  LinesInv'
<1>1. /\ todo = <<>> /\ todo' = Program(c) /\ call' = c /\ c # NoCall
      /\ call = NoCall => c.op = "INIT"
      /\ asked' = AskedBy(c) /\ dir' = dir /\ out' = out /\ board' = board
  BY CallEffects DEF lineVars
<1>2. /\ Inverted' = Inverted /\ InitDrives' = InitDrives /\ board \in Boards
      /\ asked \in [Lines -> Levels \union {"ANY"}]
      /\ \A line : Shown(line)' = Shown(line)
  BY <1>1 DEF ArchTypeOK, Inverted, InitDrives, InitProgram, Shown, Drive
<1>3. \A line : LevelBit(line, asked[line])' = LevelBit(line, asked'[line])
  BY <1>2 DEF LevelBit
<1>4. ToSet(todo) = {}
  BY <1>1, TupleSets
\* Before the call every line has settled.
<1>5. /\ \A line \in Lines : asked[line] # "ANY" =>
           /\ Shown(line) = asked[line]
           /\ IF asked[line] = "FLOATING" THEN dir[line] = 0
              ELSE dir[line] = 1 /\ out[line] = LevelBit(line, asked[line])
      /\ call # NoCall => \A led \in Leds : dir[led] = 1
  BY <1>1, <1>4, Settled DEF LinesInv, LineInv, LevelsAsAsked, SettlesAt
<1> HIDE DEF Calls
\* What is left to prove then, whichever routine is called.
<1>6. ASSUME NEW line \in Lines, asked'[line] = asked[line], asked[line] # "ANY",
             \A a \in ToSet(todo') : a.line # line
      PROVE  SettlesAt(line, asked[line])'
  <2>1. IF asked[line] = "FLOATING" THEN dir'[line] = 0
        ELSE dir'[line] = 1 /\ out'[line] = LevelBit(line, asked[line])'
    BY <1>1, <1>3, <1>5, <1>6
  <2> QED
    BY <2>1, <1>6 DEF SettlesAt, Settles
<1>7. ASSUME \A line \in Lines : asked'[line] # "ANY" => SettlesAt(line, asked[line])',
              \A led \in Leds : Settles("DDR", dir', ToSet(todo'), led, 1),
              c.op = "SET" => /\ c.arg \in Devices
                              /\ todo' # <<>> => asked'[Driver[c.arg].line] # "ANY"
       PROVE  LineInv'
  BY <1>1, <1>7 DEF LineInv
<1>8. ASSUME \A line \in Lines :
                asked'[line] # "ANY"
                /\ (todo' = <<>> \/ c.op # "SET" \/ Driver[c.arg].line # line)
                => asked'[line] = asked[line]
       PROVE  LevelsAsAsked'
  BY <1>1, <1>2, <1>5, <1>8 DEF LevelsAsAsked
<1>9. CASE c.op \in Polarities \union {"SEND", "READ"}
  <2>1. asked' = asked /\ c.op # "SET" /\ c.op # "INIT" /\ call # NoCall
    BY <1>1, <1>9 DEF AskedBy, Polarities
  <2>2. \A a \in ToSet(todo') : a.line \notin Lines
    <3>1. CASE c.op \in Polarities
      <4>1. todo' = Idle(c.op)
        BY <1>1, <1>2, <3>1, Programs, StrobeProgramShape
      <4> QED
        BY <4>1, IdleShape, AccessFields, TheLines
    <3>2. CASE c.op = "SEND"
      <4>1. todo' = Pulse(c.arg) /\ c.arg \in 0..255
        BY <1>1, <1>2, <3>2, Programs, SendProgramShape, CallArgs
      <4>2. ToSet(todo') =
              {Access("ASCII", "ASCII", Encoded(c.arg)), Access("PIN", "STROBE", 1)}
        BY <4>1, PulseShape
      <4> QED
        BY <4>2, AccessFields, TheLines
    <3>3. CASE c.op = "READ"
      <4>1. ReadShape(todo')
        BY <1>1, <1>2, <3>3, Programs, ReadProgramShape, CallArgs
      <4> QED
        BY <4>1 DEF ReadShape, Reads
    <3> QED
      BY <1>9, <3>1, <3>2, <3>3
  <2>3. \A line \in Lines : asked'[line] # "ANY" => SettlesAt(line, asked[line])'
    BY <1>6, <2>1, <2>2
  <2>4. \A led \in Leds : Settles("DDR", dir', ToSet(todo'), led, 1)
    BY <1>1, <1>5, <2>1, <2>2, TheLines DEF Settles, Leds
  <2>5. LineInv' /\ LevelsAsAsked'
    BY <1>7, <1>8, <2>1, <2>3, <2>4
  <2> QED
    BY <1>1, <2>1, <2>2, <2>5 DEF LinesInv, OwnInv, OrderInv
<1>10. CASE c.op = "INIT"
  <2>1. InitShape(todo', Default)
    BY <1>1, <1>2, <1>10, Programs, InitProgramShape
  <2>2. /\ \A a \in ToSet(todo') : a.line \in Lines =>
             a.op = "DDR" /\ a.value = 1 /\ a.line \in InitDrives
        /\ \A led \in Leds : Access("DDR", led, 1) \in ToSet(todo')
    BY <1>1, <1>10, <2>1, Programs, InitDrivesLines DEF InitShape, InitAccess
  <2>3. \A line \in Lines :
          asked'[line] = IF line \in InitDrives /\ asked[line] = "FLOATING" THEN "ANY"
                         ELSE asked[line]
    BY <1>1, <1>10 DEF AskedBy, Polarities
  <2>4. \A line \in Lines : asked'[line] # "ANY" => SettlesAt(line, asked[line])'
    <3>1. ASSUME NEW line \in Lines, asked'[line] # "ANY"
          PROVE  SettlesAt(line, asked[line])'
      <4>1. asked'[line] = asked[line] /\ ~(line \in InitDrives /\ asked[line] = "FLOATING")
        BY <2>3, <3>1
      <4>2. CASE line \notin InitDrives
        BY <1>6, <2>2, <3>1, <4>1, <4>2
      <4>3. CASE line \in InitDrives
        <5>1. /\ asked[line] # "FLOATING" /\ dir'[line] = 1
              /\ out'[line] = LevelBit(line, asked[line])'
          BY <1>1, <1>3, <1>5, <3>1, <4>1, <4>3
        <5> QED
          BY <2>2, <4>1, <5>1 DEF SettlesAt, Settles
      <4> QED
        BY <4>2, <4>3
    <3> QED
      BY <3>1
  <2>5. \A led \in Leds : Settles("DDR", dir', ToSet(todo'), led, 1)
    BY <2>2, AccessFields, TheLines DEF Settles, Leds
  <2> QED
    <3>1. LineInv'
      BY <1>10, <1>7, <2>4, <2>5
    <3>2. LevelsAsAsked'
      BY <1>8, <2>3
    <3> QED
      BY <1>1, <1>2, <1>10, <2>2, <3>1, <3>2 DEF LinesInv, OwnInv, OrderInv
<1>11. CASE c.op = "SET"
  <2> DEFINE d == c.arg
             own == Driver[d].line
             level == Level(d, c.value)
  <2>1. d \in Devices /\ c.value \in Values /\ call # NoCall
    BY <1>1, <1>11, CallArgs
  <2>2. own \in Lines /\ level \in Levels
    BY <2>1, PhysicalAssumption DEF Lines, Level, Levels
  <2>3. SetShape(todo', d, c.value)
    BY <1>1, <1>2, <1>11, <2>1, Programs, SetProgramShape
  <2>4. asked' = IF Connected(d) THEN [asked EXCEPT ![own] = level] ELSE asked
    BY <1>1, <1>11 DEF AskedBy, Polarities
  <2>5. \A a \in ToSet(todo') :
          /\ Connected(d) /\ a.line = own
          /\ \/ a.op = "DDR" /\ a.value = IF level = "FLOATING" THEN 0 ELSE 1
             \/ a.op = "PORT" /\ level # "FLOATING" /\ a.value = LevelBit(own, level)
             \/ a.op = "PORT" /\ level = "FLOATING"
    <3>1. SetShape(todo', c.arg, c.value) /\ c.arg \in Devices
      BY <2>1, <2>3
    <3>2. \A a \in ToSet(todo') : SetAccess(a, c.arg, c.value)
      BY <3>1, SetAccesses
    <3> QED
      BY <3>2 DEF SetAccess
  <2> HIDE DEF d, own, level
  <2>6. \A line \in Lines : asked'[line] # "ANY" /\ line # own => SettlesAt(line, asked[line])'
    BY <1>2, <1>6, <2>2, <2>4, <2>5
  <2>7. CASE ~Connected(d)
    <3>1. asked' = asked /\ ToSet(todo') = {} /\ todo' = <<>>
      BY <2>3, <2>4, <2>7, TupleSets DEF SetShape, d
    <3>2. \A line \in Lines : asked'[line] # "ANY" => SettlesAt(line, asked[line])'
      BY <1>6, <3>1
    <3>3. \A led \in Leds : Settles("DDR", dir', ToSet(todo'), led, 1)
      BY <1>1, <1>5, <2>1, <3>1, Settled
    <3> QED
      <4>1. LineInv' /\ LevelsAsAsked'
        BY <1>11, <1>7, <1>8, <2>1, <3>1, <3>2, <3>3 DEF d
      <4> QED
        BY <1>1, <3>1, <4>1 DEF LinesInv, OwnInv, OrderInv
  <2>8. CASE Connected(d)
    <3>1. asked'[own] = level /\ (\A line \in Lines \ {own} : asked'[line] = asked[line])
      BY <1>2, <2>2, <2>4, <2>8
    <3>2. /\ todo' # <<>>
          /\ level = "FLOATING" => \E a \in ToSet(todo') : a.op = "DDR"
          /\ level # "FLOATING" =>
               /\ \E a \in ToSet(todo') : a.op = "PORT"
               /\ own \in Leds \/ \E a \in ToSet(todo') : a.op = "DDR"
          /\ \A a \in ToSet(Tail(todo')) : a.op # IF level = "FLOATING" THEN "DDR" ELSE "PORT"
      BY <2>1, <2>3, <2>8, SetOrder DEF d, own, level
    <3>3. \A a \in ToSet(todo') : a.line = own
      BY <2>5
    <3>4. \A led \in Leds : Settles("DDR", dir', ToSet(todo'), led, 1)
      <4>1. own \in Leds => level # "FLOATING"
        BY <2>1, LedLevels DEF d, own, level
      <4> QED
        BY <1>1, <1>5, <2>1, <2>5, <4>1 DEF Settles
    <3>5. SettlesAt(own, asked[own])'
      <4>1. CASE level = "FLOATING"
        <5>1. Settles("DDR", dir', ToSet(todo'), own, 0)
          BY <2>5, <3>2, <4>1 DEF Settles
        <5> QED
          BY <3>1, <4>1, <5>1 DEF SettlesAt
      <4>2. CASE level # "FLOATING"
        <5>1. Settles("DDR", dir', ToSet(todo'), own, 1)
          BY <1>1, <1>5, <2>1, <2>5, <3>2, <4>2 DEF Settles
        <5>2. Settles("PORT", out', ToSet(todo'), own, LevelBit(own, level))
          BY <2>5, <3>2, <4>2 DEF Settles
        <5>3. LevelBit(own, asked[own])' = LevelBit(own, level)
          BY <1>3, <3>1
        <5> QED
          BY <3>1, <4>2, <5>1, <5>2, <5>3 DEF SettlesAt
      <4> QED
        BY <4>1, <4>2
    <3> QED
      <4>1. \A line \in Lines : asked'[line] # "ANY" => SettlesAt(line, asked[line])'
        BY <2>6, <3>1, <3>5
      <4>2. LineInv'
        BY <1>11, <1>7, <2>1, <2>2, <3>1, <3>4, <4>1 DEF d, own, Levels
      <4>3. LevelsAsAsked'
        BY <1>11, <1>8, <3>1, <3>2 DEF d, own
      <4>4. OwnInv'
        BY <1>1, <1>11, <3>3 DEF OwnInv, Sets, d, own
      <4>5. OrderInv'
        BY <1>1, <3>1, <3>2 DEF OrderInv, d, own
      <4> QED
        BY <4>2, <4>3, <4>4, <4>5 DEF LinesInv
  <2> QED
    BY <2>7, <2>8
<1> QED
  BY <1>9, <1>10, <1>11, CallArgs

\* An access preserves the invariant of the outputs.
LEMMA LinesAccess ==
  ASSUME ArchTypeOK, LinesInv, AccessStep
  PROVE  LinesInv'
<1> DEFINE a == Head(todo)
<1>1. /\ todo # <<>> /\ todo' = Tail(todo) /\ todo \in Seq(Accesses)
      /\ ToSet(todo) = {a} \union ToSet(todo')
      /\ call' = call /\ asked' = asked /\ board' = board
      /\ \A line \in PortLines :
           /\ dir'[line] = IF a.op = "DDR" /\ a.line = line THEN a.value ELSE dir[line]
           /\ out'[line] = IF a.op = "PORT" /\ a.line = line THEN a.value
                           ELSE IF a.op = "PIN" /\ a.line = line THEN 1 - out[line] ELSE out[line]
  BY AccessEffects DEF ghostVars, ArchTypeOK
<1>2. Lines \subseteq PortLines /\ Leds \subseteq Lines
  BY TheLines DEF PortLines, Leds
<1>3. a.op = "PIN" => a.line \notin Lines
  BY <1>1, AccessEffects, TheLines DEF Accesses
<1>4. ArchTypeOK'
  BY TypeAccess
<1> HIDE DEF a
<1>5. /\ Inverted' = Inverted /\ InitDrives' = InitDrives
      /\ \A line : Sets(line)' = Sets(line)
  BY <1>1 DEF Inverted, InitDrives, InitProgram, Sets
<1>6. \A line : LevelBit(line, asked[line])' = LevelBit(line, asked[line])
  BY <1>1, <1>5 DEF LevelBit
<1>7. OwnInv'
  BY <1>1, <1>5 DEF LinesInv, OwnInv
<1>8. OrderInv'
  <2>1. CASE call.op = "SET" /\ todo' # <<>>
    <3>1. todo' \in Seq(Accesses)
      BY <1>1, TailSet
    <3>2. ToSet(Tail(todo')) \subseteq ToSet(todo')
      BY <2>1, <3>1, TailSet
    <3> QED
      BY <1>1, <2>1, <3>2 DEF LinesInv, OrderInv
  <2>2. CASE ~(call.op = "SET" /\ todo' # <<>>)
    BY <1>1, <2>2 DEF OrderInv
  <2> QED
    BY <2>1, <2>2
<1>9. ASSUME NEW line \in Lines, asked[line] # "ANY"
      PROVE  SettlesAt(line, asked[line])'
  <2>1. SettlesAt(line, asked[line]) /\ line \in PortLines
    BY <1>2, <1>9 DEF LinesInv, LineInv
  <2>2. CASE asked[line] = "FLOATING"
    <3>1. Settles("DDR", dir, {a} \union ToSet(todo'), line, 0)
      BY <1>1, <2>1, <2>2 DEF SettlesAt
    <3>2. Settles("DDR", dir', ToSet(todo'), line, 0)
      BY <1>1, <2>1, <3>1, SettlesNext
    <3> QED
      BY <1>1, <2>2, <3>2 DEF SettlesAt
  <2>3. CASE asked[line] # "FLOATING"
    <3>1. /\ Settles("DDR", dir, {a} \union ToSet(todo'), line, 1)
          /\ Settles("PORT", out, {a} \union ToSet(todo'), line, LevelBit(line, asked[line]))
      BY <1>1, <2>1, <2>3 DEF SettlesAt
    <3>2. Settles("DDR", dir', ToSet(todo'), line, 1)
      BY <1>1, <2>1, <3>1, SettlesNext
    <3>3. out'[line] = IF a.op = "PORT" /\ a.line = line THEN a.value ELSE out[line]
      BY <1>1, <1>3, <1>9, <2>1
    <3>4. Settles("PORT", out', ToSet(todo'), line, LevelBit(line, asked[line]))
      BY <3>1, <3>3, SettlesNext
    <3> QED
      BY <1>1, <1>6, <2>3, <3>2, <3>4 DEF SettlesAt
  <2> QED
    BY <2>2, <2>3
<1>10. LineInv'
  <2>1. ASSUME call # NoCall, NEW led \in Leds
        PROVE  Settles("DDR", dir', ToSet(todo'), led, 1)
    <3>1. Settles("DDR", dir, {a} \union ToSet(todo'), led, 1) /\ led \in PortLines
      BY <1>1, <1>2, <2>1 DEF LinesInv, LineInv
    <3> QED
      BY <1>1, <3>1, SettlesNext
  <2>2. call # NoCall
    BY <1>1 DEF LinesInv, LineInv
  <2> QED
    BY <1>1, <1>9, <2>1, <2>2 DEF LinesInv, LineInv
<1>11. LevelsAsAsked'
  <2> SUFFICES ASSUME NEW line \in Lines, asked[line] # "ANY",
                      todo' = <<>> \/ call.op # "SET" \/ Driver[call.arg].line # line
               PROVE  Shown(line)' = asked[line]
    BY <1>1 DEF LevelsAsAsked
  <2>1. SettlesAt(line, asked[line])' /\ asked[line] \in Levels /\ line \in PortLines
    BY <1>2, <1>9 DEF ArchTypeOK
  <2>2. dir[line] \in {0, 1} /\ out[line] \in {0, 1}
    BY <2>1 DEF ArchTypeOK
  <2>3. CASE a.line # line /\ ~Sets(line)
    <3>1. dir'[line] = dir[line] /\ out'[line] = out[line]
      BY <1>1, <2>1, <2>3
    <3>2. Shown(line) = asked[line]
      BY <2>3 DEF LinesInv, LevelsAsAsked, Sets
    <3> QED
      BY <1>5, <3>1, <3>2 DEF Shown, Drive
  <2>4. CASE a.line = line /\ ~Sets(line)
    <3>1. a.op = "DDR" /\ a.value = 1
      BY <1>1, <2>4 DEF LinesInv, OwnInv
    <3>2. Shown(line) = asked[line]
      BY <2>4 DEF LinesInv, LevelsAsAsked, Sets
    <3>3. asked[line] # "FLOATING"
      BY <1>1, <2>4, <3>1 DEF LinesInv, LineInv, SettlesAt, Settles
    <3>4. dir[line] = 1
      BY <2>2, <3>2, <3>3, Showing
    <3>5. dir'[line] = 1 /\ out'[line] = out[line]
      BY <1>1, <2>1, <2>4, <3>1
    <3> QED
      BY <1>5, <3>2, <3>4, <3>5 DEF Shown, Drive
  <2>5. CASE Sets(line)
    <3>1. todo' = <<>> /\ ToSet(todo') = {}
      BY <2>5, TupleSets DEF Sets
    <3>2. dir'[line] \in {0, 1} /\ out'[line] \in {0, 1}
      BY <1>4, <2>1 DEF ArchTypeOK
    <3>3. CASE asked[line] = "FLOATING"
      <4>1. Settles("DDR", dir', {}, line, 0)
        BY <1>1, <2>1, <3>1, <3>3 DEF SettlesAt
      <4>2. dir'[line] = 0
        BY <4>1, Settled
      <4> QED
        BY <3>3, <4>2 DEF Shown, Drive, Opposite
    <3>4. CASE asked[line] # "FLOATING"
      <4>1. /\ Settles("DDR", dir', {}, line, 1)
            /\ Settles("PORT", out', {}, line, LevelBit(line, asked[line]))
        BY <1>1, <1>6, <2>1, <3>1, <3>4 DEF SettlesAt
      <4>2. dir'[line] = 1 /\ out'[line] = LevelBit(line, asked[line])
        BY <4>1, Settled
      <4>3. asked[line] = "HIGH" \/ asked[line] = "LOW"
        BY <2>1, <3>4 DEF Levels
      <4> QED
        BY <1>5, <4>2, <4>3 DEF Shown, Drive, Opposite, LevelBit
    <3> QED
      BY <3>3, <3>4
  <2> QED
    BY <2>3, <2>4, <2>5
<1> QED
  BY <1>7, <1>8, <1>10, <1>11 DEF LinesInv

\* It is an invariant, of every board and for all devices in use.
LEMMA LinesInvariant == Spec => []LinesInv
<1>1. Init => LinesInv
  <2> SUFFICES ASSUME Init PROVE LinesInv
    OBVIOUS
  <2>1. /\ call = NoCall /\ todo = <<>> /\ ToSet(todo) = {} /\ call.op # "SET"
        /\ \A line \in Lines : asked[line] = "ANY"
    BY TupleSets DEF Init, NoCall
  <2> QED
    BY <2>1 DEF LinesInv, OwnInv, OrderInv, LineInv, LevelsAsAsked
<1>2. ArchTypeOK /\ LinesInv /\ [Next]_vars => LinesInv'
  <2> SUFFICES ASSUME ArchTypeOK, LinesInv, [Next]_vars PROVE LinesInv'
    OBVIOUS
  <2>1. CASE Next
    BY <2>1, Steps, LinesCall, LinesAccess
  <2>2. CASE UNCHANGED vars
    <3>1. UNCHANGED <<board, call, todo, out, dir, asked>>
      BY <2>2 DEF vars, lineVars, ghostVars
    <3>2. /\ Inverted' = Inverted /\ InitDrives' = InitDrives
      BY <3>1 DEF Inverted, InitDrives, InitProgram
    <3>3. /\ \A line, level : SettlesAt(line, level)' = SettlesAt(line, level)
          /\ \A line : SettlesAt(line, asked[line])' = SettlesAt(line, asked[line])
          /\ \A line : Sets(line)' = Sets(line) /\ Shown(line)' = Shown(line)
      BY <3>1, <3>2 DEF SettlesAt, LevelBit, Sets, Shown, Drive
    <3> QED
      BY <3>1, <3>2, <3>3 DEF LinesInv, OwnInv, OrderInv, LineInv, LevelsAsAsked
  <2> QED
    BY <2>1, <2>2
<1> QED
  BY <1>1, <1>2, Typed, PTL DEF Spec

\* Each line shows the level that it was asked for last, on every board and
\* with any devices in use: a device that shares the line, the routine that
\* makes all of them outputs, and every other call leave it so.
THEOREM AsAsked == Spec => []LevelsAsAsked
<1>1. LinesInv => LevelsAsAsked
  BY DEF LinesInv
<1> QED
  BY <1>1, LinesInvariant, PTL

\* On its way to a new level a line shows no other, and only asdf_arch_init
\* drives a line that floats: the order in which a handler changes the latch
\* and the direction is the right one from each level to each other.
THEOREM Glitchless == Spec => NoGlitch
<1> DEFINE Change(line) ==
             \/ call.op = "SET" /\ Driver[call.arg].line = line /\ Shown(line)' = asked[line]
             \/ call.op = "INIT" /\ line \in InitDrives /\ Shown(line) = "FLOATING"
<1>1. ASSUME ArchTypeOK, LinesInv, Next, NEW line \in Lines, Shown(line)' # Shown(line)
      PROVE  Change(line)
  <2>1. CASE \E c \in Calls : Call(c)
    <3>1. board' = board /\ out' = out /\ dir' = dir
      BY <1>1, <2>1 DEF Call, lineVars
    <3> QED
      BY <1>1, <3>1 DEF Shown, Drive, Inverted
  <2>2. CASE AccessStep
    <3> DEFINE a == Head(todo)
    <3>1. /\ todo # <<>> /\ todo' = Tail(todo)
          /\ ToSet(todo) = {a} \union ToSet(todo')
          /\ a \in Accesses /\ call' = call /\ asked' = asked /\ board' = board
          /\ line \in PortLines
          /\ dir'[line] = IF a.op = "DDR" /\ a.line = line THEN a.value ELSE dir[line]
          /\ out'[line] = IF a.op = "PORT" /\ a.line = line THEN a.value
                          ELSE IF a.op = "PIN" /\ a.line = line THEN 1 - out[line] ELSE out[line]
      BY <1>1, <2>2, AccessEffects DEF ghostVars, PortLines
    <3>2. a.op = "PIN" => a.line # line
      BY <3>1, TheLines DEF Accesses
    <3> HIDE DEF a
    <3>3. Inverted' = Inverted
      BY <3>1 DEF Inverted
    <3>4. a.line = line /\ a.op \in {"DDR", "PORT"}
      BY <1>1, <3>1, <3>2, <3>3 DEF Shown, Drive
    <3>5. CASE Sets(line)
      <4>1. /\ asked[line] # "ANY" /\ SettlesAt(line, asked[line])
            /\ \A b \in ToSet(todo') :
                 b.op # IF asked[line] = "FLOATING" THEN "DDR" ELSE "PORT"
        BY <1>1, <3>1, <3>5 DEF LinesInv, OrderInv, LineInv, Sets
      <4>2. asked[line] \in Levels
        BY <1>1, <4>1 DEF ArchTypeOK
      <4>3. CASE asked[line] = "FLOATING"
        <5>1. a.op = "DDR"
          <6>1. CASE a.op = "PORT"
            <7>1. dir[line] = 0
              BY <3>1, <4>1, <4>3, <6>1 DEF SettlesAt, Settles
            <7> QED
              BY <1>1, <3>1, <3>3, <6>1, <7>1 DEF Shown, Drive, Opposite
          <6> QED
            BY <3>4, <6>1
        <5>2. dir'[line] = 0
          BY <3>1, <3>4, <4>1, <4>3, <5>1 DEF SettlesAt, Settles
        <5> QED
          BY <3>5, <4>3, <5>2 DEF Sets, Shown, Drive, Opposite
      <4>4. CASE asked[line] # "FLOATING"
        <5>1. CASE a.op = "PORT"
          <6>1. out'[line] = LevelBit(line, asked[line]) /\ dir'[line] = dir[line]
            BY <3>1, <3>4, <4>1, <4>4, <5>1 DEF SettlesAt, Settles
          <6>2. dir[line] = 1
            BY <1>1, <3>1, <3>3, <6>1, Showing DEF Shown, Drive, Opposite
          <6> QED
            BY <3>3, <3>5, <4>2, <4>4, <6>1, <6>2 DEF Sets, Shown, Drive, Opposite, Levels,
            LevelBit
        <5>2. CASE a.op = "DDR"
          <6>1. out'[line] = LevelBit(line, asked[line]) /\ dir'[line] = 1
            BY <3>1, <3>4, <4>1, <4>4, <5>2 DEF SettlesAt, Settles
          <6> QED
            BY <3>3, <3>5, <4>2, <4>4, <6>1 DEF Sets, Shown, Drive, Opposite, Levels, LevelBit
        <5> QED
          BY <3>4, <5>1, <5>2
      <4> QED
        BY <4>3, <4>4
    <3>6. CASE ~Sets(line)
      <4>1. call.op = "INIT" /\ a.op = "DDR" /\ a.value = 1 /\ line \in InitDrives
        BY <1>1, <3>1, <3>4, <3>6 DEF LinesInv, OwnInv
      <4>2. dir[line] # 1
        BY <1>1, <3>1, <3>3, <3>4, <4>1 DEF Shown, Drive
      <4>3. Shown(line) = "FLOATING"
        BY <1>1, <4>2, Showing
      <4> QED
        BY <4>1, <4>3
    <3> QED
      BY <3>5, <3>6
  <2> QED
    BY <1>1, <2>1, <2>2, Steps
<1>2. ASSUME ArchTypeOK, LinesInv, [Next]_vars
      PROVE  [\A line \in Lines : Shown(line)' # Shown(line) => Change(line)]_vars
  BY <1>1, <1>2
<1> QED
  BY <1>2, Typed, LinesInvariant, PTL DEF Spec, NoGlitch

-----------------------------------------------------------------------------
(* The port keeps its promise: AsdfArch implements StrobePort.             *)

Possible == Codes \union {0, DataPolarity}
DataInv ==
  /\ Encoded(data) \in Possible
  /\ \A a \in ToSet(todo) : a.op = "ASCII" => Encoded(a.value) \in Possible
  /\ call.op = "SEND" => call.arg \in Codes
  /\ call.op = "SEND" /\ todo \in {<<Pin, Pin>>, <<Pin>>} => data = Encoded(call.arg)

\* Inverting twice gives the code back, and zero is encoded as the polarity.
LEMMA Decoded ==
  /\ \A code \in 0..255 : Encoded(Encoded(code)) = code /\ Encoded(code) \in 0..255
  /\ Encoded(0) = DataPolarity /\ Encoded(DataPolarity) = 0
BY PinsAssumption DEF Encoded

\* The tuples that asdf_arch_send_code goes through.
LEMMA Pulses ==
  ASSUME NEW code
  PROVE  LET send == Access("ASCII", "ASCII", Encoded(code)) IN
         /\ Pulse(code) = <<send, Pin, Pin>>
         /\ Pulse(code) # <<>> /\ Head(Pulse(code)) = send /\ Tail(Pulse(code)) = <<Pin, Pin>>
         /\ <<Pin, Pin>> # <<>> /\ Head(<<Pin, Pin>>) = Pin /\ Tail(<<Pin, Pin>>) = <<Pin>>
         /\ <<Pin>> # <<>> /\ Head(<<Pin>>) = Pin /\ Tail(<<Pin>>) = <<>>
         /\ <<Pin>> # <<Pin, Pin>> /\ Pulse(code) \notin {<<Pin, Pin>>, <<Pin>>}
         /\ send.op = "ASCII" /\ send.value = Encoded(code)
         /\ Pin.op = "PIN" /\ Pin.line = "STROBE"
BY AccessFields DEF Pulse, Pin

\* A call preserves the invariant of the data.
LEMMA DataCall ==
  ASSUME ArchTypeOK, DataInv, NEW c \in Calls, Call(c)
  PROVE  DataInv'
<1>1. todo' = Program(c) /\ call' = c /\ data' = data /\ board \in Boards
  BY CallEffects DEF portVars, ArchTypeOK
<1>2. CASE c.op = "SEND"
  <2>1. todo' = Pulse(c.arg) /\ c.arg \in 0..255 /\ c.arg \in Codes
    BY <1>1, <1>2, Programs, SendProgramShape, CallArgs
  <2>2. ToSet(todo') = {Access("ASCII", "ASCII", Encoded(c.arg)), Access("PIN", "STROBE", 1)}
    BY <2>1, PulseShape
  <2>3. todo' \notin {<<Pin, Pin>>, <<Pin>>}
    BY <2>1, Pulses
  <2>4. Encoded(Encoded(c.arg)) \in Possible
    BY <2>1, Decoded DEF Possible
  <2> QED
    BY <1>1, <2>1, <2>2, <2>3, <2>4, AccessFields DEF DataInv
<1>3. ASSUME c.op # "SEND", NEW a \in ToSet(todo'), a.op = "ASCII"
      PROVE  Encoded(a.value) \in Possible
  <2>1. CASE c.op = "INIT"
    <3>1. InitShape(todo', Default)
      BY <1>1, <2>1, Programs, InitProgramShape
    <3>2. a.value = DataPolarity
      BY <1>3, <3>1 DEF InitShape, InitAccess
    <3> QED
      BY <3>2, Decoded DEF Possible
  <2>2. CASE c.op \in Polarities
    <3>1. todo' = Idle(c.op)
      BY <1>1, <2>2, Programs, StrobeProgramShape
    <3> QED
      BY <1>3, <3>1, IdleShape, AccessFields
  <2>3. CASE c.op = "SET"
    <3>1. SetShape(todo', c.arg, c.value) /\ c.arg \in Devices
      BY <1>1, <2>3, Programs, SetProgramShape, CallArgs
    <3>2. SetAccess(a, c.arg, c.value)
      BY <1>3, <3>1, SetAccesses
    <3> QED
      BY <1>3, <3>2 DEF SetAccess
  <2>4. CASE c.op = "READ"
    <3>1. ReadShape(todo')
      BY <1>1, <2>4, Programs, ReadProgramShape, CallArgs
    <3> QED
      BY <1>3, <3>1 DEF ReadShape, Reads
  <2> QED
    BY <1>3, <2>1, <2>2, <2>3, <2>4, CallArgs
<1> QED
  BY <1>1, <1>2, <1>3 DEF DataInv

\* An access preserves the invariant of the data.
LEMMA DataAccess ==
  ASSUME ArchTypeOK, StrobeInv, DataInv, AccessStep
  PROVE  DataInv'
<1>1. /\ todo # <<>> /\ todo' = Tail(todo) /\ call' = call
      /\ ToSet(todo) = {Head(todo)} \union ToSet(todo')
      /\ data' = IF Head(todo).op = "ASCII" THEN Head(todo).value ELSE data
  BY AccessEffects
<1>2. Encoded(data') \in Possible
  BY <1>1 DEF DataInv
<1>3. CASE call.op = "SEND" /\ call # NoCall
  <2>1. CASE todo = Pulse(call.arg)
    <3>1. data' = Encoded(call.arg)
      BY <1>1, <2>1, Pulses
    <3> QED
      BY <1>1, <1>2, <1>3, <3>1 DEF DataInv
  <2>2. CASE todo = <<Pin, Pin>>
    <3>1. data' = data
      BY <1>1, <2>2, Pulses
    <3> QED
      BY <1>1, <1>2, <1>3, <2>2, <3>1 DEF DataInv
  <2>3. CASE todo = <<Pin>>
    <3>1. todo' \notin {<<Pin, Pin>>, <<Pin>>}
      BY <1>1, <2>3, Pulses
    <3> QED
      BY <1>1, <1>2, <1>3, <3>1 DEF DataInv
  <2> QED
    BY <1>1, <1>3, <2>1, <2>2, <2>3 DEF StrobeInv
<1>4. CASE call.op # "SEND"
  BY <1>1, <1>2, <1>4 DEF DataInv
<1>5. NoCall.op # "SEND"
  BY DEF NoCall
<1> QED
  BY <1>3, <1>4, <1>5

\* It is an invariant.
LEMMA DataInvariant == Spec => []DataInv
<1>1. Init => DataInv
  <2> SUFFICES ASSUME Init PROVE DataInv
    OBVIOUS
  <2>1. data = 0 /\ todo = <<>> /\ ToSet(todo) = {} /\ call.op # "SEND"
    BY TupleSets DEF Init, NoCall
  <2> QED
    BY <2>1, Decoded DEF DataInv, Possible
<1>2. ArchTypeOK /\ StrobeInv /\ DataInv /\ [Next]_vars => DataInv'
  <2> SUFFICES ASSUME ArchTypeOK, StrobeInv, DataInv, [Next]_vars PROVE DataInv'
    OBVIOUS
  <2>1. CASE Next
    BY <2>1, Steps, DataCall, DataAccess
  <2>2. CASE UNCHANGED vars
    BY <2>2 DEF vars, portVars, DataInv
  <2> QED
    BY <2>1, <2>2
<1> QED
  BY <1>1, <1>2, Typed, StrobeInvariant, PTL DEF Spec

-----------------------------------------------------------------------------
\* What the host takes at a step.
Edge ==
  taken' = IF Drive("STROBE") = Opposite(host) /\ Drive("STROBE")' = host
           THEN [code |-> Encoded(data), parity |-> 1 - taken.parity]
           ELSE taken

\* The level that the host takes codes at, and the other one.
LEMMA LevelsOfHost ==
  ASSUME ArchTypeOK
  PROVE  /\ \/ host = "HIGH" /\ Opposite(host) = "LOW"
            \/ host = "LOW" /\ Opposite(host) = "HIGH"
         /\ Port!Opposite(host) = Opposite(host)
         /\ IdleLevel(polarity) = "HIGH" \/ IdleLevel(polarity) = "LOW"
<1>1. host = "HIGH" \/ host = "LOW"
  BY DEF ArchTypeOK
<1>2. Port!Opposite(host) = IF host = "HIGH" THEN "LOW" ELSE "HIGH"
  BY DEF Port!Opposite
<1>3. Opposite(host) = IF host = "HIGH" THEN "LOW" ELSE "HIGH"
  BY <1>1, Zenon DEF Opposite
<1>4. IdleLevel(polarity) = "HIGH" \/ IdleLevel(polarity) = "LOW"
  BY DEF IdleLevel
<1> QED
  BY <1>1, <1>2, <1>3, <1>4

\* The host takes a code at its edge of the strobe, and at no other step.
LEMMA HostTakes ==
  ASSUME ArchTypeOK, AccessStep
  PROVE  Edge
<1>1. CASE WritePort \/ WriteDirection
  BY <1>1 DEF WritePort, WriteDirection, Host, Edge
<1>2. CASE WriteData \/ WriteRows \/ DeselectRow \/ ReadBit \/ ReadColumns
  <2>1. out' = out /\ dir' = dir /\ taken' = taken
    BY <1>2 DEF WriteData, WriteRows, DeselectRow, ReadBit, ReadColumns, lineVars, portVars
  <2>2. Drive("STROBE")' = Drive("STROBE")
    BY <2>1 DEF Drive
  <2> QED
    BY <2>1, <2>2, LevelsOfHost DEF Edge
<1> QED
  BY <1>1, <1>2 DEF AccessStep

\* The refinement mapping, under names of its own.
PortIdle == IF call.op = "SEND" THEN IdleLevel(polarity) ELSE Drive("STROBE")
PortSending == IF Waiting THEN call.arg ELSE NoCode
Stutters == UNCHANGED <<host, PortIdle, PortSending, taken>>
Sends(code) ==
  PortSending = NoCode /\ PortSending' = code /\ UNCHANGED <<host, PortIdle, taken>>
Takes ==
  /\ PortSending # NoCode /\ PortSending' = NoCode
  /\ taken' = [code |-> PortSending, parity |-> 1 - taken.parity]
  /\ UNCHANGED <<host, PortIdle>>
Selects(level) ==
  /\ PortSending = NoCode /\ PortIdle' = level
  /\ IF level = host /\ PortIdle = Opposite(host)
     THEN \E code \in Possible : taken' = [code |-> code, parity |-> 1 - taken.parity]
     ELSE UNCHANGED taken
  /\ UNCHANGED <<host, PortSending>>

\* Steps of the mapped variables are steps of StrobePort.
LEMMA Mapped ==
  ASSUME ArchTypeOK
  PROVE  /\ Stutters => UNCHANGED Port!vars
         /\ \A code \in Codes : Sends(code) => Port!Next
         /\ Takes => Port!Next
         /\ \A level \in {"HIGH", "LOW"} : Selects(level) => Port!Next
<1>1. Stutters => UNCHANGED Port!vars
  BY DEF Stutters, PortIdle, PortSending, Port!vars
<1>2. ASSUME NEW code \in Codes, Sends(code) PROVE Port!Next
  <2>1. Port!Send(code)
    BY <1>2 DEF Sends, PortIdle, PortSending, Port!Send
  <2> QED
    BY <2>1 DEF Port!Next
<1>3. ASSUME Takes PROVE Port!Next
  <2>1. Port!Take
    BY <1>3 DEF Takes, PortIdle, PortSending, Port!Take, Port!Takes
  <2> QED
    BY <2>1 DEF Port!Next
<1>4. ASSUME NEW level \in {"HIGH", "LOW"}, Selects(level) PROVE Port!Next
  <2>1. Port!Select(level)
    BY <1>4, LevelsOfHost
    DEF Selects, PortIdle, PortSending, Possible, Port!Select, Port!Takes
  <2> QED
    BY <2>1 DEF Port!Next
<1> QED
  BY <1>1, <1>2, <1>3, <1>4

\* A call is a step of StrobePort, or changes nothing that the host sees.
LEMMA MappedCall ==
  ASSUME ArchTypeOK, StrobeIdles, NEW c \in Calls, Call(c)
  PROVE  Port!Next \/ UNCHANGED Port!vars
<1>1. /\ todo = <<>> /\ todo' = Program(c) /\ call' = c
      /\ call = NoCall => c.op = "INIT"
      /\ polarity' = SelectedBy(c)
      /\ UNCHANGED <<host, out, dir, data, taken>>
  BY CallEffects DEF lineVars, portVars
<1>2. Drive("STROBE")' = Drive("STROBE")
  BY <1>1 DEF Drive
<1>3. PortSending = NoCode
  BY <1>1 DEF PortSending, Waiting
<1>4. NoCall.op # "SEND"
  BY DEF NoCall
<1>5. PortIdle = Drive("STROBE")
  BY <1>1, <1>4 DEF PortIdle, StrobeIdles
<1>6. CASE c.op = "SEND"
  <2>1. c.arg \in Codes /\ todo' = Pulse(c.arg) /\ polarity' = polarity /\ call # NoCall
    BY <1>1, <1>6, Programs, SendProgramShape, Selections, CallArgs DEF ArchTypeOK, Polarities
  <2>2. Drive("STROBE") = IdleLevel(polarity)
    BY <1>1, <2>1 DEF StrobeIdles
  <2>3. PortIdle' = IdleLevel(polarity)
    BY <1>1, <1>6, <2>1 DEF PortIdle, IdleLevel
  <2>4. Waiting'
    BY <1>1, <1>2, <1>6, <2>1, <2>2, Pulses DEF Waiting, IdleLevel
  <2>5. Sends(c.arg)
    BY <1>1, <1>3, <1>5, <2>2, <2>3, <2>4 DEF Sends, PortSending
  <2> QED
    BY <2>1, <2>5, Mapped
<1>7. CASE c.op # "SEND"
  <2>1. PortIdle' = Drive("STROBE") /\ PortSending' = NoCode
    BY <1>1, <1>2, <1>7 DEF PortIdle, PortSending, Waiting, NoCode
  <2>2. Stutters
    BY <1>1, <1>3, <1>5, <2>1 DEF Stutters
  <2> QED
    BY <2>2, Mapped
<1> QED
  BY <1>6, <1>7

\* An access is a step of StrobePort, or changes nothing that the host sees.
LEMMA MappedAccess ==
  ASSUME ArchTypeOK, StrobeInv, DataInv, AccessStep, call # NoCall
  PROVE  Port!Next \/ UNCHANGED Port!vars
<1>1. /\ todo # <<>> /\ todo' = Tail(todo) /\ host' = host /\ call' = call /\ polarity' = polarity
      /\ dir'["STROBE"] = IF Head(todo).op = "DDR" /\ Head(todo).line = "STROBE"
                          THEN Head(todo).value ELSE dir["STROBE"]
      /\ out'["STROBE"] = IF Head(todo).op = "PORT" /\ Head(todo).line = "STROBE"
                          THEN Head(todo).value
                          ELSE IF Head(todo).op = "PIN" /\ Head(todo).line = "STROBE"
                          THEN 1 - out["STROBE"] ELSE out["STROBE"]
      /\ ToSet(todo) = {Head(todo)} \union ToSet(todo')
  BY AccessEffects, LineTypes DEF ghostVars
<1>2. Edge
  BY HostTakes
<1>3. CASE call.op # "SEND"
  <2>1. /\ PortIdle = Drive("STROBE") /\ PortIdle' = Drive("STROBE")'
        /\ PortSending = NoCode /\ PortSending' = NoCode
    BY <1>1, <1>3 DEF PortIdle, PortSending, Waiting, NoCode
  <2>2. CASE Drive("STROBE")' = Drive("STROBE")
    <3>1. taken' = taken
      BY <1>2, <2>2, LevelsOfHost DEF Edge
    <3> QED
      BY <1>1, <2>1, <2>2, <3>1, Mapped DEF Stutters
  <2>3. CASE Drive("STROBE")' # Drive("STROBE")
    <3>1. Drive("STROBE")' \in {"HIGH", "LOW"}
      <4>1. dir'["STROBE"] = 0 => dir["STROBE"] = 0
        BY <1>1 DEF StrobeInv, Settles
      <4> QED
        BY <2>3, <4>1 DEF Drive
    <3>2. Selects(Drive("STROBE")')
      BY <1>1, <1>2, <2>1 DEF Selects, Edge, DataInv
    <3> QED
      BY <3>1, <3>2, Mapped
  <2> QED
    BY <2>2, <2>3
<1>4. CASE call.op = "SEND"
  <2> DEFINE i == IdleLevel(polarity)
             bit == StrobeBit(polarity)
  <2>1. /\ PortIdle = i /\ PortIdle' = i
        /\ call.arg \in Codes /\ call.arg # NoCode
    BY <1>1, <1>4, ArchAssumption DEF PortIdle, DataInv, IdleLevel, NoCode
  <2>2. dir["STROBE"] = 1 /\ dir'["STROBE"] = 1
    <3>1. call.arg \in 0..255 /\ Pin \in Accesses
      BY <2>1, ArchAssumption, AccessTypes DEF Pin
    <3>2. /\ ToSet(Pulse(call.arg)) =
               {Access("ASCII", "ASCII", Encoded(call.arg)), Access("PIN", "STROBE", 1)}
          /\ ToSet(<<Pin, Pin>>) = {Pin} /\ ToSet(<<Pin>>) = {Pin}
      <4>1. ToSet(Pulse(call.arg)) =
              {Access("ASCII", "ASCII", Encoded(call.arg)), Access("PIN", "STROBE", 1)}
        BY <3>1, PulseShape
      <4>2. ToSet(<<Pin, Pin>>) = {Pin, Pin} /\ ToSet(<<Pin>>) = {Pin}
        BY <3>1, TupleSets
      <4> QED
        BY <4>1, <4>2
    <3>3. todo = Pulse(call.arg) \/ todo = <<Pin, Pin>> \/ todo = <<Pin>>
      BY <1>1, <1>4 DEF StrobeInv
    <3>4. Pin.op = "PIN" /\ Access("ASCII", "ASCII", Encoded(call.arg)).op = "ASCII"
      BY AccessFields DEF Pin
    <3>5. \A a \in ToSet(todo) : a.op # "DDR"
      BY <3>2, <3>3, <3>4 DEF Pin
    <3> QED
      BY <1>1, <3>5 DEF StrobeInv, Settles
  <2>3. /\ bit \in {0, 1} /\ 1 - (1 - bit) = bit
        /\ out["STROBE"] = bit => Drive("STROBE") = i
        /\ out["STROBE"] = 1 - bit => Drive("STROBE") = Opposite(i)
        /\ out'["STROBE"] = bit => Drive("STROBE")' = i
        /\ out'["STROBE"] = 1 - bit => Drive("STROBE")' = Opposite(i)
    <3>1. /\ Drive("STROBE") = IF out["STROBE"] = 1 THEN "HIGH" ELSE "LOW"
          /\ Drive("STROBE")' = IF out'["STROBE"] = 1 THEN "HIGH" ELSE "LOW"
      BY <2>2 DEF Drive
    <3>2. \/ bit = 0 /\ 1 - bit = 1 /\ i = "LOW" /\ Opposite(i) = "HIGH"
          \/ bit = 1 /\ 1 - bit = 0 /\ i = "HIGH" /\ Opposite(i) = "LOW"
      BY DEF StrobeBit, IdleLevel, Opposite
    <3> QED
      BY <3>1, <3>2
  <2>4. /\ i # Opposite(i) /\ Opposite(Opposite(i)) = i
        /\ host = i \/ host = Opposite(i)
    BY LevelsOfHost DEF Opposite
  <2> HIDE DEF i, bit
  <2>5. CASE todo = Pulse(call.arg) /\ out["STROBE"] = bit
    <3>1. todo' # <<>> /\ Drive("STROBE") = i /\ Drive("STROBE")' = i
      BY <1>1, <2>3, <2>5, Pulses
    <3>2. taken' = taken
      BY <1>2, <2>4, <3>1 DEF Edge
    <3>3. PortSending = call.arg /\ PortSending' = call.arg
      BY <1>1, <1>4, <3>1 DEF PortSending, Waiting, i, IdleLevel
    <3> QED
      BY <1>1, <2>1, <3>2, <3>3, Mapped DEF Stutters
  <2>6. CASE todo = <<Pin, Pin>> /\ out["STROBE"] = bit
    <3>1. /\ todo' # <<>> /\ data = Encoded(call.arg)
          /\ Drive("STROBE") = i /\ Drive("STROBE")' = Opposite(i)
      BY <1>1, <1>4, <2>3, <2>6, Pulses DEF DataInv
    <3>2. Waiting /\ PortSending = call.arg
      BY <1>1, <1>4, <3>1 DEF PortSending, Waiting, i
    <3>3. Waiting' <=> host # Opposite(i)
      BY <1>1, <1>4, <2>4, <3>1 DEF Waiting, i, IdleLevel
    <3>4. CASE host = Opposite(i)
      <4>1. taken' = [code |-> call.arg, parity |-> 1 - taken.parity]
        <5>1. Encoded(data) = call.arg
          BY <2>1, <3>1, ArchAssumption, Decoded
        <5> QED
          BY <1>2, <2>4, <3>1, <3>4, <5>1 DEF Edge
      <4>2. PortSending' = NoCode
        BY <3>3, <3>4 DEF PortSending, NoCode
      <4> QED
        BY <1>1, <2>1, <3>2, <4>1, <4>2, Mapped DEF Takes
    <3>5. CASE host = i
      <4>1. taken' = taken
        BY <1>2, <2>4, <3>1, <3>5 DEF Edge
      <4>2. PortSending' = call.arg
        BY <1>1, <2>4, <3>3, <3>5 DEF PortSending
      <4> QED
        BY <1>1, <2>1, <3>2, <4>1, <4>2, Mapped DEF Stutters
    <3> QED
      BY <2>4, <3>4, <3>5
  <2>7. CASE todo = <<Pin>> /\ out["STROBE"] = 1 - bit
    <3>1. /\ todo' = <<>> /\ data = Encoded(call.arg)
          /\ Drive("STROBE") = Opposite(i) /\ Drive("STROBE")' = i
      BY <1>1, <1>4, <2>3, <2>7, Pulses DEF DataInv
    <3>2. PortSending' = NoCode
      BY <3>1 DEF PortSending, Waiting, NoCode
    <3>3. CASE host = i
      <4>1. taken' = [code |-> call.arg, parity |-> 1 - taken.parity]
        <5>1. Encoded(data) = call.arg
          BY <2>1, <3>1, ArchAssumption, Decoded
        <5> QED
          BY <1>2, <2>4, <3>1, <3>3, <5>1 DEF Edge
      <4>2. PortSending = call.arg
        BY <1>1, <1>4, <3>1, <3>3 DEF PortSending, Waiting, i
      <4> QED
        BY <1>1, <2>1, <3>2, <4>1, <4>2, Mapped DEF Takes
    <3>4. CASE host = Opposite(i)
      <4>1. taken' = taken
        BY <1>2, <2>4, <3>1, <3>4 DEF Edge
      <4>2. PortSending = NoCode
        BY <2>4, <3>1, <3>4 DEF PortSending, Waiting, i
      <4> QED
        BY <1>1, <2>1, <3>2, <4>1, <4>2, Mapped DEF Stutters
    <3> QED
      BY <2>4, <3>3, <3>4
  <2> QED
    BY <1>1, <1>4, <2>5, <2>6, <2>7 DEF StrobeInv, bit
<1> QED
  BY <1>3, <1>4

\* The initial states map to those of StrobePort.
LEMMA MappedInit == Init => Port!Init
<1> SUFFICES ASSUME Init PROVE Port!Init
  OBVIOUS
<1>1. /\ host \in {"HIGH", "LOW"} /\ taken = [code |-> NoCode, parity |-> 0]
      /\ call.op # "SEND" /\ dir["STROBE"] = 0
  BY LineTypes DEF Init, NoCall
<1>2. Drive("STROBE") = "FLOATING" /\ ~Waiting
  BY <1>1 DEF Drive, Waiting
<1> QED
  BY <1>1, <1>2 DEF Port!Init

\* The host takes each code that is sent, once and before the next is sent,
\* whichever edge of the strobe it takes them at, and whichever polarity the
\* strobe and the data are configured for; a code that was not sent it may take
\* only when another polarity is selected.
THEOREM Keeps == Spec => KeepsStrobe
<1>1. ASSUME ArchTypeOK, StrobeInv, StrobeIdles, LinesInv, DataInv, [Next]_vars
      PROVE  [Port!Next]_(Port!vars)
  <2>1. CASE \E c \in Calls : Call(c)
    BY <1>1, <2>1, MappedCall
  <2>2. CASE AccessStep
    <3>1. call # NoCall
      BY <1>1, <2>2, AccessEffects DEF LinesInv, LineInv
    <3> QED
      BY <1>1, <2>2, <3>1, MappedAccess
  <2>3. CASE UNCHANGED vars
    <3>1. UNCHANGED <<host, call, todo, out, dir, polarity, taken>>
      BY <2>3 DEF vars, lineVars, ghostVars, portVars
    <3>2. Stutters
      BY <3>1 DEF Stutters, PortIdle, PortSending, Waiting, Drive, IdleLevel, NoCode
    <3> QED
      BY <1>1, <3>2, Mapped
  <2> QED
    BY <1>1, <2>1, <2>2, <2>3, Steps
<1>2. KeepsStrobe <=> Port!Init /\ [][Port!Next]_(Port!vars)
  BY DEF KeepsStrobe, Port!Spec
<1> QED
  BY <1>1, <1>2, MappedInit, Typed, StrobeInvariant, Idles, LinesInvariant, DataInvariant,
     PTL DEF Spec
-----------------------------------------------------------------------------
(* The rows.  What they are read through stays wired as asdf_arch_init     *)
(* left it, and the routine that reads one goes through its accesses in    *)
(* their order: with each, it is known what the rows, the shift register   *)
(* and the columns hold.                                                   *)

Register(op) == IF op = "PORT" THEN out ELSE dir
WireInv ==
  /\ call # NoCall =>
       \A w \in Wires : w.op = "DDR" \/ call.op # "READ" =>
         Settles(w.op, Register(w.op), ToSet(todo), w.line, w.value)
  /\ call.op = "READ" => \A a \in ToSet(todo) : Reads(a)

\* The columns from this one on, as they leave the shift register.
Bits(sample, first) ==
  [n \in 1..(MaxCols - first) |-> IF first + n - 1 \in sample THEN 0 ELSE 1]

\* So many accesses of the routine that reads a row have been made.
Length == 3 * MaxCols + 5
Made(n) ==
  /\ Len(todo) = Length - n
  /\ \A m \in 1..Len(todo) : todo[m] = SerialRead(call.arg)[n + m]

\* The row is selected, the contacts are sampled, and the bits are shifted out:
\* bit i has been read, if j is not 0, and has been shifted out, if j is 2.
Loading(n) ==
  /\ n < 3 /\ samples = <<>> /\ cols = {}
  /\ n > 0 => SelectedRows = {call.arg}
  /\ out["COLMODE"] = IF n = 2 THEN 0 ELSE 1
  /\ out["COLCLK"] = 0
Loaded(n, sample) ==
  /\ n \in 3..4 /\ cols = {} /\ shifter = Bits(sample, 0)
  /\ out["COLMODE"] = 0
  /\ out["COLCLK"] = 4 - n
Shifting(n, sample, i, j) ==
  /\ n = 5 + 3 * i + j
  /\ cols = {col \in sample : col < IF j = 0 THEN i ELSE i + 1}
  /\ shifter = Bits(sample, IF j = 2 THEN i + 1 ELSE i)
  /\ out["COLMODE"] = 1
  /\ out["COLCLK"] = IF j = 2 THEN 1 ELSE 0
SerialAt(n) ==
  \/ Loading(n)
  \/ \E sample \in SUBSET Cols :
       /\ samples = <<sample>>
       /\ \/ Loaded(n, sample)
          \/ \E i \in 0..MaxCols, j \in 0..2 : Shifting(n, sample, i, j)
SerialInv == \E n \in 0..Length : Made(n) /\ SerialAt(n)

\* Of two ports with rows, the first has the row that is read, or none.
LowRows == \A row \in Rows : RowPort(row) = "LOROW" => (row \in rows <=> row = call.arg)
ParallelInv ==
  \/ /\ samples = <<>> /\ cols = {}
     /\ \/ board = "atmega2560" /\ todo = PairRead(call.arg)
        \/ board = "atmega2560" /\ todo = <<Access("ROWS", "HIROW", call.arg), Columns>> /\ LowRows
        \/ board # "atmega2560" /\ todo = PlainRead(call.arg)
        \/ todo = <<Columns>> /\ SelectedRows = {call.arg}
  \/ todo = <<>> /\ samples = <<cols>>

ReadInv ==
  call.op = "READ" => IF board \in SerialBoards THEN SerialInv ELSE ParallelInv

\* The wires are bits of registers, of no output and not of the strobe.
LEMMA WireTypes ==
  ASSUME NEW w \in Wires
  PROVE  /\ w.op \in {"PORT", "DDR"} /\ w.value \in {0, 1}
         /\ w.line \in PortLines /\ w.line \notin Lines \union {"STROBE", "ASCII"}
         /\ w.op = "PORT" => board \in SerialBoards
<1>1. CASE board \in SerialBoards
  <2>1. \/ w = Access("DDR", "ROWS", 1) \/ w = Access("DDR", "COLCLK", 1)
        \/ w = Access("PORT", "COLCLK", 0) \/ w = Access("PORT", "COLMODE", 1)
    BY <1>1 DEF Wires, SerialWires
  <2> QED
    BY <1>1, <2>1, LineTypes, TheLines, AccessFields
<1>2. CASE board \notin SerialBoards
  <2>1. \/ w = Access("DDR", "LOROW", 1) \/ w = Access("DDR", "HIROW", 1)
        \/ w = Access("DDR", "ROWS", 1)
    BY <1>2 DEF Wires, PairWires, PlainWires
  <2> QED
    BY <2>1, LineTypes, TheLines, AccessFields
<1> QED
  BY <1>1, <1>2

\* The elements of two sequences, one after the other, by their places.
Joins(u, s, t) ==
  /\ Len(u) = Len(s) + Len(t)
  /\ \A n \in 1..Len(s) : u[n] = s[n]
  /\ \A n \in 1..Len(t) : u[Len(s) + n] = t[n]
LEMMA ConcatPlaces ==
  ASSUME NEW S, NEW s \in Seq(S), NEW t \in Seq(S)
  PROVE  s \o t \in Seq(S) /\ Joins(s \o t, s, t)
BY DEF Joins

\* The accesses of the routine that reads a row through the shift register.
LEMMA SerialSteps ==
  ASSUME NEW row \in Rows
  PROVE  /\ SerialRead(row) \in Seq(Accesses) /\ Len(SerialRead(row)) = Length
         /\ SerialRead(row)[1] = Access("ROWS", "ROWS", row)
         /\ SerialRead(row)[2] = Access("PORT", "COLMODE", 0)
         /\ SerialRead(row)[3] = Access("PORT", "COLCLK", 1)
         /\ SerialRead(row)[4] = Access("PORT", "COLCLK", 0)
         /\ SerialRead(row)[5] = Access("PORT", "COLMODE", 1)
         /\ \A i \in 0..(MaxCols - 1) :
              /\ SerialRead(row)[5 + 3 * i + 1] = Access("BIT", "COL", i)
              /\ SerialRead(row)[5 + 3 * i + 2] = Access("PORT", "COLCLK", 1)
              /\ SerialRead(row)[5 + 3 * i + 3] = Access("PORT", "COLCLK", 0)
<1> DEFINE first == Access("ROWS", "ROWS", row)
           m0 == Access("PORT", "COLMODE", 0)
           m1 == Access("PORT", "COLMODE", 1)
           c0 == Access("PORT", "COLCLK", 0)
           c1 == Access("PORT", "COLCLK", 1)
           start == <<first>> \o LoadColumns
<1>1. row % 16 = row
  BY DEF Rows
<1>2. LoadColumns = (<<m0>> \o <<c1, c0>>) \o <<m1>>
  BY Zenon DEF LoadColumns, ClockPulse, set_bit, clear_bit
<1>3. first \in Accesses /\ m0 \in Accesses /\ m1 \in Accesses /\ c0 \in Accesses /\ c1 \in Accesses
  BY AccessTypes, LineTypes
<1>4. /\ ShiftColumns \in Seq(Accesses) /\ Len(ShiftColumns) = 3 * MaxCols
      /\ \A i \in 0..(MaxCols - 1) :
           /\ ShiftColumns[3 * i + 1] = Access("BIT", "COL", i)
           /\ ShiftColumns[3 * i + 2] = c1
           /\ ShiftColumns[3 * i + 3] = c0
  <2>1. ShiftColumns \in Seq(Accesses)
    BY ShiftShape DEF ReadShape
  <2>2. /\ MaxCols \in Nat
        /\ Len(ShiftColumns) = 3 * MaxCols
    BY <2>1, PinsAssumption DEF ShiftColumns
  <2>3. ASSUME NEW i \in 0..(MaxCols - 1)
        PROVE  /\ ShiftColumns[3 * i + 1] = Access("BIT", "COL", i)
               /\ ShiftColumns[3 * i + 2] = c1
               /\ ShiftColumns[3 * i + 3] = c0
    <3>1. /\ 3 * i + 1 \in 1..(3 * MaxCols) /\ (3 * i + 1) % 3 = 1 /\ (3 * i + 1) \div 3 = i
          /\ 3 * i + 2 \in 1..(3 * MaxCols) /\ (3 * i + 2) % 3 = 2
          /\ 3 * i + 3 \in 1..(3 * MaxCols) /\ (3 * i + 3) % 3 = 0
      BY <2>2
    <3> QED
      BY <3>1 DEF ShiftColumns, set_bit, clear_bit
  <2> QED
    BY <2>1, <2>2, <2>3
<1>5. SerialRead(row) = start \o ShiftColumns
  BY <1>1, Zenon DEF SerialRead
<1> HIDE DEF first, m0, m1, c0, c1
<1>6. /\ start \in Seq(Accesses) /\ Len(start) = 5
      /\ start[1] = first /\ start[2] = m0 /\ start[3] = c1 /\ start[4] = c0 /\ start[5] = m1
  <2> DEFINE low == <<m0>>
             pulse == <<c1, c0>>
             high == <<m1>>
             head == <<first>>
  <2>1. /\ low \in Seq(Accesses) /\ Len(low) = 1 /\ low[1] = m0
        /\ pulse \in Seq(Accesses) /\ Len(pulse) = 2 /\ pulse[1] = c1 /\ pulse[2] = c0
        /\ high \in Seq(Accesses) /\ Len(high) = 1 /\ high[1] = m1
        /\ head \in Seq(Accesses) /\ Len(head) = 1 /\ head[1] = first
    BY <1>3
  <2>2. LoadColumns = (low \o pulse) \o high /\ start = head \o LoadColumns
    BY <1>2, Zenon
  <2> HIDE DEF low, pulse, high, head
  <2> DEFINE both == low \o pulse
  <2>3. /\ both \in Seq(Accesses) /\ Len(both) = 3
        /\ both[1] = m0 /\ both[1 + 1] = c1 /\ both[1 + 2] = c0
    <3>1. both \in Seq(Accesses) /\ Joins(both, low, pulse)
      BY <2>1, ConcatPlaces
    <3> HIDE DEF both
    <3> QED
      BY <2>1, <3>1 DEF Joins
  <2> HIDE DEF both
  <2>4. /\ LoadColumns \in Seq(Accesses) /\ Len(LoadColumns) = 4
        /\ LoadColumns[1] = m0 /\ LoadColumns[2] = c1 /\ LoadColumns[3] = c0
        /\ LoadColumns[3 + 1] = m1
    <3>1. LoadColumns = both \o high
      BY <2>2 DEF both
    <3>2. LoadColumns \in Seq(Accesses) /\ Joins(LoadColumns, both, high)
      BY <2>1, <2>3, <3>1, ConcatPlaces
    <3> QED
      BY <2>1, <2>3, <3>2 DEF Joins
  <2> HIDE DEF start
  <2>5. start \in Seq(Accesses) /\ Joins(start, head, LoadColumns)
    BY <2>1, <2>2, <2>4, ConcatPlaces
  <2> QED
    BY <2>1, <2>4, <2>5 DEF Joins
<1> HIDE DEF start
<1>7. MaxCols \in Nat
  BY PinsAssumption
<1>8. /\ SerialRead(row) \in Seq(Accesses) /\ Len(SerialRead(row)) = Length
      /\ \A n \in 1..5 : SerialRead(row)[n] = start[n]
      /\ \A n \in 1..(3 * MaxCols) : SerialRead(row)[5 + n] = ShiftColumns[n]
  <2>1. SerialRead(row) \in Seq(Accesses) /\ Joins(SerialRead(row), start, ShiftColumns)
    BY <1>4, <1>5, <1>6, ConcatPlaces
  <2> QED
    BY <1>4, <1>6, <1>7, <2>1 DEF Joins, Length
<1>9. ASSUME NEW i \in 0..(MaxCols - 1)
      PROVE  /\ SerialRead(row)[5 + 3 * i + 1] = ShiftColumns[3 * i + 1]
             /\ SerialRead(row)[5 + 3 * i + 2] = ShiftColumns[3 * i + 2]
             /\ SerialRead(row)[5 + 3 * i + 3] = ShiftColumns[3 * i + 3]
  <2>1. /\ 3 * i + 1 \in 1..(3 * MaxCols) /\ 5 + (3 * i + 1) = 5 + 3 * i + 1
        /\ 3 * i + 2 \in 1..(3 * MaxCols) /\ 5 + (3 * i + 2) = 5 + 3 * i + 2
        /\ 3 * i + 3 \in 1..(3 * MaxCols) /\ 5 + (3 * i + 3) = 5 + 3 * i + 3
    BY <1>7
  <2> QED
    BY <1>8, <2>1
<1>10. /\ SerialRead(row)[1] = first /\ SerialRead(row)[2] = m0
       /\ SerialRead(row)[3] = c1 /\ SerialRead(row)[4] = c0 /\ SerialRead(row)[5] = m1
  BY <1>6, <1>8
<1>11. ASSUME NEW i \in 0..(MaxCols - 1)
       PROVE  /\ SerialRead(row)[5 + 3 * i + 1] = Access("BIT", "COL", i)
              /\ SerialRead(row)[5 + 3 * i + 2] = c1
              /\ SerialRead(row)[5 + 3 * i + 3] = c0
  BY <1>4, <1>9
<1> QED
  BY <1>8, <1>10, <1>11 DEF first, m0, m1, c0, c1

\* The routine makes its next access, if it has one left.
LEMMA MadeNext ==
  ASSUME ArchTypeOK, NEW n \in 0..Length, Made(n)
  PROVE  /\ todo = <<>> <=> n = Length
         /\ todo # <<>> /\ todo' = Tail(todo) /\ call' = call =>
              /\ n + 1 \in 0..Length /\ Head(todo) = SerialRead(call.arg)[n + 1]
              /\ Made(n + 1)'
<1>1. Length \in Nat
  BY PinsAssumption DEF Length
<1>2. todo \in Seq(Accesses) /\ Len(todo) = Length - n
  BY DEF ArchTypeOK, Made
<1>3. todo = <<>> <=> n = Length
  BY <1>1, <1>2
<1>4. ASSUME todo # <<>>, todo' = Tail(todo), call' = call
      PROVE  /\ n + 1 \in 0..Length /\ Head(todo) = SerialRead(call.arg)[n + 1]
             /\ Made(n + 1)'
  <2>1. n + 1 \in 0..Length /\ 1 \in 1..Len(todo)
    BY <1>1, <1>2, <1>3, <1>4
  <2>2. Head(todo) = SerialRead(call.arg)[n + 1]
    BY <1>2, <1>4, <2>1 DEF Made
  <2>3. /\ Len(todo') = Length - (n + 1)
        /\ \A m \in 1..Len(todo') : todo'[m] = todo[m + 1] /\ m + 1 \in 1..Len(todo)
    BY <1>1, <1>2, <1>4
  <2>4. \A m \in 1..Len(todo') : todo'[m] = SerialRead(call.arg)[n + (m + 1)]
    BY <2>3 DEF Made
  <2>5. \A m \in 1..Len(todo') : n + (m + 1) = (n + 1) + m
    BY <1>1
  <2>6. \A m \in 1..Len(todo') : todo'[m] = SerialRead(call'.arg)[(n + 1) + m]
    BY <1>4, <2>4, <2>5
  <2> QED
    BY <2>1, <2>2, <2>3, <2>6 DEF Made, SerialRead, LoadColumns, ShiftColumns, Length
<1> QED
  BY <1>3, <1>4

\* A routine that has made all its accesses has shifted all bits out.
LEMMA SerialDone ==
  ASSUME SerialAt(Length)
  PROVE  \E sample \in SUBSET Cols :
           samples = <<sample>> /\ Shifting(Length, sample, MaxCols, 0)
<1>1. MaxCols \in Nat \ {0} /\ Length = 3 * MaxCols + 5
  BY PinsAssumption DEF Length
<1>2. ~(Length < 3) /\ Length \notin 3..4
  BY <1>1
<1>3. PICK sample \in SUBSET Cols :
        samples = <<sample>> /\ \E i \in 0..MaxCols, j \in 0..2 : Shifting(Length, sample, i, j)
  BY <1>2 DEF SerialAt, Loading, Loaded
<1>4. PICK i \in 0..MaxCols, j \in 0..2 : Shifting(Length, sample, i, j)
  BY <1>3
<1>5. i = MaxCols /\ j = 0
  BY <1>1, <1>4 DEF Shifting
<1> QED
  BY <1>3, <1>4, <1>5

\* Between calls the wires have the bits that asdf_arch_init gave them.
LEMMA Wired ==
  ASSUME ArchTypeOK, WireInv, ReadInv, todo = <<>>, call # NoCall
  PROVE  \A w \in Wires : Register(w.op)[w.line] = w.value
<1>1. ToSet(todo) = {}
  BY TupleSets
<1>2. ASSUME NEW w \in Wires, w.op = "DDR" \/ call.op # "READ"
      PROVE  Register(w.op)[w.line] = w.value
  <2>1. Settles(w.op, Register(w.op), {}, w.line, w.value)
    BY <1>1, <1>2 DEF WireInv
  <2> QED
    BY <2>1 DEF Settles
<1>3. ASSUME NEW w \in Wires, w.op = "PORT", call.op = "READ"
      PROVE  Register(w.op)[w.line] = w.value
  <2>1. board \in SerialBoards
    BY <1>3, WireTypes
  <2>2. PICK n \in 0..Length : Made(n) /\ SerialAt(n)
    BY <1>3, <2>1 DEF ReadInv, SerialInv
  <2>3. n = Length
    BY <2>2, MadeNext
  <2>4. out["COLMODE"] = 1 /\ out["COLCLK"] = 0
    BY <2>2, <2>3, SerialDone DEF Shifting
  <2> QED
    BY <1>3, <2>1, <2>4, AccessFields DEF Wires, SerialWires, Register
<1> QED
  BY <1>2, <1>3, WireTypes

\* A call preserves the invariants of the rows.
LEMMA RowsCall ==
  ASSUME ArchTypeOK, WireInv, ReadInv, NEW c \in Calls, Call(c)
  PROVE  WireInv' /\ ReadInv'
<1>1. /\ todo = <<>> /\ todo' = Program(c) /\ call' = c
      /\ call = NoCall => c.op = "INIT"
      /\ out' = out /\ dir' = dir /\ board' = board
      /\ cols' = {} /\ samples' = <<>>
  BY CallEffects DEF lineVars, Call
<1>2. Wires' = Wires /\ \A op : Register(op)' = Register(op)
  BY <1>1 DEF Wires, Register
<1>3. ASSUME NEW w \in Wires, c.op # "INIT"
      PROVE  Register(w.op)[w.line] = w.value
  BY <1>1, <1>3, Wired
<1>4. CASE c.op = "INIT"
  <2>1. Wiring(todo', Wires)
    BY <1>1, <1>4, Programs, InitProgramShape DEF ArchTypeOK
  <2>2. ASSUME NEW w \in Wires
        PROVE  Settles(w.op, Register(w.op), ToSet(todo'), w.line, w.value)
    BY <2>1 DEF Wiring, Settles
  <2> QED
    BY <1>1, <1>2, <1>4, <2>2 DEF WireInv, ReadInv
<1>5. CASE c.op \in Polarities \union {"SET", "SEND"}
  <2>1. ASSUME NEW a \in ToSet(todo')
        PROVE  a.line \in Lines \union {"STROBE", "ASCII"}
    <3>1. CASE c.op \in Polarities
      <4>1. ToSet(todo') =
              {Access("PORT", "STROBE", StrobeBit(c.op)), Access("DDR", "STROBE", 1)}
        BY <1>1, <3>1, Programs, StrobeProgramShape, IdleShape DEF ArchTypeOK
      <4> QED
        BY <4>1, AccessFields
    <3>2. CASE c.op = "SEND"
      <4>1. ToSet(todo') =
              {Access("ASCII", "ASCII", Encoded(c.arg)), Access("PIN", "STROBE", 1)}
        <5>1. c.arg \in 0..255
          BY <3>2, CallArgs
        <5>2. todo' = Pulse(c.arg)
          BY <1>1, <3>2, Programs, SendProgramShape DEF ArchTypeOK
        <5>3. ToSet(Pulse(c.arg)) =
                {Access("ASCII", "ASCII", Encoded(c.arg)), Access("PIN", "STROBE", 1)}
          BY <5>1, PulseShape
        <5> QED
          BY <5>2, <5>3
      <4> QED
        BY <4>1, AccessFields
    <3>3. CASE c.op = "SET"
      <4>1. c.arg \in Devices /\ c.value \in Values
        BY <3>3, CallArgs
      <4>2. SetShape(todo', c.arg, c.value)
        BY <1>1, <3>3, <4>1, Programs, SetProgramShape DEF ArchTypeOK
      <4> QED
        BY <4>1, <4>2, SetAccesses DEF SetAccess, Lines
    <3> QED
      BY <1>5, <3>1, <3>2, <3>3
  <2>2. ASSUME NEW w \in Wires
        PROVE  Settles(w.op, Register(w.op), ToSet(todo'), w.line, w.value)
    <3>1. c.op # "INIT"
      BY <1>5 DEF Polarities
    <3>2. \A a \in ToSet(todo') : a.line # w.line
      BY <2>1, WireTypes
    <3> QED
      BY <1>3, <3>1, <3>2 DEF Settles
  <2>3. c.op # "READ"
    BY <1>5 DEF Polarities
  <2> QED
    BY <1>1, <1>2, <2>2, <2>3 DEF WireInv, ReadInv
<1>6. CASE c.op = "READ"
  <2>1. c.arg \in Rows /\ board \in Boards
    BY <1>6, CallArgs DEF ArchTypeOK
  <2>2. todo' = ReadProgram(c.arg)
    BY <1>1, <1>6, Programs
  <2>3. WireInv'
    <3>1. ReadShape(todo')
      BY <2>1, <2>2, ReadProgramShape
    <3>2. \A a \in ToSet(todo') : Reads(a) /\ a.op # "DDR"
      BY <3>1 DEF ReadShape, Reads
    <3>3. ASSUME NEW w \in Wires, w.op = "DDR"
          PROVE  Settles(w.op, Register(w.op), ToSet(todo'), w.line, w.value)
      BY <1>3, <1>6, <3>2, <3>3 DEF Settles
    <3>4. \A a \in ToSet(todo') : Reads(a)'
      BY <3>2 DEF Reads, Lines
    <3> QED
      BY <1>1, <1>2, <1>6, <3>3, <3>4 DEF WireInv
  <2>4. CASE board \in SerialBoards
    <3>1. todo' = SerialRead(c.arg)
      BY <2>1, <2>2, <2>4, ReadPrograms
    <3>2. out["COLCLK"] = 0 /\ out["COLMODE"] = 1
      <4>1. /\ Access("PORT", "COLCLK", 0) \in Wires
            /\ Access("PORT", "COLMODE", 1) \in Wires
        BY <2>4 DEF Wires, SerialWires
      <4>2. Register("PORT") = out
        BY DEF Register
      <4> QED
        BY <1>3, <1>6, <4>1, <4>2, AccessFields
    <3>3. 0 \in 0..Length /\ Length - 0 = Length
      BY PinsAssumption DEF Length
    <3>4. Made(0)'
      <4>1. Len(todo') = Length - 0
        BY <2>1, <3>1, <3>3, SerialSteps
      <4>2. \A m \in 1..Len(todo') : 0 + m = m
        OBVIOUS
      <4>3. \A m \in 1..Len(todo') : todo'[m] = SerialRead(call'.arg)[0 + m]
        BY <1>1, <3>1, <4>2
      <4> QED
        BY <4>1, <4>3 DEF Made, SerialRead, LoadColumns, ShiftColumns, Length
    <3>5. Loading(0)'
      BY <1>1, <3>2 DEF Loading
    <3>6. SerialInv'
      BY <3>3, <3>4, <3>5 DEF SerialInv, SerialAt, Length
    <3> QED
      BY <1>1, <2>3, <2>4, <3>6 DEF ReadInv
  <2>5. CASE board \notin SerialBoards
    <3>1. \/ board = "atmega2560" /\ todo' = PairRead(c.arg)
          \/ board # "atmega2560" /\ todo' = PlainRead(c.arg)
      BY <2>1, <2>2, <2>5, ReadPrograms DEF Boards, AvrBoards, SerialBoards
    <3>2. ParallelInv'
      BY <1>1, <3>1 DEF ParallelInv, PairRead, PlainRead, Columns
    <3> QED
      BY <1>1, <2>3, <2>5, <3>2 DEF ReadInv
  <2> QED
    BY <2>4, <2>5
<1> QED
  BY <1>4, <1>5, <1>6, CallArgs

\* The columns leave the shift register one by one, the first one first.
LEMMA BitsNext ==
  ASSUME NEW sample, NEW first \in 0..(MaxCols - 1)
  PROVE  /\ Bits(sample, first) # <<>>
         /\ Head(Bits(sample, first)) = (IF first \in sample THEN 0 ELSE 1)
         /\ Tail(Bits(sample, first)) = Bits(sample, first + 1)
<1>1. MaxCols \in Nat /\ MaxCols - first \in Nat \ {0} /\ MaxCols - (first + 1) \in Nat
  BY PinsAssumption
<1> DEFINE b == Bits(sample, first)
           c == Bits(sample, first + 1)
<1>2. /\ b \in Seq({0, 1}) /\ Len(b) = MaxCols - first
      /\ \A n \in 1..(MaxCols - first) : b[n] = IF first + n - 1 \in sample THEN 0 ELSE 1
  BY <1>1, IsASeq DEF Bits
<1>3. /\ c \in Seq({0, 1}) /\ Len(c) = MaxCols - (first + 1)
      /\ \A n \in 1..(MaxCols - (first + 1)) :
           c[n] = IF (first + 1) + n - 1 \in sample THEN 0 ELSE 1
  BY <1>1, IsASeq DEF Bits
<1> HIDE DEF b, c
<1>4. b # <<>> /\ Head(b) = b[1] /\ 1 \in 1..(MaxCols - first) /\ first + 1 - 1 = first
  BY <1>1, <1>2
<1>5. /\ Tail(b) \in Seq({0, 1}) /\ Len(Tail(b)) = Len(c)
      /\ \A n \in 1..Len(c) : Tail(b)[n] = b[n + 1]
  BY <1>1, <1>2, <1>3
<1>6. ASSUME NEW n \in 1..Len(c)
      PROVE  Tail(b)[n] = c[n]
  <2>1. /\ n + 1 \in 1..(MaxCols - first) /\ first + (n + 1) - 1 = (first + 1) + n - 1
        /\ n \in 1..(MaxCols - (first + 1))
    BY <1>1, <1>3
  <2> QED
    BY <1>2, <1>3, <1>5, <2>1
<1>7. Tail(b) = c
  BY <1>3, <1>5, <1>6, SeqEqual
<1> QED
  BY <1>2, <1>4, <1>7 DEF b, c

\* What an access does to the rows, to the shift register and to the columns.
LEMMA ReadEffects ==
  ASSUME AccessStep
  PROVE  /\ Head(todo).op = "ROWS" =>
              /\ rows' = {r \in rows : RowPort(r) # Head(todo).line}
                           \union {r \in {Head(todo).value} : RowPort(r) = Head(todo).line}
              /\ UNCHANGED readVars
         /\ Head(todo).op = "BIT" =>
              /\ cols' = (IF shifter # <<>> /\ Head(shifter) = 0
                          THEN cols \union {Head(todo).value} ELSE cols)
              /\ UNCHANGED <<rows, shifter, samples>>
         /\ Head(todo).op = "COLUMNS" =>
              \E contacts \in Sampling :
                cols' = Sampled(contacts) /\ samples' = Append(samples, contacts[call.arg])
         /\ Head(todo).op = "PORT" => UNCHANGED rows /\ ShiftRegister
<1>1. CASE WritePort
  BY <1>1 DEF WritePort, Next1
<1>2. CASE WriteDirection
  BY <1>2 DEF WriteDirection, Next1
<1>3. CASE WriteData
  BY <1>3 DEF WriteData, Next1
<1>4. CASE WriteRows
  BY <1>4 DEF WriteRows, Next1, Line, Value
<1>5. CASE DeselectRow
  BY <1>5 DEF DeselectRow, Next1
<1>6. CASE ReadBit
  BY <1>6 DEF ReadBit, Next1, Value
<1>7. CASE ReadColumns
  BY <1>7 DEF ReadColumns, Next1
<1> QED
  BY <1>1, <1>2, <1>3, <1>4, <1>5, <1>6, <1>7 DEF AccessStep

\* The shift register moves at a rising edge of its clock, and at no other time.
LEMMA ShiftEffects ==
  ASSUME ShiftRegister, board \in SerialBoards, dir["COLCLK"] = 1, dir'["COLCLK"] = 1,
         out["COLCLK"] \in {0, 1}, out'["COLCLK"] \in {0, 1}
  PROVE  /\ cols' = cols
         /\ IF out["COLCLK"] = 0 /\ out'["COLCLK"] = 1 THEN Clocked
            ELSE UNCHANGED <<shifter, samples>>
<1>1. /\ Drive("COLCLK") = IF out["COLCLK"] = 1 THEN "HIGH" ELSE "LOW"
      /\ Drive("COLCLK")' = IF out'["COLCLK"] = 1 THEN "HIGH" ELSE "LOW"
  BY DEF Drive
<1> QED
  BY <1>1 DEF ShiftRegister

\* With one row selected, the contacts of that row are what is sampled.
LEMMA OneRow ==
  ASSUME SelectedRows = {call.arg}, NEW contacts \in Sampling
  PROVE  contacts[call.arg] \in SUBSET Cols /\ Sampled(contacts) = contacts[call.arg]
<1>1. Sampled(contacts) = UNION {contacts[r] : r \in {call.arg}}
  BY DEF Sampled
<1> QED
  BY <1>1, SamplingTypes

\* The port of a row.
LEMMA RowPorts ==
  ASSUME board \in Boards, NEW row \in Rows
  PROVE  /\ board # "atmega2560" => RowPort(row) = "ROWS"
         /\ board = "atmega2560" => RowPort(row) = "LOROW" \/ RowPort(row) = "HIROW"
         /\ Access("DDR", RowPort(row), 1) \in Wires
<1>1. /\ board # "atmega2560" => RowPort(row) = "ROWS"
      /\ board = "atmega2560" => RowPort(row) = "LOROW" \/ RowPort(row) = "HIROW"
  BY DEF Boards, AvrBoards, RowPort, M328!RowPort, M2560!RowPort, Dip28!RowPort, Q64!RowPort
<1> QED
  BY <1>1 DEF Wires, SerialWires, PairWires, PlainWires, SerialBoards

\* While a row is read, the wires that are directions have their bits.
LEMMA WiredReading ==
  ASSUME WireInv, call # NoCall, call.op = "READ", NEW w \in Wires, w.op = "DDR"
  PROVE  dir[w.line] = w.value
<1>1. Settles("DDR", dir, ToSet(todo), w.line, w.value)
  BY DEF WireInv, Register
<1>2. \A a \in ToSet(todo) : a.op # "DDR"
  BY DEF WireInv, Reads
<1> QED
  BY <1>1, <1>2 DEF Settles

\* An access leaves the wires as they settle.
LEMMA WiresAccess ==
  ASSUME ArchTypeOK, WireInv, AccessStep, call # NoCall
  PROVE  WireInv'
<1>1. /\ Head(todo) \in Accesses /\ call' = call /\ board' = board
      /\ ToSet(todo) = {Head(todo)} \union ToSet(todo')
      /\ \A line \in PortLines :
           /\ dir'[line] = IF Head(todo).op = "DDR" /\ Head(todo).line = line
                           THEN Head(todo).value ELSE dir[line]
           /\ out'[line] = IF Head(todo).op = "PORT" /\ Head(todo).line = line
                           THEN Head(todo).value
                           ELSE IF Head(todo).op = "PIN" /\ Head(todo).line = line
                           THEN 1 - out[line] ELSE out[line]
  BY AccessEffects
<1>2. Head(todo).op = "PIN" => Head(todo).line = "STROBE"
  BY <1>1 DEF Accesses
<1>3. Wires' = Wires
  BY <1>1 DEF Wires
<1>4. ASSUME NEW w \in Wires, w.op = "DDR" \/ call.op # "READ"
      PROVE  Settles(w.op, Register(w.op)', ToSet(todo'), w.line, w.value)
  <2>1. w.op \in {"PORT", "DDR"} /\ w.line \in PortLines /\ w.line # "STROBE"
    BY WireTypes
  <2>2. Settles(w.op, Register(w.op), {Head(todo)} \union ToSet(todo'), w.line, w.value)
    BY <1>1, <1>4 DEF WireInv
  <2>3. Register(w.op)'[w.line] =
          IF Head(todo).op = w.op /\ Head(todo).line = w.line
          THEN Head(todo).value ELSE Register(w.op)[w.line]
    BY <1>1, <1>2, <2>1 DEF Register
  <2> QED
    BY <2>2, <2>3, SettlesNext
<1>5. call.op = "READ" => \A a \in ToSet(todo') : Reads(a)'
  BY <1>1 DEF WireInv, Reads, Lines
<1> QED
  BY <1>1, <1>3, <1>4, <1>5 DEF WireInv

\* Reading a row through a shift register goes on from each access to the next.
LEMMA SerialAccess ==
  ASSUME ArchTypeOK, WireInv, SerialInv, AccessStep, call # NoCall, call.op = "READ",
         board \in SerialBoards, call.arg \in Rows
  PROVE  SerialInv'
<1> DEFINE head == Head(todo)
<1>1. /\ todo # <<>> /\ todo' = Tail(todo) /\ call' = call /\ board' = board
      /\ \A line \in PortLines :
           /\ dir'[line] = IF head.op = "DDR" /\ head.line = line
                           THEN head.value ELSE dir[line]
           /\ out'[line] = IF head.op = "PORT" /\ head.line = line
                           THEN head.value
                           ELSE IF head.op = "PIN" /\ head.line = line
                           THEN 1 - out[line] ELSE out[line]
  BY AccessEffects
<1>2. PICK n \in 0..Length : Made(n) /\ SerialAt(n)
  BY DEF SerialInv
<1>3. n + 1 \in 0..Length /\ head = SerialRead(call.arg)[n + 1] /\ Made(n + 1)'
  BY <1>1, <1>2, MadeNext
<1>4. SUFFICES SerialAt(n + 1)'
  BY <1>3 DEF SerialInv, Length
<1>5. /\ MaxCols \in Nat \ {0} /\ n \in Nat /\ Length = 3 * MaxCols + 5
      /\ board \in Boards /\ rows \subseteq Rows /\ out["COLCLK"] \in {0, 1}
      /\ "COLCLK" \in PortLines /\ "COLMODE" \in PortLines /\ "ROWS" \in PortLines
  BY PinsAssumption, LineTypes DEF Length, ArchTypeOK
<1>6. board # "atmega2560"
  BY DEF SerialBoards
<1>7. dir["ROWS"] = 1 /\ dir["COLCLK"] = 1
  <2>1. Access("DDR", "ROWS", 1) \in Wires /\ Access("DDR", "COLCLK", 1) \in Wires
    BY DEF Wires, SerialWires
  <2> QED
    BY <2>1, WiredReading, AccessFields
<1>8. head.op # "DDR" => dir'["ROWS"] = 1 /\ dir'["COLCLK"] = 1
  BY <1>1, <1>5, <1>7
<1>9. /\ \A r \in Rows : RowPort(r) = "ROWS" /\ RowPort(r)' = "ROWS"
      /\ SelectedRows = rows
      /\ head.op # "DDR" /\ rows' \subseteq Rows => SelectedRows' = rows'
  <2>1. \A r \in Rows : RowPort(r) = "ROWS"
    BY <1>5, <1>6, RowPorts
  <2>2. \A r \in Rows : RowPort(r)' = "ROWS"
    BY <1>1, <2>1 DEF RowPort
  <2> QED
    BY <1>5, <1>7, <1>8, <2>1, <2>2 DEF SelectedRows
\* What a write to one of the two lines of the shift register does.
<1>10. ASSUME NEW line \in {"COLCLK", "COLMODE"}, NEW bit \in {0, 1},
              head = Access("PORT", line, bit)
       PROVE  /\ out'[line] = bit
              /\ line = "COLCLK" => out'["COLMODE"] = out["COLMODE"]
              /\ line = "COLMODE" => out'["COLCLK"] = out["COLCLK"]
              /\ cols' = cols /\ SelectedRows' = SelectedRows
              /\ IF line = "COLCLK" /\ out["COLCLK"] = 0 /\ bit = 1 THEN Clocked
                 ELSE UNCHANGED <<shifter, samples>>
  <2>1. head.op = "PORT" /\ head.line = line /\ head.value = bit
    BY <1>10, AccessFields
  <2>2. rows' = rows /\ ShiftRegister
    BY <2>1, ReadEffects
  <2>3. /\ out'[line] = bit
        /\ line = "COLCLK" => out'["COLMODE"] = out["COLMODE"]
        /\ line = "COLMODE" => out'["COLCLK"] = out["COLCLK"]
    BY <1>1, <1>5, <2>1
  <2>4. out'["COLCLK"] \in {0, 1}
    BY <1>5, <2>3
  <2>5. dir'["COLCLK"] = 1
    BY <1>8, <2>1
  <2>6. /\ cols' = cols
        /\ IF out["COLCLK"] = 0 /\ out'["COLCLK"] = 1 THEN Clocked
           ELSE UNCHANGED <<shifter, samples>>
    BY <1>5, <1>7, <2>2, <2>4, <2>5, ShiftEffects
  <2>7. SelectedRows' = SelectedRows
    BY <1>5, <1>9, <2>1, <2>2
  <2>8. IF line = "COLCLK" /\ out["COLCLK"] = 0 /\ bit = 1 THEN Clocked
        ELSE UNCHANGED <<shifter, samples>>
    BY <2>3, <2>6
  <2> QED
    BY <2>3, <2>6, <2>7, <2>8
<1> HIDE DEF head
<1>11. CASE Loading(n)
  <2>1. n = 0 \/ n = 1 \/ n = 2
    BY <1>5, <1>11 DEF Loading
  <2>2. CASE n = 0
    <3>1. head = Access("ROWS", "ROWS", call.arg)
      BY <1>3, <2>2, SerialSteps
    <3>2. head.op = "ROWS" /\ head.line = "ROWS" /\ head.value = call.arg
      BY <3>1, AccessFields
    <3>3. rows' = {call.arg} /\ cols' = cols /\ samples' = samples
      BY <1>5, <1>9, <3>2, ReadEffects DEF head, readVars
    <3>4. SelectedRows' = {call'.arg}
      BY <1>1, <1>9, <3>2, <3>3
    <3>5. out'["COLCLK"] = out["COLCLK"] /\ out'["COLMODE"] = out["COLMODE"]
      BY <1>1, <1>5, <3>2
    <3> QED
      BY <1>11, <2>2, <3>3, <3>4, <3>5 DEF SerialAt, Loading
  <2>3. CASE n = 1
    <3>1. head = Access("PORT", "COLMODE", 0)
      BY <1>3, <2>3, SerialSteps
    <3>2. /\ out'["COLMODE"] = 0 /\ out'["COLCLK"] = out["COLCLK"]
          /\ cols' = cols /\ samples' = samples /\ SelectedRows' = SelectedRows
      BY <1>10, <3>1
    <3> QED
      BY <1>1, <1>11, <2>3, <3>2 DEF SerialAt, Loading
  <2>4. CASE n = 2
    <3>1. head = Access("PORT", "COLCLK", 1)
      BY <1>3, <2>4, SerialSteps
    <3>2. /\ out["COLCLK"] = 0 /\ out["COLMODE"] = 0 /\ samples = <<>> /\ cols = {}
          /\ SelectedRows = {call.arg}
      BY <1>11, <2>4 DEF Loading
    <3>3. out'["COLCLK"] = 1 /\ out'["COLMODE"] = 0 /\ cols' = {} /\ Clocked
      BY <1>10, <3>1, <3>2
    <3>4. PICK contacts \in Sampling :
            /\ shifter' = [m \in 1..MaxCols |-> IF m - 1 \in Sampled(contacts) THEN 0 ELSE 1]
            /\ samples' = Append(samples, contacts[call.arg])
      BY <3>2, <3>3 DEF Clocked
    <3>5. PICK sample \in SUBSET Cols :
            sample = contacts[call.arg] /\ sample = Sampled(contacts)
      BY <3>2, OneRow
    <3>6. samples' = <<sample>>
      BY <3>2, <3>4, <3>5
    <3>7. shifter' = Bits(sample, 0)
      <4>1. MaxCols - 0 = MaxCols /\ \A m \in 1..MaxCols : 0 + m - 1 = m - 1
        BY <1>5
      <4> QED
        BY <3>4, <3>5, <4>1 DEF Bits
    <3>8. Loaded(n + 1, sample)'
      BY <2>4, <3>3, <3>7 DEF Loaded, Bits
    <3> QED
      BY <3>6, <3>8 DEF SerialAt, Cols
  <2> QED
    BY <2>1, <2>2, <2>3, <2>4
<1>12. ASSUME NEW sample \in SUBSET Cols, samples = <<sample>>, Loaded(n, sample)
       PROVE  SerialAt(n + 1)'
  <2>1. CASE n = 3
    <3>1. head = Access("PORT", "COLCLK", 0)
      BY <1>3, <2>1, SerialSteps
    <3>2. /\ out'["COLCLK"] = 0 /\ out'["COLMODE"] = out["COLMODE"] /\ cols' = cols
          /\ shifter' = shifter /\ samples' = samples
      BY <1>10, <3>1
    <3>3. Loaded(n + 1, sample)'
      BY <1>12, <2>1, <3>2 DEF Loaded, Bits
    <3> QED
      BY <1>12, <3>2, <3>3 DEF SerialAt, Cols
  <2>2. CASE n = 4
    <3>1. head = Access("PORT", "COLMODE", 1)
      BY <1>3, <2>2, SerialSteps
    <3>2. /\ out'["COLMODE"] = 1 /\ out'["COLCLK"] = out["COLCLK"] /\ cols' = cols
          /\ shifter' = shifter /\ samples' = samples
      BY <1>10, <3>1
    <3>3. cols = {col \in sample : col < 0}
      <4>1. \A col \in sample : ~(col < 0)
        BY <1>5 DEF Cols
      <4> QED
        BY <1>12, <4>1 DEF Loaded
    <3>4. Shifting(n + 1, sample, 0, 0)'
      BY <1>12, <2>2, <3>2, <3>3 DEF Loaded, Shifting, Bits
    <3> QED
      BY <1>5, <1>12, <3>2, <3>4 DEF SerialAt, Cols
  <2> QED
    BY <1>12, <2>1, <2>2 DEF Loaded
<1>13. ASSUME NEW sample \in SUBSET Cols, samples = <<sample>>,
              NEW i \in 0..MaxCols, NEW j \in 0..2, Shifting(n, sample, i, j)
       PROVE  SerialAt(n + 1)'
  <2>1. n = 5 + 3 * i + j
    BY <1>13 DEF Shifting
  <2>2. i \in 0..(MaxCols - 1) /\ i + 1 \in 0..MaxCols
    BY <1>3, <1>5, <2>1
  <2>3. /\ SerialRead(call.arg)[5 + 3 * i + 1] = Access("BIT", "COL", i)
        /\ SerialRead(call.arg)[5 + 3 * i + 2] = Access("PORT", "COLCLK", 1)
        /\ SerialRead(call.arg)[5 + 3 * i + 3] = Access("PORT", "COLCLK", 0)
    BY <2>2, SerialSteps
  <2>4. CASE j = 0
    <3>1. n + 1 = 5 + 3 * i + 1
      BY <2>1, <2>2, <2>4
    <3>2. head.op = "BIT" /\ head.value = i
      BY <1>3, <2>3, <3>1, AccessFields
    <3>3. /\ cols' = (IF shifter # <<>> /\ Head(shifter) = 0 THEN cols \union {i} ELSE cols)
          /\ shifter' = shifter /\ samples' = samples
      BY <3>2, ReadEffects DEF head
    <3>4. out'["COLCLK"] = out["COLCLK"] /\ out'["COLMODE"] = out["COLMODE"]
      BY <1>1, <1>5, <3>2
    <3>5. /\ cols = {col \in sample : col < i} /\ shifter = Bits(sample, i)
          /\ out["COLMODE"] = 1 /\ out["COLCLK"] = 0
      BY <1>13, <2>4 DEF Shifting
    <3>6. shifter # <<>> /\ Head(shifter) = (IF i \in sample THEN 0 ELSE 1)
      BY <2>2, <3>5, BitsNext
    <3>7. cols' = {col \in sample : col < i + 1}
      <4>1. \A col \in sample : col < i + 1 <=> col < i \/ col = i
        BY <1>5, <2>2 DEF Cols
      <4> QED
        BY <2>2, <3>3, <3>5, <3>6, <4>1
    <3>8. shifter' = Bits(sample, i) /\ out'["COLMODE"] = 1 /\ out'["COLCLK"] = 0
      BY <3>3, <3>4, <3>5
    <3>9. Shifting(n + 1, sample, i, 1)'
      BY <3>1, <3>7, <3>8 DEF Shifting, Bits
    <3> QED
      BY <1>13, <3>3, <3>9 DEF SerialAt, Cols
  <2>5. CASE j = 1
    <3>1. n + 1 = 5 + 3 * i + 2
      BY <2>1, <2>2, <2>5
    <3>2. head = Access("PORT", "COLCLK", 1)
      BY <1>3, <2>3, <3>1
    <3>3. /\ cols = {col \in sample : col < i + 1} /\ shifter = Bits(sample, i)
          /\ out["COLMODE"] = 1 /\ out["COLCLK"] = 0
      BY <1>13, <2>5 DEF Shifting
    <3>4. out'["COLCLK"] = 1 /\ out'["COLMODE"] = 1 /\ cols' = cols /\ Clocked
      BY <1>10, <3>2, <3>3
    <3>5. shifter' = Tail(shifter) /\ samples' = samples
      BY <2>2, <3>3, <3>4, BitsNext DEF Clocked
    <3>6. shifter' = Bits(sample, i + 1)
      BY <2>2, <3>3, <3>5, BitsNext
    <3>7. Shifting(n + 1, sample, i, 2)'
      BY <3>1, <3>3, <3>4, <3>6 DEF Shifting, Bits
    <3> QED
      BY <1>13, <3>5, <3>7 DEF SerialAt, Cols
  <2>6. CASE j = 2
    <3>1. n + 1 = 5 + 3 * i + 3 /\ n + 1 = 5 + 3 * (i + 1) + 0
      BY <2>1, <2>2, <2>6
    <3>2. head = Access("PORT", "COLCLK", 0)
      BY <1>3, <2>3, <3>1
    <3>3. /\ cols = {col \in sample : col < i + 1} /\ shifter = Bits(sample, i + 1)
          /\ out["COLMODE"] = 1 /\ out["COLCLK"] = 1
      BY <1>13, <2>6 DEF Shifting
    <3>4. /\ out'["COLCLK"] = 0 /\ out'["COLMODE"] = 1 /\ cols' = cols
          /\ shifter' = shifter /\ samples' = samples
      BY <1>10, <3>2, <3>3
    <3>5. Shifting(n + 1, sample, i + 1, 0)'
      BY <3>1, <3>3, <3>4 DEF Shifting, Bits
    <3> QED
      BY <1>13, <2>2, <3>4, <3>5 DEF SerialAt, Cols
  <2> QED
    BY <2>4, <2>5, <2>6
<1> QED
  BY <1>2, <1>11, <1>12, <1>13 DEF SerialAt

\* Where the columns have pins, so does reading a row: the ports of rows are
\* written one after the other, and the columns are read when both have been.
LEMMA ParallelAccess ==
  ASSUME ArchTypeOK, ArchTypeOK', WireInv, ParallelInv, AccessStep, call # NoCall,
         call.op = "READ", board \notin SerialBoards, call.arg \in Rows
  PROVE  ParallelInv'
<1> DEFINE head == Head(todo)
           row == call.arg
<1>1. /\ todo # <<>> /\ todo' = Tail(todo) /\ call' = call /\ board' = board
      /\ \A line \in PortLines :
           dir'[line] = IF head.op = "DDR" /\ head.line = line THEN head.value ELSE dir[line]
  BY AccessEffects
<1>2. board \in Boards /\ rows \subseteq Rows /\ rows' \subseteq Rows
  BY DEF ArchTypeOK
<1>3. /\ board # "atmega2560" => \A r \in Rows : RowPort(r) = "ROWS"
      /\ board = "atmega2560" => \A r \in Rows : RowPort(r) = "LOROW" \/ RowPort(r) = "HIROW"
      /\ \A r \in Rows : RowPort(r)' = RowPort(r)
  BY <1>1, <1>2, RowPorts DEF RowPort
<1>4. ASSUME head.op # "DDR"
      PROVE  SelectedRows' = rows'
  <2>1. ASSUME NEW r \in Rows
        PROVE  dir'[RowPort(r)] = 1
    <3>1. Access("DDR", RowPort(r), 1) \in Wires
      BY <1>2, RowPorts
    <3>2. dir[RowPort(r)] = 1 /\ RowPort(r) \in PortLines
      BY <3>1, WiredReading, WireTypes, AccessFields
    <3> QED
      BY <1>1, <1>4, <3>2
  <2> QED
    BY <1>2, <1>3, <2>1 DEF SelectedRows
<1> DEFINE Empty == samples = <<>> /\ cols = {}
\* What selecting the row in one port does.
<1>5. ASSUME NEW line, head = Access("ROWS", line, row), Empty
      PROVE  /\ Empty' /\ SelectedRows' = rows'
             /\ \A r \in Rows : r \in rows' <=> IF RowPort(r) = line THEN r = row ELSE r \in rows
  <2>1. head.op = "ROWS" /\ head.line = line /\ head.value = row
    BY <1>5, AccessFields
  <2>2. /\ rows' = {r \in rows : RowPort(r) # line} \union {r \in {row} : RowPort(r) = line}
        /\ UNCHANGED readVars
    BY <2>1, ReadEffects
  <2>3. Empty'
    BY <1>5, <2>2 DEF readVars
  <2>4. SelectedRows' = rows'
    BY <1>4, <2>1
  <2>5. \A r \in Rows : r \in rows' <=> IF RowPort(r) = line THEN r = row ELSE r \in rows
    BY <2>2
  <2> QED
    BY <2>3, <2>4, <2>5
<1> HIDE DEF head
<1>6. CASE Empty /\ board = "atmega2560" /\ todo = PairRead(row)
  <2>1. /\ head = Access("ROWS", "LOROW", row)
        /\ todo' = <<Access("ROWS", "HIROW", row), Columns>>
    BY <1>1, <1>6 DEF head, PairRead
  <2>2. Empty' /\ \A r \in Rows : RowPort(r) = "LOROW" => (r \in rows' <=> r = row)
    BY <1>5, <1>6, <2>1
  <2>3. LowRows'
    BY <1>1, <1>3, <2>2 DEF LowRows, Rows
  <2> QED
    BY <1>1, <1>6, <2>1, <2>2, <2>3 DEF ParallelInv, Columns
<1>7. CASE /\ Empty /\ board = "atmega2560" /\ LowRows
           /\ todo = <<Access("ROWS", "HIROW", row), Columns>>
  <2>1. head = Access("ROWS", "HIROW", row) /\ todo' = <<Columns>>
    BY <1>1, <1>7 DEF head
  <2>2. /\ Empty' /\ SelectedRows' = rows'
        /\ \A r \in Rows : r \in rows' <=> IF RowPort(r) = "HIROW" THEN r = row ELSE r \in rows
    BY <1>5, <1>7, <2>1
  <2>3. ASSUME NEW r \in Rows
        PROVE  r \in rows' <=> r = row
    BY <1>3, <1>7, <2>2 DEF LowRows
  <2>4. SelectedRows' = {call'.arg}
    BY <1>1, <1>2, <2>2, <2>3
  <2> QED
    BY <2>1, <2>2, <2>4 DEF ParallelInv, Columns
<1>8. CASE Empty /\ board # "atmega2560" /\ todo = PlainRead(row)
  <2>1. head = Access("ROWS", "ROWS", row) /\ todo' = <<Columns>>
    BY <1>1, <1>8 DEF head, PlainRead
  <2>2. /\ Empty' /\ SelectedRows' = rows'
        /\ \A r \in Rows : r \in rows' <=> IF RowPort(r) = "ROWS" THEN r = row ELSE r \in rows
    BY <1>5, <1>8, <2>1
  <2>3. SelectedRows' = {call'.arg}
    BY <1>1, <1>2, <1>3, <1>8, <2>2
  <2> QED
    BY <2>1, <2>2, <2>3 DEF ParallelInv, Columns
<1>9. CASE Empty /\ todo = <<Columns>> /\ SelectedRows = {row}
  <2>1. head.op = "COLUMNS" /\ todo' = <<>>
    BY <1>1, <1>9, AccessFields DEF head, Columns
  <2>2. PICK contacts \in Sampling :
          cols' = Sampled(contacts) /\ samples' = Append(samples, contacts[call.arg])
    BY <2>1, ReadEffects DEF head
  <2>3. samples' = <<contacts[row]>> /\ cols' = contacts[row]
    BY <1>9, <2>2, OneRow
  <2> QED
    BY <2>1, <2>3 DEF ParallelInv
<1> QED
  BY <1>1, <1>6, <1>7, <1>8, <1>9 DEF ParallelInv

\* The invariants of the rows hold, whatever routines are called.
LEMMA RowsInvariant == Spec => [](WireInv /\ ReadInv)
<1>1. Init => WireInv /\ ReadInv
  BY DEF Init, WireInv, ReadInv, NoCall
<1>2. ASSUME ArchTypeOK, ArchTypeOK', LinesInv, WireInv, ReadInv, [Next]_vars
      PROVE  WireInv' /\ ReadInv'
  <2>1. CASE \E c \in Calls : Call(c)
    BY <1>2, <2>1, RowsCall
  <2>2. CASE AccessStep
    <3>1. todo # <<>> /\ call # NoCall /\ call' = call /\ board' = board
      BY <1>2, <2>2, AccessEffects DEF LinesInv, LineInv
    <3>2. WireInv'
      BY <1>2, <2>2, <3>1, WiresAccess
    <3>3. call.op = "READ" => call.arg \in Rows
      BY <1>2, <3>1, CallArgs DEF ArchTypeOK
    <3>4. ASSUME call.op = "READ", board \in SerialBoards
          PROVE  SerialInv'
      BY <1>2, <2>2, <3>1, <3>3, <3>4, SerialAccess DEF ReadInv
    <3>5. ASSUME call.op = "READ", board \notin SerialBoards
          PROVE  ParallelInv'
      BY <1>2, <2>2, <3>1, <3>3, <3>5, ParallelAccess DEF ReadInv
    <3> QED
      BY <3>1, <3>2, <3>4, <3>5 DEF ReadInv, SerialBoards
  <2>3. CASE UNCHANGED vars
    <3>1. UNCHANGED <<board, call, todo, rows, out, dir, shifter, cols, samples>>
      BY <2>3 DEF vars, lineVars, readVars
    <3>2. WireInv'
      BY <1>2, <3>1 DEF WireInv, Wires, Register, Reads, Lines
    <3>3. ReadInv'
      <4>1. SelectedRows' = SelectedRows /\ \A row : RowPort(row)' = RowPort(row)
        BY <3>1 DEF SelectedRows, RowPort
      <4>2. \A n : /\ Made(n)' <=> Made(n)
                   /\ Loading(n)' <=> Loading(n)
                   /\ \A sample : /\ Loaded(n, sample)' <=> Loaded(n, sample)
                                  /\ \A i, j : Shifting(n, sample, i, j)' <=> Shifting(n, sample, i, j)
        BY <3>1, <4>1 DEF Made, Loading, Loaded, Shifting
      <4>3. SerialInv' <=> SerialInv
        BY <3>1, <4>2 DEF SerialInv, SerialAt
      <4>4. ParallelInv' <=> ParallelInv
        BY <3>1, <4>1 DEF ParallelInv, LowRows, PairRead, PlainRead, Columns
      <4> QED
        BY <1>2, <3>1, <4>3, <4>4 DEF ReadInv
    <3> QED
      BY <3>2, <3>3
  <2> QED
    BY <1>2, <2>1, <2>2, <2>3, Steps
<1> QED
  BY <1>1, <1>2, Typed, LinesInvariant, PTL DEF Spec

\* Whichever board it is, and however many columns it has, asdf_arch_read_row
\* samples the contacts of the row that it was given once, with no other row
\* selected, and returns those that were closed, each in its own place.
THEOREM RowsAreRead == Spec => []RowIsRead
<1>1. ArchTypeOK /\ WireInv /\ ReadInv => RowIsRead
  <2> SUFFICES ASSUME ReadInv, ArchTypeOK, todo = <<>>, call.op = "READ"
               PROVE  samples = <<cols>>
    BY DEF RowIsRead
  <2>1. CASE board \in SerialBoards
    <3>1. PICK n \in 0..Length : Made(n) /\ SerialAt(n)
      BY <2>1 DEF ReadInv, SerialInv
    <3>2. n = Length
      BY <3>1, MadeNext
    <3>3. PICK sample \in SUBSET Cols :
            samples = <<sample>> /\ Shifting(Length, sample, MaxCols, 0)
      BY <3>1, <3>2, SerialDone
    <3>4. cols = {col \in sample : col < MaxCols}
      BY <3>3 DEF Shifting
    <3>5. \A col \in sample : col < MaxCols
      BY PinsAssumption DEF Cols
    <3> QED
      BY <3>3, <3>4, <3>5
  <2>2. CASE board \notin SerialBoards
    BY <2>2 DEF ReadInv, ParallelInv, PairRead, PlainRead
  <2> QED
    BY <2>1, <2>2
<1> QED
  BY <1>1, Typed, RowsInvariant, PTL
=============================================================================
