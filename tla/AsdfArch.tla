------------------------------- MODULE AsdfArch -------------------------------
(***************************************************************************)
(* The architecture layer (asdf_arch_*.c) of the four boards, down to the  *)
(* accesses to registers, with what is wired to the pins: the outputs, the *)
(* strobe and data lines of the port, the key matrix and, where a board    *)
(* has one, the shift register that its columns are read through.          *)
(*                                                                         *)
(* The rest of the firmware calls one routine after the other.  A routine  *)
(* is the sequence of accesses that the module of the board gives for it;  *)
(* what is left of it is todo.  Each access is a step, so that lines can   *)
(* be watched in between.  Delays between accesses are left out.           *)
(***************************************************************************)
EXTENDS AsdfPhysical, AsdfPins, FiniteSets

CONSTANTS
  Codes,     \* the codes that are sent
  RowsRead,  \* the rows that are scanned
  Outputs    \* sets of devices: a keymap uses those of one of them

M328  == INSTANCE AsdfArchAtmega328p
M2560 == INSTANCE AsdfArchAtmega2560
Dip28 == INSTANCE AsdfArchPic32cmDip28
Q64   == INSTANCE AsdfArchPic32cmQ64

AvrBoards == {"atmega328p", "atmega2560"}
Boards == AvrBoards \union {"pic32cm_dip28", "pic32cm_q64"}
SerialBoards == {"atmega328p", "pic32cm_dip28"}   \* columns in a shift register
Rows == 0..15
Cols == 0..(MaxCols - 1)

PinsOf(board) ==
  CASE board = "atmega328p"    -> M328!Pins
    [] board = "atmega2560"    -> M2560!Pins
    [] board = "pic32cm_dip28" -> Dip28!Pins
    [] board = "pic32cm_q64"   -> Q64!Pins

\* Lines of a board share no pin, so that an access changes its line only.
ASSUME PinsDistinct ==
  \A board \in Boards : \A one, other \in DOMAIN PinsOf(board) :
    one # other => PinsOf(board)[one] \intersect PinsOf(board)[other] = {}

\* The timer of each board interrupts once per millisecond.
ASSUME TickIsMillisecond ==
  /\ M328!F_CPU = 1000 * CyclesPerTick(M328!asdf_arch_tick_timer_init)
  /\ M2560!F_CPU = 1000 * CyclesPerTick(M2560!asdf_arch_tick_timer_init)
  /\ asdf_arch_common_clock_init = 1000 * asdf_arch_common_tick_init

\* That is if the clock runs at F_CPU.  On the AVRs the fuses have to see to it:
\* CLKPCE is the number of the bit that lets the prescaler change, not its mask,
\* and the bit of that number is clear in what is written.
ASSUME PrescalerIsLeft ==
  ~HasBit(M328!asdf_arch_init_clock, CLKPCE) /\ ~HasBit(M2560!asdf_arch_init_clock, CLKPCE)

\* The devices as they are wired, in the order of physical_device_table.
Device(line, kind) == [line |-> line, kind |-> kind]
DeviceTable ==
  <<Device("OUT1", "PUSH_PULL"), Device("OUT1", "OPEN_HI"), Device("OUT1", "OPEN_LO"),
    Device("OUT2", "PUSH_PULL"), Device("OUT2", "OPEN_HI"), Device("OUT2", "OPEN_LO"),
    Device("OUT3", "PUSH_PULL"), Device("OUT3", "OPEN_HI"), Device("OUT3", "OPEN_LO"),
    Device("LED1", "PUSH_PULL"), Device("LED2", "PUSH_PULL"), Device("LED3", "PUSH_PULL")>>

ASSUME ArchAssumption ==
  /\ LastDevice = 12 /\ Driver = DeviceTable
  /\ Codes \subseteq 0..255 /\ RowsRead \subseteq Rows
  /\ Outputs \subseteq SUBSET Devices

VARIABLES
  board,    \* the one the firmware was built for
  used,     \* the devices that are set on it
  call,     \* the routine that was called last
  todo,     \* the accesses that it has still to make
  out, dir, \* latch and direction of each line
  rows,     \* the rows that row lines select
  data,     \* what the data lines show
  shifter,  \* the bits in the shift register; 0 is a closed contact
  cols,     \* the columns read, as asdf_arch_read_row returns them
  polarity, \* the strobe that was selected last
  asked,    \* what each output was last asked to show
  samples,  \* the closed contacts of the row that is read, at each sampling
  host,     \* the level at which the host takes a code
  taken     \* the code it took last, and a bit that changes with each

lineVars == <<out, dir>>
readVars == <<shifter, cols, samples>>
ghostVars == <<polarity, asked>>
portVars == <<data, taken>>
vars == <<board, used, host, call, todo, rows, lineVars, readVars, ghostVars, portVars>>

-----------------------------------------------------------------------------
PortLines ==
  Lines \union {"STROBE", "ASCII", "ROWS", "LOROW", "HIROW",
                "COL", "COLCLK", "COLMODE", "COLUMNS"}
Accesses ==
  [op : {"PORT", "DDR"}, line : PortLines, value : {0, 1}]
    \union [op : {"PIN"}, line : {"STROBE"}, value : {1}]
    \union [op : {"ASCII"}, line : {"ASCII"}, value : 0..255]
    \union [op : {"ROWS", "DESELECT"}, line : {"ROWS", "LOROW", "HIROW"}, value : Rows]
    \union [op : {"BIT"}, line : {"COL"}, value : Cols]
    \union [op : {"COLUMNS"}, line : {"COLUMNS"}, value : {0}]

\* The calls of the rest of the firmware.
NoCall == [op |-> "NONE", arg |-> 0, value |-> 0]
InitBoard == [op |-> "INIT", arg |-> 0, value |-> 0]
SelectStrobe(p) == [op |-> p, arg |-> 0, value |-> 0]
SetOutput(d, value) == [op |-> "SET", arg |-> d, value |-> value]
SendCode(code) == [op |-> "SEND", arg |-> code, value |-> 0]
ReadRow(row) == [op |-> "READ", arg |-> row, value |-> 0]
Calls ==
  {InitBoard} \union {SelectStrobe(p) : p \in Polarities}
    \union {SetOutput(d, value) : d \in used, value \in Values}
    \union {SendCode(code) : code \in Codes} \union {ReadRow(row) : row \in RowsRead}

InitProgram ==
  CASE board = "atmega328p"    -> M328!asdf_arch_init
    [] board = "atmega2560"    -> M2560!asdf_arch_init
    [] board = "pic32cm_dip28" -> Dip28!asdf_arch_init
    [] board = "pic32cm_q64"   -> Q64!asdf_arch_init
StrobeProgram(p) ==
  CASE board = "atmega328p" ->
         IF p = "POSITIVE" THEN M328!asdf_arch_set_pos_strobe ELSE M328!asdf_arch_set_neg_strobe
    [] board = "atmega2560" ->
         IF p = "POSITIVE" THEN M2560!asdf_arch_set_pos_strobe ELSE M2560!asdf_arch_set_neg_strobe
    [] board = "pic32cm_dip28" ->
         IF p = "POSITIVE" THEN Dip28!asdf_arch_set_pos_strobe ELSE Dip28!asdf_arch_set_neg_strobe
    [] board = "pic32cm_q64" ->
         IF p = "POSITIVE" THEN Q64!asdf_arch_set_pos_strobe ELSE Q64!asdf_arch_set_neg_strobe
SetProgram(d, value) ==
  CASE board = "atmega328p"    -> M328!Handlers(value)[d]
    [] board = "atmega2560"    -> M2560!Handlers(value)[d]
    [] board = "pic32cm_dip28" -> Dip28!Handlers(value)[d]
    [] board = "pic32cm_q64"   -> Q64!Handlers(value)[d]
SendProgram(code) ==
  CASE board = "atmega328p"    -> M328!asdf_arch_send_code(code)
    [] board = "atmega2560"    -> M2560!asdf_arch_send_code(code)
    [] board = "pic32cm_dip28" -> Dip28!asdf_arch_send_code(code)
    [] board = "pic32cm_q64"   -> Q64!asdf_arch_send_code(code)
ReadProgram(row) ==
  CASE board = "atmega328p"    -> M328!asdf_arch_read_row(row)
    [] board = "atmega2560"    -> M2560!asdf_arch_read_row(row)
    [] board = "pic32cm_dip28" -> Dip28!asdf_arch_read_row(row)
    [] board = "pic32cm_q64"   -> Q64!asdf_arch_read_row(row)
Program(c) ==
  CASE c.op = "INIT"   -> InitProgram
    [] c.op \in Polarities -> StrobeProgram(c.op)
    [] c.op = "SET"    -> SetProgram(c.arg, c.value)
    [] c.op = "SEND"   -> SendProgram(c.arg)
    [] c.op = "READ"   -> ReadProgram(c.arg)

RowPort(row) ==
  CASE board = "atmega328p"    -> M328!RowPort(row)
    [] board = "atmega2560"    -> M2560!RowPort(row)
    [] board = "pic32cm_dip28" -> Dip28!RowPort(row)
    [] board = "pic32cm_q64"   -> Q64!RowPort(row)
Inverted ==
  CASE board = "atmega328p"    -> M328!Inverted
    [] board = "atmega2560"    -> M2560!Inverted
    [] board = "pic32cm_dip28" -> Dip28!Inverted
    [] board = "pic32cm_q64"   -> Q64!Inverted

Opposite(level) ==
  CASE level = "HIGH" -> "LOW" [] level = "LOW" -> "HIGH" [] OTHER -> level
\* An input drives nothing, and so shows no level of its own: the pull-up that
\* a high latch turns on in an AVR is too weak to count as one.
Drive(line) ==
  IF dir[line] = 0 THEN "FLOATING" ELSE IF out[line] = 1 THEN "HIGH" ELSE "LOW"
\* The level of an output at the connector, or of a LED: HIGH is lit.
Shown(line) == IF line \in Inverted THEN Opposite(Drive(line)) ELSE Drive(line)
IdleLevel(p) == IF p = "POSITIVE" THEN "LOW" ELSE "HIGH"

\* On the ATmega328P "OUT2 cannot be high impedance": two handlers do nothing.
Connected(d) ==
  ~(board = "atmega328p" /\ Driver[d].line = "OUT2" /\ Driver[d].kind # "PUSH_PULL")
\* The lines that asdf_arch_init makes outputs; it cannot know their level.
InitDrives == {InitProgram[n].line : n \in {m \in DOMAIN InitProgram : InitProgram[m].op = "DDR"}}

AskedBy(c) ==
  CASE c.op = "SET" /\ Connected(c.arg) ->
         [asked EXCEPT ![Driver[c.arg].line] = Level(c.arg, c.value)]
    [] c.op = "INIT" ->
         [line \in Lines |->
            IF line \in InitDrives /\ asked[line] = "FLOATING" THEN "ANY" ELSE asked[line]]
    [] OTHER -> asked

\* asdf_arch_init selects the default, which is positive on the PIC32CM.
SelectedBy(c) ==
  CASE c.op \in Polarities -> c.op
    [] c.op = "INIT" -> IF board \in AvrBoards THEN StrobePolarity ELSE "POSITIVE"
    [] OTHER -> polarity

-----------------------------------------------------------------------------
\* A routine is called; the first is asdf_arch_init (asdf_keymaps_switch).
Call(c) ==
  /\ todo = <<>>
  /\ call = NoCall => c = InitBoard
  /\ call' = c
  /\ todo' = Program(c)
  /\ polarity' = SelectedBy(c)
  /\ asked' = AskedBy(c)
  /\ cols' = {} /\ samples' = <<>>
  /\ UNCHANGED <<board, used, host, rows, lineVars, shifter, portVars>>

\* The next access of the routine.
Next1(ops) ==
  /\ todo # <<>> /\ Head(todo).op \in ops
  /\ todo' = Tail(todo)
  /\ UNCHANGED <<board, used, host, call, ghostVars>>
Line == Head(todo).line
Value == Head(todo).value

\* Contacts close and open at any time: what they are when they are sampled.
SelectedRows == {r \in rows : dir[RowPort(r)] = 1}
Sampled(contacts) == UNION {contacts[r] : r \in SelectedRows}
Sampling == [SelectedRows \union {call.arg} -> SUBSET Cols]

\* The shift register at a rising edge of its clock.
Clocked ==
  IF out["COLMODE"] = 0
  THEN \E contacts \in Sampling :
         /\ shifter' = [n \in 1..MaxCols |-> IF n - 1 \in Sampled(contacts) THEN 0 ELSE 1]
         /\ samples' = Append(samples, contacts[call.arg])
  ELSE /\ shifter' = IF shifter = <<>> THEN <<>> ELSE Tail(shifter)
       /\ UNCHANGED samples
ShiftRegister ==
  /\ UNCHANGED cols
  /\ IF board \in SerialBoards /\ Drive("COLCLK") = "LOW" /\ Drive("COLCLK")' = "HIGH"
     THEN Clocked
     ELSE UNCHANGED <<shifter, samples>>

\* The host at the edge of the strobe that it takes codes at.
Host ==
  /\ taken' = IF Drive("STROBE") = Opposite(host) /\ Drive("STROBE")' = host
              THEN [code |-> Encoded(data), parity |-> 1 - taken.parity]
              ELSE taken
  /\ UNCHANGED data

WritePort ==
  /\ Next1({"PORT", "PIN"})
  /\ out' = [out EXCEPT ![Line] = IF Head(todo).op = "PIN" THEN 1 - @ ELSE Value]
  /\ UNCHANGED <<dir, rows>>
  /\ ShiftRegister /\ Host

WriteDirection ==
  /\ Next1({"DDR"})
  /\ dir' = [dir EXCEPT ![Line] = Value]
  /\ UNCHANGED <<out, rows>>
  /\ ShiftRegister /\ Host

WriteData ==
  /\ Next1({"ASCII"})
  /\ data' = Value
  /\ UNCHANGED <<rows, lineVars, readVars, taken>>

\* The rows of one port: a number is written, or a pin is pulled low for it.
WriteRows ==
  /\ Next1({"ROWS"})
  /\ rows' = {r \in rows : RowPort(r) # Line} \union {r \in {Value} : RowPort(r) = Line}
  /\ UNCHANGED <<lineVars, readVars, portVars>>

DeselectRow ==
  /\ Next1({"DESELECT"})
  /\ rows' = rows \ {Value}
  /\ UNCHANGED <<lineVars, readVars, portVars>>

ReadBit ==
  /\ Next1({"BIT"})
  /\ cols' = IF shifter # <<>> /\ Head(shifter) = 0 THEN cols \union {Value} ELSE cols
  /\ UNCHANGED <<rows, lineVars, shifter, samples, portVars>>

ReadColumns ==
  /\ Next1({"COLUMNS"})
  /\ \E contacts \in Sampling :
       /\ cols' = Sampled(contacts)
       /\ samples' = Append(samples, contacts[call.arg])
  /\ UNCHANGED <<rows, lineVars, shifter, portVars>>

\* Power is applied: registers are zero, so that a pin is a floating input, a
\* decoder is given row 0 and every row pin is low.
NoCode == 256
Init ==
  /\ board \in Boards /\ used \in Outputs /\ host \in {"HIGH", "LOW"}
  /\ call = NoCall /\ todo = <<>>
  /\ out = [line \in PortLines |-> 0] /\ dir = [line \in PortLines |-> 0]
  /\ rows = IF board \in SerialBoards THEN {0} ELSE Rows
  /\ data = 0 /\ taken = [code |-> NoCode, parity |-> 0]
  /\ shifter = <<>> /\ cols = {} /\ samples = <<>>
  /\ polarity = "POSITIVE" /\ asked = [line \in Lines |-> "ANY"]

Next ==
  \/ \E c \in Calls : Call(c)
  \/ WritePort \/ WriteDirection \/ WriteData
  \/ WriteRows \/ DeselectRow \/ ReadBit \/ ReadColumns

Spec == Init /\ [][Next]_vars

-----------------------------------------------------------------------------
\* Types.  The registers hold bits, and every access is one the boards have.
ArchTypeOK ==
  /\ board \in Boards /\ used \in Outputs /\ host \in {"HIGH", "LOW"}
  /\ call \in Calls \union {NoCall} /\ todo \in Seq(Accesses)
  /\ out \in [PortLines -> {0, 1}] /\ dir \in [PortLines -> {0, 1}]
  /\ rows \in SUBSET Rows /\ data \in 0..255
  /\ taken \in [code : 0..256, parity : {0, 1}]
  /\ shifter \in Seq({0, 1}) /\ cols \in SUBSET Cols /\ samples \in Seq(SUBSET Cols)
  /\ polarity \in Polarities /\ asked \in [Lines -> Levels \union {"ANY"}]

\* Whichever devices share a line and whatever is called in between, a line
\* shows the level that it was last asked for: what AsdfPhysical takes the
\* handlers to do is what those of every board do.
LevelsAsAsked ==
  \A line \in Lines :
    asked[line] # "ANY"
    /\ (todo = <<>> \/ call.op # "SET" \/ Driver[call.arg].line # line)
    => Shown(line) = asked[line]

\* On its way to a new level a line shows no other: a handler that changes the
\* latch and the direction does so in the right order for each pair of levels.
\* Only asdf_arch_init drives a line that floats, and nobody asked it to.
NoGlitch ==
  [][\A line \in Lines :
       Shown(line)' # Shown(line) =>
         \/ call.op = "SET" /\ Driver[call.arg].line = line /\ Shown(line)' = asked[line]
         \/ call.op = "INIT" /\ line \in InitDrives /\ Shown(line) = "FLOATING"]_vars

\* Between calls the strobe is at the idle level of the polarity selected last,
\* though asdf_arch_send_code toggles it without knowing the polarity.
StrobeIdles ==
  todo = <<>> /\ call # NoCall => Drive("STROBE") = IdleLevel(polarity)

\* asdf_arch_read_row returns the columns of the row it was given, as they were
\* when they were sampled, once: no other row is selected then, and the bits of
\* the shift register come out in the order of the columns.
RowIsRead ==
  todo = <<>> /\ call.op = "READ" => samples = <<cols>>

\* The port keeps its promise to the host (StrobePort).
Waiting ==
  /\ call.op = "SEND" /\ todo # <<>>
  /\ Drive("STROBE") = host => IdleLevel(polarity) = host
Port == INSTANCE StrobePort WITH
  Codes <- Codes \union {0, DataPolarity},
  edge <- host,
  idle <- IF call.op = "SEND" THEN IdleLevel(polarity) ELSE Drive("STROBE"),
  sending <- IF Waiting THEN call.arg ELSE NoCode
KeepsStrobe == Port!Spec
=============================================================================
