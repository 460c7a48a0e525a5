------------------------------- MODULE AsdfPins -------------------------------
(***************************************************************************)
(* The statements the architecture layer is written in: accesses to the    *)
(* registers of the processor.  A routine is a sequence of them, made one  *)
(* after the other; what an access does to the board is in AsdfArch.       *)
(*                                                                         *)
(* A line is a pin, or the pins of a port that are used together.  Its     *)
(* latch is its bit of PORT (PORT_OUT of the PIC32CM), its direction that  *)
(* of DDR (PORT_DIR).                                                      *)
(***************************************************************************)
EXTENDS Integers, Sequences

CONSTANTS
  DataPolarity,    \* ASDF_DEFAULT_DATA_POLARITY: 0, or 255 to invert codes
  StrobePolarity,  \* ASDF_DEFAULT_STROBE_POLARITY
  MaxCols          \* ASDF_MAX_COLS, 8

Polarities == {"POSITIVE", "NEGATIVE"}

ASSUME PinsAssumption ==
  /\ DataPolarity \in {0, 255}
  /\ StrobePolarity \in Polarities
  /\ MaxCols \in Nat \ {0}

\* code ^ data_polarity, of eight bits.
Encoded(code) == IF DataPolarity = 0 THEN code ELSE 255 - code

Access(op, line, value) == [op |-> op, line |-> line, value |-> value]

\* On an AVR a bit of a PIN register that is set toggles the latch, of that pin
\* alone as long as the compiler makes of set_bit one SBI instruction, which it
\* does when it optimises.
set_bit(register, line)   == Access(register, line, 1)
clear_bit(register, line) == Access(register, line, 0)

\* The PIC32CM has registers that set, clear and toggle a bit.
pin_set(line)     == Access("PORT", line, 1)
pin_clear(line)   == Access("PORT", line, 0)
pin_toggle(line)  == Access("PIN", line, 1)
pin_dir_out(line) == Access("DDR", line, 1)
pin_dir_in(line)  == Access("DDR", line, 0)

\* Numbers of bits in the registers of timer 0 and of the clock of an AVR.
WGM01 == 1
CS00 == 0
CS01 == 1
OCIE0A == 1
CLKPCE == 7

\* A field of a word, and a bit of a register.
Field(bits, pos) == (bits \div 2^pos) % 256
HasBit(register, bit) == (register \div 2^bit) % 2 = 1

\* Cycles from one interrupt of timer 0 to the next, with a prescaler of 64:
\* it counts from 0 to OCR0A if it is cleared on a match, and up to 255 if not.
\* Zero: the match does not interrupt, or the prescaler is another.
CyclesPerTick(timer) ==
  IF HasBit(timer.TIMSK0, OCIE0A) /\ timer.TCCR0B = 2^CS01 + 2^CS00
  THEN 64 * (IF timer.TCCR0A = 2^WGM01 THEN timer.OCR0A + 1 ELSE 256)
  ELSE 0

\* The clock of the PIC32CM, and the cycles from one SysTick to the next.
PIC32CM_F_CPU == 24000000
FRQSEL_24M == 24000000
asdf_arch_common_clock_init == FRQSEL_24M
asdf_arch_common_tick_init == PIC32CM_F_CPU \div 1000

\* A clock pulse, and the shift register of the columns: a pulse loads it
\* while COLMODE is low, and shifts it while COLMODE is high.  The bits are
\* read in the loop over i, each before the pulse that brings the next.
ClockPulse == <<set_bit("PORT", "COLCLK"), clear_bit("PORT", "COLCLK")>>
LoadColumns ==
  <<clear_bit("PORT", "COLMODE")>> \o ClockPulse \o <<set_bit("PORT", "COLMODE")>>
\* Mutant: one bit too many is read.
ShiftsOneMore ==
  [n \in 1..(3 * MaxCols + 1) |->
     CASE n % 3 = 1 -> Access("BIT", "COL", n \div 3)
       [] n % 3 = 2 -> set_bit("PORT", "COLCLK")
       [] n % 3 = 0 -> clear_bit("PORT", "COLCLK")]
ShiftColumns ==
  [n \in 1..(3 * MaxCols) |->
     CASE n % 3 = 1 -> Access("BIT", "COL", n \div 3)
       [] n % 3 = 2 -> set_bit("PORT", "COLCLK")
       [] n % 3 = 0 -> clear_bit("PORT", "COLCLK")]

\* asdf_arch_send_code of every board: the data, then a pulse of the strobe.
\* Mutants: the strobe goes first; it is left active.
StrobeFirst(code) ==
  <<pin_toggle("STROBE"), Access("ASCII", "ASCII", Encoded(code)), pin_toggle("STROBE")>>
StrobeStays(code) ==
  <<Access("ASCII", "ASCII", Encoded(code)), pin_toggle("STROBE")>>
SendData(code) ==
  <<Access("ASCII", "ASCII", Encoded(code)), pin_toggle("STROBE"), pin_toggle("STROBE")>>
=============================================================================
