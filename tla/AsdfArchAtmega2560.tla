-------------------------- MODULE AsdfArchAtmega2560 --------------------------
(***************************************************************************)
(* asdf_arch_atmega2560.c, one definition per function: the accesses it    *)
(* makes.  Sixteen row pins in two ports, eight column pins in a third.    *)
(* asdf_arch_osi_read_row, which no keymap installs, is left out.          *)
(***************************************************************************)
EXTENDS AsdfPins

F_CPU == 16000000
TICK_COUNT == 249
SYSCLK_DIV1 == 0

\* A word of settings has a field for each of three registers of timer 0.
TMR0A_POS == 0
TMR0B_POS == 8
TMR0IMSK_POS == 16
TIMER0_WFM_CTC == 2^(TMR0A_POS + WGM01)
TIMER0_DIV64 == 2^(TMR0B_POS + CS01) + 2^(TMR0B_POS + CS00)
TIMER0_INT_ON_COMA == 2^(TMR0IMSK_POS + OCIE0A)

\* What the registers of the timer hold then.
arch_timer0_config(ocr0a, bits) ==
  [OCR0A |-> ocr0a, TCCR0A |-> Field(bits, TMR0A_POS),
   TIMSK0 |-> Field(bits, TMR0IMSK_POS), TCCR0B |-> Field(bits, TMR0B_POS)]
asdf_arch_tick_timer_init ==
  arch_timer0_config(TICK_COUNT, TIMER0_WFM_CTC + TIMER0_DIV64 + TIMER0_INT_ON_COMA)

\* What is written to the register of the clock's prescaler.
asdf_arch_init_clock == CLKPCE + SYSCLK_DIV1

\* The pins of each line: a port and a bit of it.
Pins ==
  [HIROW |-> {<<"A", bit>> : bit \in 0..7},  LOROW |-> {<<"J", bit>> : bit \in 0..7},
   COLUMNS |-> {<<"C", bit>> : bit \in 0..7},  ASCII |-> {<<"H", bit>> : bit \in 0..7},
   LED1 |-> {<<"D", 5>>},  LED2 |-> {<<"D", 6>>},  LED3 |-> {<<"D", 7>>},
   OUT1 |-> {<<"B", 5>>},  OUT2 |-> {<<"B", 6>>},  OUT3 |-> {<<"B", 7>>},
   STROBE |-> {<<"B", 4>>}]

\* LEDs that a low pin turns on.
Inverted == {"LED1", "LED2", "LED3"}

\* A row is a pin of one of two ports; a low pin selects it.
RowPort(row) == IF row < 8 THEN "LOROW" ELSE "HIROW"

asdf_arch_led1_set(value) ==
  IF value = 1 THEN <<clear_bit("PORT", "LED1")>> ELSE <<set_bit("PORT", "LED1")>>
asdf_arch_led2_set(value) ==
  IF value = 1 THEN <<clear_bit("PORT", "LED2")>> ELSE <<set_bit("PORT", "LED2")>>
asdf_arch_led3_set(value) ==
  IF value = 1 THEN <<clear_bit("PORT", "LED3")>> ELSE <<set_bit("PORT", "LED3")>>

asdf_arch_null_output(value) == <<>>

asdf_arch_out1_set(value) == <<Access("PORT", "OUT1", value), set_bit("DDR", "OUT1")>>
asdf_arch_out1_open_hi_set(value) ==
  IF value = 1 THEN <<clear_bit("DDR", "OUT1"), set_bit("PORT", "OUT1")>>
               ELSE <<clear_bit("PORT", "OUT1"), set_bit("DDR", "OUT1")>>
asdf_arch_out1_open_lo_set(value) ==
  IF value = 1 THEN <<set_bit("PORT", "OUT1"), set_bit("DDR", "OUT1")>>
               ELSE <<clear_bit("DDR", "OUT1"), clear_bit("PORT", "OUT1")>>

\* Mutant: the level is that of the inverting ATmega328P board.
SetsInverse(value) == <<Access("PORT", "OUT2", 1 - value), set_bit("DDR", "OUT2")>>
asdf_arch_out2_set(value) == <<Access("PORT", "OUT2", value), set_bit("DDR", "OUT2")>>
asdf_arch_out2_open_hi_set(value) ==
  IF value = 1 THEN <<clear_bit("DDR", "OUT2"), set_bit("PORT", "OUT2")>>
               ELSE <<clear_bit("PORT", "OUT2"), set_bit("DDR", "OUT2")>>
asdf_arch_out2_open_lo_set(value) ==
  IF value = 1 THEN <<set_bit("PORT", "OUT2"), set_bit("DDR", "OUT2")>>
               ELSE <<clear_bit("DDR", "OUT2"), clear_bit("PORT", "OUT2")>>

asdf_arch_out3_set(value) == <<Access("PORT", "OUT3", value), set_bit("DDR", "OUT3")>>
asdf_arch_out3_open_hi_set(value) ==
  IF value = 1 THEN <<clear_bit("DDR", "OUT3"), set_bit("PORT", "OUT3")>>
               ELSE <<clear_bit("PORT", "OUT3"), set_bit("DDR", "OUT3")>>
asdf_arch_out3_open_lo_set(value) ==
  IF value = 1 THEN <<set_bit("PORT", "OUT3"), set_bit("DDR", "OUT3")>>
               ELSE <<clear_bit("DDR", "OUT3"), clear_bit("PORT", "OUT3")>>

\* The handlers in the order of physical_device_table, from OUT1 to LED3.
Handlers(value) ==
  <<asdf_arch_out1_set(value), asdf_arch_out1_open_hi_set(value), asdf_arch_out1_open_lo_set(value),
    asdf_arch_out2_set(value), asdf_arch_out2_open_hi_set(value), asdf_arch_out2_open_lo_set(value),
    asdf_arch_out3_set(value), asdf_arch_out3_open_hi_set(value), asdf_arch_out3_open_lo_set(value),
    asdf_arch_led1_set(value), asdf_arch_led2_set(value), asdf_arch_led3_set(value)>>

asdf_arch_set_pos_strobe == <<clear_bit("PORT", "STROBE"), set_bit("DDR", "STROBE")>>
asdf_arch_set_neg_strobe == <<set_bit("PORT", "STROBE"), set_bit("DDR", "STROBE")>>

asdf_arch_init_leds ==
  <<set_bit("DDR", "LED1"), set_bit("DDR", "LED2"), set_bit("DDR", "LED3")>>
asdf_arch_init_ascii_output ==
  <<Access("ASCII", "ASCII", DataPolarity), set_bit("DDR", "ASCII")>>
asdf_arch_init_row_outputs == <<set_bit("DDR", "HIROW"), set_bit("DDR", "LOROW")>>
\* Inputs with pull-ups.
asdf_arch_init_columns == <<clear_bit("DDR", "COLUMNS"), set_bit("PORT", "COLUMNS")>>

asdf_arch_init ==
  asdf_arch_init_ascii_output
  \o (IF StrobePolarity = "POSITIVE" THEN asdf_arch_set_pos_strobe ELSE asdf_arch_set_neg_strobe)
  \o asdf_arch_init_leds \o asdf_arch_init_row_outputs \o asdf_arch_init_columns

\* Both ports are written: a row that stayed selected would be read too.
\* Mutant: only the port with the row is.
WritesOnePort(row) ==
  <<Access("ROWS", RowPort(row), row), Access("COLUMNS", "COLUMNS", 0)>>
asdf_arch_read_row(row) ==
  <<Access("ROWS", "LOROW", row), Access("ROWS", "HIROW", row),
    Access("COLUMNS", "COLUMNS", 0)>>

asdf_arch_send_code(code) == SendData(code)
=============================================================================
