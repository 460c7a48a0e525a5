------------------------ MODULE AsdfArchPic32cmDip28 ------------------------
(***************************************************************************)
(* asdf_arch_pic32cm_pl10_dip28.c, one definition per function: the        *)
(* accesses it makes.  Rows go through a decoder, columns through a shift  *)
(* register, as on the ATmega328P.                                         *)
(***************************************************************************)
EXTENDS AsdfPins

\* The pins of each line: a group and a bit of it.
Pins ==
  [ROWS |-> {<<0, bit>> : bit \in 0..3},  ASCII   |-> {<<0, bit>> : bit \in 8..15},
   COL  |-> {<<0, 4>>},   COLCLK |-> {<<0, 5>>},   COLMODE |-> {<<0, 6>>},
   LED1 |-> {<<0, 16>>},  LED2   |-> {<<0, 17>>},  LED3    |-> {<<0, 18>>},
   OUT1 |-> {<<0, 19>>},  OUT2   |-> {<<0, 20>>},  OUT3    |-> {<<0, 21>>},
   STROBE |-> {<<0, 7>>}]

\* "LEDs are active low (on => drive low)".
Inverted == {"LED1", "LED2", "LED3"}

\* The line that the number of a row is written to; its four bits.
RowPort(row) == "ROWS"
RowNumber(row) == row % 16

\* The handlers of all outputs are instances of these.
out_set(line, value) ==
  <<(IF value = 1 THEN pin_set(line) ELSE pin_clear(line)), pin_dir_out(line)>>
out_open_hi(line, value) ==
  IF value = 1 THEN <<pin_dir_in(line)>> ELSE <<pin_clear(line), pin_dir_out(line)>>
out_open_lo(line, value) ==
  IF value = 1 THEN <<pin_set(line), pin_dir_out(line)>> ELSE <<pin_dir_in(line)>>

asdf_arch_led1_set(value) ==
  IF value = 1 THEN <<pin_clear("LED1")>> ELSE <<pin_set("LED1")>>
asdf_arch_led2_set(value) ==
  IF value = 1 THEN <<pin_clear("LED2")>> ELSE <<pin_set("LED2")>>
asdf_arch_led3_set(value) ==
  IF value = 1 THEN <<pin_clear("LED3")>> ELSE <<pin_set("LED3")>>

asdf_arch_null_output(value) == <<>>
asdf_arch_out1_set(value) == out_set("OUT1", value)
asdf_arch_out1_open_hi_set(value) == out_open_hi("OUT1", value)
asdf_arch_out1_open_lo_set(value) == out_open_lo("OUT1", value)
asdf_arch_out2_set(value) == out_set("OUT2", value)
asdf_arch_out2_open_hi_set(value) == out_open_hi("OUT2", value)
asdf_arch_out2_open_lo_set(value) == out_open_lo("OUT2", value)
asdf_arch_out3_set(value) == out_set("OUT3", value)
asdf_arch_out3_open_hi_set(value) == out_open_hi("OUT3", value)
asdf_arch_out3_open_lo_set(value) == out_open_lo("OUT3", value)

\* The handlers in the order of physical_device_table, from OUT1 to LED3.
Handlers(value) ==
  <<asdf_arch_out1_set(value), asdf_arch_out1_open_hi_set(value), asdf_arch_out1_open_lo_set(value),
    asdf_arch_out2_set(value), asdf_arch_out2_open_hi_set(value), asdf_arch_out2_open_lo_set(value),
    asdf_arch_out3_set(value), asdf_arch_out3_open_hi_set(value), asdf_arch_out3_open_lo_set(value),
    asdf_arch_led1_set(value), asdf_arch_led2_set(value), asdf_arch_led3_set(value)>>

asdf_arch_set_pos_strobe == <<pin_clear("STROBE"), pin_dir_out("STROBE")>>
asdf_arch_set_neg_strobe == <<pin_set("STROBE"), pin_dir_out("STROBE")>>

\* Every LED and output is made an output, whatever its handler had released.
DriveOutputs ==
  <<pin_dir_out("LED1"), pin_dir_out("LED2"), pin_dir_out("LED3"),
    pin_dir_out("OUT1"), pin_dir_out("OUT2"), pin_dir_out("OUT3")>>

asdf_arch_init ==
  <<pin_dir_out("ROWS"), pin_dir_out("ASCII"), pin_clear("COLCLK"), pin_dir_out("COLCLK"),
    pin_set("COLMODE"), pin_dir_out("COLMODE"), pin_dir_in("COL")>>
  \o DriveOutputs \o asdf_arch_set_pos_strobe

asdf_arch_read_row(row) ==
  <<Access("ROWS", "ROWS", RowNumber(row))>> \o LoadColumns \o ShiftColumns

asdf_arch_send_code(code) == SendData(code)
=============================================================================
