------------------------- MODULE AsdfArchPic32cmQ64 -------------------------
(***************************************************************************)
(* asdf_arch_pic32cm_pl10_q64.c, one definition per function: the accesses *)
(* it makes.  Sixteen row pins in one group, eight column pins in another. *)
(* asdf_arch_osi_read_row, which no keymap installs, is left out.          *)
(***************************************************************************)
EXTENDS AsdfPins

\* The pins of each line: a group and a bit of it.  The two OSI lines are pins
\* of rows 9 and 10 as well.
Pins ==
  [ROWS |-> {<<0, bit>> : bit \in 0..15},  COLUMNS |-> {<<1, bit>> : bit \in 0..7},
   ASCII |-> {<<0, bit>> : bit \in 16..23},
   LED1 |-> {<<1, 8>>},   LED2 |-> {<<1, 9>>},   LED3 |-> {<<1, 10>>},
   OUT1 |-> {<<1, 11>>},  OUT2 |-> {<<1, 12>>},  OUT3 |-> {<<1, 13>>},
   STROBE |-> {<<0, 24>>}]
OSI_KBE_ROW == 9
OSI_RW_ROW == 10

\* LEDs that a low pin turns on.
Inverted == {"LED1", "LED2", "LED3"}

\* A row is a pin of one group; a low pin selects it.
RowPort(row) == "ROWS"

\* The handlers of all outputs are instances of these.
out_set(line, value) ==
  <<(IF value = 1 THEN pin_set(line) ELSE pin_clear(line)), pin_dir_out(line)>>
out_open_hi(line, value) ==
  IF value = 1 THEN <<pin_dir_in(line)>> ELSE <<pin_clear(line), pin_dir_out(line)>>
out_open_lo(line, value) ==
  IF value = 1 THEN <<pin_set(line), pin_dir_out(line)>> ELSE <<pin_dir_in(line)>>

asdf_arch_led1_set(value) ==
  IF value = 1 THEN <<pin_clear("LED1")>> ELSE <<pin_set("LED1")>>
asdf_arch_led2_set(value) ==
  IF value = 1 THEN <<pin_clear("LED2")>> ELSE <<pin_set("LED2")>>
asdf_arch_led3_set(value) ==
  IF value = 1 THEN <<pin_clear("LED3")>> ELSE <<pin_set("LED3")>>

asdf_arch_null_output(value) == <<>>
asdf_arch_out1_set(value) == out_set("OUT1", value)
asdf_arch_out1_open_hi_set(value) == out_open_hi("OUT1", value)
asdf_arch_out1_open_lo_set(value) == out_open_lo("OUT1", value)
asdf_arch_out2_set(value) == out_set("OUT2", value)
asdf_arch_out2_open_hi_set(value) == out_open_hi("OUT2", value)
asdf_arch_out2_open_lo_set(value) == out_open_lo("OUT2", value)
asdf_arch_out3_set(value) == out_set("OUT3", value)
asdf_arch_out3_open_hi_set(value) == out_open_hi("OUT3", value)
asdf_arch_out3_open_lo_set(value) == out_open_lo("OUT3", value)

\* The handlers in the order of physical_device_table, from OUT1 to LED3.
Handlers(value) ==
  <<asdf_arch_out1_set(value), asdf_arch_out1_open_hi_set(value), asdf_arch_out1_open_lo_set(value),
    asdf_arch_out2_set(value), asdf_arch_out2_open_hi_set(value), asdf_arch_out2_open_lo_set(value),
    asdf_arch_out3_set(value), asdf_arch_out3_open_hi_set(value), asdf_arch_out3_open_lo_set(value),
    asdf_arch_led1_set(value), asdf_arch_led2_set(value), asdf_arch_led3_set(value)>>

asdf_arch_set_pos_strobe == <<pin_clear("STROBE"), pin_dir_out("STROBE")>>
asdf_arch_set_neg_strobe == <<pin_set("STROBE"), pin_dir_out("STROBE")>>

\* Every LED and output is made an output, whatever its handler had released.
DriveOutputs ==
  <<pin_dir_out("LED1"), pin_dir_out("LED2"), pin_dir_out("LED3"),
    pin_dir_out("OUT1"), pin_dir_out("OUT2"), pin_dir_out("OUT3")>>

\* A set OSI pin is a row that is not selected.
asdf_arch_init ==
  <<pin_dir_out("ROWS"), pin_dir_out("ASCII"), pin_dir_in("COLUMNS")>>
  \o DriveOutputs
  \o <<Access("DESELECT", "ROWS", OSI_KBE_ROW), Access("DESELECT", "ROWS", OSI_RW_ROW)>>
  \o asdf_arch_set_pos_strobe

asdf_arch_read_row(row) ==
  <<Access("ROWS", "ROWS", row), Access("COLUMNS", "COLUMNS", 0)>>

asdf_arch_send_code(code) == SendData(code)
=============================================================================
