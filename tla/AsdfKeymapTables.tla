-------------------------- MODULE AsdfKeymapTables --------------------------
(***************************************************************************)
(* Keymaps/: the matrices and setup routines of the six keymaps of         *)
(* keymap_list.cmake, and the devices of the ATmega328P board that they    *)
(* assign.  A place of a matrix is 8 * row + column.  Actions stand where  *)
(* they do in the code; "value" is any code for the host.                  *)
(***************************************************************************)
EXTENDS Naturals, SequencesExt

\* The codes for the host: those of asdf_ascii.h, and a few more on the Sol.  Only
\* what is above ASDF_ACTION is an action.
ASDF_ACTION == 160
AsciiCodes == 0..127
SolCodes == {140, 128, 151, 129, 147, 154, 142, 139}
ASSUME NoCodeIsAnAction == \A code \in AsciiCodes \union SolCodes : code < ASDF_ACTION

At(action, places) == [k \in places |-> action]
HostCodes(rows) == At("value", 0..(8 * rows - 1))

\* Row 8 of every matrix.
DIP_SWITCHES ==
  64 :> "MAPSEL_0" @@ 65 :> "MAPSEL_1" @@ 66 :> "MAPSEL_2" @@ 67 :> "MAPSEL_3"
    @@ 69 :> "FN_11" @@ 70 :> "STROBE_POLARITY_SELECT" @@ 71 :> "AUTOREPEAT_SELECT"

\* What all matrices of a keyboard have; the definitions of each override it.
ClassicKeys ==
  At("NOTHING", {0, 3, 24, 32, 40}) @@ At("SHIFT", {1, 2}) @@ At("CTRL", {6})
    @@ At("REPEAT", {41}) @@ At("CAPS", {42}) @@ DIP_SWITCHES @@ HostCodes(9)
classic_plain_matrix == At("NOTHING", {16}) @@ ClassicKeys
classic_caps_matrix  == At("NOTHING", {16}) @@ ClassicKeys
classic_shift_matrix == At("VOUT2", {16}) @@ ClassicKeys
classic_ctrl_matrix  ==
  At("VOUT1", {16}) @@ At("NOTHING", {8, 10, 11, 47, 48, 51, 52})
    @@ 53 :> "FN_10" @@ 54 :> "FN_9" @@ 55 :> "FN_8" @@ 57 :> "FN_7" @@ 58 :> "FN_6"
    @@ 59 :> "FN_5" @@ 60 :> "FN_4" @@ 61 :> "FN_3" @@ 62 :> "FN_2" @@ 63 :> "FN_1"
    @@ ClassicKeys

AppleKeys ==
  At("CAPS", {0}) @@ At("SHIFT", {1, 2}) @@ At("CTRL", {6}) @@ At("REPEAT", {44})
    @@ At("NOTHING", {3, 4, 16, 24, 32, 40, 41, 42, 48, 49})
    @@ DIP_SWITCHES @@ HostCodes(9)
apple_plain_matrix == At("NOTHING", {50}) @@ AppleKeys
apple_caps_matrix  == At("NOTHING", {8, 50}) @@ AppleKeys
apple_shift_matrix == At("NOTHING", {8}) @@ At("VOUT2", {50}) @@ AppleKeys
apple_caps_shift_matrix == At("NOTHING", {8, 53}) @@ At("VOUT2", {50}) @@ AppleKeys
apple_ctrl_matrix  ==
  At("NOTHING", {8, 10, 52}) @@ At("VOUT1", {50}) @@ 53 :> "FN_10" @@ 59 :> "FN_5"
    @@ 60 :> "FN_4" @@ 61 :> "FN_3" @@ AppleKeys

SolKeys ==
  At("CTRL", {0, 15}) @@ At("SHIFTLOCK_ON", {1}) @@ At("CAPS", {16})
    @@ At("SHIFT", {17, 28}) @@ At("VOUT2", {48}) @@ At("VOUT3", {72})
    @@ At("NOTHING", {30, 31, 86, 87, 94, 95} \union 99..103)
    @@ DIP_SWITCHES @@ HostCodes(13)
sol_plain_map == At("REPEAT", {14}) @@ SolKeys
sol_caps_map  == At("REPEAT", {14}) @@ SolKeys
sol_shift_map == At("REPEAT", {14}) @@ SolKeys
sol_ctrl_map  == At("VOUT1", {14}) @@ At("FN_10", {42}) @@ SolKeys

AceKeys ==
  At("CTRL", {3}) @@ At("CAPS", {5}) @@ At("SHIFT", {6, 59})
    @@ DIP_SWITCHES @@ HostCodes(10)
ace1000_plain_matrix == AceKeys
ace1000_caps_matrix  == AceKeys
ace1000_shift_matrix == AceKeys
ace1000_ctrl_matrix  == At("FN_10", {48}) @@ AceKeys

-----------------------------------------------------------------------------
\* The devices in the order of the table.  OUT2 cannot float: its open devices
\* do nothing, which is to drive a line that leads nowhere.
PUSH_PULL(name) == [line |-> name, kind |-> "PUSH_PULL"]
OPEN_HI(name)   == [line |-> name, kind |-> "OPEN_HI"]
OPEN_LO(name)   == [line |-> name, kind |-> "OPEN_LO"]
BoardDevices ==
  <<PUSH_PULL("OUT1"), OPEN_HI("OUT1"), OPEN_LO("OUT1"),
    PUSH_PULL("OUT2"), OPEN_HI("NO_LINE"), OPEN_LO("NO_LINE"),
    PUSH_PULL("OUT3"), OPEN_HI("OUT3"), OPEN_LO("OUT3"),
    PUSH_PULL("LED1"), PUSH_PULL("LED2"), PUSH_PULL("LED3")>>

OUT1 == 1
OUT1_OPEN_LO == 3
OUT2 == 4
OUT3_OPEN_HI == 8
LED1 == 10
LED2 == 11
LED3 == 12

KeymapVirtuals ==
  {"VOUT1", "VOUT2", "VOUT3", "VOUT4", "VOUT5", "VOUT6", "VLED1", "VLED2", "VLED3",
   "VCAPS_LED", "VSHIFT_LED"}

Lit(v, led, value) == <<v, led, "V_NOFUNC", value>>
RESET   == <<"VOUT1", OUT3_OPEN_HI, "V_PULSE_SHORT", 1>>
CLR_SCR == <<"VOUT2", OUT1_OPEN_LO, "V_PULSE_LONG", 0>>

\* A matrix that is larger than the scan is refused: the map stays empty.
ASDF_MAX_ROWS == 16
Fits(matrix) == DOMAIN matrix \subseteq 0..(8 * ASDF_MAX_ROWS - 1)
no_maps == [m \in {"PLAIN", "SHIFT", "CAPS", "CTRL"} |-> <<>>]
add_map(maps, m, matrix) == IF Fits(matrix) THEN [maps EXCEPT ![m] = matrix] ELSE maps
add_maps(plain, caps, shift, ctrl) ==
  add_map(add_map(add_map(add_map(no_maps, "PLAIN", plain), "CAPS", caps), "SHIFT", shift),
          "CTRL", ctrl)

classic_maps == [PLAIN |-> classic_plain_matrix, CAPS |-> classic_caps_matrix,
                 SHIFT |-> classic_shift_matrix, CTRL |-> classic_ctrl_matrix]
apple_maps ==
  [PLAIN |-> apple_plain_matrix, CAPS |-> apple_caps_matrix, SHIFT |-> apple_shift_matrix,
   CAPS_SHIFT |-> apple_caps_shift_matrix, CTRL |-> apple_ctrl_matrix]
ace1000_maps == [PLAIN |-> ace1000_plain_matrix, CAPS |-> ace1000_caps_matrix,
                 SHIFT |-> ace1000_shift_matrix, CTRL |-> ace1000_ctrl_matrix]

setup_classic_keymap ==
  [map |-> add_maps(classic_maps.PLAIN, classic_maps.CAPS, classic_maps.SHIFT, classic_maps.CTRL),
   hooks |-> <<<<"USER_10", "classic_id_message">>, <<"USER_9", "applesoft_keyboard_test">>>>,
   assign |-> <<Lit("VLED1", LED1, 1), Lit("VCAPS_LED", LED3, 0), RESET, CLR_SCR>>,
   capslock |-> FALSE, strobe |-> "POSITIVE"]

setup_classic_caps_keymap ==
  [map |-> add_maps(classic_maps.CAPS, classic_maps.CAPS, classic_maps.SHIFT, classic_maps.CTRL),
   hooks |-> <<<<"USER_10", "classic_caps_id_message">>, <<"USER_9", "applesoft_keyboard_test">>>>,
   assign |-> <<Lit("VLED1", LED1, 1), Lit("VLED1", LED3, 0), RESET, CLR_SCR>>,
   capslock |-> FALSE, strobe |-> "POSITIVE"]

setup_apple2_keymap ==
  [map |-> add_maps(apple_maps.PLAIN, apple_maps.CAPS, apple_maps.SHIFT, apple_maps.CTRL),
   hooks |-> <<<<"USER_3", "applesoft_keyboard_test">>, <<"USER_10", "apple2_id_message">>>>,
   assign |-> <<Lit("VCAPS_LED", LED1, 0), Lit("VLED2", LED3, 0), RESET, CLR_SCR>>,
   capslock |-> TRUE, strobe |-> "POSITIVE"]

setup_apple2_caps_keymap ==
  [map |-> add_maps(apple_maps.CAPS, apple_maps.CAPS, apple_maps.CAPS_SHIFT, apple_maps.CTRL),
   hooks |-> <<<<"USER_9", "applesoft_keyboard_test">>, <<"USER_10", "apple2_caps_id_message">>>>,
   assign |-> <<Lit("VLED1", LED1, 0), Lit("VLED2", LED3, 0), RESET, CLR_SCR>>,
   capslock |-> FALSE, strobe |-> "POSITIVE"]

setup_sol_keymap ==
  [map |-> add_maps(sol_plain_map, sol_caps_map, sol_shift_map, sol_ctrl_map),
   hooks |-> <<<<"USER_10", "sol_id_message">>>>,
   assign |-> <<Lit("VCAPS_LED", LED1, 0), Lit("VSHIFT_LED", LED3, 0),
                <<"VOUT3", OUT1, "V_TOGGLE", 1>>, <<"VOUT3", LED2, "V_TOGGLE", 0>>,
                RESET, <<"VOUT2", OUT2, "V_PULSE_LONG", 1>>>>,
   capslock |-> TRUE, strobe |-> "NEGATIVE"]

setup_ace1000_keymap ==
  [map |-> add_maps(ace1000_maps.PLAIN, ace1000_maps.CAPS, ace1000_maps.SHIFT, ace1000_maps.CTRL),
   hooks |-> <<<<"USER_10", "ace1000_id_message">>, <<"USER_9", "ace1000_keyboard_test">>>>,
   assign |-> <<Lit("VLED1", LED1, 1), Lit("VCAPS_LED", LED3, 0), RESET, CLR_SCR>>,
   capslock |-> TRUE, strobe |-> "POSITIVE"]

\* asdf_keymap_setup: keymaps by the bits of their index.
KeymapSetups ==
  {} :> setup_classic_keymap @@ {0} :> setup_classic_caps_keymap
    @@ {1} :> setup_apple2_keymap @@ {0, 1} :> setup_apple2_caps_keymap
    @@ {2} :> setup_sol_keymap @@ {0, 2} :> setup_ace1000_keymap

-----------------------------------------------------------------------------
\* No map of a keymap is refused, and all have the same places: the row and
\* column counts that the scan reads do not depend on the modifiers.
ASSUME MapsHaveTheSamePlaces ==
  \A i \in DOMAIN KeymapSetups :
    LET map == KeymapSetups[i].map IN
    \A m, n \in DOMAIN map : DOMAIN map[m] = DOMAIN map[n] /\ map[m] # no_maps[m]

\* A place that is SHIFT, CTRL or the strobe switch in one map is so in all maps
\* of its keymap, as the theorems that modifiers never stick, and that held keys
\* take effect, require of a keymap.
ASSUME ModifiersAreBoundInAllMaps ==
  \A i \in DOMAIN KeymapSetups :
    LET map == KeymapSetups[i].map IN
    \A m, n \in DOMAIN map, action \in {"SHIFT", "CTRL", "STROBE_POLARITY_SELECT"} :
      \A k \in DOMAIN map[m] : map[m][k] = action => map[n][k] = action

\* So is REPEAT, but for the keymap of the Sol: under CTRL it is RESET there.
ASSUME RepeatIsBoundInAllMapsButSols ==
  \A i \in DOMAIN KeymapSetups :
    LET map == KeymapSetups[i].map IN
    (\A m, n \in DOMAIN map : \A k \in DOMAIN map[m] :
       map[m][k] = "REPEAT" => map[n][k] = "REPEAT")
    <=> KeymapSetups[i] # setup_sol_keymap
=============================================================================
