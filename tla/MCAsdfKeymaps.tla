---------------------------- MODULE MCAsdfKeymaps ----------------------------
(***************************************************************************)
(* AsdfKeymaps over the six keymaps of the firmware and its table of       *)
(* devices.  The configuration chooses the places where keys move.         *)
(***************************************************************************)
EXTENDS AsdfKeymaps, AsdfKeymapTables

MCKeymaps == DOMAIN KeymapSetups
MCKeymap == [i \in MCKeymaps |-> KeymapSetups[i].map]
=============================================================================
