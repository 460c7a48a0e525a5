------------------------------ MODULE AsdfHooks ------------------------------
(***************************************************************************)
(* asdf_hook.c: the functions that a keymap may replace.  hook_map gives   *)
(* every hook its function; a function stands for itself by its name.      *)
(***************************************************************************)

HookIds ==
  {"KEY_SCANNER", "ROW_SCANNER", "OUTPUT", "EACH_SCAN", "USER_1", "USER_2", "USER_3",
   "USER_4", "USER_5", "USER_6", "USER_7", "USER_8", "USER_9", "USER_10", "USER_11"}

null_func == "null_func"
DefaultHooks == [ROW_SCANNER |-> "asdf_arch_read_row",
                 OUTPUT      |-> "asdf_arch_send_code",
                 KEY_SCANNER |-> "asdf_keyscan"]

valid_id(id) == id \in HookIds

hook_init ==
  [id \in HookIds |-> IF id \in DOMAIN DefaultHooks THEN DefaultHooks[id] ELSE null_func]

\* Hooks that do not exist are refused without effect, and run nothing.
hook_assign(hook_map, id, func) ==
  IF valid_id(id) THEN [hook_map EXCEPT ![id] = func] ELSE hook_map
hook_get(hook_map, id) == IF valid_id(id) THEN hook_map[id] ELSE null_func

\* The function that runs.
hook_execute(hook_map, id) == hook_get(hook_map, id)
=============================================================================
