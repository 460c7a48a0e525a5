------------------------------ MODULE AsdfMain ------------------------------
(***************************************************************************)
(* The superloop of main.c, from the timer interrupt to the port: the tick *)
(* flag, the two queues of asdf.c in the rings of AsdfBuffer, and messages,*)
(* which the loop sends first and slowly.                                  *)
(*                                                                         *)
(* The interrupt may come between any two steps of the loop, and several   *)
(* may come while the loop is busy.  What a scan does is reduced to what   *)
(* the loop sees of it: codes typed, messages printed by hooks, and keymap *)
(* switches, any number of each (AsdfKeyscan and AsdfKeymaps say which).   *)
(***************************************************************************)
EXTENDS AsdfBuffer

CONSTANTS
  TypedCodes,    \* what scans queue: keycodes, and InvalidCode for ACTION_NOTHING
  Messages,      \* what hooks print, with the CR that asdf_putc puts before LF
  KeycodeSize,   \* ASDF_KEYCODE_BUFFER_SIZE, 16
  MessageSize    \* ASDF_MESSAGE_BUFFER_SIZE, 128

\* The pool has the size of both queues, and messages are plain characters.
ASSUME MainAssumption ==
  /\ KeycodeSize \in Nat \ {0} /\ MessageSize \in Nat \ {0}
  /\ PoolSize = KeycodeSize + MessageSize /\ NumHandles >= 2
  /\ {KeycodeSize, MessageSize} \subseteq Sizes
  /\ TypedCodes \subseteq Codes
  /\ Messages \subseteq Seq(Codes \ {InvalidCode})

VARIABLES
  asdf_keycode_buffer, asdf_message_buffer,   \* the handles
  tick,       \* the flag that the interrupt sets
  retval,     \* what asdf_arch_tick has read
  printing,   \* what is left to queue of the message being printed
  port,       \* the code at the port, and a bit that each new one changes
  pc,         \* where the loop is
  due         \* a tick since the last pass: records history, no step reads it

loopVars == <<asdf_keycode_buffer, asdf_message_buffer, retval, printing, port>>
mainVars == <<bufferVars, loopVars, tick, pc, due>>

Goto(from, to) == pc = from /\ pc' = to

MainInit ==
  /\ Init
  /\ asdf_keycode_buffer = 0 /\ asdf_message_buffer = 0
  /\ tick = FALSE /\ retval = FALSE /\ due = FALSE
  /\ printing = <<>> /\ port = [code |-> InvalidCode, strobe |-> 0]
  /\ pc = "INIT"

-----------------------------------------------------------------------------
\* asdf_init: keymaps are set up, and with them the timer, before the queues.
\* No buffer is refused, or the loop would be stuck here.
InitBuffers ==
  /\ Goto("INIT", "KEYCODE_BUFFER")
  /\ asdf_buffer_init
  /\ UNCHANGED <<loopVars, tick, due>>

NewKeycodeBuffer ==
  /\ Goto("KEYCODE_BUFFER", "MESSAGE_BUFFER")
  /\ asdf_buffer_new(KeycodeSize) /\ asdf_keycode_buffer' = next_handle
  /\ UNCHANGED <<asdf_message_buffer, retval, printing, port, tick, due>>

\* Mutant: the handle after the one that was allocated.
TakesNextHandle ==
  /\ Goto("MESSAGE_BUFFER", "READ")
  /\ asdf_buffer_new(MessageSize) /\ asdf_message_buffer' = next_handle + 1
  /\ UNCHANGED <<asdf_keycode_buffer, retval, printing, port, tick, due>>

NewMessageBuffer ==
  /\ Goto("MESSAGE_BUFFER", "READ")
  /\ asdf_buffer_new(MessageSize) /\ asdf_message_buffer' = next_handle
  /\ UNCHANGED <<asdf_keycode_buffer, retval, printing, port, tick, due>>

Boot == InitBuffers \/ NewKeycodeBuffer \/ NewMessageBuffer

\* The timer interrupt, once asdf_arch_init has enabled it.
Interrupt ==
  /\ pc # "INIT"
  /\ tick' = TRUE /\ due' = TRUE
  /\ UNCHANGED <<bufferVars, loopVars, pc>>

-----------------------------------------------------------------------------
\* asdf_arch_tick reads the flag and clears it, in two steps.
ReadTick ==
  /\ Goto("READ", "CLEAR")
  /\ retval' = tick
  /\ UNCHANGED <<bufferVars, asdf_keycode_buffer, asdf_message_buffer, printing,
                 port, tick, due>>

\* Mutant: the flag is left for the next call.
LeavesFlag ==
  /\ Goto("CLEAR", IF retval THEN "MESSAGE" ELSE "READ")
  /\ due' = (due /\ ~retval)
  /\ UNCHANGED <<bufferVars, loopVars, tick>>

ClearTick ==
  /\ Goto("CLEAR", IF retval THEN "MESSAGE" ELSE "READ")
  /\ tick' = FALSE
  /\ due' = (due /\ ~retval)
  /\ UNCHANGED <<bufferVars, loopVars>>

StartPass == pc = "CLEAR" /\ pc' = "MESSAGE"

\* Mutants of asdf_next_code: the keycode queue is read after a message, or not
\* at all.
ReadsBothQueues ==
  /\ Goto("MESSAGE", "KEYCODE")
  /\ asdf_buffer_get(asdf_message_buffer)
  /\ UNCHANGED <<loopVars, tick, due>>
ReadsMessagesOnly ==
  /\ asdf_buffer_get(asdf_message_buffer)
  /\ Goto("MESSAGE", IF got' = InvalidCode THEN "SCAN" ELSE "DELAY")
  /\ UNCHANGED <<loopVars, tick, due>>

\* asdf_next_code: the message queue, and the keycode queue if that is empty.
NextMessage ==
  /\ asdf_buffer_get(asdf_message_buffer)
  /\ Goto("MESSAGE", IF got' = InvalidCode THEN "KEYCODE" ELSE "DELAY")
  /\ UNCHANGED <<loopVars, tick, due>>

NextKeycode ==
  /\ asdf_buffer_get(asdf_keycode_buffer)
  /\ Goto("KEYCODE", "OUTPUT")
  /\ UNCHANGED <<loopVars, tick, due>>

\* A character of a message waits first, for interrupts to come meanwhile; what
\* is not valid is not sent.
Output ==
  /\ pc \in {"DELAY", "OUTPUT"} /\ pc' = "SCAN"
  /\ port' = IF got = InvalidCode THEN port
             ELSE [code |-> got, strobe |-> 1 - port.strobe]
  /\ UNCHANGED <<bufferVars, asdf_keycode_buffer, asdf_message_buffer, retval,
                 printing, tick, due>>

-----------------------------------------------------------------------------
\* A put on a full queue is dropped.
Put(handle, code) ==
  \/ asdf_buffer_put(handle, code)
  \/ buffers[handle].count = buffers[handle].size /\ UNCHANGED bufferVars

Scanning == pc = "SCAN" /\ printing = <<>>

TypeCode(code) ==
  /\ Scanning
  /\ Put(asdf_keycode_buffer, code)
  /\ UNCHANGED <<loopVars, tick, pc, due>>

\* asdf_print, and asdf_putc for each of its characters.
PrintMessage(message) ==
  /\ Scanning
  /\ printing' = message
  /\ UNCHANGED <<bufferVars, asdf_keycode_buffer, asdf_message_buffer, retval, port,
                 tick, pc, due>>

PutChar ==
  /\ printing # <<>>
  /\ Put(asdf_message_buffer, Head(printing)) /\ printing' = Tail(printing)
  /\ UNCHANGED <<asdf_keycode_buffer, asdf_message_buffer, retval, port, tick, pc,
                 due>>

\* asdf_arch_init, when a scan switches keymaps, clears the flag.
SwitchKeymap ==
  /\ Scanning
  /\ tick' = FALSE
  /\ UNCHANGED <<bufferVars, loopVars, pc, due>>

EndScan ==
  /\ Scanning /\ pc' = "READ"
  /\ UNCHANGED <<bufferVars, loopVars, tick, due>>

Loop ==
  \/ Boot \/ ReadTick \/ ClearTick \/ NextMessage \/ NextKeycode \/ Output
  \/ PutChar \/ EndScan

MainNext ==
  \/ Loop \/ Interrupt \/ SwitchKeymap
  \/ \E code \in TypedCodes : TypeCode(code)
  \/ \E message \in Messages : PrintMessage(message)

\* The processor goes on.
MainSpec == MainInit /\ [][MainNext]_mainVars /\ WF_mainVars(Loop)

-----------------------------------------------------------------------------
Booting == pc \in {"INIT", "KEYCODE_BUFFER", "MESSAGE_BUFFER"}

\* The loop has the types of the rings and, once it runs, both handles.
MainTypeOK ==
  /\ TypeOK
  /\ tick \in BOOLEAN /\ retval \in BOOLEAN /\ due \in BOOLEAN
  /\ printing \in Seq(Codes)
  /\ port \in [code : Codes \union {InvalidCode}, strobe : {0, 1}]
  /\ \/ Booting
     \/ /\ pc \in {"READ", "CLEAR", "MESSAGE", "KEYCODE", "DELAY", "OUTPUT", "SCAN"}
        /\ asdf_keycode_buffer = 0 /\ asdf_message_buffer = 1

\* Every pass of the loop has a tick of its own, so that scans count no more
\* than milliseconds (debounce and repeat times are scans): no tick is seen
\* twice, though the interrupt may come while the flag is read and cleared.
OnePassPerTick == [][StartPass => due]_mainVars

\* Rings, delays and the order in which the loop reads them give the host what
\* it is promised (HostPort.tla).  The code in hand still waits.
InHand == IF pc \in {"DELAY", "OUTPUT"} /\ got # InvalidCode THEN <<got>> ELSE <<>>
Waiting(handle) == IF Booting THEN <<>> ELSE Contents(handle)
Room == MessageSize - Len(Waiting(asdf_message_buffer))
Fitting == SubSeq(printing, 1, IF Len(printing) < Room THEN Len(printing) ELSE Room)
KeycodesLeft ==
  (IF pc = "OUTPUT" THEN InHand ELSE <<>>) \o Waiting(asdf_keycode_buffer)
MessagesLeft ==
  (IF pc = "DELAY" THEN InHand ELSE <<>>) \o Waiting(asdf_message_buffer) \o Fitting
Promised == INSTANCE HostPort WITH
  Invalid <- InvalidCode, keycodes <- KeycodesLeft, messages <- MessagesLeft
KeepsPort == Promised!Spec

\* If ticks go on being seen, and typing and printing come to an end, then all
\* that waits is sent.
Quiet ==
  /\ \A code \in TypedCodes : ~TypeCode(code)
  /\ \A message \in Messages : ~PrintMessage(message)
Drains ==
  []<><<StartPass>>_mainVars /\ <>[][Quiet]_mainVars =>
    <>[](Waiting(asdf_keycode_buffer) = <<>> /\ Waiting(asdf_message_buffer) = <<>>)
=============================================================================
