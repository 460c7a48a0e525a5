# A verification project for ASDF, the unified retro keyboard firmware

TLA+ models of the ASDF keyboard firmware (`src/`), TLC runs that check them on
small keyboards, and TLAPS proofs of the results that matter most for every
keyboard. A place in the code is written `asdf.c:479` and means
`src/src/asdf.c`, line 479.

The project answers seven questions about the firmware:

1. Is every keystroke translated, queued and repeated as the typist expects,
   whatever the contacts do and in whatever order keys and modifiers move?
2. Do the queues lose, invent or mix up codes?
3. Do the DIP switches select the keymap they stand for, when one switch of
   keymaps causes another inside it?
4. Do the outputs that keymaps share out among themselves obey one master each?
5. Does the host receive what was typed and printed, once, in order and one code
   per tick, whenever the timer interrupts the loop?
6. Does a keymap leave anything behind for the next one: outputs, LEDs, hooks?
7. Do the four boards do with their pins what the rest of the firmware takes them
   to do, in every moment between two writes to registers?

`PROJECT.json` lists components, runs, mutants, findings, hazards and theorems,
and maps every definition to the lines it models.

## 1. Inventory of the system

The firmware is one superloop driven by a millisecond timer interrupt. There is
no dynamic memory and no other thread; all state is in static variables. What
makes it hard is not parallelism but history: the meaning of a key is looked up
each time it is used, under state that other keys have changed since.

| Component | State it keeps | Operations |
|---|---|---|
| Main loop (`main.c`, `Arch/`) | tick flag, set by an interrupt | once per tick: send one code, scan the matrix |
| Key scan (`asdf.c`) | per key: debounced state and debounce counter; `last_key`; two queue handles | `asdf_keyscan`, press, release, hold, `asdf_apply_all_actions`, `asdf_next_code`, `asdf_putc` |
| Modifiers (`asdf_modifiers.c`) | SHIFT (bits ON and LOCKED), CAPS, CTRL | activate and deactivate each; the map they select |
| Repeat (`asdf_repeat.c`) | state, base state, one timer | init, reset, auto on and off, activate, deactivate, count |
| Buffers (`asdf_buffer.c`) | a pool of codes, a table of rings | init, new, put, get |
| Keymaps (`asdf_keymaps.c`) | index of the keymap, its matrices per modifier map | select, switch, init, DIP switch bits, lookup |
| Keymap definitions (`Keymaps/`) | constant matrices, and a setup routine each | setup |
| Virtual outputs (`asdf_virtual.c`) | per output: list of devices, function | init, assign, activate, action, sync |
| Physical outputs (`asdf_physical.c`) | per device: list link, shadow of its value | init, allocate, set, on, off, toggle, assert |
| Hooks (`asdf_hook.c`) | table of functions | init, assign, get, execute |
| Messages (`asdf_print.c`) | the message queue | formatted printing into the queue |
| Architecture (`Arch/`), four boards | registers of the ports and timers, tick flag, strobe and data polarity | init, LEDs and outputs, strobe polarity, reading a row, sending a code |

How they interact:

- **Calls.** The interrupt sets the tick flag. The loop takes one code, messages
  first, then scans row by row, and within a row from column 0 up. A key whose
  debounce counter has run out is recorded in its new state, looked up, and acts
  on the modifiers, the repeat timer, the keymap, the outputs or a queue. A
  keymap switch calls the setup routine, which calls back into modifiers,
  outputs and hooks, and then goes over all keys that are down; an action found
  there may switch again.
- **Shared state.** The modifiers select the map that every later lookup reads,
  in the same scan too. `last_key` and the one timer are shared by all keys. The
  rings share a pool, the virtual outputs share the devices, the devices share
  lines.

Which behaviours are hard:

- *Between press and release*: a key is looked up again when it is released
  (`asdf.c:494`), perhaps as something else.
- *Contacts*: they bounce in any pattern and the code keeps one counter per key.
- *Shared history*: `last_key`, the timer, and the base state of repeat outlive
  the key they belong to.
- *Switches within switches*: DIP switches are ordinary keys, so re-applying
  keys while a keymap is set up recurses into itself.
- *In-place lists*: devices move between intrusive lists.
- *Limits*: queues drop codes when full; rings wrap; 8-bit counters.
- *The interrupt*: its flag is read and then cleared.
- *Left behind*: the state of modifiers is carried from one keymap to the next,
  outputs, LEDs and hooks are not.
- *Registers*: what a write shows at a pin depends on the writes before it, of
  other devices of the line and of an initialisation that is run again at every
  switch; a strobe is two toggles of a pin whose level nobody looks at.

What makes each component right:

| Component | It is right if | Stated as |
|---|---|---|
| Buffers | rings behave as independent bounded queues | `ImplementsFifos`, `RingsConsistent`, `RingsDisjoint` |
| Key scan | it is an ideal keyboard, seen through bouncing contacts | `KeepsPromise`, `ContactsSettle`, `ComesToRest`, `EventsSpaced`, `NoLateEvent`, `NoCodeLost` |
| Modifiers | they are on while held, and only then | `NoStuckModifier`, `ModifierWhileHeld` |
| Repeat | timer and state agree; repeats are spaced, delayed and go on | `RepeatTimerFits`, `NoStuckRepeat`, `RepeatsSpaced`, `AutorepeatDelayed`, `GoesOnRepeating` |
| Keymaps | switches select the keymap, end, keep what is held and leave nothing else behind | `DipsSelect`, `SwitchEnds`, `NestingBounded`, `HeldKeysApply`, `OutputsFitKeymap` |
| Hooks | those of the keymap run, and none of the keymap before | `HooksFitKeymap` |
| Modifiers, their LEDs | no LED is lit whose lock is off | `LedsTruthful` |
| Outputs | lists partition the devices, lines show the values | `ListsPartition`, `LinesFollow`, `KeepsOutputs` |
| Main loop, messages | the host gets all that was queued, once, in order, messages whole and first; a pass costs a tick | `KeepsPort`, `OnePassPerTick`, `Drains` |
| Architecture | lines show what was asked for and nothing else in between; a row is read as it was sampled; a host takes each code once, whatever its edge | `LevelsAsAsked`, `NoGlitch`, `RowIsRead`, `StrobeIdles`, `KeepsStrobe` |

## 2. Modules and how they correspond to the code

    BoundedFifos  <-implements-  AsdfBuffer
    Typing        <-implements-  AsdfKeyscan = AsdfModifiers + AsdfRepeat + the scan
                                 AsdfKeyscanTiming = AsdfKeyscan + what happened when
    Outputs       <-implements-  AsdfOutputs = AsdfVirtual over AsdfPhysical
                                 AsdfKeymaps = AsdfModifiers + AsdfVirtual + AsdfHooks
                                               + switches, over AsdfKeymapTables
    HostPort      <-implements-  AsdfMain = AsdfBuffer + the loop, its tick and messages
    StrobePort    <-implements-  AsdfArch = AsdfPhysical + AsdfPins + the boards
                                   AsdfArchAtmega328p, AsdfArchAtmega2560,
                                   AsdfArchPic32cmDip28, AsdfArchPic32cmQ64

`*_proofs` modules hold theorems (section 4); `MC*` modules hold the small
instances. AsdfVirtual_proofs has lemmas only, on the lists of devices and the
operators on them, for AsdfOutputs_proofs and AsdfKeymaps_proofs, as
AsdfModifiers_proofs has those on modifiers for the scan and the keymaps.

**AsdfBuffer** is `asdf_buffer.c`: one action per function, C names kept. A ring
is a record of the start of its part of the pool, size, head, tail and count;
indices are computed as in C, modulo 2^8. `asdf_buffer_init` may come at any
time, as the interface allows and the tests do (the firmware calls it once, from
`asdf_init`); clients may use any handle, valid or not, and may
store the invalid code, as a key bound to `ACTION_NOTHING` does.

**AsdfModifiers**, **AsdfRepeat**, **AsdfPhysical** and **AsdfVirtual** have no
variables: each C function is an operator from the record of the static
variables to their next value. Modules that own the variable use them. A repeat
state is the number of scans it loads into the timer, as in C, where the enum
has these values.

**AsdfKeyscan** is the superloop with a fixed keymap. A step handles one key of
the row being scanned, since a modifier that it changes is seen by the keys
after it in the same scan. `Tick` takes a character and begins a scan;
`NextRow` reads the next row; `EndScan` ends it. What the contacts read is
chosen anew at every row of every scan: bouncing is not restricted at all. The
handlers are `KeySettles` (counter still running), `KeyPress`, `KeyRelease`,
`KeyHeld` and `KeyRepeats`. Columns that neither read as pressed nor are held as
pressed have no turn, as nothing would happen in it. The keycode queue is a
bounded sequence: that rings are such queues is the subject of AsdfBuffer. Of the
message queue only the length is kept. Keys that print (`Printing`, the FN keys)
make it longer by any number, and as long as it is not empty `asdf_next_code`
takes nothing from the keycode queue, as in C.

**AsdfKeyscanTiming** adds history variables that count scans. No action of
AsdfKeyscan depends on them. Every count stops at the bound it is compared with
(`AtMost`), which keeps the state space finite and loses nothing.

**AsdfOutputs** is the life of the outputs under a keymap: reset, assignments of
the setup routine, sync, activation by keys, LEDs set by the modifiers. The code
waits in the middle of a pulse, and so does the model (`pulsing`), since the
world sees the lines then. `Level` is what the line handlers of the architecture
layer do to a push-pull, open-high or open-low line. What the lines were before
the firmware began is unknown, so `Init` chooses.

**AsdfKeymaps** is keys, DIP switches and keymap switches after debouncing. The
recursion of `asdf_keymaps_switch` into `asdf_apply_all_actions` and back is an
explicit stack, `calls`: for each loop, innermost first, the keys it has still
to re-apply. Keys are places of the matrix, numbered in scan order. A keymap
index is the set of its bits. Keymaps have different numbers of rows, so a place
may exist in one and not in another, and only keys of rows that the present
keymap scans move. `hook_map` is the table of hooks, and `ran` the function of the
hook that the last step ran; which hook an action runs is `HookOf`, with the
two actions that fall through to the hook of `FN_1` (`asdf.c:300`).

**AsdfHooks** is `asdf_hook.c` as operators on the table of hooks. A function
stands for itself by its name.

**AsdfKeymapTables** is `Keymaps/` as data: the seventeen matrices by the action
at each place, the six setup routines with their hooks, and the table of devices of the
ATmega328P board. Which code a key sends is abstracted to `"value"`; that none of
the codes in the matrices is one of an action is an assumption that TLC
evaluates (`NoCodeIsAnAction`). Three
more state facts about all six keymaps: the maps of a
keymap have the same places; SHIFT, CTRL and the strobe switch are bound in all
maps of a keymap,
which is what the theorems that modifiers never stick, and that held keys take
effect, ask of a keymap; and so is
REPEAT, in all keymaps but the Sol's.

**AsdfMain** is the loop between the interrupt and the port. It extends
AsdfBuffer and owns its two rings: `asdf_init` allocates them as in C, and
`asdf_next_code` is two gets. `asdf_arch_tick` reads the flag and clears it in
two steps, and `Interrupt` may come between any two steps. What scans do is
reduced to what the loop sees of it: codes typed, messages printed, switches of
keymaps (which clear the flag), any number of each in a scan. `port` is the code
at the port with a bit that every strobe changes, so that sending a code twice
differs from sending it once.

**AsdfPins** has the statements that the architecture layer is written in, and
what two boards or more share: an access to a register is a record of what is
written, to which line. **AsdfArchAtmega328p**, **AsdfArchAtmega2560**,
**AsdfArchPic32cmDip28** and **AsdfArchPic32cmQ64** are the four boards, a
definition per C function: the sequence of its accesses. They have no variables.

**AsdfArch** calls these routines, in any order that the rest of the firmware
could, and makes their accesses one by one (`todo`), so that every moment
between two of them is a state. It owns the latch and direction of each line,
what the data lines and the rows show, and what is wired to them: `Inverted`
outputs, the key matrix, the shift register of the columns, and a host that takes
codes at one edge of the strobe. Contacts are chosen anew at every sampling.
Ghost variables hold what each output was asked for (`asked`) and the
strobe that was selected (`polarity`). The assumptions state that the lines of a
board share no pin, and that its timer, set up as its routine does, counts a
millisecond; it does so if the clock runs at `F_CPU`, which the AVR boards leave
to their fuses (`PrescalerIsLeft`, section 6).

**Typing**, **BoundedFifos**, **Outputs**, **HostPort** and **StrobePort** are the
abstract specifications: what the typist, the clients of a buffer, the keymaps and
the host may rely on, without matrix, counters, timer, rings, links or ticks. The
refinement mappings are at the end of the modules that implement them
(`Promise`, `Fifo`, `Promised`, `Port`). HostPort queues a message in one step, where the
code queues character by character: the characters still to come are part of
the abstract queue as far as they will fit.

## 3. Runs

Each passing run is a question of its own; each of its properties has a mutant,
a plausible bug of the mapped code under which TLC finds it violated.

| Run | Instance | Shows |
|---|---|---|
| `buffer` | pool of 5, 2 handles, requests of 0, 2, 3; two codes, one the invalid code | rings implement queues; pool exhausted first and handles exhausted first; wrap-around in rings of 2 and 3 |
| `typing` | 2 rows of 3: SHIFT, a letter, CTRL, CAPS, both shift locks, one of which prints under CTRL | no modifier sticks or drops out; the scan implements `Typing` |
| `repeat` | 5 rows of 1, debounce 2: SHIFT, a letter, REPEAT, autorepeat switch, a key that prints | the timer fits its state; contacts settle; the keyboard comes to rest; a held key repeats for ever |
| `timing` | 3 rows of 1, debounce 3, repeat 2 and 4: two letters and REPEAT | events and repeats neither early nor late; no code lost with two slots |
| `outputs` | three devices on one line, an LED; two virtual outputs | lists partition the devices; lines follow; implements `Outputs` |
| `keymaps` | the six real keymaps and all twelve devices; ten places move | the DIP switches select the keymap; switches end; what is held applies; outputs, hooks and LEDs are those of the keymap |
| `main` | rings of two in a pool of 4; messages that fit and that do not; a code and the invalid code | the host is served in order, once, messages whole; a pass per tick; all that waits is sent in the end |
| `arch` | the four boards; a host of either edge; two codes; a row of each port and one of none; the devices of one line, or the LEDs, per behaviour | every output shows what it was asked for and nothing on the way; rows are read as sampled; each code is taken once |
| `repeat_stuck`, `outputs_sync`, `strobe_lost`, `caps_start` | small keyboards | one disagreement each, section 6 |

Bounds, and why they are enough:

- *Matrix.* Keys interact through the modifiers, `last_key` and the timer, and
  through the order of their turns. The `typing` keyboard has a letter with a
  modifier before it and one after it in its row and more in another row, so
  every order of a change and a lookup occurs within a scan and between scans.
- *Debounce.* 1 in `typing`, where only orders matter; 2 in `repeat`, where a
  counter may be interrupted; 3 in `timing`, where a count can be
  interrupted twice and early, late and exact events differ. The proofs below
  hold for all of 1..255.
- *Repeat times.* Distinct and small; `REPEAT_ON < REPEAT_AUTO` as in
  `asdf_config.h`. With 3 and 5 each state passes through values above, equal to
  and below the other's. Proofs hold for all such pairs.
- *Queue.* One slot in `typing` and `repeat`, so that it is often full. Two in
  `timing`: as many as there are letters, which is the condition of `NoCodeLost`,
  proved below for any number (the firmware has 16 slots).
- *Messages.* One character in `typing` and `repeat`: enough to hold a code back
  when the queue is full, and to be cut off. No key prints in `timing`, which is a
  condition of `NoCodeLost` too.
- *Buffers.* Two handles as in the firmware; a pool of 5 does not fit two
  requests of 3, so each of the two limits is met first in some behaviour.
- *Outputs.* `OUT3` is the line that has all three kinds of device; a second
  virtual output is what it takes to compete for a device. The proofs hold for
  any table of devices and any virtual outputs.
- *Main.* Two slots per ring, so that both are often full, half full and empty
  while the loop is in any of its places; one message fills its ring and one is
  cut off. Ticks need no bound, as the flag has none. The proofs hold for queues
  of any size.
- *Arch.* Devices of different lines share no state, so a behaviour that sets
  those of one line only loses nothing; the proofs hold for any sets of them.
  Two columns suffice to see an order reversed or shifted by one; the firmware
  has eight, and `RowIsRead` is proved for any number. Rows 0 and 9 are in
  different ports of the ATmega2560 and row 1 shares one with row 0.
- *Keymaps.* All six of `keymap_list.cmake`, with the indices they are built
  with. The places that move are those where the keymaps disagree in kind (SHIFT,
  CTRL, CAPS or an output in one, a value in another), three DIP switches, the
  strobe switch, a key that runs a hook, and a place of a row that only two keymaps
  have. The fourth bit has no keymap and behaves as any bit that leads to none.

No state or action constraint is used, and every run explores its whole state
space. Deadlock is checked in all of them.

**Fairness.** `AsdfKeyscan` states `WF_vars(Next)`, that the loop goes on. The
tick interrupt never stops and no handler modelled there waits for anything, so
some step is always taken, and which one is determined by the state and the
contacts. Contacts are under no fairness: liveness properties assume what they
need of them (`RestsOpen`, `RestsClosed`) and say so. `AsdfMain` states
`WF_mainVars(Loop)`, that the processor goes on, and nothing of the interrupt.
`Drains` assumes that the loop goes on seeing ticks, since an interrupt between
the read and the clear is lost (`asdf_arch_atmega328p.c:183`) and the code does
nothing to keep every one from falling there; and that typing and printing end,
since the loop sends one code per tick. The other specifications state no
fairness; that keymap switches end is shown by a measure that every step of a
switch decreases (`SwitchEnds`), with no deadlock on the way.

## 4. What is proved

TLAPS proves the following for every value of the constants that satisfies the
named assumptions, which TLC also evaluates in each run.

**AsdfBuffer_proofs** (`BufferAssumption`: the pool has at most 255 codes, so
that 8-bit indices suffice). `BufferInvariant`: types, `RingsConsistent` and
`RingsDisjoint` are together inductive. They need each other: that a put stays
within its own ring needs its indices to be in range, and that it spares the
others needs disjoint parts of the pool. `BufferImplementsFifos`: each operation
is the same operation on queues. The main lemmas are about the contents of a
ring, as a sequence read from the tail: a put appends, a get removes the head,
and nothing changes in other rings.

**AsdfKeyscan_proofs** (`KeyscanAssumption`, `RepeatAssumption`: any matrix, any
keymap, debounce time in 1..255, repeat time shorter than the delay).
`KeyscanInvariant` is that `IInv` is inductive. It joins the type invariant with the
invariants on modifiers and repeat, and with `TurnsPending`, which
is the strengthening that was needed: no key that is up and reads as up has a
turn, without which a held key could not be told from one that is up. From it
follow `ModifiersNeverStick`, `ModifiersStayOn`, `RepeatNeverSticks`,
`RepeatTimerAlwaysFits`, and `KeyscanImplementsTyping`: every step of the scan is a
step of the ideal keyboard or none.

Its second part is about AsdfKeyscanTiming. `DebounceInv` ties each
debounce counter to the history of its key: the scans for which the contact has
disagreed and the counter add up to no more than `DEBOUNCE`, and the scans since
the last event and the counter to no less. Both bounds are one scan wider for a
key that is still to have its turn in the present scan; without that neither is
inductive. `NeverLate` and `EventsAreSpaced` follow. `SpacingInv` does the same
for the repeat timer: the scans since the last code and the timer add up to the
wait that is due, by one more while the repeating key has its turn to come.
`RepeatsAreSpaced` and `AutorepeatIsDelayed` follow from it, for keyboards on
which each key has one code in all maps and no two share one that is sent
(`OneCodeEach`). They need that condition: where codes are shared or depend on
modifiers, a press can find its code in `last_key` already, and then the timer
is not reset but goes on from an older keystroke (section 6).

Its third part proves `NoCodeLost`, also under `OneCodeEach`, and on keyboards on
which no key prints (`Silent`): a message of up to 128 characters keeps codes waiting
for as many scans (`asdf.c:140`), in which more may be typed than the queue holds.
What fills the queue is
all keys together, so `QueueInv` is an account: a queued code costs one
unit, which is the time debouncing takes to release and press a key,
`2 * DEBOUNCE` scans, times `REPEAT_ON`. A letter earns a unit in that time
whether or not it is touched, and the held key by waiting for its timer; what is in
the queue has never cost more than all have earned (`Spent`, `Budget`). A scan
takes one code from the queue and so must not earn more than a unit, which is
`SlowEnough`: `letters * REPEAT_ON + 2 * DEBOUNCE <= 2 * DEBOUNCE * REPEAT_ON`. It
says that so many letters can neither be typed nor repeated faster than the loop
sends them, and holds for 2 letters and the times of `timing` (10 <= 12), and for 16
letters and those of `asdf_config.h` (1076 <= 1320). The sum over all letters is
the cardinality of a set (`Marks`: one for each scan of a letter's age), which
the library's theorems on finite sets can count without an induction. The
theorem also needs a slot for each letter. A real keyboard has more letters than the
queue has slots: more than 16 keys that settle in one scan do lose codes,
since `asdf_buffer_put` drops what does not fit.

**AsdfKeymaps_proofs** (`KeymapsAssumption`, `DipSwitchAssumption`: a place that
selects a bit does so in every map of every keymap, as
`ASDF_KEYMAP_DIP_SWITCHES` makes it, and dropping a bit of a valid index leaves
a valid index). `SwitchInvariant`: `SwitchInv` says that the
index holds only bits of closed switches; that a bit which could be added
is that of a key the innermost loop has still to re-apply (`PendingWillApply`);
and that loops nest no deeper than the index has bits. The second is the heart:
an outer loop may go on with keys of an older moment, but the inner one leaves
nothing for it to do. `SwitchesSelectKeymap` and `NestingIsBounded` follow.
`HeldKeysTakeEffect` has an invariant of the same shape: every key that is down
is in effect, or is one that the innermost loop has still to re-apply
(`HeldInv`). It assumes that SHIFT, CTRL and the strobe switch are bound alike in
all maps of a keymap (`BoundAlike`); for the six real keymaps TLC evaluates that
(`ModifiersAreBoundInAllMaps`).

The other theorems of this module are about what a keymap leaves for the next.
`OutputsInvariant` (`LedAssumption`: keymaps assign the LEDs of locks dark and
without a function, and no key activates one) says that after every step the
outputs are those of the present keymap (`Kept`): links and functions are as its
setup routine leaves them, pulses have ended where they began and the devices of
an output that toggles agree (`Fit`), and the LEDs of locks show their locks
(`Lamps`). `OutputsFitKeymap` and `LedsTruthful` are inductive only with the fact
that all lists are chains which share no device (`GoodOutputs`): without it, an
action on one output could change the devices of another. `OutputsFit` and
`LedsAreTruthful` follow. `HooksFit` is that the table
of hooks is what the present setup makes of an empty one, whatever the table was
before. `TypesHold` is the type invariant. `SwitchesEnd` proves that every step
of a switch lowers `StepsLeft`: a switch inside a switch starts a loop over all
keys, and is paid for by the bit it adds, which no step of the switch takes
away. It assumes that there are finitely many keys (`KeymapsAssumption`).

**AsdfVirtual_proofs** (`PhysicalAssumption`, `VirtualAssumption`: any table of
devices with links that fit it). What a walk along links finds, for every length
of a list. A list is a chain: each device on it links to the next, none
comes twice, and the last links to `NO_OUT` (`Chain`); all lists together are
disjoint chains that hold every device (`Linked`). An assignment takes a device
out of one chain and puts it in front of another and leaves the others alone,
whether it is first, in the middle or last (`IsAssigned`). An action and a sync
change the shadow and the line of the devices they go over, each once, and
nothing else (`Acted`, `Asserted`). The loops of the code are recursive functions;
that they are defined, and what holds after the last round, is shown by
induction on the rounds. That principle is the lemmas `Rounds` and `Recursion`,
stated for sets and functions so that they can be cited, and derived from the
well-foundedness of the naturals.

**AsdfOutputs_proofs** (the same assumptions). `Invariance`: lists are chains that
share out the devices; and once a keymap is set up, a line is at the level of the
shadow of the one device of it that an output has, if that is the last of the
line. The second needs the first:
an action goes over the devices of one list, and that it spares the lines of
others is what disjoint lists say. `TypeCorrect`, `DevicesPartitioned` and
`AssignedLinesFollow` follow, and `ImplementsOutputs`: every step is a step of
the abstract outputs, where a device has an owner and a value, or none.

**AsdfMain_proofs** (`MainAssumption`, `BufferAssumption`: the pool holds both
queues, and there are handles for them). `MainInvariant`: besides the types and
the invariant of the rings, that both rings exist once the loop runs
(`QueuesExist`), that messages are characters and never the invalid code
(`Characters`), that messages are printed in scans only and typed codes taken
only when no message waits (`InTurn`), and that a flag which is set or has been
read stands for a tick since the last pass (`TicksDue`). From it follow
`MainTypeCorrect`, `MainOnePassPerTick`, and `MainKeepsPort`: every step of the
loop is a step of the promised port or none. `Characters` is what makes the
refinement hold: an invalid code taken from the message queue would be mistaken
for an empty queue, and a typed code would be sent in the middle of a message.
The lemmas on rings are those of AsdfBuffer_proofs.

**AsdfArch_proofs** (`PinsDistinct`, `ArchAssumption`: no pin has two uses; codes
of eight bits, rows that exist, any number of columns, the twelve devices of the
table and any sets of them in use). `Typed` is the type invariant. The others rest on what it
means that a bit of a register *settles* at a value (`Settles`): all accesses to
come that touch it write that value, and one will if it does not have it
yet. `StrobeInv`: the strobe settles at its idle level except within
`asdf_arch_send_code`, where it is a known number of toggles away from it.
`LinesInv`: the latch and direction of an output settle at what it was last asked
for, only the handler of a device on that line or `asdf_arch_init` reaches
them, and a handler writes the two in the order that the level calls for.
`DataInv`: the data lines hold the code from before the first toggle on. From
these follow `Idles`, `AsAsked`, `Glitchless` (a line goes from its old level to
the new one and shows no third) and `Keeps`: every access is a step of the
promised port or none. `RowsAreRead` has two invariants. `WireInv`: the
lines that select rows and clock the shift register settle where `asdf_arch_init`
puts them, until a row is read. `ReadInv` says what has been read so far, by how many
accesses of the routine are made. With a shift register (`SerialInv`) that is
what it holds, which bits of the sample have come out and at which places they
were stored, for any number of columns; without one (`ParallelInv`), which
selects are low and what each port has given. What the routines of the four
boards write, and in which order, is stated once for all four by the lemmas of
the first part of the module, the only ones that look into the boards.

**AsdfModifiers_proofs** has the lemmas on modifiers that the proofs about the scan
and the keymaps share.

Only model-checked, on the instances of section 3:

- `ContactsSettle`, `ComesToRest`, `GoesOnRepeating` and `Drains`. Liveness under
  fairness is beyond the prover.
- what the four runs with an expected violation show, which needs an example
  and no proof.

## 5. What is not modelled, and why

- **Text.** Formatting (`asdf_print.c`, nanoprintf) is abstracted to the characters
  that reach the queue, and so are the functions that hooks call: each prints a
  message, which is `PrintMessage` of AsdfMain.
- **The print delay** of a keymap (`asdf_set_print_delay`): every keymap that sets
  it chooses the same, and AsdfMain has the delay itself.
- **The pins of the AVR.** An input counts as floating whatever its latch is, though a
  high latch connects a weak pull-up (`asdf_arch_atmega328p.c:343`). `set_bit` of a
  PIN register toggles one pin only when it is compiled to SBI, as the default
  Release build does; a build without optimisation would write back, and so
  toggle, every pin of the port that reads high (`asdf_arch_atmega328p.c:829`).
- **Architecture.** Delays between accesses; `asdf_arch_osi_read_row`, which no
  keymap of `keymap_list.cmake` uses; the timers and clock settings of the headers that
  no routine uses; system calls (`syscalls.c`) and the board of the unit tests.
- **Which code a key sends.** The tables have actions only; the codes of
  letters, digits and symbols are one `"value"`. A lookup in a map
  without rows (`asdf_keymaps.c:398`) is left out, as scans read no row of it.
- **Third-party code**: device headers, start-up code, nanoprintf.
- `asdf_modifiers_init` is called by nothing in the firmware; the initial state
  is that of static storage, which is the same.
- The repeat state that a re-applied REPEAT key sets is left out of
  AsdfKeymaps, and keymap switches are left out of AsdfKeyscan, until the two
  are composed.

## 6. Disagreements between the code and what is written about it

Each of these has a run whose counterexample shows it, and quotes in
`PROJECT.json`.

| Run | The code | The text |
|---|---|---|
| `repeat_stuck` | REPEAT of the Sol-20 released under CTRL, where its place means RESET, leaves repeat mode on | `asdf_repeat.c:175`: reset when REPEAT is released |
| `outputs_sync` | the sync asserts devices nobody has, which drives lines of those that somebody has | `asdf_virtual.c:232`: synchronize with their virtual outputs |
| `strobe_lost` | a switch that is open is not re-applied, so a switch of keymaps loses the strobe it selected | `asdf_keymaps.c:178`: state persists |
| `caps_start` | setup toggles CAPS, so a keymap entered with CAPS on starts with it off | `asdf_keymap_apple2.c:83`: start with CAPS active |

Seen while modelling, and without a run.

In the scan and the loop:

- The debounce counter is reloaded only when it runs out, so that separate short
  bounces add up (`asdf.c:483`).
- A held key that means `ACTION_NOTHING` repeats that code (`asdf.c:523`), which
  `main.c:71` then does not send.
- A key whose release SHIFT made another code goes on with its old autorepeat
  count when it is typed again, though the timer is said to be reset
  (`asdf.c:408`).
- A key held across a switch of keymaps is released as what the new keymap says
  (`asdf.c:494`); a FN key that is held runs its hook again at every switch
  (`asdf.c:608`).
- REPEAT pressed shortly before autorepeat begins leaves the autorepeat state, so
  that the next code comes after the full delay (`asdf_repeat.c:166`).
- An interrupt between the read and the clear of the flag is lost, though
  `asdf_arch_tick` is said to return 1 if the timer has timed out
  (`asdf_arch_atmega328p.c:168`), which delays a scan by a millisecond. A switch of
  keymaps clears the flag as well.

In the keymaps:

- CAPS that is on when Apple 2 "classic" is entered leaves its LED dark, as the LED
  is assigned with the value 0 (`asdf_keymap_classic.c:68`); so does a locked
  SHIFT in the Sol's. `LedsTruthful` is the direction that does hold.
- `ACTION_NOTHING` and `ACTION_HERE_IS` fall through to the hook of `FN_1`, and
  `FN_11` has none (`asdf.c:300`). Some keymaps assign the keyboard test to a hook
  that none of their keys runs.
- The comments of the Sol's outputs (`asdf_keymap_sol.h`) name other lines than its
  definitions do, and one of the Apple's says that the POWER LED is turned on where its
  value is 0.

In the architecture layer:

- On the PIC32CM boards `asdf_arch_init` makes the outputs driven pins at every
  switch of keymaps, so that an open output that was released is driven to its
  old latch until it is set again (`asdf_arch_pic32cm_pl10_dip28.c:42`). `NoGlitch` allows that one change.
- Every switch of keymaps selects the default strobe first, so that a host
  of negative strobes sees an edge that is no code (`asdf_arch_atmega328p.c:728`).
  `KeepsStrobe` says that only then.
- `CLKPR` is written a bit number, not a bit, and so the clock keeps the prescaler of
  the fuses (`PrescalerIsLeft`).
- On the ATmega328P the handlers of the open outputs of OUT2 do nothing, the LEDs are
  initialised twice, and a comment about the shift register's MODE line says the
  opposite of what works (`asdf_arch_atmega328p.c:599`). The PIC32CM boards ignore
  `ASDF_DEFAULT_STROBE_POLARITY`, and one says it matches the LEDs of the ATmega328P,
  of which two are wired the other way (`asdf_arch_pic32cm_pl10_dip28.c:103`).

## 7. Plan

Done: buffers, scan with modifiers and repeat, timing, outputs, keymaps with
their tables and hooks, the main loop with messages, the four boards, and the
proofs of section 4. What is left, in this order:

1. **AsdfFirmware**: the scan over a keymap that changes, composing AsdfKeyscan,
   AsdfKeymaps and AsdfOutputs. Keys held across a switch, and the repeat state
   that a re-applied REPEAT sets, belong there.
2. **Liveness of a switch under the scan**: that a key's action is applied at all,
   once loops of a switch and turns of a scan share the debounce counters.
3. **`asdf_arch_osi_read_row`**, when a keymap that uses it is built.
