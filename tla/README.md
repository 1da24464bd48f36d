# emu430f5529 in TLA+

emu430f5529 emulates an MSP430F5529 launchpad: a CPU thread interprets a
program, a GUI thread draws the board and drives the emulator. This directory
holds TLA+ models of it, the TLC runs that check them and proofs checked by
TLAPS. Every definition is written from the sources under `src/`;
`PROJECT.json` maps each to its lines and lists the runs, the hazards, the
findings and the theorems.

Contents: 1 the system, 2 modules and code, 3 runs and bounds, 4 fairness,
5 proofs, 6 disagreements found, 7 assumptions and what is left out, 8 plan.

## 1. The system

| Component | State | Operations | Correct when | Status |
|---|---|---|---|---|
| **Execution control**: `emulator/emulator.h`, `utils/breakpointController.h` | `shared_state` (atomic), `halt_state` (condition variable), two samples local to the CPU thread, the breakpoint map, the window | `cpu_thread()`: sample, sleep, tick, interrupt, breakpoint, step, halt, exit. `run()`: check, load, render, store, notify, join | executions stay within what the user asked for; Stop, Step, breakpoints and closing come through; no command is lost | modelled |
| **Interrupts and board**: `core/interruptController.h`, `core/pipeline.h` 85-101, `gui/emugui.h` 225-266 and 379-411 | P1/P2 registers IN, IE, IES, IFG in memory, GIE in SR, button states | buttons by mouse and key, `generate_interrupt` (GUI thread); `consume_interrupt`, `interrupt_step`, RETI (CPU thread) | a request is served or withdrawn by the program; handlers do not nest; GIE follows the context | modelled |
| **Arithmetic**: `utils/instructions.h` | none, flags are a result | `calculate` of the binary and unary instructions, `apply_status`, jump conditions | a conditional jump decides what the programmer reads into it | modelled |
| **Decoder**: `core/pipeline.h` 34-83, `utils/opcodes.h`, `utils/addressing.h` 48-93 | none | instruction word to instruction and operands | no two words mean the same; an instruction is as long as its bits say | modelled |
| **Decompiler**: `emulator/decompiler.h` | the listing, the labels | linear sweep, labels of jumps, handlers and vectors | the listing partitions the memory; the sweep ends | modelled |
| **Execution**: `core/pipeline.h` 85-112, `utils/addressing.h` 95-140, `utils/instructions.h` 301-430, `core/memory*`, `core/registerFile.h` | 16 registers, 64 KiB of memory, the regions | operand access, jump, CALL, PUSH, RETI, interrupt entry | the stack gives back what was put on it; an interrupt is invisible to the program; accesses keep to the regions' widths | modelled |
| **Program files**: `utils/hex430parser.h`, `utils/programLoader.h`, `gui/emugui.h` 148-157 | fragments, the loader's position | read, write, load into memory, copy and list | words arrive where the emulator looks for them; what is written reads back; a load is whole or not started | modelled |
| **Tick and timer**: `utils/tickController.h`, `utils/timerController.h` | tick counters, frequency | count, throttle; the watchdog timer | no division by zero; the frequency converges | no |
| **File explorer**: `utils/fileExplorer.h`, `gui/emugui.h` 159-186 | the two last listings, the one being drawn | type a path, enter, select | what is being drawn stays alive | modelled |
| **GUI panels**: `gui/emugui.h` | windows | drawing | what `render()` decides is in the models above | partly |
| **Window**: `gui/glfw_backend.h` | GLFW and ImGui contexts | open, terminate | not used after `terminate()` | open or terminated |
| **Scripts**: `make_code.py`, `make_shellcode.py` | none | every instruction word by its pattern | the decoder's reference (`Encoding`) | partly |
| **ELF files, entry point, helpers, unit tests** | none | none that change state of the emulator | | no |

**Interaction.** `Emulator` owns everything. Its constructor sets GIE; `run()` starts
the CPU thread and becomes the GUI thread. The two share `shared_state`, the condition variable, the registers, the memory and
the breakpoint map. Only the first is atomic and nothing is guarded by a mutex:
`halt_mutex` is only what `wait()` needs to be called with. The GUI thread raises
interrupts by writing the ports' IFG bytes in the emulated memory; the CPU thread
polls those bytes before each instruction, and the program it emulates reads and
writes the same bytes. Loading a file, the GUI thread writes the memory and the
program counter while the CPU may be in the middle of an instruction, and then runs
the decompiler to its end before it draws again.

**What is hard.** The CPU decides on a *sample* of a word that the GUI and the CPU
itself overwrite; a wake-up can be lost; each thread writes registers and memory
the other read a moment ago; every flag of the ALU is computed by hand; encodings
are shared between addressing modes and constants; the decompiler stops only on
one exact value of a counter that wraps around; a program is loaded, and copied for
the listing, byte by byte into and from a memory the CPU works on. Nothing is persisted, sent over a
network or retried, so crash recovery and message loss do not occur; the lost
notification of the condition variable is their nearest relative.

## 2. Modules and code

A definition whose name ends in `Mut` is a plausible bug of the definition that
follows it. It is not part of a model; it shows that the property it goes with
would notice.

**`RunControl`** models the two threads of `emulator.h` 57-109 step by step. `cpu`
and `gui` are program counters whose labels are points between two accesses to
shared state. `CpuLoad` is line 61, `CpuWait` the wait at 65, `CpuTick` the decision at 70 and
86, and 73-80 are the body: `CpuInterrupt`; or the lookup, which `CpuSkipLookup` leaves out and
`CpuReadPc` begins by reading `pc` (76), and which `CpuBreakpoint` and `CpuNoBreakpoint` end; `CpuFetch`,
which reads `pc` again (`pipeline.h` 104), when the GUI may have loaded another program since; and
`CpuExecute`. `CpuHalt` is the two stores of IDLE (77, 84), `CpuFinalize` the copy at 90. An
access of its own is thus every load and store of the state, the two reads of `pc`, the
lookup, and the GUI's check, store, notification and change of the map. What one instruction
does to `pc` and to memory after its fetch is one step, `CpuExecute`, behind which `pc` may be
anything, also the value the GUI stored; how those accesses mix with the GUI's is
`ProgramLoader`. `GuiCheck`, `GuiLoad`, the
frame actions, `GuiStore`, `GuiNotify`, `GuiJoin` are the loop of `run()` (98-108). What
`render()` decides (`emugui.h` 268-284, 331-439) is `RenderResult` and one action per thing a
user does: click Run or Step, toggle a breakpoint, load a program, close the window.
The breakpoint map has no lock, so a lookup that overlaps a change answers either
way (`HasBreakpoint`) or follows freed memory (`CpuTornLookup`). A wake-up may be
spurious. The emulated program is abstract: an execution moves `pc` anywhere, unless
its address is one whose fetch throws (caught, the CPU halts) or whose operand throws
inside `noexcept` functions (the process aborts).

**`ExecutionControl`** is the abstract specification: commands in force, a *licence* to
execute one instruction that is granted only under the command in force, a credit
that one click on Step gives and one execution spends. **`RunControlRefinement`** maps
`RunControl` to it: the licence is the CPU's label together with its sample.

**`PortInterrupts`** models the buttons and interrupts with one access to shared memory
per step. The GUI thread runs through the places of a frame that look at a button
(`slot`: mouse, then keys, `emugui.h` 246-260 and 379-411); `TestEnabled`, `TestEdge`,
`LoadFlags`, `StoreFlags` are `generate_interrupt` (`interruptController.h` 97-115). The
CPU polls (`TestGie`, `PollPort1`, `PollPort2`), enters (`Enter`), returns (`Reti`) and executes a
program's read-modify-writes: `LoadOperand` then `StoreOperand` for a port register,
`WriteStatus` then `RestoreStatus` for SR, since `execute()` stores the status it read before
the write-back (`instructions.h` 357-369). A port register is the set of its pins that
are 1: of the eight pins two matter, the button's and any other one. The instructions
the program consists of are a CONSTANT. The histories say what the other thread has done
between two accesses: the pins it set or cleared in an IFG that is being modified (`cpu_missed`,
`cpu_dropped` and the GUI's), and the enable and edge registers it stored after
`generate_interrupt` had tested them (`overtaken`).

**`Alu`** gives the pure results of `calculate()` (`instructions.h` 17-299), bit for bit, for a
byte of `2 * ByteSign` values and a word of two bytes. **`RegisterMachine`** executes them
on registers (`execute()`, 301-370): any instruction on any registers, in any order.

**`Decoder`** is `Pipeline::decode()` with the opcode tables and the addressing modes, and
how many words each operand takes when `get_ref()` reads it. **`Encoding`** is the
reference it is measured against: the patterns of `make_code.py`, the constant memory
of `registerFile.h` 21-28, and the length of an instruction from its bits. **`DecoderWalk`**
puts the two side by side, word after word.

**`Execution`** is one instruction after the other with every operand there is
(`get_ref`, `addressing.h` 95-140; `execute()`, `instructions.h` 301-430; `step` and
`interrupt_step`, `pipeline.h` 85-112) on a memory that may hold anything: a word that is
read is any of `Read`, so code and data are arbitrary and only the *accesses* are kept.
`Fetch`, `Source`, `Destination` and one `Execute...` action per kind of instruction are the
stages; each may meet a region that refuses it (`Refused`, `memoryRegion.h` 29-45): the
fetch throws and is caught, any later access throws inside `noexcept` and the process
ends (`aborted`). `Resolved` is where registers move and addresses are added up;
`constants` is the memory the constant generators refer to (`registerFile.h` 21-28).

**`Decompiler`** is the sweep of `decompiler.h` 47-76 and the labels of 78-95, on top of
`Decoder`, over a memory of `CellCount` words with arbitrary contents.

**`Frames`** is the abstract stack a program relies on: PUSH/POP, CALL/RET, interrupt/RETI
on a sequence of words nothing else touches. **`CallStack`** puts it where the code does,
in memory below a stack pointer that wraps around at 16 bits, in the order in which
`interrupt_step` (`pipeline.h` 85-101), CALL, PUSH and RETI (`instructions.h` 321-342) push
and pop; `frames` stays as a history and guards only the program's choices. Its
property `FramesSpec` is the specification of `Frames`.

**`Hex430`** is `hex430parser.h`: the reader as it goes through a file character by character
(`ReadPart` decides what a part is; `ReadAddressDigit` and `ReadAddressEnd` are lines 64-69 with
`new_fragment`; `ReadBlank`, `ReadNibble`, `ReadNewline`, `ReadCutLine` are the loop at 78-97 with
`push_bytes`), and `WriteStream`, the text `write_stream` gives. A file comes from the emulator's
own writer, from TI's tools (`TiText`, with either newline), or is any text. `std::stoi` is
external: leading blanks, digits, an exception when there is none or too many; its
sign and its `0x` prefix are left out. The characters that an endless address appends to
its buffer are not kept.

**`FileExplorer`** keeps the last two directory listings (`fileExplorer.h` 33, 69-77) and
what the pane is doing with them, from the way back on, which the root has too: `BeginList` takes the reference to the newer one
(`emugui.h` 169), a click inside the loop may push another and drop the oldest. The disk
answers anything each time it is read, also that there is no such directory, which
nobody catches. **`ProgramLoader`** is `select_file` with everything it calls: read the file,
write byte after byte (`LoadByte`), set the program counter (`SetPc`), copy the memory for the
decompiler (`CopyByte`), publish the listing (`Publish`), against a CPU thread that executes
arbitrary instructions one access at a time, with the program counter loaded and
stored apart (`CpuLoadPc`, `CpuStorePc`), first for the instruction and then for up to two
operands (`words`). The histories say how the two met: `touched` are the cells the CPU wrote
over the program before the decompiler copied them, `outdated` those it wrote after, and
`start` whether `SetPc` met the CPU between two instructions (`"next"`), in one that has read `pc` and
will store it (`"stale"`), or in one that has not (`"within"`).
**`FilePane`** composes the two: a click on a file starts the loader, which returns to the
loop that is still drawing.

`MC*` modules give the constants of the runs; `*Proofs` modules hold the theorems.

| Component | Module | Composes |
|---|---|---|
| Execution control | `RunControl` | implements `ExecutionControl` through `RunControlRefinement` |
| Interrupts and board | `PortInterrupts` | |
| Arithmetic | `RegisterMachine` | extends `Alu` |
| Decoder | `Decoder` | measured by `Encoding` in `DecoderWalk` |
| Decompiler | `Decompiler` | extends `Encoding`, hence `Decoder` |
| Execution, the stack | `CallStack` | extends and implements `Frames` |
| Execution, operands and regions | `Execution` | extends `Alu` |
| Program files, reading and writing | `Hex430` | |
| Program files, loading; file explorer | `FilePane` | `FileExplorer` and `ProgramLoader` |

## 3. Runs and bounds

| Run | Question | Answer |
|---|---|---|
| `control` | do the two threads keep the promises of the controls, whatever the interleaving? | yes: one execution per click on Step (`StepBudget`), at most one after a stop (`StopLatency`), none after the CPU stopped itself (`HaltIsFinal`), no run through a breakpoint, but for one that is toggled during the lookup or after it and for the entry of a program loaded between the two reads of `pc` (`BreakpointStopsRun`), and `ControlSpec`, the refinement. Under fairness, commands come through unless they meet the CPU on its way to sleep (`RunHonoured`, `StopHonoured`, `CloseHonouredAwake`) |
| `control_close` | does closing the window end the program? | no: KILL can find the CPU asleep, falling asleep, or be overwritten |
| `ports` | is a pressed button served? Do handlers nest? | served unless lost (`PortsServed`); lost only under a write that overlaps the press (`OnlyOverlapLoses`); a flag appears only if the program or an enabled press on the selected edge sets it, as tested, or an overlapping write puts it back (`FlagsAreWanted`); handlers never nest, GIE follows the context |
| `alu` | do the flags mean what a programmer reads into them? | yes for signed comparisons, overflow, with the exact cases in which SUBC misses it (`CarryOverflows`), rotations, Z against N, and SXT (`ExtensionFlags`, of a result it does not store) |
| `alu_unsigned` | does JHS compare unsigned words? | no: it is never taken after CMP |
| `decoder` | is the encoding unambiguous, of the right length, and are constants printed as they are set up? | yes for all patterns of `make_code.py`; `@PC` alone takes a word too many (`TakesAtPC`); a constant executes as it prints until a shift has changed it (`execution_constants`) |
| `decompiler` | does the listing partition the memory, with every target labelled? | yes, unless an instruction reaches over the end |
| `stack` | do calls, pushes and interrupts find what was left for them? | yes, wrapping around a full memory included |
| `hex` | do program files arrive as they were meant? Does reading end? | TI's files do, word by word (`TiWordsAreRead`); the emulator's own do unless a full last line runs into the next address (`WrittenReadsUnlessGlued`); reading ends unless the file is cut inside an address (`ReadEndsUnlessCutInAddress`) |
| `pane` | does a load survive a CPU that goes on executing? | the program is in memory as a whole when `pc` is set, but for what the CPU wrote over it; between instructions it starts at the entry, within one past it by that instruction's remaining operands, unless the instruction stores a `pc` it computed or read before (`LoadIsWhole`); a refused byte starts and lists nothing and leaves the bytes before it (`RefusedIsNotStarted`); the listing is that of the program, and of the memory but for what the CPU wrote since (`LoadIsListed`); the directory being drawn lives (`DrawnListingLives`) |
| `execution` | do instructions keep to the memory and its regions? | regions: yes, although one address is looked up (`RegionsKept`); memory: but for an index and a word at the last address (`OutsideIsIndexed`); program counter and stack pointer stay even but for a byte popped (`ParityIsKept`) |
| `execution_constants` | is a constant constant? | no: a shift of one is written back |

Type invariants are proved (section 5) and not checked again, except that of `Hex430`, where
an address has to keep to 16 bits, which is both.

The bounds, and why they are enough:

- *control*: three addresses, one whose fetch throws (address 0, where the machine
  starts), the entry, and one whose operands may throw. Threads, labels, samples and
  clicks are not bounded. Addresses enter the control only through membership in the
  breakpoints, the listing and the two sets of faults, and the three cover the
  combinations the code distinguishes. `overrun` is in `Nat`, and the
  invariant `StopLatency` shows that it stays below 2.
- *ports*: both ports, two pins of each, and ten instructions: those of
  `msp430/simple_1.cc`, a request by software, a test that writes back, a mask. A third
  pin would behave as the second. The proofs hold for every program.
- *alu*: two registers of four bits (a byte of two bits), so that every pair of words,
  both signs of each and every carry occur; the proofs hold for every size of byte.
- *decoder*: no bound, all 65 536 words.
- *decompiler*: five words, two of code and the three vectors, each one of nine: two
  that are no instructions (and, as vectors, addresses), a one-word instruction, two
  of two words, one of three, `@PC`, a jump back and a jump ahead. Every length, boundary
  and label collision occurs. `MaxListing` has to be at least the number of words of the
  memory: one sweep lists no more (`TileInv` proves it), so that the bound is met only
  after an instruction has reached over the end; the sweep itself goes on beyond it.
  The proofs hold for every memory and every such bound.
- *stack*: four cells of memory, a capacity of four words, a base in the middle: the
  pointer wraps around and the memory fills. Two values for data and status (GIE on
  and off). The proofs hold for every memory, base, capacity, data and status.

- *hex*: digits of base two, addresses of three digits, lines of two bytes, programs of up
  to two fragments of up to five bytes: empty, odd, full and half-full lines, and their
  successors. Other texts: all of up to five characters, which cut a file at every
  place, and two addresses that are too long. Nothing in the reader counts further
  than a pair of bytes, two digits, or a whole line. The proofs hold for every base,
  every number of digits from two on, every even line size and every set of programs.
- *pane*: the root, a directory in it and a file in that, so that a third listing is pushed
  while one is drawn; three cells of memory, the middle one refusing bytes; programs without
  fragments, with a refused second byte, and with three fragments that write a cell
  twice and go past the end. The CPU may write any cell at any time. The proofs hold
  for every disk, memory and set of programs.
- *execution*: words of four bits, hence sixteen cells, four of bytes and two of words; four
  possible words in memory, among them the last address and one in each region; one
  general register besides PC and SP; of the pairs of operands those that share a
  register, go through PC or SP, or lead behind the memory. The proofs hold for every
  size, all regions that lie as these do, and every set of instructions.
- *execution_constants*: one constant, 4, the shifts and one register.

`CHECK_DEADLOCK FALSE` is set only for the decoder, the decompiler and the reader of
program files, which come to an end; in `RunControl`, `Execution` and
`FilePane` the end of the process is an action of its own, so a thread
that is stuck any other way is reported.

## 4. Fairness

- `RunControl`: weak fairness of each thread as a whole, which is what the operating
  system's scheduler gives: a thread that can go on does. Nothing obliges the user to
  click, and nothing obliges the system to wake a waiter spuriously: `CpuSpuriousWake`
  and the clicks are not fair. The properties are stated per command ("... or it was
  replaced"), so no fairness of the user is needed.
- `PortInterrupts`: weak fairness of the CPU thread, and strong fairness of RETI: a
  handler that never returns is the program's fault, not the emulator's. Nothing is
  assumed of the GUI. That interrupts are enabled again and again outside handlers
  is not assumed but proved (`GieFollowsContext`).
- `Decompiler` and `Hex430`: weak fairness of the only thread they run in, the GUI thread,
  which does nothing else until they return.

The safety runs of `RegisterMachine`, `CallStack`, `Execution`, `FilePane` and `Decoder` need none.

## 5. Proofs

TLAPS checks every theorem listed in `PROJECT.json` for all values of the constants.
Assumptions on the constants are named where they are declared: `ProgramAssumption`
(reset address and entry are addresses, the listed code lies among them), `ProgramType` (a
program consists of instructions), `AluAssumption` (the sign bit of a byte is positive, and `BitCount`
bits make a word), `FramesAssumption` (at most 2^15 words of memory, a stack that fits), `CallStackAssumption` (the
stack begins at an address, data and status are words). `ExecutionAssumption` (the regions of
bytes begin at address 0 without a gap, those of words follow, destinations are registers, indexed or absolute), `ExplorerAssumption` (a parent is
a path, the working directory can be listed), `LoaderAssumption` (what a program writes are bytes at natural numbers). `DecompilerAssumption`
(a memory of at least one word, vectors in it at different addresses, a listing that is not cut
before one sweep is over). `HexAssumption` (digits are
different from each other and from the marks of the format, there are at least two of them, an
address has at least two, and a line holds an even number of bytes, as 16 is). TLC evaluates each
of them.

**`RunControlProofs`.** None of the safety properties is inductive: `StopLatency`, say, is
about a counter, and what keeps it below 2 is where the CPU is and what it sampled.
`IInv` adds `SampleInv` (an executing CPU holds a sample that lets it), `FrameInv` (a frame without
a click returns what it began with, or something quiet), `KillInv` (KILL comes from closing and no
frame follows it), `CreditInv` (while SINGLE_STEP is in force and unsampled, its request is
unspent), `QuietInv` (after one execution too many, or after the CPU halted, command *and* sample
are quiet), `RanInv` (the history `ran` agrees with the two samples), and `LookupInv` (from the lookup
to the fetch the `pc` that was looked up is the one there is, or a program was loaded and it is
`Entry`; and it is no breakpoint once looked up, or the map was changed). Each conjunct has a
lemma with one case per action that can disturb it. `BreakpointHolds` needs `RanInv`: an execution
that has begun has no IDLE sample behind it, so the lookup is not skipped; `LookupInv` carries its
answer to the second read of `pc`.
`ImplementsControl` uses the same invariant: the licence of the abstract CPU is granted at
the sample, when the command is in force; that a step licence is covered by an unspent
request is `CreditInv`, and that no command follows KILL is `KillInv`.

**`PortInterruptsProofs`.** `PollInv` (a CPU that polls has seen GIE; one that restores SR holds
the bit of its context) makes `HandlersDoNotNest` and `GieFollowsContext` inductive together. `MissedInv`
says that what is set in a register and was not in the value someone loaded is what
he missed; `OverlapOnly` follows. `DroppedInv` is its counterpart for what was cleared, and `WantedInv`
says that what `generate_interrupt` has tested still holds, or is in `overtaken`; `FlagsWanted` needs both.

**`RegisterMachineProofs`.** The heart is arithmetic: `Division` and `Wrapping` say what `%` and `\div` are at
the places where words wrap, and `SignBit` what a bit is; `DifferenceFlags`, `SumFlags` and `ByteDifferenceFlags`
say what the flags are in terms of signed numbers; `BinaryTyped` and `UnaryTyped` that every result is a word; the theorems connect these with the
jump conditions. `Inductive` carries `TypeOK` and `FlagsAgree` together. `CarryOverflowsHolds` finds the operands for which the carry
SUBC adds changes the sign behind the back of V; `ExtendedFacts` relates the extended byte to its sign.

**`CallStackProofs`.** `Held` says that each word on the stack is in its cell, `WellFormed` that a
status lies on the address it was pushed with, and with the capacity they are
inductive, because the cells of different words differ as long as the stack is not longer
than the memory (`SlotsDiffer`, from `Division` again), across the wrap-around. `ImplementsFrames`
maps each action of the machine to the action of `Frames` of the same kind.

**`ExecutionProofs`.** `TypeCorrect` needs `OperandInv` (an instruction at hand is one of the
program's), `AccessInv` (every access was allowed, or was an interrupt's, and an address that is not a
word is an index's) and `PhaseInv` (a binary instruction's destination is no constant, in
`execute`, and so on). `RegionsKeptHolds` is then about addresses only: if the second cell of a word
lay in the bytes, so would the first, since those begin at 0; this is where
`ExecutionAssumption` is used and what a further region in the middle would break.
Of the arithmetic it needs a few facts only, which it proves for itself (`Wrapping`, `UnaryValue`).
`ParityIsKeptHolds` goes through the stages with a lemma on what moving a register by an even
number does modulo the size of a word.

**`FilePaneProofs`.** The explorer needs `ListInv`: one click a frame, so at most one listing is
pushed while one is drawn, and that one was the newest. The loader needs `BytesInv` (the
first `index` bytes are in memory but for cells the CPU wrote, none of them was refused),
`CopyInv` (all of them are, the copied cells show them and are what memory holds but for those
written since) and `DoneInv`. A write of the CPU is in `touched` or in `outdated` or in no cell that
matters (`CpuWriteStep`), and a store of the next byte only adds to what is shown (`LoadByteShows`).
`StartInv` counts the operands from the entry on, one less while `pc` is latched: the increment that
follows is `PastOneMore`, which is where remainders come in (`AddAgain`). `PaneInv`, that the loader
works only while the pane waits for it, is needed because a load begins with empty histories.

**`DecompilerProofs`.** `LabelInv` is what ties the two maps together: the target of every jump
listed so far is in `labels`, and after the sweep every handler's address is, under the name of a
handler at that address (`HandlersIn`: two vectors may hold the same address, the last one
names it), and each item shows what `LabelFor` says. `TypeCorrect` needs `AdvanceType`: an instruction
of three words may go around a memory smaller than itself more than once.
`JumpTargetsLabelledHolds` and `VectorsNamedHolds` follow for every memory, straddling instructions included.

`ListingTilesMemoryHolds` needs to know what the sweep takes for an instruction. That is
`LengthsAgree`, by cases on format, register and mode from `BitsOfWord`. `ItemInv` says that an item is
what its word decodes to; `TileInv` says, of the part of the memory below `Reached`, what
`ListingTilesMemory` says of all of it: items do not overlap, in their order, and every word
is in one, or is none, or is behind an `@PC` (`Accounted`). It also bounds the listing by half the program
counter, so that an instruction met is an instruction listed; only then does "no
item straddles" say that no round stepped over the end (`RoundFits`), and `Reached` moves by what
was taken (`RoundReaches`). `SweepMovesOn` is a consequence: the loop can fail to end only by
straddling.

The three theorems about the decoder are about every word of `DecoderWalk`, by cases and not by
exhaustion: `SourcePlaced` and its neighbours say that register, mode, opcode and offset can be read
off an instruction again, `Reassembled` puts the word together from its bits, field by field.

**`Hex430Proofs`.** The reader meets one character at a time and the writer's text is a
concatenation over a whole program, so the invariant has to say, at every character, what is left
of the text. `Reading` does: what was read so far is right (`FragmentsRight`: every fragment but the
last is whole, and the last one holds the bytes of the lines that have ended), and `text` is the
rest of what the writer wrote, by the place the reader is in: between two parts (`PartInv`), in an
address (`AddressInv`) or in a line (`LineInv`), there behind a byte, inside one, or behind the last of a
full line (`AfterByte`, `InByte`, `AfterLast`), with the bytes at hand those since the last newline (`BytesRight`). `ReadingInv` says this
of either writer and either newline. From it, each action takes the character that `InLine` says
comes next. `AfterLast` is where the two writers differ: the emulator's own puts no newline there, the
reader takes the next mark for half a byte, and fails if it is an "@". TLC checked the
invariant on the instance of `hex`, all of its 64,879 states, before it was proved.

The rest is about texts. Texts are concatenations over the bytes and the fragments ahead
(`Ahead`), and what a step needs is what they begin with. Facts about all lengths follow by `Least` and
`Induction`, an induction over the set of numbers for which a fact holds, since an induction theorem with an operator as its
parameter cannot be instantiated; `Recursion` says what a recursive function is, and
`ReadsBack` from it that `stoi` of what `sprintf` wrote is the number, for any base.
`Power`, `HexNumber` and `Number` are recursive functions in the model for that reason.

What stays with TLC: every liveness property (`RunHonoured`, `StopHonoured`, `CloseHonouredAwake`,
`PortsServed`, `EndsOrStraddles`, `ReadEndsUnlessCutInAddress`), since fairness and ENABLED are out of the
prover's reach. Every other property of a passing run is a theorem.

## 6. Disagreements found

Each of these has a run that TLC refutes and a finding in `PROJECT.json`.

| Run | Where | What happens |
|---|---|---|
| `control_close` | `emulator.h:103` | KILL is notified only by a frame that began from IDLE, that notification can be lost as above, and the CPU's own store of IDLE (77, 84) can overwrite KILL. Then `join()` does not return, or a frame is drawn on a destroyed window. |
| `alu_unsigned` | `instructions.h:238` | Sums and differences clear C; JC/JHS after CMP is never taken, not even on equal words. |
| `execution_constants` | `instructions.h:345` | The operand of a shift is written back through a reference to the constant memory: after RRA #4 the constant 4 is 2 for every later instruction, and still prints as #4. |

The following disagree with what the repository says of itself, too; a property of a
passing run states the exact condition under which they do not happen:

- `emulator.h:65`: `wait()` has no predicate and the notification is sent without the mutex. Run
  clicked between the IDLE sample (61) and the wait is notified to nobody; the state
  stays STEP, no later frame notifies again, and the window shows "Running"
  (`emugui.h:270`) over a CPU that sleeps (`RunHonoured` says when Run comes through);
- `interruptController.h:113`: the board's and the program's read-modify-writes of IFG are not
  atomic, and every binary instruction writes its destination, tests included: a button
  logged as generated (`emugui.h:258`) can be gone (`OnlyOverlapLoses`);
- `instructions.h:369`: a binary instruction with SR as its destination writes the old SR over its
  own result; the EINT and DINT idioms (`msp430/simple_1.cc:60`) have no effect. RETI and
  interrupt entry change GIE, which is why interrupts work at all (`GieFollowsContext`);
- `decompiler.h:74`: the sweep stops only on a program counter of 0; a last word (the reset vector)
  that reads as a two-word instruction, as 0x4410 does, steps over it, the listing
  grows for ever and the window hangs (`EndsOrStraddles`);
- `hex430parser.h:145`: the writer ends a full last line with nothing, so the next fragment's
  "@" is read as a byte and the read fails (`WrittenReadsUnlessGlued`); 66: a file cut inside an
  address is read for ever (`ReadEndsUnlessCutInAddress`). One cut inside a line is refused.

Noticed while modelling and translated as they are; no run is about them because no text
of the repository says otherwise:

- words 0x1301-0x137F decode as RETI and 0x1380-0x13FF as RRC, 0x1400-0x1FFF as the
  unary instructions again (`opcodes.h:239` and the format test look at fewer bits than
  the patterns of `make_code.py:7,13`); RRC prints as "RRA" (`opcodes.h:206`);
- `@PC` without "+" takes a word from the program (`addressing.h:119`), which an MSP430
  does not; a byte access `@SP+` leaves SP odd (`addressing.h:73`);
- `base + index` is not cut to 16 bits (`addressing.h:114`);
- SXT computes the extended value for the flags and stores the unextended one
  (`instructions.h:74`); SUBC adds the carry without the minus one (201);
- enable bits are tested when a request is made, not when it is served
  (`interruptController.h:93`), and before the flag is set, not when: one that was disabled
  in between is requested (98; `FlagsAreWanted` names the case);
- the second of two clicks on Step is lost if the CPU samples SINGLE_STEP for both and nothing
  else between them: two clicks within one sample, or one at once after a single step that
  met a breakpoint or a fault. The second sample looks like the first (`emulator.h:70`).
  `StepBudget` is about the other error, more executions than clicks;
- a program loaded between the lookup of a breakpoint and the fetch runs its first instruction
  without one (`emulator.h:76`, `pipeline.h:104`; `BreakpointStopsRun` names the case);
- an illegal operand ends the process, since `execute()` is `noexcept`
  (`instructions.h:426`), although `emulator.h:82` has a handler for it;
- the window draws V from bit 0x100 (`emugui.h:91`), the ALU keeps it in 0x80, drawn as
  SCG1; a press by mouse raises the level of the pin and one by key lowers it, and both
  report the same edge (`emugui.h:251`, `383`);
- `registerFile.h` keeps an `sr` taken from word 2, which is register 1; it is unused;
- the text of an indexed operand in the listing adds a register the decompiler itself
  has moved by earlier `@Rn+` operands (`decompiler.h:55`);
- the reader swaps the bytes of a pair and the writer does not, so writing and reading
  back swaps every word (`hex430parser.h:87`); `WrittenReadsUnlessGlued` says so;
- a missing file reads as a program without fragments: the load succeeds and starts
  whatever is at the entry (`hex430parser.h:122`); a fragment past 0xFFFF is written
  behind the memory (`programLoader.h:32`); a directory that cannot be read ends the process
  (`fileExplorer.h:53`);
- a load that meets the CPU inside an instruction does not start at the entry if the
  instruction still takes operands, which are then the program's first words, and not at
  all if it stores a program counter it has read or computed (`programLoader.h:36`;
  `LoadIsWhole` says which);
- interrupt entry writes the stack with `set_word`, which asks no region
  (`pipeline.h:90`);
- `tickController.h:40` divides by whole seconds, zero in the first one.

## 7. Assumptions and what is left out

- `RunControl` takes the emulated program as arbitrary (any next `pc`). `TickController` is
  abstracted: the 101st iteration is assumed to come a second or more after the start,
  or the process would end on a division by zero. The throttle is a delay, which an
  asynchronous model has anyway. The interrupt of the watchdog has no registers and
  sets nothing (`interrupts.h`).
- The data race on the breakpoint map is a choice over its outcomes: either answer, or
  the end of the process. Races on 16-bit registers are treated as atomic loads and
  stores, which they are on the machines the program is built for.
- `PortInterrupts` has one button per port and one other pin. GIE and the port registers
  are the only state of the program; the program itself is any sequence of the given
  instructions.
- `Execution` keeps accesses, not contents: what memory holds is arbitrary at every read.
  R4 to R15 are one register, R3 as well; SR as an operand is any word, since what
  is written to it is overwritten. Byte and word are the two widths; the regions are
  those of `emulator.h` 48-51, of which the last refuses nothing.
- `FilePane`: one click per frame is what ImGui gives. A program's fragment has at most
  2^16 bytes, or the 16-bit offset (`programLoader.h:31`) would wrap. The sweep of the decompiler
  that follows the copy is `Decompiler`; here it ends. What lies behind the memory is not modelled.
- `Hex430`: the file does not change while it is read.
- `RegisterMachine` has register operands only. GIE stands for every status bit that is
  not a flag.
- `CallStack` takes programs that pop what they pushed, return from what they called,
  keep to `Capacity` words of ordinary memory, and write outside their live stack; its
  word accesses never meet a byte-only region. Instructions are chosen, not fetched:
  the code in memory is not modelled, and GIE is out of the program's reach, as
  section 6 says.
- `Decompiler` leaves out the text of operands; the listing is kept up to `MaxListing`.
- Not modelled: the tick and the timers (their effect is a delay that an asynchronous
  model has anyway, and their arithmetic is the system clock's), the drawing, the
  window library, ELF files (nothing uses them), the scripts beyond their patterns,
  the text of operands in the listing, the unit tests.

## 8. Plan

Done: execution control and its refinement; interrupts; arithmetic; decoder;
decompiler; the call stack and its refinement; program files, the file pane and its
composition with the CPU thread; operands, regions and accesses. Left:

1. **Larger compositions**: `RunControl` with the memory an instruction touches, where a halt
   and a load meet; `Execution` with contents, refining `CallStack`.
2. **An abstract program** for `Hex430`, a partial map from addresses to bytes, which reading
   implements for every file.
3. **`TickController`** with a clock.
