---------------------------- MODULE ProgramLoader ---------------------------
(***************************************************************************)
(* Loading a program (emugui.h select_file, utils/programLoader.h): the    *)
(* GUI thread writes the memory byte by byte and then the program counter, *)
(* copies the memory byte by byte for the decompiler, and publishes the    *)
(* listing, while the CPU thread executes instructions on the same memory  *)
(* and the same program counter, one access at a time.                     *)
(***************************************************************************)
EXTENDS Integers, SequencesExt

CONSTANTS Top,        \* the last address: 0xFFFF
          WordOnly,   \* addresses that refuse bytes: 0x100-0x1FF
          Entry,      \* 0x4400
          Value,      \* contents of a cell
          Program     \* what read_file() may return

Address == 0..Top
NoListing == [a \in {} |-> 0]

(* The bytes of a program in the order in which they are written, each with  *)
(* its address.                                                              *)
Writes(p) == FlattenSeq([f \in DOMAIN p |->
                 [i \in DOMAIN p[f].bytes |-> <<p[f].address + i - 1, p[f].bytes[i]>>]])

ASSUME LoaderAssumption ==
    /\ Top \in Nat \ {0} /\ WordOnly \subseteq Address /\ Entry \in Address
    /\ 0 \in Value
    /\ \A p \in Program \cup {<<>>} : Writes(p) \in Seq(Nat \X Value)

VARIABLES
    memory,    \* ram
    pc,        \* register 0
    cpu,       \* where the CPU is in pipeline.step()
    latch,     \* the pc it read and has not yet incremented
    words,     \* operand words its instruction may still take, or left
    loader,    \* where the GUI thread is in select_file()
    program,   \* the program being loaded
    index,     \* bytes loaded, then copied
    image,     \* the decompiler's copy of the memory
    decompiled,\* the memory the listing on the screen shows

    \* History variables of the load, until the GUI thread leaves it.
    touched,   \* cells the CPU wrote since the loader did and before the
               \* decompiler copied them
    outdated,  \* cells the CPU wrote since the decompiler copied them
    start      \* how setting pc met the CPU, until the CPU begins an
               \* instruction or stores another pc
memories == <<memory, pc>>
processor == <<cpu, latch, words>>
loading == <<loader, program, index, image, decompiled>>
written == <<touched, outdated>>
history == <<written, start>>
loaderVars == <<memories, processor, loading, history>>

-----------------------------------------------------------------------------
LoaderInit ==
    /\ memory = [a \in Address |-> 0] /\ pc = 0
    /\ cpu = "between" /\ latch = 0 /\ words = 0
    /\ loader = "none" /\ program = <<>> /\ index = 0
    /\ image = NoListing /\ decompiled = NoListing
    /\ touched = {} /\ outdated = {} /\ start = "none"

(* read_file(): a program, or stoi throws, which select_file() catches.  A   *)
(* file that cannot be opened reads as the program without fragments.        *)
ReadFile ==
    /\ loader = "read"
    /\ \/ loader' = "failed" /\ UNCHANGED program
       \/ loader' = "bytes" /\ program' \in Program
    /\ UNCHANGED <<memories, processor, index, image, decompiled, history>>

(* ram.get_byte(fragment.address + ptr).set(byte): a refused byte throws,    *)
(* which select_file() catches; one past the end of the memory lands in      *)
(* memory of something else.                                                 *)
LoadByteMut ==
    /\ loader = "bytes" /\ index < Len(Writes(program))
    /\ LET a == Writes(program)[index + 1][1]
       IN  /\ memory' = IF a \in Address \ WordOnly
                          THEN [memory EXCEPT ![a] = Writes(program)[index + 1][2]] ELSE memory
           /\ index' = index + 1 /\ touched' = touched \ {a} /\ UNCHANGED loader
    /\ UNCHANGED <<pc, processor, program, image, decompiled, outdated, start>>
LoadByte ==
    /\ loader = "bytes" /\ index < Len(Writes(program))
    /\ LET a == Writes(program)[index + 1][1]
       IN  \/ a \in WordOnly /\ loader' = "failed" /\ UNCHANGED <<memory, index, touched>>
           \/ /\ a \in Address \ WordOnly
              /\ memory' = [memory EXCEPT ![a] = Writes(program)[index + 1][2]]
              /\ index' = index + 1 /\ touched' = touched \ {a} /\ UNCHANGED loader
           \/ a > Top /\ index' = index + 1 /\ UNCHANGED <<memory, loader, touched>>
    /\ UNCHANGED <<pc, processor, program, image, decompiled, outdated, start>>

(* How the setting of pc meets the CPU: the next instruction begins at Entry; *)
(* or one is under way, and has read pc already (stale), or not.              *)
Met == CASE cpu = "between" -> "next" [] cpu = "latched" -> "stale" [] OTHER -> "within"

(* regs.get_ref(0x0).set(0x4400).                                            *)
SetPcMut ==
    /\ loader = "bytes"
    /\ pc' = Entry /\ loader' = "copy" /\ index' = 0 /\ image' = NoListing
    /\ start' = Met
    /\ UNCHANGED <<memory, processor, program, decompiled, written>>
SetPc ==
    /\ loader = "bytes" /\ index = Len(Writes(program))
    /\ pc' = Entry /\ loader' = "copy" /\ index' = 0 /\ image' = NoListing
    /\ start' = Met
    /\ UNCHANGED <<memory, processor, program, decompiled, written>>

(* The constructor of the Decompiler copies the memory of the machine.       *)
CopyByte ==
    /\ loader = "copy" /\ index \in Address
    /\ image' = [a \in 0..index |-> IF a = index THEN memory[a] ELSE image[a]]
    /\ index' = index + 1
    /\ UNCHANGED <<memories, processor, loader, program, decompiled, history>>

PublishMut ==
    /\ loader = "copy" /\ index = 1
    /\ decompiled' = [a \in Address |-> IF a = 0 THEN image[0] ELSE 0] /\ image' = NoListing /\ loader' = "done"
    /\ UNCHANGED <<memories, processor, program, index, history>>
Publish ==
    /\ loader = "copy" /\ index > Top
    /\ decompiled' = image /\ image' = NoListing /\ loader' = "done"
    /\ UNCHANGED <<memories, processor, program, index, history>>

-----------------------------------------------------------------------------
(* The cells of the program that are loaded, and the copied ones.            *)
Loaded == CASE loader = "bytes" -> {Writes(program)[k][1] : k \in 1..index}
            [] loader = "copy" -> {Writes(program)[k][1] : k \in DOMAIN Writes(program)}
            [] OTHER -> {}
Copied == CASE loader = "copy" -> 0..(index - 1)
            [] loader = "done" -> Address
            [] OTHER -> {}

(* pipeline.step(): pc.get_and_increment(2) loads, then stores; what the     *)
(* instruction word is, and hence what follows, is anything: a word for each *)
(* of two operands, writes to the memory, a jump.  An interrupt begins with  *)
(* the writes.                                                               *)
Begin == cpu = "between" /\ start' = "none"
CpuLoadPc ==
    /\ Begin /\ cpu' = "latched" /\ latch' = pc /\ words' = 2
    /\ UNCHANGED <<memories, loading, written>>
CpuStorePc ==
    /\ cpu = "latched" /\ cpu' = "executing" /\ latch' = 0
    /\ pc' = (latch + 2) % (Top + 1)
    /\ start' = IF start = "stale" THEN "none" ELSE start
    /\ UNCHANGED <<memory, words, loading, written>>
CpuInterrupt ==
    /\ Begin /\ cpu' = "executing" /\ words' = 0
    /\ UNCHANGED <<memories, latch, loading, written>>
CpuLoadOperand ==
    /\ cpu = "executing" /\ words > 0
    /\ cpu' = "latched" /\ latch' = pc /\ words' = words - 1
    /\ UNCHANGED <<memories, loading, history>>
CpuWrite ==
    /\ cpu = "executing"
    /\ \E a \in Address, v \in Value :
            /\ memory' = [memory EXCEPT ![a] = v]
            /\ touched' = IF a \in Loaded \ Copied THEN touched \cup {a} ELSE touched
            /\ outdated' = IF a \in Copied THEN outdated \cup {a} ELSE outdated
    /\ UNCHANGED <<pc, processor, loading, start>>
CpuJump ==
    /\ cpu = "executing" /\ cpu' = "between" /\ pc' \in Address /\ start' = "none"
    /\ UNCHANGED <<memory, latch, words, loading, written>>
CpuEnd ==
    /\ cpu = "executing" /\ cpu' = "between"
    /\ UNCHANGED <<memories, latch, words, loading, history>>

Cpu == \/ CpuLoadPc \/ CpuStorePc \/ CpuInterrupt \/ CpuLoadOperand
       \/ CpuWrite \/ CpuJump \/ CpuEnd
Load == ReadFile \/ LoadByte \/ SetPc \/ CopyByte \/ Publish

-----------------------------------------------------------------------------
LoaderTypeOK ==
    /\ memory \in [Address -> Value] /\ pc \in Address /\ latch \in Address
    /\ cpu \in {"between", "latched", "executing"}
    /\ loader \in {"none", "read", "bytes", "copy", "done", "failed"}
    /\ program \in Program \cup {<<>>} /\ index \in 0..(Len(Writes(program)) + Top + 1)
    /\ DOMAIN image \subseteq Address
    /\ decompiled = NoListing \/ decompiled \in [Address -> Value]
    /\ words \in 0..2
    /\ touched \subseteq Address /\ outdated \subseteq Address
    /\ start \in {"none", "next", "stale", "within"}

(* The cells hold what the first n bytes of the program put there, the last  *)
(* byte for each address, but for those behind the memory and those of cpus. *)
ShowsFirst(cells, n, cpus) ==
    LET w == Writes(program)
    IN  \A k \in 1..n :
            /\ w[k][1] \in Address \ cpus
            /\ \A later \in (k + 1)..n : w[later][1] /= w[k][1]
            => cells[w[k][1]] = w[k][2]
Shows(cells, cpus) == ShowsFirst(cells, Len(Writes(program)), cpus)

(* However the load meets the CPU, the program is in memory as a whole from  *)
(* the moment pc is set, but for cells the CPU wrote over it; only the start *)
(* may go wrong.  Between two instructions, the next one begins at Entry.    *)
(* Within one, it begins past Entry by the words the instruction then takes  *)
(* for its operands, two at most; the increment of a pc read before and a    *)
(* jump are the only ways to lose it.                                        *)
LoadIsWhole ==
    /\ loader \in {"copy", "done"} => Shows(memory, touched \cup outdated)
    /\ start = "next" => cpu = "between" /\ pc = Entry
    /\ start = "within" =>
            \E taken \in 0..(2 - words) : pc = (Entry + 2 * taken) % (Top + 1)

(* A program with a byte that is refused is loaded up to that byte, which    *)
(* the memory then shows, and neither started nor listed: the GUI thread     *)
(* leaves pc and listing alone, and the old program goes on in a memory that *)
(* is partly the new one's.                                                  *)
HasRefused(p) == \E k \in DOMAIN Writes(p) : Writes(p)[k][1] \in WordOnly
RefusedIsNotStarted ==
    [][/\ HasRefused(program) /\ UNCHANGED processor => UNCHANGED <<pc, decompiled>>
       /\ loader = "bytes" /\ loader' = "failed" =>
             /\ Writes(program)[index + 1][1] \in WordOnly
             /\ \A k \in 1..index : Writes(program)[k][1] \notin WordOnly
             /\ ShowsFirst(memory', index, touched)]_loaderVars

(* After a load the listing shows the program that was loaded, but for cells *)
(* the CPU wrote before they were copied; and it shows every cell as it is   *)
(* in memory, but for those the CPU wrote since, in whatever order copy and  *)
(* instructions came.                                                        *)
LoadIsListed ==
    loader = "done" => /\ Shows(decompiled, touched)
                       /\ \A a \in Address \ outdated : decompiled[a] = memory[a]
=============================================================================
