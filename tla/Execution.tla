----------------------------- MODULE Execution ------------------------------
(***************************************************************************)
(* One instruction after the other with all operands an MSP430 has:        *)
(* Pipeline::step() and interrupt_step() (core/pipeline.h), the operands   *)
(* (utils/addressing.h get_ref), execute() (utils/instructions.h), and the *)
(* regions that refuse some accesses (core/memoryView.h, memoryRegion.h).  *)
(*                                                                         *)
(* Code and data are anything: a word read from memory is any of Read, an  *)
(* instruction any of Instruction, the result of a binary one any of Read. *)
(* Of the memory only the accesses to it are kept.                         *)
(***************************************************************************)
EXTENDS Alu

CONSTANTS ByteOnly,     \* 0x0-0xFF: special functions, 8-bit peripherals
          WordOnly,     \* 0x100-0x1FF: 16-bit peripherals
          Read,         \* the words in memory
          Constant,     \* the values of the constant generators
          Instruction   \* the instructions of programs

Top == WordSize - 1
Register == {"PC", "SP", "R"}      \* R stands for R4-R15
Shift == {"RRC", "RRA", "SWPB", "SXT"}
Opcode == Shift \cup {"binary", "PUSH", "CALL", "RETI", "jump", "none"}

(* SR as an operand: any word, and what is written to it is overwritten by   *)
(* the status that execute() ends with.                                      *)
Operand ==
    [mode : {"register"}, reg : Register \cup {"SR"}] \cup
    [mode : {"indexed", "indirect", "increment"}, reg : Register] \cup
    [mode : {"label"}, reg : {"SR"}] \cup
    [mode : {"constant"}, reg : Constant]

ASSUME ExecutionAssumption ==
    /\ ByteOnly \subseteq Word /\ \A a \in ByteOnly : a = 0 \/ a - 1 \in ByteOnly
    /\ WordOnly \subseteq Word \ ByteOnly
    /\ Read \subseteq Word /\ Constant \subseteq Word
    /\ Instruction \subseteq [opcode : Opcode, source : Operand, dest : Operand, bw : BOOLEAN]
    /\ \A i \in Instruction : i.dest.mode \in {"register", "indexed", "label"}

VARIABLES
    regs,       \* PC, SP and a general register
    constants,  \* the constant memory: a cell for each value
    phase,      \* what comes next
    ins,        \* the instruction at hand
    src, dst,   \* the references to its operands
    accesses    \* the accesses of the last step to the memory
vars == <<regs, constants, phase, ins, src, dst, accesses>>

-----------------------------------------------------------------------------
(* A reference: a register, a constant or a byte or word of memory, with     *)
(* what gave the address.                                                    *)
Reference == [kind : {"register"}, at : Register \cup {"SR"}] \cup
             [kind : {"constant"}, at : Constant] \cup
             [kind : {"memory"}, at : 0..(2 * Top), word : BOOLEAN,
              by : {"code", "index", "label", "register", "stack", "interrupt"}]
Named(kind, name) == [kind |-> kind, at |-> name]
InMemory(a, word, by) == [kind |-> "memory", at |-> a, word |-> word, by |-> by]
NoRef == Named("register", "SR")
None == [opcode |-> "none", source |-> [mode |-> "register", reg |-> "SR"],
         dest |-> [mode |-> "register", reg |-> "SR"], bw |-> FALSE]

(* ensure_access() asks for the address of the access; a word reaches the    *)
(* cell behind it as well.                                                   *)
RefusedMut(ref) == /\ ref.kind = "memory"
                   /\ IF ref.word THEN ref.at + 1 \in ByteOnly /\ ref.at \in ByteOnly \ {0}
                                  ELSE ref.at \in WordOnly
Refused(ref) == /\ ref.kind = "memory"
                /\ IF ref.word THEN ref.at \in ByteOnly ELSE ref.at \in WordOnly
Cells(ref) == {ref.at} \cup (IF ref.word THEN {ref.at + 1} ELSE {})

MovedMut(rs, r, delta) == [rs EXCEPT ![r] = @ + delta]
Moved(rs, r, delta) == [rs EXCEPT ![r] = (@ + delta) % WordSize]

(* The delta of @Rn and @Rn+; register 0 always takes a word of the program. *)
DeltaMut(op, bw) == IF op.mode = "indirect" THEN 0 ELSE IF bw THEN 1 ELSE 2
Delta(op, bw) == IF op.reg = "PC" THEN 2
                 ELSE IF op.mode = "indirect" THEN 0 ELSE IF bw THEN 1 ELSE 2

(* get_ref(): what becomes of the registers, and the reference.  base +      *)
(* index is an int and not cut to 16 bits.                                   *)
Resolved(op, bw) ==
    LET behind == Moved(regs, "PC", 2)
    IN  CASE op.mode \in {"register", "constant"} ->
                {[regs |-> regs, ref |-> Named(op.mode, op.reg)]}
          [] op.mode = "indexed" ->
                {[regs |-> behind, ref |-> InMemory(behind[op.reg] + index, ~bw, "index")]
                    : index \in Read}
          [] op.mode = "label" ->
                {[regs |-> behind, ref |-> InMemory(address, ~bw, "label")] : address \in Read}
          [] op.mode \in {"indirect", "increment"} ->
                {[regs |-> Moved(regs, op.reg, Delta(op, bw)),
                  ref |-> InMemory(regs[op.reg], op.reg = "PC" \/ ~bw, "register")]}

(* The words of the program that give index and label.                       *)
Code == InMemory(regs["PC"], TRUE, "code")
Extension(op) == IF op.mode \in {"indexed", "label"} THEN {Code} ELSE {}
Memory(ref) == IF ref.kind = "memory" THEN {ref} ELSE {}

Values(ref) ==
    CASE ref.kind = "register" -> IF ref.at = "SR" THEN Read ELSE {regs[ref.at]}
      [] ref.kind = "constant" -> {constants[ref.at]}
      [] ref.kind = "memory" -> IF ref.word THEN Read ELSE {w % Byte : w \in Read}

-----------------------------------------------------------------------------
Init ==
    /\ regs = [r \in Register |-> 0]
    /\ constants = [c \in Constant |-> c]
    /\ phase = "fetch" /\ ins = None
    /\ src = NoRef /\ dst = NoRef /\ accesses = {}

(* The end of an instruction.                                                *)
Done == phase' = "fetch" /\ ins' = None /\ src' = NoRef /\ dst' = NoRef

(* A word that may not be fetched: the exception is caught in cpu_thread(),  *)
(* the program counter has moved.                                            *)
Fetch ==
    /\ phase = "fetch"
    /\ regs' = Moved(regs, "PC", 2)
    /\ \/ Refused(Code) /\ accesses' = {} /\ UNCHANGED <<phase, ins>>
       \/ /\ ~Refused(Code) /\ accesses' = {Code}
          /\ ins' \in Instruction
          /\ phase' = IF ins'.opcode \in {"jump", "none"} THEN "execute" ELSE "source"
    /\ UNCHANGED <<constants, src, dst>>

(* The reference to an operand.  An access that is refused throws in a       *)
(* function that is noexcept, and the process ends.                          *)
Resolve(op, operand) ==
    \/ \E ref \in Extension(op) :
            Refused(ref) /\ phase' = "aborted" /\ accesses' = {}
            /\ regs' = Moved(regs, "PC", 2) /\ UNCHANGED <<src, dst>>
    \/ /\ \A ref \in Extension(op) : ~Refused(ref)
       /\ \E o \in Resolved(op, ins.bw) :
            /\ regs' = o.regs
            /\ \/ /\ Refused(o.ref) /\ phase' = "aborted" /\ accesses' = Extension(op)
                  /\ UNCHANGED <<src, dst>>
               \/ /\ ~Refused(o.ref) /\ accesses' = Extension(op) \cup Memory(o.ref)
                  /\ src' = IF operand = "source" THEN o.ref ELSE src
                  /\ dst' = IF operand = "dest" THEN o.ref ELSE dst
                  /\ phase' = IF operand = "source" /\ ins.opcode = "binary"
                                THEN "dest" ELSE "execute"
Source == phase = "source" /\ Resolve(ins.source, phase) /\ UNCHANGED <<constants, ins>>
Destination == phase = "dest" /\ Resolve(ins.dest, phase) /\ UNCHANGED <<constants, ins>>

(* ref.set(value).                                                           *)
Store(ref, value) ==
    /\ accesses' = Memory(ref)
    /\ regs' = IF ref.kind = "register" /\ ref.at \in Register
               THEN [regs EXCEPT ![ref.at] = value] ELSE regs
    /\ constants' = IF ref.kind = "constant" THEN [constants EXCEPT ![ref.at] = value]
                                             ELSE constants

ExecuteBinary ==
    /\ phase = "execute" /\ ins.opcode = "binary"
    /\ \E result \in Read : Store(dst, result)
    /\ Done

(* A shift stores its result in its only operand, if it is another value.    *)
ExecuteShift ==
    /\ phase = "execute" /\ ins.opcode \in Shift
    /\ \E value \in Values(src), status \in {{}, {"C"}} :
        LET result == CalculateUnary(ins.opcode, value, status).value
        IN  \/ result /= value /\ Store(src, result)
            \/ result = value /\ accesses' = {} /\ UNCHANGED <<regs, constants>>
    /\ Done

(* PUSH and CALL go through get_word(), which may refuse.                    *)
Push ==
    /\ phase = "execute" /\ ins.opcode \in {"PUSH", "CALL"}
    /\ \E value \in Values(src) :
        LET down == Moved(regs, "SP", -2)
            cell == InMemory(down["SP"], TRUE, "stack")
        IN  \/ /\ Refused(cell) /\ phase' = "aborted" /\ accesses' = {}
               /\ regs' = down /\ UNCHANGED <<ins, src, dst>>
            \/ /\ ~Refused(cell) /\ accesses' = {cell} /\ Done
               /\ regs' = IF ins.opcode = "CALL" THEN [down EXCEPT !["PC"] = value] ELSE down
    /\ UNCHANGED constants

(* RETI pops the status, then the program counter.                           *)
Reti ==
    /\ phase = "execute" /\ ins.opcode = "RETI"
    /\ LET first == InMemory(regs["SP"], TRUE, "stack")
           up == Moved(regs, "SP", 2)
           second == InMemory(up["SP"], TRUE, "stack")
       IN  \/ /\ Refused(first) /\ phase' = "aborted" /\ accesses' = {}
              /\ regs' = up /\ UNCHANGED <<ins, src, dst>>
           \/ /\ ~Refused(first) /\ Refused(second) /\ phase' = "aborted"
              /\ accesses' = {first}
              /\ regs' = Moved(up, "SP", 2) /\ UNCHANGED <<ins, src, dst>>
           \/ /\ ~Refused(first) /\ ~Refused(second) /\ accesses' = {first, second} /\ Done
              /\ \E value \in Read : regs' = [Moved(up, "SP", 2) EXCEPT !["PC"] = value]
    /\ UNCHANGED constants

(* A jump is by an even offset, either way; UnimplementedInstruction does    *)
(* nothing.                                                                  *)
Jump ==
    /\ phase = "execute" /\ ins.opcode = "jump"
    /\ \E words \in {-2, 0, 2} : regs' = Moved(regs, "PC", 2 * words)
    /\ accesses' = {} /\ Done /\ UNCHANGED constants
Nothing ==
    /\ phase = "execute" /\ ins.opcode = "none"
    /\ accesses' = {} /\ Done /\ UNCHANGED <<regs, constants>>

(* interrupt_step() writes with set_word(), which refuses nothing.           *)
Interrupt ==
    /\ phase = "fetch"
    /\ LET down == Moved(regs, "SP", -2)
           down2 == Moved(down, "SP", -2)
       IN  /\ accesses' = {InMemory(down["SP"], TRUE, "interrupt"),
                           InMemory(down2["SP"], TRUE, "interrupt")}
           /\ \E handler \in Read : regs' = [down2 EXCEPT !["PC"] = handler]
    /\ UNCHANGED <<constants, phase, ins, src, dst>>

Aborted == phase = "aborted" /\ UNCHANGED vars

Next == \/ Fetch \/ Source \/ Destination \/ ExecuteBinary \/ ExecuteShift \/ Push
        \/ Reti \/ Jump \/ Nothing \/ Interrupt \/ Aborted
Spec == Init /\ [][Next]_vars

-----------------------------------------------------------------------------
(* Registers and constants hold words, whatever was added to them; a         *)
(* reference is one that get_ref() can return.                               *)
TypeOK ==
    /\ regs \in [Register -> Word] /\ constants \in [Constant -> Word]
    /\ phase \in {"fetch", "source", "dest", "execute", "aborted"}
    /\ ins \in Instruction \cup {None}
    /\ src \in Reference /\ dst \in Reference /\ accesses \subseteq Reference
    /\ phase = "execute" => dst.kind /= "constant"

(* No instruction reaches a byte-only register with a word, not even with    *)
(* the second cell of one, nor a word-only one with a byte, although only    *)
(* the first cell of an access is looked up: the byte-only regions begin at  *)
(* address 0.  Interrupt entry does reach them: it writes behind the check.  *)
RegionsKept ==
    \A ref \in accesses :
        /\ ref.word /\ ref.by /= "interrupt" => Cells(ref) \cap ByteOnly = {}
        /\ ~ref.word => Cells(ref) \cap WordOnly = {}

(* An access leaves the 64 KiB only behind their end: by an index, of which  *)
(* the sum with the register is not cut to 16 bits, or by one cell, with a   *)
(* word at the last, odd address.                                            *)
OutsideIsIndexed ==
    \A ref \in accesses : \A cell \in Cells(ref) :
        cell \notin Word => \/ ref.by = "index" /\ cell > Top
                            \/ ref.word /\ ref.at = Top

(* Program counter and stack pointer stay even (or odd) until an instruction *)
(* gives them a value, or a byte is popped: extension words, immediates of   *)
(* byte instructions, pushes and interrupts move them by words.              *)
Given(r) ==
    \/ phase = "execute" /\ ins.opcode = "binary" /\ dst = Named("register", r)
    \/ phase = "execute" /\ ins.opcode \in Shift /\ src = Named("register", r)
    \/ r = "PC" /\ phase = "execute" /\ ins.opcode \in {"CALL", "RETI"}
    \/ r = "PC" /\ \E ref \in accesses' : ref.by = "interrupt"
BytePopped(r) ==
    /\ r = "SP" /\ phase = "source" /\ ins.bw
    /\ ins.source.mode = "increment" /\ ins.source.reg = "SP"
ParityIsKept ==
    [][\A r \in {"PC", "SP"} :
          regs'[r] % 2 /= regs[r] % 2 => Given(r) \/ BytePopped(r)]_vars

(* NOT OF THIS CODE: a constant is the value its operand prints              *)
(* (addressing.h:175, "#" and the value).                                    *)
ConstantsHold == \A c \in Constant : constants[c] = c
=============================================================================
