------------------------------ MODULE Decoder ------------------------------
(* Pipeline::decode(): from an instruction word to the instruction, its      *)
(* operands and the words they take from the program (core/pipeline.h,       *)
(* utils/opcodes.h, utils/addressing.h).                                     *)
EXTENDS Integers, Sequences

InstructionWord == 0..(2^16 - 1)

(* The bits of a word from low on.                                           *)
Bits(word, low, width) == (word \div 2^low) % 2^width

-----------------------------------------------------------------------------
(* Opcodes.                                                                  *)

InstructionFormat(value) == CASE value = 0 -> "UNIMPL_OP"
                              [] value = 1 -> "UNARY_OP"
                              [] value \in {2, 3} -> "JUMP_OP"
                              [] OTHER -> "BINARY_OP"

Binaries == <<"MOV", "ADD", "ADDC", "SUBC", "SUB", "CMP",
              "DADD", "BIT", "BIC", "BIS", "XOR", "AND">>
Jumps == <<"JNE", "JEQ", "JNC", "JC", "JN", "JGE", "JL", "JMP">>
Unaries == <<"RRC", "SWPB", "RRA", "SXT", "PUSH", "CALL", "RETI">>

BinaryInstructionOpcode(value) == Binaries[value - 3]
JumpInstructionOpcode(value) == Jumps[value + 1]
UnaryInstructionOpcode(value) == IF value = 7 THEN "RRC" ELSE Unaries[value + 1]

-----------------------------------------------------------------------------
(* Operands.                                                                 *)

Direct(reg) == [mode |-> "direct", reg |-> reg]
Indexed(reg, bw) == [mode |-> "indexed", reg |-> reg, bw |-> bw]
Indirect(reg, delta, bw) == [mode |-> "indirect", reg |-> reg, delta |-> delta, bw |-> bw]
Constant(value, constant_reg) == [mode |-> "constant", value |-> value,
                                  constant_reg |-> constant_reg]
Label(bw) == [mode |-> "label", bw |-> bw]

(* The two constant generators: register 3 in every mode, register 2 in the  *)
(* indirect ones.  0xFFFF is the 16-bit -1.                                  *)
Generated3 == <<Constant(0, 0), Constant(1, 2), Constant(2, 4), Constant(65535, 10)>>
(* A mistake: the offsets of the two constants of register 2 swapped.        *)
Generated2Mut == <<Constant(4, 8), Constant(8, 6)>>
Generated2 == <<Constant(4, 6), Constant(8, 8)>>

(* A mistake: @R2 and @R2+ are operands in memory.                           *)
FromSourceMut(reg, mode, bw) ==
    CASE reg = 3 -> Generated3[mode + 1]
      [] reg = 2 /\ mode = 1 -> Label(bw)
      [] reg = 2 /\ mode > 1 -> Indirect(2, 0, bw)
      [] mode = 0 -> Direct(reg)
      [] mode = 1 -> Indexed(reg, bw)
      [] mode = 2 -> Indirect(reg, 0, bw)
      [] mode = 3 -> Indirect(reg, IF bw = 1 THEN 1 ELSE 2, bw)

FromSource(reg, mode, bw) ==
    CASE reg = 3 -> Generated3[mode + 1]
      [] reg = 2 /\ mode = 1 -> Label(bw)
      [] reg = 2 /\ mode > 1 -> Generated2[mode - 1]
      [] reg # 3 /\ mode = 0 -> Direct(reg)
      [] reg \notin {2, 3} /\ mode = 1 -> Indexed(reg, bw)
      [] reg \notin {2, 3} /\ mode = 2 -> Indirect(reg, 0, bw)
      [] reg \notin {2, 3} /\ mode = 3 -> Indirect(reg, IF bw = 1 THEN 1 ELSE 2, bw)

FromDestination(reg, mode, bw) == CASE mode = 0 -> Direct(reg)
                                    [] mode = 1 /\ reg = 2 -> Label(bw)
                                    [] mode = 1 /\ reg # 2 -> Indexed(reg, bw)

(* A mistake: only operands whose mode says so take a word, not @PC+.        *)
WordsTakenMut(operand) == IF operand.mode \in {"indexed", "label"} THEN 1 ELSE 0

(* What get_ref() reads from the program: the index, the address, or the     *)
(* word behind the program counter, with or without the "+".                 *)
WordsTaken(operand) ==
    IF operand.mode \in {"indexed", "label"} \/ (operand.mode = "indirect" /\ operand.reg = 0)
      THEN 1 ELSE 0

-----------------------------------------------------------------------------
(* Ten bits of offset, counted in words.                                     *)
UnsignedToSignedOffset(offset) ==
    IF offset < 512 THEN 2 * offset ELSE 2 * (offset - 1024)

Unimplemented(word) == [format |-> "UNIMPL_OP", word |-> word]

Decode(word) ==
    LET format == InstructionFormat(Bits(word, 12, 4))
        bw == Bits(word, 6, 1)
        mode == Bits(word, 4, 2)
    IN  CASE format = "JUMP_OP" ->
               [format |-> format,
                condition |-> JumpInstructionOpcode(Bits(word, 10, 3)),
                signed_offset |-> UnsignedToSignedOffset(Bits(word, 0, 10))]
          [] format = "BINARY_OP" ->
               [format |-> format,
                opcode |-> BinaryInstructionOpcode(Bits(word, 12, 4)),
                source |-> FromSource(Bits(word, 8, 4), mode, bw),
                dest |-> FromDestination(Bits(word, 0, 4), Bits(word, 7, 1), bw),
                bw |-> bw]
          [] format = "UNARY_OP" ->
               [format |-> format,
                opcode |-> UnaryInstructionOpcode(Bits(word, 7, 3)),
                source |-> FromSource(Bits(word, 0, 4), mode, bw),
                bw |-> bw]
          [] format = "UNIMPL_OP" -> Unimplemented(word)

(* The words an instruction takes, its own included.                         *)
WordCount(i) == CASE i.format = "BINARY_OP" -> 1 + WordsTaken(i.source) + WordsTaken(i.dest)
                  [] i.format = "UNARY_OP" -> 1 + WordsTaken(i.source)
                  [] OTHER -> 1
=============================================================================
