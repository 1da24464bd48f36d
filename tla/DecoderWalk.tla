---------------------------- MODULE DecoderWalk ----------------------------
(* Every instruction word, one after the other, as make_code.py generates    *)
(* them to feed the decompiler, against the encoding its patterns and the    *)
(* constant memory of core/registerFile.h state.                             *)
EXTENDS Encoding

VARIABLE word

Start == word = 0
Step == word + 1 \in InstructionWord /\ word' = word + 1
Walk == Start /\ [][Step]_word

instruction == Decode(word)

-----------------------------------------------------------------------------
(* The operands of the word at hand.                                         *)
Operands == CASE instruction.format = "BINARY_OP" -> {instruction.source, instruction.dest}
              [] instruction.format = "UNARY_OP" -> {instruction.source}
              [] OTHER -> {}

-----------------------------------------------------------------------------
(* An instruction takes from the program what its bits say, which is what    *)
(* keeps the sweep and the CPU on instruction boundaries, and one word more  *)
(* for @PC, where an MSP430 has none.                                        *)
LengthsMatch ==
    WordCount(instruction) = Length(word) + IF TakesAtPC(instruction) THEN 1 ELSE 0

(* No two words of make_code.py's patterns mean the same: what decode()      *)
(* makes of a word still holds every bit of it.  The constant generators,    *)
(* the labels and the sign of a jump are where bits could be lost.           *)
Reassembles == Pattern(word) => Assemble(instruction) = word

(* A generated constant is printed as the constant memory is set up: the     *)
(* value of the operand (what the listing shows) is the word at its offset   *)
(* (what get_ref() hands to the ALU) until an instruction writes there,      *)
(* which a shift of a constant does: ConstantsStay of Execution.             *)
ConstantsMatch ==
    \A operand \in Operands :
        operand.mode = "constant" => ConstantMemory[operand.constant_reg] = operand.value
=============================================================================
