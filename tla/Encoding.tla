----------------------------- MODULE Encoding -----------------------------
(* The encoding of instructions as the patterns of make_code.py and the      *)
(* constant memory of core/registerFile.h state it: what decode() and the    *)
(* decompiler are measured against.                                          *)
EXTENDS Decoder

(* The words of make_code.py's patterns: the single-operand ones have six    *)
(* leading bits 000100 and an opcode below seven, RETI has no operand.       *)
UnaryPattern(word) == /\ Bits(word, 10, 6) = 4
                      /\ Bits(word, 7, 3) < 7
                      /\ Bits(word, 7, 3) = 6 => Bits(word, 0, 7) = 0
Pattern(word) == UnaryPattern(word) \/ Bits(word, 13, 3) > 0

(* The position of an opcode in its table.                                   *)
Place(names, name) == CHOOSE i \in DOMAIN names : names[i] = name

RegisterMode(operand) ==
    CASE operand.mode = "direct" -> <<operand.reg, 0>>
      [] operand.mode = "indexed" -> <<operand.reg, 1>>
      [] operand.mode = "indirect" -> <<operand.reg, IF operand.delta = 0 THEN 2 ELSE 3>>
      [] operand.mode = "label" -> <<2, 1>>
      [] operand.mode = "constant" ->
           IF operand.value \in {4, 8} THEN <<2, operand.value \div 4 + 1>>
                                       ELSE <<3, IF operand.value > 2 THEN 3 ELSE operand.value>>

Assemble(i) ==
    CASE i.format = "JUMP_OP" ->
           2^13 + (Place(Jumps, i.condition) - 1) * 2^10 + ((i.signed_offset \div 2) % 2^10)
      [] i.format = "UNARY_OP" ->
           LET source == RegisterMode(i.source)
           IN  2^12 + (Place(Unaries, i.opcode) - 1) * 2^7 + i.bw * 2^6
                 + source[2] * 2^4 + source[1]
      [] i.format = "BINARY_OP" ->
           LET source == RegisterMode(i.source)
               dest == RegisterMode(i.dest)
           IN  (Place(Binaries, i.opcode) + 3) * 2^12 + source[1] * 2^8 + dest[2] * 2^7
                 + i.bw * 2^6 + source[2] * 2^4 + dest[1]

(* The words of the constant memory, by offset (core/registerFile.h 21-28).  *)
ConstantMemory == [offset \in {0, 2, 4, 6, 8, 10} |->
                     CASE offset = 0 -> 0 [] offset = 2 -> 1 [] offset = 4 -> 2
                       [] offset = 6 -> 4 [] offset = 8 -> 8 [] offset = 10 -> 65535]

(* How long an instruction is, from its bits: an index, an address or an     *)
(* immediate, which is @PC+, follow it.                                      *)
Length(word) ==
    LET reg == Bits(word, IF Bits(word, 12, 4) = 1 THEN 0 ELSE 8, 4)
        mode == Bits(word, 4, 2)
        source == IF (mode = 1 /\ reg # 3) \/ (mode = 3 /\ reg = 0) THEN 1 ELSE 0
    IN  IF Bits(word, 12, 4) > 3 THEN 1 + source + Bits(word, 7, 1)
        ELSE IF Bits(word, 12, 4) = 1 THEN 1 + source ELSE 1

(* The one operand the code takes a word for although an MSP430 does not:    *)
(* @PC without the "+".                                                      *)
TakesAtPC(i) == /\ i.format \in {"BINARY_OP", "UNARY_OP"}
                /\ i.source.mode = "indirect" /\ i.source.reg = 0 /\ i.source.delta = 0
=============================================================================
