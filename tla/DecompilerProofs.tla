-------------------------- MODULE DecompilerProofs --------------------------
(***************************************************************************)
(* What decode() makes of every word, and what the sweep makes of every    *)
(* memory: the listing is a partition of it, a jump target has a label,    *)
(* and vectors and handlers have their names.                              *)
(***************************************************************************)
EXTENDS Decompiler, DecoderWalk, SequenceTheorems, FiniteSetTheorems, TLAPS

-----------------------------------------------------------------------------
(* The bits of an instruction word.                                          *)
LEMMA Powers ==
    /\ 2^0 = 1 /\ 2^1 = 2 /\ 2^2 = 4 /\ 2^3 = 8 /\ 2^4 = 16 /\ 2^6 = 64 /\ 2^7 = 128
    /\ 2^8 = 256 /\ 2^10 = 1024 /\ 2^12 = 4096 /\ 2^13 = 8192 /\ 2^16 = 65536
OBVIOUS

LEMMA Words == InstructionWord = 0..65535
BY Powers DEF InstructionWord

LEMMA BitsOfWord ==
    ASSUME NEW w \in InstructionWord
    PROVE  /\ Bits(w, 12, 4) \in 0..15
           /\ Bits(w, 8, 4) \in 0..15 /\ Bits(w, 0, 4) \in 0..15
           /\ Bits(w, 4, 2) \in 0..3
           /\ Bits(w, 6, 1) \in 0..1 /\ Bits(w, 7, 1) \in 0..1
           /\ Bits(w, 7, 3) \in 0..7 /\ Bits(w, 10, 3) \in 0..7 /\ Bits(w, 0, 10) \in 0..1023
<1>0. w \in Int
  BY Words
<1>1. Bits(w, 12, 4) \in 0..15
  BY <1>0, Powers DEF Bits
<1>3. Bits(w, 8, 4) \in 0..15
  BY <1>0, Powers DEF Bits
<1>4. Bits(w, 0, 4) \in 0..15
  BY <1>0, Powers DEF Bits
<1>5. Bits(w, 4, 2) \in 0..3
  BY <1>0, Powers DEF Bits
<1>6. Bits(w, 6, 1) \in 0..1
  BY <1>0, Powers DEF Bits
<1>7. Bits(w, 7, 1) \in 0..1
  BY <1>0, Powers DEF Bits
<1>8. Bits(w, 7, 3) \in 0..7
  BY <1>0, Powers DEF Bits
<1>9. Bits(w, 10, 3) \in 0..7
  BY <1>0, Powers DEF Bits
<1>10. Bits(w, 0, 10) \in 0..1023
  BY <1>0, Powers DEF Bits
<1> QED BY <1>1, <1>3, <1>4, <1>5, <1>6, <1>7, <1>8, <1>9, <1>10

-----------------------------------------------------------------------------
(* What operands take from the program, by their register and mode.          *)
LEMMA DestinationLength ==
    ASSUME NEW reg \in 0..15, NEW mode \in 0..1, NEW bw \in 0..1
    PROVE  WordsTaken(FromDestination(reg, mode, bw)) = mode
BY DEF FromDestination, WordsTaken, Direct, Indexed, Label

LEMMA SourceLength ==
    ASSUME NEW reg \in 0..15, NEW mode \in 0..3, NEW bw \in 0..1
    PROVE  LET o == FromSource(reg, mode, bw)
           IN  WordsTaken(o) = (IF (mode = 1 /\ reg # 3) \/ (mode = 3 /\ reg = 0) THEN 1 ELSE 0)
                  + IF o.mode = "indirect" /\ o.reg = 0 /\ o.delta = 0 THEN 1 ELSE 0
BY DEF FromSource, WordsTaken, Direct, Indexed, Indirect, Label, Constant, Generated2, Generated3

(* An instruction takes what its bits say, and a word more for @PC.          *)
LEMMA LengthsAgree ==
    ASSUME NEW w \in InstructionWord
    PROVE  WordCount(Decode(w)) = Length(w) + IF TakesAtPC(Decode(w)) THEN 1 ELSE 0
<1> DEFINE format == Bits(w, 12, 4)
           reg == Bits(w, IF format = 1 THEN 0 ELSE 8, 4)
           mode == Bits(w, 4, 2)
           bw == Bits(w, 6, 1)
           in == FromSource(reg, mode, bw)
           to == FromDestination(Bits(w, 0, 4), Bits(w, 7, 1), bw)
<1>0. w \in 0..65535
  BY Words
<1>1. /\ format \in 0..15 /\ mode \in 0..3 /\ bw \in 0..1
      /\ Bits(w, 0, 4) \in 0..15 /\ Bits(w, 7, 1) \in 0..1 /\ Bits(w, 8, 4) \in 0..15
  BY BitsOfWord
<1>1a. reg \in 0..15
  BY <1>1
<1>2. WordsTaken(in) = (IF (mode = 1 /\ reg # 3) \/ (mode = 3 /\ reg = 0) THEN 1 ELSE 0)
                  + IF in.mode = "indirect" /\ in.reg = 0 /\ in.delta = 0 THEN 1 ELSE 0
  <2> HIDE DEF reg, mode, bw
  <2> QED BY <1>1, <1>1a, SourceLength
<1>3. WordsTaken(to) = Bits(w, 7, 1)
  BY <1>1, DestinationLength
<1> HIDE DEF in, to
<1>4. CASE format > 3
  <2>1. /\ Decode(w).format = "BINARY_OP" /\ Decode(w).source = in /\ Decode(w).dest = to
    BY <1>1, <1>4 DEF Decode, InstructionFormat, in, to
  <2> QED BY <1>1, <1>2, <1>3, <1>4, <2>1 DEF WordCount, Length, TakesAtPC
<1>5. CASE format = 1
  <2>1. Decode(w).format = "UNARY_OP" /\ Decode(w).source = in
    BY <1>1, <1>5 DEF Decode, InstructionFormat, in
  <2> QED BY <1>1, <1>2, <1>5, <2>1 DEF WordCount, Length, TakesAtPC
<1>6. CASE format \in {0, 2, 3}
  <2>1. Decode(w).format \in {"UNIMPL_OP", "JUMP_OP"}
    BY <1>1, <1>6 DEF Decode, InstructionFormat, Unimplemented
  <2> QED BY <1>1, <1>6, <2>1 DEF WordCount, Length, TakesAtPC
<1> QED BY <1>1, <1>4, <1>5, <1>6

-----------------------------------------------------------------------------
(* Register and mode of an operand, opcodes, conditions and offsets can be   *)
(* read off the instruction again.                                           *)
LEMMA SourcePlaced ==
    ASSUME NEW reg \in 0..15, NEW mode \in 0..3, NEW bw \in 0..1
    PROVE  RegisterMode(FromSource(reg, mode, bw)) = <<reg, mode>>
<1>1. CASE reg = 3
  BY <1>1 DEF RegisterMode, FromSource, Constant, Generated3
<1>2. CASE reg = 2 /\ mode > 1
  BY <1>2 DEF RegisterMode, FromSource, Constant, Generated2
<1>3. CASE reg = 2 /\ mode = 1
  BY <1>3 DEF RegisterMode, FromSource, Label
<1>4. CASE mode = 0 /\ reg # 3
  BY <1>4 DEF RegisterMode, FromSource, Direct
<1>5. CASE reg \notin {2, 3} /\ mode = 1
  BY <1>5 DEF RegisterMode, FromSource, Indexed
<1>6. CASE reg \notin {2, 3} /\ mode = 2
  BY <1>6 DEF RegisterMode, FromSource, Indirect
<1>7. CASE reg \notin {2, 3} /\ mode = 3
  BY <1>7 DEF RegisterMode, FromSource, Indirect
<1> QED BY <1>1, <1>2, <1>3, <1>4, <1>5, <1>6, <1>7

LEMMA DestinationPlaced ==
    ASSUME NEW reg \in 0..15, NEW mode \in 0..1, NEW bw \in 0..1
    PROVE  RegisterMode(FromDestination(reg, mode, bw)) = <<reg, mode>>
BY DEF RegisterMode, FromDestination, Direct, Indexed, Label

LEMMA BinaryPlace == \A v \in 4..15 : Place(Binaries, BinaryInstructionOpcode(v)) = v - 3
BY DEF Place, Binaries, BinaryInstructionOpcode
LEMMA JumpPlace == \A v \in 0..7 : Place(Jumps, JumpInstructionOpcode(v)) = v + 1
BY DEF Place, Jumps, JumpInstructionOpcode
LEMMA UnaryPlace == \A v \in 0..6 : Place(Unaries, UnaryInstructionOpcode(v)) = v + 1
BY DEF Place, Unaries, UnaryInstructionOpcode
LEMMA OffsetPlaced == \A v \in 0..1023 : (UnsignedToSignedOffset(v) \div 2) % 1024 = v
<1> SUFFICES ASSUME NEW v \in 0..1023 PROVE (UnsignedToSignedOffset(v) \div 2) % 1024 = v
  OBVIOUS
<1>1. CASE v < 512
  BY <1>1 DEF UnsignedToSignedOffset
<1>2. CASE v >= 512
  <2>1. UnsignedToSignedOffset(v) \div 2 = v - 1024
    BY <1>2 DEF UnsignedToSignedOffset
  <2> QED BY <2>1
<1> QED BY <1>1, <1>2
LEMMA JumpWord == ASSUME NEW w \in 8192..16383
  PROVE w = 8192 + ((w \div 1024) % 8) * 1024 + (w % 1024)
OBVIOUS
LEMMA UnaryWord == ASSUME NEW w \in 4096..5119
  PROVE w = 4096 + ((w \div 128) % 8) * 128 + ((w \div 64) % 2) * 64 + ((w \div 16) % 4) * 16 + (w % 16)
OBVIOUS

-----------------------------------------------------------------------------
(* The format is what is left of the word's lower twelve bits.               *)
LEMMA FormatBits ==
    ASSUME NEW w \in InstructionWord
    PROVE  Bits(w, 12, 4) = w \div 4096
<1>0. w \in 0..65535
  BY Words
<1>1. w \in Int /\ 0 <= w /\ w <= 65535
  BY <1>0
<1> DEFINE q == w \div 4096
<1>2. q \in 0..15
  BY <1>1
<1>3. Bits(w, 12, 4) = q % 16
  BY <1>1, Powers DEF Bits
<1> HIDE DEF q
<1>4. q % 16 = q
  BY <1>2
<1>5. Bits(w, 12, 4) = q
  BY <1>3, <1>4
<1> QED  BY <1>5 DEF q

(* The words of the patterns are instructions.                               *)
LEMMA PatternFormat ==
    ASSUME NEW w \in InstructionWord, Pattern(w)
    PROVE  /\ Bits(w, 12, 4) # 0
           /\ Decode(w).format \in {"BINARY_OP", "UNARY_OP", "JUMP_OP"}
<1>0. w \in 0..65535
  BY Words
<1>1. Bits(w, 12, 4) \in 0..15 /\ Bits(w, 12, 4) = w \div 4096
  BY BitsOfWord, FormatBits
<1>2. ASSUME UnaryPattern(w) PROVE Bits(w, 12, 4) # 0
  <2>1. (w \div 1024) % 64 = 4
    BY <1>0, <1>2, Powers DEF UnaryPattern, Bits
  <2> QED  BY <1>0, <1>1, <2>1
<1>3. ASSUME Bits(w, 13, 3) > 0 PROVE Bits(w, 12, 4) # 0
  <2>1. (w \div 8192) % 8 > 0
    BY <1>0, <1>3, Powers DEF Bits
  <2> QED  BY <1>0, <1>1, <2>1
<1>4. Bits(w, 12, 4) # 0
  BY <1>2, <1>3 DEF Pattern
<1> QED  BY <1>1, <1>4 DEF Decode, InstructionFormat

(* Taking an instruction apart loses no bit of a pattern of make_code.py.    *)
LEMMA Reassembled ==
    ASSUME NEW w \in InstructionWord, Pattern(w)
    PROVE  Assemble(Decode(w)) = w
<1> DEFINE format == Bits(w, 12, 4)
           mode == Bits(w, 4, 2)
           bw == Bits(w, 6, 1)
           low == Bits(w, 0, 4)
<1>0. w \in 0..65535
  BY Words
<1>1. format \in 0..15 /\ mode \in 0..3 /\ bw \in 0..1 /\ low \in 0..15
  BY BitsOfWord
<1>2. /\ format = w \div 4096 /\ mode = (w \div 16) % 4
      /\ bw = (w \div 64) % 2 /\ low = w % 16
  <2>1. format = w \div 4096
    BY FormatBits
  <2>2. mode = (w \div 16) % 4
    BY <1>0, Powers DEF Bits
  <2>3. bw = (w \div 64) % 2
    BY <1>0, Powers DEF Bits
  <2>4. low = w % 16
    BY <1>0, Powers DEF Bits
  <2> QED  BY <2>1, <2>2, <2>3, <2>4
<1> HIDE DEF format, mode, bw, low
<1>3. CASE format > 3
  <2> DEFINE high == Bits(w, 8, 4)
             ad == Bits(w, 7, 1)
  <2>1. high \in 0..15 /\ ad \in 0..1
    BY BitsOfWord
  <2>2. high = (w \div 256) % 16
    BY <1>0, Powers DEF Bits
  <2>3. ad = (w \div 128) % 2
    BY <1>0, Powers DEF Bits
  <2> HIDE DEF high, ad
  <2>4. Decode(w) = [format |-> "BINARY_OP", opcode |-> BinaryInstructionOpcode(format),
                     source |-> FromSource(high, mode, bw),
                     dest |-> FromDestination(low, ad, bw), bw |-> bw]
    BY <1>1, <1>3 DEF Decode, InstructionFormat, format, mode, bw, low, high, ad
  <2>5. /\ RegisterMode(FromSource(high, mode, bw)) = <<high, mode>>
        /\ RegisterMode(FromDestination(low, ad, bw)) = <<low, ad>>
    BY <1>1, <2>1, SourcePlaced, DestinationPlaced
  <2>6. Place(Binaries, BinaryInstructionOpcode(format)) = format - 3
    BY <1>1, <1>3, BinaryPlace
  <2>7. Assemble(Decode(w)) = format * 4096 + high * 256 + ad * 128 + bw * 64 + mode * 16 + low
    BY <1>1, <1>3, <2>1, <2>4, <2>5, <2>6, Powers DEF Assemble
  <2>8. w = format * 4096 + high * 256 + (w % 256)
    BY <1>0, <1>2, <2>2
  <2>9. w % 256 = ad * 128 + (w % 128)
    BY <1>0, <2>3
  <2>10. w % 128 = bw * 64 + (w % 64)
    BY <1>0, <1>2
  <2>11. w % 64 = mode * 16 + low
    BY <1>0, <1>2
  <2> HIDE DEF high, ad
  <2> QED  BY <1>0, <1>1, <2>1, <2>7, <2>8, <2>9, <2>10, <2>11
<1>4. CASE format \in {2, 3}
  <2> DEFINE condition == Bits(w, 10, 3)
             offset == Bits(w, 0, 10)
  <2>1. condition \in 0..7 /\ offset \in 0..1023
    BY BitsOfWord
  <2>2. condition = (w \div 1024) % 8
    BY <1>0, Powers DEF Bits
  <2>3. offset = w % 1024
    BY <1>0, Powers DEF Bits
  <2> HIDE DEF condition, offset
  <2>4. Decode(w) = [format |-> "JUMP_OP", condition |-> JumpInstructionOpcode(condition),
                     signed_offset |-> UnsignedToSignedOffset(offset)]
    BY <1>1, <1>4 DEF Decode, InstructionFormat, format, condition, offset
  <2>5. Place(Jumps, JumpInstructionOpcode(condition)) = condition + 1
    BY <2>1, JumpPlace
  <2>6. (UnsignedToSignedOffset(offset) \div 2) % 1024 = offset
    BY <2>1, OffsetPlaced
  <2>7. Assemble(Decode(w)) = 8192 + condition * 1024 + offset
    BY <2>1, <2>4, <2>5, <2>6, Powers DEF Assemble
  <2>8. w \in 8192..16383
    BY <1>0, <1>2, <1>4
  <2> QED  BY <2>2, <2>3, <2>7, <2>8, JumpWord
<1>5. CASE format = 1
  <2> DEFINE opcode == Bits(w, 7, 3)
  <2>1. UnaryPattern(w)
    <3>1. Bits(w, 13, 3) = 0
      <4>1. w \in 0..8191
        BY <1>0, <1>2, <1>5
      <4>2. w \div 8192 = 0
        BY <4>1
      <4>3. Bits(w, 13, 3) = (w \div 8192) % 8
        BY <1>0, Powers DEF Bits
      <4> QED  BY <4>2, <4>3
    <3> QED  BY <3>1 DEF Pattern
  <2>2. opcode \in 0..6
    BY <2>1, BitsOfWord DEF UnaryPattern
  <2>3. opcode = (w \div 128) % 8
    BY <1>0, Powers DEF Bits
  <2>4. w \in 4096..5119
    <3>1. (w \div 1024) % 64 = 4
      BY <2>1, <1>0, Powers DEF UnaryPattern, Bits
    <3>2. w \in 4096..8191
      BY <1>0, <1>2, <1>5
    <3> QED  BY <3>1, <3>2
  <2> HIDE DEF opcode
  <2>5. Decode(w) = [format |-> "UNARY_OP", opcode |-> UnaryInstructionOpcode(opcode),
                     source |-> FromSource(low, mode, bw), bw |-> bw]
    BY <1>1, <1>5 DEF Decode, InstructionFormat, format, mode, bw, low, opcode
  <2>6. RegisterMode(FromSource(low, mode, bw)) = <<low, mode>>
    BY <1>1, SourcePlaced
  <2>7. Place(Unaries, UnaryInstructionOpcode(opcode)) = opcode + 1
    BY <2>2, UnaryPlace
  <2>8. Assemble(Decode(w)) = 4096 + opcode * 128 + bw * 64 + mode * 16 + low
    BY <1>1, <2>2, <2>5, <2>6, <2>7, Powers DEF Assemble
  <2> QED  BY <1>2, <2>3, <2>4, <2>8, UnaryWord
<1>6. format # 0
  BY PatternFormat DEF format
<1> QED  BY <1>1, <1>3, <1>4, <1>5, <1>6

(* The walk passes instruction words only.                                   *)
LEMMA WalkType == Walk => [](word \in InstructionWord)
<1>1. Start => word \in InstructionWord
  BY Words DEF Start
<1>2. word \in InstructionWord /\ [Step]_word => (word \in InstructionWord)'
  BY DEF Step
<1> QED  BY <1>1, <1>2, PTL DEF Walk

(* An instruction takes from the program what its bits say, and one word     *)
(* more for @PC.                                                             *)
THEOREM LengthsMatchHolds == Walk => []LengthsMatch
<1>1. word \in InstructionWord => LengthsMatch
  BY LengthsAgree DEF LengthsMatch, instruction
<1> QED  BY <1>1, WalkType, PTL

(* Nothing of a word that is an instruction of make_code.py is lost.         *)
THEOREM ReassemblesHolds == Walk => []Reassembles
<1>1. word \in InstructionWord => Reassembles
  BY Reassembled DEF Reassembles, instruction
<1> QED  BY <1>1, WalkType, PTL

(* An operand is what the bits of a source or of a destination say.          *)
LEMMA OperandOfWord ==
    ASSUME word \in InstructionWord, NEW o \in Operands
    PROVE  \E reg \in 0..15, mode \in 0..3, bw \in 0..1 :
              \/ o = FromSource(reg, mode, bw)
              \/ mode < 2 /\ o = FromDestination(reg, mode, bw)
<1>1. /\ Bits(word, 12, 4) \in 0..15 /\ Bits(word, 8, 4) \in 0..15 /\ Bits(word, 0, 4) \in 0..15
      /\ Bits(word, 4, 2) \in 0..3 /\ Bits(word, 6, 1) \in 0..1 /\ Bits(word, 7, 1) \in 0..1
  BY BitsOfWord
<1>2. \/ Decode(word).format = "BINARY_OP" /\ o \in {Decode(word).source, Decode(word).dest}
      \/ Decode(word).format = "UNARY_OP" /\ o = Decode(word).source
  BY DEF Operands, instruction
<1>3. CASE Bits(word, 12, 4) > 3
  <2>1. /\ Decode(word).format = "BINARY_OP"
        /\ Decode(word).source = FromSource(Bits(word, 8, 4), Bits(word, 4, 2), Bits(word, 6, 1))
        /\ Decode(word).dest = FromDestination(Bits(word, 0, 4), Bits(word, 7, 1), Bits(word, 6, 1))
    BY <1>1, <1>3 DEF Decode, InstructionFormat
  <2> QED  BY <1>1, <1>2, <2>1
<1>4. CASE Bits(word, 12, 4) = 1
  <2>1. /\ Decode(word).format = "UNARY_OP"
        /\ Decode(word).source = FromSource(Bits(word, 0, 4), Bits(word, 4, 2), Bits(word, 6, 1))
    BY <1>1, <1>4 DEF Decode, InstructionFormat
  <2> QED  BY <1>1, <1>2, <2>1
<1>5. CASE Bits(word, 12, 4) \in {0, 2, 3}
  BY <1>2, <1>5 DEF Decode, InstructionFormat, Unimplemented
<1> QED  BY <1>1, <1>3, <1>4, <1>5

(* A generated constant is printed as the word that the constant memory is   *)
(* set up with at its offset.                                                *)
THEOREM ConstantsMatchHolds == Walk => []ConstantsMatch
<1>1. ASSUME word \in InstructionWord PROVE ConstantsMatch
  <2> SUFFICES ASSUME NEW o \in Operands, o.mode = "constant"
               PROVE  ConstantMemory[o.constant_reg] = o.value
    BY DEF ConstantsMatch
  <2> QED  BY <1>1, OperandOfWord
           DEF FromSource, FromDestination, Direct, Indexed, Indirect, Label, Constant,
               Generated2, Generated3, ConstantMemory
<1> QED  BY <1>1, WalkType, PTL

-----------------------------------------------------------------------------
USE DecompilerAssumption

(* An item without a label is told from one with a label.                    *)
LEMMA NamesDiffer == NoLabel \notin LabelName
<1>1. \A v \in Vector : NoLabel # VectorLabel(v)
  BY DEF NoLabel, Vector, VectorLabel
<1>2. \A v \in Vector : NoLabel # HandlerLabel(v)
  BY DEF NoLabel, Vector, HandlerLabel
<1> QED  BY <1>1, <1>2 DEF LabelName, NoLabel

-----------------------------------------------------------------------------
(* A handler that is at an address has given it its name.                    *)
Handlers(v) == {w \in Vector : memory[VectorOf[w]] = memory[VectorOf[v]]}
HandlersIn(map) ==
    \A v \in Vector : /\ memory[VectorOf[v]] \in DOMAIN map
                      /\ map[memory[VectorOf[v]]] \in {HandlerLabel(w) : w \in Handlers(v)}

(* The targets of the jumps of the listing are in the map.                   *)
TargetsIn(list, map) ==
    \A m \in DOMAIN list :
        list[m].instruction.format = "JUMP_OP"
            => JumpTarget(list[m].pc, list[m].instruction.signed_offset) \in DOMAIN map

LabelInv ==
    /\ TargetsIn(instructions, labels)
    /\ phase = "done" =>
        /\ HandlersIn(labels)
        /\ \A n \in DOMAIN instructions :
                instructions[n].label = LabelFor(instructions[n].pc, labels)

(* What postprocess_jump_labels() makes of the map.                          *)
LEMMA HandlerLabelsFacts ==
    ASSUME NEW map, \A a \in DOMAIN map : map[a] \in LabelName
    PROVE  /\ DOMAIN map \subseteq DOMAIN HandlerLabels(map)
           /\ \A a \in DOMAIN HandlerLabels(map) : HandlerLabels(map)[a] \in LabelName
           /\ HandlersIn(HandlerLabels(map))
<1> DEFINE at(v) == memory[VectorOf[v]]
           m1 == Entered(map, at("RESET"), HandlerLabel("RESET"))
           m2 == Entered(m1, at("PORT1"), HandlerLabel("PORT1"))
           m3 == Entered(m2, at("PORT2"), HandlerLabel("PORT2"))
<1>1. HandlerLabels(map) = m3
  BY DEF HandlerLabels
<1>2. \A v \in Vector : HandlerLabel(v) \in LabelName
  BY DEF LabelName
<1>3. /\ DOMAIN m1 = (DOMAIN map) \cup {at("RESET")}
      /\ m1[at("RESET")] = HandlerLabel("RESET")
      /\ \A b \in DOMAIN map : b # at("RESET") => m1[b] = map[b]
  <2> HIDE DEF at
  <2> QED  BY DEF Entered
<1>4. /\ DOMAIN m2 = (DOMAIN m1) \cup {at("PORT1")}
      /\ m2[at("PORT1")] = HandlerLabel("PORT1")
      /\ \A b \in DOMAIN m1 : b # at("PORT1") => m2[b] = m1[b]
  <2> HIDE DEF m1, at
  <2> QED  BY DEF Entered
<1>5. /\ DOMAIN m3 = (DOMAIN m2) \cup {at("PORT2")}
      /\ m3[at("PORT2")] = HandlerLabel("PORT2")
      /\ \A b \in DOMAIN m2 : b # at("PORT2") => m3[b] = m2[b]
  <2> HIDE DEF m2, at
  <2> QED  BY DEF Entered
<1> HIDE DEF m1, m2, m3, at
<1>6. DOMAIN map \subseteq DOMAIN m3
  BY <1>3, <1>4, <1>5
<1>7. \A a \in DOMAIN m3 : m3[a] \in LabelName
  BY <1>2, <1>3, <1>4, <1>5 DEF Vector
<1>8. HandlersIn(m3)
  <2> SUFFICES ASSUME NEW v \in Vector
               PROVE  /\ at(v) \in DOMAIN m3
                      /\ \E w \in Vector : at(w) = at(v) /\ m3[at(v)] = HandlerLabel(w)
    BY DEF HandlersIn, Handlers, at
  <2>1. at(v) \in DOMAIN m3
    BY <1>3, <1>4, <1>5 DEF Vector
  <2>2. CASE at(v) = at("PORT2")
    BY <2>1, <2>2, <1>5 DEF Vector
  <2>3. CASE at(v) # at("PORT2") /\ at(v) = at("PORT1")
    BY <2>1, <2>3, <1>4, <1>5 DEF Vector
  <2>4. CASE at(v) # at("PORT2") /\ at(v) # at("PORT1")
    BY <2>1, <2>4, <1>3, <1>4, <1>5 DEF Vector
  <2> QED  BY <2>2, <2>3, <2>4
<1> QED  BY <1>1, <1>6, <1>7, <1>8

LEMMA LabelForType ==
    ASSUME NEW a, NEW map, \A b \in DOMAIN map : map[b] \in LabelName
    PROVE  /\ LabelFor(a, map) \in LabelName \cup {NoLabel}
           /\ a \in DOMAIN map => LabelFor(a, map) \in LabelName
<1>1. CASE \E v \in Vector : VectorOf[v] = a
  <2>1. PICK w \in Vector : w = CHOOSE v \in Vector : VectorOf[v] = a
    BY <1>1
  <2> QED  BY <1>1, <2>1 DEF LabelFor, LabelName
<1>2. CASE ~ \E v \in Vector : VectorOf[v] = a
  BY <1>2 DEF LabelFor
<1> QED  BY <1>1, <1>2

-----------------------------------------------------------------------------
LEMMA Division ==
    ASSUME NEW m \in Nat \ {0}, NEW q \in Int, NEW x \in 0..(m - 1)
    PROVE  (m * q + x) % m = x
OBVIOUS

(* An instruction of up to three words may go around a small memory more     *)
(* than once.                                                                *)
LEMMA AdvanceType ==
    ASSUME NEW a \in Address, NEW k \in 1..3
    PROVE  Advance(a, k) \in Address
<1>1. Size \in Nat \ {0} /\ Size = 2 * CellCount
  BY DEF Size
<1>2. PICK i \in 0..(CellCount - 1) : a = 2 * i
  BY DEF Address
<1>3. \E q \in 0..3 : \E j \in 0..(CellCount - 1) : i + k = CellCount * q + j
  <2>0. i \in Int /\ k \in Int /\ CellCount \in Int /\ 0 < i + k /\ i + k < 4 * CellCount
    BY <1>2
  <2>1. CASE i + k < CellCount
    BY <2>0, <2>1
  <2>2. CASE CellCount <= i + k /\ i + k < 2 * CellCount
    <3>1. i + k - CellCount \in 0..(CellCount - 1) /\ i + k = CellCount * 1 + (i + k - CellCount)
      BY <2>0, <2>2
    <3> QED  BY <3>1
  <2>3. CASE 2 * CellCount <= i + k /\ i + k < 3 * CellCount
    <3>1. i + k - 2 * CellCount \in 0..(CellCount - 1) /\ i + k = CellCount * 2 + (i + k - 2 * CellCount)
      BY <2>0, <2>3
    <3> QED  BY <3>1
  <2>4. CASE 3 * CellCount <= i + k
    <3>1. i + k - 3 * CellCount \in 0..(CellCount - 1) /\ i + k = CellCount * 3 + (i + k - 3 * CellCount)
      BY <2>0, <2>4
    <3> QED  BY <3>1
  <2> QED  BY <2>0, <2>1, <2>2, <2>3, <2>4
<1>4. PICK q \in 0..3, j \in 0..(CellCount - 1) : i + k = CellCount * q + j
  BY <1>3
<1>5. a + 2 * k = Size * q + 2 * j /\ 2 * j \in 0..(Size - 1)
  BY <1>1, <1>2, <1>4
<1>6. (a + 2 * k) % Size = 2 * j
  BY <1>1, <1>5, Division
<1> QED  BY <1>4, <1>6 DEF Advance, Address

LEMMA WordCountType == ASSUME NEW i PROVE WordCount(i) \in 1..3
<1>1. \A o : WordsTaken(o) \in 0..1
  BY DEF WordsTaken
<1> QED  BY <1>1 DEF WordCount

(* Every step keeps the types.                                               *)
LEMMA TypeStep ==
    ASSUME TypeOK, [Next]_vars
    PROVE  TypeOK'
<1> DEFINE Listed == [pc : Address, instruction : {Decode(w) : w \in MemoryWord},
                      label : LabelName \cup {NoLabel}]
<1>1. ASSUME Sweep PROVE TypeOK'
  <2> DEFINE i == Decode(memory[pc])
  <2>1. pc' \in Address
    BY <1>1, AdvanceType, WordCountType DEF Sweep, TypeOK
  <2>2. Item(pc, i) \in Listed
    BY DEF Item, TypeOK
  <2>3. instructions' \in Seq(Listed)
    <3>1. instructions' = instructions \/ instructions' = Append(instructions, Item(pc, i))
      BY <1>1 DEF Sweep
    <3> HIDE DEF Listed, i
    <3>2. instructions \in Seq(Listed)
      BY DEF TypeOK, Listed
    <3> QED  BY <3>1, <3>2, <2>2
  <2>4. \A a \in DOMAIN labels' : labels'[a] \in LabelName
    <3>1. CASE labels' = labels
      BY <3>1 DEF TypeOK
    <3>2. CASE \E a : labels' = Entered(labels, a, "LABEL")
      <4>1. PICK a : labels' = Entered(labels, a, "LABEL")
        BY <3>2
      <4>2. "LABEL" \in LabelName
        BY DEF LabelName
      <4>3. \A b \in DOMAIN labels : labels[b] \in LabelName
        BY DEF TypeOK
      <4> QED  BY <4>1, <4>2, <4>3 DEF Entered
    <3> QED  BY <1>1, <3>1, <3>2 DEF Sweep
  <2> QED  BY <1>1, <2>1, <2>3, <2>4 DEF Sweep, TypeOK
<1>2. ASSUME Postprocess PROVE TypeOK'
  <2>1. \A a \in DOMAIN labels' : labels'[a] \in LabelName
    BY <1>2, HandlerLabelsFacts DEF Postprocess, TypeOK
  <2>2. instructions' \in Seq(Listed)
    <3>0. instructions \in Seq(Listed)
      BY DEF TypeOK
    <3>1. PICK k \in Nat : instructions \in [1..k -> Listed]
      <4> HIDE DEF Listed
      <4> QED  BY <3>0, SeqDef
    <3>2. \A n \in 1..k : LabelFor(instructions[n].pc, labels') \in LabelName \cup {NoLabel}
      BY <2>1, LabelForType
    <3>3. instructions' \in [1..k -> Listed]
      BY <1>2, <3>1, <3>2 DEF Postprocess
    <3> HIDE DEF Listed
    <3> QED  BY <3>3, SeqDef
  <2> QED  BY <1>2, <2>1, <2>2 DEF Postprocess, TypeOK
<1>3. ASSUME UNCHANGED vars PROVE TypeOK'
  BY <1>3 DEF vars, TypeOK
<1> QED  BY <1>1, <1>2, <1>3 DEF Next

(* Postprocessing gives the items of the listing their labels, and changes   *)
(* nothing else of them.                                                     *)
LEMMA SameItems ==
    ASSUME TypeOK, Postprocess
    PROVE  /\ DOMAIN instructions' = DOMAIN instructions
           /\ memory' = memory
           /\ \A n \in DOMAIN instructions :
                /\ instructions'[n].pc = instructions[n].pc
                /\ instructions'[n].instruction = instructions[n].instruction
                /\ instructions'[n].label = LabelFor(instructions[n].pc, labels')
<1>0. PICK k \in Nat : DOMAIN instructions = 1..k /\ Len(instructions) = k
  BY LenProperties DEF TypeOK
<1>1. \A n \in DOMAIN instructions :
          instructions[n] \in [pc : Address, instruction : {Decode(w) : w \in MemoryWord},
                               label : LabelName \cup {NoLabel}]
  BY <1>0, ElementOfSeq DEF TypeOK
<1> QED  BY <1>1 DEF Postprocess

LEMMA LabelStep ==
    ASSUME TypeOK, LabelInv, [Next]_vars
    PROVE  LabelInv'
<1>0. PICK k \in Nat : DOMAIN instructions = 1..k /\ Len(instructions) = k
  BY LenProperties DEF TypeOK
<1>1. ASSUME Sweep PROVE LabelInv'
  <2> DEFINE i == Decode(memory[pc])
             target == JumpTarget(pc, i.signed_offset)
  <2>1. phase' # "done"
    BY <1>1 DEF Sweep
  <2>0. labels' = IF i.format = "JUMP_OP" THEN Entered(labels, target, "LABEL") ELSE labels
    BY <1>1 DEF Sweep
  <2>2. /\ DOMAIN labels \subseteq DOMAIN labels'
        /\ i.format = "JUMP_OP" => target \in DOMAIN labels'
    <3> HIDE DEF i, target
    <3> QED  BY <2>0 DEF Entered
  <2>3. i.format = "JUMP_OP" => target \in DOMAIN labels'
    BY <2>2
  <2>4. CASE instructions' = instructions
    BY <2>1, <2>2, <2>4 DEF LabelInv, TargetsIn
  <2>5. CASE instructions' = Append(instructions, Item(pc, i))
    <3>1. DOMAIN instructions' = 1..(k + 1)
      BY <1>0, <2>5
    <3>2. \A m \in 1..k : instructions'[m] = instructions[m]
      BY <1>0, <2>5
    <3>3. instructions'[k + 1] = Item(pc, i)
      BY <1>0, <2>5
    <3>4. Item(pc, i).pc = pc /\ Item(pc, i).instruction = i
      BY DEF Item
    <3>5. TargetsIn(instructions', labels')
      <4> HIDE DEF i
      <4> SUFFICES ASSUME NEW m \in 1..(k + 1),
                          instructions'[m].instruction.format = "JUMP_OP"
                   PROVE  JumpTarget(instructions'[m].pc,
                                     instructions'[m].instruction.signed_offset) \in DOMAIN labels'
        BY <3>1 DEF TargetsIn
      <4>1. CASE m = k + 1
        BY <4>1, <2>3, <3>3, <3>4
      <4>2. CASE m \in 1..k
        BY <4>2, <1>0, <2>2, <3>2 DEF LabelInv, TargetsIn
      <4> QED  BY <4>1, <4>2
    <3> QED  BY <2>1, <3>5 DEF LabelInv
  <2> QED  BY <1>1, <2>4, <2>5 DEF Sweep
<1>2. ASSUME Postprocess PROVE LabelInv'
  <2>1. /\ DOMAIN labels \subseteq DOMAIN labels'
        /\ HandlersIn(labels') /\ memory' = memory
    BY <1>2, HandlerLabelsFacts DEF Postprocess, TypeOK
  <2>2. /\ DOMAIN instructions' = DOMAIN instructions
        /\ \A n \in DOMAIN instructions :
                /\ instructions'[n].pc = instructions[n].pc
                /\ instructions'[n].instruction = instructions[n].instruction
                /\ instructions'[n].label = LabelFor(instructions[n].pc, labels')
    BY <1>2, SameItems
  <2>3. TargetsIn(instructions', labels')
    BY <2>1, <2>2 DEF LabelInv, TargetsIn
  <2>4. HandlersIn(labels)'
    BY <2>1 DEF HandlersIn, Handlers
  <2> QED  BY <2>2, <2>3, <2>4 DEF LabelInv
<1>3. ASSUME UNCHANGED vars PROVE LabelInv'
  BY <1>3 DEF vars, LabelInv, TargetsIn, HandlersIn, Handlers
<1> QED  BY <1>1, <1>2, <1>3 DEF Next

-----------------------------------------------------------------------------
(* The listing as far as the sweep has come: up to Reached, it is a          *)
(* partition of the memory.                                                  *)
Reached == IF phase = "sweep" THEN pc ELSE Size

ItemInv ==
    \A n \in DOMAIN instructions :
        /\ instructions[n].instruction = Decode(memory[instructions[n].pc])
        /\ instructions[n].instruction.format # "UNIMPL_OP"

Accounted(address) ==
    \/ \E n \in DOMAIN instructions : Covers(n, address)
    \/ Bits(memory[address], 12, 4) = 0
    \/ Swallowed(address)

TileInv ==
    ~Straddles =>
        /\ 2 * Len(instructions) <= Reached
        /\ \A n \in DOMAIN instructions : Taken(n) <= Reached
        /\ \A m, n \in DOMAIN instructions : m < n => Taken(m) <= instructions[n].pc
        /\ \A a \in Address : a < Reached => Accounted(a)

LEMMA LengthType == ASSUME NEW w \in InstructionWord PROVE Length(w) \in 1..3
<1>1. Bits(w, 7, 1) \in 0..1
  BY BitsOfWord
<1> QED  BY <1>1 DEF Length

(* What the bits of an instruction say it takes, and what the sweep takes    *)
(* for it.                                                                   *)
LEMMA Extent ==
    ASSUME NEW a \in Address, memory[a] \in InstructionWord
    PROVE  LET i == Decode(memory[a])
               taken == a + 2 * WordCount(i)
           IN  /\ a \in Int /\ End(a) \in Int /\ taken \in Int
               /\ a < End(a) /\ End(a) <= taken
               /\ End(a) # taken => TakesAtPC(i) /\ End(a) = taken - 2
<1> DEFINE i == Decode(memory[a])
<1>1. a \in Int
  BY DEF Address
<1>2. WordCount(i) = Length(memory[a]) + IF TakesAtPC(i) THEN 1 ELSE 0
  BY LengthsAgree
<1>3. Length(memory[a]) \in 1..3
  BY LengthType
<1> HIDE DEF i
<1>4. End(a) = a + 2 * Length(memory[a])
  BY DEF End
<1>5. CASE TakesAtPC(i)
  BY <1>1, <1>2, <1>3, <1>4, <1>5 DEF i
<1>6. CASE ~TakesAtPC(i)
  BY <1>1, <1>2, <1>3, <1>4, <1>6 DEF i
<1> QED  BY <1>5, <1>6

LEMMA ListedItem ==
    ASSUME TypeOK, ItemInv, NEW n \in DOMAIN instructions
    PROVE  /\ instructions[n].pc \in Address /\ memory[instructions[n].pc] \in InstructionWord
           /\ instructions[n].pc \in Int /\ End(instructions[n].pc) \in Int /\ Taken(n) \in Int
           /\ End(instructions[n].pc) <= Taken(n)
<1>0. PICK k \in Nat : DOMAIN instructions = 1..k /\ Len(instructions) = k
  BY LenProperties DEF TypeOK
<1>1. instructions[n].pc \in Address
  <2>1. instructions[n] \in [pc : Address, instruction : {Decode(w) : w \in MemoryWord},
                             label : LabelName \cup {NoLabel}]
    BY <1>0, ElementOfSeq DEF TypeOK
  <2> QED  BY <2>1
<1>2. memory[instructions[n].pc] \in InstructionWord
  BY <1>1 DEF TypeOK
<1> QED  BY <1>1, <1>2, Extent DEF ItemInv, Taken

(* One round, unless the instruction reaches over the end of the memory: the *)
(* program counter moves past it, or the loop ends.                          *)
LEMMA RoundReaches ==
    ASSUME TypeOK, Sweep, pc + 2 * WordCount(Decode(memory[pc])) <= Size
    PROVE  /\ Reached = pc
           /\ Reached' = pc + 2 * WordCount(Decode(memory[pc]))
           /\ pc' > pc \/ phase' = "postprocess"
<1> DEFINE k == WordCount(Decode(memory[pc]))
           next == pc + 2 * k
<1>1. k \in 1..3
  BY WordCountType
<1>2. pc' = next % Size /\ phase = "sweep"
      /\ phase' = IF pc' = 0 THEN "postprocess" ELSE phase
  BY DEF Sweep, Advance, AtEnd
<1> HIDE DEF k
<1>3. Size \in Nat \ {0} /\ pc \in Nat /\ next \in Nat /\ next > pc
  BY <1>1 DEF TypeOK, Address, Size
<1> HIDE DEF next
<1>4. CASE next < Size
  <2>1. next % Size = next
    BY <1>3, <1>4
  <2> QED  BY <1>2, <1>3, <2>1 DEF Reached, next, k
<1>5. CASE next = Size
  <2>1. next % Size = 0
    BY <1>3, <1>5
  <2> QED  BY <1>2, <1>3, <1>5, <2>1 DEF Reached, next, k
<1> QED  BY <1>3, <1>4, <1>5 DEF next, k

(* The sweep lists every instruction that it meets, so that one that reaches *)
(* over the end of the memory is in the listing.                             *)
LEMMA RoundFits ==
    ASSUME TypeOK, ItemInv, TileInv, Sweep, ~Straddles'
    PROVE  /\ ~Straddles
           /\ pc + 2 * WordCount(Decode(memory[pc])) <= Size
           /\ \A n \in DOMAIN instructions : n \in DOMAIN instructions' /\ instructions'[n] = instructions[n]
           /\ Decode(memory[pc]).format # "UNIMPL_OP"
                => instructions' = Append(instructions, Item(pc, Decode(memory[pc])))
<1>0. PICK k \in Nat : DOMAIN instructions = 1..k /\ Len(instructions) = k
  BY LenProperties DEF TypeOK
<1> DEFINE i == Decode(memory[pc])
           item == Item(pc, i)
<1>1. item.pc = pc /\ item.instruction = i
  BY DEF Item
<1>2. pc \in Int /\ pc <= Size - 2 /\ Size \in Int
  BY DEF TypeOK, Address, Size
<1>3. /\ i.format = "UNIMPL_OP" => instructions' = instructions
      /\ instructions' = instructions \/ instructions' = Append(instructions, item)
      /\ i.format # "UNIMPL_OP" /\ k # MaxListing => instructions' = Append(instructions, item)
  BY <1>0 DEF Sweep
<1> HIDE DEF i, item
<1>4. /\ 1..k \subseteq DOMAIN instructions'
      /\ \A m \in 1..k : instructions'[m] = instructions[m]
  BY <1>0, <1>3
<1>5. ~Straddles
  BY <1>0, <1>4 DEF Straddles, Taken
<1>6. k # MaxListing
  <2>1. 2 * k <= pc
    BY <1>0, <1>5 DEF TileInv, Reached, Sweep
  <2> QED  BY <1>2, <2>1 DEF Size
<1>7. pc + 2 * WordCount(i) <= Size
  <2>1. CASE i.format = "UNIMPL_OP"
    BY <1>2, <2>1 DEF WordCount
  <2>2. CASE i.format # "UNIMPL_OP"
    <3>1. k + 1 \in DOMAIN instructions' /\ instructions'[k + 1] = item
      BY <1>0, <1>3, <1>6, <2>2
    <3>2. WordCount(i) \in 1..3
      BY WordCountType
    <3> QED  BY <1>1, <1>2, <3>1, <3>2 DEF Straddles, Taken
  <2> QED  BY <2>1, <2>2
<1> QED  BY <1>0, <1>3, <1>4, <1>5, <1>6, <1>7 DEF i, item

LEMMA ItemStep ==
    ASSUME TypeOK, ItemInv, [Next]_vars
    PROVE  ItemInv'
<1>0. PICK k \in Nat : DOMAIN instructions = 1..k /\ Len(instructions) = k
  BY LenProperties DEF TypeOK
<1>1. ASSUME Sweep PROVE ItemInv'
  <2> DEFINE i == Decode(memory[pc])
  <2>0. memory' = memory
    BY <1>1 DEF Sweep
  <2>1. CASE instructions' = instructions
    BY <2>0, <2>1 DEF ItemInv
  <2>2. CASE instructions' = Append(instructions, Item(pc, i)) /\ i.format # "UNIMPL_OP"
    <3> HIDE DEF i
    <3>1. DOMAIN instructions' = 1..(k + 1)
      BY <1>0, <2>2
    <3>2. \A m \in 1..k : instructions'[m] = instructions[m]
      BY <1>0, <2>2
    <3>3. instructions'[k + 1] = Item(pc, i)
      BY <1>0, <2>2
    <3>4. Item(pc, i).pc = pc /\ Item(pc, i).instruction = i
      BY DEF Item
    <3>5. SUFFICES ASSUME NEW n \in 1..(k + 1)
                   PROVE  /\ instructions'[n].instruction = Decode(memory[instructions'[n].pc])
                          /\ instructions'[n].instruction.format # "UNIMPL_OP"
      BY <2>0, <3>1 DEF ItemInv
    <3>6. CASE n = k + 1
      BY <3>6, <2>2, <3>3, <3>4 DEF i
    <3>7. CASE n \in 1..k
      BY <3>7, <1>0, <3>2 DEF ItemInv
    <3> QED  BY <3>6, <3>7
  <2> QED  BY <1>1, <2>1, <2>2 DEF Sweep
<1>2. ASSUME Postprocess PROVE ItemInv'
  BY <1>2, SameItems DEF ItemInv
<1>3. ASSUME UNCHANGED vars PROVE ItemInv'
  BY <1>3 DEF vars, ItemInv
<1> QED  BY <1>1, <1>2, <1>3 DEF Next

LEMMA TileStep ==
    ASSUME TypeOK, ItemInv, TileInv, [Next]_vars
    PROVE  TileInv'
<1>0. PICK k \in Nat : DOMAIN instructions = 1..k /\ Len(instructions) = k
  BY LenProperties DEF TypeOK
<1>1. ASSUME Sweep PROVE TileInv'
  <2> DEFINE i == Decode(memory[pc])
             next == pc + 2 * WordCount(i)
  <2> SUFFICES ASSUME ~Straddles'
               PROVE  /\ 2 * Len(instructions') <= Reached'
                      /\ \A n \in DOMAIN instructions' : Taken(n)' <= Reached'
                      /\ \A m, n \in DOMAIN instructions' : m < n => Taken(m)' <= instructions'[n].pc
                      /\ \A a \in Address : a < Reached' => Accounted(a)'
    BY DEF TileInv
  <2>1. memory' = memory /\ phase = "sweep" /\ Reached = pc
    BY <1>1 DEF Sweep, Reached
  <2>2. pc \in Address /\ pc \in Int /\ pc <= Size - 2 /\ Size \in Int /\ memory[pc] \in InstructionWord
    BY DEF TypeOK, Address, Size
  <2>3. WordCount(i) \in 1..3 /\ next \in Int /\ pc + 2 <= next
    BY <2>2, WordCountType
  <2>4. CASE i.format = "UNIMPL_OP"
    <3>1. instructions' = instructions
      BY <1>1, <2>4 DEF Sweep
    <3>2. \A n : Taken(n)' = Taken(n)
      BY <3>1 DEF Taken
    <3>3. ~Straddles
      BY <3>1, <3>2 DEF Straddles
    <3>4. next = pc + 2
      BY <2>2, <2>4 DEF WordCount
    <3>5. Reached' = pc + 2
      BY <1>1, <2>2, <3>4, RoundReaches
    <3>6. Bits(memory[pc], 12, 4) = 0
      <4>1. Bits(memory[pc], 12, 4) \in 0..15
        BY <2>2, BitsOfWord
      <4> QED  BY <2>4, <4>1 DEF Decode, InstructionFormat
    <3>7. \A a \in Address : a < pc + 2 => a < pc \/ a = pc
      BY <2>2 DEF Address
    <3>8. \A a \in Address : Accounted(a) => Accounted(a)'
      BY <2>1, <3>1 DEF Accounted, Covers, Swallowed, End
    <3>9. \A a \in Address : a < pc + 2 => Accounted(a)'
      BY <2>1, <3>3, <3>6, <3>7, <3>8 DEF TileInv, Accounted
    <3>10. \A n \in DOMAIN instructions : Taken(n) <= pc + 2
      <4> SUFFICES ASSUME NEW n \in DOMAIN instructions PROVE Taken(n) <= pc + 2
        OBVIOUS
      <4>1. Taken(n) \in Int /\ Taken(n) <= pc
        BY <2>1, <3>3, ListedItem DEF TileInv
      <4> QED  BY <2>2, <4>1
    <3> QED  BY <1>0, <2>1, <2>2, <3>1, <3>2, <3>3, <3>5, <3>9, <3>10 DEF TileInv
  <2>5. CASE i.format # "UNIMPL_OP"
    <3> DEFINE item == Item(pc, i)
    <3> HIDE DEF i, next, item
    <3>0. item.pc = pc /\ item.instruction = i
      BY DEF Item, item
    <3>1. instructions' = Append(instructions, item)
      BY <1>1, <2>5, RoundFits DEF item, i
    <3>2. ~Straddles
      BY <1>1, RoundFits
    <3>3. /\ DOMAIN instructions' = 1..(k + 1) /\ Len(instructions') = k + 1
          /\ instructions'[k + 1] = item
          /\ \A m \in 1..k : instructions'[m] = instructions[m]
      BY <1>0, <3>1
    <3>4. \A m \in 1..k : Taken(m)' = Taken(m)
      BY <3>3 DEF Taken
    <3>5. 2 * k <= pc
      BY <1>0, <2>1, <3>2 DEF TileInv
    <3>6. Taken(k + 1)' = next
      BY <3>0, <3>3 DEF Taken, next
    <3>7. Reached' = next
      BY <1>1, RoundFits, RoundReaches DEF next, i
    <3>8. \A m \in 1..k : Taken(m) \in Int /\ Taken(m) <= pc
      BY <1>0, <2>1, <3>2, ListedItem DEF TileInv
    <3>9. 2 * Len(instructions') <= Reached'
      BY <2>2, <2>3, <3>5, <3>3, <3>7
    <3>10. \A n \in DOMAIN instructions' : Taken(n)' <= Reached'
      <4> SUFFICES ASSUME NEW n \in 1..(k + 1) PROVE Taken(n)' <= next
        BY <3>3, <3>7
      <4>1. CASE n = k + 1
        BY <2>3, <3>6, <4>1
      <4>2. CASE n \in 1..k
        BY <2>2, <2>3, <3>4, <3>8, <4>2
      <4> QED  BY <4>1, <4>2
    <3>11. \A m, n \in DOMAIN instructions' : m < n => Taken(m)' <= instructions'[n].pc
      <4> SUFFICES ASSUME NEW m \in 1..(k + 1), NEW n \in 1..(k + 1), m < n
                   PROVE  Taken(m)' <= instructions'[n].pc
        BY <3>3
      <4>1. m \in 1..k
        OBVIOUS
      <4>2. CASE n = k + 1
        BY <3>0, <3>4, <3>3, <3>8, <4>1, <4>2
      <4>3. CASE n \in 1..k
        BY <1>0, <3>3, <3>4, <3>2, <4>1, <4>3 DEF TileInv
      <4> QED  BY <4>2, <4>3
    <3>12. \A a \in Address : Accounted(a) => Accounted(a)'
      <4> SUFFICES ASSUME NEW a \in Address, Accounted(a) PROVE Accounted(a)'
        OBVIOUS
      <4>1. \A m \in 1..k : Covers(m, a) => Covers(m, a)'
        BY <2>1, <3>3 DEF Covers, End
      <4>2. Swallowed(a) => Swallowed(a)'
        BY <1>0, <2>1, <3>3 DEF Swallowed, End
      <4> QED  BY <1>0, <2>1, <3>3, <4>1, <4>2 DEF Accounted
    <3>13. ASSUME NEW a \in Address, a < next, ~(a < pc) PROVE Accounted(a)'
      <4>1. a \in Int /\ (a < next => a = next - 2 \/ a < next - 2)
        BY <2>2, <2>3 DEF Address, next
      <4>2. /\ End(pc) \in Int /\ pc < End(pc) /\ End(pc) <= next
            /\ End(pc) # next => TakesAtPC(i) /\ End(pc) = next - 2
        BY <2>2, Extent DEF next, i
      <4>3. k + 1 \in DOMAIN instructions' /\ instructions'[k + 1].pc = pc
            /\ instructions'[k + 1].instruction = i
        BY <1>0, <3>0, <3>3
      <4>4. CASE a < End(pc)
        <5>1. Covers(k + 1, a)'
          BY <2>1, <2>2, <3>13, <4>1, <4>3, <4>4 DEF Covers, End
        <5> QED  BY <4>3, <5>1 DEF Accounted
      <4>5. CASE ~(a < End(pc))
        <5>1. a = End(pc) /\ TakesAtPC(i)
          BY <2>3, <3>13, <4>1, <4>2, <4>5
        <5>2. Swallowed(a)'
          BY <2>1, <4>3, <5>1 DEF Swallowed, End
        <5> QED  BY <5>2 DEF Accounted
      <4> QED  BY <4>4, <4>5
    <3>14. \A a \in Address : a < Reached' => Accounted(a)'
      BY <2>1, <3>2, <3>7, <3>12, <3>13 DEF TileInv
    <3> QED  BY <3>9, <3>10, <3>11, <3>14
  <2> QED  BY <2>4, <2>5
<1>2. ASSUME Postprocess PROVE TileInv'
  <2>1. /\ DOMAIN instructions' = DOMAIN instructions /\ memory' = memory
        /\ \A n \in DOMAIN instructions :
              /\ instructions'[n].pc = instructions[n].pc
              /\ instructions'[n].instruction = instructions[n].instruction
    BY <1>2, SameItems
  <2>2. Len(instructions') = Len(instructions)
    BY <1>0, <1>2, <2>1 DEF Postprocess
  <2>3. Reached' = Reached
    BY <1>2 DEF Postprocess, Reached
  <2>4. \A n \in DOMAIN instructions : Taken(n)' = Taken(n)
    BY <2>1 DEF Taken
  <2>5. Straddles' = Straddles
    BY <2>1, <2>4 DEF Straddles
  <2>6. \A a \in Address : Accounted(a) => Accounted(a)'
    BY <2>1 DEF Accounted, Covers, Swallowed, End
  <2> QED  BY <2>1, <2>2, <2>3, <2>4, <2>5, <2>6 DEF TileInv
<1>3. ASSUME UNCHANGED vars PROVE TileInv'
  BY <1>3 DEF vars, TileInv, Reached, Taken, Straddles, Accounted, Covers, Swallowed, End
<1> QED  BY <1>1, <1>2, <1>3 DEF Next

IInv == TypeOK /\ LabelInv /\ ItemInv /\ TileInv

LEMMA Inductive == Spec => []IInv
<1>1. Init => IInv
  <2> SUFFICES ASSUME Init PROVE IInv
    OBVIOUS
  <2>1. 0 \in Address
    BY DEF Address
  <2> QED  BY <2>1 DEF Init, IInv, TypeOK, LabelInv, TargetsIn, ItemInv, TileInv, Reached, Address
<1>2. IInv /\ [Next]_vars => IInv'
  BY TypeStep, LabelStep, ItemStep, TileStep DEF IInv
<1> QED  BY <1>1, <1>2, PTL DEF Spec

-----------------------------------------------------------------------------
(* The program counter is at an instruction word, listing and labels hold    *)
(* what they are meant to, for memories of every size and contents.          *)
THEOREM TypeCorrect == Spec => []TypeOK
<1>1. IInv => TypeOK
  BY DEF IInv
<1> QED  BY <1>1, Inductive, PTL

(* Every jump of the listing lands on a label, if it lands on an instruction.*)
THEOREM JumpTargetsLabelledHolds == Spec => []JumpTargetsLabelled
<1>1. IInv => JumpTargetsLabelled
  <2> SUFFICES ASSUME IInv, phase = "done", NEW m \in DOMAIN instructions,
                      NEW n \in DOMAIN instructions,
                      instructions[m].instruction.format = "JUMP_OP",
                      instructions[n].pc
                        = (instructions[m].pc + 2 + instructions[m].instruction.signed_offset) % Size
               PROVE  instructions[n].label # NoLabel
    BY DEF JumpTargetsLabelled
  <2>1. instructions[n].pc \in DOMAIN labels
    BY DEF IInv, LabelInv, TargetsIn, JumpTarget
  <2>2. instructions[n].label = LabelFor(instructions[n].pc, labels)
    BY DEF IInv, LabelInv
  <2> QED  BY <2>1, <2>2, LabelForType, NamesDiffer DEF IInv, TypeOK
<1> QED  BY <1>1, Inductive, PTL

(* Vectors and handlers are named after an interrupt they belong to.         *)
THEOREM VectorsNamedHolds == Spec => []VectorsNamed
<1>1. IInv => VectorsNamed
  <2> SUFFICES ASSUME IInv, phase = "done", NEW n \in DOMAIN instructions
               PROVE  LET here == {v \in Vector : VectorOf[v] = instructions[n].pc}
                          handled == {v \in Vector : memory[VectorOf[v]] = instructions[n].pc}
                      IN  /\ here # {} => instructions[n].label \in {VectorLabel(v) : v \in here}
                          /\ (here = {} /\ handled # {}) =>
                                instructions[n].label \in {HandlerLabel(v) : v \in handled}
    BY DEF VectorsNamed
  <2> DEFINE address == instructions[n].pc
             here == {v \in Vector : VectorOf[v] = address}
             handled == {v \in Vector : memory[VectorOf[v]] = address}
  <2>1. instructions[n].label = LabelFor(address, labels)
    BY DEF IInv, LabelInv
  <2>2. ASSUME here # {} PROVE instructions[n].label \in {VectorLabel(v) : v \in here}
    <3>1. PICK w \in Vector : /\ w = CHOOSE v \in Vector : VectorOf[v] = address
                              /\ VectorOf[w] = address
      BY <2>2
    <3> QED  BY <2>1, <2>2, <3>1 DEF LabelFor
  <2>3. ASSUME here = {}, handled # {}
        PROVE  instructions[n].label \in {HandlerLabel(v) : v \in handled}
    <3>1. PICK v \in Vector : memory[VectorOf[v]] = address
      BY <2>3
    <3>2. address \in DOMAIN labels /\ labels[address] \in {HandlerLabel(w) : w \in handled}
      BY <3>1 DEF IInv, LabelInv, HandlersIn, Handlers
    <3> QED  BY <2>1, <2>3, <3>2 DEF LabelFor
  <2> QED  BY <2>2, <2>3
<1> QED  BY <1>1, Inductive, PTL

(* The listing is a partition of every memory of the size and the contents,  *)
(* of whatever instructions, unless one of them reaches over its end.        *)
THEOREM ListingTilesMemoryHolds == Spec => []ListingTilesMemory
<1>1. IInv => ListingTilesMemory
  <2> SUFFICES ASSUME IInv, phase = "done", ~Straddles, NEW a \in Address
               PROVE  LET covering == {n \in DOMAIN instructions : Covers(n, a)}
                      IN  \/ Cardinality(covering) = 1
                          \/ covering = {} /\ (Bits(memory[a], 12, 4) = 0 \/ Swallowed(a))
    BY DEF ListingTilesMemory
  <2> DEFINE covering == {n \in DOMAIN instructions : Covers(n, a)}
  <2>0. TypeOK /\ ItemInv /\ TileInv
    BY DEF IInv
  <2>1. PICK k \in Nat : DOMAIN instructions = 1..k
    BY LenProperties DEF IInv, TypeOK
  <2>2. Accounted(a)
    BY <2>0 DEF TileInv, Reached, Address, Size
  <2>3. CASE covering # {}
    <3>1. PICK n \in DOMAIN instructions : Covers(n, a)
      BY <2>3
    <3>2. ASSUME NEW l \in DOMAIN instructions, NEW m \in DOMAIN instructions,
                 l < m, Covers(l, a), Covers(m, a)
          PROVE  FALSE
      <4>1. Taken(l) <= instructions[m].pc
        BY <2>0, <3>2 DEF TileInv
      <4>2. /\ Taken(l) \in Int /\ End(instructions[l].pc) \in Int
            /\ End(instructions[l].pc) <= Taken(l) /\ instructions[m].pc \in Int /\ a \in Int
        BY <2>0, ListedItem DEF Address
      <4> QED  BY <3>2, <4>1, <4>2 DEF Covers
    <3>3. \A m \in DOMAIN instructions : Covers(m, a) => m = n
      BY <2>1, <3>1, <3>2
    <3>4. covering = {n}
      BY <3>1, <3>3
    <3> QED  BY <3>4, FS_Singleton
  <2>4. CASE covering = {}
    BY <2>2, <2>4 DEF Accounted
  <2> QED  BY <2>3, <2>4
<1> QED  BY <1>1, Inductive, PTL

(* Until the loop ends the program counter only moves ahead, unless an       *)
(* instruction reaches over the end of the memory: the safety half of        *)
(* EndsOrStraddles.                                                          *)
THEOREM SweepMovesOn ==
    Spec => [][(phase = "sweep" /\ ~Straddles') => (pc' > pc \/ phase' = "postprocess")]_vars
<1>1. ASSUME IInv, [Next]_vars
      PROVE  [(phase = "sweep" /\ ~Straddles') => (pc' > pc \/ phase' = "postprocess")]_vars
  <2>1. ASSUME Sweep, ~Straddles' PROVE pc' > pc \/ phase' = "postprocess"
    BY <1>1, <2>1, RoundFits, RoundReaches DEF IInv
  <2>2. ASSUME Postprocess PROVE phase # "sweep"
    BY <2>2 DEF Postprocess
  <2> QED  BY <1>1, <2>1, <2>2 DEF Next
<1> QED  BY <1>1, Inductive, PTL DEF Spec
=============================================================================
