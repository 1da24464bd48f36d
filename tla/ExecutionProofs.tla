-------------------------- MODULE ExecutionProofs ---------------------------
(***************************************************************************)
(* Which cells instructions reach and where the registers point, for every *)
(* program, every memory and every placement of the regions.               *)
(***************************************************************************)
EXTENDS Execution, TLAPS

-----------------------------------------------------------------------------
(* Words, and their wrap-around.                                             *)

LEMMA Sizes ==
    /\ ByteSign \in Nat \ {0}
    /\ Byte = 2 * ByteSign
    /\ WordSign \in Nat \ {0}
    /\ WordSign >= ByteSign
    /\ WordSize = 2 * WordSign
    /\ WordSize = Byte * Byte
<1>1. ByteSign \in Nat \ {0}
  BY AluAssumption
<1>2. ByteSign * (2 * ByteSign) \in Nat /\ ByteSign * (2 * ByteSign) >= ByteSign
  BY <1>1
<1>3. 2 * (ByteSign * (2 * ByteSign)) = (2 * ByteSign) * (2 * ByteSign)
  BY <1>1
<1> QED  BY <1>1, <1>2, <1>3 DEF Byte, WordSign, WordSize

(* A quotient and a remainder are what they should be.                       *)
LEMMA Division ==
    ASSUME NEW m \in Nat \ {0}, NEW q \in Int, NEW r \in 0..(m - 1)
    PROVE  (m * q + r) % m = r /\ (m * q + r) \div m = q
OBVIOUS

(* A sum or a difference of words wraps around at most once.                 *)
LEMMA Wrapping ==
    ASSUME NEW x \in Int, -WordSize <= x, x < 2 * WordSize
    PROVE  /\ Wrap(x) \in Word
           /\ x < 0 => Wrap(x) = x + WordSize
           /\ (0 <= x /\ x < WordSize) => Wrap(x) = x
           /\ WordSize <= x => Wrap(x) = x - WordSize
<1>0. WordSize \in Nat \ {0}
  BY Sizes
<1>1. CASE x < 0
  <2>1. x = WordSize * (-1) + (x + WordSize) /\ x + WordSize \in 0..(WordSize - 1)
    BY <1>0, <1>1
  <2>2. Wrap(x) = x + WordSize
    BY <1>0, <2>1, Division DEF Wrap
  <2> QED  BY <1>0, <1>1, <2>1, <2>2 DEF Word
<1>2. CASE 0 <= x /\ x < WordSize
  <2>1. x = WordSize * 0 + x /\ x \in 0..(WordSize - 1)
    BY <1>0, <1>2
  <2>2. Wrap(x) = x
    BY <1>0, <2>1, Division DEF Wrap
  <2> QED  BY <1>0, <1>2, <2>1, <2>2 DEF Word
<1>3. CASE WordSize <= x
  <2>1. x = WordSize * 1 + (x - WordSize) /\ x - WordSize \in 0..(WordSize - 1)
    BY <1>0, <1>3
  <2>2. Wrap(x) = x - WordSize
    BY <1>0, <2>1, Division DEF Wrap
  <2> QED  BY <1>0, <1>3, <2>1, <2>2 DEF Word
<1> QED  BY <1>0, <1>1, <1>2, <1>3

(* A word shifted right, with or without the sign bit on top, is a word, and *)
(* so is a word whose bytes change places.                                   *)
LEMMA ShiftedWord ==
    ASSUME NEW value \in Word, NEW top \in BOOLEAN
    PROVE  (value \div 2) + (IF top THEN WordSign ELSE 0) \in Word
<1>1. value \div 2 \in 0..(WordSign - 1)
  BY Sizes DEF Word
<1> QED  BY <1>1, Sizes DEF Word

LEMMA SwappedWord ==
    ASSUME NEW value \in Word
    PROVE  Byte * (value % Byte) + (value \div Byte) \in Word
<1>1. value = Byte * (value \div Byte) + (value % Byte) /\ value % Byte \in 0..(Byte - 1)
  BY Sizes DEF Word
<1>2. value \div Byte \in Nat /\ value \div Byte < Byte
  BY <1>1, Sizes DEF Word
<1>3. Byte * (value % Byte) <= Byte * (Byte - 1)
  BY <1>1, Sizes
<1> QED  BY <1>1, <1>2, <1>3, Sizes DEF Word

(* What an instruction of one operand stores is a word.                      *)
LEMMA UnaryValue ==
    ASSUME NEW opcode \in UnaryOpcode, NEW value \in Word, NEW status_value
    PROVE  CalculateUnary(opcode, value, status_value).value \in Word
<1>1. ASSUME NEW top \in BOOLEAN
      PROVE  Rotated(value, top).value \in Word
  BY <1>1, ShiftedWord DEF Rotated, Flagged, FlaggedResult
<1>2. CASE opcode = "RRC"
  <2>1. ("C" \in status_value) \in BOOLEAN
    OBVIOUS
  <2>2. Rotated(value, "C" \in status_value).value \in Word
    BY <1>1, <2>1
  <2> QED  BY <1>2, <2>2 DEF CalculateUnary
<1>3. CASE opcode = "RRA"
  <2>1. IsSet(value, WordSign) \in BOOLEAN
    BY DEF IsSet
  <2>2. Rotated(value, IsSet(value, WordSign)).value \in Word
    BY <1>1, <2>1
  <2> QED  BY <1>3, <2>2 DEF CalculateUnary
<1>4. CASE opcode = "SWPB"
  BY <1>4, SwappedWord DEF CalculateUnary, Plain, FlaggedResult
<1>5. CASE opcode = "SXT"
  BY <1>5 DEF CalculateUnary, Storing, FlaggedResult
<1> QED  BY <1>2, <1>3, <1>4, <1>5 DEF UnaryOpcode

-----------------------------------------------------------------------------
(* The reference an instruction holds may be used, and lies behind the end   *)
(* of the memory only if an index was added.                                 *)
Usable(ref) == /\ ~Refused(ref)
               /\ ref.kind = "memory" => /\ ref.by /= "interrupt"
                                         /\ ref.at \in Word \/ ref.by = "index"
OperandInv == Usable(src) /\ Usable(dst) /\ dst.kind /= "constant"

(* So may what it accesses; interrupt entry asks nobody, but it writes words *)
(* within the memory.                                                        *)
AccessInv ==
    \A ref \in accesses :
        \/ ref.kind = "memory" /\ Usable(ref)
        \/ ref.kind = "memory" /\ ref.by = "interrupt" /\ ref.word /\ ref.at \in Word
PhaseInv ==
    /\ phase \in {"source", "dest", "execute"} => ins \in Instruction
    /\ phase = "source" => ins.opcode \notin {"jump", "none"}
IInv == TypeOK /\ OperandInv /\ AccessInv /\ PhaseInv

-----------------------------------------------------------------------------
LEMMA WordFacts ==
    /\ WordSize \in Nat /\ WordSize >= 4 /\ Top \in Nat /\ Top + 1 = WordSize
    /\ Byte \in Nat \ {0} /\ Byte <= WordSize
    /\ 0 \in Word /\ Top \in Word /\ Word \subseteq Nat
    /\ \A w \in Word : w \in Nat /\ w <= Top /\ w <= 2 * Top
    /\ \A v, w \in Word : v + w \in Nat /\ v + w <= 2 * Top
<1>1. ByteSign * (2 * ByteSign) >= 2 * ByteSign
  BY Sizes
<1> QED  BY <1>1, Sizes DEF Word, Top, Byte, WordSign, WordSize

(* A register that moves by whole words stays even, or odd.                  *)
LEMMA WordMove ==
    ASSUME NEW x \in Word, NEW d \in {-4, -2, 0, 2, 4}
    PROVE  /\ (x + d) % WordSize \in Word
           /\ ((x + d) % WordSize) % 2 = x % 2
<1>1. /\ -WordSize <= x + d /\ x + d < 2 * WordSize /\ x + d \in Int /\ x \in Int
      /\ WordSize = 2 * WordSign /\ WordSign \in Int
  BY WordFacts, Sizes DEF Word
<1>2. (x + d) % WordSize \in {x + d, x + d + 2 * WordSign, x + d - 2 * WordSign}
  BY <1>1, Wrapping, Sizes DEF Wrap
<1>3. \A k \in {x + d, x + d + 2 * WordSign, x + d - 2 * WordSign} : k % 2 = x % 2
  BY <1>1
<1> QED  BY <1>1, <1>2, <1>3, Wrapping DEF Wrap

LEMMA ByteMove ==
    ASSUME NEW x \in Word
    PROVE  (x + 1) % WordSize \in Word
BY WordFacts, Wrapping DEF Wrap, Word

LEMMA MovedFacts ==
    ASSUME NEW rs \in [Register -> Word], NEW r \in Register, NEW d \in {-4, -2, 0, 1, 2, 4}
    PROVE  /\ Moved(rs, r, d) \in [Register -> Word]
           /\ \A q \in Register : q /= r => Moved(rs, r, d)[q] = rs[q]
           /\ d /= 1 => Moved(rs, r, d)[r] % 2 = rs[r] % 2
BY WordMove, ByteMove DEF Moved

LEMMA InstructionFacts ==
    ASSUME NEW i \in Instruction
    PROVE  /\ i.opcode \in Opcode /\ i.source \in Operand /\ i.dest \in Operand
           /\ i.bw \in BOOLEAN /\ i.dest.mode \in {"register", "indexed", "label"}
BY ExecutionAssumption

LEMMA OperandCases ==
    ASSUME NEW op \in Operand
    PROVE  \/ op.mode = "register" /\ op.reg \in Register \cup {"SR"}
           \/ op.mode \in {"indexed", "indirect", "increment"} /\ op.reg \in Register
           \/ op.mode = "label"
           \/ op.mode = "constant" /\ op.reg \in Constant
BY DEF Operand

(* A word of memory that is in the memory.                                   *)
LEMMA InMemoryTyped ==
    ASSUME NEW a \in Nat, a <= 2 * Top, NEW word \in BOOLEAN,
           NEW by \in {"code", "index", "label", "register", "stack", "interrupt"}
    PROVE  InMemory(a, word, by) \in Reference
BY WordFacts DEF InMemory, Reference

LEMMA CodeTyped ==
    ASSUME regs \in [Register -> Word]
    PROVE  Code \in Reference /\ Code.kind = "memory" /\ (~Refused(Code) => Usable(Code))
<1>0. regs["PC"] \in Word
  BY DEF Register
<1>1. regs["PC"] \in Nat /\ regs["PC"] <= 2 * Top /\ regs["PC"] \in Word
  BY <1>0, WordFacts
<1>2. Code \in Reference
  BY <1>1, InMemoryTyped DEF Code
<1> QED  BY <1>1, <1>2 DEF Code, InMemory, Usable

(* What get_ref() returns: registers that stay words, of which only the one  *)
(* that is popped by a byte changes its parity, and a reference that is      *)
(* behind the memory only by its index.                                      *)
LEMMA ResolvedFacts ==
    ASSUME regs \in [Register -> Word], NEW op \in Operand, NEW bw \in BOOLEAN,
           NEW o \in Resolved(op, bw)
    PROVE  /\ o.regs \in [Register -> Word] /\ o.ref \in Reference
           /\ ~Refused(o.ref) => Usable(o.ref)
           /\ o.ref.kind = "constant" => op.mode = "constant"
           /\ o.regs["PC"] % 2 = regs["PC"] % 2
           /\ o.regs["SP"] % 2 = regs["SP"] % 2
                 \/ (bw /\ op.mode = "increment" /\ op.reg = "SP")
<1> DEFINE behind == Moved(regs, "PC", 2)
<1>1. /\ behind \in [Register -> Word] /\ behind["PC"] % 2 = regs["PC"] % 2
      /\ behind["SP"] = regs["SP"]
  BY MovedFacts DEF Register
<1> HIDE DEF behind
<1>2. CASE op.mode \in {"register", "constant"}
  <2>1. o = [regs |-> regs, ref |-> Named(op.mode, op.reg)]
    BY <1>2 DEF Resolved
  <2>2. Named(op.mode, op.reg) \in Reference
    BY <1>2, OperandCases DEF Named, Reference
  <2> QED  BY <1>2, <2>1, <2>2 DEF Named, Usable
<1>3. CASE op.mode = "indexed"
  <2>1. PICK index \in Read :
            o = [regs |-> behind, ref |-> InMemory(behind[op.reg] + index, ~bw, "index")]
    BY <1>3 DEF Resolved, behind
  <2>2. behind[op.reg] \in Word /\ index \in Word
    BY <1>1, <1>3, OperandCases, ExecutionAssumption
  <2>3. behind[op.reg] + index \in Nat /\ behind[op.reg] + index <= 2 * Top
    BY <2>2, WordFacts
  <2>4. InMemory(behind[op.reg] + index, ~bw, "index") \in Reference
    BY <2>3, InMemoryTyped
  <2> QED  BY <1>1, <2>1, <2>4 DEF InMemory, Usable
<1>4. CASE op.mode = "label"
  <2>1. PICK address \in Read :
            o = [regs |-> behind, ref |-> InMemory(address, ~bw, "label")]
    BY <1>4 DEF Resolved, behind
  <2>2. address \in Word /\ address \in Nat /\ address <= 2 * Top
    BY WordFacts, ExecutionAssumption
  <2>3. InMemory(address, ~bw, "label") \in Reference
    BY <2>2, InMemoryTyped
  <2> QED  BY <1>1, <2>1, <2>2, <2>3 DEF InMemory, Usable
<1>5. CASE op.mode \in {"indirect", "increment"}
  <2> DEFINE word == op.reg = "PC" \/ ~bw
  <2>1. o = [regs |-> Moved(regs, op.reg, Delta(op, bw)),
             ref |-> InMemory(regs[op.reg], word, "register")]
    BY <1>5 DEF Resolved
  <2>2. /\ op.reg \in Register /\ Delta(op, bw) \in {-4, -2, 0, 1, 2, 4}
        /\ op.reg = "PC" => Delta(op, bw) = 2
        /\ Delta(op, bw) = 1 => op.reg /= "PC" /\ op.mode = "increment" /\ bw
    BY <1>5, OperandCases DEF Delta
  <2>0. regs[op.reg] \in Word
    BY <2>2
  <2>3. regs[op.reg] \in Word /\ regs[op.reg] \in Nat /\ regs[op.reg] <= 2 * Top
    BY <2>0, WordFacts
  <2>4. InMemory(regs[op.reg], word, "register") \in Reference
    <3>1. word \in BOOLEAN
      OBVIOUS
    <3> QED  BY <2>3, <3>1, InMemoryTyped
  <2>5. /\ Moved(regs, op.reg, Delta(op, bw)) \in [Register -> Word]
        /\ \A q \in Register : q /= op.reg => Moved(regs, op.reg, Delta(op, bw))[q] = regs[q]
        /\ Delta(op, bw) /= 1
              => Moved(regs, op.reg, Delta(op, bw))[op.reg] % 2 = regs[op.reg] % 2
    BY <2>2, MovedFacts
  <2> HIDE DEF word
  <2>6. o.regs \in [Register -> Word] /\ o.ref = InMemory(regs[op.reg], word, "register")
    BY <2>1, <2>5
  <2>7. /\ o.regs["PC"] % 2 = regs["PC"] % 2
        /\ o.regs["SP"] % 2 = regs["SP"] % 2
              \/ (bw /\ op.mode = "increment" /\ op.reg = "SP")
    BY <2>1, <2>2, <2>5 DEF Register
  <2> QED  BY <2>3, <2>4, <2>6, <2>7 DEF InMemory, Usable
<1> QED  BY <1>2, <1>3, <1>4, <1>5, OperandCases

LEMMA NoRefTyped == NoRef \in Reference /\ Usable(NoRef) /\ NoRef.kind = "register"
BY DEF NoRef, Named, Reference, Usable, Refused

(* A word of the stack.                                                      *)
LEMMA StackTyped ==
    ASSUME NEW a \in Word, NEW by \in {"stack", "interrupt"}
    PROVE  /\ InMemory(a, TRUE, by) \in Reference
           /\ InMemory(a, TRUE, by).kind = "memory" /\ InMemory(a, TRUE, by).word
           /\ InMemory(a, TRUE, by).at = a /\ InMemory(a, TRUE, by).by = by
<1>1. a \in Nat /\ a <= 2 * Top
  BY WordFacts
<1> QED  BY <1>1, InMemoryTyped DEF InMemory

LEMMA StackUsable ==
    ASSUME NEW a \in Word, ~Refused(InMemory(a, TRUE, "stack"))
    PROVE  Usable(InMemory(a, TRUE, "stack"))
BY StackTyped DEF Usable

(* What a reference holds is a word.                                         *)
LEMMA ValuesTyped ==
    ASSUME TypeOK, NEW ref \in Reference, NEW value \in Values(ref)
    PROVE  value \in Word
<1>1. CASE ref.kind = "register"
  BY <1>1, ExecutionAssumption DEF Values, Reference, TypeOK
<1>2. CASE ref.kind = "constant"
  BY <1>2 DEF Values, Reference, TypeOK
<1>3. CASE ref.kind = "memory"
  <2>1. \A w \in Word : w % Byte \in Word
    BY WordFacts DEF Word
  <2> QED  BY <1>3, <2>1, ExecutionAssumption DEF Values
<1> QED  BY <1>1, <1>2, <1>3 DEF Reference

(* An instruction has ended: nothing is left of it.                          *)
LEMMA DoneFacts ==
    ASSUME Done
    PROVE  OperandInv' /\ PhaseInv' /\ phase' = "fetch" /\ ins' \in Instruction \cup {None}
           /\ src' \in Reference /\ dst' \in Reference
BY NoRefTyped DEF Done, OperandInv, PhaseInv, Usable, Refused

ParityStep ==
    \A r \in {"PC", "SP"} : regs'[r] % 2 /= regs[r] % 2 => Given(r) \/ BytePopped(r)

LEMMA FetchStep ==
    ASSUME IInv, Fetch
    PROVE  IInv' /\ ParityStep
<1>1. regs \in [Register -> Word] /\ regs' = Moved(regs, "PC", 2)
  BY DEF IInv, TypeOK, Fetch
<1>2. regs' \in [Register -> Word] /\ ParityStep
  BY <1>1, MovedFacts DEF Register, ParityStep
<1>3. OperandInv' /\ constants' = constants /\ src' = src /\ dst' = dst
  BY DEF Fetch, IInv, OperandInv, Usable, Refused
<1>4. CASE accesses' = {} /\ UNCHANGED <<phase, ins>>
  BY <1>2, <1>3, <1>4 DEF IInv, TypeOK, AccessInv, PhaseInv, Fetch
<1>5. CASE /\ ~Refused(Code) /\ accesses' = {Code} /\ ins' \in Instruction
           /\ phase' = IF ins'.opcode \in {"jump", "none"} THEN "execute" ELSE "source"
  <2>1. accesses' \subseteq Reference /\ AccessInv'
    BY <1>1, <1>5, CodeTyped DEF AccessInv, Usable, Refused
  <2>2. PhaseInv'
    BY <1>5 DEF PhaseInv
  <2> QED  BY <1>2, <1>3, <1>5, <2>1, <2>2 DEF IInv, TypeOK, OperandInv
<1> QED  BY <1>4, <1>5 DEF Fetch

LEMMA ResolveStep ==
    ASSUME IInv, NEW operand \in {"source", "dest"}, phase = operand,
           NEW op \in Operand, op = IF operand = "source" THEN ins.source ELSE ins.dest,
           Resolve(op, operand), UNCHANGED <<constants, ins>>
    PROVE  IInv' /\ ParityStep
<1>1. /\ regs \in [Register -> Word] /\ ins \in Instruction /\ ins.bw \in BOOLEAN
      /\ operand = "dest" => op.mode \in {"register", "indexed", "label"}
  BY InstructionFacts DEF IInv, TypeOK, PhaseInv
<1>2. /\ Moved(regs, "PC", 2) \in [Register -> Word]
      /\ Moved(regs, "PC", 2)["PC"] % 2 = regs["PC"] % 2
      /\ Moved(regs, "PC", 2)["SP"] = regs["SP"]
  BY <1>1, MovedFacts DEF Register
<1>3. \A ref \in Extension(op) : ref = Code
  BY DEF Extension
<1>4. CASE \E ref \in Extension(op) :
            Refused(ref) /\ phase' = "aborted" /\ accesses' = {}
            /\ regs' = Moved(regs, "PC", 2) /\ UNCHANGED <<src, dst>>
  <2>1. ParityStep
    BY <1>2, <1>4 DEF ParityStep
  <2>2. OperandInv' /\ AccessInv' /\ PhaseInv'
    BY <1>4 DEF IInv, OperandInv, AccessInv, PhaseInv, Usable, Refused
  <2> QED  BY <1>2, <1>4, <2>1, <2>2 DEF IInv, TypeOK, OperandInv
<1>5. ASSUME \A ref \in Extension(op) : ~Refused(ref),
             NEW o \in Resolved(op, ins.bw), regs' = o.regs,
             \/ /\ Refused(o.ref) /\ phase' = "aborted" /\ accesses' = Extension(op)
                /\ UNCHANGED <<src, dst>>
             \/ /\ ~Refused(o.ref) /\ accesses' = Extension(op) \cup Memory(o.ref)
                /\ src' = IF operand = "source" THEN o.ref ELSE src
                /\ dst' = IF operand = "dest" THEN o.ref ELSE dst
                /\ phase' = IF operand = "source" /\ ins.opcode = "binary"
                              THEN "dest" ELSE "execute"
      PROVE  IInv' /\ ParityStep
  <2>1. /\ regs' \in [Register -> Word] /\ o.ref \in Reference
        /\ ~Refused(o.ref) => Usable(o.ref)
        /\ o.ref.kind = "constant" => op.mode = "constant"
        /\ regs'["PC"] % 2 = regs["PC"] % 2
        /\ regs'["SP"] % 2 = regs["SP"] % 2
              \/ (ins.bw /\ op.mode = "increment" /\ op.reg = "SP")
    BY <1>1, <1>5, ResolvedFacts
  <2>2. ParityStep
    BY <1>1, <2>1 DEF ParityStep, BytePopped
  <2>3. \A ref \in Extension(op) : ref \in Reference /\ ref.kind = "memory" /\ Usable(ref)
    BY <1>1, <1>3, <1>5, CodeTyped
  <2>4. /\ ~Refused(o.ref) =>
              \A ref \in Memory(o.ref) : ref \in Reference /\ ref.kind = "memory" /\ Usable(ref)
        /\ accesses' \subseteq Extension(op) \cup Memory(o.ref)
        /\ Refused(o.ref) => accesses' = Extension(op)
    BY <1>5, <2>1 DEF Memory
  <2>5. accesses' \subseteq Reference /\ AccessInv'
    BY <2>3, <2>4 DEF AccessInv, Usable, Refused
  <2>6. src' \in Reference /\ dst' \in Reference /\ OperandInv'
    BY <1>1, <1>5, <2>1 DEF IInv, TypeOK, OperandInv, Usable, Refused
  <2>7. PhaseInv' /\ phase' \in {"dest", "execute", "aborted"}
    BY <1>1, <1>5 DEF PhaseInv
  <2> QED  BY <2>1, <2>2, <2>5, <2>6, <2>7 DEF IInv, TypeOK, OperandInv
<1> QED  BY <1>4, <1>5 DEF Resolve

(* A word is stored in an operand.                                           *)
LEMMA StoreFacts ==
    ASSUME IInv, NEW ref \in Reference, Usable(ref), NEW value \in Word, Store(ref, value)
    PROVE  /\ regs' \in [Register -> Word] /\ constants' \in [Constant -> Word]
           /\ accesses' \subseteq Reference /\ AccessInv'
           /\ \A r \in Register : ref /= Named("register", r) => regs'[r] = regs[r]
<1>1. accesses' \subseteq {ref} /\ (ref \in accesses' => ref.kind = "memory")
  BY DEF Store, Memory
<1>2. AccessInv' /\ accesses' \subseteq Reference
  BY <1>1 DEF AccessInv, Usable, Refused
<1>3. ref.kind = "constant" => ref.at \in Constant
  BY DEF Reference
<1>4. regs' \in [Register -> Word] /\ constants' \in [Constant -> Word]
  BY <1>3 DEF Store, IInv, TypeOK
<1>5. ASSUME NEW r \in Register, ref.kind = "register", ref.at = r
      PROVE  ref = Named("register", r)
  BY <1>5 DEF Reference, Named
<1>6. \A r \in Register : ref /= Named("register", r) => regs'[r] = regs[r]
  BY <1>5 DEF Store, IInv, TypeOK
<1> QED  BY <1>2, <1>4, <1>6

LEMMA ExecuteBinaryStep ==
    ASSUME IInv, ExecuteBinary
    PROVE  IInv' /\ ParityStep
<1>1. PICK result \in Read : Store(dst, result)
  BY DEF ExecuteBinary
<1>2. dst \in Reference /\ Usable(dst) /\ result \in Word
  BY ExecutionAssumption DEF IInv, TypeOK, OperandInv
<1>3. /\ regs' \in [Register -> Word] /\ constants' \in [Constant -> Word]
      /\ accesses' \subseteq Reference /\ AccessInv'
      /\ \A r \in Register : dst /= Named("register", r) => regs'[r] = regs[r]
  BY <1>1, <1>2, StoreFacts
<1>4. ParityStep
  BY <1>3 DEF ParityStep, Given, ExecuteBinary, Register
<1>5. Done
  BY DEF ExecuteBinary
<1> QED  BY <1>3, <1>4, <1>5, DoneFacts DEF IInv, TypeOK, OperandInv

LEMMA ExecuteShiftStep ==
    ASSUME IInv, ExecuteShift
    PROVE  IInv' /\ ParityStep
<1>1. PICK value \in Values(src), carry \in {{}, {"C"}} :
        LET result == CalculateUnary(ins.opcode, value, carry).value
        IN  \/ result /= value /\ Store(src, result)
            \/ result = value /\ accesses' = {} /\ UNCHANGED <<regs, constants>>
  BY DEF ExecuteShift
<1>2. src \in Reference /\ Usable(src) /\ ins.opcode \in UnaryOpcode /\ TypeOK
  BY DEF IInv, TypeOK, OperandInv, ExecuteShift, Shift, UnaryOpcode
<1>3. value \in Word
  BY <1>2, ValuesTyped
<1>5. CalculateUnary(ins.opcode, value, carry).value \in Word
  BY <1>2, <1>3, UnaryValue
<1>6. /\ regs' \in [Register -> Word] /\ constants' \in [Constant -> Word]
      /\ accesses' \subseteq Reference /\ AccessInv'
      /\ \A r \in Register : src /= Named("register", r) => regs'[r] = regs[r]
  <2>1. CASE Store(src, CalculateUnary(ins.opcode, value, carry).value)
    BY <1>2, <1>5, <2>1, StoreFacts
  <2>2. CASE accesses' = {} /\ UNCHANGED <<regs, constants>>
    BY <1>2, <2>2 DEF TypeOK, AccessInv
  <2> QED  BY <1>1, <2>1, <2>2
<1>7. ParityStep
  BY <1>6 DEF ParityStep, Given, ExecuteShift, Register
<1>8. Done
  BY DEF ExecuteShift
<1> QED  BY <1>6, <1>7, <1>8, DoneFacts DEF IInv, TypeOK, OperandInv

(* The stack pointer a word down or up.                                      *)
LEMMA StackMove ==
    ASSUME NEW rs \in [Register -> Word], NEW d \in {-2, 2}
    PROVE  /\ Moved(rs, "SP", d) \in [Register -> Word] /\ Moved(rs, "SP", d)["SP"] \in Word
           /\ Moved(rs, "SP", d)["SP"] % 2 = rs["SP"] % 2
           /\ Moved(rs, "SP", d)["PC"] = rs["PC"]
<1>1. "SP" \in Register /\ "PC" \in Register /\ d \in {-4, -2, 0, 1, 2, 4} /\ d /= 1
  BY DEF Register
<1>2. /\ Moved(rs, "SP", d) \in [Register -> Word]
      /\ \A q \in Register : q /= "SP" => Moved(rs, "SP", d)[q] = rs[q]
      /\ Moved(rs, "SP", d)["SP"] % 2 = rs["SP"] % 2
  BY <1>1, MovedFacts
<1> QED  BY <1>1, <1>2

LEMMA PushStep ==
    ASSUME IInv, Push
    PROVE  IInv' /\ ParityStep
<1> DEFINE down == Moved(regs, "SP", -2)
           cell == InMemory(down["SP"], TRUE, "stack")
<1>1. /\ down \in [Register -> Word] /\ down["SP"] \in Word
      /\ down["SP"] % 2 = regs["SP"] % 2 /\ down["PC"] = regs["PC"]
  BY StackMove DEF IInv, TypeOK
<1>2. cell \in Reference /\ cell.kind = "memory" /\ (~Refused(cell) => Usable(cell))
  BY <1>1, StackTyped, StackUsable
<1>3. PICK value \in Values(src) :
          \/ /\ Refused(cell) /\ phase' = "aborted" /\ accesses' = {}
             /\ regs' = down /\ UNCHANGED <<ins, src, dst>>
          \/ /\ ~Refused(cell) /\ accesses' = {cell} /\ Done
             /\ regs' = IF ins.opcode = "CALL" THEN [down EXCEPT !["PC"] = value] ELSE down
  BY DEF Push
<1>4. value \in Word /\ constants' = constants
  BY ValuesTyped DEF IInv, TypeOK, Push
<1> HIDE DEF down, cell
<1>5. CASE /\ Refused(cell) /\ phase' = "aborted" /\ accesses' = {}
           /\ regs' = down /\ UNCHANGED <<ins, src, dst>>
  <2>1. OperandInv' /\ AccessInv' /\ PhaseInv'
    BY <1>5 DEF IInv, OperandInv, AccessInv, PhaseInv, Usable, Refused
  <2>2. ParityStep
    BY <1>1, <1>5 DEF ParityStep
  <2> QED  BY <1>1, <1>4, <1>5, <2>1, <2>2 DEF IInv, TypeOK
<1>6. CASE /\ ~Refused(cell) /\ accesses' = {cell} /\ Done
           /\ regs' = IF ins.opcode = "CALL" THEN [down EXCEPT !["PC"] = value] ELSE down
  <2>1. AccessInv' /\ accesses' \subseteq Reference
    BY <1>2, <1>6 DEF AccessInv, Usable, Refused
  <2>2. regs' \in [Register -> Word] /\ regs'["SP"] = down["SP"]
        /\ (ins.opcode /= "CALL" => regs'["PC"] = regs["PC"])
    BY <1>1, <1>4, <1>6 DEF Register
  <2>3. ParityStep
    BY <1>1, <2>2 DEF ParityStep, Given, Push
  <2> QED  BY <1>4, <1>6, <2>1, <2>2, <2>3, DoneFacts DEF IInv, TypeOK, OperandInv
<1> QED  BY <1>3, <1>5, <1>6

LEMMA RetiStep ==
    ASSUME IInv, Reti
    PROVE  IInv' /\ ParityStep
<1> DEFINE first == InMemory(regs["SP"], TRUE, "stack")
           up == Moved(regs, "SP", 2)
           second == InMemory(up["SP"], TRUE, "stack")
           end == Moved(up, "SP", 2)
<1>0. regs \in [Register -> Word] /\ regs["SP"] \in Word
  BY DEF IInv, TypeOK, Register
<1>1. /\ up \in [Register -> Word] /\ up["SP"] \in Word
      /\ up["SP"] % 2 = regs["SP"] % 2 /\ up["PC"] = regs["PC"]
  BY <1>0, StackMove
<1>2. /\ end \in [Register -> Word] /\ end["SP"] % 2 = up["SP"] % 2 /\ end["PC"] = up["PC"]
  <2> HIDE DEF up
  <2> QED  BY <1>1, StackMove
<1>3. /\ first \in Reference /\ first.kind = "memory" /\ (~Refused(first) => Usable(first))
      /\ second \in Reference /\ second.kind = "memory" /\ (~Refused(second) => Usable(second))
  <2> HIDE DEF up
  <2> QED  BY <1>0, <1>1, StackTyped, StackUsable
<1>4. \/ /\ Refused(first) /\ phase' = "aborted" /\ accesses' = {}
         /\ regs' = up /\ UNCHANGED <<ins, src, dst>>
      \/ /\ ~Refused(first) /\ Refused(second) /\ phase' = "aborted"
         /\ accesses' = {first}
         /\ regs' = end /\ UNCHANGED <<ins, src, dst>>
      \/ /\ ~Refused(first) /\ ~Refused(second) /\ accesses' = {first, second} /\ Done
         /\ \E value \in Read : regs' = [end EXCEPT !["PC"] = value]
  BY DEF Reti
<1>5. constants' = constants /\ phase = "execute" /\ ins.opcode = "RETI"
  BY DEF Reti
<1> HIDE DEF first, second, up, end
<1>6. AccessInv' /\ accesses' \subseteq Reference
  BY <1>3, <1>4 DEF AccessInv, Usable, Refused
<1>7. CASE phase' = "aborted" /\ regs' \in {up, end} /\ UNCHANGED <<ins, src, dst>>
  <2>1. OperandInv' /\ PhaseInv'
    BY <1>7 DEF IInv, OperandInv, PhaseInv, Usable, Refused
  <2>2. ParityStep
    BY <1>1, <1>2, <1>7 DEF ParityStep
  <2> QED  BY <1>1, <1>2, <1>5, <1>6, <1>7, <2>1, <2>2 DEF IInv, TypeOK
<1>8. CASE Done /\ \E value \in Read : regs' = [end EXCEPT !["PC"] = value]
  <2>1. regs' \in [Register -> Word] /\ regs'["SP"] = end["SP"]
    BY <1>2, <1>8, ExecutionAssumption DEF Register
  <2>2. ParityStep
    BY <1>1, <1>2, <1>5, <2>1 DEF ParityStep, Given
  <2> QED  BY <1>5, <1>6, <1>8, <2>1, <2>2, DoneFacts DEF IInv, TypeOK, OperandInv
<1> QED  BY <1>4, <1>7, <1>8

LEMMA JumpStep ==
    ASSUME IInv, Jump \/ Nothing
    PROVE  IInv' /\ ParityStep
<1>1. accesses' = {} /\ Done /\ constants' = constants
  BY DEF Jump, Nothing
<1>2. regs' \in [Register -> Word] /\ ParityStep
  <2>1. CASE Nothing
    BY <2>1 DEF Nothing, ParityStep, IInv, TypeOK
  <2>2. CASE Jump
    <3>1. PICK d \in {-4, 0, 4} : regs' = Moved(regs, "PC", d)
      <4>1. PICK words \in {-2, 0, 2} : regs' = Moved(regs, "PC", 2 * words)
        BY <2>2 DEF Jump
      <4>2. 2 * words \in {-4, 0, 4}
        OBVIOUS
      <4> QED  BY <4>1, <4>2
    <3>2. d \in {-4, -2, 0, 1, 2, 4} /\ d /= 1 /\ "PC" \in Register
          /\ regs \in [Register -> Word]
      BY DEF Register, IInv, TypeOK
    <3>3. /\ regs' \in [Register -> Word] /\ regs'["PC"] % 2 = regs["PC"] % 2
          /\ \A q \in Register : q /= "PC" => regs'[q] = regs[q]
      BY <3>1, <3>2, MovedFacts
    <3> QED  BY <3>3 DEF ParityStep, Register
  <2> QED  BY <2>1, <2>2
<1> QED  BY <1>1, <1>2, DoneFacts DEF IInv, TypeOK, OperandInv, AccessInv

LEMMA InterruptStep ==
    ASSUME IInv, Interrupt
    PROVE  IInv' /\ ParityStep
<1> DEFINE down == Moved(regs, "SP", -2)
           down2 == Moved(down, "SP", -2)
           first == InMemory(down["SP"], TRUE, "interrupt")
           second == InMemory(down2["SP"], TRUE, "interrupt")
<1>1. /\ down \in [Register -> Word] /\ down["SP"] \in Word
      /\ down["SP"] % 2 = regs["SP"] % 2
  BY StackMove DEF IInv, TypeOK
<1>2. /\ down2 \in [Register -> Word] /\ down2["SP"] \in Word
      /\ down2["SP"] % 2 = regs["SP"] % 2
  <2> HIDE DEF down
  <2> QED  BY <1>1, StackMove
<1>3. /\ accesses' = {first, second}
      /\ \E handler \in Read : regs' = [down2 EXCEPT !["PC"] = handler]
      /\ UNCHANGED <<constants, phase, ins, src, dst>>
  BY DEF Interrupt
<1> HIDE DEF down, down2
<1>4. /\ first \in Reference /\ first.kind = "memory" /\ first.word
      /\ first.at \in Word /\ first.by = "interrupt"
      /\ second \in Reference /\ second.kind = "memory" /\ second.word
      /\ second.at \in Word /\ second.by = "interrupt"
  BY <1>1, <1>2, StackTyped
<1> HIDE DEF first, second
<1>5. accesses' \subseteq Reference /\ AccessInv'
  BY <1>3, <1>4 DEF AccessInv
<1>6. regs' \in [Register -> Word] /\ regs'["SP"] = down2["SP"]
  BY <1>2, <1>3, ExecutionAssumption DEF Register
<1>7. ParityStep
  BY <1>2, <1>3, <1>4, <1>6 DEF ParityStep, Given
<1> QED  BY <1>3, <1>5, <1>6, <1>7 DEF IInv, TypeOK, OperandInv, PhaseInv, Usable, Refused

LEMMA Initial == Init => IInv
BY WordFacts, NoRefTyped, ExecutionAssumption
   DEF Init, IInv, TypeOK, OperandInv, AccessInv, PhaseInv, None

LEMMA Step ==
    ASSUME IInv, Next
    PROVE  IInv' /\ ParityStep
<1>1. CASE Source
  <2>1. phase = "source" /\ ins \in Instruction /\ ins.source \in Operand
    BY <1>1, InstructionFacts DEF Source, IInv, PhaseInv
  <2> QED  BY <1>1, <2>1, ResolveStep DEF Source
<1>2. CASE Destination
  <2>1. phase = "dest" /\ ins \in Instruction /\ ins.dest \in Operand
    BY <1>2, InstructionFacts DEF Destination, IInv, PhaseInv
  <2> QED  BY <1>2, <2>1, ResolveStep DEF Destination
<1>3. CASE Aborted
  BY <1>3 DEF Aborted, vars, IInv, TypeOK, OperandInv, AccessInv, PhaseInv, Usable, Refused,
              ParityStep
<1> QED  BY <1>1, <1>2, <1>3, FetchStep, ExecuteBinaryStep, ExecuteShiftStep, PushStep, RetiStep,
            JumpStep, InterruptStep DEF Next

LEMMA Inductive == Spec => []IInv
<1>1. IInv /\ UNCHANGED vars => IInv'
  BY DEF vars, IInv, TypeOK, OperandInv, AccessInv, PhaseInv, Usable, Refused
<1>2. IInv /\ [Next]_vars => IInv'
  BY <1>1, Step
<1> QED  BY <1>2, Initial, PTL DEF Spec

-----------------------------------------------------------------------------
(* Registers, constants and references have their types.                     *)
THEOREM TypeCorrect == Spec => []TypeOK
<1>1. IInv => TypeOK
  BY DEF IInv
<1> QED  BY <1>1, Inductive, PTL

(* No instruction reaches a byte-only cell with a word or a word-only cell   *)
(* with a byte, for every program and every two regions of which the         *)
(* byte-only one begins at 0 (memoryView.h 57-64).                           *)
THEOREM RegionsKeptHolds == Spec => []RegionsKept
<1>1. ASSUME IInv, NEW ref \in accesses
      PROVE  /\ ref.word /\ ref.by /= "interrupt" => Cells(ref) \cap ByteOnly = {}
             /\ ~ref.word => Cells(ref) \cap WordOnly = {}
  <2>1. ref \in Reference
    BY <1>1 DEF IInv, TypeOK
  <2>2. CASE ref.kind = "memory" /\ Usable(ref)
    <3>1. CASE ref.word
      <4>1. ref.at \notin ByteOnly /\ ref.at \in Nat
        BY <2>1, <2>2, <3>1, WordFacts DEF Usable, Refused, Reference
      <4>2. ref.at + 1 \notin ByteOnly
        <5>1. SUFFICES ASSUME ref.at + 1 \in ByteOnly PROVE FALSE
          OBVIOUS
        <5>2. ref.at + 1 = 0 \/ (ref.at + 1) - 1 \in ByteOnly
          BY <5>1, ExecutionAssumption
        <5> QED  BY <4>1, <5>2
      <4> QED  BY <3>1, <4>1, <4>2 DEF Cells
    <3>2. CASE ~ref.word
      BY <2>2, <3>2 DEF Usable, Refused, Cells
    <3> QED  BY <3>1, <3>2
  <2>3. CASE ref.by = "interrupt" /\ ref.word
    BY <2>3
  <2> QED  BY <1>1, <2>2, <2>3 DEF IInv, AccessInv
<1>2. IInv => RegionsKept
  BY <1>1 DEF RegionsKept
<1> QED  BY <1>2, Inductive, PTL

(* An access leaves the memory only behind its end, and only by an index or  *)
(* by the second cell of a word at the last address (addressing.h 107-116).  *)
THEOREM OutsideIsIndexedHolds == Spec => []OutsideIsIndexed
<1>1. ASSUME IInv, NEW ref \in accesses, NEW cell \in Cells(ref), cell \notin Word
      PROVE  \/ ref.by = "index" /\ cell > Top
             \/ ref.word /\ ref.at = Top
  <2>1. ref \in Reference /\ ref.kind = "memory" /\ (ref.at \in Word \/ ref.by = "index")
    BY <1>1 DEF IInv, TypeOK, AccessInv, Usable
  <2>2. ref.at \in Nat /\ cell \in {ref.at, ref.at + 1} /\ (cell /= ref.at => ref.word)
    BY <1>1, <2>1, WordFacts DEF Cells, Reference
  <2>3. cell > Top
    BY <1>1, <2>2, WordFacts DEF Word
  <2>4. CASE ref.at \in Word
    BY <1>1, <2>2, <2>3, <2>4, WordFacts
  <2>5. CASE ref.by = "index"
    BY <2>3, <2>5
  <2> QED  BY <2>1, <2>4, <2>5
<1>2. IInv => OutsideIsIndexed
  BY <1>1 DEF OutsideIsIndexed
<1> QED  BY <1>2, Inductive, PTL

(* Program counter and stack pointer keep their parity until they are given  *)
(* a value or a byte is popped (addressing.h 73 and 119).                    *)
THEOREM ParityIsKeptHolds == Spec => ParityIsKept
<1>1. IInv /\ [Next]_vars
        => [\A r \in {"PC", "SP"} :
               regs'[r] % 2 /= regs[r] % 2 => Given(r) \/ BytePopped(r)]_vars
  BY Step DEF ParityStep
<1> QED  BY <1>1, Inductive, PTL DEF Spec, ParityIsKept
=============================================================================
