----------------------- MODULE RegisterMachineProofs -----------------------
(* What TLAPS proves of the arithmetic, for every size of the byte.          *)
EXTENDS RegisterMachine, TLAPS

-----------------------------------------------------------------------------
(* Words.                                                                    *)

LEMMA Sizes ==
    /\ ByteSign \in Nat \ {0}
    /\ Byte = 2 * ByteSign
    /\ WordSign \in Nat \ {0}
    /\ WordSign >= ByteSign
    /\ WordSize = 2 * WordSign
    /\ WordSize = Byte * Byte
<1>1. ByteSign \in Nat \ {0}
  BY AluAssumption
<1>2. ByteSign * (2 * ByteSign) \in Nat /\ ByteSign * (2 * ByteSign) >= ByteSign
  BY <1>1
<1>3. 2 * (ByteSign * (2 * ByteSign)) = (2 * ByteSign) * (2 * ByteSign)
  BY <1>1
<1> QED  BY <1>1, <1>2, <1>3 DEF Byte, WordSign, WordSize

(* A quotient and a remainder are what they should be.                       *)
LEMMA Division ==
    ASSUME NEW m \in Nat \ {0}, NEW q \in Int, NEW r \in 0..(m - 1)
    PROVE  (m * q + r) % m = r /\ (m * q + r) \div m = q
OBVIOUS

(* The sign bit of a word is set in its upper half.                          *)
LEMMA SignBit ==
    ASSUME NEW w \in Word
    PROVE  IsSet(w, WordSign) <=> w >= WordSign
<1>1. CASE w < WordSign
  <2>1. w = WordSign * 0 + w /\ w \in 0..(WordSign - 1)
    BY <1>1, Sizes DEF Word
  <2>2. w \div WordSign = 0
    BY <2>1, Sizes, Division
  <2> QED  BY <1>1, <2>2, Sizes DEF IsSet, Word
<1>2. CASE w >= WordSign
  <2>1. PICK r \in 0..(WordSign - 1) : w = WordSign * 1 + r
    <3>1. w - WordSign \in 0..(WordSign - 1) /\ w = WordSign * 1 + (w - WordSign)
      BY <1>2, Sizes DEF Word
    <3> QED  BY <3>1
  <2>2. w \div WordSign = 1
    BY <2>1, Sizes, Division
  <2> QED  BY <1>2, <2>1, <2>2 DEF IsSet
<1> QED  BY <1>1, <1>2, Sizes DEF Word

(* A sum or a difference of words wraps around at most once.                 *)
LEMMA Wrapping ==
    ASSUME NEW x \in Int, -WordSize <= x, x < 2 * WordSize
    PROVE  /\ Wrap(x) \in Word
           /\ x < 0 => Wrap(x) = x + WordSize
           /\ (0 <= x /\ x < WordSize) => Wrap(x) = x
           /\ WordSize <= x => Wrap(x) = x - WordSize
<1>0. WordSize \in Nat \ {0}
  BY Sizes
<1>1. CASE x < 0
  <2>1. x = WordSize * (-1) + (x + WordSize) /\ x + WordSize \in 0..(WordSize - 1)
    BY <1>0, <1>1
  <2>2. Wrap(x) = x + WordSize
    BY <1>0, <2>1, Division DEF Wrap
  <2> QED  BY <1>0, <1>1, <2>1, <2>2 DEF Word
<1>2. CASE 0 <= x /\ x < WordSize
  <2>1. x = WordSize * 0 + x /\ x \in 0..(WordSize - 1)
    BY <1>0, <1>2
  <2>2. Wrap(x) = x
    BY <1>0, <2>1, Division DEF Wrap
  <2> QED  BY <1>0, <1>2, <2>1, <2>2 DEF Word
<1>3. CASE WordSize <= x
  <2>1. x = WordSize * 1 + (x - WordSize) /\ x - WordSize \in 0..(WordSize - 1)
    BY <1>0, <1>3
  <2>2. Wrap(x) = x - WordSize
    BY <1>0, <2>1, Division DEF Wrap
  <2> QED  BY <1>0, <1>3, <2>1, <2>2 DEF Word
<1> QED  BY <1>0, <1>1, <1>2, <1>3

(* What the bits of the flags are after an instruction that sets them.       *)
LEMMA FlagsApplied ==
    ASSUME NEW value, NEW before, NEW c \in BOOLEAN, NEW z \in BOOLEAN,
           NEW n \in BOOLEAN, NEW v \in BOOLEAN
    PROVE  LET after == ApplyStatus(before, Flagged(value, c, z, n, v))
           IN  /\ "C" \in after <=> c
               /\ "Z" \in after <=> z
               /\ "N" \in after <=> n
               /\ "V" \in after <=> v
               /\ "GIE" \in after <=> "GIE" \in before
               /\ after \ Flag = before \ Flag
BY DEF ApplyStatus, Flagged, FlaggedResult, Flag

-----------------------------------------------------------------------------
(* Results are results: every instruction computes a word, and leaves the    *)
(* flags alone or writes all four, never as zero and negative at once.       *)

Result == {r \in [value : Word, set : SUBSET Flag, reset : SUBSET Flag] :
              \/ r.set = {} /\ r.reset = {}
              \/ r.reset = Flag \ r.set /\ ~ {"Z", "N"} \subseteq r.set}

LEMMA PlainTyped ==
    ASSUME NEW value \in Word
    PROVE  Plain(value) \in Result
BY DEF Plain, FlaggedResult, Result

LEMMA FlaggedTyped ==
    ASSUME NEW value \in Word, NEW c, NEW z, NEW n, NEW v, ~ (z /\ n)
    PROVE  Flagged(value, c, z, n, v) \in Result
BY DEF Flagged, FlaggedResult, Flag, Result

LEMMA StoringTyped ==
    ASSUME NEW value \in Word, NEW r, r.set \in SUBSET Flag,
           r.reset = Flag \ r.set, ~ {"Z", "N"} \subseteq r.set
    PROVE  Storing(value, r) \in Result
BY DEF Storing, FlaggedResult, Result

(* Zero has no sign.                                                         *)
LEMMA ZeroIsPositive ==
    ASSUME NEW sign \in {ByteSign, WordSign}
    PROVE  ~ IsSet(0, sign)
<1>1. 0 = sign * 0 + 0 /\ 0 \in 0..(sign - 1) /\ sign \in Nat \ {0}
  BY Sizes
<1>2. 0 \div sign = 0
  BY <1>1, Division
<1> QED  BY <1>2 DEF IsSet

LEMMA BitsTyped ==
    ASSUME NEW a, NEW b
    PROVE  /\ WordOf(BitsOf(a) \cap BitsOf(b)) \in Word
           /\ WordOf(BitsOf(a) \cup BitsOf(b)) \in Word
           /\ WordOf(BitsOf(a) \ BitsOf(b)) \in Word
           /\ WordOf((BitsOf(a) \ BitsOf(b)) \cup (BitsOf(b) \ BitsOf(a))) \in Word
BY AluAssumption DEF BitsOf

LEMMA BinaryTyped ==
    ASSUME NEW opcode \in BinaryOpcode, NEW source \in Word, NEW dest \in Word,
           NEW status_value, NEW bw
    PROVE  CalculateBinary(opcode, source, dest, status_value, bw) \in Result
<1> DEFINE carry == IF "C" \in status_value THEN 1 ELSE 0
           result == CalculateBinary(opcode, source, dest, status_value, bw)
<1>1. carry \in 0..1 /\ 0 \in 0..1
  OBVIOUS
<1>2. ASSUME NEW c \in 0..1
      PROVE  Wrap(source + dest + c) \in Word /\ Wrap(dest - source + c) \in Word
             /\ Wrap(dest + source) \in Word
  <2>1. /\ source + dest + c \in Int
        /\ -WordSize <= source + dest + c /\ source + dest + c < 2 * WordSize
        /\ dest - source + c \in Int
        /\ -WordSize <= dest - source + c /\ dest - source + c < 2 * WordSize
        /\ dest + source \in Int
        /\ -WordSize <= dest + source /\ dest + source < 2 * WordSize
    BY Sizes DEF Word
  <2> QED  BY <2>1, Wrapping
<1>3. ASSUME NEW c \in 0..1, NEW sign \in {ByteSign, WordSign}
      PROVE  Sum(source, dest, c) \in Result /\ Difference(source, dest, c, sign) \in Result
  BY <1>2, FlaggedTyped, ZeroIsPositive DEF Sum, Difference
<1>4. ASSUME NEW r \in Result
      PROVE  Storing(dest, r) \in Result
  BY DEF Storing, FlaggedResult, Result
<1>5. ASSUME NEW r \in Word, NEW sign \in {ByteSign, WordSign}, NEW v
      PROVE  Logical(r, sign, v) \in Result
  BY FlaggedTyped, ZeroIsPositive DEF Logical
<1>0. SignOf(bw) \in {ByteSign, WordSign} /\ WordSign \in {ByteSign, WordSign}
  BY DEF SignOf
<1>6. CASE opcode \in {"ADD", "ADDC"}
  BY <1>0, <1>1, <1>3, <1>6 DEF CalculateBinary
<1>7. CASE opcode \in {"SUB", "SUBC"}
  BY <1>0, <1>1, <1>3, <1>7 DEF CalculateBinary
<1>8. CASE opcode = "CMP"
  BY <1>0, <1>1, <1>3, <1>4, <1>8 DEF CalculateBinary
<1>9. CASE opcode \in {"MOV", "DADD"}
  BY <1>1, <1>2, <1>9, PlainTyped DEF CalculateBinary
<1>10. CASE opcode \in {"BIC", "BIS"}
  BY <1>10, PlainTyped, BitsTyped DEF CalculateBinary
<1>11. CASE opcode \in {"AND", "XOR"}
  BY <1>0, <1>5, <1>11, BitsTyped DEF CalculateBinary
<1>12. CASE opcode = "BIT"
  BY <1>0, <1>4, <1>5, <1>12, BitsTyped DEF CalculateBinary
<1> QED  BY <1>6, <1>7, <1>8, <1>9, <1>10, <1>11, <1>12 DEF BinaryOpcode

(* The shifted word, with or without the sign bit on top.                    *)
LEMMA ShiftTyped ==
    ASSUME NEW value \in Word, NEW top \in BOOLEAN
    PROVE  (value \div 2) + (IF top THEN WordSign ELSE 0) \in Word
<1>1. value \div 2 \in 0..(WordSign - 1)
  BY Sizes DEF Word
<1> QED  BY <1>1, Sizes DEF Word

(* The two bytes of a word change places.                                    *)
LEMMA SwapTyped ==
    ASSUME NEW value \in Word
    PROVE  Byte * (value % Byte) + (value \div Byte) \in Word
<1>1. value = Byte * (value \div Byte) + (value % Byte) /\ value % Byte \in 0..(Byte - 1)
  BY Sizes DEF Word
<1>2. value \div Byte \in Nat /\ value \div Byte < Byte
  BY <1>1, Sizes DEF Word
<1>3. Byte * (value % Byte) <= Byte * (Byte - 1)
  BY <1>1, Sizes
<1> QED  BY <1>1, <1>2, <1>3, Sizes DEF Word

LEMMA RotatedTyped ==
    ASSUME NEW value \in Word, NEW top \in BOOLEAN
    PROVE  Rotated(value, top) \in Result
BY ShiftTyped, FlaggedTyped, ZeroIsPositive DEF Rotated

(* The flags of SXT are those of the extended value, its value is not.       *)
LEMMA ExtensionTyped ==
    ASSUME NEW value \in Word
    PROVE  Storing(value, Logical(Extended(value), WordSign, FALSE)) \in Result
<1>1. ~ (Extended(value) = 0 /\ IsSet(Extended(value), WordSign))
  BY ZeroIsPositive
<1>2. ASSUME NEW e, ~ (e = 0 /\ IsSet(e, WordSign))
      PROVE  LET r == Logical(e, WordSign, FALSE)
             IN  r.set \in SUBSET Flag /\ r.reset = Flag \ r.set /\ ~ {"Z", "N"} \subseteq r.set
  BY <1>2 DEF Logical, Flagged, FlaggedResult, Flag
<1> QED  BY <1>1, <1>2, StoringTyped

LEMMA UnaryTyped ==
    ASSUME NEW opcode \in UnaryOpcode, NEW value \in Word, NEW status_value
    PROVE  CalculateUnary(opcode, value, status_value) \in Result
<1>1. CASE opcode = "RRC"
  <2>1. ("C" \in status_value) \in BOOLEAN
    OBVIOUS
  <2>2. Rotated(value, "C" \in status_value) \in Result
    BY <2>1, RotatedTyped
  <2> QED  BY <1>1, <2>2 DEF CalculateUnary
<1>2. CASE opcode = "RRA"
  <2>1. IsSet(value, WordSign) \in BOOLEAN
    BY DEF IsSet
  <2>2. Rotated(value, IsSet(value, WordSign)) \in Result
    BY <2>1, RotatedTyped
  <2> QED  BY <1>2, <2>2 DEF CalculateUnary
<1>3. CASE opcode = "SWPB"
  BY <1>3, SwapTyped, PlainTyped DEF CalculateUnary
<1>4. CASE opcode = "SXT"
  BY <1>4, ExtensionTyped DEF CalculateUnary
<1> QED  BY <1>1, <1>2, <1>3, <1>4 DEF UnaryOpcode

-----------------------------------------------------------------------------
(* The invariant.                                                            *)

IInv == TypeOK /\ FlagsAgree

LEMMA ResultApplied ==
    ASSUME NEW before \in SUBSET StatusBit, ~ {"Z", "N"} \subseteq before,
           NEW r \in Result
    PROVE  /\ ApplyStatus(before, r) \in SUBSET StatusBit
           /\ ~ {"Z", "N"} \subseteq ApplyStatus(before, r)
           /\ "GIE" \in ApplyStatus(before, r) <=> "GIE" \in before
BY DEF ApplyStatus, Result, StatusBit, Flag

LEMMA StepApplies ==
    ASSUME IInv, Next
    PROVE  /\ regs' \in [GeneralRegister -> Word]
           /\ \E r \in Result : status' = ApplyStatus(status, r)
<1>1. ASSUME NEW opcode \in BinaryOpcode, NEW bw \in BOOLEAN,
             NEW source \in GeneralRegister, NEW dest \in GeneralRegister,
             ExecuteBinary(opcode, bw, source, dest)
      PROVE  /\ regs' \in [GeneralRegister -> Word]
             /\ \E r \in Result : status' = ApplyStatus(status, r)
  <2> DEFINE r == CalculateBinary(opcode, regs[source], regs[dest], status, bw)
  <2>1. r \in Result
    BY BinaryTyped DEF IInv, TypeOK
  <2>2. r.value \in Word
    BY <2>1 DEF Result
  <2> HIDE DEF r
  <2>3. regs' = [regs EXCEPT ![dest] = r.value] /\ status' = ApplyStatus(status, r)
    BY <1>1 DEF ExecuteBinary, r
  <2> QED  BY <2>1, <2>2, <2>3 DEF IInv, TypeOK
<1>2. ASSUME NEW opcode \in UnaryOpcode, NEW source \in GeneralRegister,
             ExecuteUnary(opcode, source)
      PROVE  /\ regs' \in [GeneralRegister -> Word]
             /\ \E r \in Result : status' = ApplyStatus(status, r)
  <2> DEFINE r == CalculateUnary(opcode, regs[source], status)
  <2>1. r \in Result
    BY UnaryTyped DEF IInv, TypeOK
  <2>2. r.value \in Word
    BY <2>1 DEF Result
  <2> HIDE DEF r
  <2>3. regs' = [regs EXCEPT ![source] = r.value] /\ status' = ApplyStatus(status, r)
    BY <1>2 DEF ExecuteUnary, r
  <2> QED  BY <2>1, <2>2, <2>3 DEF IInv, TypeOK
<1> QED  BY <1>1, <1>2 DEF Next

THEOREM Inductive == Spec => []IInv
<1>1. Init => IInv
  BY DEF Init, IInv, TypeOK, FlagsAgree, StatusBit, Flag
<1>2. IInv /\ [Next]_vars => IInv'
  <2> SUFFICES ASSUME IInv, [Next]_vars PROVE IInv'
    OBVIOUS
  <2>1. CASE Next
    BY <2>1, StepApplies, ResultApplied DEF IInv, TypeOK, FlagsAgree
  <2>2. CASE UNCHANGED vars
    BY <2>2 DEF IInv, TypeOK, FlagsAgree, vars
  <2> QED  BY <2>1, <2>2
<1> QED  BY <1>1, <1>2, PTL DEF Spec

(* Registers hold words and the status register its bits.                    *)
THEOREM TypeCorrect == Spec => []TypeOK
BY Inductive, PTL DEF IInv

(* No program reaches a status that is both zero and negative.               *)
THEOREM NeverZeroAndNegative == Spec => []FlagsAgree
BY Inductive, PTL DEF IInv

-----------------------------------------------------------------------------
(* Comparison and overflow.                                                  *)

LEMMA SignedFacts ==
    ASSUME NEW w \in Word
    PROVE  /\ Signed(w) \in SignedRange
           /\ w < WordSign => Signed(w) = w
           /\ w >= WordSign => Signed(w) = w - WordSize
BY Sizes DEF Word, Signed, SignedRange

(* The flags of a difference: Z is equality, V is overflow, N against V is   *)
(* the signed order.                                                         *)
LEMMA DifferenceFlags ==
    ASSUME NEW source \in Word, NEW dest \in Word
    PROVE  LET result == Wrap(dest - source + 0)
               n == IsSet(result, WordSign)
               v == DifferenceOverflows(IsSet(source, WordSign), IsSet(dest, WordSign), n)
           IN  /\ result = 0 <=> dest = source
               /\ v <=> Signed(dest) - Signed(source) \notin SignedRange
               /\ ~ (n <=> v) <=> Signed(dest) < Signed(source)
<1> DEFINE result == Wrap(dest - source + 0)
           n == IsSet(result, WordSign)
           s == IsSet(source, WordSign)
           d == IsSet(dest, WordSign)
<1>1. /\ result \in Word
      /\ dest < source => result = dest - source + WordSize
      /\ dest >= source => result = dest - source
  <2>1. dest - source + 0 = dest - source /\ dest - source \in Int
        /\ -WordSize <= dest - source /\ dest - source < WordSize
    BY Sizes DEF Word
  <2> QED  BY <2>1, Wrapping, Sizes DEF Word
<1>2. /\ n <=> result >= WordSign
      /\ s <=> source >= WordSign
      /\ d <=> dest >= WordSign
  BY <1>1, SignBit
<1> HIDE DEF result, n, s, d
<1>3. result = 0 <=> dest = source
  BY <1>1, Sizes DEF Word
<1>4. DifferenceOverflows(s, d, n) <=> Signed(dest) - Signed(source) \notin SignedRange
  BY <1>1, <1>2, Sizes, SignedFacts DEF Word, SignedRange, DifferenceOverflows
<1>5. ~ (n <=> DifferenceOverflows(s, d, n)) <=> Signed(dest) < Signed(source)
  BY <1>1, <1>2, Sizes, SignedFacts DEF Word, DifferenceOverflows
<1> QED  BY <1>3, <1>4, <1>5, Zenon DEF result, n, s, d

LEMMA SumFlags ==
    ASSUME NEW source \in Word, NEW dest \in Word, NEW c \in 0..1
    PROVE  LET n == IsSet(Wrap(source + dest + c), WordSign)
           IN  SumOverflows(IsSet(source, WordSign), IsSet(dest, WordSign), n)
                  <=> Signed(dest) + Signed(source) + c \notin SignedRange
<1> DEFINE result == Wrap(source + dest + c)
           n == IsSet(result, WordSign)
           s == IsSet(source, WordSign)
           d == IsSet(dest, WordSign)
<1>1. /\ result \in Word
      /\ source + dest + c < WordSize => result = source + dest + c
      /\ source + dest + c >= WordSize => result = source + dest + c - WordSize
  <2>1. source + dest + c \in Int /\ 0 <= source + dest + c
        /\ -WordSize <= source + dest + c /\ source + dest + c < 2 * WordSize
    BY Sizes DEF Word
  <2> QED  BY <2>1, Wrapping, Sizes DEF Word
<1>2. /\ n <=> result >= WordSign
      /\ s <=> source >= WordSign
      /\ d <=> dest >= WordSign
  BY <1>1, SignBit
<1> HIDE DEF result, n, s, d
<1>3. SumOverflows(s, d, n) <=> Signed(dest) + Signed(source) + c \notin SignedRange
  BY <1>1, <1>2, Sizes, SignedFacts DEF Word, SignedRange, SumOverflows
<1> QED  BY <1>3, Zenon DEF result, n, s, d

(* The status after SUB, and after CMP of words.                             *)
LEMMA AfterDifference ==
    ASSUME NEW source \in Word, NEW dest \in Word, NEW before, NEW value
    PROVE  LET r == Difference(source, dest, 0, WordSign)
               after == ApplyStatus(before, r)
           IN  /\ ApplyStatus(before, Storing(value, r)) = after
               /\ "Z" \in after <=> dest = source
               /\ "V" \in after <=> Signed(dest) - Signed(source) \notin SignedRange
               /\ ~ ("N" \in after <=> "V" \in after) <=> Signed(dest) < Signed(source)
<1> DEFINE result == Wrap(dest - source + 0)
           z == result = 0
           n == IsSet(result, WordSign)
           v == DifferenceOverflows(IsSet(source, WordSign), IsSet(dest, WordSign), n)
           r == Flagged(result, FALSE, z, n, v)
           after == ApplyStatus(before, r)
<1>1. r = Difference(source, dest, 0, WordSign)
  BY Zenon DEF Difference
<1>2. ApplyStatus(before, Storing(value, r)) = after
  BY DEF ApplyStatus, Storing, FlaggedResult
<1>3. z \in BOOLEAN /\ n \in BOOLEAN /\ v \in BOOLEAN
  BY DEF IsSet, DifferenceOverflows
<1>4. /\ z <=> dest = source
      /\ v <=> Signed(dest) - Signed(source) \notin SignedRange
      /\ ~ (n <=> v) <=> Signed(dest) < Signed(source)
  BY DifferenceFlags, Zenon
<1> HIDE DEF z, n, v
<1>5. /\ "Z" \in after <=> z
      /\ "N" \in after <=> n
      /\ "V" \in after <=> v
  BY <1>3, FlagsApplied
<1> HIDE DEF r, after
<1> QED  BY <1>1, <1>2, <1>4, <1>5, Zenon DEF after

(* A signed comparison survives overflow.                                    *)
THEOREM SignedOrderHolds == Spec => SignedOrder
<1> DEFINE A == \A bw \in BOOLEAN, source, dest \in GeneralRegister :
                   (ExecuteBinary("CMP", FALSE, source, dest)
                       \/ ExecuteBinary("SUB", bw, source, dest))
                     => Decides(Signed(regs[dest]), Signed(regs[source]))
<1>1. IInv => A
  <2> SUFFICES ASSUME IInv, NEW bw \in BOOLEAN,
                      NEW source \in GeneralRegister, NEW dest \in GeneralRegister,
                      \/ ExecuteBinary("CMP", FALSE, source, dest)
                      \/ ExecuteBinary("SUB", bw, source, dest)
               PROVE  Decides(Signed(regs[dest]), Signed(regs[source]))
    OBVIOUS
  <2> DEFINE x == regs[dest]
             y == regs[source]
             r == Difference(y, x, 0, WordSign)
  <2>1. x \in Word /\ y \in Word
    BY DEF IInv, TypeOK
  <2>2. \/ status' = ApplyStatus(status, Storing(x, r))
        \/ status' = ApplyStatus(status, r)
    BY DEF ExecuteBinary, CalculateBinary, SignOf
  <2> HIDE DEF x, y, r
  <2>3. /\ "Z" \in status' <=> x = y
        /\ ~ ("N" \in status' <=> "V" \in status') <=> Signed(x) < Signed(y)
    BY <2>1, <2>2, AfterDifference DEF r
  <2>4. /\ x = y <=> Signed(x) = Signed(y)
        /\ Signed(x) \in Int /\ Signed(y) \in Int
    BY <2>1, SignedFacts, Sizes DEF Word, SignedRange
  <2>5. Decides(Signed(x), Signed(y))
    BY <2>3, <2>4 DEF Decides, Jumps, CheckCondition
  <2> QED  BY <2>5 DEF x, y
<1>2. IInv /\ [Next]_vars => [A]_vars
  BY <1>1
<1> QED  BY <1>2, Inductive, PTL DEF Spec, SignedOrder

LEMMA AfterSum ==
    ASSUME NEW source \in Word, NEW dest \in Word, NEW c \in 0..1, NEW before
    PROVE  "V" \in ApplyStatus(before, Sum(source, dest, c))
              <=> Signed(dest) + Signed(source) + c \notin SignedRange
<1> DEFINE result == Wrap(source + dest + c)
           z == result = 0
           n == IsSet(result, WordSign)
           v == SumOverflows(IsSet(source, WordSign), IsSet(dest, WordSign), n)
<1>1. Sum(source, dest, c) = Flagged(result, FALSE, z, n, v)
  BY Zenon DEF Sum
<1>2. z \in BOOLEAN /\ n \in BOOLEAN /\ v \in BOOLEAN
  BY DEF IsSet, SumOverflows
<1>3. v <=> Signed(dest) + Signed(source) + c \notin SignedRange
  BY SumFlags, Zenon
<1> HIDE DEF z, n, v
<1>4. "V" \in ApplyStatus(before, Flagged(result, FALSE, z, n, v)) <=> v
  BY <1>2, FlagsApplied
<1> QED  BY <1>1, <1>3, <1>4, Zenon

(* V tells exactly when a sum or a difference does not fit.                  *)
THEOREM OverflowIsExactHolds == Spec => OverflowIsExact
<1> DEFINE A == \A bw \in BOOLEAN, source, dest \in GeneralRegister :
                  LET x == Signed(regs[dest])
                      y == Signed(regs[source])
                      c == IF "C" \in status THEN 1 ELSE 0
                      Fits(sum) == "V" \in status' <=> sum \notin SignedRange
                  IN  /\ ExecuteBinary("ADD", bw, source, dest) => Fits(x + y)
                      /\ ExecuteBinary("ADDC", bw, source, dest) => Fits(x + y + c)
                      /\ ExecuteBinary("SUB", bw, source, dest) => Fits(x - y)
<1>1. IInv => A
  <2> SUFFICES ASSUME IInv, NEW bw \in BOOLEAN,
                      NEW source \in GeneralRegister, NEW dest \in GeneralRegister
               PROVE  LET x == Signed(regs[dest])
                          y == Signed(regs[source])
                          c == IF "C" \in status THEN 1 ELSE 0
                          Fits(sum) == "V" \in status' <=> sum \notin SignedRange
                      IN  /\ ExecuteBinary("ADD", bw, source, dest) => Fits(x + y)
                          /\ ExecuteBinary("ADDC", bw, source, dest) => Fits(x + y + c)
                          /\ ExecuteBinary("SUB", bw, source, dest) => Fits(x - y)
    OBVIOUS
  <2> DEFINE x == regs[dest]
             y == regs[source]
             c == IF "C" \in status THEN 1 ELSE 0
  <2>1. x \in Word /\ y \in Word /\ c \in 0..1 /\ 0 \in 0..1
    BY DEF IInv, TypeOK
  <2>2. Signed(x) \in Int /\ Signed(y) \in Int
    BY <2>1, SignedFacts, Sizes DEF SignedRange
  <2>3. Signed(x) + Signed(y) + 0 = Signed(x) + Signed(y)
    BY <2>2
  <2>4. ExecuteBinary("ADD", bw, source, dest) => status' = ApplyStatus(status, Sum(y, x, 0))
    BY DEF ExecuteBinary, CalculateBinary
  <2>5. ExecuteBinary("ADDC", bw, source, dest) => status' = ApplyStatus(status, Sum(y, x, c))
    BY DEF ExecuteBinary, CalculateBinary
  <2>6. ExecuteBinary("SUB", bw, source, dest)
           => status' = ApplyStatus(status, Difference(y, x, 0, WordSign))
    BY DEF ExecuteBinary, CalculateBinary
  <2> HIDE DEF x, y, c
  <2>7. ExecuteBinary("ADD", bw, source, dest)
           => ("V" \in status' <=> Signed(x) + Signed(y) \notin SignedRange)
    BY <2>1, <2>3, <2>4, AfterSum, Zenon
  <2>8. ExecuteBinary("ADDC", bw, source, dest)
           => ("V" \in status' <=> Signed(x) + Signed(y) + c \notin SignedRange)
    BY <2>1, <2>5, AfterSum, Zenon
  <2>9. ExecuteBinary("SUB", bw, source, dest)
           => ("V" \in status' <=> Signed(x) - Signed(y) \notin SignedRange)
    BY <2>1, <2>6, AfterDifference
  <2> QED  BY <2>7, <2>8, <2>9, Zenon DEF x, y, c
<1>2. IInv /\ [Next]_vars => [A]_vars
  BY <1>1
<1> QED  BY <1>2, Inductive, PTL DEF Spec, OverflowIsExact

-----------------------------------------------------------------------------
(* Subtraction with carry, and sign extension.                               *)

(* Where V of a difference and a carry is right.                             *)
LEMMA CarryDifferenceFlags ==
    ASSUME NEW source \in Word, NEW dest \in Word, NEW c \in 0..1
    PROVE  LET n == IsSet(Wrap(dest - source + c), WordSign)
               v == DifferenceOverflows(IsSet(source, WordSign), IsSet(dest, WordSign), n)
           IN  (v <=> Signed(dest) - Signed(source) + c \notin SignedRange)
                  <=> ~ (/\ c = 1
                         /\ Signed(source) \in {0, -WordSign}
                         /\ Signed(dest) \in {-1, WordSign - 1})
<1> DEFINE result == Wrap(dest - source + c)
           n == IsSet(result, WordSign)
           s == IsSet(source, WordSign)
           d == IsSet(dest, WordSign)
<1>1. /\ result \in Word
      /\ dest - source + c < 0 => result = dest - source + c + WordSize
      /\ dest - source + c >= 0 /\ dest - source + c < WordSize => result = dest - source + c
      /\ dest - source + c >= WordSize => result = dest - source + c - WordSize
  <2>1. dest - source + c \in Int
        /\ -WordSize <= dest - source + c /\ dest - source + c < 2 * WordSize
    BY Sizes DEF Word
  <2> QED  BY <2>1, Wrapping, Sizes DEF Word
<1>2. /\ n <=> result >= WordSign
      /\ s <=> source >= WordSign
      /\ d <=> dest >= WordSign
  BY <1>1, SignBit
<1> HIDE DEF result, n, s, d
<1>3. (DifferenceOverflows(s, d, n) <=> Signed(dest) - Signed(source) + c \notin SignedRange)
         <=> ~ (/\ c = 1
                /\ Signed(source) \in {0, -WordSign}
                /\ Signed(dest) \in {-1, WordSign - 1})
  <2>1. CASE c = 0
    BY <1>1, <1>2, <2>1, Sizes, SignedFacts DEF Word, SignedRange, DifferenceOverflows
  <2>2. CASE c = 1
    BY <1>1, <1>2, <2>2, Sizes, SignedFacts DEF Word, SignedRange, DifferenceOverflows
  <2> QED  BY <2>1, <2>2
<1> QED  BY <1>3, Zenon DEF result, n, s, d

LEMMA AfterCarryDifference ==
    ASSUME NEW source \in Word, NEW dest \in Word, NEW c \in 0..1, NEW before
    PROVE  ("V" \in ApplyStatus(before, Difference(source, dest, c, WordSign))
              <=> Signed(dest) - Signed(source) + c \notin SignedRange)
              <=> ~ (/\ c = 1
                     /\ Signed(source) \in {0, -WordSign}
                     /\ Signed(dest) \in {-1, WordSign - 1})
<1> DEFINE result == Wrap(dest - source + c)
           z == result = 0
           n == IsSet(result, WordSign)
           v == DifferenceOverflows(IsSet(source, WordSign), IsSet(dest, WordSign), n)
<1>1. Difference(source, dest, c, WordSign) = Flagged(result, FALSE, z, n, v)
  BY Zenon DEF Difference
<1>2. z \in BOOLEAN /\ n \in BOOLEAN /\ v \in BOOLEAN
  BY DEF IsSet, DifferenceOverflows
<1>3. (v <=> Signed(dest) - Signed(source) + c \notin SignedRange)
         <=> ~ (/\ c = 1
                /\ Signed(source) \in {0, -WordSign}
                /\ Signed(dest) \in {-1, WordSign - 1})
  BY CarryDifferenceFlags, Zenon
<1> HIDE DEF z, n, v
<1>4. "V" \in ApplyStatus(before, Flagged(result, FALSE, z, n, v)) <=> v
  BY <1>2, FlagsApplied
<1> QED  BY <1>1, <1>3, <1>4, Zenon

(* V of SUBC is right except where the carry goes through the lower bits.    *)
THEOREM CarryOverflowsHolds == Spec => CarryOverflows
<1> DEFINE A == \A bw \in BOOLEAN, source, dest \in GeneralRegister :
                  LET x == Signed(regs[dest])
                      y == Signed(regs[source])
                      c == IF "C" \in status THEN 1 ELSE 0
                  IN  ExecuteBinary("SUBC", bw, source, dest) =>
                         ("V" \in status' <=> x - y + c \notin SignedRange)
                            <=> ~ (/\ c = 1
                                   /\ y \in {0, -WordSign}
                                   /\ x \in {-1, WordSign - 1})
<1>1. IInv => A
  <2> SUFFICES ASSUME IInv, NEW bw \in BOOLEAN,
                      NEW source \in GeneralRegister, NEW dest \in GeneralRegister,
                      ExecuteBinary("SUBC", bw, source, dest)
               PROVE  LET x == Signed(regs[dest])
                          y == Signed(regs[source])
                          c == IF "C" \in status THEN 1 ELSE 0
                      IN  ("V" \in status' <=> x - y + c \notin SignedRange)
                             <=> ~ (/\ c = 1
                                    /\ y \in {0, -WordSign}
                                    /\ x \in {-1, WordSign - 1})
    OBVIOUS
  <2> DEFINE x == regs[dest]
             y == regs[source]
             c == IF "C" \in status THEN 1 ELSE 0
  <2>1. x \in Word /\ y \in Word /\ c \in 0..1
    BY DEF IInv, TypeOK
  <2>2. status' = ApplyStatus(status, Difference(y, x, c, WordSign))
    BY DEF ExecuteBinary, CalculateBinary
  <2> HIDE DEF x, y, c
  <2>3. ("V" \in status' <=> Signed(x) - Signed(y) + c \notin SignedRange)
           <=> ~ (/\ c = 1
                  /\ Signed(y) \in {0, -WordSign}
                  /\ Signed(x) \in {-1, WordSign - 1})
    BY <2>1, <2>2, AfterCarryDifference, Zenon
  <2> QED  BY <2>3, Zenon DEF x, y, c
<1>2. IInv /\ [Next]_vars => [A]_vars
  BY <1>1
<1> QED  BY <1>2, Inductive, PTL DEF Spec, CarryOverflows

-----------------------------------------------------------------------------
(* Rotation.                                                                 *)

LEMMA Halves ==
    ASSUME NEW value \in Word
    PROVE  /\ value = 2 * (value \div 2) + (value % 2)
           /\ value % 2 \in 0..1
           /\ value \div 2 \in 0..(WordSign - 1)
<1>1. value \in Nat /\ value < 2 * WordSign
  BY Sizes DEF Word
<1> QED  BY <1>1, Sizes

LEMMA AfterRotation ==
    ASSUME NEW value \in Word, NEW top \in BOOLEAN, NEW before
    PROVE  LET r == Rotated(value, top)
           IN  /\ "C" \in ApplyStatus(before, r) <=> value % 2 = 1
               /\ r.value = (value \div 2) + (IF top THEN WordSign ELSE 0)
<1> DEFINE result == (value \div 2) + (IF top THEN WordSign ELSE 0)
           c == value % 2 = 1
           z == result = 0
           n == IsSet(result, WordSign)
<1>1. Rotated(value, top) = Flagged(result, c, z, n, FALSE)
  BY Zenon DEF Rotated
<1>2. c \in BOOLEAN /\ z \in BOOLEAN /\ n \in BOOLEAN
  BY DEF IsSet
<1>3. Flagged(result, c, z, n, FALSE).value = result
  BY DEF Flagged, FlaggedResult
<1> HIDE DEF c, z, n
<1>4. "C" \in ApplyStatus(before, Flagged(result, c, z, n, FALSE)) <=> c
  BY <1>2, FlagsApplied
<1> QED  BY <1>1, <1>3, <1>4, Zenon DEF c

(* RRC rotates the register and C, RRA halves the signed number.             *)
THEOREM RotationLosesNothing == Spec => RotationKeepsBits
<1> DEFINE A == \A source \in GeneralRegister :
                  LET out == IF "C" \in status' THEN 1 ELSE 0
                      in == IF "C" \in status THEN WordSize ELSE 0
                  IN  /\ ExecuteUnary("RRC", source)
                            => 2 * regs'[source] + out = in + regs[source]
                      /\ ExecuteUnary("RRA", source)
                            => 2 * Signed(regs'[source]) + out = Signed(regs[source])
<1>1. IInv => A
  <2> SUFFICES ASSUME IInv, NEW source \in GeneralRegister
               PROVE  LET out == IF "C" \in status' THEN 1 ELSE 0
                          in == IF "C" \in status THEN WordSize ELSE 0
                      IN  /\ ExecuteUnary("RRC", source)
                                => 2 * regs'[source] + out = in + regs[source]
                          /\ ExecuteUnary("RRA", source)
                                => 2 * Signed(regs'[source]) + out = Signed(regs[source])
    OBVIOUS
  <2> DEFINE x == regs[source]
             carry == "C" \in status
             negative == IsSet(x, WordSign)
  <2>1. x \in Word /\ carry \in BOOLEAN /\ negative \in BOOLEAN
    BY DEF IInv, TypeOK, IsSet
  <2>2. x = 2 * (x \div 2) + (x % 2) /\ x % 2 \in 0..1 /\ x \div 2 \in 0..(WordSign - 1)
    BY <2>1, Halves
  <2>3. negative <=> x >= WordSign
    BY <2>1, SignBit
  <2>4. ExecuteUnary("RRC", source)
           => /\ regs'[source] = Rotated(x, carry).value
              /\ status' = ApplyStatus(status, Rotated(x, carry))
    BY DEF ExecuteUnary, CalculateUnary, IInv, TypeOK
  <2>5. ExecuteUnary("RRA", source)
           => /\ regs'[source] = Rotated(x, negative).value
              /\ status' = ApplyStatus(status, Rotated(x, negative))
    BY DEF ExecuteUnary, CalculateUnary, IInv, TypeOK
  <2> HIDE DEF x, negative
  <2>6. ASSUME ExecuteUnary("RRC", source)
        PROVE  2 * regs'[source] + (IF "C" \in status' THEN 1 ELSE 0)
                  = (IF carry THEN WordSize ELSE 0) + x
    <3>1. /\ "C" \in status' <=> x % 2 = 1
          /\ regs'[source] = (x \div 2) + (IF carry THEN WordSign ELSE 0)
      BY <2>1, <2>4, <2>6, AfterRotation
    <3> QED  BY <2>1, <2>2, <3>1, Sizes DEF Word
  <2>7. ASSUME ExecuteUnary("RRA", source)
        PROVE  2 * Signed(regs'[source]) + (IF "C" \in status' THEN 1 ELSE 0) = Signed(x)
    <3>1. /\ "C" \in status' <=> x % 2 = 1
          /\ regs'[source] = (x \div 2) + (IF negative THEN WordSign ELSE 0)
      BY <2>1, <2>5, <2>7, AfterRotation
    <3> QED  BY <2>1, <2>2, <2>3, <3>1, Sizes DEF Word, Signed
  <2> QED  BY <2>6, <2>7, Zenon DEF x
<1>2. IInv /\ [Next]_vars => [A]_vars
  BY <1>1
<1> QED  BY <1>2, Inductive, PTL DEF Spec, RotationKeepsBits

-----------------------------------------------------------------------------
(* Bytes in registers.                                                       *)

LEMMA Parity ==
    ASSUME NEW k \in Int
    PROVE  (2 * k) % 2 = 0 /\ (2 * k + 1) % 2 = 1
OBVIOUS

(* The sign bit of the low byte: k bytes and b more.                         *)
LEMMA LowByteSign ==
    ASSUME NEW k \in Nat, NEW b \in 0..(Byte - 1)
    PROVE  IsSet(Byte * k + b, ByteSign) <=> b >= ByteSign
<1>1. ByteSign \in Nat \ {0} /\ Byte = 2 * ByteSign
  BY Sizes
<1>2. CASE b < ByteSign
  <2>1. Byte * k + b = ByteSign * (2 * k) + b /\ b \in 0..(ByteSign - 1) /\ 2 * k \in Int
    BY <1>1, <1>2
  <2>2. (Byte * k + b) \div ByteSign = 2 * k
    BY <1>1, <2>1, Division
  <2> QED  BY <1>1, <1>2, <2>2, Parity DEF IsSet
<1>3. CASE b >= ByteSign
  <2>1. PICK c \in 0..(ByteSign - 1) : b = ByteSign + c
    <3>1. b - ByteSign \in 0..(ByteSign - 1) /\ b = ByteSign + (b - ByteSign)
      BY <1>1, <1>3
    <3> QED  BY <3>1
  <2>2. Byte * k + b = ByteSign * (2 * k + 1) + c /\ 2 * k + 1 \in Int
    BY <1>1, <2>1
  <2>3. (Byte * k + b) \div ByteSign = 2 * k + 1
    BY <1>1, <2>1, <2>2, Division
  <2> QED  BY <1>1, <1>3, <2>3, Parity DEF IsSet
<1> QED  BY <1>1, <1>2, <1>3

LEMMA ByteDifferenceFlags ==
    ASSUME NEW source \in 0..(Byte - 1), NEW dest \in 0..(Byte - 1)
    PROVE  LET result == Wrap(dest - source + 0)
               n == IsSet(result, ByteSign)
               v == DifferenceOverflows(IsSet(source, ByteSign), IsSet(dest, ByteSign), n)
           IN  /\ result = 0 <=> dest = source
               /\ ~ (n <=> v) <=> SignedByte(dest) < SignedByte(source)
<1> DEFINE result == Wrap(dest - source + 0)
           n == IsSet(result, ByteSign)
           s == IsSet(source, ByteSign)
           d == IsSet(dest, ByteSign)
<1>0. ByteSign \in Nat \ {0} /\ Byte = 2 * ByteSign /\ WordSize = Byte * Byte
  BY Sizes
<1>1. Byte <= WordSize /\ Byte - 1 \in Nat /\ WordSize \in Nat
      /\ WordSize = Byte * (Byte - 1) + Byte
  BY <1>0
<1>2. /\ dest < source => result = dest - source + WordSize
      /\ dest >= source => result = dest - source
  <2>1. dest - source + 0 = dest - source /\ dest - source \in Int
        /\ -WordSize <= dest - source /\ dest - source < WordSize
    BY <1>0, <1>1
  <2> QED  BY <1>1, <2>1, Wrapping
<1>3. /\ s <=> source >= ByteSign
      /\ d <=> dest >= ByteSign
  <2>1. Byte * 0 + source = source /\ Byte * 0 + dest = dest
    BY <1>0
  <2>2. /\ IsSet(Byte * 0 + source, ByteSign) <=> source >= ByteSign
        /\ IsSet(Byte * 0 + dest, ByteSign) <=> dest >= ByteSign
    BY LowByteSign
  <2> QED  BY <2>1, <2>2
<1>4. CASE dest >= source
  <2>1. dest - source \in 0..(Byte - 1) /\ Byte * 0 + (dest - source) = dest - source
    BY <1>0, <1>4
  <2>2. \A b \in 0..(Byte - 1) : IsSet(Byte * 0 + b, ByteSign) <=> b >= ByteSign
    BY LowByteSign
  <2>3. n <=> dest - source >= ByteSign
    BY <1>2, <1>4, <2>1, <2>2
  <2>4. result = 0 <=> dest = source
    BY <1>0, <1>2, <1>4
  <2> HIDE DEF n, s, d
  <2>5. ~ (n <=> DifferenceOverflows(s, d, n)) <=> SignedByte(dest) < SignedByte(source)
    BY <1>0, <1>3, <1>4, <2>3 DEF DifferenceOverflows, SignedByte
  <2> QED  BY <2>4, <2>5, Zenon DEF n, s, d
<1>5. CASE dest < source
  <2>1. /\ dest - source + Byte \in 0..(Byte - 1)
        /\ Byte * (Byte - 1) + (dest - source + Byte) = dest - source + WordSize
    BY <1>0, <1>1, <1>5
  <2>2. \A b \in 0..(Byte - 1) : IsSet(Byte * (Byte - 1) + b, ByteSign) <=> b >= ByteSign
    BY <1>1, LowByteSign
  <2>3. n <=> dest - source + Byte >= ByteSign
    BY <1>2, <1>5, <2>1, <2>2
  <2>4. result # 0 /\ dest # source
    BY <1>0, <1>1, <1>2, <1>5
  <2> HIDE DEF n, s, d
  <2>5. ~ (n <=> DifferenceOverflows(s, d, n)) <=> SignedByte(dest) < SignedByte(source)
    BY <1>0, <1>3, <1>5, <2>3 DEF DifferenceOverflows, SignedByte
  <2> QED  BY <2>4, <2>5, Zenon DEF n, s, d
<1> QED  BY <1>0, <1>4, <1>5

LEMMA AfterByteDifference ==
    ASSUME NEW source \in 0..(Byte - 1), NEW dest \in 0..(Byte - 1), NEW before
    PROVE  LET after == ApplyStatus(before, Storing(dest, Difference(source, dest, 0, ByteSign)))
           IN  /\ "Z" \in after <=> dest = source
               /\ ~ ("N" \in after <=> "V" \in after) <=> SignedByte(dest) < SignedByte(source)
<1> DEFINE result == Wrap(dest - source + 0)
           z == result = 0
           n == IsSet(result, ByteSign)
           v == DifferenceOverflows(IsSet(source, ByteSign), IsSet(dest, ByteSign), n)
           r == Flagged(result, FALSE, z, n, v)
           after == ApplyStatus(before, r)
<1>1. r = Difference(source, dest, 0, ByteSign)
  BY Zenon DEF Difference
<1>2. ApplyStatus(before, Storing(dest, r)) = after
  BY DEF ApplyStatus, Storing, FlaggedResult
<1>3. z \in BOOLEAN /\ n \in BOOLEAN /\ v \in BOOLEAN
  BY DEF IsSet, DifferenceOverflows
<1>4. /\ z <=> dest = source
      /\ ~ (n <=> v) <=> SignedByte(dest) < SignedByte(source)
  BY ByteDifferenceFlags, Zenon
<1> HIDE DEF z, n, v
<1>5. /\ "Z" \in after <=> z
      /\ "N" \in after <=> n
      /\ "V" \in after <=> v
  BY <1>3, FlagsApplied
<1> HIDE DEF r, after
<1> QED  BY <1>1, <1>2, <1>4, <1>5, Zenon DEF after

(* CMP.B orders the signed bytes of registers that hold no more than a byte. *)
THEOREM ByteOrderHolds == Spec => ByteOrder
<1> DEFINE A == \A source, dest \in GeneralRegister :
                   (regs[source] < Byte /\ regs[dest] < Byte /\ ExecuteBinary("CMP", TRUE, source, dest))
                      => Decides(SignedByte(regs[dest]), SignedByte(regs[source]))
<1>1. IInv => A
  <2> SUFFICES ASSUME IInv,
                      NEW source \in GeneralRegister, NEW dest \in GeneralRegister,
                      regs[source] < Byte, regs[dest] < Byte,
                      ExecuteBinary("CMP", TRUE, source, dest)
               PROVE  Decides(SignedByte(regs[dest]), SignedByte(regs[source]))
    OBVIOUS
  <2> DEFINE x == regs[dest]
             y == regs[source]
  <2>1. x \in 0..(Byte - 1) /\ y \in 0..(Byte - 1)
    BY Sizes DEF IInv, TypeOK, Word
  <2>2. status' = ApplyStatus(status, Storing(x, Difference(y, x, 0, ByteSign)))
    BY DEF ExecuteBinary, CalculateBinary, SignOf
  <2> HIDE DEF x, y
  <2>3. /\ "Z" \in status' <=> x = y
        /\ ~ ("N" \in status' <=> "V" \in status') <=> SignedByte(x) < SignedByte(y)
    BY <2>1, <2>2, AfterByteDifference
  <2>4. /\ x = y <=> SignedByte(x) = SignedByte(y)
        /\ SignedByte(x) \in Int /\ SignedByte(y) \in Int
    BY <2>1, Sizes DEF SignedByte
  <2>5. Decides(SignedByte(x), SignedByte(y))
    BY <2>3, <2>4 DEF Decides, Jumps, CheckCondition
  <2> QED  BY <2>5 DEF x, y
<1>2. IInv /\ [Next]_vars => [A]_vars
  BY <1>1
<1> QED  BY <1>2, Inductive, PTL DEF Spec, ByteOrder

-----------------------------------------------------------------------------
(* The word SXT computes its flags from: its sign is that of the low byte,   *)
(* and it is zero when the byte is.                                          *)
LEMMA ExtendedFacts ==
    ASSUME NEW w \in Word
    PROVE  /\ IsSet(Extended(w), WordSign) <=> SignedByte(w % Byte) < 0
           /\ Extended(w) = 0 <=> SignedByte(w % Byte) = 0
<1>1. PICK k \in Nat, b \in 0..(Byte - 1) : w = Byte * k + b /\ w % Byte = b
  <2>1. Byte \in Nat \ {0} /\ w \in Nat
    BY Sizes DEF Word
  <2>2. w \div Byte \in Nat /\ w % Byte \in 0..(Byte - 1) /\ w = Byte * (w \div Byte) + (w % Byte)
    BY <2>1
  <2> QED  BY <2>2
<1>2. IsSet(w, ByteSign) <=> b >= ByteSign
  BY <1>1, LowByteSign
<1>3. /\ Byte = 2 * ByteSign /\ ByteSign \in Nat \ {0} /\ WordSize = 2 * WordSign
      /\ WordSign \in Nat /\ WordSign >= ByteSign
  BY Sizes
<1>4. WordSign >= 2 * ByteSign - ByteSign /\ WordSign = ByteSign * Byte
  BY <1>3 DEF WordSign
<1>5. CASE b < ByteSign
  <2>1. Extended(w) = b
    BY <1>1, <1>2, <1>3, <1>5 DEF Extended
  <2>2. b \in Word /\ b < WordSign
    BY <1>3, <1>5 DEF Word
  <2> QED  BY <1>1, <1>3, <1>5, <2>1, <2>2, SignBit DEF SignedByte
<1>6. CASE b >= ByteSign
  <2>1. Extended(w) = b + (WordSize - Byte)
    BY <1>1, <1>2, <1>6 DEF Extended
  <2>2. b + (WordSize - Byte) \in Word /\ b + (WordSize - Byte) >= WordSign
    BY <1>3, <1>6 DEF Word
  <2> QED  BY <1>1, <1>3, <1>6, <2>1, <2>2, SignBit DEF SignedByte
<1> QED  BY <1>1, <1>3, <1>5, <1>6

(* After SXT the jumps follow the signed byte and the register is as before. *)
THEOREM ExtensionFlagsHold == Spec => ExtensionFlags
<1> DEFINE A == \A source \in GeneralRegister :
                  ExecuteUnary("SXT", source) =>
                      LET low == SignedByte(regs[source] % Byte)
                      IN  /\ regs' = regs
                          /\ Jumps("JN") <=> low < 0
                          /\ Jumps("JEQ") <=> low = 0
<1>1. IInv => A
  <2> SUFFICES ASSUME IInv, NEW source \in GeneralRegister, ExecuteUnary("SXT", source)
               PROVE  LET low == SignedByte(regs[source] % Byte)
                      IN  /\ regs' = regs
                          /\ Jumps("JN") <=> low < 0
                          /\ Jumps("JEQ") <=> low = 0
    OBVIOUS
  <2> DEFINE x == regs[source]
             e == Extended(x)
             c == e # 0
             z == e = 0
             n == IsSet(e, WordSign)
             r == Flagged(e, c, z, n, FALSE)
  <2>1. x \in Word /\ c \in BOOLEAN /\ z \in BOOLEAN /\ n \in BOOLEAN
    BY DEF IInv, TypeOK, IsSet
  <2>2. CalculateUnary("SXT", x, status) = Storing(x, r)
    BY Zenon DEF CalculateUnary, Logical
  <2>3. regs' = regs
    <3>1. Storing(x, r).value = x
      BY DEF Storing, FlaggedResult
    <3>2. regs' = [regs EXCEPT ![source] = CalculateUnary("SXT", x, status).value]
      BY Zenon DEF ExecuteUnary
    <3>3. regs' = [regs EXCEPT ![source] = x]
      BY <2>2, <3>1, <3>2, Zenon
    <3> QED  BY <3>3 DEF IInv, TypeOK
  <2>4. status' = ApplyStatus(status, r)
    <3>1. status' = ApplyStatus(status, CalculateUnary("SXT", x, status))
      BY Zenon DEF ExecuteUnary
    <3>2. ApplyStatus(status, Storing(x, r)) = ApplyStatus(status, r)
      BY DEF ApplyStatus, Storing, FlaggedResult
    <3> QED  BY <2>2, <3>1, <3>2, Zenon
  <2>5. (n <=> SignedByte(x % Byte) < 0) /\ (z <=> SignedByte(x % Byte) = 0)
    BY <2>1, ExtendedFacts
  <2> HIDE DEF x, e, c, z, n
  <2>6. ("N" \in status' <=> n) /\ ("Z" \in status' <=> z)
    BY <2>1, <2>4, FlagsApplied
  <2>7. (Jumps("JN") <=> SignedByte(x % Byte) < 0) /\ (Jumps("JEQ") <=> SignedByte(x % Byte) = 0)
    BY <2>5, <2>6 DEF Jumps, CheckCondition
  <2> QED  BY <2>3, <2>7, Zenon DEF x
<1>2. IInv /\ [Next]_vars => [A]_vars
  BY <1>1
<1> QED  BY <1>2, Inductive, PTL DEF Spec, ExtensionFlags

=============================================================================
