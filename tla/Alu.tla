-------------------------------- MODULE Alu --------------------------------
(* The arithmetic of utils/instructions.h: what calculate() makes of its     *)
(* operands and which status bits it sets and resets, the conditions of the  *)
(* jumps, and the merge of both into the status register.                    *)
(*                                                                           *)
(* A word is a number below two bytes' worth; the size of the byte is a      *)
(* parameter.  The status register is the set of its bits that are 1.        *)
EXTENDS Integers, FiniteSets, FiniteSetsExt

CONSTANTS ByteSign,   \* the sign bit of a byte, 0x80
          BitCount    \* the bits of a word, 16

Byte == 2 * ByteSign              \* 0x100
WordSign == ByteSign * Byte       \* 0x8000
WordSize == 2 * WordSign          \* 0x10000
Word == 0..(WordSize - 1)

Bit(w, i) == (w \div 2^i) % 2
BitsOf(w) == {i \in 0..(BitCount - 1) : Bit(w, i) = 1}
WordOf(bits) == MapThenSumSet(LAMBDA i : 2^i, bits)

(* BitCount bits are a word.                                                 *)
ASSUME AluAssumption ==
    /\ ByteSign \in Nat \ {0}
    /\ \A bits \in SUBSET (0..(BitCount - 1)) : WordOf(bits) \in Word

-----------------------------------------------------------------------------
(* C, Z, N, V are the bits 0x1, 0x2, 0x4 and 0x80 that calculate() writes.   *)
(* GIE stands for every other bit of the register.                           *)
Flag == {"C", "Z", "N", "V"}
StatusBit == Flag \cup {"GIE"}

BinaryOpcode == {"MOV", "ADD", "ADDC", "SUBC", "SUB", "CMP", "DADD", "BIT",
                 "BIC", "BIS", "XOR", "AND"}
(* The unary instructions that compute; PUSH, CALL and RETI use the stack.   *)
UnaryOpcode == {"RRC", "RRA", "SWPB", "SXT"}

FlaggedResult(value, set, reset) == [value |-> value, set |-> set, reset |-> reset]

(* A result that leaves the flags alone.                                     *)
Plain(value) == FlaggedResult(value, {}, {})

(* The nine lines every flagged case of calculate() ends with.               *)
Flagged(value, c, z, n, v) ==
    LET set == {f \in Flag : \/ f = "C" /\ c
                             \/ f = "Z" /\ z
                             \/ f = "N" /\ n
                             \/ f = "V" /\ v}
    IN  FlaggedResult(value, set, Flag \ set)

Wrap(x) == x % WordSize                        \* the conversion to uint16_t
IsSet(w, mask) == (w \div mask) % 2 = 1        \* (w & mask) != 0
(* A mistake: CMP.B left at the word's sign.                                 *)
SignOfMut(bw) == WordSign

SignOf(bw) == IF bw THEN ByteSign ELSE WordSign

(* A mistake: overflow looked for only in the positive direction.            *)
SumOverflowsMut(s, d, r) == ~s /\ ~d /\ r

SumOverflows(s, d, r) == \/ s /\ d /\ ~r
                         \/ ~s /\ ~d /\ r
(* A mistake: source minus dest.                                             *)
DifferenceOverflowsMut(s, d, r) == \/ ~s /\ d /\ r
                                   \/ s /\ ~d /\ ~r

DifferenceOverflows(s, d, r) == \/ ~d /\ s /\ r
                                \/ d /\ ~s /\ ~r

Sum(source, dest, carry) ==
    LET result == Wrap(source + dest + carry)
        n == IsSet(result, WordSign)
    IN  Flagged(result, FALSE, result = 0, n,
                SumOverflows(IsSet(source, WordSign), IsSet(dest, WordSign), n))

Difference(source, dest, carry, sign) ==
    LET result == Wrap(dest - source + carry)
        n == IsSet(result, sign)
    IN  Flagged(result, FALSE, result = 0, n,
                DifferenceOverflows(IsSet(source, sign), IsSet(dest, sign), n))

(* AND, BIT, XOR, and the flags of SXT: C is "not zero".                     *)
Logical(result, sign, v) ==
    Flagged(result, result # 0, result = 0, IsSet(result, sign), v)

(* CMP, BIT and SXT set the flags of one value and store another.            *)
Storing(value, r) == FlaggedResult(value, r.set, r.reset)

CalculateBinary(opcode, source, dest, status, bw) ==
    LET s == BitsOf(source)
        d == BitsOf(dest)
        carry == IF "C" \in status THEN 1 ELSE 0
    IN  CASE opcode = "MOV"  -> Plain(source)
          [] opcode = "ADD"  -> Sum(source, dest, 0)
          [] opcode = "ADDC" -> Sum(source, dest, carry)
          [] opcode = "SUB"  -> Difference(source, dest, 0, WordSign)
          [] opcode = "SUBC" -> Difference(source, dest, carry, WordSign)
          [] opcode = "CMP"  -> Storing(dest, Difference(source, dest, 0, SignOf(bw)))
          [] opcode = "DADD" -> Plain(Wrap(dest + source))
          [] opcode = "AND"  -> Logical(WordOf(s \cap d), WordSign, FALSE)
          [] opcode = "BIT"  -> Storing(dest, Logical(WordOf(s \cap d), SignOf(bw), FALSE))
          [] opcode = "XOR"  -> Logical(WordOf((s \ d) \cup (d \ s)), WordSign,
                                     IsSet(source, WordSign) /\ IsSet(dest, WordSign))
          [] opcode = "BIC"  -> Plain(WordOf(d \ s))
          [] opcode = "BIS"  -> Plain(WordOf(d \cup s))

(* A mistake: C computed after the shift.                                    *)
RotatedMut(value, top) ==
    LET result == (value \div 2) + (IF top THEN WordSign ELSE 0)
    IN  Flagged(result, result % 2 = 1, result = 0, IsSet(result, WordSign), FALSE)

(* RRC and RRA: the bit that leaves on the right becomes C.                  *)
Rotated(value, top) ==
    LET result == (value \div 2) + (IF top THEN WordSign ELSE 0)
    IN  Flagged(result, value % 2 = 1, result = 0, IsSet(result, WordSign), FALSE)

(* SXT.  The mistake: the upper byte is not filled.                          *)
ExtendedMut(value) == value % Byte
Extended(value) ==
    (value % Byte) + (IF IsSet(value, ByteSign) THEN WordSize - Byte ELSE 0)

CalculateUnary(opcode, value, status) ==
    CASE opcode = "RRC"  -> Rotated(value, "C" \in status)
      [] opcode = "RRA"  -> Rotated(value, IsSet(value, WordSign))
      [] opcode = "SWPB" -> Plain(Byte * (value % Byte) + (value \div Byte))
      [] opcode = "SXT"  -> Storing(value, Logical(Extended(value), WordSign, FALSE))

(* A mistake: the reset flags stay.                                          *)
ApplyStatusKeepMut(status, r) == status \cup r.set

ApplyStatus(status, r) == (status \cup r.set) \ r.reset

CheckCondition(condition, status) ==
    CASE condition = "JNE" -> "Z" \notin status
      [] condition = "JEQ" -> "Z" \in status
      [] condition = "JNC" -> "C" \notin status
      [] condition = "JC"  -> "C" \in status
      [] condition = "JN"  -> "N" \in status
      [] condition = "JGE" -> ("N" \in status) <=> ("V" \in status)
      [] condition = "JL"  -> ("N" \in status) # ("V" \in status)
      [] condition = "JMP" -> TRUE

-----------------------------------------------------------------------------
(* What a programmer reads into a word: the two's complement number.         *)
Signed(w) == IF w < WordSign THEN w ELSE w - WordSize
SignedByte(w) == IF w < ByteSign THEN w ELSE w - Byte
SignedRange == (-WordSign)..(WordSign - 1)
=============================================================================
