-------------------------- MODULE RegisterMachine --------------------------
(* instruction::execute() (utils/instructions.h 301-370) for operands in     *)
(* registers: a program of binary and unary instructions and conditional     *)
(* jumps over the general registers and the status register.  A register     *)
(* operand is a word whatever the B/W bit says (addressing.h 103-105).       *)
EXTENDS Alu

CONSTANT GeneralRegister       \* R4 .. R15

VARIABLES regs, status
vars == <<regs, status>>

TypeOK == /\ regs \in [GeneralRegister -> Word]
          /\ status \in SUBSET StatusBit

(* Whatever the program has moved into its registers, GIE on or off.         *)
Init == /\ regs \in [GeneralRegister -> Word]
        /\ status \in {{}, {"GIE"}}

ExecuteBinary(opcode, bw, source, dest) ==
    LET result == CalculateBinary(opcode, regs[source], regs[dest], status, bw)
    IN  /\ regs' = [regs EXCEPT ![dest] = result.value]
        /\ status' = ApplyStatus(status, result)

ExecuteUnary(opcode, source) ==
    LET result == CalculateUnary(opcode, regs[source], status)
    IN  /\ regs' = [regs EXCEPT ![source] = result.value]
        /\ status' = ApplyStatus(status, result)

Next == \/ \E opcode \in BinaryOpcode, bw \in BOOLEAN,
              source, dest \in GeneralRegister :
                 ExecuteBinary(opcode, bw, source, dest)
        \/ \E opcode \in UnaryOpcode, source \in GeneralRegister :
                 ExecuteUnary(opcode, source)

Spec == Init /\ [][Next]_vars

-----------------------------------------------------------------------------
Jumps(condition) == CheckCondition(condition, status')

(* What the signed jumps decide after a comparison of x with y.              *)
Decides(x, y) == /\ Jumps("JL") <=> x < y
                 /\ Jumps("JGE") <=> x >= y
                 /\ Jumps("JEQ") <=> x = y
                 /\ Jumps("JNE") <=> x # y

(* A signed comparison survives overflow: after CMP or SUB the jumps JL,     *)
(* JGE, JEQ and JNE (instructions.h 101-114) follow the order of the two     *)
(* numbers, the destination on the left, for every pair of words.            *)
SignedOrder ==
    [][\A bw \in BOOLEAN, source, dest \in GeneralRegister :
          (ExecuteBinary("CMP", FALSE, source, dest) \/ ExecuteBinary("SUB", bw, source, dest))
             => Decides(Signed(regs[dest]), Signed(regs[source]))]_vars

(* CMP.B looks at the sign of the byte (line 230) but at the zero of the     *)
(* word (237): between registers that hold bytes the jumps follow the order  *)
(* of the signed bytes.                                                      *)
ByteOrder ==
    [][\A source, dest \in GeneralRegister :
          (regs[source] < Byte /\ regs[dest] < Byte /\ ExecuteBinary("CMP", TRUE, source, dest))
             => Decides(SignedByte(regs[dest]), SignedByte(regs[source]))]_vars

(* V tells exactly when a sum or a difference does not fit: ADD, ADDC with   *)
(* its carry, SUB (lines 145, 161, 189).                                     *)
OverflowIsExact ==
    [][\A bw \in BOOLEAN, source, dest \in GeneralRegister :
          LET x == Signed(regs[dest])
              y == Signed(regs[source])
              c == IF "C" \in status THEN 1 ELSE 0
              Fits(sum) == "V" \in status' <=> sum \notin SignedRange
          IN  /\ ExecuteBinary("ADD", bw, source, dest) => Fits(x + y)
              /\ ExecuteBinary("ADDC", bw, source, dest) => Fits(x + y + c)
              /\ ExecuteBinary("SUB", bw, source, dest) => Fits(x - y)]_vars

(* SUBC adds the carry to the difference without the minus one of a borrow,  *)
(* and takes V from the signs as SUB does (lines 201-205).  V is right for   *)
(* what it computes except where the carry goes through all the lower bits:  *)
(* C set, the source 0 or the least number, the destination -1 or the        *)
(* greatest.  For those it says the contrary.                                *)
CarryOverflows ==
    [][\A bw \in BOOLEAN, source, dest \in GeneralRegister :
          LET x == Signed(regs[dest])
              y == Signed(regs[source])
              c == IF "C" \in status THEN 1 ELSE 0
          IN  ExecuteBinary("SUBC", bw, source, dest) =>
                 ("V" \in status' <=> x - y + c \notin SignedRange)
                    <=> ~ (/\ c = 1
                           /\ y \in {0, -WordSign}
                           /\ x \in {-1, WordSign - 1})]_vars

(* A rotation loses nothing: what RRC shifts out is in C and what was in C   *)
(* is the new sign, so the register and C together hold the same bits; RRA   *)
(* halves the signed number and leaves the remainder in C (lines 37-62).     *)
RotationKeepsBits ==
    [][\A source \in GeneralRegister :
          LET out == IF "C" \in status' THEN 1 ELSE 0
              in == IF "C" \in status THEN WordSize ELSE 0
          IN  /\ ExecuteUnary("RRC", source)
                    => 2 * regs'[source] + out = in + regs[source]
              /\ ExecuteUnary("RRA", source)
                    => 2 * Signed(regs'[source]) + out = Signed(regs[source])]_vars

(* SXT sets its flags as if it had extended the byte, and leaves the         *)
(* register alone: N is the sign of the low byte, Z its zero, whatever the   *)
(* word was, so a jump after it may contradict the register (lines 67-84).   *)
ExtensionFlags ==
    [][\A source \in GeneralRegister :
          ExecuteUnary("SXT", source) =>
              LET low == SignedByte(regs[source] % Byte)
              IN  /\ regs' = regs
                  /\ Jumps("JN") <=> low < 0
                  /\ Jumps("JEQ") <=> low = 0]_vars

(* The flags agree with each other: no instruction leaves a status that is   *)
(* both zero and negative, however flags of different instructions mix       *)
(* (apply_status, 297-299).                                                  *)
FlagsAgree == ~ {"Z", "N"} \subseteq status

(* NOT OF THIS CODE: the unsigned jump.  opcodes.h:154 names it JC/JHS, jump *)
(* if higher or same.                                                        *)
HigherOrSame ==
    [][\A source, dest \in GeneralRegister :
          ExecuteBinary("CMP", FALSE, source, dest)
             => (Jumps("JC") <=> regs[dest] >= regs[source])]_vars
=============================================================================
