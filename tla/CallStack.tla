----------------------------- MODULE CallStack -----------------------------
(* The stack in memory: PUSH, POP (MOV @SP+,Rn), CALL, RET (MOV @SP+,PC),    *)
(* RETI of utils/instructions.h and interrupt_step() of core/pipeline.h.     *)
(*                                                                           *)
(* The program is any that pops what it pushed, returns from what it called  *)
(* and keeps its stack within Capacity words of ordinary memory: frames is a *)
(* history of the words on the stack that guards the program's choice and    *)
(* that no instruction reads.  Interrupts come whenever GIE is set.          *)
EXTENDS Frames

CONSTANTS Base,          \* the stack pointer a program starts with
          Data,          \* the values it computes
          Status         \* the values of the status register

ASSUME CallStackAssumption == /\ Base \in Address
                              /\ Data \subseteq Word
                              /\ Status \subseteq Word

VARIABLES memory, sp
allVars == <<pc, sr, r, frames, memory, sp>>

MachineInit == /\ pc \in Address
               /\ sr \in Status
               /\ r \in Data
               /\ frames = <<>>
               /\ memory = [a \in Address |-> 0]
               /\ sp = Base

-----------------------------------------------------------------------------
(* Registers hold 16 bits: the stack pointer wraps around in the memory.     *)
Down(address) == (address - 2) % Size
Up(address) == (address + 2) % Size

(* The cell of the n-th word of the stack.                                   *)
Slot(n) == (Base - 2 * n) % Size

(* The source is read before the stack pointer moves.                        *)
DoPush == /\ Room(1)
          /\ sp' = Down(sp)
          /\ memory' = [memory EXCEPT ![sp'] = r]
          /\ pc' = Behind(1)
          /\ frames' = Append(frames, Frame("pushed", r))
          /\ UNCHANGED <<sr, r>>

DoPop == /\ TopIs("pushed")
         /\ r' = memory[sp]
         /\ sp' = Up(sp)
         /\ pc' = Behind(1)
         /\ frames' = Below(1)
         /\ UNCHANGED <<sr, memory>>

(* A mistake: the program counter is pushed before the operand is read.      *)
DoCallMut == \E words \in {1, 2}, dst \in Address :
    /\ Room(1)
    /\ sp' = Down(sp)
    /\ memory' = [memory EXCEPT ![sp'] = Behind(1)]
    /\ pc' = dst
    /\ frames' = Append(frames, Frame("called", Behind(words)))
    /\ UNCHANGED <<sr, r>>
(* CALL of a register takes one word, CALL of an immediate two: by then the  *)
(* program counter is behind both.                                           *)
DoCall == \E words \in {1, 2}, dst \in Address :
    /\ Room(1)
    /\ sp' = Down(sp)
    /\ memory' = [memory EXCEPT ![sp'] = Behind(words)]
    /\ pc' = dst
    /\ frames' = Append(frames, Frame("called", Behind(words)))
    /\ UNCHANGED <<sr, r>>

DoReturn == /\ TopIs("called")
            /\ pc' = memory[sp]
            /\ sp' = Up(sp)
            /\ frames' = Below(1)
            /\ UNCHANGED <<sr, r, memory>>

(* The program counter goes first, the status on top of it.                  *)
DoEnter == \E handler \in Address :
    /\ GieSet(sr)
    /\ Room(2)
    /\ sp' = Down(Down(sp))
    /\ memory' = [memory EXCEPT ![Down(sp)] = pc, ![sp'] = sr]
    /\ pc' = handler
    /\ sr' = WithoutGie(sr)
    /\ frames' = frames \o <<Frame("interrupted", pc), Frame("status", sr)>>
    /\ UNCHANGED r

(* A mistake: the stack pointer is moved by one word.                        *)
DoRetiMut == /\ TopIs("status")
             /\ sr' = memory[sp]
             /\ pc' = memory[Up(sp)]
             /\ sp' = Up(sp)
             /\ frames' = Below(2)
             /\ UNCHANGED <<r, memory>>
DoReti == /\ TopIs("status")
          /\ sr' = memory[sp]
          /\ pc' = memory[Up(sp)]
          /\ sp' = Up(Up(sp))
          /\ frames' = Below(2)
          /\ UNCHANGED <<r, memory>>

(* Everything else a program does between registers: it computes, with new   *)
(* flags, and jumps.  GIE is out of its reach (see PortInterrupts).          *)
Compute == /\ r' \in Data
           /\ sr' \in Status /\ GieSet(sr') = GieSet(sr)
           /\ pc' = Behind(1)
           /\ UNCHANGED <<frames, memory, sp>>

(* A program writes to the memory that is not its stack.                     *)
Store == \E a \in Address :
    /\ a \notin {Slot(n) : n \in 1..Len(frames)}
    /\ memory' = [memory EXCEPT ![a] = r]
    /\ pc' = Behind(2)
    /\ UNCHANGED <<sr, r, frames, sp>>

Jump == /\ pc' \in Address
        /\ UNCHANGED <<sr, r, frames, memory, sp>>

MachineNext == DoPush \/ DoPop \/ DoCall \/ DoReturn \/ DoEnter \/ DoReti \/ Compute \/ Store \/ Jump
MachineSpec == MachineInit /\ [][MachineNext]_allVars

-----------------------------------------------------------------------------
(* Properties.                                                               *)

TypeOK == /\ pc \in Address
          /\ sr \in Word
          /\ r \in Word
          /\ frames \in Seq([kind : Kind, value : Word])
          /\ memory \in [Address -> Word]
          /\ sp \in Address

(* The words a program has on its stack are in memory, in order, down to the *)
(* stack pointer: calls, pushes and interrupts do not overwrite each other,  *)
(* and returns leave exactly what was there before.                          *)
StackInMemory == /\ sp = Slot(Len(frames))
                 /\ \A n \in 1..Len(frames) : memory[Slot(n)] = frames[n].value

(* An interrupt is invisible to the program: RETI comes back to the address, *)
(* the status and the stack pointer it came from, whatever was called and    *)
(* pushed in between.  Likewise a return goes behind the call and POP gives  *)
(* what PUSH took: the machine implements the stack of Frames.               *)
FramesSpec == Spec
=============================================================================
