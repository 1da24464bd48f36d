------------------------------- MODULE Frames -------------------------------
(* What calls, interrupts and the stack promise a program: a stack of words  *)
(* that nothing else touches.  A subroutine returns behind its call, what    *)
(* was pushed is popped, and RETI continues the interrupted program where    *)
(* and with the status it was interrupted.                                   *)
EXTENDS Integers, Sequences

CONSTANTS CellCount,     \* words in the memory
          Capacity       \* words the program's stack may grow to

Size == 2 * CellCount
Address == {2 * i : i \in 0..(CellCount - 1)}
Word == 0..(2^16 - 1)

ASSUME FramesAssumption == /\ CellCount \in 1..2^15
                           /\ Capacity \in 0..CellCount

VARIABLES pc, sr, r, frames
vars == <<pc, sr, r, frames>>

(* The bit of the status register that lets interrupts in.                   *)
GieSet(status) == (status \div 8) % 2 = 1
WithoutGie(status) == IF GieSet(status) THEN status - 8 ELSE status

(* The address n words behind the program counter.                           *)
Behind(n) == (pc + 2 * n) % Size

(* The kinds of words on the stack: pushed by the program, by a call, and by *)
(* an interrupt, the address it interrupted and then the status.             *)
Frame(kind, value) == [kind |-> kind, value |-> value]
Kind == {"pushed", "called", "interrupted", "status"}

Top == frames[Len(frames)]
TopIs(kind) == frames # <<>> /\ Top.kind = kind
Room(n) == Len(frames) + n <= Capacity
Below(n) == SubSeq(frames, 1, Len(frames) - n)

Init == /\ pc \in Address
        /\ sr \in Word
        /\ r \in Word
        /\ frames = <<>>

Push == /\ Room(1)
        /\ frames' = Append(frames, Frame("pushed", r))
        /\ pc' = Behind(1)
        /\ UNCHANGED <<sr, r>>

Pop == /\ TopIs("pushed")
       /\ r' = Top.value
       /\ frames' = Below(1)
       /\ pc' = Behind(1)
       /\ UNCHANGED sr

Call == \E words \in {1, 2}, dst \in Address :
          /\ Room(1)
          /\ frames' = Append(frames, Frame("called", Behind(words)))
          /\ pc' = dst
          /\ UNCHANGED <<sr, r>>

Return == /\ TopIs("called")
          /\ pc' = Top.value
          /\ frames' = Below(1)
          /\ UNCHANGED <<sr, r>>

Enter == \E handler \in Address :
           /\ GieSet(sr)
           /\ Room(2)
           /\ frames' = frames \o <<Frame("interrupted", pc), Frame("status", sr)>>
           /\ pc' = handler
           /\ sr' = WithoutGie(sr)
           /\ UNCHANGED r

Reti == /\ TopIs("status")
        /\ sr' = Top.value
        /\ pc' = frames[Len(frames) - 1].value
        /\ frames' = Below(2)
        /\ UNCHANGED r

Other == /\ pc' \in Address
         /\ sr' \in Word /\ GieSet(sr') = GieSet(sr)
         /\ r' \in Word
         /\ UNCHANGED frames

Next == Push \/ Pop \/ Call \/ Return \/ Enter \/ Reti \/ Other
Spec == Init /\ [][Next]_vars
=============================================================================
