----------------------------- MODULE Decompiler -----------------------------
(* The linear sweep of emulator/decompiler.h: from address 0 to the end of   *)
(* the memory, instruction after instruction, then the labels.  The address  *)
(* space has CellCount words; on the machine it is 2^15 words, and the       *)
(* program counter wraps around at its end.                                  *)
EXTENDS Encoding, FiniteSets

CONSTANTS CellCount,     \* words in the memory
          MemoryWord,    \* what a word of the memory may hold
          VectorOf,      \* the addresses of the interrupt vectors
          MaxListing     \* bound: items of the listing that are kept

Size == 2 * CellCount
Address == {2 * i : i \in 0..(CellCount - 1)}
Vector == {"RESET", "PORT1", "PORT2"}

ASSUME DecompilerAssumption ==
    /\ CellCount \in Nat \ {0}
    /\ MemoryWord \subseteq InstructionWord
    /\ VectorOf \in [Vector -> Address]
    /\ \A v, w \in Vector : VectorOf[v] = VectorOf[w] => v = w
    /\ MaxListing \in Nat /\ MaxListing >= CellCount

VARIABLES memory, pc, instructions, labels, phase
vars == <<memory, pc, instructions, labels, phase>>

NoLabel == "none"

VectorLabel(v) == CASE v = "RESET" -> "RESET_VECTOR"
                    [] v = "PORT1" -> "PORT1_VECTOR"
                    [] v = "PORT2" -> "PORT2_VECTOR"
HandlerLabel(v) == CASE v = "RESET" -> "RESET_HANDLER"
                     [] v = "PORT1" -> "PORT1_HANDLER"
                     [] v = "PORT2" -> "PORT2_HANDLER"

(* labels is a map, a function on the addresses it contains; to assign to    *)
(* labels[address] enters the address or names it anew.                      *)
Entered(map, address, name) ==
    [a \in (DOMAIN map) \cup {address} |-> IF a = address THEN name ELSE map[a]]

Init == /\ memory \in [Address -> MemoryWord]
        /\ pc = 0
        /\ instructions = <<>>
        /\ labels = << >>
        /\ phase = "sweep"

-----------------------------------------------------------------------------
Advance(address, count) == (address + 2 * count) % Size

(* A mistake: the target is counted from the jump itself.                    *)
JumpTargetMut(address, offset) == (address + offset) % Size
(* The jump is decompiled with the program counter behind it.                *)
JumpTarget(address, offset) == (address + 2 + offset) % Size

(* A mistake: the last word of the memory has to be an instruction's own.    *)
AtEndMut(from, to) == from = Size - 2
(* The only way out of the loop: the program counter, which always is at     *)
(* most 0xFFFE, comes to stand on 0.                                         *)
AtEnd(from, to) == to = 0

Item(address, instruction) ==
    [pc |-> address, instruction |-> instruction, label |-> NoLabel]

(* One round of decompile_instructions(): the word and what its operands     *)
(* take; words that are no instruction are left out of the listing.          *)
Sweep ==
    /\ phase = "sweep"
    /\ LET i == Decode(memory[pc])
       IN  /\ pc' = Advance(pc, WordCount(i))
           /\ instructions' = IF i.format = "UNIMPL_OP" \/ Len(instructions) = MaxListing
                                THEN instructions
                                ELSE Append(instructions, Item(pc, i))
           /\ labels' = IF i.format = "JUMP_OP"
                          THEN Entered(labels, JumpTarget(pc, i.signed_offset), "LABEL")
                          ELSE labels
    /\ phase' = IF AtEnd(pc, pc') THEN "postprocess" ELSE phase
    /\ UNCHANGED memory

(* The handlers' names replace those of jump targets, Port 2's comes last.   *)
HandlerLabels(known) ==
    LET named(map, v) == Entered(map, memory[VectorOf[v]], HandlerLabel(v))
    IN  named(named(named(known, "RESET"), "PORT1"), "PORT2")

(* A mistake: a jump target in the vector table hides the vector.            *)
LabelForMut(address, known) ==
    IF address \in DOMAIN known THEN known[address]
    ELSE IF \E v \in Vector : VectorOf[v] = address
           THEN VectorLabel(CHOOSE v \in Vector : VectorOf[v] = address)
           ELSE NoLabel

(* What is shown at an address: the vector that it is, or its label.         *)
LabelFor(address, known) ==
    IF \E v \in Vector : VectorOf[v] = address
      THEN VectorLabel(CHOOSE v \in Vector : VectorOf[v] = address)
      ELSE IF address \in DOMAIN known THEN known[address] ELSE NoLabel

(* postprocess_jump_labels() and postprocess_interrupt_labels().             *)
Postprocess ==
    /\ phase = "postprocess"
    /\ labels' = HandlerLabels(labels)
    /\ instructions' = [n \in DOMAIN instructions |->
                          [instructions[n] EXCEPT !.label = LabelFor(instructions[n].pc, labels')]]
    /\ phase' = "done"
    /\ UNCHANGED <<memory, pc>>

Next == Sweep \/ Postprocess

(* decompile() runs to its end in the GUI thread, which draws nothing until   *)
(* then (emugui.h:152).                                                      *)
Spec == Init /\ [][Next]_vars /\ WF_vars(Next)

-----------------------------------------------------------------------------
(* Properties.                                                               *)

LabelName == {"LABEL"} \cup {VectorLabel(v) : v \in Vector} \cup {HandlerLabel(v) : v \in Vector}

TypeOK == /\ memory \in [Address -> MemoryWord]
          /\ pc \in Address
          /\ instructions \in Seq([pc : Address, instruction : {Decode(w) : w \in MemoryWord},
                                   label : LabelName \cup {NoLabel}])
          /\ \A a \in DOMAIN labels : labels[a] \in LabelName
          /\ phase \in {"sweep", "postprocess", "done"}

(* The end of an instruction by its bits, and the end of what the sweep      *)
(* takes for it.                                                             *)
End(address) == address + 2 * Length(memory[address])
Taken(n) == instructions[n].pc + 2 * WordCount(instructions[n].instruction)

(* An instruction that begins in the memory and ends behind it.              *)
Straddles == \E n \in DOMAIN instructions : Taken(n) > Size

Covers(n, address) == instructions[n].pc <= address /\ address < End(instructions[n].pc)

(* A word an instruction with the operand @PC takes although it is not its.  *)
Swallowed(address) ==
    \E n \in DOMAIN instructions :
        TakesAtPC(instructions[n].instruction) /\ address = End(instructions[n].pc)

(* The listing is a partition of the memory: each word is in one instruction *)
(* and no other, or in none because it is no instruction, or because it is   *)
(* behind one with the operand @PC.  (Unless one reaches over the end of the *)
(* memory: the sweep then begins again in the middle.)                       *)
ListingTilesMemory ==
    (phase = "done" /\ ~Straddles) =>
      \A a \in Address :
        LET covering == {n \in DOMAIN instructions : Covers(n, a)}
        IN  \/ Cardinality(covering) = 1
            \/ covering = {} /\ (Bits(memory[a], 12, 4) = 0 \/ Swallowed(a))

(* Wherever a jump of the listing lands on an instruction of the listing,    *)
(* that instruction has a label to be found by.                              *)
JumpTargetsLabelled ==
    phase = "done" =>
      \A m, n \in DOMAIN instructions :
        LET jump == instructions[m].instruction
        IN  /\ jump.format = "JUMP_OP"
            /\ instructions[n].pc = (instructions[m].pc + 2 + jump.signed_offset) % Size
            => instructions[n].label # NoLabel

(* The names of vectors and handlers are given where they belong, and no     *)
(* jump target takes one away: a word of the vector table is named after its *)
(* vector, a handler after one of the vectors that hold its address.         *)
VectorsNamed ==
    phase = "done" =>
      \A n \in DOMAIN instructions :
        LET here == {v \in Vector : VectorOf[v] = instructions[n].pc}
            handled == {v \in Vector : memory[VectorOf[v]] = instructions[n].pc}
        IN  /\ here # {} => instructions[n].label \in {VectorLabel(v) : v \in here}
            /\ (here = {} /\ handled # {}) =>
                   instructions[n].label \in {HandlerLabel(v) : v \in handled}

(* The sweep ends, or an instruction reaches over the end of the memory (as  *)
(* 0x4410 in the last word does: the sweep may then go on for ever).         *)
EndsOrStraddles == <>(phase = "done" \/ Straddles)
=============================================================================
