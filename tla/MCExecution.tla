---------------------------- MODULE MCExecution -----------------------------
(***************************************************************************)
(* Words of four bits, hence sixteen cells: four of bytes, two of words.   *)
(* The only constant is -1, which RRA leaves as it is.  Bytes and words;   *)
(* of the pairs of operands those that share a register, go through the    *)
(* program counter or the stack pointer, or reach behind the memory.       *)
(***************************************************************************)
EXTENDS Execution

Op(mode, r) == [mode |-> mode, reg |-> r]
MCBinary == [opcode : {"binary"}, bw : BOOLEAN,
    source : {Op("register", "PC"), Op("indexed", "SP"), Op("increment", "SP"),
              Op("increment", "PC"), Op("indirect", "R"), Op("label", "SR"),
              Op("constant", 15)},
    dest : {Op("register", "PC"), Op("register", "SP"), Op("register", "R"), Op("register", "SR"),
            Op("indexed", "R"), Op("indexed", "PC"), Op("label", "SR")}]
MCUnary == [opcode : {"RRA", "PUSH", "CALL"}, bw : BOOLEAN,
    source : {Op("register", "SP"), Op("register", "R"), Op("increment", "PC"),
              Op("increment", "SP"), Op("indexed", "R"), Op("constant", 15)},
    dest : {Op("register", "SR")}]
MCOther == [opcode : {"RETI", "jump", "none"}, bw : {FALSE},
    source : {Op("register", "PC")}, dest : {Op("register", "SR")}]
MCInstruction == MCBinary \cup MCUnary \cup MCOther

(* The instructions of ConstantsHold: shifts of a constant and of a register.*)
MCShift == [opcode : Shift, bw : BOOLEAN,
    source : {Op("register", "R"), Op("constant", 4)}, dest : {Op("register", "SR")}]
=============================================================================
