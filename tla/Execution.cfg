CONSTANTS
    ByteSign = 2
    BitCount = 4
    ByteOnly = {0, 1, 2, 3}
    WordOnly = {4, 5}
    Read = {3, 5, 10, 15}
    Constant = {15}
    Instruction <- MCInstruction
SPECIFICATION Spec
INVARIANTS
    RegionsKept
    OutsideIsIndexed
PROPERTY ParityIsKept
