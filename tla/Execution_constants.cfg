CONSTANTS
    ByteSign = 2
    BitCount = 4
    ByteOnly = {}
    WordOnly = {}
    Read = {3, 10}
    Constant = {4}
    Instruction <- MCShift
SPECIFICATION Spec
INVARIANT ConstantsHold
