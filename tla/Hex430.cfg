CONSTANTS
    Digit <- MCDigit
    AddressDigits = 3
    LineSize = 2
    ProgramSet <- MCProgram
    Text <- MCText
SPECIFICATION Spec
INVARIANTS
    TypeOK
    TiWordsAreRead
    WrittenReadsUnlessGlued
PROPERTY ReadEndsUnlessCutInAddress
CHECK_DEADLOCK FALSE
