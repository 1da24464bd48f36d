CONSTANTS
    Path <- MCPath
    Parent <- MCParent
    Directory = {"/", "/src"}
    HexFile = {"/src/a.hex"}
    WorkingPath = "/"
    Top = 2
    WordOnly = {1}
    Entry = 2
    Value = {0, 1}
    Program <- MCProgram
SPECIFICATION Spec
INVARIANTS
    DrawnListingLives
    LoadIsWhole
    LoadIsListed
PROPERTY RefusedIsNotStarted
