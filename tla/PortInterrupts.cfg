SPECIFICATION FairSpec
CONSTANT
    Program <- MCProgram
INVARIANTS
    HandlersDoNotNest
    GieFollowsContext
PROPERTIES
    OnlyOverlapLoses
    FlagsAreWanted
    PortsServed
