SPECIFICATION MachineSpec
CONSTANTS
    CellCount = 4
    Capacity = 4
    Base = 2
    Data = {0, 1}
    Status = {0, 8}
INVARIANT StackInMemory
PROPERTY FramesSpec
