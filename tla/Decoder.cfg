SPECIFICATION Walk
INVARIANTS LengthsMatch Reassembles ConstantsMatch
CHECK_DEADLOCK FALSE
