SPECIFICATION Spec
CONSTANTS
    Procs = {p1}
    States = {Zero, Off, On}
    Zero = Zero
    Off = Off
    None = None
    Empty = Empty
    Torn = Torn
    MaxSequence = 4
    MaxWrites = 6
    MaxFaults = 3
INVARIANT ToldSurvives
CHECK_DEADLOCK FALSE
