SPECIFICATION Spec
CONSTANTS
    FileTypes <- MCFileTypes
    MaxFiles = 2
    Modes = {"datamc"}
INVARIANTS
    OnlyTrainingLeftOut
CHECK_DEADLOCK FALSE
