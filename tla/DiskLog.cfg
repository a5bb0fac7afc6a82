\* Three Saves of a hard state and up to two entries, with three ends of the process.
CONSTANTS
    none = none
    Value <- MCValue
    NoHard = none
    RotateSize = 3
    MaxEntries = 2
    MaxSaves = 3
    MaxRestarts = 3
SPECIFICATION Spec
INVARIANTS TypeOK NeverCorrupt ServedIsDurable
PROPERTIES RefinesDurableLog
CHECK_DEADLOCK FALSE
