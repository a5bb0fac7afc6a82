\* As DiskLog.cfg, against the atomic Save that the Storage interface promises.
CONSTANTS
    none = none
    Value <- MCValue
    NoHard = none
    RotateSize = 3
    MaxEntries = 2
    MaxSaves = 3
    MaxRestarts = 3
SPECIFICATION Spec

PROPERTIES SaveIsAtomic
CHECK_DEADLOCK FALSE
