\* Logs of five entries; one call of the file system fails, the process ends twice,
\* and ForceFlush, compact or Close is called once.
CONSTANTS
    Absent = Absent
    Tombstone = Tombstone
    Logs <- MCLogs
    Key <- MCKey
    Probes <- MCProbes
    BlockTarget = 1
    SizeClassBase = 2
    FlushThreshold = 3
    FanIn = 2
    MaxErrors = 1
    MaxStops = 2
    MaxCalls = 1
SPECIFICATION Spec
INVARIANTS Recoverable ReadsNewest RemovalsRemembered
PROPERTIES ImplementsMap OpenCleans
CHECK_DEADLOCK FALSE
