CONSTANTS
    n1 = n1
    n2 = n2
    n3 = n3
    n4 = n4
    n5 = n5
    Node = {n1, n2, n3}
    Command = {x}
    Noop = Noop
    Nil = Nil
    Campaigns <- Handover
    Links <- HandoverLinks
    MaxLog = 0
    MaxFail = 2
SPECIFICATION Spec
VIEW NoBallots
INVARIANTS
    StorageCurrent AppliedCurrent
    ProgressSound
PROPERTIES
    RefinesReplicatedLog
CHECK_DEADLOCK FALSE
