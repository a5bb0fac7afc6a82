CONSTANTS
    n1 = n1
    n2 = n2
    n3 = n3
    n4 = n4
    n5 = n5
    Node = {n1, n2, n3, n4, n5}
    Command = {x}
    Noop = Noop
    Nil = Nil
    Campaigns <- Contest
    Links <- ContestLinks
    MaxLog = 0
    MaxFail = 0
SPECIFICATION ContestSpec
VIEW NoBallots
INVARIANTS
    LogMatching LeaderCompleteness
CHECK_DEADLOCK FALSE
