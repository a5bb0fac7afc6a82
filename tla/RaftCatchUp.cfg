CONSTANTS
    n1 = n1
    n2 = n2
    n3 = n3
    n4 = n4
    n5 = n5
    Node = {n1, n2, n3}
    Command = {x}
    Noop = Noop
    Nil = Nil
    Campaigns <- Diverged
    Links <- AllLinks
    MaxLog = 2
    MaxFail = 1
SPECIFICATION DivergedSpec
PROPERTIES
    LeaderCatchesUp
CHECK_DEADLOCK FALSE
