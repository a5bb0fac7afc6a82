CONSTANTS
    n1 = n1
    n2 = n2
    n3 = n3
    n4 = n4
    n5 = n5
    Node = {n1, n2, n3}
    Command = {x}
    Noop = Noop
    Nil = Nil
    Campaigns <- SplitVote
    Links <- AllLinks
    MaxLog = 0
    MaxFail = 2
SPECIFICATION Spec
INVARIANTS
    TypeOK
    SingleLeaderPerTerm
    ElectionInv
CHECK_DEADLOCK FALSE
