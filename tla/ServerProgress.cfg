\* Two calls, two terms; the node is alone or one of several.
SPECIFICATION FairSpec
CONSTANTS
    Call = {c1, c2}
    Other = Other
    Nil = Nil
    MaxTerm = 2
    MaxLog = 3
PROPERTIES MutexReleased CallsReturn
CHECK_DEADLOCK FALSE
