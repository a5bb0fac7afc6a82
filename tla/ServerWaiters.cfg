\* Three calls on one node, alone or one of several: terms 1 to 3 and a log of 3 entries are
\* enough for two calls to wait at the same index in different terms.
SPECIFICATION Spec
CONSTANTS
    Call = {c1, c2, c3}
    Other = Other
    Nil = Nil
    MaxTerm = 3
    MaxLog = 3
SYMMETRY CallSymmetry
INVARIANTS TypeOK AnswersOwnEntry StaleIsLost NoneStranded MapsAgree
CHECK_DEADLOCK FALSE
