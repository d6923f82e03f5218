SPECIFICATION Spec
CONSTANTS
    Masters = {m1, m2}
    Names = {n1}
    Values = {v1}
    IdleTimeout = 3
    LockoutDuration = 2
    MaxFailures = 3
    MaxPending = 1
    Absent = Absent
    Torn = Torn
SYMMETRY MCSymmetry
INVARIANTS
    TypeOK
    GuessesAreSpaced
    StrongAuthIsRecent
    EntriesSurvive
