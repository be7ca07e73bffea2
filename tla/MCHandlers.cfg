SPECIFICATION Spec
CONSTANTS
    Requests = {r1, r2, r3}
    s1 = s1
    s2 = s2
    Replayed <- FromDisk
    Unreadable = {s2}
    yes = yes
    no = no
    Answers = {yes, no}
    NoAnswer = NoAnswer
    OptionsOf <- Offered
    Unusable = {2}
    AtStart = 2
    Limit = 2
    NoRequest = NoRequest
SYMMETRY Symmetry
CHECK_DEADLOCK FALSE
INVARIANTS
    TypeOK
    RetiredStaysRetired
    CorrectedOnce
    PageShowsWhatWasTold
    OutcomesAddUp
    OneEvaluation
