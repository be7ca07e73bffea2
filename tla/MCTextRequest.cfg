SPECIFICATION Spec
CONSTANTS
    Models <- MCModels
    Bodies <- MCBodies
    Blank <- MCBlank
    Value <- MCValue
    None = None
    Other = Other
    NoModel = NoModel
    NaN = NaN
    Below = Below
    Unit <- MCUnit
    Distributions <- MCDistributions
    MaxQuestions = 3
    MinOptions = 2
    MaxOptions = 3
    MaxPlanned = 2048
    Deadline = 1
    Delay = 1
    Patience = 3
    MaxClock = 4
CHECK_DEADLOCK FALSE
INVARIANTS
    TypeOK
    BatchesFit
    AnswersItsInput
    LimitsAreKept
    ContractHolds
PROPERTIES
    NoBatchForTheGone
