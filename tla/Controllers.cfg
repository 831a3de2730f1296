SPECIFICATION Spec
CONSTANTS
    N = 3
    Shared = {"velpid"}
INVARIANTS
    TypeOK
    MemoryOfThisFlight
    DropoutContained
    SharedPoisonTraced
