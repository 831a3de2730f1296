SPECIFICATION Spec
CONSTANTS
    MaxLam = 9
    FE = 500
    FN = 91
    Krueger <- MCKrueger
    Inverse <- MCInverse
    Origin <- MCOrigin
    Newton = 3
    Rate = 2
    Part = 2
    MaxSpin = 0
    Delay = 1
    Div = 2
    Within <- MCWithin
    Vels <- MCVels
    Commands <- MCCommands
    Accs <- MCAccs
    MaxAcc = 1
    SpinRange = 2
    Spins = {2}
    Weight = 9
    Thrusts = {6}
INVARIANTS
    TypeOK
    SpinLimited
    ReadsDelayed
    TrueInZone
PROPERTIES
    NeverPastGoal
    RateLimited
