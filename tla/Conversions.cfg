SPECIFICATION Spec
CONSTANTS
    MaxLam = 9
    FE = 500
    FN = 91
    Krueger <- MCKrueger
    Inverse <- MCInverse
    Sites <- MCSites
    Inputs <- MCInputs
    Flights <- MCFlights
    MaxCols = 2
    Coefs <- MCCoefs
    MaxPow = 5
INVARIANTS
    TypeOK
    SamePlace
    Chainable
    SeriesSummed
