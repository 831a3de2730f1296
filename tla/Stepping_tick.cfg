SPECIFICATION Spec
CONSTANTS
    EnvObjs = {"wind"}
    Sensors = {"gyroscope", "altimeter"}
    N = 2
    DT = 4
    TaskDt = 8
    Dts = {3, 4, 6, 8, 12}
    Cells = 2
    MaxT = 24
INVARIANTS
    TypeOK
    UpdatedOnTime
    NoValidPairCollides
