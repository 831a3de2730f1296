SPECIFICATION Spec
CONSTANTS
    Platforms = {h1, h2}
    Sources = {s1}
    None = None
    Life <- MCLife
    AreaDt = 3
    SensorDt = 2
    TaskDt = 3
    MaxGap = 2
    MaxT = 6
    MaxEpisodes = 2
INVARIANTS
    TypeOK
    ListIsPlume
    DriftsWithWind
    ReadingIsRecent
    ScoredAtLocations
