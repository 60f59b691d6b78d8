SPECIFICATION HealthSpec
CONSTANTS
    Provider = {p1, p2}
    Request = {r1, r2}
    Persistent = TRUE
    CooldownDuration = 2
    MaxEvents = 2
    Retention = 1
    Window = 1
    PersistInterval = 2
    MaxNow = 3
    MaxOutcomes = 3
    MaxDiskFaults = 1
SYMMETRY Symmetry
INVARIANTS
    HealthInv
    GradesTraffic
    OnlyFreshSuccessesLost
    CooldownsHaveReasons
    CutOnlyByRecord
    ShownOnlyIfBenched
