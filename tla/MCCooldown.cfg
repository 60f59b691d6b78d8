SPECIFICATION CooldownSpec
CONSTANTS
    Provider = {p1, p2}
    Request = {r1, r2, r3}
    NoProvider = NoProvider
    CooldownDuration = 3
    RecoveryWait = 2
    MaxVersion = 4
SYMMETRY Symmetry
INVARIANTS
    CooldownInv
    EarnedBench
PROPERTIES
    ClearsWhatItSaw
