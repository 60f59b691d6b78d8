SPECIFICATION RoutingSpec
CONSTANTS
    p1 = p1
    p2 = p2
    Provider <- MCProviders
    Request = {r1, r2}
    NoProvider = NoProvider
    CooldownDuration = 3
    RecoveryWait = 2
    MaxVersion = 3
    MaxFaults = 3
    Gonka = "gonka"
    NoRoute = "none"
    Absent = Absent
    NoMessage = NoMessage
    FailoverOn404 = FALSE
    Configs <- LegacyConfigs
    Calls <- SmartCalls
    Answers <- FewAnswers
SYMMETRY Symmetry
INVARIANTS
    RoutingInv
    AttemptsRespectBench
PROPERTIES
    CanceledWaitsClearNothing
