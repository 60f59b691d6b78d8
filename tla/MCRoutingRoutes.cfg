SPECIFICATION RoutingSpec
CONSTANTS
    p1 = p1
    p2 = p2
    Provider <- MCProviders
    Request = {r1, r2}
    NoProvider = NoProvider
    CooldownDuration = 2
    RecoveryWait = 1
    MaxVersion = 2
    MaxFaults = 2
    Gonka = "gonka"
    NoRoute = "none"
    Absent = Absent
    NoMessage = NoMessage
    FailoverOn404 = FALSE
    Configs <- RouteConfigs
    Calls <- AllCalls
    Answers <- AllAnswers
SYMMETRY Symmetry
INVARIANTS
    RoutingInv
    FallbacksEnd
    CancellationBenchesNobody
PROPERTIES
    RepliesOnce
    FailureIsOfThisRoute
