SPECIFICATION MetricsSpec
CONSTANTS
    Provider = {p1, p2}
    Request = {r1, r2}
    Bounds <- MCBounds
    Seconds <- MCSeconds
    MaxAttempts = 3
SYMMETRY Symmetry
CHECK_DEADLOCK FALSE
INVARIANTS
    ScrapesAddUp
    OneResultEach
    HistoryAgrees
    BucketsCount
