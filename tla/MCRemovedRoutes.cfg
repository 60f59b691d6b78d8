SPECIFICATION StateSpec
CONSTANTS
    p1 = "p1"
    p2 = "p2"
    p3 = "p3"
    Command = {c1, c2}
    Down = Down
    Gonka = "gonka"
    NoRoute = "none"
    Bases <- LoneBases
    FirstFiles <- MCFirstFiles
    Amounts = {0, 1, 2}
SYMMETRY Commands
INVARIANTS
    RemovedRoutesRefused
