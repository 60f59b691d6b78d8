SPECIFICATION RewriteSpec
CONSTANTS
    Inputs <- MCInputs
    Nil = Nil
    Malformed = Malformed
    Null = Null
CHECK_DEADLOCK FALSE
INVARIANTS
    RefusesOnlyUnsound
    SchemaKeepsMeaning
    EffortIsClosest
