\* Every policy, up to two registrations and two messages.
SPECIFICATION Spec
CONSTANTS
    Null = Null
    Tables <- MCTables
    Policies = {"AutoAdd", "Warn", "Fail"}
    FirstId = 256
    MaxAsks = 2
    MaxMessages = 2
INVARIANT TypeOK
INVARIANT FirstSightWins
INVARIANT OkFits
INVARIANT FormsAgree
INVARIANT Readable
CHECK_DEADLOCK FALSE
