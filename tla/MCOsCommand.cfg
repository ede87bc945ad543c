SPECIFICATION Spec
CONSTANTS
    a = a
    b = b
    nul = nul
    Byte = {a, b, nul}
    NUL = nul
    CommandLen = 4
    ReplyLen = 4
    BufLen = 2
    Payload <- MCPayload
    Failed = Failed
    Hangs <- MCHangs
    Output <- MCOutput
INVARIANTS
    TypeOK
    RunsAcceptedCommand
    ReplyReadWhole
PROPERTIES
    ImplementsCommandObject
    CommandCompletes
    FreeReturns
CHECK_DEADLOCK FALSE
