SPECIFICATION Spec
CONSTANTS
    a = a
    b = b
    nul = nul
    Byte = {a, b, nul}
    NUL = nul
    CommandLen = 4
    ReplyLen = 3
    BufLen = 2
    Payload <- MCPayload
    Failed = Failed
    Hangs <- MCHangs
    Output <- MCOutput
INVARIANT ReplyWithinBuffer
CHECK_DEADLOCK FALSE
