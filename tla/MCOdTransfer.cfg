SPECIFICATION Spec
CONSTANTS
    Byte = {1, 2}
    DataMax = 3
    BufLen = 2
    Payload <- MCPayload
INVARIANTS
    TypeOK
    ReadExact
    WriteExact
    HandleDiscipline
