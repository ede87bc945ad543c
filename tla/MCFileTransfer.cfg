SPECIFICATION Spec
CONSTANTS
    Name = {"x"}
    Block <- MCBlock
    Content <- MCContent
    Other <- MCOther
    Chosen <- MCChosen
    Absent = Absent
    None = None
INVARIANTS
    TypeOK
    CacheComplete
    WriteDelivered
    ReadSnapshot
PROPERTIES
    AddCompletes
    ReadCopyEnds
CHECK_DEADLOCK FALSE
