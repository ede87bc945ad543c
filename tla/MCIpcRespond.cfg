CONSTANTS
    c1 = c1
    c2 = c2
    Client = {c1, c2}
    v1 = v1
    v2 = v2
    Value = {v1, v2}
    Sent <- MCSent
    MaxRestarts <- MCRestarts
    None = None
SPECIFICATION Spec
INVARIANTS TypeOK AnswersOwnRequest SdoTruthful
PROPERTIES AcceptedIsAnswered
CHECK_DEADLOCK FALSE
