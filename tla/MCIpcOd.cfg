CONSTANTS
    c1 = c1
    c2 = c2
    Client = {c1, c2}
    WriteCb = {c1}
    Value = {0, 1, 2}
    Silent = {2}
    Default = 0
    CounterMod = 4
    MaxWrites = 3
    MaxConnects = 2
    None = None
SPECIFICATION Spec
INVARIANTS TypeOK CounterExact CachesSettle
CHECK_DEADLOCK FALSE
