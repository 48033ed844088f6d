SPECIFICATION RunSpec
CONSTANTS
    a = a
    b = b
    Segments <- MCSegments
    Task <- MCTask
    Worker = {w1, w2}
    NoTask = NoTask
\* The programs end.
CHECK_DEADLOCK FALSE
INVARIANTS
    NoQueryDiesQuietly
    EveryoneIsHomeAtTheEnd
PROPERTIES
    ImplementsBatchRun
