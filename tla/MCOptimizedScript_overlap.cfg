SPECIFICATION ScriptSpec
CONSTANTS
    a = a
    b = b
    Segments <- MCSegments
    Task <- MCTask
    Worker = {w1, w2}
    NoTask = NoTask
\* The script ends.
CHECK_DEADLOCK FALSE
INVARIANT
    FetchesOverlapFits
