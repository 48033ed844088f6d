SPECIFICATION FaultSpec
CONSTANTS
    LastStage = 1
    JobId = {j1, j2}
    s1 = s1
    s2 = s2
    both = both
    htob = htob
    one = one
    Segment = {s1, s2}
    Request = {both, one}
    KeyOf <- MCKeyOf
    SegmentsOf <- MCSegmentsOf
    Task <- MCTask
    Worker = {w1, w2}
    NoTask = NoTask
    NoJob = NoJob
CHECK_DEADLOCK FALSE
PROPERTY
    JobStatusNeverFallsBack
