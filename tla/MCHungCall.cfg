SPECIFICATION HungSpec
CONSTANTS
    LastStage = 1
    JobId = {j1, j2}
    s1 = s1
    s2 = s2
    both = both
    one = one
    Segment = {s1, s2}
    Request = {both, one}
    KeyOf <- MCKeyOf
    SegmentsOf <- MCSegmentsOf
    Task <- MCTask
    Worker = {w1, w2}
    NoTask = NoTask
    NoJob = NoJob
\* With every thread hung and all ids used up, nothing more happens.
CHECK_DEADLOCK FALSE
PROPERTIES
    OtherJobsFinish
    RejectedJobsClose
    FinishedIsLogged
    ShutdownCompletes
    RequestsAreAnswered
