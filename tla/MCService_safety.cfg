SPECIFICATION Spec
CONSTANTS
    LastStage = 2
    JobId = {j1, j2}
    s1 = s1
    s2 = s2
    both = both
    htob = htob
    one = one
    Segment = {s1, s2}
    Request = {both, htob, one}
    KeyOf <- MCKeyOf
    SegmentsOf <- MCSegmentsOf
    Task <- MCTask
    Worker = {w1, w2}
    NoTask = NoTask
    NoJob = NoJob
SYMMETRY ThreadsAndIds
INVARIANTS
    TypeOK
    IInv
    IndexIsTheOpenJobs
    OneThreadPerTask
    StoreShowsTheThreads
    OpenSegmentsAreOwned
    RejectedJobIsSettled
    FinishedIsLoggedOnce
    AnswerCoversTheRequest
    StatusIsTheCount
    StoppedPoolIsQuiet
PROPERTIES
    SegmentsOnlyAdvance
    FinishedJobsAreFrozen
    JobStatusNeverFallsBack
    StoreSpec
    ImplementsContract
