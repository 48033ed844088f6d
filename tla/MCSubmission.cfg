SPECIFICATION SubmissionSpec
CONSTANTS
    Blank = ""
    MaxSegmentsPerRequest = 2
    LastStage = 1
    JobId = {j1, j2}
    NoJob = NoJob
    Name <- MCName
    Raw <- MCRaw
SYMMETRY Ids
INVARIANTS
    AnswerIsTheWorkAskedFor
    OneOpenJobPerWork
    FanOutIsBounded
