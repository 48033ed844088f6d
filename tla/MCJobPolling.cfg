SPECIFICATION PollSpec
CONSTANTS
    LastStage = 1
    JobId = {j1, j2}
    s1 = s1
    s2 = s2
    both = both
    one = one
    Segment = {s1, s2}
    Request = {both, one}
    KeyOf <- MCKeyOf
    SegmentsOf <- MCSegmentsOf
    Limit = {1, 2}
    Reading = {1, 2}
SYMMETRY Ids
INVARIANTS
    ReplyIsOneMoment
PROPERTIES
    StatsAgree
    AnswersNeverGoBack
    PageIsTheNewestMatching
