SPECIFICATION TimesSpec
CONSTANTS
    Segment = {s1, s2}
    LastReading = 4
\* The clock stops at its bound and every segment is done.
CHECK_DEADLOCK FALSE
INVARIANTS
    TimesAreInOrder
PROPERTIES
    TimesNeverGoBack
