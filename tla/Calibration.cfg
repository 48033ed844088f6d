SPECIFICATION CalibrationSpec
CONSTANTS
    Thread = {w1, w2}
    MaxCount = 2
    MaxSeconds = 2
INVARIANT
    RunsOncePerSession
