SPECIFICATION Spec
CONSTANTS
    N = 2
    PingN = 3
    Second = 4
    Latencies = {0, 1, 3, 9}
    Waits = {0, 1, 5}
    MaxCountdowns = 2
CHECK_DEADLOCK FALSE
INVARIANTS TypeOK MeasuredWithin DelayBounded
