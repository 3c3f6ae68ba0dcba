SPECIFICATION Spec
CONSTANTS
    N = 2
    PingN = 2
    Second = 4
    Latencies = {0, 1, 3, 9}
    Waits = {0, 1, 5}
    MaxCountdowns = 1
CHECK_DEADLOCK FALSE
INVARIANT DelaysHelp
