SPECIFICATION Spec
CONSTANTS
    Programs <- BothPrograms
    CommandLines <- Lines
    IntMax = 127
    MaxWords = 3
CHECK_DEADLOCK FALSE
INVARIANTS UnreadIntact KeptExact ValueMeant RefusedForCause ValuesPresent
