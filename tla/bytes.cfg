SPECIFICATION Spec
CONSTANTS
    MAX_MSGLEN = 4
    MaxMessages = 3
CHECK_DEADLOCK FALSE
INVARIANTS TypeOK BytesInOrder OverrunHasACause
