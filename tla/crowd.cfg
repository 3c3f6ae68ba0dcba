SPECIFICATION CrowdSpec
CONSTANTS
    ann = ann
    bob = bob
    carl = carl
    dave = dave
    eve = eve
    fay = fay
    Clients <- Crowd
    Names = {"ann", "bob", "carl", "dave", "eve", "fay"}
    Nick <- NickOfCrowd
    NoName = NoName
    RecvMax = 1
    SockBuf = 12
    MaxSocks = 6
    PingN = 1
    LISTEN = LISTEN
    STDIN = STDIN
    OpLines = 0
    Script <- CrowdScript
    Killable = {}
    Closing = {}
INVARIANTS OrdersDelivered NoMutualWait
CHECK_DEADLOCK FALSE
