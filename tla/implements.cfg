SPECIFICATION BobComesSpec
CONSTANTS
    ann = ann
    bob = bob
    carl = carl
    dave = dave
    eve = eve
    fay = fay
    Clients <- Pair
    Names = {"ann", "bob", "carl", "dave", "eve", "fay"}
    Nick <- NickOfPair
    NoName = NoName
    RecvMax = 1
    SockBuf = 2
    MaxSocks = 6
    PingN = 2
    LISTEN = LISTEN
    STDIN = STDIN
    OpLines = 0
    Script <- BothCount
    Killable = {bob}
    Closing = {bob}
INVARIANTS OrdersDelivered NoMutualWait CountdownsAgree
PROPERTIES CrashHasACause ForgetsOnlyTheDeparted PongWaitEnds Implements
CHECK_DEADLOCK FALSE
