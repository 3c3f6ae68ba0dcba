SPECIFICATION Spec
CONSTANTS
    ann = ann
    bob = bob
    carl = carl
    dave = dave
    eve = eve
    fay = fay
    Clients <- Pair
    Names = {"ann", "bob", "carl", "dave", "eve", "fay"}
    Nick <- NickOfPair
    NoName = NoName
    RecvMax = 2
    SockBuf = 6
    MaxSocks = 6
    PingN = 1
    LISTEN = LISTEN
    STDIN = STDIN
    OpLines = 1
    Script <- BothQuit
    Killable = {}
    Closing = {}
INVARIANTS TypeOK InitPingFirst DispatchNeverBlocks ErasesBackwards
CHECK_DEADLOCK FALSE
