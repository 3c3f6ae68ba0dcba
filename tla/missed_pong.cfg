SPECIFICATION PairSpec
CONSTANTS
    ann = ann
    bob = bob
    carl = carl
    dave = dave
    eve = eve
    fay = fay
    Clients <- Pair
    Names = {"ann", "bob", "carl", "dave", "eve", "fay"}
    Nick <- NickOfPair
    NoName = NoName
    RecvMax = 1
    SockBuf = 8
    MaxSocks = 6
    PingN = 2
    LISTEN = LISTEN
    STDIN = STDIN
    OpLines = 0
    Script <- AnnAndBob
    Killable = {}
    Closing = {}
INVARIANTS AllRoundTrips
CHECK_DEADLOCK FALSE
