SPECIFICATION TurnSpec
CONSTANTS
    ann = ann
    bob = bob
    carl = carl
    dave = dave
    eve = eve
    fay = fay
    Clients <- Trio
    Names = {"ann", "bob", "carl", "dave", "eve", "fay"}
    Nick <- NickOfTrio
    NoName = NoName
    RecvMax = 1
    SockBuf = 8
    MaxSocks = 2
    PingN = 2
    LISTEN = LISTEN
    STDIN = STDIN
    OpLines = 1
    Script <- AnnTwice
    Killable = {}
    Closing = {}
INVARIANTS ServerSurvives AllRoundTrips RosterExact
PROPERTIES CountdownCompletes ShutdownReaches Heard
CHECK_DEADLOCK FALSE
