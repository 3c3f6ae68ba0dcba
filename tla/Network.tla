------------------------------ MODULE Network ------------------------------
(***************************************************************************)
(* The TCP connections of a network countdown and what travels on them.    *)
(*                                                                         *)
(* A message is a record: its type as classify reads it off the text, the  *)
(* nickname the parse_* functions read back from it, and its number.  One  *)
(* connection per client carries two byte streams; a stream is the         *)
(* sequence of messages written and not yet received, followed by what a   *)
(* blocked write still holds back.  TCP keeps no message boundaries, so    *)
(* one recv may return several of them at once.                            *)
(***************************************************************************)
EXTENDS Integers, Sequences, SequencesExt

CONSTANTS
    Clients,   \* client processes, each connecting at most once
    Names,     \* nicknames a user may start a client with
    Nick,      \* the nickname each client was started with
    NoName,    \* std::experimental::nullopt: no nickname
    RecvMax,   \* most messages that one recv may find in its buffer
    SockBuf    \* messages a stream holds before a write to it blocks

ASSUME NetworkAssumption ==
    /\ NoName \notin Names
    /\ Nick \in [Clients -> Names]
    /\ RecvMax \in Nat \ {0}
    /\ SockBuf \in Nat \ {0}
    /\ RecvMax <= SockBuf

VARIABLES
    s2c,        \* s2c[c]: messages on their way from the server to c
    unsent,     \* unsent[c]: how many messages at the end of s2c[c] the server
                \* has not written yet, since it blocks in write
    c2s,        \* c2s[c]: messages on their way from c to the server
    srvSide,    \* srvSide[c]: what the server's socket for c knows of its peer
    cliSide,    \* cliSide[c]: what c's socket knows of the server
    backlog,    \* connections the kernel completed and accept has not returned
    listening   \* init_socket succeeded and the server process lives

netVars == <<s2c, unsent, c2s, srvSide, cliSide, backlog, listening>>

-----------------------------------------------------------------------------
(* Messages *)

MsgTypes == {"HELLO", "PEER_LOCK", "PEER_UNLOCK", "WRITE_ARBITRARY",
             "COUNTDOWN_N", "PING", "PING_INIT", "GOODBYE", "COUNTDOWN_ORDER",
             "SHUTDOWN"}

Msg == [type : MsgTypes, nick : Names \cup {NoName}, n : Int]

Named(type, nickname) == [type |-> type, nick |-> nickname, n |-> 0]
Numbered(type, number) == [type |-> type, nick |-> NoName, n |-> number]

hello_msg(nickname) == Named("HELLO", nickname)
goodbye_msg(nickname) == Named("GOODBYE", nickname)
lock_msg(nickname) == Named("PEER_LOCK", nickname)
unlock_msg(nickname) == Named("PEER_UNLOCK", nickname)
write_msg == Named("WRITE_ARBITRARY", NoName)
shutdown_msg == Named("SHUTDOWN", NoName)
ping_init_msg(ping_n) == Numbered("PING_INIT", ping_n)
ping_msg(seq) == Numbered("PING", seq)
countdown_n_msg(start_idx) == Numbered("COUNTDOWN_N", start_idx)
countdown_order_msg(start_idx) == Numbered("COUNTDOWN_ORDER", start_idx)

\* classify looks for a keyword at the front of the buffer only: what follows
\* the first message of a buffer is never looked at.
classify(buf) == IF buf = <<>> THEN "MALFORMED" ELSE Head(buf).type

-----------------------------------------------------------------------------
(* What an endpoint's socket knows of the other end.                       *)
(*   open    the peer lives                                                *)
(*   fin     the peer closed after reading everything                      *)
(*   reset   the peer closed with unread data: the error is still pending  *)
(*   broken  the error was delivered: reads return 0, writes raise SIGPIPE *)

Sides == {"none", "open", "fin", "reset", "broken"}

\* Buffers recvloop can return: it calls recv once and takes what is there.
Chunks(stream, side) ==
    IF stream # <<>>
    THEN {SubSeq(stream, 1, k) : k \in {m \in 1..Len(stream) : m <= RecvMax}}
    ELSE IF side \in {"fin", "broken"} THEN {<<>>} ELSE {}

After(stream, buf) == SubSeq(stream, Len(buf) + 1, Len(stream))

\* recv returns -1 and recvloop throws.
RecvFails(stream, side) == stream = <<>> /\ side = "reset"

\* select reports the descriptor readable.
Readable(stream, side) == stream # <<>> \/ side # "open"

\* What of a stream from the server can have arrived at c.
Arrived(c, stream) == SubSeq(stream, 1, Len(stream) - unsent[c])

\* The server is not inside a write.
Flowing == \A c \in Clients : unsent[c] = 0

\* write(2) of buf to the socket of a peer that is not broken: it blocks while
\* the stream is full, succeeds unseen after the peer closed (its answer, a
\* reset, may or may not be back before the next write), and returns -1 once
\* when the connection was reset.
Fits(stream, side, buf) == side = "open" => Len(stream) + Len(buf) <= SockBuf

\* What such writes to the peers W do to the streams, and to the sockets.
Written(streams, sides, W, buf) ==
    [c \in Clients |-> IF c \in W /\ sides[c] = "open"
                       THEN streams[c] \o buf ELSE streams[c]]

SidesAfterWrite(sides, W) ==
    {[c \in Clients |-> IF c \in W /\ (sides[c] = "reset" \/ c \in answered)
                        THEN "broken" ELSE sides[c]] :
        answered \in SUBSET {c \in W : sides[c] = "fin"}}

\* What the other end learns when a process holding unread data exits.
Closed(side, unread) ==
    IF side # "open" THEN side ELSE IF unread = <<>> THEN "fin" ELSE "reset"

-----------------------------------------------------------------------------

NetworkTypeOK ==
    /\ s2c \in [Clients -> Seq(Msg)]
    /\ unsent \in [Clients -> Nat]
    /\ c2s \in [Clients -> Seq(Msg)]
    /\ srvSide \in [Clients -> Sides]
    /\ cliSide \in [Clients -> Sides]
    /\ backlog \in Seq(Clients)
    /\ listening \in BOOLEAN

\* The server runs on when init_socket fails, and nobody can connect to it.
NetworkInit ==
    /\ s2c = [c \in Clients |-> <<>>]
    /\ unsent = [c \in Clients |-> 0]
    /\ c2s = [c \in Clients |-> <<>>]
    /\ srvSide = [c \in Clients |-> "none"]
    /\ cliSide = [c \in Clients |-> "none"]
    /\ backlog = <<>>
    /\ listening \in BOOLEAN

\* The server process ends with unread data pending: the kernel closes every
\* socket it holds, the listening one included.
ServerCloses(pending) ==
    /\ listening' = FALSE
    /\ c2s' = [c \in Clients |-> <<>>]
    /\ cliSide' = [c \in Clients |-> Closed(cliSide[c], pending[c])]
=============================================================================
