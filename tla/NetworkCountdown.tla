-------------------------- MODULE NetworkCountdown --------------------------
(***************************************************************************)
(* The server and its clients over the network that joins them, and what   *)
(* the protocol they run is supposed to achieve.                           *)
(***************************************************************************)
EXTENDS Server, Client

vars == <<netVars, serverVars, clientVars>>

TypeOK == NetworkTypeOK /\ ServerTypeOK /\ ClientTypeOK

Init == NetworkInit /\ ServerInit /\ ClientInit

Next ==
    \/ ServerNext /\ UNCHANGED clientVars
    \/ ClientNext /\ UNCHANGED serverVars

Spec == Init /\ [][Next]_vars

(***************************************************************************)
(* A process whose next step is enabled is scheduled.  Neither the users   *)
(* nor the operator owe the program a line, nor a line its end.            *)
(***************************************************************************)
ServerStep == ServerNext /\ UNCHANGED clientVars /\ UNCHANGED op_lines
ClientStep(c) == ClientRuns(c) /\ UNCHANGED serverVars

Fairness == WF_vars(ServerStep) /\ \A c \in Clients : WF_vars(ClientStep(c))

-----------------------------------------------------------------------------
(***************************************************************************)
(* Users who take turns: they connect and begin a line only while nobody   *)
(* else has a line begun and nothing is on its way.  The terminal's red    *)
(* colour asks as much of them and the program enforces none of it.  They  *)
(* know nothing of a connection that cannot be accepted, nor wait for it.  *)
(***************************************************************************)
Quiet ==
    /\ spc = "select"
    /\ Flowing
    /\ backlog = <<>> \/ Held >= MaxSocks
    /\ \A c \in Clients \ ToSet(backlog) :
        /\ s2c[c] = <<>> /\ c2s[c] = <<>>
        /\ cpc[c] \notin {"typing", "pinging", "leaving"}

Begins(c) == Connect(c) \/ StartTyping(c)

TurnNext == Next /\ ((\E c \in Clients : Begins(c)) => Quiet)

TurnSpec == Init /\ [][TurnNext]_vars /\ Fairness

-----------------------------------------------------------------------------
(* Why TypeOK is kept *)

\* A line is only read from a user who has one.
LinesOwed == \A c \in Clients : cpc[c] = "typing" => typed[c] < Len(Script[c])

\* A server that has ended holds nothing back, and while it lives no client has
\* seen it end.
EndKnown ==
    IF spc \in {"exited", "crashed"}
    THEN Flowing
    ELSE \A c \in Clients : cliSide[c] \in {"none", "open"}

IndTypeOK == TypeOK /\ LinesOwed /\ EndKnown

-----------------------------------------------------------------------------
(* What holds whatever the users do and however the bytes arrive *)

\* The number of pings reaches a client before anything else does: accept and
\* the init_ping are one step of the pass, and relays only go to sockets
\* already in client_metas.
InitPingFirst ==
    \A c \in Live : ping_n[c] = -1 =>
        s2c[c] = <<>> \/ Head(s2c[c]).type = "PING_INIT"

\* The dispatch loop never calls a blocking recv on a socket with nothing to
\* read, although the ping loop counts with the same i, reads from the sockets
\* that select reported, and leaves the loop at an index it did not start from.
\* True while there are at most PingN + 1 clients.
DispatchNeverBlocks ==
    \A k \in Indices : NextIndex(k) => Readable(c2s[Meta(k)], srvSide[Meta(k)])

\* The indices waiting to be erased are in range and increasing, so that
\* walking them backwards erases the clients that were meant.  True while there
\* are at most PingN + 1 clients.
ErasesBackwards ==
    /\ ToSet(delete_idxs) \subseteq Indices
    /\ \A a, b \in 1..Len(delete_idxs) : a < b => delete_idxs[a] < delete_idxs[b]

-----------------------------------------------------------------------------
(* What holds when every message arrives alone (RecvMax = 1) *)

\* A client the server forgets has said goodbye or is dead.
ForgetsOnlyTheDeparted ==
    [][\A c \in ToSet(client_metas) \ ToSet(client_metas') :
            c \notin Live \/ cpc[c] = "leaving"]_vars

\* The numbers that the orders of a stream carry.
OrdersIn(stream) ==
    LET upTo[k \in 0..Len(stream)] ==
            IF k = 0 THEN <<>>
            ELSE IF stream[k].type = "COUNTDOWN_ORDER"
                 THEN Append(upTo[k - 1], stream[k].n)
                 ELSE upTo[k - 1]
    IN  upTo[Len(stream)]

\* No order is lost, repeated or overtaken: what a connected client has counted
\* down, followed by the orders on their way to it, is what the countdowns since
\* it joined ask of it, in their order.
OrdersDelivered ==
    spc # "crashed" =>
        \A c \in Live \cap ToSet(client_metas) :
            srvSide[c] = "open" => obeyed[c] \o OrdersIn(s2c[c]) = ordered[c]

\* The server and a client never wait for each other: while the server blocks
\* in the ping loop on a client's answer, with nothing travelling either way,
\* that client is not itself blocked reading.
NoMutualWait ==
    spc = "pong" =>
        LET c == Meta(j) IN
        s2c[c] = <<>> /\ c2s[c] = <<>> => cpc[c] \notin {"select", "pinging"}

\* There is no timeout, and the wait for an answer still ends, whoever is killed
\* or deaf, unless the client's user keeps a line open for ever.
PongWaitEnds ==
    \A c \in Clients :
        (spc = "pong" /\ c = Meta(j)) ~> (spc # "pong" \/ c # Meta(j) \/ cpc[c] = "typing")

\* When the server dies, either a client it has not erased has ended with its
\* connection reset, or it orders a countdown and has no round trip of some
\* client.  A client that left for good and was erased never costs its life.
CrashHasACause ==
    [][spc # "crashed" /\ spc' = "crashed" =>
            \E c \in ToSet(client_metas) :
                \/ cpc[c] \in {"exited", "crashed"} /\ srvSide[c] \in {"reset", "broken"}
                \/ spc = "order" /\ rtts[c] = 0]_vars

-----------------------------------------------------------------------------
(* What holds when users take turns as well *)

\* The server outlives every quit, countdown, write and mistyped line.
ServerSurvives == spc # "crashed"

\* While the orders go out, every client has answered every ping of this
\* countdown: "when i get a message back, that is a round trip".
AllRoundTrips ==
    spc = "order" => \A c \in ToSet(client_metas) : rtts[c] = rtts0[c] + PingN

\* When all is quiet a client knows the names of exactly the peers that joined
\* after it did and are still there.
RosterExact ==
    Quiet /\ listening =>
        \A k \in Indices :
            peer_names[Meta(k)] = {Nick[Meta(m)] : m \in {l \in Indices : l > k}}

\* A countdown that begins is counted down by every client, and then everyone
\* may type again.
CountdownCompletes ==
    \A c \in Clients :
        (spc = "ping" /\ c \in ToSet(client_metas))
            ~> (obeyed[c] # <<>> /\ Last(obeyed[c]) = n /\ color[c] = "def")

\* Once the operator has quit, every client that was accepted and is not in the
\* middle of a line stops.
ShutdownReaches ==
    \A c \in Clients :
        (spc = "exited" /\ c \in Live \cap ToSet(client_metas))
            ~> cpc[c] \in {"typing", "exited", "crashed"}

\* A client the server has accepted is heard, even while a connection it cannot
\* accept makes select return at once for ever.
Heard ==
    \A c \in Clients :
        (c \in ToSet(client_metas) /\ c2s[c] # <<>>)
            ~> (c2s[c] = <<>> \/ spc \in {"exited", "crashed"})

-----------------------------------------------------------------------------
(* Why DispatchNeverBlocks and ErasesBackwards are kept *)

\* No index of client_metas is left once the ping loop has used up i.
FewClients == IsFiniteSet(Clients) /\ Cardinality(Clients) <= PingN + 1

\* A connection is in one place, once, and belongs to a client that connected.
OnePlaceEach ==
    /\ IsInjective(client_metas)
    /\ IsInjective(backlog)
    /\ ToSet(client_metas) \cap ToSet(backlog) = {}
    /\ \A c \in ToSet(client_metas) \cup ToSet(backlog) : cpc[c] # "off"

\* The first index the dispatch loop has still to look at.
Ahead == IF spc = "unlock" THEN i + 1 ELSE i

\* What select reported and the dispatch loop has not come to is still there,
\* and what is to be erased lies behind.
DispatchOK ==
    /\ ErasesBackwards
    /\ spc \in {"select", "accept", "stdin"} => delete_idxs = <<>>
    /\ spc = "erase" => delete_idxs # <<>>
    /\ spc = "order" => i >= PingN
    /\ spc \in {"accept", "stdin"} =>
        \A c \in read_fds \cap Clients : Readable(c2s[c], srvSide[c])
    /\ spc \in {"scan", "unlock"} =>
        /\ \A k \in Indices : k >= Ahead /\ Meta(k) \in read_fds =>
                                Readable(c2s[Meta(k)], srvSide[Meta(k)])
        /\ \A a \in 1..Len(delete_idxs) : delete_idxs[a] < Ahead
=============================================================================
