------------------------------- MODULE Client -------------------------------
(***************************************************************************)
(* countdown_client::interact: each client process connects, says hello,   *)
(* and then selects over its standard input and its socket.  A line of     *)
(* input is preceded by a lock message.  The first ping of a countdown     *)
(* takes the client into a loop that reads the other pings and nothing     *)
(* else.                                                                   *)
(***************************************************************************)
EXTENDS Network

CONSTANTS
    Script,      \* Script[c][k]: the lines the user of c may type as the k-th
    Killable,    \* clients whose process may be killed
    Closing      \* clients whose standard input ends after their script

(***************************************************************************)
(* A line is a command word of the interactive language and the number     *)
(* that follows it; "junk" stands for every word outside the language.     *)
(***************************************************************************)
Lines == [word : {"quit", "countdown", "write", "junk"}, n : Int]

ASSUME ClientAssumption ==
    /\ Script \in [Clients -> Seq(SUBSET Lines)]
    /\ Killable \in SUBSET Clients
    /\ Closing \in SUBSET Clients

VARIABLES
    cpc,         \* where each client process is
    ping_n,      \* -1 until the server has sent the number of pings
    ci,          \* the index i of the client's ping loop
    peer_names,  \* the nicknames in its vector of peers, duplicates merged
    color,       \* the terminal's colour: red while a peer is typing
    typed,       \* lines its user has typed
    obeyed       \* history: start numbers of the orders it carried out

clientVars == <<cpc, ping_n, ci, peer_names, color, typed, obeyed>>

ClientPCs == {"off", "select", "typing", "pinging", "deaf", "leaving",
              "exited", "crashed"}

Live == {c \in Clients :
            cpc[c] \in {"select", "typing", "pinging", "deaf", "leaving"}}

ClientTypeOK ==
    /\ cpc \in [Clients -> ClientPCs]
    /\ ping_n \in [Clients -> Int]
    /\ ci \in [Clients -> Nat]
    /\ peer_names \in [Clients -> SUBSET (Names \cup {NoName})]
    /\ color \in [Clients -> {"def", "red"}]
    /\ typed \in [Clients -> Nat]
    /\ obeyed \in [Clients -> Seq(Int)]

ClientInit ==
    /\ cpc = [c \in Clients |-> "off"]
    /\ ping_n = [c \in Clients |-> -1]
    /\ ci = [c \in Clients |-> 0]
    /\ peer_names = [c \in Clients |-> {}]
    /\ color = [c \in Clients |-> "def"]
    /\ typed = [c \in Clients |-> 0]
    /\ obeyed = [c \in Clients |-> <<>>]

-----------------------------------------------------------------------------

\* The process of c ends, as how, with unread data pending; the kernel closes
\* its socket.
Ends(c, how, unread) ==
    /\ cpc' = [cpc EXCEPT ![c] = how]
    /\ s2c' = [s2c EXCEPT ![c] = <<>>]
    /\ srvSide' = [srvSide EXCEPT ![c] = Closed(@, Arrived(c, unread))]

\* c writes buf with unread data pending and goes on to next, unless SIGPIPE
\* ends it.
Writes(c, buf, unread, next) ==
    \/ /\ cliSide[c] # "broken"
       /\ Fits(c2s[c], cliSide[c], buf)
       /\ c2s' = Written(c2s, cliSide, {c}, buf)
       /\ cliSide' \in SidesAfterWrite(cliSide, {c})
       /\ cpc' = [cpc EXCEPT ![c] = next]
       /\ s2c' = [s2c EXCEPT ![c] = unread]
       /\ UNCHANGED srvSide
    \/ /\ cliSide[c] = "broken"
       /\ Ends(c, "crashed", unread)
       /\ UNCHANGED <<c2s, cliSide>>

\* connect succeeds once the kernel has queued the connection, before the
\* server accepts it, and the hello is written at once.
Connect(c) ==
    /\ cpc[c] = "off"
    /\ listening
    /\ backlog' = Append(backlog, c)
    /\ c2s' = [c2s EXCEPT ![c] = <<hello_msg(Nick[c])>>]
    /\ srvSide' = [srvSide EXCEPT ![c] = "open"]
    /\ cliSide' = [cliSide EXCEPT ![c] = "open"]
    /\ cpc' = [cpc EXCEPT ![c] = "select"]
    /\ UNCHANGED <<ping_n, ci, peer_names, color, typed, obeyed, s2c, listening, unsent>>

ConnectFails(c) ==
    /\ cpc[c] = "off"
    /\ ~listening
    /\ cpc' = [cpc EXCEPT ![c] = "exited"]
    /\ UNCHANGED <<ping_n, ci, peer_names, color, typed, obeyed>>
    /\ UNCHANGED netVars

-----------------------------------------------------------------------------
(* Standard input *)

\* What parse_cmdline makes of a line: the buffer to write.  Empty stands for
\* the exception it throws, after which nothing is written.
parse_cmdline(line, nickname) ==
    CASE line.word = "quit"      -> <<goodbye_msg(nickname)>>
      [] line.word = "countdown" -> <<countdown_n_msg(line.n)>>
      [] line.word = "write"     -> <<write_msg>>
      [] line.word = "junk"      -> <<>>

\* Input became readable: lock at once, then block in getline.
StartTyping(c) ==
    /\ cpc[c] = "select"
    /\ typed[c] < Len(Script[c])
    /\ Writes(c, <<lock_msg(Nick[c])>>, s2c[c], "typing")
    /\ UNCHANGED <<ping_n, ci, peer_names, color, typed, obeyed, backlog,
                   listening, unsent>>

\* The line is complete: its message goes out, and a goodbye is the last.
FinishLine(c) ==
    /\ cpc[c] = "typing"
    /\ \E line \in Script[c][typed[c] + 1] :
        LET buf == parse_cmdline(line, Nick[c]) IN
        IF buf = <<>>
        THEN /\ cpc' = [cpc EXCEPT ![c] = "select"]
             /\ UNCHANGED <<c2s, cliSide, s2c, srvSide>>
        ELSE Writes(c, buf, s2c[c],
                    IF classify(buf) = "GOODBYE" THEN "leaving" ELSE "select")
    /\ typed' = [typed EXCEPT ![c] = @ + 1]
    /\ UNCHANGED <<ping_n, ci, peer_names, color, obeyed, backlog, listening, unsent>>

\* Standard input ends, after a complete line.  When the last line lacks its
\* newline, getline leaves it in cmd and it is sent again at every turn: that is
\* a Script which repeats the line.
CloseInput(c) ==
    /\ c \in Closing
    /\ cpc[c] = "select"
    /\ typed[c] = Len(Script[c])
    /\ cpc' = [cpc EXCEPT ![c] = "deaf"]
    /\ UNCHANGED <<ping_n, ci, peer_names, color, typed, obeyed>>
    /\ UNCHANGED netVars

\* From then on select reports it at every turn: another lock goes out, getline
\* finds nothing, parse_cmdline throws, and the break that follows skips the
\* socket.
LockAtEnd(c) ==
    /\ cpc[c] = "deaf"
    /\ Writes(c, <<lock_msg(Nick[c])>>, s2c[c], "deaf")
    /\ UNCHANGED <<ping_n, ci, peer_names, color, typed, obeyed, backlog,
                   listening, unsent>>

\* interact returns and the process exits.
Leave(c) ==
    /\ cpc[c] = "leaving"
    /\ Ends(c, "exited", s2c[c])
    /\ UNCHANGED <<ping_n, ci, peer_names, color, typed, obeyed, c2s, cliSide,
                   backlog, listening, unsent>>

\* The process is killed at any point.
Killed(c) ==
    /\ c \in Killable \cap Live
    /\ Ends(c, "crashed", s2c[c])
    /\ UNCHANGED <<ping_n, ci, peer_names, color, typed, obeyed, c2s, cliSide,
                   backlog, listening, unsent>>

-----------------------------------------------------------------------------
(* The socket *)

\* recvloop returned buf to the select loop of c.
Gets(c, buf) ==
    /\ cpc[c] = "select"
    /\ buf \in Chunks(Arrived(c, s2c[c]), cliSide[c])

Consume(c, buf) == s2c' = [s2c EXCEPT ![c] = After(@, buf)]

\* recvloop throws outside any try block.
ClientRecvThrows(c) ==
    /\ cpc[c] = "select"
    /\ RecvFails(Arrived(c, s2c[c]), cliSide[c])
    /\ Ends(c, "crashed", <<>>)
    /\ UNCHANGED <<ping_n, ci, peer_names, color, typed, obeyed, c2s, cliSide,
                   backlog, listening, unsent>>

\* Mutant: the client only takes note.
OnShutdown_Stay(c, buf) ==
    /\ Gets(c, buf)
    /\ classify(buf) = "SHUTDOWN"
    /\ Consume(c, buf)
    /\ UNCHANGED clientVars
    /\ UNCHANGED <<c2s, srvSide, cliSide, backlog, listening, unsent>>

OnShutdown(c, buf) ==
    /\ Gets(c, buf)
    /\ classify(buf) = "SHUTDOWN"
    /\ Ends(c, "exited", After(s2c[c], buf))
    /\ UNCHANGED <<ping_n, ci, peer_names, color, typed, obeyed, c2s, cliSide,
                   backlog, listening, unsent>>

\* Mutant: the loop runs once too often.
MorePings_Inclusive(c, k) == k <= ping_n[c]

\* for (i = 1; i < ping_n; ++i)
MorePings(c, k) == k < ping_n[c]

\* Mutant: the first ping is not answered.
OnPing_Silent(c, buf) ==
    /\ Gets(c, buf)
    /\ classify(buf) = "PING"
    /\ cpc' = [cpc EXCEPT ![c] = IF MorePings(c, 1) THEN "pinging" ELSE "select"]
    /\ Consume(c, buf)
    /\ ci' = [ci EXCEPT ![c] = 1]
    /\ UNCHANGED <<ping_n, peer_names, color, typed, obeyed, c2s, srvSide,
                   cliSide, backlog, listening, unsent>>

\* A ping outside the ping loop is the first of a countdown: the whole buffer
\* is sent back and the ping loop starts at 1, if there is more than one.
OnPing(c, buf) ==
    /\ Gets(c, buf)
    /\ classify(buf) = "PING"
    /\ Writes(c, buf, After(s2c[c], buf),
              IF MorePings(c, 1) THEN "pinging" ELSE "select")
    /\ ci' = [ci EXCEPT ![c] = 1]
    /\ UNCHANGED <<ping_n, peer_names, color, typed, obeyed, backlog, listening, unsent>>

\* Mutant: a single ping is refused.
ValidPingN_Many(number) == number > 1

\* parse_ping_init_msg throws on any other.
ValidPingN(number) == number >= 1

OnPingInit(c, buf) ==
    /\ Gets(c, buf)
    /\ classify(buf) = "PING_INIT"
    /\ ping_n' = [ping_n EXCEPT ![c] = IF ValidPingN(Head(buf).n) THEN Head(buf).n ELSE @]
    /\ Consume(c, buf)
    /\ UNCHANGED <<cpc, ci, peer_names, color, typed, obeyed, c2s, srvSide,
                   cliSide, backlog, listening, unsent>>

\* Mutant: remove without erase leaves the vector as long as it was.
Without_Kept(names, name) == names

\* peer_names.erase(remove(...)): every peer of that name goes.
Without(names, name) == names \ {name}

OnPeer(c, buf) ==
    /\ Gets(c, buf)
    /\ \/ /\ classify(buf) = "HELLO"
          /\ peer_names' = [peer_names EXCEPT ![c] = @ \cup {Head(buf).nick}]
       \/ /\ classify(buf) = "GOODBYE"
          /\ peer_names' = [peer_names EXCEPT ![c] = Without(@, Head(buf).nick)]
    /\ Consume(c, buf)
    /\ UNCHANGED <<cpc, ping_n, ci, color, typed, obeyed, c2s, srvSide, cliSide,
                   backlog, listening, unsent>>

OnLock(c, buf) ==
    /\ Gets(c, buf)
    /\ \/ classify(buf) = "PEER_LOCK" /\ color' = [color EXCEPT ![c] = "red"]
       \/ classify(buf) = "PEER_UNLOCK" /\ color' = [color EXCEPT ![c] = "def"]
    /\ Consume(c, buf)
    /\ UNCHANGED <<cpc, ping_n, ci, peer_names, typed, obeyed, c2s, srvSide,
                   cliSide, backlog, listening, unsent>>

\* Mutant: a client whose terminal is red only listens.
OnOrder_Red(c, buf) ==
    /\ Gets(c, buf)
    /\ classify(buf) = "COUNTDOWN_ORDER"
    /\ obeyed' = [obeyed EXCEPT ![c] = IF color[c] = "red" THEN @ ELSE Append(@, Head(buf).n)]
    /\ Consume(c, buf)
    /\ UNCHANGED <<cpc, ping_n, ci, peer_names, color, typed, c2s, srvSide,
                   cliSide, backlog, listening, unsent>>

\* The countdown itself: the client is inside system() while it speaks.
OnOrder(c, buf) ==
    /\ Gets(c, buf)
    /\ classify(buf) = "COUNTDOWN_ORDER"
    /\ obeyed' = [obeyed EXCEPT ![c] = Append(@, Head(buf).n)]
    /\ Consume(c, buf)
    /\ UNCHANGED <<cpc, ping_n, ci, peer_names, color, typed, c2s, srvSide,
                   cliSide, backlog, listening, unsent>>

\* A write is spoken; a countdown_n relayed by mistake and an empty buffer
\* are only complained about.
OnOther(c, buf) ==
    /\ Gets(c, buf)
    /\ classify(buf) \in {"WRITE_ARBITRARY", "COUNTDOWN_N", "MALFORMED"}
    /\ Consume(c, buf)
    /\ UNCHANGED clientVars
    /\ UNCHANGED <<c2s, srvSide, cliSide, backlog, listening, unsent>>

\* One turn of the ping loop.  Only the ping of this very round is echoed;
\* anything else, an exception included, uses the turn up.
PingTurn(c) ==
    /\ cpc[c] = "pinging"
    /\ LET next == IF MorePings(c, ci[c] + 1) THEN "pinging" ELSE "select" IN
        \/ \E buf \in Chunks(Arrived(c, s2c[c]), cliSide[c]) :
            IF classify(buf) = "PING" /\ Head(buf).n = ci[c]
            THEN Writes(c, buf, After(s2c[c], buf), next)
            ELSE /\ cpc' = [cpc EXCEPT ![c] = next]
                 /\ Consume(c, buf)
                 /\ UNCHANGED <<c2s, srvSide, cliSide>>
        \/ /\ RecvFails(Arrived(c, s2c[c]), cliSide[c])
           /\ cliSide' = [cliSide EXCEPT ![c] = "broken"]
           /\ cpc' = [cpc EXCEPT ![c] = next]
           /\ UNCHANGED <<s2c, c2s, srvSide>>
    /\ ci' = [ci EXCEPT ![c] = @ + 1]
    /\ UNCHANGED <<ping_n, peer_names, color, typed, obeyed, backlog, listening, unsent>>

OnMessage(c) ==
    \E buf \in Chunks(Arrived(c, s2c[c]), cliSide[c]) :
        \/ OnShutdown(c, buf) \/ OnPing(c, buf) \/ OnPingInit(c, buf)
        \/ OnPeer(c, buf) \/ OnLock(c, buf) \/ OnOrder(c, buf)
        \/ OnOther(c, buf)

\* What the program does by itself, once the client is connected.
ClientRuns(c) ==
    \/ LockAtEnd(c) \/ Leave(c)
    \/ ClientRecvThrows(c) \/ OnMessage(c) \/ PingTurn(c)

\* What its user and the machine it runs on do.
UserActs(c) ==
    \/ Connect(c) \/ ConnectFails(c) \/ StartTyping(c) \/ FinishLine(c)
    \/ CloseInput(c) \/ Killed(c)

ClientNext == \E c \in Clients : ClientRuns(c) \/ UserActs(c)
=============================================================================
