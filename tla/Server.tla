------------------------------- MODULE Server -------------------------------
(***************************************************************************)
(* countdown_server::interact: one thread that selects over the listening  *)
(* socket, its standard input and one socket per client, and serves what   *)
(* is ready.  A pass is one iteration of its while loop.  A countdown is   *)
(* run to its end inside the pass, with blocking reads, and its ping loop  *)
(* counts with i, the index of the dispatch loop it is called from.        *)
(***************************************************************************)
EXTENDS Network

CONSTANTS
    PingN,       \* the ping_n option
    MaxSocks,    \* sockets the process may hold beside the listening one
    LISTEN,      \* the listening socket, as an element of read_fds
    STDIN,       \* standard input, as an element of read_fds
    OpLines      \* lines the operator may type at the server

ASSUME ServerAssumption ==
    /\ PingN \in Int
    /\ MaxSocks \in Nat
    /\ OpLines \in Nat
    /\ LISTEN \notin Clients
    /\ STDIN \notin Clients
    /\ LISTEN # STDIN

VARIABLES
    spc,           \* where the thread is in the pass, once it has written
    client_metas,  \* sockets accepted and not erased, in the vector's order
    rtts,          \* rtts[c]: the size of the rtts vector of c's client_meta
    rtts0,         \* history: rtts when the last countdown began
    lock_owner,    \* the optional nickname
    read_fds,      \* descriptors the last select reported readable
    i, j,          \* the loop indices of the same names, 0-based
    n,             \* the start number of the last countdown_n message
    ordered,       \* history: the start numbers each client is to count down
    delete_idxs,   \* indices of client_metas to erase at the end of the pass
    op_lines       \* lines the operator typed

serverVars == <<spc, client_metas, rtts, rtts0, lock_owner, read_fds, i, j, n,
                ordered, delete_idxs, op_lines>>

ServerPCs == {"select", "accept", "stdin", "scan", "ping", "pong", "order",
              "unlock", "erase", "closing", "exited", "crashed"}

ServerTypeOK ==
    /\ spc \in ServerPCs
    /\ client_metas \in Seq(Clients)
    /\ rtts \in [Clients -> Nat]
    /\ rtts0 \in [Clients -> Nat]
    /\ lock_owner \in Names \cup {NoName}
    /\ read_fds \in SUBSET (Clients \cup {LISTEN, STDIN})
    /\ i \in Nat
    /\ j \in Nat
    /\ n \in Int
    /\ ordered \in [Clients -> Seq(Int)]
    /\ delete_idxs \in Seq(Nat)
    /\ op_lines \in Nat

ServerInit ==
    /\ spc = "select"
    /\ client_metas = <<>>
    /\ rtts = [c \in Clients |-> 0]
    /\ rtts0 = rtts
    /\ lock_owner = NoName
    /\ read_fds = {}
    /\ i = 0 /\ j = 0 /\ n = 0
    /\ ordered = [c \in Clients |-> <<>>]
    /\ delete_idxs = <<>>
    /\ op_lines = 0

-----------------------------------------------------------------------------

Indices == 0..(Len(client_metas) - 1)
Meta(k) == client_metas[k + 1]

Metas(T) == {Meta(t) : t \in T}

\* The indices of T up to the first of S.
Until(T, S) == {t \in T : \A x \in S : t < x}

\* A write to a broken socket raises SIGPIPE, which nothing handles.
Broken(T) == {t \in T : srvSide[Meta(t)] = "broken"}

\* The server writes buf to the clients at the indices T in turn.  It dies at a
\* broken socket, unless it comes to one without room before: there it blocks,
\* and that write and those behind it are still to do.  pending is what the
\* server has not yet read.
WriteAll(T, buf, pending, next) ==
    LET Full == {t \in T : ~Fits(s2c[Meta(t)], srvSide[Meta(t)], buf)}
        Now  == Until(T, Full \cup Broken(T))
    IN  /\ srvSide' \in SidesAfterWrite(srvSide, Metas(Now))
        /\ \/ /\ Until(Broken(T), Full) = {}
              /\ spc' = next
              /\ s2c' = Written(s2c, srvSide, Metas(T), buf)
              /\ unsent' = [c \in Clients |->
                               IF c \in Metas(T \ Now) THEN Len(buf) ELSE 0]
              /\ c2s' = pending
              /\ UNCHANGED <<cliSide, listening>>
           \/ /\ Until(Broken(T), Full) # {}
              /\ spc' = "crashed"
              /\ s2c' = Written(s2c, srvSide, Metas(Now), buf)
              /\ UNCHANGED unsent
              /\ ServerCloses(pending)

\* broadcast(mask, client_metas, buf): everyone but the client at index mask.
broadcast(mask, buf, pending, next) == WriteAll(Indices \ {mask}, buf, pending, next)

\* A write to the client at index t alone: no step while it blocks.
WriteOne(t, buf, next) ==
    /\ Fits(s2c[Meta(t)], srvSide[Meta(t)], buf)
    /\ WriteAll({t}, buf, c2s, next)

\* The server goes on in the write it blocks in: what was held back of a stream
\* is written once there is room for it, and the server dies when it comes to a
\* socket that broke in the meantime.
Send ==
    /\ ~Flowing
    /\ LET T     == {t \in Indices : unsent[Meta(t)] > 0}
           Full  == {t \in T : srvSide[Meta(t)] = "open" /\ Len(s2c[Meta(t)]) > SockBuf}
           Now   == Until(T, Full \cup Broken(T))
           Later == Metas(T \ Now)
       IN  /\ srvSide' \in SidesAfterWrite(srvSide, Metas(Now))
           /\ \/ /\ Until(Broken(T), Full) = {}
                 /\ Now # {}
                 /\ unsent' = [c \in Clients |-> IF c \in Later THEN unsent[c] ELSE 0]
                 /\ UNCHANGED <<spc, s2c, c2s, cliSide, listening>>
              \/ /\ Until(Broken(T), Full) # {}
                 /\ spc' = "crashed"
                 /\ s2c' = [c \in Clients |-> IF c \in Later THEN Arrived(c, s2c[c])
                                                           ELSE s2c[c]]
                 /\ unsent' = [c \in Clients |-> 0]
                 /\ ServerCloses(c2s)
    /\ UNCHANGED <<client_metas, rtts, rtts0, lock_owner, read_fds, i, j, n,
                   ordered, delete_idxs, op_lines, backlog>>

-----------------------------------------------------------------------------
(* The top of a pass *)

Ready == {c \in ToSet(client_metas) : Readable(c2s[c], srvSide[c])}

Phase(fds) == IF LISTEN \in fds THEN "accept"
              ELSE IF STDIN \in fds THEN "stdin" ELSE "scan"

\* A connection waits, or the socket never came to listen: select reports it
\* either way.
ListenReady == backlog # <<>> \/ ~listening

\* select returns: it blocks while nothing is readable.  The operator's line, if
\* line holds, is there to be read.
Select ==
    /\ spc = "select"
    /\ \E line \in BOOLEAN :
        LET fds == Ready \cup (IF ListenReady THEN {LISTEN} ELSE {})
                         \cup (IF line THEN {STDIN} ELSE {})
        IN  /\ line => op_lines < OpLines
            /\ fds # {}
            /\ read_fds' = fds
            /\ spc' = Phase(fds)
            /\ op_lines' = IF line THEN op_lines + 1 ELSE op_lines
    /\ i' = 0
    /\ delete_idxs' = <<>>
    /\ UNCHANGED <<client_metas, rtts, rtts0, lock_owner, j, n, ordered>>
    /\ UNCHANGED netVars

\* Sockets accepted: the code never closes one, not even of a client it erased.
Held == Cardinality({c \in Clients : srvSide[c] # "none"}) - Len(backlog)

\* A new connection enters client_metas and is told the number of pings.
Accept ==
    /\ spc = "accept"
    /\ backlog # <<>>
    /\ Held < MaxSocks
    /\ LET c == Head(backlog) IN
        /\ client_metas' = Append(client_metas, c)
        /\ rtts' = [rtts EXCEPT ![c] = 0]
        /\ s2c' = Written(s2c, srvSide, {c}, <<ping_init_msg(PingN)>>)
        /\ srvSide' \in SidesAfterWrite(srvSide, {c})
    /\ backlog' = Tail(backlog)
    /\ spc' = Phase(read_fds \ {LISTEN})
    /\ UNCHANGED <<rtts0, lock_owner, read_fds, i, j, n, ordered, delete_idxs,
                   op_lines, unsent, c2s, cliSide, listening>>

\* Mutant: the pass is given up when accept fails.
AcceptFails_Continue ==
    /\ spc = "accept"
    /\ ~listening \/ (backlog # <<>> /\ Held >= MaxSocks)
    /\ spc' = "select"
    /\ UNCHANGED <<client_metas, rtts, rtts0, lock_owner, read_fds, i, j, n, ordered,
                   delete_idxs, op_lines>>
    /\ UNCHANGED netVars

\* accept returns -1, for want of a descriptor or because the socket does not
\* listen: the init_ping goes to descriptor -1 and a connection stays in the queue.
AcceptFails ==
    /\ spc = "accept"
    /\ ~listening \/ (backlog # <<>> /\ Held >= MaxSocks)
    /\ spc' = Phase(read_fds \ {LISTEN})
    /\ UNCHANGED <<client_metas, rtts, rtts0, lock_owner, read_fds, i, j, n, ordered,
                   delete_idxs, op_lines>>
    /\ UNCHANGED netVars

\* The operator's line: q, quit or exit broadcasts a shutdown and ends the
\* process; parse_cmdline throws on any other and the pass goes on.
OperatorQuits ==
    /\ spc = "stdin"
    /\ broadcast(-1, <<shutdown_msg>>, c2s, "closing")
    /\ UNCHANGED <<client_metas, rtts, rtts0, lock_owner, read_fds, i, j, n,
                   ordered, delete_idxs, op_lines, backlog>>

Exit ==
    /\ spc = "closing"
    /\ spc' = "exited"
    /\ ServerCloses(c2s)
    /\ UNCHANGED <<client_metas, rtts, rtts0, lock_owner, read_fds, i, j, n,
                   ordered, delete_idxs, op_lines, s2c, unsent, srvSide, backlog>>

OperatorMistypes ==
    /\ spc = "stdin"
    /\ spc' = "scan"
    /\ UNCHANGED <<client_metas, rtts, rtts0, lock_owner, read_fds, i, j, n,
                   ordered, delete_idxs, op_lines>>
    /\ UNCHANGED netVars

-----------------------------------------------------------------------------
(* The dispatch loop: for (i = 0; i < client_metas.size(); ++i) *)

\* k is the next index at which FD_ISSET holds.
NextIndex(k) ==
    /\ spc = "scan"
    /\ k \in Indices
    /\ k >= i
    /\ Meta(k) \in read_fds
    /\ \A m \in i..(k - 1) : Meta(m) \notin read_fds

\* recvloop returned buf from the client at index k.
Received(k, buf) ==
    /\ NextIndex(k)
    /\ buf \in Chunks(c2s[Meta(k)], srvSide[Meta(k)])

Rest(k, buf) == [c2s EXCEPT ![Meta(k)] = After(@, buf)]

\* The handlers that pass the whole buffer on to the other clients.
Relay(k, buf, next) == broadcast(k, buf, Rest(k, buf), next)

\* recvloop throws outside any try block and terminate ends the process.
RecvThrows ==
    /\ \E k \in Indices : /\ NextIndex(k)
                          /\ RecvFails(c2s[Meta(k)], srvSide[Meta(k)])
    /\ spc' = "crashed"
    /\ ServerCloses(c2s)
    /\ UNCHANGED <<client_metas, rtts, rtts0, lock_owner, read_fds, i, j, n,
                   ordered, delete_idxs, op_lines, s2c, unsent, srvSide,
                   backlog>>

HandleHello(k, buf) ==
    /\ Received(k, buf)
    /\ classify(buf) = "HELLO"
    /\ Relay(k, buf, "scan")
    /\ i' = k + 1
    /\ UNCHANGED <<client_metas, rtts, rtts0, lock_owner, read_fds, j, n,
                   ordered, delete_idxs, op_lines, backlog>>

\* Mutant: the index to erase is one too high.
HandleGoodbye_Past(k, buf) ==
    /\ Received(k, buf)
    /\ classify(buf) = "GOODBYE"
    /\ delete_idxs' = Append(delete_idxs, k + 1)
    /\ Relay(k, buf, "scan")
    /\ i' = k + 1
    /\ UNCHANGED <<client_metas, rtts, rtts0, lock_owner, read_fds, j, n,
                   ordered, op_lines, backlog>>

\* Mutant: the index goes to the front, as if for a walk forwards.
HandleGoodbye_Front(k, buf) ==
    /\ Received(k, buf)
    /\ classify(buf) = "GOODBYE"
    /\ delete_idxs' = <<k>> \o delete_idxs
    /\ Relay(k, buf, "scan")
    /\ i' = k + 1
    /\ UNCHANGED <<client_metas, rtts, rtts0, lock_owner, read_fds, j, n,
                   ordered, op_lines, backlog>>

\* Mutant: the client is not erased.
HandleGoodbye_Kept(k, buf) ==
    /\ Received(k, buf)
    /\ classify(buf) = "GOODBYE"
    /\ Relay(k, buf, "scan")
    /\ i' = k + 1
    /\ UNCHANGED <<client_metas, rtts, rtts0, lock_owner, read_fds, j, n,
                   ordered, delete_idxs, op_lines, backlog>>

HandleGoodbye(k, buf) ==
    /\ Received(k, buf)
    /\ classify(buf) = "GOODBYE"
    /\ delete_idxs' = Append(delete_idxs, k)
    /\ Relay(k, buf, "scan")
    /\ i' = k + 1
    /\ UNCHANGED <<client_metas, rtts, rtts0, lock_owner, read_fds, j, n,
                   ordered, op_lines, backlog>>

\* A second locker is warned about on stderr, and relayed all the same.
HandleLock(k, buf) ==
    /\ Received(k, buf)
    /\ classify(buf) = "PEER_LOCK"
    /\ lock_owner' = IF lock_owner = NoName THEN Head(buf).nick ELSE lock_owner
    /\ Relay(k, buf, "scan")
    /\ i' = k + 1
    /\ UNCHANGED <<client_metas, rtts, rtts0, read_fds, j, n, ordered,
                   delete_idxs, op_lines, backlog>>

HandleUnlock(k, buf) ==
    /\ Received(k, buf)
    /\ classify(buf) = "PEER_UNLOCK"
    /\ lock_owner' = IF lock_owner = Head(buf).nick THEN NoName ELSE lock_owner
    /\ Relay(k, buf, "scan")
    /\ i' = k + 1
    /\ UNCHANGED <<client_metas, rtts, rtts0, read_fds, j, n, ordered,
                   delete_idxs, op_lines, backlog>>

HandleWrite(k, buf) ==
    /\ Received(k, buf)
    /\ classify(buf) = "WRITE_ARBITRARY"
    /\ Relay(k, buf, "unlock")
    /\ i' = k
    /\ UNCHANGED <<client_metas, rtts, rtts0, lock_owner, read_fds, j, n,
                   ordered, delete_idxs, op_lines, backlog>>

\* parse_unary_int throws on a negative number: the message is dropped.
HandleCountdown(k, buf) ==
    /\ Received(k, buf)
    /\ classify(buf) = "COUNTDOWN_N"
    /\ \/ /\ Head(buf).n >= 0
          /\ n' = Head(buf).n
          /\ rtts0' = rtts
          /\ i' = 0 /\ j' = 0
          /\ spc' = IF PingN > 0 THEN "ping" ELSE "order"
       \/ /\ Head(buf).n < 0
          /\ i' = k + 1
          /\ UNCHANGED <<spc, rtts0, j, n>>
    /\ c2s' = Rest(k, buf)
    /\ UNCHANGED <<client_metas, rtts, lock_owner, read_fds, ordered,
                   delete_idxs, op_lines, s2c, unsent, srvSide, cliSide,
                   backlog, listening>>

\* Types the server only complains about; an empty buffer is one of them.
Discard(k, buf) ==
    /\ Received(k, buf)
    /\ classify(buf) \in {"PING", "PING_INIT", "COUNTDOWN_ORDER", "SHUTDOWN",
                          "MALFORMED"}
    /\ c2s' = Rest(k, buf)
    /\ i' = k + 1
    /\ UNCHANGED <<spc, client_metas, rtts, rtts0, lock_owner, read_fds, j, n,
                   ordered, delete_idxs, op_lines, s2c, unsent, srvSide,
                   cliSide, backlog, listening>>

Dispatch(k) ==
    \E buf \in Chunks(c2s[Meta(k)], srvSide[Meta(k)]) :
        \/ HandleHello(k, buf) \/ HandleGoodbye(k, buf)
        \/ HandleLock(k, buf)  \/ HandleUnlock(k, buf)
        \/ HandleWrite(k, buf) \/ HandleCountdown(k, buf)
        \/ Discard(k, buf)

-----------------------------------------------------------------------------
(* A countdown: PingN rounds of a ping to every client, then the orders.   *)

\* write the ping of round i to the client at index j ...
Ping ==
    /\ spc = "ping"
    /\ WriteOne(j, <<ping_msg(i)>>, "pong")
    /\ UNCHANGED <<client_metas, rtts, rtts0, lock_owner, read_fds, i, j, n,
                   ordered, delete_idxs, op_lines, backlog>>

\* The loops over j and i after one exchange.
NextExchange ==
    IF j + 1 \in Indices
    THEN j' = j + 1 /\ i' = i /\ spc' = "ping"
    ELSE j' = 0 /\ i' = i + 1 /\ spc' = IF i + 1 < PingN THEN "ping" ELSE "order"

\* Mutant: rounds are counted from 1.
Answers_From1(buf, round) == classify(buf) = "PING" /\ Head(buf).n = round + 1

\* buf starts with the reply to the ping of this round.
Answers(buf, round) == classify(buf) = "PING" /\ Head(buf).n = round

\* ... and block until that client has sent something, whatever it is: a
\* reply to another round or any other message is consumed and not counted.
Pong ==
    /\ spc = "pong"
    /\ LET c == Meta(j) IN
        \E buf \in Chunks(c2s[c], srvSide[c]) :
            /\ c2s' = [c2s EXCEPT ![c] = After(@, buf)]
            /\ rtts' = IF Answers(buf, i)
                       THEN [rtts EXCEPT ![c] = @ + 1] ELSE rtts
    /\ NextExchange
    /\ UNCHANGED <<client_metas, rtts0, lock_owner, read_fds, n, ordered,
                   delete_idxs, op_lines, s2c, unsent, srvSide, cliSide, backlog,
                   listening>>

\* The same when recvloop throws: the ping loop catches it.
PongFails ==
    /\ spc = "pong"
    /\ RecvFails(c2s[Meta(j)], srvSide[Meta(j)])
    /\ srvSide' = [srvSide EXCEPT ![Meta(j)] = "broken"]
    /\ NextExchange
    /\ UNCHANGED <<client_metas, rtts, rtts0, lock_owner, read_fds, n, ordered,
                   delete_idxs, op_lines, s2c, unsent, c2s, cliSide, backlog,
                   listening>>

\* estimate_send_t starts at begin() + 1: on an empty rtts that is past end(),
\* and reading it faults.
OrderFaults ==
    /\ spc = "order"
    /\ rtts[Meta(j)] = 0
    /\ spc' = "crashed"
    /\ ServerCloses(c2s)
    /\ UNCHANGED <<client_metas, rtts, rtts0, lock_owner, read_fds, i, j, n,
                   ordered, delete_idxs, op_lines, s2c, unsent, srvSide, backlog>>

\* Otherwise the client at index j is sent its order, and the next one follows.
Order ==
    /\ spc = "order"
    /\ rtts[Meta(j)] > 0
    /\ WriteOne(j, <<countdown_order_msg(n)>>,
                IF j + 1 \in Indices THEN "order" ELSE "unlock")
    /\ ordered' = [ordered EXCEPT ![Meta(j)] = Append(@, n)]
    /\ j' = j + 1
    /\ UNCHANGED <<client_metas, rtts, rtts0, lock_owner, read_fds, i, n,
                   delete_idxs, op_lines, backlog>>

\* Mutant: the dispatch loop looks at the same client again.
Unlock_Again ==
    /\ spc = "unlock"
    /\ broadcast(-1, <<unlock_msg(lock_owner)>>, c2s, "scan")
    /\ UNCHANGED <<client_metas, rtts, rtts0, lock_owner, read_fds, i, j, n,
                   ordered, delete_idxs, op_lines, backlog>>

\* Mutant: the dispatch loop goes back to the client before.
Unlock_Back ==
    /\ spc = "unlock"
    /\ broadcast(-1, <<unlock_msg(lock_owner)>>, c2s, "scan")
    /\ i' = i - 1
    /\ UNCHANGED <<client_metas, rtts, rtts0, lock_owner, read_fds, j, n,
                   ordered, delete_idxs, op_lines, backlog>>

\* After a write or a countdown: everyone is sent an unlock in the name of
\* lock_owner, and the dispatch loop goes on after whatever i is now.
Unlock ==
    /\ spc = "unlock"
    /\ broadcast(-1, <<unlock_msg(lock_owner)>>, c2s, "scan")
    /\ i' = i + 1
    /\ UNCHANGED <<client_metas, rtts, rtts0, lock_owner, read_fds, j, n,
                   ordered, delete_idxs, op_lines, backlog>>

-----------------------------------------------------------------------------
(* The end of a pass *)

DispatchEnds ==
    /\ spc = "scan"
    /\ \A k \in Indices : k >= i => Meta(k) \notin read_fds
    /\ spc' = IF delete_idxs = <<>> THEN "select" ELSE "erase"
    /\ UNCHANGED <<client_metas, rtts, rtts0, lock_owner, read_fds, i, j, n,
                   ordered, delete_idxs, op_lines>>
    /\ UNCHANGED netVars

\* Mutant: delete_idxs is not reversed.
Erase_Forward ==
    /\ spc = "erase"
    /\ LET idx == Head(delete_idxs) IN
        \/ /\ idx \in Indices
           /\ client_metas' = RemoveAt(client_metas, idx + 1)
           /\ spc' = IF Len(delete_idxs) = 1 THEN "select" ELSE "erase"
           /\ UNCHANGED netVars
        \/ /\ idx \notin Indices
           /\ client_metas # <<>>
           /\ client_metas' = Front(client_metas)
           /\ spc' = IF Len(delete_idxs) = 1 THEN "select" ELSE "erase"
           /\ UNCHANGED netVars
        \/ /\ idx \notin Indices
           /\ spc' = "crashed"
           /\ ServerCloses(c2s)
           /\ UNCHANGED <<client_metas, s2c, unsent, srvSide, backlog>>
    /\ delete_idxs' = Tail(delete_idxs)
    /\ UNCHANGED <<rtts, rtts0, lock_owner, read_fds, i, j, n, ordered, op_lines>>

\* delete_idxs is walked from its end.  erase past the end is undefined: the
\* library moves nothing and drops the last element, or the process faults.
Erase ==
    /\ spc = "erase"
    /\ LET idx == Last(delete_idxs) IN
        \/ /\ idx \in Indices
           /\ client_metas' = RemoveAt(client_metas, idx + 1)
           /\ spc' = IF Len(delete_idxs) = 1 THEN "select" ELSE "erase"
           /\ UNCHANGED netVars
        \/ /\ idx \notin Indices
           /\ client_metas # <<>>
           /\ client_metas' = Front(client_metas)
           /\ spc' = IF Len(delete_idxs) = 1 THEN "select" ELSE "erase"
           /\ UNCHANGED netVars
        \/ /\ idx \notin Indices
           /\ spc' = "crashed"
           /\ ServerCloses(c2s)
           /\ UNCHANGED <<client_metas, s2c, unsent, srvSide, backlog>>
    /\ delete_idxs' = Front(delete_idxs)
    /\ UNCHANGED <<rtts, rtts0, lock_owner, read_fds, i, j, n, ordered, op_lines>>

\* A step of the thread outside write.
ServerActs ==
    \/ Select \/ Accept \/ AcceptFails
    \/ OperatorQuits \/ OperatorMistypes \/ Exit
    \/ RecvThrows
    \/ \E k \in Indices : Dispatch(k)
    \/ Ping \/ Pong \/ PongFails \/ OrderFaults \/ Order \/ Unlock
    \/ DispatchEnds \/ Erase

ServerNext == Send \/ (Flowing /\ ServerActs)
=============================================================================
