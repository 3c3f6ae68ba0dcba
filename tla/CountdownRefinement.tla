------------------------ MODULE CountdownRefinement ------------------------
(***************************************************************************)
(* The server, its clients and the network implement Coordination as long  *)
(* as every message arrives alone (RecvMax = 1) and there are at most      *)
(* PingN + 1 clients.                                                      *)
(***************************************************************************)
EXTENDS NetworkCountdown

\* Every number some user may type.
Typable ==
    {line.n : line \in UNION {UNION ToSet(Script[c]) : c \in Clients}}

\* A request is on its way to the server, or is what the ping loop runs for.
Requested ==
    {m.n : m \in {l \in UNION {ToSet(c2s[c]) : c \in Clients} : l.type = "COUNTDOWN_N"}}
        \cup IF spc \in {"ping", "pong"} THEN {n} ELSE {}

\* Accepted, and still in business.
Present ==
    {c \in ToSet(client_metas) : cpc[c] \in {"select", "typing", "pinging", "deaf"}}

Due == [c \in Clients |-> IF c \in Present THEN OrdersIn(s2c[c]) ELSE <<>>]

\* The order of the countdown under way, for those the order loop has not come
\* to.
Coming ==
    [c \in Clients |->
        IF spc = "order" /\ c \in Present /\ \E k \in Indices : k >= j /\ c = Meta(k)
        THEN <<n>> ELSE <<>>]

Abstract == INSTANCE Coordination WITH
    Numbers <- Typable,
    asked   <- Requested,
    present <- Present,
    coming  <- Coming,
    owed    <- Due,
    done    <- obeyed,
    up      <- spc \notin {"exited", "crashed"}

\* Pings, locks, lost answers and dying processes are a way to run the abstract
\* coordination: no order is read by a loop that waits for something else.
Implements == Abstract!Spec

\* While the server lives, the orders for one client in business, carried out,
\* on their way or due in the order loop, are an ending of those for the other.
CountdownsAgree == Abstract!Agreement
=============================================================================
