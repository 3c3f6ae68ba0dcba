------------------------- MODULE MCNetworkCountdown -------------------------
(***************************************************************************)
(* Small instances of NetworkCountdown.                                    *)
(***************************************************************************)
EXTENDS CountdownRefinement

CONSTANTS ann, bob, carl, dave, eve, fay

Pair == {ann, bob}
Trio == {ann, bob, carl}

Nicknames == ann :> "ann" @@ bob :> "bob" @@ carl :> "carl" @@ dave :> "dave"
             @@ eve :> "eve" @@ fay :> "fay"
NickOfPair == [c \in Pair |-> Nicknames[c]]
NickOfTrio == [c \in Trio |-> Nicknames[c]]

Quit == [word |-> "quit", n |-> 0]
Countdown(number) == [word |-> "countdown", n |-> number]
Write == [word |-> "write", n |-> 0]
Junk == [word |-> "junk", n |-> 0]

\* Ann counts down and writes, or bob does; one of them quits, or both.
BothCount == ann :> <<{Countdown(3)}, {Write, Quit}>>
             @@ bob :> <<{Quit, Countdown(5)}>>
\* Ann counts down and writes while bob quits, writes or types nonsense, and
\* carl only comes.
AnnTwice == ann :> <<{Countdown(3)}, {Countdown(5), Write}>>
            @@ bob :> <<{Quit, Write, Junk}>> @@ carl :> <<>>
\* Ann counts down, writes or quits, and bob quits, in the same pass perhaps.
BothQuit == ann :> <<{Countdown(3), Countdown(-1), Write, Quit}>> @@ bob :> <<{Quit}>>
\* Two countdowns over each other.
AnnAndBob == ann :> <<{Countdown(3)}, {Countdown(5)}>> @@ bob :> <<{Quit, Write, Junk}>>

(***************************************************************************)
(* The clients of order have joined one after the other, the first of them *)
(* has run the countdowns of past, and all that was sent has been handled. *)
(***************************************************************************)
Before(order, past) ==
    /\ s2c = [c \in Clients |-> <<>>]
    /\ unsent = [c \in Clients |-> 0]
    /\ srvSide = [c \in Clients |-> IF c \in ToSet(order) THEN "open" ELSE "none"]
    /\ cliSide = srvSide
    /\ backlog = <<>>
    /\ listening = TRUE
    /\ spc = "select"
    /\ client_metas = order
    /\ rtts = [c \in Clients |-> IF c \in ToSet(order) THEN PingN * Len(past) ELSE 0]
    /\ rtts0 = [c \in Clients |->
                    IF c \in ToSet(order) /\ past # <<>> THEN PingN * (Len(past) - 1) ELSE 0]
    /\ lock_owner = IF past = <<>> THEN NoName ELSE Nick[Head(order)]
    /\ j = IF past = <<>> THEN 0 ELSE Len(order)
    /\ n = IF past = <<>> THEN 0 ELSE Last(past)
    /\ ordered = [c \in Clients |-> IF c \in ToSet(order) THEN past ELSE <<>>]
    /\ delete_idxs = <<>>
    /\ op_lines = 0
    /\ ping_n = [c \in Clients |-> IF c \in ToSet(order) THEN PingN ELSE -1]
    /\ ci = [c \in Clients |-> IF past = <<>> \/ c \notin ToSet(order) THEN 0 ELSE PingN]
    /\ peer_names = [c \in Clients |->
            {Nick[order[m]] : m \in {l \in 2..Len(order) :
                                        \E k \in 1..(l - 1) : order[k] = c}}]
    /\ obeyed = ordered

Idle(order, past) ==
    /\ Before(order, past)
    /\ c2s = [c \in Clients |-> <<>>]
    /\ read_fds = IF past = <<>> THEN {Last(order)} ELSE {Head(order)}
    /\ i = IF past = <<>> THEN Len(order) ELSE PingN + 1
    /\ cpc = [c \in Clients |-> IF c \in ToSet(order) THEN "select" ELSE "off"]
    /\ color = [c \in Clients |-> "def"]
    /\ typed = [c \in Clients |-> IF c = Head(order) THEN Len(past) ELSE 0]

PairSpec == Idle(<<ann, bob>>, <<>>) /\ [][Next]_vars
\* Ann is there, and bob may come.
BobComesSpec == Idle(<<ann>>, <<>>) /\ [][Next]_vars /\ Fairness

(***************************************************************************)
(* Six clients, one ping.  The server has relayed the lock of fay, and in  *)
(* a later pass the lock of eve; since then carl and dave each typed       *)
(* nonsense and quit, eve quit, and fay asked for a countdown; she may     *)
(* begin another line.                                                     *)
(***************************************************************************)
Crowd == {ann, bob, carl, dave, eve, fay}
NickOfCrowd == Nicknames
CrowdScript == ann :> <<{Countdown(3)}>> @@ bob :> <<>>
               @@ carl :> <<{Junk}, {Quit}>> @@ dave :> <<{Junk}, {Quit}>>
               @@ eve :> <<{Quit}>> @@ fay :> <<{Countdown(5)}, {Junk}>>

CrowdInit ==
    /\ Before(<<ann, bob, carl, dave, eve, fay>>, <<3>>)
    /\ c2s = [c \in Clients |->
                CASE c \in {carl, dave} -> <<lock_msg(Nick[c]), lock_msg(Nick[c]),
                                             goodbye_msg(Nick[c])>>
                  [] c = eve            -> <<goodbye_msg(Nick[c])>>
                  [] c = fay            -> <<countdown_n_msg(5)>>
                  [] OTHER              -> <<>>]
    /\ read_fds = {eve}
    /\ i = 5
    /\ cpc = [c \in Clients |-> IF c \in {carl, dave, eve} THEN "leaving" ELSE "select"]
    /\ color = [c \in Clients |-> "red"]
    /\ typed = [c \in Clients |-> IF c = fay THEN 1 ELSE Len(Script[c])]

CrowdSpec == CrowdInit /\ [][Next]_vars
=============================================================================
