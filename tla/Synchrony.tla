------------------------------ MODULE Synchrony ------------------------------
(***************************************************************************)
(* The timing of countdowns: the server measures round trips on a clock of *)
(* whole seconds, makes a delay for each client of them, and each client   *)
(* sleeps for its delay before it speaks.  Time is counted in ticks.  The  *)
(* latency of a client is the time a message takes to or from it.          *)
(***************************************************************************)
EXTENDS Integers, Sequences

CONSTANTS
    N,               \* how many clients there are
    PingN,           \* the ping_n option
    Second,          \* ticks in a second
    Latencies,       \* what the latency of a client may be
    Waits,           \* how long a first ping may wait for its client to read
    MaxCountdowns    \* bound: how many countdowns there are

ASSUME SynchronyAssumption ==
    /\ N \in Nat \ {0}
    /\ PingN \in Nat \ {0}
    /\ Second \in Nat \ {0} /\ Second % 2 = 0
    /\ Latencies \subseteq Nat /\ Waits \subseteq Nat
    /\ MaxCountdowns \in Nat

\* In the order of client_metas.
Clients == 1..N

VARIABLES
    latency,     \* latency[c]
    time,        \* in ticks, never read by the program
    round,       \* the index i of the ping loop; PingN while orders are sent
    turn,        \* the index j, from 1
    rtts,        \* rtts[c]: the measurements of the server, oldest first
    first,       \* history: which of them are of first pings
    spoken,      \* spoken[c]: when c begins to speak the latest countdown
    countdowns   \* n_countdowns

vars == <<latency, time, round, turn, rtts, first, spoken, countdowns>>

TypeOK ==
    /\ latency \in [Clients -> Latencies]
    /\ time \in Nat
    /\ round \in 0..PingN
    /\ turn \in Clients
    /\ rtts \in [Clients -> Seq(Nat)]
    /\ \A c \in Clients : first[c] \subseteq DOMAIN rtts[c]
    /\ spoken \in [Clients -> Nat]
    /\ countdowns \in 0..MaxCountdowns

\* The server starts at any moment of a second.
Init ==
    /\ latency \in [Clients -> Latencies]
    /\ time \in 0..Second - 1
    /\ round = 0
    /\ turn = 1
    /\ rtts = [c \in Clients |-> <<>>]
    /\ first = [c \in Clients |-> {}]
    /\ spoken = [c \in Clients |-> 0]
    /\ countdowns = 0

-----------------------------------------------------------------------------

\* now(): whole seconds.
now(t) == t \div Second

\* Mutant: the first measurement is summed as well.
Summed_All(s) == s

\* accumulate(rtts.begin() + 1, rtts.end(), 0)
Summed(s) == Tail(s)

accumulate(s) ==
    LET sum[k \in 0..Len(s)] == IF k = 0 THEN 0 ELSE sum[k - 1] + s[k]
    IN  sum[Len(s)]

\* The sum is divided by the number of all measurements, in integers.
mean_rtt(s) == accumulate(Summed(s)) \div Len(s)

\* In ticks: half of the mean may be half a second.
estimate_send_t(s) == mean_rtt(s) * (Second \div 2)

\* Mutant: the difference the wrong way round.
Measured_Swapped(t0, tf) == now(t0) - now(tf)

\* Mutant: a clock of ticks where seconds are meant.
Measured_Ticks(t0, tf) == tf - t0

\* tf - t0
Measured(t0, tf) == now(tf) - now(t0)

\* format_say_countdown: "sleep <delay> && say <n>".
Begins(received, delay) == received + delay

\* The next client, or the next round.
Advance ==
    IF turn < N
    THEN turn' = turn + 1 /\ round' = round
    ELSE turn' = 1 /\ round' = round + 1

\* One ping and its answer.  The first ping of a countdown may find its client
\* at something else, speaking the last countdown say; the others are awaited.
Ping ==
    /\ countdowns < MaxCountdowns
    /\ round < PingN
    /\ \E wait \in (IF round = 0 THEN Waits ELSE {0}) :
        LET tf == time + 2 * latency[turn] + wait IN
        /\ time' = tf
        /\ rtts' = [rtts EXCEPT ![turn] = Append(@, Measured(time, tf))]
    /\ first' = [first EXCEPT ![turn] =
                    IF round = 0 THEN @ \cup {Len(rtts[turn]) + 1} ELSE @]
    /\ Advance
    /\ UNCHANGED <<latency, spoken, countdowns>>

\* The orders are written one after the other, in no time.
Orders ==
    /\ round = PingN
    /\ spoken' = [c \in Clients |->
                    Begins(time + latency[c], estimate_send_t(rtts[c]))]
    /\ round' = 0
    /\ countdowns' = countdowns + 1
    /\ UNCHANGED <<latency, time, turn, rtts, first>>

Next == Ping \/ Orders

Spec == Init /\ [][Next]_vars

-----------------------------------------------------------------------------
(* Properties *)

Called == countdowns > 0 /\ round = 0 /\ turn = 1

Delay(c) == estimate_send_t(rtts[c])

\* A measurement other than that of a first ping is less than a second away
\* from the round trip it stands for, although the clock only shows seconds.
MeasuredWithin ==
    \A c \in Clients : \A k \in DOMAIN rtts[c] \ first[c] :
        /\ rtts[c][k] * Second < 2 * latency[c] + Second
        /\ rtts[c][k] * Second > 2 * latency[c] - Second

\* Over the first countdown the delay of a client exceeds the time a message
\* takes to it by less than half a second, however late the first pings were.
DelayBounded ==
    \A c \in Clients :
        rtts[c] # <<>> /\ countdowns = 0 => 2 * Delay(c) < 2 * latency[c] + Second

\* "Make expected time to be recieved roughly the same": the delays leave the
\* clients no further apart than the latencies alone would.
DelaysHelp ==
    Called => \A c, d \in Clients :
        latency[c] <= latency[d] => spoken[d] - spoken[c] <= latency[d] - latency[c]
=============================================================================
