---------------------------- MODULE Coordination ----------------------------
(***************************************************************************)
(* What the server promises about countdowns, without sockets, locks or    *)
(* pings: a countdown that somebody asks for may come to nothing, but one  *)
(* that is called is meant for everyone present.  The call reaches them    *)
(* one after the other, and nothing else is called before it has reached   *)
(* them all; each counts down what it is owed, in the order of the calls.  *)
(***************************************************************************)
EXTENDS Integers, Sequences

CONSTANTS
    Clients,
    Numbers    \* the start numbers somebody may ask for, integers

VARIABLES
    asked,     \* numbers asked for and not called yet
    present,   \* the clients that are called
    coming,    \* coming[c]: the call under way, as long as it has not reached c
    owed,      \* owed[c]: calls c has still to count down
    done,      \* done[c]: calls it has counted down
    up         \* the server lives

vars == <<asked, present, coming, owed, done, up>>

TypeOK ==
    /\ asked \in SUBSET Numbers
    /\ present \in SUBSET Clients
    /\ coming \in [Clients -> Seq(Numbers)]
    /\ owed \in [Clients -> Seq(Numbers)]
    /\ done \in [Clients -> Seq(Numbers)]
    /\ up \in BOOLEAN

NobodyCalled == coming = [c \in Clients |-> <<>>]

\* Some may be there already.
Init ==
    /\ asked = {}
    /\ present \in SUBSET Clients
    /\ NobodyCalled
    /\ owed = [c \in Clients |-> <<>>]
    /\ done = [c \in Clients |-> <<>>]
    /\ up = TRUE

Ask(n) ==
    /\ asked' = asked \cup {n}
    /\ UNCHANGED <<present, coming, owed, done, up>>

\* The server takes the request for something else.
Lose ==
    /\ asked' \in SUBSET asked
    /\ UNCHANGED <<present, coming, owed, done, up>>

\* A client joins once, and never in the middle of a call.
Join(c) ==
    /\ up
    /\ NobodyCalled
    /\ c \notin present
    /\ owed[c] = <<>> /\ done[c] = <<>>
    /\ present' = present \cup {c}
    /\ UNCHANGED <<asked, coming, owed, done, up>>

\* A countdown is called: it is under way to everyone present.  Requests may be
\* lost meanwhile.
Call(n) ==
    /\ up
    /\ NobodyCalled
    /\ n \in asked
    /\ n >= 0
    /\ asked' \in SUBSET asked
    /\ coming' = [c \in Clients |-> IF c \in present THEN <<n>> ELSE <<>>]
    /\ UNCHANGED <<present, owed, done, up>>

\* The call reaches c.
Reach(c) ==
    /\ up
    /\ coming[c] # <<>>
    /\ owed' = [owed EXCEPT ![c] = Append(@, Head(coming[c]))]
    /\ coming' = [coming EXCEPT ![c] = Tail(@)]
    /\ UNCHANGED <<asked, present, done, up>>

Count(c) ==
    /\ c \in present
    /\ owed[c] # <<>>
    /\ done' = [done EXCEPT ![c] = Append(@, Head(owed[c]))]
    /\ owed' = [owed EXCEPT ![c] = Tail(@)]
    /\ UNCHANGED <<asked, present, coming, up>>

Leave(c) ==
    /\ c \in present
    /\ present' = present \ {c}
    /\ coming' = [coming EXCEPT ![c] = <<>>]
    /\ owed' = [owed EXCEPT ![c] = <<>>]
    /\ UNCHANGED <<asked, done, up>>

\* The server ends, in the middle of a call perhaps.
Stop ==
    /\ up
    /\ up' = FALSE
    /\ asked' \in SUBSET asked
    /\ coming' = [c \in Clients |-> <<>>]
    /\ UNCHANGED <<present, owed, done>>

Next ==
    \/ \E n \in Numbers : Ask(n) \/ Call(n)
    \/ \E c \in Clients : Join(c) \/ Reach(c) \/ Count(c) \/ Leave(c)
    \/ Lose \/ Stop

Spec == Init /\ [][Next]_vars

-----------------------------------------------------------------------------

\* All that has been called to c, done or not, or still on the way.
Promised(c) == done[c] \o owed[c] \o coming[c]

\* s is what t ends with.
IsLateView(s, t) ==
    /\ Len(s) <= Len(t)
    /\ \A k \in 1..Len(s) : s[k] = t[Len(t) - Len(s) + k]

\* Everyone present is called to the same countdowns in the same order, but for
\* those before it joined: what has been called to one is an ending of what has
\* been called to the other.  Only the call under way may have reached the one
\* and not the other.
Agreement ==
    up => \A c, d \in present :
            IsLateView(Promised(c), Promised(d)) \/ IsLateView(Promised(d), Promised(c))
=============================================================================
