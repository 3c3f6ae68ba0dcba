--------------------------- MODULE DeliveryProofs ---------------------------
(***************************************************************************)
(* What holds when every message arrives alone.  Every order reaches every *)
(* client and no two processes wait for each other; for at most PingN + 1  *)
(* clients the program then implements Coordination, so that its clients   *)
(* agree.  And when users take turns, nobody is killed and no standard     *)
(* input ends, the server survives, every client answers every ping of a   *)
(* countdown, and everyone knows the peers that came later.                *)
(***************************************************************************)
EXTENDS NetworkCountdownProofs, CountdownRefinement

-----------------------------------------------------------------------------
(* Every order is carried out *)

\* Clients that may still carry something out.
Here == {c \in Clients : cpc[c] \notin Ended}

\* The round whose ping a client waits for before it looks at anything else; 0
\* outside its ping loop.
Expect(c) == IF cpc[c] = "pinging" THEN ci[c] ELSE 0

\* The round it waits for once it has read m.
NextRound(m) == IF m.type = "PING" /\ m.n + 1 < PingN THEN m.n + 1 ELSE 0

\* A client that waits for the ping of round x may read m next.
Follows(x, m) == IF x > 0 THEN m.type = "PING" /\ m.n = x
                 ELSE m.type = "PING" => m.n = 0

\* It may read the whole stream, one message at a time ...
Framed(x, stream) ==
    /\ stream # <<>> => Follows(x, stream[1])
    /\ \A k \in 1..(Len(stream) - 1) : Follows(NextRound(stream[k]), stream[k + 1])

\* ... and then waits for the ping of this round.
EndOf(x, stream) == IF stream = <<>> THEN x ELSE NextRound(stream[Len(stream)])

\* The pings of this countdown that the client at index k was sent.
Sent(k) == IF k < j \/ (k = j /\ spc = "pong") THEN i + 1 ELSE i

\* The indices of the ping loop, while it runs.
Pinged == IF spc \in {"ping", "pong"} THEN Indices ELSE {}

\* What travels to c lets it leave its ping loop before any order comes, ...
InFrame(c) ==
    /\ Framed(Expect(c), s2c[c])
    /\ (\A k \in Pinged : c # Meta(k)) => EndOf(Expect(c), s2c[c]) = 0
    /\ \A k \in Pinged : c = Meta(k) =>
            EndOf(Expect(c), s2c[c]) = IF Sent(k) < PingN THEN Sent(k) ELSE 0

\* ... and the orders it has not carried out are among it.
DeliverOK ==
    /\ spc \in {"ping", "pong"} => i < PingN
    /\ \A c \in Clients : cpc[c] = "pinging" => ci[c] >= 1
    /\ \A c \in Here : Framed(Expect(c), s2c[c])
    /\ spc # "crashed" => \A c \in Here : /\ InFrame(c)
                                          /\ obeyed[c] \o OrdersIn(s2c[c]) = ordered[c]

\* A client the server waits for has answered, or has a ping to answer.
PongDue ==
    spc = "pong" /\ Meta(j) \in Here =>
        c2s[Meta(j)] # <<>> \/ \E m \in ToSet(s2c[Meta(j)]) : m.type = "PING"

\* The server blocks in no write of a countdown, and what it holds back is one
\* message for a client, which is no order.
HoldsBack(c) ==
    \/ unsent[c] = 0
    \/ unsent[c] = 1 /\ s2c[c] # <<>> /\ s2c[c][Len(s2c[c])].type # "COUNTDOWN_ORDER"

HeldOK ==
    /\ spc \in {"ping", "pong", "order"} => Flowing
    /\ \A c \in Here : HoldsBack(c)

\* Writing one more message to a stream.
LEMMA FramedAppend ==
    ASSUME NEW s \in Seq(Msg), NEW m \in Msg, NEW x \in Int, Framed(x, s),
           Follows(EndOf(x, s), m)
    PROVE  /\ s \o <<m>> \in Seq(Msg)
           /\ s \o <<m>> # <<>>
           /\ ToSet(s \o <<m>>) = ToSet(s) \cup {m}
           /\ Framed(x, s \o <<m>>)
           /\ EndOf(x, s \o <<m>>) = NextRound(m)
<1> DEFINE t == s \o <<m>>
           N == Len(s)
<1>1. /\ N \in Nat /\ t \in Seq(Msg) /\ Len(t) = N + 1
      /\ \A k \in 1..N : t[k] = s[k]
      /\ t[N + 1] = m
  <2>1. t = Append(s, m)
    BY AppendIsConcat
  <2> QED BY <2>1, AppendProperties, LenProperties
<1>2. ToSet(t) = ToSet(s) \cup {m}
  <2>1. <<m>> \in Seq(Msg)
    OBVIOUS
  <2> QED BY <2>1, Contents
<1>3. s = <<>> <=> N = 0
  BY EmptySeq
<1> HIDE DEF t
<1>4. t # <<>>
  BY <1>1, EmptySeq
<1>5. CASE N = 0
  <2>1. t[1] = m /\ EndOf(x, s) = x
    BY <1>1, <1>3, <1>5 DEF EndOf
  <2>2. Framed(x, t)
    <3>1. \A k \in 1..(Len(t) - 1) : FALSE
      BY <1>1, <1>5
    <3>2. Follows(x, t[1])
      BY <2>1
    <3> QED BY <3>1, <3>2 DEF Framed
  <2>3. EndOf(x, t) = NextRound(m)
    BY <1>1, <1>4 DEF EndOf
  <2> QED BY <1>1, <1>2, <1>4, <2>2, <2>3 DEF t
<1>6. CASE N # 0
  <2>1. /\ EndOf(x, s) = NextRound(s[N]) /\ Follows(x, s[1])
        /\ \A k \in 1..(N - 1) : Follows(NextRound(s[k]), s[k + 1])
    BY <1>3, <1>6 DEF EndOf, Framed
  <2>2. ASSUME NEW k \in 1..(Len(t) - 1) PROVE Follows(NextRound(t[k]), t[k + 1])
    <3>1. k \in 1..N /\ (k = N \/ (k \in 1..(N - 1) /\ k + 1 \in 1..N))
      BY <1>1
    <3>2. CASE k = N
      BY <1>1, <2>1, <3>1, <3>2
    <3>3. CASE k \in 1..(N - 1) /\ k + 1 \in 1..N
      BY <1>1, <2>1, <3>1, <3>3
    <3> QED BY <3>1, <3>2, <3>3
  <2>3. t[1] = s[1]
    BY <1>1, <1>6
  <2>4. Framed(x, t)
    BY <2>1, <2>2, <2>3 DEF Framed
  <2>5. EndOf(x, t) = NextRound(m)
    BY <1>1, <1>4 DEF EndOf
  <2> QED BY <1>1, <1>2, <1>4, <2>4, <2>5 DEF t
<1> QED BY <1>5, <1>6

\* The beginning of a stream.
LEMMA FramedFront ==
    ASSUME NetworkTypeOK, NEW c \in Clients, NEW x \in Int, Framed(x, s2c[c])
    PROVE  Framed(x, Arrived(c, s2c[c]))
<1> DEFINE s == s2c[c]
           m == Len(s) - unsent[c]
           t == Arrived(c, s)
<1>1. /\ s \in Seq(Msg) /\ Len(s) \in Nat /\ unsent[c] \in Nat
      /\ m \in Int /\ m <= Len(s)
  BY LenProperties DEF NetworkTypeOK
<1>2. \A l \in 1..m : s[l] \in Msg /\ 1 + l - 1 = l
  BY <1>1, LenProperties
<1>3. t = SubSeq(s, 1, m) /\ Framed(x, s)
  BY DEF Arrived
<1> HIDE DEF s, m, t
<1>4. /\ t \in Seq(Msg)
      /\ Len(t) = IF 1 <= m THEN m ELSE 0
      /\ \A l \in 1..m : t[l] = s[l]
  BY <1>1, <1>2, <1>3, SubSeqProperties
<1>5. t # <<>> => 1 <= m /\ s # <<>>
  BY <1>1, <1>4, EmptySeq
<1>6. t # <<>> => Follows(x, t[1])
  BY <1>1, <1>3, <1>4, <1>5 DEF Framed
<1>7. ASSUME NEW k \in 1..(Len(t) - 1) PROVE Follows(NextRound(t[k]), t[k + 1])
  <2>1. k \in 1..m /\ k + 1 \in 1..m /\ k \in 1..(Len(s) - 1)
    BY <1>1, <1>4
  <2> QED BY <1>3, <1>4, <2>1 DEF Framed
<1> QED BY <1>6, <1>7 DEF Framed, t, s

\* Reading the first message of a stream.
LEMMA FramedTail ==
    ASSUME NEW s \in Seq(Msg), s # <<>>, NEW x \in Int, Framed(x, s)
    PROVE  /\ Head(s) \in Msg /\ Tail(s) \in Seq(Msg)
           /\ Follows(x, Head(s))
           /\ Framed(NextRound(Head(s)), Tail(s))
           /\ EndOf(NextRound(Head(s)), Tail(s)) = EndOf(x, s)
           /\ ToSet(s) = {Head(s)} \cup ToSet(Tail(s))
<1> DEFINE t == Tail(s)
           N == Len(s) - 1
<1>1. /\ N \in Nat /\ t \in Seq(Msg) /\ Len(s) = N + 1 /\ Len(t) = N
      /\ \A k \in 1..N : t[k] = s[k + 1]
      /\ Head(s) = s[1] /\ s[1] \in Msg
      /\ DOMAIN s = 1..(N + 1) /\ DOMAIN t = 1..N
  BY HeadTailProperties, EmptySeq, LenProperties
<1> HIDE DEF t, N
<1>2. t = <<>> <=> N = 0
  BY <1>1, EmptySeq
<1>3. /\ Follows(x, s[1])
      /\ \A k \in 1..N : Follows(NextRound(s[k]), s[k + 1])
      /\ EndOf(x, s) = NextRound(s[N + 1])
  <2>1. Len(s) - 1 = N
    BY <1>1
  <2> QED BY <1>1, <2>1 DEF Framed, EndOf
<1>4. Framed(NextRound(s[1]), t)
  <2>1. t # <<>> => Follows(NextRound(s[1]), t[1])
    BY <1>1, <1>2, <1>3
  <2>2. ASSUME NEW k \in 1..(Len(t) - 1) PROVE Follows(NextRound(t[k]), t[k + 1])
    <3>1. k \in 1..N /\ k + 1 \in 1..N
      BY <1>1
    <3> QED BY <1>1, <1>3, <3>1
  <2> QED BY <2>1, <2>2 DEF Framed
<1>5. EndOf(NextRound(s[1]), t) = EndOf(x, s)
  BY <1>1, <1>2, <1>3 DEF EndOf
<1>6. ToSet(s) = {s[1]} \cup ToSet(t)
  <2>1. \A k \in 1..(N + 1) : k = 1 \/ (k - 1 \in 1..N /\ (k - 1) + 1 = k)
    BY <1>1
  <2>2. \A k \in 1..N : k + 1 \in 1..(N + 1)
    BY <1>1
  <2>3. 1 \in 1..(N + 1)
    BY <1>1
  <2>4. ToSet(s) \subseteq {s[1]} \cup ToSet(t)
    <3>1. ASSUME NEW k \in 1..(N + 1) PROVE s[k] \in {s[1]} \cup ToSet(t)
      <4>1. CASE k = 1
        BY <4>1
      <4>2. CASE k - 1 \in 1..N /\ (k - 1) + 1 = k
        <5>1. s[k] = t[k - 1]
          BY <1>1, <4>2
        <5> QED BY <1>1, <4>2, <5>1 DEF ToSet
      <4> QED BY <2>1, <4>1, <4>2
    <3> QED BY <1>1, <3>1 DEF ToSet
  <2>5. {s[1]} \cup ToSet(t) \subseteq ToSet(s)
    BY <1>1, <2>2, <2>3 DEF ToSet
  <2> QED BY <2>4, <2>5
<1> QED BY <1>1, <1>3, <1>4, <1>5, <1>6 DEF t

\* Adding to the end of what follows a sequence.
LEMMA AppendBehind ==
    ASSUME NEW a \in Seq(Int), NEW b \in Seq(Int), NEW e \in Int
    PROVE  a \o Append(b, e) = Append(a \o b, e)
<1>1. a \o b \in Seq(Int) /\ <<e>> \in Seq(Int)
  BY ConcatProperties
<1>2. Append(a \o b, e) = (a \o b) \o <<e>>
  BY <1>1, AppendIsConcat
<1>3. Append(b, e) = b \o <<e>>
  BY AppendIsConcat
<1>4. (a \o b) \o <<e>> = a \o (b \o <<e>>)
  BY <1>1, ConcatAssociative
<1> QED BY <1>2, <1>3, <1>4

\* A write of the server reaches every client it is meant for that may still
\* carry something out.
LEMMA Reaches ==
    ASSUME IndTypeOK, OnePlaceEach, JoinOK, NEW T \in SUBSET Indices, NEW m,
           s2c' = Written(s2c, srvSide, Metas(T), <<m>>)
    PROVE  \A c \in Here : s2c'[c] = IF c \in Metas(T) THEN s2c[c] \o <<m>> ELSE s2c[c]
<1> SUFFICES ASSUME NEW c \in Here
             PROVE  s2c'[c] = IF c \in Metas(T) THEN s2c[c] \o <<m>> ELSE s2c[c]
  OBVIOUS
<1>1. c \in Clients
  BY DEF Here
<1>2. CASE c \in Metas(T)
  <2>1. c \in ToSet(client_metas)
    BY <1>2, MetaFacts DEF Metas
  <2>2. cpc[c] # "off"
    BY <2>1 DEF OnePlaceEach
  <2>3. c \in Live
    BY <1>1, <2>2 DEF Here, Ended, Live, IndTypeOK, TypeOK, ClientTypeOK, ClientPCs
  <2>4. srvSide[c] = "open"
    BY <2>3 DEF JoinOK
  <2> QED BY <1>1, <1>2, <2>4 DEF Written
<1>3. CASE c \notin Metas(T)
  BY <1>1, <1>3 DEF Written
<1> QED BY <1>2, <1>3

\* A write that waits for room blocks nobody else's, and dies before it has
\* written anything.
LEMMA WriteOneCases ==
    ASSUME NEW t \in Nat, NEW buf, NEW next, WriteOne(t, buf, next)
    PROVE  \/ WriteSucceeds({t}, {}, buf, c2s, next)
           \/ WriteKills({t}, {}, buf, c2s)
<1> DEFINE Full == {x \in {t} : ~Fits(s2c[Meta(x)], srvSide[Meta(x)], buf)}
           Now  == Until({t}, Full \cup Broken({t}))
<1>1. Full = {} /\ WriteAll({t}, buf, c2s, next)
  BY DEF WriteOne
<1>2. /\ Until(Broken({t}), Full) = Broken({t})
      /\ Now = Until({t}, Broken({t}))
  BY <1>1 DEF Until
<1>3. CASE Broken({t}) = {}
  <2>1. Now = {t} /\ Metas({t} \ Now) = {}
    BY <1>2, <1>3 DEF Until, Metas
  <2>2. WriteSucceeds({t}, Metas({t} \ Now), buf, c2s, next)
    BY <1>1, <1>2, <1>3 DEF WriteAll, WriteSucceeds
  <2> QED BY <2>1, <2>2
<1>4. CASE Broken({t}) # {}
  <2>1. Broken({t}) = {t}
    BY <1>4 DEF Broken
  <2>2. Now = {} /\ Metas(Now) = {}
    BY <1>2, <2>1 DEF Until, Metas
  <2>3. WriteKills({t}, Metas(Now), buf, c2s)
    BY <1>1, <1>2, <1>4 DEF WriteAll, WriteKills
  <2> QED BY <2>2, <2>3
<1> QED BY <1>3, <1>4

\* A message the server relays is one a client wrote, and no order.
LEMMA RelaysAlone ==
    ASSUME RecvMax = 1, NetworkTypeOK, client_metas \in Seq(Clients), NEW k \in Indices,
           NEW buf \in Chunks(c2s[Meta(k)], srvSide[Meta(k)]),
           classify(buf) \in {"HELLO", "GOODBYE", "PEER_LOCK", "PEER_UNLOCK",
                              "WRITE_ARBITRARY"}
    PROVE  \E m \in Msg : buf = <<m>> /\ m.type \notin {"PING", "COUNTDOWN_ORDER"}
<1>1. c2s[Meta(k)] \in Seq(Msg)
  <2>1. Meta(k) \in Clients
    BY IndicesMetas DEF Metas
  <2> QED BY <2>1 DEF NetworkTypeOK
<1>2. buf # <<>>
  BY DEF classify
<1>3. c2s[Meta(k)] # <<>> /\ buf = <<Head(c2s[Meta(k)])>>
  BY <1>1, <1>2, ChunkAlone
<1>4. Head(c2s[Meta(k)]) \in Msg
  BY <1>1, <1>3, HeadTailProperties
<1> QED BY <1>3, <1>4 DEF classify

\* The server's steps, the writes of a message included, keep every order on
\* its way and every client on its way out of its ping loop.
LEMMA ServerKeepsDelivery ==
    ASSUME RecvMax = 1, IndTypeOK, OnePlaceEach, InLoop, JoinOK, HeldOK, DeliverOK,
           ServerNext, UNCHANGED clientVars
    PROVE  DeliverOK'
<1>1. /\ NetworkTypeOK /\ ServerTypeOK /\ ClientTypeOK /\ PingN \in Int
      /\ i \in Nat /\ j \in Nat /\ n \in Int /\ lock_owner \in Names \cup {NoName}
      /\ UNCHANGED <<cpc, ci, obeyed>>
  BY ServerAssumption DEF IndTypeOK, TypeOK, ServerTypeOK, clientVars
<1>2. Here' = Here /\ Here \subseteq Clients /\ \A c \in Clients : Expect(c)' = Expect(c)
  BY <1>1 DEF Here, Expect
<1>3. /\ spc # "crashed"
      /\ \A c \in Clients : cpc'[c] = "pinging" => ci'[c] >= 1
      /\ \A c \in Here : /\ s2c[c] \in Seq(Msg) /\ Expect(c) \in Int
                         /\ obeyed[c] \in Seq(Int) /\ ordered[c] \in Seq(Int)
                         /\ InFrame(c)
                         /\ obeyed[c] \o OrdersIn(s2c[c]) = ordered[c]
  <2>1. spc # "crashed"
    BY ServerTraffic
  <2>2. \A c \in Here : Expect(c) \in Int
    BY <1>1, <1>2 DEF Expect, ClientTypeOK
  <2> QED BY <1>1, <1>2, <2>1, <2>2 DEF DeliverOK, NetworkTypeOK, ClientTypeOK, ServerTypeOK
<1>ok. ASSUME spc' \in {"ping", "pong"} => i' < PingN,
              \A c \in Here : InFrame(c)' /\ obeyed'[c] \o OrdersIn(s2c'[c]) = ordered'[c]
       PROVE  DeliverOK'
  <2>1. \A c \in Here : Framed(Expect(c)', s2c'[c])
    BY <1>ok DEF InFrame
  <2> QED BY <1>2, <1>3, <1>ok, <2>1 DEF DeliverOK
\* A message that some of the clients are sent while the server dies.
<1>dead. ASSUME spc' = "crashed", NEW m \in Msg, NEW W, m.type # "PING" \/ W = {},
                spc \notin {"ping", "pong"} \/ W = {},
                s2c' = Written(s2c, srvSide, W, <<m>>)
         PROVE  DeliverOK'
  <2>1. ASSUME NEW c \in Here PROVE Framed(Expect(c), s2c'[c])
    <3>1. /\ s2c[c] \in Seq(Msg) /\ Expect(c) \in Int /\ Framed(Expect(c), s2c[c])
          /\ c \in Clients
      BY <1>2, <1>3, <2>1 DEF InFrame
    <3>2. CASE c \in W /\ srvSide[c] = "open"
      <4>1. EndOf(Expect(c), s2c[c]) = 0
        <5>1. Pinged = {}
          BY <1>dead, <3>2 DEF Pinged
        <5> QED BY <1>3, <2>1, <5>1 DEF InFrame
      <4>2. Follows(EndOf(Expect(c), s2c[c]), m)
        BY <1>dead, <3>2, <4>1 DEF Follows
      <4>3. s2c'[c] = s2c[c] \o <<m>>
        BY <1>dead, <3>1, <3>2 DEF Written
      <4> QED BY <3>1, <4>2, <4>3, FramedAppend
    <3>3. CASE ~(c \in W /\ srvSide[c] = "open")
      <4>1. s2c'[c] = s2c[c]
        BY <1>dead, <3>1, <3>3 DEF Written
      <4> QED BY <3>1, <4>1
    <3> QED BY <3>2, <3>3
  <2> QED BY <1>2, <1>3, <1>dead, <2>1 DEF DeliverOK
\* Outside the ping loop, with a message to the clients C.
<1>calm. ASSUME spc \notin {"ping", "pong"}, spc' \notin {"ping", "pong"}, NEW C,
                NEW m \in Msg, m.type # "PING",
                \A c \in Here : s2c'[c] = IF c \in C THEN s2c[c] \o <<m>> ELSE s2c[c],
                \A c \in Here : ordered'[c] = IF c \in C THEN Counted(ordered[c], m)
                                                         ELSE ordered[c]
         PROVE  DeliverOK'
  <2>1. Pinged = {} /\ Pinged' = {}
    BY <1>calm DEF Pinged
  <2>2. ASSUME NEW c \in Here PROVE InFrame(c)' /\ obeyed'[c] \o OrdersIn(s2c'[c]) = ordered'[c]
    <3>1. /\ Framed(Expect(c), s2c[c]) /\ EndOf(Expect(c), s2c[c]) = 0
          /\ s2c[c] \in Seq(Msg) /\ Expect(c) \in Int /\ obeyed[c] \in Seq(Int)
          /\ obeyed[c] \o OrdersIn(s2c[c]) = ordered[c]
          /\ Expect(c)' = Expect(c) /\ obeyed' = obeyed
      BY <1>1, <1>2, <1>3, <2>1, <2>2 DEF InFrame
    <3>2. CASE c \notin C
      <4>1. s2c'[c] = s2c[c] /\ ordered'[c] = ordered[c]
        BY <1>calm, <3>2
      <4> QED BY <2>1, <3>1, <4>1 DEF InFrame
    <3>3. CASE c \in C
      <4>1. s2c'[c] = s2c[c] \o <<m>> /\ ordered'[c] = Counted(ordered[c], m)
        BY <1>calm, <3>3
      <4>2. Follows(EndOf(Expect(c), s2c[c]), m) /\ NextRound(m) = 0
        BY <1>calm, <3>1 DEF Follows, NextRound
      <4>3. Framed(Expect(c), s2c'[c]) /\ EndOf(Expect(c), s2c'[c]) = 0
        BY <1>calm, <3>1, <4>1, <4>2, FramedAppend
      <4>4. OrdersIn(s2c'[c]) = Counted(OrdersIn(s2c[c]), m)
        BY <1>calm, <3>1, <4>1, OrdersInAppend
      <4>5. obeyed[c] \o Counted(OrdersIn(s2c[c]), m) = Counted(obeyed[c] \o OrdersIn(s2c[c]), m)
        <5>1. OrdersIn(s2c[c]) \in Seq(Int) /\ m.n \in Int
          BY <1>calm, <3>1, OrdersInType DEF Msg
        <5>2. obeyed[c] \o Append(OrdersIn(s2c[c]), m.n)
                = Append(obeyed[c] \o OrdersIn(s2c[c]), m.n)
          BY <3>1, <5>1, AppendBehind
        <5> QED BY <5>2 DEF Counted
      <4>6. obeyed'[c] \o OrdersIn(s2c'[c]) = ordered'[c]
        BY <3>1, <4>1, <4>4, <4>5
      <4> QED BY <2>1, <3>1, <4>3, <4>6 DEF InFrame
    <3> QED BY <3>2, <3>3
  <2> QED BY <1>calm, <1>ok, <2>2
<1>still. ASSUME spc \notin {"ping", "pong"}, spc' \notin {"ping", "pong"},
                 UNCHANGED <<s2c, ordered>>
          PROVE  DeliverOK'
  <2>1. Pinged = {} /\ Pinged' = {}
    BY <1>still DEF Pinged
  <2>2. ASSUME NEW c \in Here PROVE InFrame(c)' /\ obeyed'[c] \o OrdersIn(s2c'[c]) = ordered'[c]
    <3>1. Expect(c)' = Expect(c) /\ UNCHANGED <<s2c, ordered, obeyed>>
      BY <1>1, <1>2, <1>still, <2>2
    <3> QED BY <1>3, <2>1, <2>2, <3>1 DEF InFrame
  <2> QED BY <1>ok, <1>still, <2>2
<1>msgs. /\ ping_init_msg(PingN) \in Msg /\ ping_init_msg(PingN).type = "PING_INIT"
         /\ shutdown_msg \in Msg /\ shutdown_msg.type = "SHUTDOWN"
         /\ unlock_msg(lock_owner) \in Msg /\ unlock_msg(lock_owner).type = "PEER_UNLOCK"
         /\ countdown_order_msg(n) \in Msg /\ countdown_order_msg(n).type = "COUNTDOWN_ORDER"
         /\ countdown_order_msg(n).n = n
         /\ ping_msg(i) \in Msg /\ ping_msg(i).type = "PING" /\ ping_msg(i).n = i
  BY <1>1 DEF ping_init_msg, shutdown_msg, unlock_msg, countdown_order_msg, ping_msg,
     Named, Numbered, Msg, MsgTypes
\* A message to the clients at T, of a process that survives writing it.
<1>spreads. ASSUME spc \notin {"ping", "pong"}, NEW T \in SUBSET Indices,
                   NEW m \in Msg, m.type \notin {"PING", "COUNTDOWN_ORDER"}, NEW pending,
                   NEW next \in {"scan", "unlock", "closing"},
                   WriteAll(T, <<m>>, pending, next), UNCHANGED ordered
            PROVE  DeliverOK'
  <2>1. PICK W, V \in SUBSET Metas(T) :
          \/ WriteSucceeds(T, V, <<m>>, pending, next)
          \/ WriteKills(T, W, <<m>>, pending)
    BY <1>spreads, WriteAllCases
  <2>2. CASE WriteKills(T, W, <<m>>, pending)
    <3>1. spc' = "crashed" /\ s2c' = Written(s2c, srvSide, W, <<m>>)
      BY <2>2 DEF WriteKills
    <3> QED BY <1>dead, <1>spreads, <3>1
  <2>3. CASE WriteSucceeds(T, V, <<m>>, pending, next)
    <3>1. spc' = next /\ s2c' = Written(s2c, srvSide, Metas(T), <<m>>)
      BY <2>3 DEF WriteSucceeds
    <3>2. \A c \in Here : s2c'[c] = IF c \in Metas(T) THEN s2c[c] \o <<m>> ELSE s2c[c]
      BY <1>spreads, <3>1, Reaches
    <3>3. \A c \in Here : Counted(ordered[c], m) = ordered[c]
      BY <1>spreads DEF Counted
    <3> QED BY <1>calm, <1>spreads, <3>1, <3>2, <3>3
  <2> QED BY <2>1, <2>2, <2>3
<1>send. CASE Send
  <2>1. UNCHANGED <<ordered, client_metas>>
    BY <1>1, <1>send, SendCases DEF ServerTypeOK
  <2>2. spc \notin {"ping", "pong", "order"}
    BY <1>send DEF Send, HeldOK
  <2>3. PICK Later : SendSucceeds(Later) \/ SendKills(Later)
    BY <1>1, <1>send, SendCases DEF ServerTypeOK
  <2>4. CASE SendSucceeds(Later)
    BY <1>still, <2>1, <2>2, <2>4 DEF SendSucceeds
  <2>5. CASE SendKills(Later)
    <3>1. ASSUME NEW c \in Here PROVE Framed(Expect(c), s2c'[c])
      <4>1. Framed(Expect(c), s2c[c]) /\ Expect(c) \in Int /\ c \in Clients
        BY <1>2, <1>3, <3>1 DEF InFrame
      <4>2. s2c'[c] \in {s2c[c], Arrived(c, s2c[c])}
        BY <2>5, <4>1 DEF SendKills
      <4> QED BY <1>1, <4>1, <4>2, FramedFront
    <3>2. spc' = "crashed"
      BY <2>5 DEF SendKills
    <3> QED BY <1>2, <1>3, <3>1, <3>2 DEF DeliverOK
  <2> QED BY <2>3, <2>4, <2>5
<1>4. CASE Select \/ AcceptFails \/ OperatorMistypes \/ Exit \/ RecvThrows \/ OrderFaults
           \/ DispatchEnds \/ Erase
  <2>1. /\ spc \notin {"ping", "pong"} /\ spc' \notin {"ping", "pong"}
        /\ UNCHANGED <<s2c, ordered>>
    <3>1. CASE Select \/ AcceptFails
      BY <3>1 DEF Select, Phase, AcceptFails, netVars
    <3>2. CASE OperatorMistypes \/ Exit \/ RecvThrows \/ OrderFaults \/ DispatchEnds
      BY <3>2 DEF OperatorMistypes, Exit, RecvThrows, OrderFaults, NextIndex, DispatchEnds,
         netVars
    <3>3. CASE Erase
      BY <3>3 DEF Erase, netVars
    <3> QED BY <1>4, <3>1, <3>2, <3>3
  <2> QED BY <1>still, <2>1
<1>5. CASE Accept
  <2> DEFINE a == Head(backlog)
  <2>1. /\ s2c' = Written(s2c, srvSide, {a}, <<ping_init_msg(PingN)>>)
        /\ backlog # <<>> /\ UNCHANGED ordered
        /\ spc \notin {"ping", "pong"} /\ spc' \notin {"ping", "pong"}
    BY <1>5 DEF Accept, Phase
  <2>2. cpc[a] # "off"
    <3>1. a \in ToSet(backlog)
      BY <2>1, TailDistinct DEF OnePlaceEach, IndTypeOK, TypeOK, NetworkTypeOK
    <3> QED BY <3>1 DEF OnePlaceEach
  <2> HIDE DEF a
  <2>3. \A c \in Here : s2c'[c] = IF c \in {a} THEN s2c[c] \o <<ping_init_msg(PingN)>>
                                               ELSE s2c[c]
    <3> SUFFICES ASSUME NEW c \in Here
                 PROVE  s2c'[c] = IF c \in {a} THEN s2c[c] \o <<ping_init_msg(PingN)>>
                                               ELSE s2c[c]
      OBVIOUS
    <3>1. c = a => srvSide[c] = "open"
      <4>1. c = a => c \in Live
        BY <1>1, <1>2, <2>2 DEF Here, Ended, Live, ClientTypeOK, ClientPCs
      <4> QED BY <4>1 DEF JoinOK
    <3> QED BY <1>2, <2>1, <3>1 DEF Written
  <2>4. \A c \in Here : ordered'[c] = Counted(ordered[c], ping_init_msg(PingN))
                        /\ ordered'[c] = ordered[c]
    BY <1>msgs, <2>1 DEF Counted
  <2>5. \A c \in Here : ordered'[c] = IF c \in {a} THEN Counted(ordered[c], ping_init_msg(PingN))
                                                   ELSE ordered[c]
    BY <2>4
  <2>6. ping_init_msg(PingN) \in Msg /\ ping_init_msg(PingN).type # "PING"
    BY <1>msgs
  <2> QED BY <1>calm, <2>1, <2>3, <2>5, <2>6
<1>6. CASE OperatorQuits
  <2>1. /\ spc = "stdin" /\ UNCHANGED ordered
        /\ WriteAll(Indices \ {-1}, <<shutdown_msg>>, c2s, "closing")
    BY <1>6 DEF OperatorQuits, broadcast
  <2>2. Indices \ {-1} \in SUBSET Indices
    OBVIOUS
  <2> QED BY <1>msgs, <1>spreads, <2>1, <2>2
<1>7. ASSUME NEW k \in Indices, Dispatch(k) PROVE DeliverOK'
  <2>1. PICK buf \in Chunks(c2s[Meta(k)], srvSide[Meta(k)]) :
          \/ HandleHello(k, buf) \/ HandleGoodbye(k, buf)
          \/ HandleLock(k, buf)  \/ HandleUnlock(k, buf)
          \/ HandleWrite(k, buf) \/ HandleCountdown(k, buf)
          \/ Discard(k, buf)
    BY <1>7 DEF Dispatch
  <2>2. spc = "scan"
    BY <2>1 DEF HandleHello, HandleGoodbye, HandleLock, HandleUnlock, HandleWrite,
       HandleCountdown, Discard, Received, NextIndex
  <2>3. CASE HandleHello(k, buf) \/ HandleGoodbye(k, buf) \/ HandleLock(k, buf)
             \/ HandleUnlock(k, buf) \/ HandleWrite(k, buf)
    <3>1. /\ UNCHANGED ordered
          /\ classify(buf) \in {"HELLO", "GOODBYE", "PEER_LOCK", "PEER_UNLOCK",
                                "WRITE_ARBITRARY"}
      BY <2>3 DEF HandleHello, HandleGoodbye, HandleLock, HandleUnlock, HandleWrite
    <3>2. PICK next \in {"scan", "unlock"} :
            WriteAll(Indices \ {k}, buf, Rest(k, buf), next)
      BY <2>3 DEF HandleHello, HandleGoodbye, HandleLock, HandleUnlock, HandleWrite, Relay,
         broadcast
    <3>3. PICK m \in Msg : buf = <<m>> /\ m.type \notin {"PING", "COUNTDOWN_ORDER"}
      BY <1>1, <3>1, RelaysAlone DEF ServerTypeOK
    <3>5. Indices \ {k} \in SUBSET Indices
      OBVIOUS
    <3> QED BY <1>spreads, <2>2, <3>1, <3>2, <3>3, <3>5
  <2>4. CASE Discard(k, buf)
    BY <1>still, <2>2, <2>4 DEF Discard
  <2>5. CASE HandleCountdown(k, buf)
    <3>1. UNCHANGED <<s2c, ordered, client_metas>>
      BY <2>5 DEF HandleCountdown
    <3>2. CASE spc' = "ping"
      <4>1. i' = 0 /\ j' = 0 /\ PingN > 0
        BY <2>2, <2>5, <3>2 DEF HandleCountdown
      <4>2. ASSUME NEW c \in Here PROVE InFrame(c)'
        <5>1. Framed(Expect(c), s2c[c]) /\ EndOf(Expect(c), s2c[c]) = 0
          BY <1>3, <2>2, <4>2 DEF InFrame, Pinged
        <5>2. Expect(c)' = Expect(c) /\ s2c' = s2c
          BY <1>2, <3>1, <4>2
        <5>3. \A l \in Indices' : Sent(l)' = 0
          BY <3>2, <4>1 DEF Sent, Indices
        <5>4. Pinged' = Indices'
          BY <3>2 DEF Pinged
        <5> QED BY <4>1, <5>1, <5>2, <5>3, <5>4 DEF InFrame
      <4>3. \A c \in Here : obeyed'[c] \o OrdersIn(s2c'[c]) = ordered'[c]
        BY <1>1, <1>3, <3>1
      <4> QED BY <1>1, <1>ok, <4>1, <4>2, <4>3
    <3>3. CASE spc' # "ping"
      <4>1. spc' \notin {"ping", "pong"}
        BY <2>2, <2>5, <3>3 DEF HandleCountdown
      <4> QED BY <1>still, <2>2, <3>1, <4>1
    <3> QED BY <3>2, <3>3
  <2> QED BY <2>1, <2>3, <2>4, <2>5
<1>8. CASE Ping
  <2>1. /\ spc = "ping" /\ UNCHANGED <<client_metas, ordered, i, j>> /\ j \in Indices
        /\ i < PingN
    BY <1>8 DEF Ping, InLoop, DeliverOK
  <2>case. \/ WriteSucceeds({j}, {}, <<ping_msg(i)>>, c2s, "pong")
           \/ WriteKills({j}, {}, <<ping_msg(i)>>, c2s)
    BY <1>1, <1>8, WriteOneCases DEF Ping
  <2>2. CASE WriteKills({j}, {}, <<ping_msg(i)>>, c2s)
    <3>1. spc' = "crashed" /\ s2c' = Written(s2c, srvSide, {}, <<ping_msg(i)>>)
      BY <2>2 DEF WriteKills
    <3> QED BY <1>dead, <1>msgs, <3>1
  <2>3. CASE WriteSucceeds({j}, {}, <<ping_msg(i)>>, c2s, "pong")
    <3>1. /\ spc' = "pong"
          /\ \A c \in Here : s2c'[c] = IF c = Meta(j) THEN s2c[c] \o <<ping_msg(i)>>
                                                      ELSE s2c[c]
      <4>1. {j} \in SUBSET Indices /\ Metas({j}) = {Meta(j)}
        BY <2>1 DEF Metas
      <4>2. spc' = "pong" /\ s2c' = Written(s2c, srvSide, Metas({j}), <<ping_msg(i)>>)
        BY <2>3 DEF WriteSucceeds
      <4>3. \A c \in Here : s2c'[c] = IF c \in Metas({j}) THEN s2c[c] \o <<ping_msg(i)>>
                                                          ELSE s2c[c]
        BY <4>1, <4>2, Reaches
      <4> QED BY <4>1, <4>2, <4>3
    <3>2. /\ Pinged = Indices /\ Pinged' = Indices
          /\ \A k \in Indices : Meta(k)' = Meta(k)
      BY <2>1, <3>1 DEF Pinged, Indices, Meta
    <3>3. \A k \in Indices : Sent(k)' = IF k = j THEN i + 1 ELSE Sent(k)
      BY <1>1, <2>1, <3>1, MetaFacts DEF Sent
    <3>4. ASSUME NEW c \in Here, c # Meta(j)
          PROVE  InFrame(c)' /\ obeyed'[c] \o OrdersIn(s2c'[c]) = ordered'[c]
      <4>1. s2c'[c] = s2c[c] /\ Expect(c)' = Expect(c) /\ obeyed' = obeyed /\ ordered' = ordered
        BY <1>1, <1>2, <2>1, <3>1, <3>4
      <4>2. \A k \in Indices : c = Meta(k) => Sent(k)' = Sent(k)
        BY <3>3, <3>4
      <4>3. InFrame(c) /\ obeyed[c] \o OrdersIn(s2c[c]) = ordered[c]
        BY <1>3, <3>4
      <4> QED BY <3>2, <4>1, <4>2, <4>3 DEF InFrame
    <3>5. ASSUME NEW c \in Here, c = Meta(j)
          PROVE  InFrame(c)' /\ obeyed'[c] \o OrdersIn(s2c'[c]) = ordered'[c]
      <4> DEFINE m == ping_msg(i)
      <4>1. /\ s2c'[c] = s2c[c] \o <<m>> /\ Expect(c)' = Expect(c)
            /\ obeyed' = obeyed /\ ordered' = ordered
        BY <1>1, <1>2, <2>1, <3>1, <3>5
      <4>2. /\ Framed(Expect(c), s2c[c]) /\ s2c[c] \in Seq(Msg) /\ Expect(c) \in Int
            /\ obeyed[c] \o OrdersIn(s2c[c]) = ordered[c]
        BY <1>3, <3>5 DEF InFrame
      <4>3. EndOf(Expect(c), s2c[c]) = i
        <5>1. Sent(j) = i
          BY <1>1, <2>1 DEF Sent
        <5> QED BY <1>3, <2>1, <3>2, <3>5, <5>1 DEF InFrame
      <4>4. m \in Msg /\ m.type = "PING" /\ m.n = i
        BY <1>msgs
      <4> HIDE DEF m
      <4>5. Follows(EndOf(Expect(c), s2c[c]), m)
        BY <1>1, <4>3, <4>4 DEF Follows
      <4>6. /\ Framed(Expect(c), s2c'[c])
            /\ EndOf(Expect(c), s2c'[c]) = NextRound(m)
        BY <4>1, <4>2, <4>4, <4>5, FramedAppend
      <4>7. NextRound(m) = IF i + 1 < PingN THEN i + 1 ELSE 0
        BY <4>4 DEF NextRound
      <4>8. \A k \in Indices : c = Meta(k) => k = j
        BY <2>1, <3>5, MetaFacts
      <4>9. OrdersIn(s2c'[c]) = OrdersIn(s2c[c])
        <5>1. OrdersIn(s2c'[c]) = Counted(OrdersIn(s2c[c]), m)
          BY <4>1, <4>2, <4>4, OrdersInAppend
        <5> QED BY <4>4, <5>1 DEF Counted
      <4>10. InFrame(c)'
        BY <2>1, <3>2, <3>3, <3>5, <4>1, <4>6, <4>7, <4>8 DEF InFrame
      <4> QED BY <4>1, <4>2, <4>9, <4>10
    <3> QED BY <1>ok, <2>1, <3>1, <3>4, <3>5
  <2> QED BY <2>case, <2>2, <2>3
<1>9. CASE Pong \/ PongFails
  <2>1. /\ spc = "pong" /\ UNCHANGED <<client_metas, ordered, s2c>> /\ j \in Indices
        /\ NextExchange /\ i < PingN
    BY <1>9 DEF Pong, PongFails, InLoop, DeliverOK
  <2>2. /\ \A k \in Indices : /\ Meta(k)' = Meta(k) /\ k \in Nat
                              /\ k < Len(client_metas)
        /\ Len(client_metas) \in Nat
    BY <2>1, MetaFacts DEF Meta, Indices
  <2>3. spc' \in {"ping", "order"} /\ (spc' = "ping" => i' < PingN)
    BY <2>1 DEF NextExchange
  \* What each client was sent is the same after the loop variables moved on.
  <2>4. spc' = "ping" => \A k \in Indices : Sent(k)' = Sent(k)
    <3>1. CASE j + 1 \in Indices
      <4>1. i' = i /\ j' = j + 1 /\ spc' = "ping"
        BY <2>1, <3>1 DEF NextExchange
      <4> QED BY <1>1, <2>1, <2>2, <4>1 DEF Sent
    <3>2. CASE j + 1 \notin Indices
      <4>1. i' = i + 1 /\ j' = 0
        BY <2>1, <3>2 DEF NextExchange
      <4>2. \A k \in Indices : k <= j
        BY <1>1, <2>2, <3>2 DEF Indices
      <4> QED BY <1>1, <2>1, <2>2, <4>1, <4>2 DEF Sent
    <3> QED BY <3>1, <3>2
  <2>5. spc' = "order" => \A k \in Indices : ~(Sent(k) < PingN)
    <3> SUFFICES ASSUME spc' = "order" PROVE \A k \in Indices : ~(Sent(k) < PingN)
      OBVIOUS
    <3>1. j + 1 \notin Indices /\ ~(i + 1 < PingN)
      BY <2>1 DEF NextExchange
    <3>2. \A k \in Indices : k <= j
      BY <1>1, <2>2, <3>1 DEF Indices
    <3> QED BY <1>1, <2>1, <2>2, <3>1, <3>2 DEF Sent
  <2>6. ASSUME NEW c \in Here
        PROVE  InFrame(c)' /\ obeyed'[c] \o OrdersIn(s2c'[c]) = ordered'[c]
    <3>1. /\ s2c' = s2c /\ Expect(c)' = Expect(c) /\ obeyed' = obeyed /\ ordered' = ordered
          /\ obeyed[c] \o OrdersIn(s2c[c]) = ordered[c]
      BY <1>1, <1>2, <1>3, <2>1, <2>6
    <3>2. /\ Framed(Expect(c), s2c[c])
          /\ (\A k \in Indices : c # Meta(k)) => EndOf(Expect(c), s2c[c]) = 0
          /\ \A k \in Indices : c = Meta(k) =>
                EndOf(Expect(c), s2c[c]) = IF Sent(k) < PingN THEN Sent(k) ELSE 0
      BY <1>3, <2>1, <2>6 DEF InFrame, Pinged
    <3>3. CASE spc' = "ping"
      <4>1. Pinged' = Indices /\ \A k \in Indices : Sent(k)' = Sent(k) /\ Meta(k)' = Meta(k)
        BY <2>1, <2>2, <2>4, <3>3 DEF Pinged, Indices
      <4> QED BY <3>1, <3>2, <4>1 DEF InFrame
    <3>4. CASE spc' = "order"
      <4>1. Pinged' = {}
        BY <3>4 DEF Pinged
      <4>2. EndOf(Expect(c), s2c[c]) = 0
        BY <2>5, <3>2, <3>4
      <4> QED BY <3>1, <3>2, <4>1, <4>2 DEF InFrame
    <3> QED BY <2>3, <3>3, <3>4
  <2> QED BY <1>ok, <2>3, <2>6
<1>10. CASE Order
  <2> DEFINE o == countdown_order_msg(n)
             next == IF j + 1 \in Indices THEN "order" ELSE "unlock"
  <2>1. /\ spc = "order" /\ j \in Indices /\ WriteOne(j, <<o>>, next)
        /\ ordered' = [ordered EXCEPT ![Meta(j)] = Append(@, n)]
    BY <1>10 DEF Order, InLoop
  <2>2. next \notin {"ping", "pong"}
    OBVIOUS
  <2>3. o \in Msg /\ o.type = "COUNTDOWN_ORDER" /\ o.n = n
    BY <1>msgs
  <2> HIDE DEF o, next
  <2>case. WriteSucceeds({j}, {}, <<o>>, c2s, next) \/ WriteKills({j}, {}, <<o>>, c2s)
    BY <1>1, <2>1, WriteOneCases
  <2>4. CASE WriteKills({j}, {}, <<o>>, c2s)
    <3>1. spc' = "crashed" /\ s2c' = Written(s2c, srvSide, {}, <<o>>)
      BY <2>4 DEF WriteKills
    <3> QED BY <1>dead, <2>3, <3>1
  <2>5. CASE WriteSucceeds({j}, {}, <<o>>, c2s, next)
    <3>1. spc' = next /\ s2c' = Written(s2c, srvSide, Metas({j}), <<o>>)
      BY <2>5 DEF WriteSucceeds
    <3>2. {j} \in SUBSET Indices /\ Metas({j}) = {Meta(j)}
      BY <2>1 DEF Metas
    <3>3. \A c \in Here : s2c'[c] = IF c \in Metas({j}) THEN s2c[c] \o <<o>> ELSE s2c[c]
      BY <3>1, <3>2, Reaches
    <3>4. \A c \in Here : ordered'[c] = IF c \in Metas({j}) THEN Counted(ordered[c], o)
                                                            ELSE ordered[c]
      BY <1>1, <1>2, <2>1, <2>3, <3>2 DEF Counted, ServerTypeOK
    <3> QED BY <1>calm, <2>1, <2>2, <2>3, <3>1, <3>3, <3>4
  <2> QED BY <2>case, <2>4, <2>5
<1>11. CASE Unlock
  <2>1. /\ spc = "unlock" /\ UNCHANGED ordered
        /\ WriteAll(Indices \ {-1}, <<unlock_msg(lock_owner)>>, c2s, "scan")
    BY <1>11 DEF Unlock, broadcast
  <2>2. Indices \ {-1} \in SUBSET Indices
    OBVIOUS
  <2> QED BY <1>msgs, <1>spreads, <2>1, <2>2
<1> QED BY <1>send, <1>4, <1>5, <1>6, <1>7, <1>8, <1>9, <1>10, <1>11 DEF ServerNext, ServerActs

\* A client that goes on leaves what it is sent alone, or takes the first
\* message, waits for what it has to wait for next, carries out an order, and
\* answers a ping; or it waits in its ping loop for what a dead server will
\* never send.
ReadsOn(c) ==
    \/ s2c'[c] = s2c[c] /\ Expect(c)' = Expect(c) /\ obeyed'[c] = obeyed[c]
    \/ /\ s2c[c] # <<>> /\ s2c'[c] = Tail(s2c[c]) /\ unsent[c] < Len(s2c[c])
       /\ Expect(c)' = NextRound(Head(s2c[c]))
       /\ obeyed'[c] = Counted(obeyed[c], Head(s2c[c]))
       /\ Head(s2c[c]).type = "PING" /\ spc \notin Ended => c2s'[c] # <<>>
    \/ /\ s2c[c] = <<>> /\ s2c'[c] = <<>> /\ obeyed'[c] = obeyed[c]
       /\ Expect(c) > 0 /\ spc \in Ended

\* What a client takes a message of has arrived in part.
LEMMA TakesArrived ==
    ASSUME IndTypeOK, NEW c \in Clients, OnMessage(c) \/ PingTurn(c), s2c[c] # <<>>
    PROVE  unsent[c] < Len(s2c[c])
<1> DEFINE s == s2c[c]
           m == Len(s) - unsent[c]
<1>1. s \in Seq(Msg) /\ Len(s) \in Nat \ {0} /\ unsent[c] \in Nat
  BY LenProperties, EmptySeq DEF IndTypeOK, TypeOK, NetworkTypeOK
<1>2. CASE Arrived(c, s) = <<>>
  <2>1. cliSide[c] \in {"fin", "broken", "reset"}
    BY <1>2 DEF OnMessage, PingTurn, Chunks, RecvFails
  <2>2. unsent[c] = 0
    BY <2>1 DEF IndTypeOK, EndKnown, Flowing
  <2> QED BY <1>1, <2>2
<1>3. CASE Arrived(c, s) # <<>>
  <2>1. \A l \in 1..m : s[l] \in Msg
    BY <1>1, LenProperties
  <2>2. /\ SubSeq(s, 1, m) \in Seq(Msg)
        /\ Len(SubSeq(s, 1, m)) = IF 1 <= m THEN m ELSE 0
    <3>1. m \in Int
      BY <1>1
    <3> HIDE DEF s, m
    <3> QED BY <2>1, <3>1, SubSeqProperties
  <2>3. 1 <= m
    BY <1>3, <2>2, EmptySeq DEF Arrived
  <2> QED BY <1>1, <2>3
<1> QED BY <1>2, <1>3

\* While messages come alone no client reads in its ping loop anything but the
\* ping it waits for, nor outside it a ping of a later round.
LEMMA ClientReadsOn ==
    ASSUME RecvMax = 1, IndTypeOK, JoinOK, DeliverOK,
           NEW c \in Here, ClientRuns(c) \/ UserActs(c), UNCHANGED serverVars,
           cpc'[c] \notin Ended
    PROVE  ReadsOn(c)
<1>1. /\ NetworkTypeOK /\ ClientTypeOK /\ PingN \in Int /\ c \in Clients
      /\ s2c[c] \in Seq(Msg) /\ c2s[c] \in Seq(Msg) /\ Expect(c) \in Int
      /\ ci[c] \in Nat /\ ping_n[c] \in Int
  <2>1. NetworkTypeOK /\ ClientTypeOK /\ PingN \in Int /\ c \in Clients
    BY ServerAssumption DEF IndTypeOK, TypeOK, Here
  <2>2. s2c[c] \in Seq(Msg) /\ c2s[c] \in Seq(Msg)
    BY <2>1 DEF NetworkTypeOK
  <2>3. ci[c] \in Nat /\ ping_n[c] \in Int
    BY <2>1 DEF ClientTypeOK
  <2> QED BY <2>1, <2>2, <2>3 DEF Expect
<1>2. /\ Framed(Expect(c), s2c[c])
      /\ cpc[c] = "pinging" => ci[c] >= 1
  BY <1>1 DEF DeliverOK
<1>3. s2c[c] # <<>> => /\ Head(s2c[c]) \in Msg /\ Follows(Expect(c), Head(s2c[c]))
                       /\ <<Head(s2c[c])>> \in Seq(Msg)
  BY <1>1, <1>2, FramedTail
\* The client knows the number of pings by the time it is pinged.
<1>4. /\ s2c[c] # <<>> /\ Head(s2c[c]).type = "PING" /\ cpc[c] = "select" =>
            (MorePings(c, 1) <=> 1 < PingN)
      /\ cpc[c] = "pinging" => \A k \in Int : MorePings(c, k) <=> k < PingN
  <2>1. /\ ping_n[c] \in {-1, PingN}
        /\ cpc[c] = "pinging" => ping_n[c] # -1
        /\ cpc[c] = "select" /\ PingN >= 1 /\ ping_n[c] = -1 /\ s2c[c] # <<>> =>
                Head(s2c[c]).type = "PING_INIT"
    BY <1>1 DEF JoinOK, Live
  <2>2. cpc[c] = "select" /\ s2c[c] # <<>> /\ Head(s2c[c]).type = "PING" =>
            ping_n[c] = PingN \/ (ping_n[c] = -1 /\ ~(1 < PingN))
    BY <1>1, <2>1
  <2> QED BY <1>1, <2>1, <2>2 DEF MorePings
<1>same. ASSUME s2c'[c] = s2c[c], cpc[c] # "pinging", cpc'[c] # "pinging", obeyed' = obeyed
         PROVE  ReadsOn(c)
  BY <1>same DEF ReadsOn, Expect
\* A write that does not end it.
<1>writes. ASSUME NEW buf, NEW unread, NEW next, Writes(c, buf, unread, next)
           PROVE  /\ cpc' = [cpc EXCEPT ![c] = next] /\ cpc'[c] = next
                  /\ s2c'[c] = unread
                  /\ c2s' = Written(c2s, cliSide, {c}, buf)
  <2>1. CASE cliSide[c] # "broken"
    BY <1>1, <1>writes, <2>1 DEF Writes, NetworkTypeOK, ClientTypeOK
  <2>2. CASE cliSide[c] = "broken"
    BY <1>1, <1>writes, <2>2 DEF Writes, Ends, Ended, ClientTypeOK
  <2> QED BY <2>1, <2>2
<1>echoes. ASSUME s2c[c] # <<>>, NEW next,
                  Writes(c, <<Head(s2c[c])>>, Tail(s2c[c]), next), cpc[c] \in {"select", "pinging"}
           PROVE  /\ cpc'[c] = next /\ s2c'[c] = Tail(s2c[c])
                  /\ spc \notin Ended => c2s'[c] # <<>>
  <2>1. cpc'[c] = next /\ s2c'[c] = Tail(s2c[c])
        /\ c2s' = Written(c2s, cliSide, {c}, <<Head(s2c[c])>>)
    BY <1>echoes, <1>writes
  <2>2. spc \notin Ended => cliSide[c] = "open"
    BY <1>1, <1>echoes DEF JoinOK, Live
  <2>3. spc \notin Ended => c2s'[c] = c2s[c] \o <<Head(s2c[c])>>
    BY <1>1, <2>1, <2>2 DEF Written
  <2>4. c2s[c] \o <<Head(s2c[c])>> # <<>>
    <3>1. Len(<<Head(s2c[c])>>) = 1 /\ Len(c2s[c]) \in Nat
      BY <1>1, LenProperties
    <3>2. /\ c2s[c] \o <<Head(s2c[c])>> \in Seq(Msg)
          /\ Len(c2s[c] \o <<Head(s2c[c])>>) = Len(c2s[c]) + Len(<<Head(s2c[c])>>)
      BY <1>1, <1>3, <1>echoes, ConcatProperties
    <3> QED BY <3>1, <3>2, EmptySeq
  <2> QED BY <2>1, <2>3, <2>4
<1>5. ASSUME OnMessage(c) PROVE ReadsOn(c)
  <2>1. PICK buf \in Chunks(s2c[c], cliSide[c]) :
          \/ OnShutdown(c, buf) \/ OnPing(c, buf) \/ OnPingInit(c, buf)
          \/ OnPeer(c, buf) \/ OnLock(c, buf) \/ OnOrder(c, buf)
          \/ OnOther(c, buf)
    BY <1>1, <1>5, OnMessageRead
  <2>arr. s2c[c] # <<>> => unsent[c] < Len(s2c[c])
    BY <1>1, <1>5, TakesArrived
  <2>2. /\ cpc[c] = "select" /\ Expect(c) = 0
        /\ ~OnShutdown(c, buf)
    BY <1>1, <2>1 DEF OnShutdown, OnPing, OnPingInit, OnPeer, OnLock, OnOrder, OnOther, Gets,
       Expect, Ends, Ended, ClientTypeOK
  <2>3. \/ s2c[c] # <<>> /\ buf = <<Head(s2c[c])>> /\ After(s2c[c], buf) = Tail(s2c[c])
        \/ s2c[c] = <<>> /\ buf = <<>> /\ After(s2c[c], buf) = <<>>
    BY <1>1, ChunkAlone
  <2>4. CASE OnPing(c, buf)
    <3>1. /\ s2c[c] # <<>> /\ buf = <<Head(s2c[c])>> /\ Head(s2c[c]).type = "PING"
          /\ After(s2c[c], buf) = Tail(s2c[c])
      BY <2>3, <2>4 DEF OnPing, classify
    <3>2. /\ Writes(c, <<Head(s2c[c])>>, Tail(s2c[c]), IF 1 < PingN THEN "pinging" ELSE "select")
          /\ ci'[c] = 1 /\ obeyed' = obeyed
      BY <1>1, <1>4, <2>2, <2>4, <3>1 DEF OnPing, ClientTypeOK
    <3>3. /\ cpc'[c] = IF 1 < PingN THEN "pinging" ELSE "select"
          /\ s2c'[c] = Tail(s2c[c])
          /\ spc \notin Ended => c2s'[c] # <<>>
      BY <1>echoes, <2>2, <3>1, <3>2
    <3>4. Head(s2c[c]).n = 0
      BY <1>3, <2>2, <3>1 DEF Follows
    <3>5. NextRound(Head(s2c[c])) = IF 1 < PingN THEN 1 ELSE 0
      BY <3>1, <3>4 DEF NextRound
    <3>6. Expect(c)' = NextRound(Head(s2c[c]))
      BY <3>2, <3>3, <3>5 DEF Expect
    <3>7. obeyed'[c] = Counted(obeyed[c], Head(s2c[c]))
      BY <3>1, <3>2 DEF Counted
    <3> QED BY <2>arr, <3>1, <3>3, <3>6, <3>7 DEF ReadsOn
  <2>5. CASE OnPingInit(c, buf) \/ OnPeer(c, buf) \/ OnLock(c, buf) \/ OnOther(c, buf)
             \/ OnOrder(c, buf)
    <3>1. /\ cpc'[c] = "select" /\ s2c'[c] = After(s2c[c], buf)
          /\ classify(buf) # "PING"
      BY <1>1, <2>2, <2>5 DEF OnPingInit, OnPeer, OnLock, OnOther, OnOrder, Consume,
         clientVars, NetworkTypeOK
    <3>2. obeyed'[c] = IF classify(buf) = "COUNTDOWN_ORDER"
                       THEN Append(obeyed[c], Head(buf).n) ELSE obeyed[c]
      BY <1>1, <2>5 DEF OnPingInit, OnPeer, OnLock, OnOther, OnOrder, clientVars, ClientTypeOK
    <3>3. Expect(c)' = 0
      BY <3>1 DEF Expect
    <3>4. CASE s2c[c] = <<>> /\ buf = <<>> /\ After(s2c[c], buf) = <<>>
      BY <2>2, <3>1, <3>2, <3>3, <3>4 DEF ReadsOn, classify
    <3>5. CASE s2c[c] # <<>> /\ buf = <<Head(s2c[c])>> /\ After(s2c[c], buf) = Tail(s2c[c])
      <4>1. buf # <<>> /\ Head(buf) = Head(s2c[c]) /\ classify(buf) = Head(s2c[c]).type
        BY <3>5 DEF classify
      <4>2. obeyed'[c] = Counted(obeyed[c], Head(s2c[c])) /\ NextRound(Head(s2c[c])) = 0
        BY <3>1, <3>2, <4>1 DEF Counted, NextRound
      <4> QED BY <2>arr, <3>1, <3>3, <3>5, <4>1, <4>2 DEF ReadsOn
    <3> QED BY <2>3, <3>4, <3>5
  <2> QED BY <2>1, <2>2, <2>4, <2>5
<1>6. ASSUME PingTurn(c) PROVE ReadsOn(c)
  <2>1. /\ cpc[c] = "pinging" /\ ci' = [ci EXCEPT ![c] = @ + 1] /\ obeyed' = obeyed
    BY <1>6 DEF PingTurn
  <2>2. Expect(c) = ci[c] /\ Expect(c) > 0 /\ ci[c] > 0 /\ ci'[c] = ci[c] + 1
    BY <1>1, <1>2, <2>1 DEF Expect, ClientTypeOK
  <2>3. CASE s2c[c] = <<>>
    <3>1. /\ cliSide[c] # "open"
          /\ \A buf \in Chunks(s2c[c], cliSide[c]) : buf = <<>> /\ After(s2c[c], buf) = <<>>
      <4>1. \A buf \in Chunks(s2c[c], cliSide[c]) : buf = <<>> /\ After(s2c[c], buf) = <<>>
        BY <1>1, <2>3, ChunkAlone
      <4>2. Chunks(s2c[c], cliSide[c]) # {} \/ RecvFails(s2c[c], cliSide[c])
        BY <1>1, <1>6, PingTurnRead
      <4> QED BY <2>3, <4>1, <4>2 DEF Chunks, RecvFails
    <3>2. s2c'[c] = <<>>
      <4>1. PICK next \in {"pinging", "select"} :
              \/ \E buf \in Chunks(s2c[c], cliSide[c]) :
                   IF classify(buf) = "PING" /\ Head(buf).n = ci[c]
                   THEN Writes(c, buf, After(s2c[c], buf), next)
                   ELSE /\ cpc' = [cpc EXCEPT ![c] = next]
                        /\ Consume(c, buf)
                        /\ UNCHANGED <<c2s, srvSide, cliSide>>
              \/ s2c' = s2c
        BY <1>1, <1>6, PingTurnRead
      <4>2. CASE s2c' = s2c
        BY <2>3, <4>2
      <4>3. CASE s2c' # s2c
        <5>1. \A buf \in Chunks(s2c[c], cliSide[c]) : classify(buf) # "PING"
          BY <3>1 DEF classify
        <5>2. PICK buf \in Chunks(s2c[c], cliSide[c]) : Consume(c, buf)
          BY <4>1, <4>3, <5>1
        <5> QED BY <1>1, <3>1, <5>2 DEF Consume, NetworkTypeOK
      <4> QED BY <4>2, <4>3
    <3>3. spc \in Ended
      BY <1>1, <2>1, <3>1 DEF JoinOK, Live
    <3> QED BY <2>1, <2>2, <2>3, <3>2, <3>3 DEF ReadsOn
  <2> SUFFICES ASSUME s2c[c] # <<>> PROVE ReadsOn(c)
    BY <2>3
  <2>4. PICK buf \in Chunks(s2c[c], cliSide[c]) :
          IF classify(buf) = "PING" /\ Head(buf).n = ci[c]
          THEN Writes(c, buf, After(s2c[c], buf),
                      IF MorePings(c, ci[c] + 1) THEN "pinging" ELSE "select")
          ELSE TRUE
    BY <1>1, <1>6, PingTurnRead DEF RecvFails
  <2>arr. unsent[c] < Len(s2c[c])
    BY <1>1, <1>6, TakesArrived
  <2>5. buf = <<Head(s2c[c])>> /\ After(s2c[c], buf) = Tail(s2c[c])
    BY <1>1, ChunkAlone
  <2>6. Head(s2c[c]).type = "PING" /\ Head(s2c[c]).n = ci[c]
    <3>1. Follows(Expect(c), Head(s2c[c]))
      BY <1>3, <2>5
    <3>2. Expect(c) > 0
      BY <2>2
    <3>3. Head(s2c[c]).type = "PING" /\ Head(s2c[c]).n = Expect(c)
      BY <3>1, <3>2 DEF Follows
    <3> QED BY <2>2, <3>3
  <2>7. classify(buf) = "PING" /\ Head(buf).n = ci[c]
    BY <2>5, <2>6 DEF classify
  <2>8. MorePings(c, ci[c] + 1) <=> ci[c] + 1 < PingN
    BY <1>1, <1>4, <2>1
  <2>9. Writes(c, <<Head(s2c[c])>>, Tail(s2c[c]),
               IF ci[c] + 1 < PingN THEN "pinging" ELSE "select")
    BY <2>4, <2>5, <2>7, <2>8
  <2>10. /\ cpc'[c] = IF ci[c] + 1 < PingN THEN "pinging" ELSE "select"
         /\ s2c'[c] = Tail(s2c[c])
         /\ spc \notin Ended => c2s'[c] # <<>>
    BY <1>echoes, <2>1, <2>5, <2>9
  <2>11. Expect(c)' = NextRound(Head(s2c[c]))
    BY <2>2, <2>6, <2>10 DEF Expect, NextRound
  <2>12. obeyed'[c] = Counted(obeyed[c], Head(s2c[c]))
    BY <2>1, <2>6 DEF Counted
  <2> QED BY <2>arr, <2>5, <2>10, <2>11, <2>12 DEF ReadsOn
<1>7. CASE Connect(c) \/ ConnectFails(c) \/ CloseInput(c)
  BY <1>1, <1>same, <1>7 DEF Connect, ConnectFails, CloseInput, netVars, ClientTypeOK
<1>8. CASE StartTyping(c) \/ LockAtEnd(c)
  <2>1. /\ \E next \in {"typing", "deaf"} : Writes(c, <<lock_msg(Nick[c])>>, s2c[c], next)
        /\ obeyed' = obeyed /\ cpc[c] # "pinging"
    BY <1>8 DEF StartTyping, LockAtEnd
  <2>2. s2c'[c] = s2c[c] /\ cpc'[c] # "pinging"
    BY <1>writes, <2>1
  <2> QED BY <1>same, <2>1, <2>2
<1>9. CASE FinishLine(c)
  <2>1. PICK line \in Script[c][typed[c] + 1], next \in {"leaving", "select"} :
          \/ cpc' = [cpc EXCEPT ![c] = "select"] /\ s2c' = s2c
          \/ Writes(c, parse_cmdline(line, Nick[c]), s2c[c], next)
    BY <1>9 DEF FinishLine
  <2>2. s2c'[c] = s2c[c] /\ cpc'[c] # "pinging"
    BY <1>1, <1>writes, <2>1 DEF ClientTypeOK
  <2> QED BY <1>9, <1>same, <2>2 DEF FinishLine
<1>10. CASE Leave(c) \/ ClientRecvThrows(c) \/ Killed(c)
  BY <1>1, <1>10 DEF Leave, ClientRecvThrows, Killed, Ends, Ended, ClientTypeOK
<1> QED BY <1>5, <1>6, <1>7, <1>8, <1>9, <1>10 DEF ClientRuns, UserActs

\* The ping loop and the orders of the others, and where its own loop starts.
LEMMA ClientLocal ==
    ASSUME IndTypeOK, NEW c \in Clients, ClientRuns(c) \/ UserActs(c),
           cpc[c] = "pinging" => ci[c] >= 1
    PROVE  /\ \A d \in Clients \ {c} : ci'[d] = ci[d] /\ obeyed'[d] = obeyed[d]
           /\ cpc'[c] = "pinging" => ci'[c] >= 1
<1>1. NetworkTypeOK /\ ClientTypeOK /\ ci[c] \in Nat
  BY DEF IndTypeOK, TypeOK, ClientTypeOK
<1>2. CASE PingTurn(c)
  BY <1>1, <1>2 DEF PingTurn, ClientTypeOK
<1>3. CASE OnMessage(c)
  <2>1. PICK buf \in Chunks(s2c[c], cliSide[c]) :
          \/ OnShutdown(c, buf) \/ OnPing(c, buf) \/ OnPingInit(c, buf)
          \/ OnPeer(c, buf) \/ OnLock(c, buf) \/ OnOrder(c, buf)
          \/ OnOther(c, buf)
    BY <1>3, OnMessageRead
  <2>2. CASE OnPing(c, buf)
    BY <1>1, <2>2 DEF OnPing, ClientTypeOK
  <2>3. CASE OnShutdown(c, buf)
    BY <1>1, <2>3 DEF OnShutdown, Ends, ClientTypeOK
  <2>4. CASE OnPingInit(c, buf) \/ OnPeer(c, buf) \/ OnLock(c, buf) \/ OnOther(c, buf)
             \/ OnOrder(c, buf)
    BY <1>1, <2>4 DEF OnPingInit, OnPeer, OnLock, OnOrder, OnOther, clientVars, Gets,
       ClientTypeOK
  <2> QED BY <2>1, <2>2, <2>3, <2>4
<1>4. CASE Connect(c) \/ ConnectFails(c) \/ CloseInput(c)
  BY <1>1, <1>4 DEF Connect, ConnectFails, CloseInput, ClientTypeOK
<1>5. CASE Leave(c) \/ ClientRecvThrows(c) \/ Killed(c)
  BY <1>1, <1>5 DEF Leave, ClientRecvThrows, Killed, Ends, ClientTypeOK
<1>6. CASE StartTyping(c) \/ LockAtEnd(c)
  BY <1>1, <1>6 DEF StartTyping, LockAtEnd, Writes, Ends, ClientTypeOK
<1>7. CASE FinishLine(c)
  <2>1. PICK next \in {"leaving", "select", "crashed"} : cpc' = [cpc EXCEPT ![c] = next]
    BY <1>7 DEF FinishLine, Writes, Ends
  <2> QED BY <1>1, <1>7, <2>1 DEF FinishLine, ClientTypeOK
<1> QED BY <1>2, <1>3, <1>4, <1>5, <1>6, <1>7 DEF ClientRuns, UserActs

\* A step of a client keeps every order on its way and every client on its way
\* out of its ping loop.
LEMMA ClientKeepsDelivery ==
    ASSUME RecvMax = 1, IndTypeOK, JoinOK, DeliverOK, NEW c \in Clients,
           ClientRuns(c) \/ UserActs(c), UNCHANGED serverVars
    PROVE  DeliverOK'
<1>1. /\ UNCHANGED <<spc, i, j, client_metas, ordered>>
      /\ Pinged' = Pinged
      /\ \A k : Sent(k)' = Sent(k) /\ Meta(k)' = Meta(k)
  BY DEF serverVars, Pinged, Indices, Sent, Meta
<1>2. /\ Apart(c) /\ NetworkTypeOK /\ ClientTypeOK /\ (cpc[c] = "pinging" => ci[c] >= 1)
      /\ spc \in {"ping", "pong"} => i < PingN
  BY ClientTraffic DEF StepOf, IndTypeOK, TypeOK, DeliverOK
<1>3. /\ \A d \in Clients \ {c} : ci'[d] = ci[d] /\ obeyed'[d] = obeyed[d]
      /\ \A d \in Clients : cpc'[d] = "pinging" => ci'[d] >= 1
  BY <1>2, ClientLocal DEF Apart, DeliverOK
<1>here. ASSUME NEW d \in Clients, cpc'[d] \notin Ended
         PROVE  /\ d \in Here /\ s2c[d] \in Seq(Msg) /\ Expect(d) \in Int
                /\ obeyed[d] \in Seq(Int)
                /\ \/ s2c'[d] = s2c[d] /\ Expect(d)' = Expect(d) /\ obeyed'[d] = obeyed[d]
                   \/ d = c /\ ReadsOn(c)
  <2>1. d \in Here
    <3>1. CASE d # c
      BY <1>2, <1>here, <3>1 DEF Apart, Here
    <3>2. CASE d = c
      <4>1. cpc[c] \in Departed => cpc'[c] \in Ended
        BY ClientTraffic DEF StepOf, Ended
      <4> QED BY <1>here, <3>2, <4>1 DEF Here, Departed, Ended
    <3> QED BY <3>1, <3>2
  <2>2. Expect(d) \in Int
    <3>1. ci[d] \in Nat
      BY <1>2 DEF ClientTypeOK
    <3> QED BY <3>1 DEF Expect
  <2>3. CASE d # c
    BY <1>2, <1>3, <2>1, <2>2, <2>3 DEF Apart, Expect, NetworkTypeOK, ClientTypeOK
  <2>4. CASE d = c
    BY <1>2, <1>here, <2>1, <2>2, <2>4, ClientReadsOn DEF NetworkTypeOK, ClientTypeOK
  <2> QED BY <2>3, <2>4
<1>frame. ASSUME NEW d \in Clients, cpc'[d] \notin Ended
          PROVE  Framed(Expect(d)', s2c'[d])
  <2>1. /\ d \in Here /\ s2c[d] \in Seq(Msg) /\ Expect(d) \in Int
        /\ Framed(Expect(d), s2c[d])
        /\ \/ s2c'[d] = s2c[d] /\ Expect(d)' = Expect(d)
           \/ /\ s2c[d] # <<>> /\ s2c'[d] = Tail(s2c[d])
              /\ Expect(d)' = NextRound(Head(s2c[d]))
           \/ s2c'[d] = <<>>
    BY <1>here, <1>frame DEF DeliverOK, ReadsOn
  <2>2. CASE s2c'[d] = <<>>
    <3>1. \A k \in 1..(Len(<<>>) - 1) : FALSE
      BY EmptySeq
    <3> QED BY <2>2, <3>1 DEF Framed
  <2>3. CASE s2c[d] # <<>> /\ s2c'[d] = Tail(s2c[d]) /\ Expect(d)' = NextRound(Head(s2c[d]))
    BY <2>1, <2>3, FramedTail
  <2> QED BY <2>1, <2>2, <2>3
<1>4. ASSUME spc # "crashed", NEW d \in Clients, cpc'[d] \notin Ended
      PROVE  InFrame(d)' /\ obeyed'[d] \o OrdersIn(s2c'[d]) = ordered'[d]
  <2>2. /\ InFrame(d) /\ obeyed[d] \o OrdersIn(s2c[d]) = ordered[d]
        /\ s2c[d] \in Seq(Msg) /\ Expect(d) \in Int /\ obeyed[d] \in Seq(Int)
    BY <1>4, <1>here DEF DeliverOK
  <2>3. CASE s2c'[d] = s2c[d] /\ Expect(d)' = Expect(d) /\ obeyed'[d] = obeyed[d]
    <3>1. obeyed'[d] \o OrdersIn(s2c'[d]) = ordered'[d]
      BY <1>1, <2>2, <2>3
    <3> QED BY <1>1, <2>2, <2>3, <3>1 DEF InFrame
  <2>4. CASE ReadsOn(d)
    <3>1. ~(s2c[d] = <<>> /\ Expect(d) > 0 /\ spc \in Ended)
      <4> SUFFICES ASSUME s2c[d] = <<>>, Expect(d) > 0, spc \in Ended PROVE FALSE
        OBVIOUS
      <4>1. Pinged = {}
        BY DEF Pinged, Ended
      <4>2. Expect(d) = 0
        BY <2>2, <4>1 DEF InFrame, EndOf
      <4> QED BY <4>2
    <3>2. CASE /\ s2c[d] # <<>> /\ s2c'[d] = Tail(s2c[d])
               /\ Expect(d)' = NextRound(Head(s2c[d]))
               /\ obeyed'[d] = Counted(obeyed[d], Head(s2c[d]))
      <4> DEFINE m == Head(s2c[d])
                 rest == Tail(s2c[d])
      <4>1. /\ m \in Msg /\ rest \in Seq(Msg) /\ Framed(NextRound(m), rest)
            /\ EndOf(NextRound(m), rest) = EndOf(Expect(d), s2c[d])
        BY <2>2, <3>2, FramedTail DEF InFrame
      <4>2. OrdersIn(s2c[d]) = IF m.type = "COUNTDOWN_ORDER"
                               THEN <<m.n>> \o OrdersIn(rest) ELSE OrdersIn(rest)
        BY <2>2, <3>2, OrdersInTail
      <4>3. OrdersIn(rest) \in Seq(Int) /\ m.n \in Int
        BY <4>1, OrdersInType DEF Msg
      <4> HIDE DEF m, rest
      <4>4. Counted(obeyed[d], m) \o OrdersIn(rest) = obeyed[d] \o OrdersIn(s2c[d])
        <5>1. <<m.n>> \in Seq(Int)
          BY <4>3
        <5>2. Append(obeyed[d], m.n) = obeyed[d] \o <<m.n>>
          BY <2>2, <4>3, AppendIsConcat
        <5>3. (obeyed[d] \o <<m.n>>) \o OrdersIn(rest)
                = obeyed[d] \o (<<m.n>> \o OrdersIn(rest))
          <6>1. /\ obeyed[d] \in Seq(Int) /\ <<m.n>> \in Seq(Int)
                /\ OrdersIn(rest) \in Seq(Int)
            BY <2>2, <4>3, <5>1
          <6> QED BY ONLY <6>1, NumbersGroup
        <5> QED BY <4>2, <5>2, <5>3 DEF Counted
      <4>5. s2c'[d] = rest /\ Expect(d)' = NextRound(m) /\ obeyed'[d] = Counted(obeyed[d], m)
        BY <3>2 DEF m, rest
      <4>6. obeyed'[d] \o OrdersIn(s2c'[d]) = ordered'[d]
        BY <1>1, <2>2, <4>4, <4>5
      <4>7. InFrame(d)'
        BY <1>1, <2>2, <4>1, <4>5 DEF InFrame
      <4> QED BY <4>6, <4>7
    <3> QED BY <2>3, <2>4, <3>1, <3>2 DEF ReadsOn
  <2> QED BY <1>4, <1>here, <2>3, <2>4
<1> QED BY <1>1, <1>2, <1>3, <1>4, <1>frame DEF DeliverOK, Here, Ended

\* A broadcast may leave one message with some of the clients still to be
\* written; nothing else the server does can.
LEMMA ServerKeepsHeld ==
    ASSUME RecvMax = 1, IndTypeOK, OnePlaceEach, InLoop, JoinOK, HeldOK, ServerNext,
           UNCHANGED clientVars
    PROVE  HeldOK'
<1>1. /\ NetworkTypeOK /\ ServerTypeOK /\ client_metas \in Seq(Clients)
      /\ j \in Nat /\ lock_owner \in Names \cup {NoName} /\ PingN \in Int
  BY ServerAssumption DEF IndTypeOK, TypeOK, ServerTypeOK
<1>2. Here' = Here /\ Here \subseteq Clients
  BY DEF Here, clientVars
<1>flows. ASSUME \A c \in Clients : unsent'[c] = 0 PROVE HeldOK'
  BY <1>2, <1>flows DEF HeldOK, HoldsBack, Flowing
<1>same. ASSUME UNCHANGED <<s2c, unsent>>, spc' \notin {"ping", "pong", "order"} PROVE HeldOK'
  BY <1>2, <1>same DEF HeldOK, HoldsBack
<1>spreads. ASSUME Flowing, NEW T \in SUBSET Indices, NEW m \in Msg,
                   m.type # "COUNTDOWN_ORDER", NEW pending,
                   NEW next \in {"scan", "unlock", "closing"},
                   WriteAll(T, <<m>>, pending, next)
            PROVE  HeldOK'
  <2>1. PICK W, V \in SUBSET Metas(T) :
          \/ WriteSucceeds(T, V, <<m>>, pending, next)
          \/ WriteKills(T, W, <<m>>, pending)
    BY <1>spreads, WriteAllCases
  <2>2. CASE WriteKills(T, W, <<m>>, pending)
    BY <1>flows, <1>spreads, <2>2 DEF WriteKills, Flowing
  <2>3. CASE WriteSucceeds(T, V, <<m>>, pending, next)
    <3>1. /\ s2c' = Written(s2c, srvSide, Metas(T), <<m>>)
          /\ unsent' = [c \in Clients |-> IF c \in V THEN Len(<<m>>) ELSE 0]
          /\ spc' \notin {"ping", "pong", "order"}
      BY <1>spreads, <2>3 DEF WriteSucceeds
    <3>2. \A c \in Here : s2c'[c] = IF c \in Metas(T) THEN s2c[c] \o <<m>> ELSE s2c[c]
      BY <1>spreads, <3>1, Reaches
    <3>3. ASSUME NEW c \in Here, c \in V PROVE HoldsBack(c)'
      <4>1. s2c'[c] = s2c[c] \o <<m>> /\ unsent'[c] = 1 /\ s2c[c] \in Seq(Msg)
        BY <1>1, <1>2, <3>1, <3>2, <3>3 DEF NetworkTypeOK
      <4>2. s2c'[c] = Append(s2c[c], m)
        BY <1>spreads, <4>1, AppendIsConcat
      <4>3. /\ s2c'[c] \in Seq(Msg) /\ Len(s2c[c]) \in Nat
            /\ Len(s2c'[c]) = Len(s2c[c]) + 1
            /\ s2c'[c][Len(s2c[c]) + 1] = m
        BY <1>spreads, <4>1, <4>2, AppendProperties, LenProperties
      <4>4. s2c'[c] # <<>>
        BY <4>3, EmptySeq
      <4> QED BY <1>spreads, <4>1, <4>3, <4>4 DEF HoldsBack
    <3>4. \A c \in Here : c \notin V => HoldsBack(c)'
      BY <1>2, <3>1 DEF HoldsBack
    <3> QED BY <1>2, <3>1, <3>3, <3>4 DEF HeldOK
  <2> QED BY <2>1, <2>2, <2>3
<1>one. ASSUME Flowing, NEW buf, NEW next, WriteOne(j, buf, next) PROVE HeldOK'
  BY <1>1, <1>flows, <1>one, WriteOneCases DEF WriteSucceeds, WriteKills, Flowing
<1>send. CASE Send
  <2>1. PICK Later : SendSucceeds(Later) \/ SendKills(Later)
    BY <1>1, <1>send, SendCases
  <2>2. CASE SendSucceeds(Later)
    <3>1. /\ \A c \in Clients : unsent'[c] \in {0, unsent[c]}
          /\ UNCHANGED <<s2c, spc>>
      BY <2>2 DEF SendSucceeds
    <3>2. spc \notin {"ping", "pong", "order"}
      BY <1>send DEF Send, HeldOK
    <3> QED BY <1>2, <3>1, <3>2 DEF HeldOK, HoldsBack
  <2>3. CASE SendKills(Later)
    BY <1>flows, <2>3 DEF SendKills
  <2> QED BY <2>1, <2>2, <2>3
<1> SUFFICES ASSUME Flowing PROVE HeldOK'
  BY <1>send DEF ServerNext
<1>3. CASE UNCHANGED unsent
  BY <1>flows, <1>3 DEF Flowing
<1>4. CASE Select \/ Accept \/ AcceptFails \/ OperatorMistypes \/ Exit \/ RecvThrows
           \/ Pong \/ PongFails \/ OrderFaults \/ DispatchEnds \/ Erase
  BY <1>3, <1>4 DEF Select, Accept, AcceptFails, OperatorMistypes, Exit, RecvThrows, Pong,
     PongFails, OrderFaults, DispatchEnds, Erase, netVars
<1>5. CASE OperatorQuits
  <2>1. WriteAll(Indices \ {-1}, <<shutdown_msg>>, c2s, "closing")
    BY <1>5 DEF OperatorQuits, broadcast
  <2>2. shutdown_msg \in Msg /\ shutdown_msg.type # "COUNTDOWN_ORDER"
    BY DEF shutdown_msg, Named, Msg, MsgTypes
  <2>3. Indices \ {-1} \in SUBSET Indices
    OBVIOUS
  <2> QED BY <1>spreads, <2>1, <2>2, <2>3
<1>6. ASSUME NEW k \in Indices, Dispatch(k) PROVE HeldOK'
  <2>1. PICK buf \in Chunks(c2s[Meta(k)], srvSide[Meta(k)]) :
          \/ HandleHello(k, buf) \/ HandleGoodbye(k, buf)
          \/ HandleLock(k, buf)  \/ HandleUnlock(k, buf)
          \/ HandleWrite(k, buf) \/ HandleCountdown(k, buf)
          \/ Discard(k, buf)
    BY <1>6 DEF Dispatch
  <2>2. CASE HandleCountdown(k, buf) \/ Discard(k, buf)
    BY <1>3, <2>2 DEF HandleCountdown, Discard
  <2>3. CASE HandleHello(k, buf) \/ HandleGoodbye(k, buf) \/ HandleLock(k, buf)
             \/ HandleUnlock(k, buf) \/ HandleWrite(k, buf)
    <3>1. classify(buf) \in {"HELLO", "GOODBYE", "PEER_LOCK", "PEER_UNLOCK",
                             "WRITE_ARBITRARY"}
      BY <2>3 DEF HandleHello, HandleGoodbye, HandleLock, HandleUnlock, HandleWrite
    <3>2. PICK next \in {"scan", "unlock"} :
            WriteAll(Indices \ {k}, buf, Rest(k, buf), next)
      BY <2>3 DEF HandleHello, HandleGoodbye, HandleLock, HandleUnlock, HandleWrite, Relay,
         broadcast
    <3>3. PICK m \in Msg : buf = <<m>> /\ m.type \notin {"PING", "COUNTDOWN_ORDER"}
      BY <1>1, <3>1, RelaysAlone
    <3>4. Indices \ {k} \in SUBSET Indices
      OBVIOUS
    <3> QED BY <1>spreads, <3>2, <3>3, <3>4
  <2> QED BY <2>1, <2>2, <2>3
<1>7. CASE Ping \/ Order
  <2>1. \E buf, next : WriteOne(j, buf, next)
    BY <1>7 DEF Ping, Order
  <2> QED BY <1>one, <2>1
<1>8. CASE Unlock
  <2>1. WriteAll(Indices \ {-1}, <<unlock_msg(lock_owner)>>, c2s, "scan")
    BY <1>8 DEF Unlock, broadcast
  <2>2. unlock_msg(lock_owner) \in Msg /\ unlock_msg(lock_owner).type # "COUNTDOWN_ORDER"
    BY <1>1 DEF unlock_msg, Named, Msg, MsgTypes
  <2>3. Indices \ {-1} \in SUBSET Indices
    OBVIOUS
  <2> QED BY <1>spreads, <2>1, <2>2, <2>3
<1> QED BY <1>send, <1>4, <1>5, <1>6, <1>7, <1>8 DEF ServerNext, ServerActs

\* A client reads no further than what has arrived.
LEMMA ClientKeepsHeld ==
    ASSUME RecvMax = 1, IndTypeOK, JoinOK, HeldOK, DeliverOK, NEW c \in Clients,
           ClientRuns(c) \/ UserActs(c), UNCHANGED serverVars
    PROVE  HeldOK'
<1>1. /\ UNCHANGED <<spc, unsent>> /\ Apart(c) /\ NetworkTypeOK
      /\ cpc[c] \in Departed => cpc'[c] \in {"exited", "crashed"}
  <2>1. UNCHANGED unsent
    BY DEF ClientRuns, UserActs, Connect, ConnectFails, StartTyping, FinishLine, CloseInput,
       Killed, LockAtEnd, Leave, ClientRecvThrows, OnMessage, PingTurn, OnShutdown, OnPing,
       OnPingInit, OnPeer, OnLock, OnOrder, OnOther, netVars
  <2> QED BY <2>1, ClientTraffic DEF StepOf, serverVars, IndTypeOK, TypeOK
<1>2. ASSUME NEW d \in Here' PROVE d \in Here /\ HoldsBack(d)'
  <2>1. d \in Here /\ HoldsBack(d)
    BY <1>1, <1>2 DEF Here, Apart, Departed, Ended, HeldOK
  <2>2. d \in Clients /\ s2c[d] \in Seq(Msg) /\ unsent'[d] = unsent[d]
    BY <1>1, <2>1 DEF Here, NetworkTypeOK
  <2>3. CASE s2c'[d] = s2c[d] \/ unsent[d] = 0
    BY <2>1, <2>2, <2>3 DEF HoldsBack
  <2>4. CASE s2c'[d] # s2c[d] /\ unsent[d] # 0
    <3>1. d = c
      BY <1>1, <2>2, <2>4 DEF Apart
    <3>2. ReadsOn(c)
      BY <1>2, <2>1, <3>1, ClientReadsOn DEF Here
    <3>3. /\ s2c[d] # <<>> /\ s2c'[d] = Tail(s2c[d]) /\ unsent[d] < Len(s2c[d])
      BY <2>4, <3>1, <3>2 DEF ReadsOn
    <3>4. /\ unsent[d] = 1 /\ s2c[d][Len(s2c[d])].type # "COUNTDOWN_ORDER"
      BY <2>1, <2>4 DEF HoldsBack
    <3> DEFINE s == s2c[d]
               t == Tail(s)
               N == Len(s) - 1
    <3>5. /\ Len(s) \in Nat /\ N \in Nat /\ N # 0 /\ Len(s) = N + 1
      BY <2>2, <3>3, <3>4, LenProperties
    <3>6. /\ t \in Seq(Msg) /\ Len(t) = N /\ t[N] = s[N + 1]
      <4>1. s \in Seq(Msg) /\ s # <<>>
        BY <2>2, <3>3
      <4> HIDE DEF s, N
      <4>2. /\ t \in Seq(Msg) /\ Len(t) = Len(s) - 1
            /\ \A k \in 1..Len(t) : t[k] = s[k + 1]
        BY <4>1, HeadTailProperties
      <4> HIDE DEF t
      <4>3. Len(t) = N /\ N \in 1..Len(t)
        BY <3>5, <4>2
      <4> QED BY <4>2, <4>3
    <3>7. t # <<>>
      BY <3>5, <3>6, EmptySeq
    <3>8. /\ s2c'[d] = t /\ Len(s2c'[d]) = N /\ t[N].type # "COUNTDOWN_ORDER"
      BY <3>3, <3>4, <3>5, <3>6
    <3>9. unsent'[d] = 1
      BY <2>2, <3>4
    <3> HIDE DEF s, t, N
    <3> QED BY <2>1, <3>7, <3>8, <3>9 DEF HoldsBack
  <2> QED BY <2>1, <2>3, <2>4
<1>3. spc' \in {"ping", "pong", "order"} => Flowing'
  BY <1>1 DEF HeldOK, Flowing
<1> QED BY <1>2, <1>3 DEF HeldOK

\* What is on its way to the clients.
LEMMA DeliveryInvariant ==
    ASSUME RecvMax = 1
    PROVE  Spec => [](IndTypeOK /\ OnePlaceEach /\ InLoop /\ JoinOK /\ HeldOK /\ DeliverOK)
<1>1. Init => DeliverOK
  <2> SUFFICES ASSUME Init PROVE DeliverOK
    OBVIOUS
  <2>1. /\ spc = "select" /\ Pinged = {}
        /\ \A c \in Clients : /\ cpc[c] = "off" /\ s2c[c] = <<>> /\ Expect(c) = 0
                              /\ ordered[c] = <<>> /\ obeyed[c] = <<>>
    BY DEF Init, NetworkInit, ServerInit, ClientInit, Pinged, Expect
  <2>2. Framed(0, <<>>) /\ EndOf(0, <<>>) = 0
    <3>1. Len(<<>>) = 0
      BY EmptySeq
    <3>2. \A k \in 1..(Len(<<>>) - 1) : FALSE
      BY <3>1
    <3> QED BY <3>2 DEF Framed, EndOf
  <2>3. OrdersIn(<<>>) = <<>> /\ <<>> \o <<>> = <<>>
    <3>1. <<>> \in Seq(Msg) /\ <<>> \in Seq(Int) /\ Len(<<>>) = 0
      BY EmptySeq
    <3>2. PICK f : OrdersIn(<<>>) = f[Len(<<>>)] /\ f[0] = <<>>
      BY <3>1, OrdersInUnfolds
    <3> QED BY <3>1, <3>2, ConcatEmptySeq
  <2>4. \A c \in Clients : InFrame(c)
    BY <2>1, <2>2 DEF InFrame
  <2> QED BY <2>1, <2>3, <2>4 DEF DeliverOK, Here, InFrame
<1>held. Init => HeldOK
  BY DEF Init, NetworkInit, ServerInit, HeldOK, HoldsBack, Here
<1>2. IndTypeOK /\ OnePlaceEach /\ InLoop /\ JoinOK /\ HeldOK /\ DeliverOK /\ [Next]_vars
        => HeldOK' /\ DeliverOK'
  <2> SUFFICES ASSUME IndTypeOK, OnePlaceEach, InLoop, JoinOK, HeldOK, DeliverOK, [Next]_vars
               PROVE  HeldOK' /\ DeliverOK'
    OBVIOUS
  <2>1. CASE ServerNext /\ UNCHANGED clientVars
    BY <2>1, ServerKeepsHeld, ServerKeepsDelivery
  <2>2. CASE ClientNext /\ UNCHANGED serverVars
    BY <2>2, ClientKeepsHeld, ClientKeepsDelivery DEF ClientNext
  <2>3. CASE UNCHANGED vars
    <3>1. UNCHANGED <<spc, i, j, client_metas, ordered, cpc, ci, obeyed, s2c, unsent>>
      BY <2>3 DEF vars, netVars, serverVars, clientVars
    <3>2. Here' = Here /\ Pinged' = Pinged
      BY <3>1 DEF Here, Pinged, Indices
    <3>3. /\ \A k : Meta(k)' = Meta(k) /\ Sent(k)' = Sent(k)
          /\ \A c : Expect(c)' = Expect(c)
      BY <3>1 DEF Meta, Sent, Expect
    <3>4. \A c : InFrame(c)' <=> InFrame(c)
      BY <3>1, <3>2, <3>3 DEF InFrame
    <3>5. HeldOK'
      BY <3>1, <3>2 DEF HeldOK, HoldsBack, Flowing
    <3> QED BY <3>1, <3>2, <3>3, <3>4, <3>5 DEF DeliverOK
  <2> QED BY <2>1, <2>2, <2>3 DEF Next
<1> QED BY <1>1, <1>held, <1>2, JoinInvariant, PTL DEF Spec

\* When every message arrives alone no order is lost, repeated or overtaken on
\* its way to a client: not by a relay, not by the pings of this countdown or of
\* the next, nor by a client that is still in its ping loop.
THEOREM OrdersReach ==
    ASSUME RecvMax = 1
    PROVE  Spec => []OrdersDelivered
<1>1. IndTypeOK /\ DeliverOK => OrdersDelivered
  BY DEF DeliverOK, OrdersDelivered, Here, Live, Ended
<1> QED BY <1>1, DeliveryInvariant, PTL

-----------------------------------------------------------------------------
(* The wait for a pong *)

\* A client that is connected only ever adds to what it has said.
LEMMA StaysSaid ==
    ASSUME IndTypeOK, NEW c \in Clients, ClientRuns(c) \/ UserActs(c), ~Connect(c)
    PROVE  \E buf \in Seq(Msg) : c2s'[c] = c2s[c] \o buf
<1> DEFINE Adds == \E buf \in Seq(Msg) : c2s'[c] = c2s[c] \o buf
<1>1. NetworkTypeOK /\ ClientTypeOK /\ c2s[c] \in Seq(Msg) /\ s2c[c] \in Seq(Msg)
  BY DEF IndTypeOK, TypeOK, NetworkTypeOK
<1>same. ASSUME UNCHANGED c2s PROVE Adds
  <2>1. <<>> \in Seq(Msg) /\ c2s[c] \o <<>> = c2s[c]
    BY <1>1, EmptySeq, ConcatEmptySeq
  <2> QED BY <1>same, <2>1
<1>writes. ASSUME NEW buf \in Seq(Msg), NEW unread, NEW next, Writes(c, buf, unread, next)
           PROVE  Adds
  <2>1. c2s'[c] = c2s[c] \o buf \/ c2s'[c] = c2s[c]
    BY <1>1, <1>writes DEF Writes, Written
  <2>2. <<>> \in Seq(Msg) /\ c2s[c] \o <<>> = c2s[c]
    BY <1>1, EmptySeq, ConcatEmptySeq
  <2>3. CASE c2s'[c] = c2s[c]
    BY <2>2, <2>3
  <2> QED BY <2>1, <2>3
<1> SUFFICES Adds
  OBVIOUS
<1> HIDE DEF Adds
<1>2. CASE OnMessage(c)
  <2>1. PICK buf \in Chunks(s2c[c], cliSide[c]) :
          \/ OnShutdown(c, buf) \/ OnPing(c, buf) \/ OnPingInit(c, buf)
          \/ OnPeer(c, buf) \/ OnLock(c, buf) \/ OnOrder(c, buf)
          \/ OnOther(c, buf)
    BY <1>2, OnMessageRead
  <2>2. CASE OnPing(c, buf)
    <3>1. buf \in Seq(Msg)
      BY <1>1, ChunkType
    <3> QED BY <1>writes, <2>2, <3>1 DEF OnPing
  <2>3. CASE ~OnPing(c, buf)
    BY <1>same, <2>1, <2>3 DEF OnShutdown, OnPingInit, OnPeer, OnLock, OnOrder, OnOther
  <2> QED BY <2>2, <2>3
<1>3. CASE PingTurn(c)
  <2>1. \/ \E buf \in Chunks(s2c[c], cliSide[c]), next \in {"pinging", "select"} :
              Writes(c, buf, After(s2c[c], buf), next)
        \/ UNCHANGED c2s
    BY <1>3, PingTurnRead
  <2>2. \A buf \in Chunks(s2c[c], cliSide[c]) : buf \in Seq(Msg)
    BY <1>1, ChunkType
  <2> QED BY <1>same, <1>writes, <2>1, <2>2
<1>4. CASE StartTyping(c) \/ LockAtEnd(c)
  <2>1. <<lock_msg(Nick[c])>> \in Seq(Msg)
    <3>1. Nick[c] \in Names \cup {NoName}
      BY NetworkAssumption
    <3> QED BY <3>1, MessageTypes
  <2> QED BY <1>4, <1>writes, <2>1 DEF StartTyping, LockAtEnd
<1>5. CASE FinishLine(c)
  <2>1. PICK line \in Script[c][typed[c] + 1] :
          \/ UNCHANGED c2s
          \/ \E next \in {"leaving", "select"} :
                Writes(c, parse_cmdline(line, Nick[c]), s2c[c], next)
    BY <1>5 DEF FinishLine
  <2>2. parse_cmdline(line, Nick[c]) \in Seq(Msg)
    BY <1>5, LineType DEF FinishLine, IndTypeOK, LinesOwed
  <2> QED BY <1>same, <1>writes, <2>1, <2>2
<1>6. CASE ConnectFails(c) \/ CloseInput(c) \/ Leave(c) \/ ClientRecvThrows(c) \/ Killed(c)
  BY <1>6, <1>same DEF ConnectFails, CloseInput, Leave, ClientRecvThrows, Killed, netVars
<1> QED BY <1>2, <1>3, <1>4, <1>5, <1>6 DEF ClientRuns, UserActs

\* A client the server begins to wait for has just been sent a ping.
LEMMA ServerKeepsWait ==
    ASSUME IndTypeOK, OnePlaceEach, InLoop, JoinOK, HeldOK, ServerNext, UNCHANGED clientVars
    PROVE  PongDue'
<1> SUFFICES ASSUME spc' = "pong", (Meta(j) \in Here)'
             PROVE  \E m \in ToSet(s2c'[Meta(j)']) : m.type = "PING"
  BY DEF PongDue
<1>1. NetworkTypeOK /\ ServerTypeOK /\ i \in Nat /\ j \in Nat /\ client_metas \in Seq(Clients)
  BY DEF IndTypeOK, TypeOK, ServerTypeOK
<1>2. CASE Ping
  <2>1. j \in Indices /\ UNCHANGED <<client_metas, j, i>> /\ Meta(j)' = Meta(j)
    BY <1>2 DEF Ping, InLoop, Meta
  <2>2. WriteSucceeds({j}, {}, <<ping_msg(i)>>, c2s, "pong")
    <3>1. \/ WriteSucceeds({j}, {}, <<ping_msg(i)>>, c2s, "pong")
          \/ WriteKills({j}, {}, <<ping_msg(i)>>, c2s)
      BY <1>1, <1>2, WriteOneCases DEF Ping
    <3> QED BY <3>1 DEF WriteKills
  <2>4. s2c' = Written(s2c, srvSide, Metas({j}), <<ping_msg(i)>>)
    BY <2>2 DEF WriteSucceeds
  <2>5. Meta(j) \in Here /\ {j} \in SUBSET Indices /\ Meta(j) \in Metas({j})
    BY <2>1 DEF Here, clientVars, Metas
  <2>6. s2c'[Meta(j)] = s2c[Meta(j)] \o <<ping_msg(i)>>
    BY <2>4, <2>5, Reaches
  <2>7. ping_msg(i) \in Msg /\ ping_msg(i).type = "PING"
    BY <1>1 DEF ping_msg, Numbered, Msg, MsgTypes
  <2>8. ToSet(s2c'[Meta(j)]) = ToSet(s2c[Meta(j)]) \cup {ping_msg(i)}
    <3>1. s2c[Meta(j)] \in Seq(Msg) /\ <<ping_msg(i)>> \in Seq(Msg)
      BY <1>1, <2>5, <2>7 DEF Here, NetworkTypeOK
    <3> QED BY <2>6, <2>7, <3>1, Contents
  <2> QED BY <2>1, <2>7, <2>8
<1>all. ASSUME NEW T, NEW buf, NEW pending, NEW next \in {"scan", "unlock", "closing"},
               WriteAll(T, buf, pending, next)
        PROVE  FALSE
  BY <1>all, WriteAllCases DEF WriteSucceeds, WriteKills
<1>3. CASE ~Ping
  <2>1. ASSUME NEW k \in Indices, Dispatch(k) PROVE FALSE
    BY <1>all, <2>1 DEF Dispatch, HandleHello, HandleGoodbye, HandleLock, HandleUnlock,
       HandleWrite, HandleCountdown, Discard, Relay, broadcast, Received, NextIndex
  <2>2. CASE Send
    <3>1. spc \notin {"ping", "pong", "order"}
      BY <2>2 DEF Send, HeldOK
    <3>2. spc' \in {spc, "crashed"}
      BY <1>1, <2>2, SendCases DEF SendSucceeds, SendKills
    <3> QED BY <3>1, <3>2
  <2>3. CASE Order
    <3>1. PICK next \in {"order", "unlock"} : WriteOne(j, <<countdown_order_msg(n)>>, next)
      BY <2>3 DEF Order
    <3> QED BY <1>1, <3>1, WriteOneCases DEF WriteSucceeds, WriteKills
  <2>4. CASE OperatorQuits \/ Unlock
    BY <1>all, <2>4 DEF OperatorQuits, Unlock, broadcast
  <2>5. CASE Select \/ Accept \/ AcceptFails \/ OperatorMistypes \/ Exit \/ RecvThrows
             \/ Pong \/ PongFails \/ OrderFaults \/ DispatchEnds \/ Erase
    BY <2>5 DEF Select, Accept, AcceptFails, OperatorMistypes, Exit, RecvThrows, Pong,
       PongFails, OrderFaults, DispatchEnds, Erase, NextExchange, Phase
  <2> QED BY <1>3, <2>1, <2>2, <2>3, <2>4, <2>5 DEF ServerNext, ServerActs
<1> QED BY <1>2, <1>3

\* A client that goes on answers the ping or keeps it for later.
LEMMA ClientKeepsWait ==
    ASSUME RecvMax = 1, IndTypeOK, InLoop, JoinOK, DeliverOK, PongDue, NEW c \in Clients,
           ClientRuns(c) \/ UserActs(c), UNCHANGED serverVars
    PROVE  PongDue'
<1> SUFFICES ASSUME spc = "pong", Meta(j) \in Clients, cpc'[Meta(j)] \notin Ended
             PROVE  c2s'[Meta(j)] # <<>> \/ \E m \in ToSet(s2c'[Meta(j)]) : m.type = "PING"
  BY DEF PongDue, Here, Meta, serverVars
<1> DEFINE d == Meta(j)
<1>1. StepOf(c) /\ NetworkTypeOK
  BY ClientTraffic DEF IndTypeOK, TypeOK
<1>2. d \in Here
  BY <1>1 DEF StepOf, Apart, Here, Ended, Departed
<1>3. c2s[d] # <<>> \/ \E m \in ToSet(s2c[d]) : m.type = "PING"
  BY <1>2 DEF PongDue
<1>4. CASE d # c
  BY <1>1, <1>3, <1>4 DEF StepOf, Apart
<1>5. CASE d = c
  <2>1. ReadsOn(d)
    BY <1>2, <1>5, ClientReadsOn
  <2>2. c2s[d] # <<>> => c2s'[d] # <<>>
    <3> SUFFICES ASSUME c2s[d] # <<>> PROVE c2s'[d] # <<>>
      OBVIOUS
    <3>1. CASE Connect(d)
      <4>1. c2s'[d] = <<hello_msg(Nick[d])>>
        BY <1>1, <3>1 DEF Connect, NetworkTypeOK
      <4> QED BY <4>1
    <3>2. CASE ~Connect(d)
      <4>1. PICK buf \in Seq(Msg) : c2s'[d] = c2s[d] \o buf
        BY <1>5, <3>2, StaysSaid
      <4>2. /\ c2s[d] \in Seq(Msg)
            /\ Len(c2s[d]) \in Nat \ {0} /\ Len(buf) \in Nat
        BY <1>1, LenProperties, EmptySeq DEF NetworkTypeOK
      <4>3. /\ c2s'[d] \in Seq(Msg)
            /\ Len(c2s'[d]) = Len(c2s[d]) + Len(buf)
        BY <4>1, <4>2, ConcatProperties
      <4> QED BY <4>2, <4>3, EmptySeq
    <3> QED BY <3>1, <3>2
  <2>3. CASE s2c'[d] = s2c[d]
    BY <1>3, <2>2, <2>3
  <2>4. CASE /\ s2c[d] # <<>> /\ s2c'[d] = Tail(s2c[d])
             /\ Head(s2c[d]).type = "PING" /\ spc \notin Ended => c2s'[d] # <<>>
    <3>1. ToSet(s2c[d]) = {Head(s2c[d])} \cup ToSet(Tail(s2c[d]))
      <4>1. s2c[d] \in Seq(Msg) /\ Framed(Expect(d), s2c[d]) /\ Expect(d) \in Int
        <5>1. ci[d] \in Nat
          BY DEF IndTypeOK, TypeOK, ClientTypeOK
        <5>2. Expect(d) \in Int
          BY <5>1 DEF Expect
        <5> QED BY <1>1, <1>2, <5>2 DEF DeliverOK, InFrame, NetworkTypeOK
      <4> QED BY <2>4, <4>1, FramedTail
    <3> QED BY <1>3, <2>2, <2>4, <3>1 DEF Ended
  <2> QED BY <2>1, <2>3, <2>4 DEF ReadsOn
<1> QED BY <1>4, <1>5

\* When every message arrives alone the server never waits in the ping loop for
\* a client that waits for it in turn.
THEOREM NobodyWaitsForTheOther ==
    ASSUME RecvMax = 1
    PROVE  Spec => []NoMutualWait
<1>1. Init => PongDue
  BY DEF Init, ServerInit, PongDue
<1>2. IndTypeOK /\ OnePlaceEach /\ InLoop /\ JoinOK /\ HeldOK /\ DeliverOK /\ PongDue
        /\ [Next]_vars => PongDue'
  <2> SUFFICES ASSUME IndTypeOK, OnePlaceEach, InLoop, JoinOK, HeldOK, DeliverOK, PongDue,
                      [Next]_vars
               PROVE  PongDue'
    OBVIOUS
  <2>1. CASE ServerNext /\ UNCHANGED clientVars
    BY <2>1, ServerKeepsWait
  <2>2. CASE ClientNext /\ UNCHANGED serverVars
    BY <2>2, ClientKeepsWait DEF ClientNext
  <2>3. CASE UNCHANGED vars
    BY <2>3 DEF vars, netVars, serverVars, clientVars, PongDue, Here, Meta
  <2> QED BY <2>1, <2>2, <2>3 DEF Next
<1>3. IndTypeOK /\ InLoop /\ PongDue => NoMutualWait
  <2> SUFFICES ASSUME IndTypeOK, InLoop, PongDue, spc = "pong",
                      s2c[Meta(j)] = <<>>, c2s[Meta(j)] = <<>>,
                      cpc[Meta(j)] \in {"select", "pinging"}
               PROVE  FALSE
    BY DEF NoMutualWait
  <2>1. Meta(j) \in Clients
    BY MetaFacts DEF InLoop
  <2>2. Meta(j) \in Here
    BY <2>1 DEF Here, Ended
  <2>3. ToSet(s2c[Meta(j)]) = {}
    BY Contents
  <2> QED BY <2>2, <2>3 DEF PongDue
<1> QED BY <1>1, <1>2, <1>3, DeliveryInvariant, PTL DEF Spec

-----------------------------------------------------------------------------
(* The program implements Coordination *)

\* What it takes to be a step of the coordination.
LEMMA Losing ==
    ASSUME Requested' \subseteq Requested, UNCHANGED <<Present, Coming, Due, obeyed>>,
           spc \in Ended <=> spc' \in Ended
    PROVE  Abstract!Next
<1>1. Abstract!Lose
  BY DEF Abstract!Lose, Ended
<1> QED BY <1>1 DEF Abstract!Next

LEMMA Asking ==
    ASSUME NEW x \in Typable, Requested' = Requested \cup {x},
           UNCHANGED <<Present, Coming, Due, obeyed, spc>>
    PROVE  Abstract!Next
<1>1. Abstract!Ask(x)
  BY DEF Abstract!Ask
<1> QED BY <1>1 DEF Abstract!Next

LEMMA Joining ==
    ASSUME NEW c \in Clients, c \notin Present, spc \notin Ended, spc' \notin Ended,
           Due[c] = <<>>, obeyed[c] = <<>>, Coming = [d \in Clients |-> <<>>],
           Present' = Present \cup {c}, UNCHANGED <<Requested, Coming, Due, obeyed>>
    PROVE  Abstract!Next
<1>1. Abstract!Join(c)
  BY DEF Abstract!Join, Abstract!NobodyCalled, Ended
<1> QED BY <1>1 DEF Abstract!Next

LEMMA Leaving ==
    ASSUME NEW c \in Present, c \in Clients,
           Present' = Present \ {c}, Due' = [Due EXCEPT ![c] = <<>>],
           Coming' = [Coming EXCEPT ![c] = <<>>],
           UNCHANGED <<Requested, obeyed>>,
           spc \in Ended <=> spc' \in Ended
    PROVE  Abstract!Next
<1>1. Abstract!Leave(c)
  BY DEF Abstract!Leave, Ended
<1> QED BY <1>1 DEF Abstract!Next

LEMMA Counting ==
    ASSUME NEW c \in Present, c \in Clients, Due[c] # <<>>,
           obeyed' = [obeyed EXCEPT ![c] = Append(@, Head(Due[c]))],
           Due' = [Due EXCEPT ![c] = Tail(@)],
           UNCHANGED <<Requested, Present, Coming, spc>>
    PROVE  Abstract!Next
<1>1. Abstract!Count(c)
  BY DEF Abstract!Count
<1> QED BY <1>1 DEF Abstract!Next

LEMMA Calling ==
    ASSUME NEW x \in Typable, x \in Requested, x >= 0, spc \notin Ended, spc' \notin Ended,
           Requested' \subseteq Requested, Coming = [c \in Clients |-> <<>>],
           Coming' = [c \in Clients |-> IF c \in Present THEN <<x>> ELSE <<>>],
           UNCHANGED <<Present, Due, obeyed>>
    PROVE  Abstract!Next
<1>1. Abstract!Call(x)
  BY DEF Abstract!Call, Abstract!NobodyCalled, Ended
<1> QED BY <1>1 DEF Abstract!Next

LEMMA Reaching ==
    ASSUME NEW c \in Clients, NEW x, Coming[c] = <<x>>, spc \notin Ended, spc' \notin Ended,
           Due' = [Due EXCEPT ![c] = Append(@, x)],
           Coming' = [Coming EXCEPT ![c] = <<>>],
           UNCHANGED <<Requested, Present, obeyed>>
    PROVE  Abstract!Next
<1>1. <<x>> # <<>> /\ Head(<<x>>) = x /\ Tail(<<x>>) = <<>>
  <2>1. <<x>> \in Seq({x}) /\ <<x>>[1] = x /\ Len(<<x>>) = 1
    OBVIOUS
  <2>2. <<x>> # <<>>
    BY <2>1, EmptySeq
  <2>3. Tail(<<x>>) \in Seq({x}) /\ Len(Tail(<<x>>)) = 0 /\ Head(<<x>>) = <<x>>[1]
    BY <2>1, <2>2, HeadTailProperties
  <2> QED BY <2>1, <2>2, <2>3, EmptySeq
<1>2. Abstract!Reach(c)
  BY <1>1 DEF Abstract!Reach, Ended
<1> QED BY <1>2 DEF Abstract!Next

LEMMA Stopping ==
    ASSUME spc \notin Ended, spc' \in Ended, Requested' \subseteq Requested,
           Coming' = [c \in Clients |-> <<>>], UNCHANGED <<Present, Due, obeyed>>
    PROVE  Abstract!Next
<1>1. Abstract!Stop
  BY DEF Abstract!Stop, Ended
<1> QED BY <1>1 DEF Abstract!Next

-----------------------------------------------------------------------------
(* Why every step is one of the coordination *)

Business == {"select", "typing", "pinging", "deaf"}

\* While a countdown is prepared, and until the last order is out.
Rounds == {"ping", "pong"}

Underway == {"ping", "pong", "order"}

\* Only what users may type is asked for, and only what is not negative is
\* called.
AskedOK ==
    /\ Requested \subseteq Typable
    /\ spc \in Underway => n >= 0

\* A client that can still count down has been accepted or will be.
PlacedOK ==
    \A c \in Clients : cpc[c] \in Business => c \in ToSet(client_metas) \cup ToSet(backlog)

\* A client that has not been accepted was never called.
FreshOK ==
    \A c \in Here : cpc[c] = "off" \/ c \in ToSet(backlog) =>
        obeyed[c] = <<>> /\ OrdersIn(s2c[c]) = <<>>

\* Membership in Requested, before and after a step.
LEMMA WhoAsks ==
    /\ \A x : x \in Requested <=>
            \/ \E c \in Clients : \E m \in ToSet(c2s[c]) : m.type = "COUNTDOWN_N" /\ x = m.n
            \/ spc \in Rounds /\ x = n
    /\ \A x : x \in Requested' <=>
            \/ \E c \in Clients : \E m \in ToSet(c2s'[c]) : m.type = "COUNTDOWN_N" /\ x = m.n
            \/ spc' \in Rounds /\ x = n'
BY DEF Requested, Rounds

\* A countdown begins with a number that was asked for.
LEMMA ServerAsks ==
    ASSUME IndTypeOK, HeldOK, ServerNext
    PROVE  /\ Requested' \subseteq Requested
           /\ (spc \in Underway => n >= 0) => (spc' \in Underway => n' >= 0)
           /\ spc # "order" /\ spc' = "order" => n' \in Requested
<1>1. spc' \in Underway =>
        \/ spc \in Underway /\ n' = n /\ (spc = "order" => spc' = "order")
        \/ /\ n' >= 0
           /\ \E c \in Clients : \E m \in ToSet(c2s[c]) : m.type = "COUNTDOWN_N" /\ n' = m.n
  <2> SUFFICES ASSUME spc' \in Underway
               PROVE  \/ /\ spc \in Underway /\ n' = n
                         /\ spc = "order" => spc' = "order"
                      \/ /\ n' >= 0
                         /\ \E c \in Clients : \E m \in ToSet(c2s[c]) :
                                m.type = "COUNTDOWN_N" /\ n' = m.n
    OBVIOUS
  <2>1. ASSUME NEW k \in Indices, NEW buf \in Chunks(c2s[Meta(k)], srvSide[Meta(k)]),
               HandleCountdown(k, buf)
        PROVE  /\ n' >= 0
               /\ \E c \in Clients : \E m \in ToSet(c2s[c]) :
                        m.type = "COUNTDOWN_N" /\ n' = m.n
    <3>1. classify(buf) = "COUNTDOWN_N" /\ n' = Head(buf).n /\ n' >= 0
      BY <2>1 DEF HandleCountdown, Received, NextIndex, Underway
    <3>2. Meta(k) \in Clients /\ c2s[Meta(k)] \in Seq(Msg)
      BY MetaFacts DEF IndTypeOK, TypeOK, NetworkTypeOK
    <3>3. buf \in Seq(Msg) /\ ToSet(buf) \subseteq ToSet(c2s[Meta(k)])
      BY <3>2, ChunkType, ChunkWithin
    <3>4. buf # <<>> /\ Head(buf).type = "COUNTDOWN_N"
      BY <3>1 DEF classify
    <3>5. Head(buf) \in ToSet(buf)
      BY <3>3, <3>4, HeadTailProperties, EmptySeq, LenProperties DEF ToSet
    <3> QED BY <3>1, <3>2, <3>3, <3>4, <3>5
  <2>all. ASSUME NEW T, NEW buf, NEW pending, NEW next \in {"scan", "unlock", "closing"},
                 WriteAll(T, buf, pending, next)
          PROVE  FALSE
    BY <2>all, WriteAllCases DEF WriteSucceeds, WriteKills, Underway
  <2>2. ASSUME NEW k \in Indices, Dispatch(k)
        PROVE  \E buf \in Chunks(c2s[Meta(k)], srvSide[Meta(k)]) : HandleCountdown(k, buf)
    BY <2>all, <2>2 DEF Dispatch, HandleHello, HandleGoodbye, HandleLock, HandleUnlock,
       HandleWrite, Discard, Relay, broadcast, Received, NextIndex, Underway
  <2>one. ASSUME NEW buf, NEW next, WriteOne(j, buf, next)
          PROVE  spc' \in {next, "crashed"}
    <3>1. j \in Nat
      BY DEF IndTypeOK, TypeOK, ServerTypeOK
    <3> QED BY <2>one, <3>1, WriteOneCases DEF WriteSucceeds, WriteKills
  <2>3. CASE Ping
    BY <2>one, <2>3 DEF Ping, Underway
  <2>order. CASE Order
    <3> DEFINE next == IF j + 1 \in Indices THEN "order" ELSE "unlock"
    <3>1. /\ WriteOne(j, <<countdown_order_msg(n)>>, next)
          /\ spc = "order" /\ n' = n
      BY <2>order DEF Order
    <3>2. next \in {"order", "unlock"}
      OBVIOUS
    <3> HIDE DEF next
    <3>3. spc' \in {next, "crashed"}
      BY <2>one, <3>1
    <3> QED BY <3>1, <3>2, <3>3 DEF Underway
  <2>4. CASE Pong \/ PongFails
    BY <2>4 DEF Pong, PongFails, Underway
  <2>5. ~(Select \/ Accept \/ AcceptFails \/ OperatorMistypes \/ Exit \/ RecvThrows
          \/ OrderFaults \/ DispatchEnds \/ Erase)
    BY DEF Select, Accept, AcceptFails, Phase, OperatorMistypes, Exit, RecvThrows,
       OrderFaults, DispatchEnds, Erase, Underway
  <2>6. ~(OperatorQuits \/ Unlock)
    BY <2>all DEF OperatorQuits, Unlock, broadcast
  <2>7. ~Send
    <3> SUFFICES ASSUME Send PROVE FALSE
      OBVIOUS
    <3>1. spc' \in {spc, "crashed"}
      <4>1. client_metas \in Seq(Clients)
        BY DEF IndTypeOK, TypeOK, ServerTypeOK
      <4> QED BY <4>1, SendCases DEF SendSucceeds, SendKills
    <3> QED BY <3>1 DEF Send, HeldOK, Underway
  <2> QED BY <2>1, <2>2, <2>3, <2>order, <2>4, <2>5, <2>6, <2>7 DEF ServerNext, ServerActs
<1>2. \A c \in Clients : ToSet(c2s'[c]) \subseteq ToSet(c2s[c])
  BY ServerTraffic
<1>3. (spc' \in Rounds => spc' \in Underway) /\ (spc' \in Rounds => spc' # "order")
      /\ (spc \in Underway /\ spc # "order" => spc \in Rounds)
  BY DEF Rounds, Underway
<1>4. Requested' \subseteq Requested
  BY <1>1, <1>2, <1>3, WhoAsks
<1>5. spc # "order" /\ spc' = "order" => n' \in Requested
  BY <1>1, <1>3, WhoAsks DEF Underway
<1> QED BY <1>1, <1>4, <1>5

\* What a dying server had not written is no order.
LEMMA HeldIsNoOrder ==
    ASSUME NetworkTypeOK, NEW c \in Clients, HoldsBack(c)
    PROVE  OrdersIn(Arrived(c, s2c[c])) = OrdersIn(s2c[c])
<1> DEFINE s == s2c[c]
           N == Len(s)
<1>1. s \in Seq(Msg) /\ N \in Nat /\ \A k \in 1..N : s[k] \in Msg
  BY LenProperties DEF NetworkTypeOK
<1>2. CASE unsent[c] = 0
  <2>1. SubSeq(s, 1, N) = s
    BY <1>1, SubSeqFull
  <2>2. N - unsent[c] = N
    BY <1>1, <1>2
  <2>3. Arrived(c, s) = SubSeq(s, 1, N - unsent[c])
    BY DEF Arrived
  <2> QED BY <2>1, <2>2, <2>3
<1>3. CASE unsent[c] = 1 /\ s # <<>> /\ s[N].type # "COUNTDOWN_ORDER"
  <2> DEFINE t == SubSeq(s, 1, N - 1)
             m == s[N]
  <2>1. N # 0 /\ m \in Msg
    BY <1>1, <1>3, EmptySeq
  <2>2. Arrived(c, s) = t
    BY <1>3 DEF Arrived
  <2>3. /\ t \in Seq(Msg) /\ Len(t) = N - 1
        /\ \A k \in 1..(N - 1) : t[k] = s[k]
    <3>1. N - 1 \in Nat /\ \A k \in 1..(N - 1) : s[k] \in Msg /\ 1 + k - 1 = k
      BY <1>1, <2>1
    <3> HIDE DEF s, N
    <3> QED BY <3>1, SubSeqProperties
  <2>4. s = Append(t, m)
    <3> DEFINE u == Append(t, m)
    <3>1. /\ u \in Seq(Msg) /\ Len(u) = N
          /\ \A k \in 1..(N - 1) : u[k] = t[k]
          /\ u[N] = m
      <4> HIDE DEF t, m, s
      <4>1. /\ u \in Seq(Msg) /\ Len(u) = Len(t) + 1
            /\ \A k \in 1..Len(t) : u[k] = t[k]
            /\ u[Len(t) + 1] = m
        BY <2>1, <2>3, AppendProperties
      <4> HIDE DEF u, N
      <4> QED BY <1>1, <2>1, <2>3, <4>1
    <3> HIDE DEF u, t
    <3>2. \A k \in 1..Len(u) : u[k] = s[k]
      <4>1. \A k \in 1..N : k \in 1..(N - 1) \/ k = N
        BY <1>1
      <4> QED BY <2>3, <3>1, <4>1
    <3>3. u = s
      BY <1>1, <3>1, <3>2, SeqEqual
    <3> QED BY <3>3 DEF u
  <2>5. s = t \o <<m>>
    BY <2>1, <2>3, <2>4, AppendIsConcat
  <2>6. OrdersIn(t \o <<m>>) = Counted(OrdersIn(t), m)
    BY <2>1, <2>3, OrdersInAppend
  <2> QED BY <1>3, <2>2, <2>5, <2>6 DEF Counted
<1> QED BY <1>2, <1>3 DEF HoldsBack

\* Whatever the server writes outside Order is no order, nor is what it leaves
\* unwritten ...
LEMMA NoOrderWritten ==
    ASSUME RecvMax = 1, IndTypeOK, HeldOK, ServerNext, ~Order
    PROVE  \A c \in Here : OrdersIn(s2c'[c]) = OrdersIn(s2c[c])
<1> DEFINE Same == \A c \in Here : OrdersIn(s2c'[c]) = OrdersIn(s2c[c])
<1> SUFFICES Same
  OBVIOUS
<1>1. /\ NetworkTypeOK /\ PingN \in Int /\ i \in Int /\ n \in Int /\ j \in Nat
      /\ lock_owner \in Names \cup {NoName} /\ client_metas \in Seq(Clients)
  BY ServerAssumption DEF IndTypeOK, TypeOK, ServerTypeOK
<1>here. Here \subseteq Clients
  BY DEF Here
<1>2. CASE s2c' = s2c
  BY <1>2
<1>writes. ASSUME NEW W, NEW m \in Msg, m.type # "COUNTDOWN_ORDER",
                  s2c' = Written(s2c, srvSide, W, <<m>>)
           PROVE  Same
  <2>1. ASSUME NEW c \in Here PROVE OrdersIn(s2c'[c]) = OrdersIn(s2c[c])
    <3>1. s2c[c] \in Seq(Msg) /\ s2c'[c] \in {s2c[c], s2c[c] \o <<m>>}
      BY <1>1, <1>here, <1>writes DEF Written, NetworkTypeOK
    <3>2. OrdersIn(s2c[c] \o <<m>>) = OrdersIn(s2c[c])
      BY <1>writes, <3>1, OrdersInAppend DEF Counted
    <3> QED BY <3>1, <3>2
  <2> QED BY <2>1
<1> HIDE DEF Same
<1>msgs. /\ ping_init_msg(PingN) \in Msg /\ ping_init_msg(PingN).type = "PING_INIT"
         /\ shutdown_msg \in Msg /\ shutdown_msg.type = "SHUTDOWN"
         /\ unlock_msg(lock_owner) \in Msg /\ unlock_msg(lock_owner).type = "PEER_UNLOCK"
         /\ ping_msg(i) \in Msg /\ ping_msg(i).type = "PING"
  BY <1>1 DEF ping_init_msg, shutdown_msg, unlock_msg, ping_msg, Named, Numbered, Msg,
     MsgTypes
<1>all. ASSUME NEW T, NEW m \in Msg, m.type # "COUNTDOWN_ORDER", NEW pending, NEW next,
               WriteAll(T, <<m>>, pending, next)
        PROVE  Same
  <2>1. \E W : s2c' = Written(s2c, srvSide, W, <<m>>)
    BY <1>all, WriteAllCases DEF WriteSucceeds, WriteKills
  <2> QED BY <1>all, <1>writes, <2>1
<1>send. CASE Send
  <2>1. PICK Later : SendSucceeds(Later) \/ SendKills(Later)
    BY <1>1, <1>send, SendCases
  <2>2. ASSUME NEW c \in Here PROVE OrdersIn(s2c'[c]) = OrdersIn(s2c[c])
    <3>1. s2c'[c] \in {s2c[c], Arrived(c, s2c[c])} /\ c \in Clients
      BY <1>here, <2>1, <2>2 DEF SendSucceeds, SendKills
    <3>2. HoldsBack(c)
      BY <2>2 DEF HeldOK
    <3> QED BY <1>1, <3>1, <3>2, HeldIsNoOrder
  <2> QED BY <2>2 DEF Same
<1>3. CASE Select \/ AcceptFails \/ OperatorMistypes \/ Exit \/ RecvThrows \/ Pong \/ PongFails
           \/ OrderFaults \/ DispatchEnds \/ Erase
  BY <1>2, <1>3 DEF Select, AcceptFails, OperatorMistypes, Exit, RecvThrows, Pong, PongFails,
     OrderFaults, DispatchEnds, Erase, netVars
<1>4. CASE Accept
  <2>1. \E W : s2c' = Written(s2c, srvSide, W, <<ping_init_msg(PingN)>>)
    BY <1>4 DEF Accept
  <2> QED BY <1>msgs, <1>writes, <2>1
<1>quits. CASE OperatorQuits
  BY <1>all, <1>msgs, <1>quits DEF OperatorQuits, broadcast
<1>5. ASSUME NEW k \in Indices, Dispatch(k) PROVE Same
  <2>1. PICK buf \in Chunks(c2s[Meta(k)], srvSide[Meta(k)]) :
          \/ HandleHello(k, buf) \/ HandleGoodbye(k, buf)
          \/ HandleLock(k, buf)  \/ HandleUnlock(k, buf)
          \/ HandleWrite(k, buf) \/ HandleCountdown(k, buf)
          \/ Discard(k, buf)
    BY <1>5 DEF Dispatch
  <2>2. CASE HandleCountdown(k, buf) \/ Discard(k, buf)
    BY <1>2, <2>2 DEF HandleCountdown, Discard
  <2>3. CASE HandleHello(k, buf) \/ HandleGoodbye(k, buf) \/ HandleLock(k, buf)
             \/ HandleUnlock(k, buf) \/ HandleWrite(k, buf)
    <3>1. classify(buf) \in {"HELLO", "GOODBYE", "PEER_LOCK", "PEER_UNLOCK",
                             "WRITE_ARBITRARY"}
      BY <2>3 DEF HandleHello, HandleGoodbye, HandleLock, HandleUnlock, HandleWrite
    <3>2. \E next : WriteAll(Indices \ {k}, buf, Rest(k, buf), next)
      BY <2>3 DEF HandleHello, HandleGoodbye, HandleLock, HandleUnlock, HandleWrite, Relay,
         broadcast
    <3>3. PICK m \in Msg : buf = <<m>> /\ m.type \notin {"PING", "COUNTDOWN_ORDER"}
      BY <1>1, <3>1, RelaysAlone
    <3> QED BY <1>all, <3>2, <3>3
  <2> QED BY <2>1, <2>2, <2>3
<1>6. CASE Ping
  <2>1. \E W : s2c' = Written(s2c, srvSide, W, <<ping_msg(i)>>)
    BY <1>1, <1>6, WriteOneCases DEF Ping, WriteSucceeds, WriteKills
  <2> QED BY <1>msgs, <1>writes, <2>1
<1>7. CASE Unlock
  BY <1>all, <1>msgs, <1>7 DEF Unlock, broadcast
<1> QED BY <1>send, <1>3, <1>4, <1>quits, <1>5, <1>6, <1>7 DEF ServerNext, ServerActs

\* Who is present, before and after a step, and what is due.
LEMMA WhoCounts ==
    /\ \A c : c \in Present <=> c \in ToSet(client_metas) /\ cpc[c] \in Business
    /\ \A c : c \in Present' <=> c \in ToSet(client_metas') /\ cpc'[c] \in Business
    /\ Due = [c \in Clients |-> IF c \in Present THEN OrdersIn(s2c[c]) ELSE <<>>]
    /\ Due' = [c \in Clients |-> IF c \in Present' THEN OrdersIn(s2c'[c]) ELSE <<>>]
BY DEF Present, Due, Business

\* Whom the call under way has not reached, before and after a step.
LEMMA WhoComes ==
    /\ Coming = [c \in Clients |->
                   IF spc = "order" /\ c \in Present /\ \E k \in Indices : k >= j /\ c = Meta(k)
                   THEN <<n>> ELSE <<>>]
    /\ spc # "order" => Coming = [c \in Clients |-> <<>>]
    /\ spc' # "order" => Coming' = [c \in Clients |-> <<>>]
BY DEF Coming

\* A client takes only itself off the call under way.
LEMMA ComesStill ==
    ASSUME UNCHANGED serverVars
    PROVE  /\ Present' = Present => Coming' = Coming
           /\ \A c \in Clients : Present' = Present \ {c} => Coming' = [Coming EXCEPT ![c] = <<>>]
<1>1. /\ UNCHANGED <<spc, n, j, client_metas>>
      /\ Indices' = Indices /\ \A k : Meta(k)' = Meta(k)
  BY DEF serverVars, Indices, Meta
<1>2. Coming' = [d \in Clients |->
                   IF spc = "order" /\ d \in Present' /\ \E k \in Indices : k >= j /\ d = Meta(k)
                   THEN <<n>> ELSE <<>>]
  BY <1>1 DEF Coming
<1>3. Present' = Present => Coming' = Coming
  BY <1>2, WhoComes
<1>4. ASSUME NEW c \in Clients, Present' = Present \ {c}
      PROVE  Coming' = [Coming EXCEPT ![c] = <<>>]
  BY <1>2, <1>4, WhoComes
<1> QED BY <1>3, <1>4

\* Nobody at first.
LEMMA CallBegins ==
    ASSUME IndTypeOK, spc' = "order", j' = 0, UNCHANGED <<client_metas, Present>>
    PROVE  Coming' = [c \in Clients |-> IF c \in Present THEN <<n'>> ELSE <<>>]
<1>1. /\ \A k \in Indices : k >= 0
      /\ \A c \in Present : \E k \in Indices : c = Meta(k)
  BY MetaFacts, WhoCounts
<1>2. Indices' = Indices /\ \A k : Meta(k)' = Meta(k)
  BY DEF Indices, Meta
<1>3. \A c \in Clients : (\E k \in Indices' : k >= j' /\ c = Meta(k)') <=>
                         \E k \in Indices : c = Meta(k)
  BY <1>1, <1>2
<1>4. Coming' = [c \in Clients |->
                   IF spc' = "order" /\ c \in Present' /\ \E k \in Indices' : k >= j' /\ c = Meta(k)'
                   THEN <<n'>> ELSE <<>>]
  BY DEF Coming
<1> QED BY <1>1, <1>3, <1>4

\* When the orders begin.
LEMMA OrdersBegin ==
    ASSUME IndTypeOK, HeldOK, ServerNext, spc # "order", spc' = "order"
    PROVE  j' = 0 /\ UNCHANGED <<client_metas, s2c>>
<1>1. j \in Nat /\ client_metas \in Seq(Clients)
  BY DEF IndTypeOK, TypeOK, ServerTypeOK
<1>all. ASSUME NEW T, NEW buf, NEW pending, NEW next \in {"scan", "unlock", "closing"},
               WriteAll(T, buf, pending, next)
        PROVE  FALSE
  BY <1>all, WriteAllCases DEF WriteSucceeds, WriteKills
<1>2. CASE Pong \/ PongFails
  BY <1>2 DEF Pong, PongFails, NextExchange
<1>3. ASSUME NEW k \in Indices, Dispatch(k) PROVE j' = 0 /\ UNCHANGED <<client_metas, s2c>>
  <2>1. PICK buf \in Chunks(c2s[Meta(k)], srvSide[Meta(k)]) :
          \/ HandleHello(k, buf) \/ HandleGoodbye(k, buf)
          \/ HandleLock(k, buf)  \/ HandleUnlock(k, buf)
          \/ HandleWrite(k, buf) \/ HandleCountdown(k, buf)
          \/ Discard(k, buf)
    BY <1>3 DEF Dispatch
  <2>2. HandleCountdown(k, buf)
    BY <1>all, <2>1 DEF HandleHello, HandleGoodbye, HandleLock, HandleUnlock, HandleWrite,
       Discard, Relay, broadcast
  <2> QED BY <2>2 DEF HandleCountdown
<1>4. ~Send
  BY <1>1, SendCases DEF SendSucceeds, SendKills
<1>5. ~(Ping \/ Order)
  <2>1. ~Ping
    BY <1>1, WriteOneCases DEF Ping, WriteSucceeds, WriteKills
  <2> QED BY <2>1 DEF Order
<1>6. ~(Select \/ Accept \/ AcceptFails \/ OperatorMistypes \/ Exit \/ RecvThrows
        \/ OrderFaults \/ DispatchEnds \/ Erase)
  BY DEF Select, Accept, AcceptFails, Phase, OperatorMistypes, Exit, RecvThrows,
     OrderFaults, DispatchEnds, Erase
<1>7. ~(OperatorQuits \/ Unlock)
  BY <1>all DEF OperatorQuits, Unlock, broadcast
<1> QED BY <1>2, <1>3, <1>4, <1>5, <1>6, <1>7 DEF ServerNext, ServerActs

\* What an order adds to the clients' dues.
LEMMA OrderReaches ==
    ASSUME IndTypeOK, InLoop, JoinOK, Order
    PROVE  /\ spc = "order" /\ j \in Indices /\ j' = j + 1 /\ UNCHANGED <<client_metas, n>>
           /\ \/ spc' = "crashed" /\ s2c' = s2c
              \/ /\ spc' = IF j + 1 \in Indices THEN "order" ELSE "unlock"
                 /\ c2s' = c2s
                 /\ \A c \in Clients \ {Meta(j)} : s2c'[c] = s2c[c]
                 /\ Meta(j) \in Present =>
                        OrdersIn(s2c'[Meta(j)]) = Append(OrdersIn(s2c[Meta(j)]), n)
<1> DEFINE o == countdown_order_msg(n)
           next == IF j + 1 \in Indices THEN "order" ELSE "unlock"
<1>1. /\ spc = "order" /\ j \in Indices /\ j' = j + 1 /\ UNCHANGED <<client_metas, n>>
      /\ WriteOne(j, <<o>>, next)
  BY DEF Order, InLoop
<1>2. /\ NetworkTypeOK /\ j \in Nat
      /\ o \in Msg /\ o.type = "COUNTDOWN_ORDER" /\ o.n = n
  BY DEF IndTypeOK, TypeOK, ServerTypeOK, countdown_order_msg, Numbered, Msg, MsgTypes
<1> HIDE DEF o, next
<1>3. WriteSucceeds({j}, {}, <<o>>, c2s, next) \/ WriteKills({j}, {}, <<o>>, c2s)
  BY <1>1, <1>2, WriteOneCases
<1>4. CASE WriteKills({j}, {}, <<o>>, c2s)
  <2>1. spc' = "crashed" /\ s2c' = Written(s2c, srvSide, {}, <<o>>)
    BY <1>4 DEF WriteKills
  <2>2. s2c' = s2c
    BY <1>2, <2>1 DEF Written, NetworkTypeOK
  <2> QED BY <1>1, <2>1, <2>2
<1>5. CASE WriteSucceeds({j}, {}, <<o>>, c2s, next)
  <2>1. /\ spc' = next /\ c2s' = c2s
        /\ s2c' = Written(s2c, srvSide, Metas({j}), <<o>>) /\ Metas({j}) = {Meta(j)}
    BY <1>5 DEF WriteSucceeds, Metas
  <2>2. \A c \in Clients \ {Meta(j)} : s2c'[c] = s2c[c]
    BY <2>1 DEF Written
  <2>3. ASSUME Meta(j) \in Present
        PROVE  OrdersIn(s2c'[Meta(j)]) = Append(OrdersIn(s2c[Meta(j)]), n)
    <3>1. Meta(j) \in Clients /\ cpc[Meta(j)] \in Business
      BY <2>3, MetaFacts, WhoCounts
    <3>2. srvSide[Meta(j)] = "open"
      BY <3>1 DEF JoinOK, Live, Business
    <3>3. s2c'[Meta(j)] = s2c[Meta(j)] \o <<o>> /\ s2c[Meta(j)] \in Seq(Msg)
      BY <1>2, <2>1, <3>1, <3>2 DEF Written, NetworkTypeOK
    <3> QED BY <1>2, <3>3, OrdersInAppend DEF Counted
  <2> QED BY <1>1, <2>1, <2>2, <2>3 DEF next
<1> QED BY <1>3, <1>4, <1>5

\* And what it takes off the call under way.
LEMMA OrderComes ==
    ASSUME IndTypeOK, OnePlaceEach, InLoop, spc = "order", j' = j + 1,
           spc' = IF j + 1 \in Indices THEN "order" ELSE "unlock",
           UNCHANGED <<client_metas, n, Present>>
    PROVE  /\ Meta(j) \in Present => Coming[Meta(j)] = <<n>>
           /\ Meta(j) \notin Present => Coming[Meta(j)] = <<>>
           /\ Coming' = [Coming EXCEPT ![Meta(j)] = <<>>]
<1> DEFINE c == Meta(j)
<1>1. /\ j \in Indices /\ j \in Nat /\ c \in Clients
      /\ \A k \in Indices : k \in Nat /\ (c = Meta(k) => k = j)
      /\ j + 1 \in Indices \/ \A k \in Indices : ~(k >= j + 1)
  <2>1. j \in Indices
    BY DEF InLoop
  <2>2. Len(client_metas) \in Nat /\ j \in Nat
    BY <2>1, MetaFacts
  <2>3. j + 1 \in Indices \/ \A k \in Indices : ~(k >= j + 1)
    BY <2>2 DEF Indices
  <2> QED BY <2>1, <2>2, <2>3, MetaFacts
<1>2. /\ \A k \in Indices : k >= j + 1 => k >= j /\ k # j
      /\ \A k \in Indices : k >= j => k = j \/ k >= j + 1
      /\ j >= j
  BY <1>1
<1>3. Indices' = Indices /\ \A k : Meta(k)' = Meta(k)
  BY DEF Indices, Meta
<1>4. Coming' = [d \in Clients |->
                   IF spc' = "order" /\ d \in Present /\ \E k \in Indices : k >= j + 1 /\ d = Meta(k)
                   THEN <<n>> ELSE <<>>]
  BY <1>3 DEF Coming
<1>5. spc' # "order" => \A k \in Indices : ~(k >= j + 1)
  BY <1>1
<1> HIDE DEF c
<1>6. ASSUME NEW d \in Clients
      PROVE  Coming'[d] = IF d = c THEN <<>> ELSE Coming[d]
  <2>1. CASE d = c
    BY <1>1, <1>2, <1>4, <2>1
  <2>2. CASE d # c
    <3>1. (\E k \in Indices : k >= j /\ d = Meta(k)) <=>
          \E k \in Indices : k >= j + 1 /\ d = Meta(k)
      BY <1>2, <2>2 DEF c
    <3> QED BY <1>4, <1>5, <2>2, <3>1, WhoComes
  <2> QED BY <2>1, <2>2
<1>7. Coming' = [Coming EXCEPT ![c] = <<>>]
  BY <1>4, <1>6, WhoComes
<1>8. (c \in Present => Coming[c] = <<n>>) /\ (c \notin Present => Coming[c] = <<>>)
  BY <1>1, <1>2, WhoComes DEF c
<1> QED BY <1>7, <1>8 DEF c

\* The server erases only clients that count nothing down any more.
LEMMA ServerKeepsPresent ==
    ASSUME IndTypeOK, OnePlaceEach, InLoop, DispatchOK, LeftOK, ServerNext, ~Accept,
           UNCHANGED clientVars
    PROVE  Present' = Present
<1>1. cpc' = cpc /\ client_metas \in Seq(Clients)
  BY DEF clientVars, IndTypeOK, TypeOK, ServerTypeOK
<1>2. ToSet(client_metas') \subseteq ToSet(client_metas)
  BY ServerAppends
<1>3. \A c \in ToSet(client_metas) : c \in ToSet(client_metas') \/ cpc[c] \notin Business
  <2>1. CASE Erase
    <3> DEFINE L == Len(delete_idxs)
    <3>1. /\ L \in Nat \ {0}
          /\ ToSet(client_metas) \subseteq ToSet(client_metas') \cup {Meta(delete_idxs[L])}
      BY <2>1, EraseTakes
    <3>2. cpc[Meta(delete_idxs[L])] \in Departed
      BY <3>1 DEF LeftOK
    <3> QED BY <3>1, <3>2 DEF Departed, Business
  <2>2. CASE ~Erase
    <3>1. UNCHANGED client_metas
      BY <1>1, <2>2, SendCases DEF ServerNext, ServerActs, Select, AcceptFails, OperatorQuits,
         OperatorMistypes, Exit, RecvThrows, Dispatch, HandleHello, HandleGoodbye, HandleLock,
         HandleUnlock, HandleWrite, HandleCountdown, Discard, Ping, Pong, PongFails,
         OrderFaults, Order, Unlock, DispatchEnds
    <3> QED BY <3>1
  <2> QED BY <2>1, <2>2
<1> QED BY <1>1, <1>2, <1>3, WhoCounts

\* What accepting does to the places of the connections.
LEMMA AcceptPlaces ==
    ASSUME IndTypeOK, OnePlaceEach, Accept
    PROVE  LET c == Head(backlog) IN
           /\ c \in Clients /\ c \in ToSet(backlog) /\ c \notin ToSet(client_metas)
           /\ ToSet(client_metas') = ToSet(client_metas) \cup {c}
           /\ ToSet(backlog') = ToSet(backlog) \ {c}
           /\ UNCHANGED <<c2s, n>>
           /\ spc = "accept" /\ spc' \in {"stdin", "scan"}
<1>1. client_metas \in Seq(Clients) /\ backlog \in Seq(Clients) /\ backlog # <<>>
  BY DEF Accept, IndTypeOK, TypeOK, ServerTypeOK, NetworkTypeOK
<1>2. /\ Head(backlog) \in Clients /\ Head(backlog) \in ToSet(backlog)
      /\ ToSet(Tail(backlog)) = ToSet(backlog) \ {Head(backlog)}
  BY <1>1, TailDistinct, HeadTailProperties DEF OnePlaceEach
<1>3. Head(backlog) \notin ToSet(client_metas)
  BY <1>2 DEF OnePlaceEach
<1>4. ToSet(client_metas') = ToSet(client_metas) \cup {Head(backlog)}
  BY <1>1, <1>2, <1>3, AppendDistinct DEF Accept, OnePlaceEach
<1>5. UNCHANGED <<c2s, n>> /\ spc = "accept" /\ spc' \in {"stdin", "scan"}
  BY DEF Accept, Phase
<1> QED BY <1>2, <1>3, <1>4, <1>5 DEF Accept

\* Every step of the server is one of the coordination.
LEMMA ServerRefines ==
    ASSUME RecvMax = 1, IndTypeOK, OnePlaceEach, InLoop, JoinOK, DispatchOK, LeftOK,
           HeldOK, AskedOK, FreshOK, ServerNext, UNCHANGED clientVars
    PROVE  Abstract!Next
<1>1. /\ cpc' = cpc /\ obeyed' = obeyed /\ spc \notin Ended
      /\ Requested' \subseteq Requested
      /\ ToSet(client_metas) \subseteq Clients
  BY ServerAsks, ServerTraffic, MetaFacts DEF clientVars, Ended
<1>here. Present \subseteq Here
  BY <1>1, WhoCounts DEF Here, Ended, Business
<1>ends. ASSUME Present' = Present,
                \A c \in Present : OrdersIn(s2c'[c]) = OrdersIn(s2c[c]),
                spc = "order" => spc' \in Ended
         PROVE  Abstract!Next
  <2>1. Due' = Due
    BY <1>ends, WhoCounts
  <2>2. CASE spc' \in Ended
    <3>1. Coming' = [c \in Clients |-> <<>>]
      BY <2>2, WhoComes DEF Ended
    <3> QED BY <1>1, <1>ends, <2>1, <2>2, <3>1, Stopping
  <2>3. CASE spc' \notin Ended /\ spc' # "order"
    <3>1. Coming' = Coming
      BY <1>ends, <2>3, WhoComes
    <3> QED BY <1>1, <1>ends, <2>1, <2>3, <3>1, Losing
  <2>4. CASE spc' = "order"
    <3>1. spc # "order" /\ spc' \notin Ended
      BY <1>ends, <2>4 DEF Ended
    <3>2. j' = 0 /\ UNCHANGED <<client_metas, s2c>>
      BY <2>4, <3>1, OrdersBegin
    <3>3. n' \in Requested /\ n' \in Typable /\ n' >= 0
      <4>1. spc \in Underway => n >= 0
        BY DEF AskedOK
      <4>2. spc' \in Underway => n' >= 0
        BY <4>1, ServerAsks
      <4> QED BY <2>4, <3>1, <4>2, ServerAsks DEF Underway, AskedOK
    <3>4. Coming' = [c \in Clients |-> IF c \in Present THEN <<n'>> ELSE <<>>]
      BY <1>ends, <2>4, <3>2, CallBegins
    <3>5. Coming = [c \in Clients |-> <<>>]
      BY <3>1, WhoComes
    <3> QED BY <1>1, <1>ends, <2>1, <3>1, <3>3, <3>4, <3>5, Calling
  <2> QED BY <2>2, <2>3, <2>4
<1>only. ASSUME spc = "order", ~Order PROVE spc' \in Ended
  <2>1. Flowing
    BY <1>only DEF HeldOK
  <2>2. ServerActs
    BY <2>1 DEF ServerNext, Send
  <2>3. OrderFaults
    BY <1>only, <2>2 DEF ServerActs, Select, Accept, AcceptFails, OperatorQuits,
       OperatorMistypes, Exit, RecvThrows, Dispatch, HandleHello, HandleGoodbye, HandleLock,
       HandleUnlock, HandleWrite, HandleCountdown, Discard, Received, NextIndex, Ping, Pong,
       PongFails, Unlock, DispatchEnds, Erase
  <2> QED BY <2>3 DEF OrderFaults, Ended
<1>2. CASE Order
  <2>1. /\ spc = "order" /\ j \in Indices /\ j' = j + 1 /\ UNCHANGED <<client_metas, n>>
        /\ \/ spc' = "crashed" /\ s2c' = s2c
           \/ /\ spc' = IF j + 1 \in Indices THEN "order" ELSE "unlock"
              /\ c2s' = c2s
              /\ \A c \in Clients \ {Meta(j)} : s2c'[c] = s2c[c]
              /\ Meta(j) \in Present =>
                     OrdersIn(s2c'[Meta(j)]) = Append(OrdersIn(s2c[Meta(j)]), n)
    BY <1>2, OrderReaches
  <2>2. Present' = Present /\ Meta(j) \in Clients
    BY <1>2, <2>1, MetaFacts, ServerKeepsPresent DEF Accept
  <2>3. CASE spc' = "crashed" /\ s2c' = s2c
    BY <1>ends, <2>2, <2>3 DEF Ended
  <2>4. CASE /\ spc' = IF j + 1 \in Indices THEN "order" ELSE "unlock"
             /\ c2s' = c2s
             /\ \A c \in Clients \ {Meta(j)} : s2c'[c] = s2c[c]
             /\ Meta(j) \in Present =>
                    OrdersIn(s2c'[Meta(j)]) = Append(OrdersIn(s2c[Meta(j)]), n)
    <3>1. /\ Meta(j) \in Present => Coming[Meta(j)] = <<n>>
          /\ Meta(j) \notin Present => Coming[Meta(j)] = <<>>
          /\ Coming' = [Coming EXCEPT ![Meta(j)] = <<>>]
      BY <2>1, <2>2, <2>4, OrderComes
    <3>2. Requested' = Requested
      <4>1. spc \notin Rounds /\ spc' \notin Rounds /\ c2s' = c2s
        BY <2>1, <2>4 DEF Rounds
      <4>2. \A x : x \in Requested <=> x \in Requested'
        BY <4>1, WhoAsks
      <4> QED BY <4>2
    <3>3. spc' \notin Ended
      BY <2>4 DEF Ended
    <3>4. CASE Meta(j) \in Present
      <4>1. Due' = [Due EXCEPT ![Meta(j)] = Append(@, n)]
        BY <2>2, <2>4, <3>4, WhoCounts
      <4> QED BY <1>1, <2>2, <3>1, <3>2, <3>3, <3>4, <4>1, Reaching
    <3>5. CASE Meta(j) \notin Present
      <4>1. Due' = Due
        BY <2>2, <2>4, <3>5, WhoCounts
      <4>2. Coming' = Coming
        BY <3>1, <3>5, WhoComes
      <4> QED BY <1>1, <2>2, <3>2, <3>3, <4>1, <4>2, Losing
    <3> QED BY <3>4, <3>5
  <2> QED BY <2>1, <2>3, <2>4
<1>3. CASE Accept
  <2> DEFINE c == Head(backlog)
  <2>1. /\ c \in Clients /\ c \in ToSet(backlog) /\ c \notin ToSet(client_metas)
        /\ ToSet(client_metas') = ToSet(client_metas) \cup {c}
        /\ UNCHANGED <<c2s, n>>
        /\ spc = "accept" /\ spc' \in {"stdin", "scan"}
    BY <1>3, AcceptPlaces
  <2>2. cpc[c] \in Business => obeyed[c] = <<>> /\ OrdersIn(s2c[c]) = <<>>
    BY <2>1 DEF FreshOK, Here, Ended, Business
  <2> HIDE DEF c
  <2>3. \A d \in Here : OrdersIn(s2c'[d]) = OrdersIn(s2c[d])
    BY <1>3, NoOrderWritten DEF Accept, Order
  <2>none. Coming = [d \in Clients |-> <<>>] /\ Coming' = Coming
    BY <2>1, WhoComes
  <2>4. Requested' = Requested
    <3>1. spc \notin Rounds /\ spc' \notin Rounds /\ c2s' = c2s
      BY <2>1 DEF Rounds
    <3>2. \A x : x \in Requested <=> x \in Requested'
      BY <3>1, WhoAsks
    <3> QED BY <3>2
  <2>5. CASE cpc[c] \notin Business
    <3>1. Present' = Present
      BY <1>1, <2>1, <2>5, WhoCounts
    <3> QED BY <1>here, <1>ends, <2>1, <2>3, <3>1
  <2>6. CASE cpc[c] \in Business
    <3>1. Present' = Present \cup {c} /\ c \notin Present /\ c \in Here
      BY <1>1, <2>1, <2>6, WhoCounts DEF Here, Ended, Business
    <3>2. Due' = Due /\ Due[c] = <<>>
      BY <1>1, <1>here, <2>1, <2>2, <2>3, <2>6, <3>1, WhoCounts
    <3>3. spc' \notin Ended
      BY <2>1 DEF Ended
    <3> QED BY <1>1, <2>1, <2>2, <2>none, <2>4, <2>6, <3>1, <3>2, <3>3, Joining
  <2> QED BY <2>5, <2>6
<1>4. CASE ~Order /\ ~Accept
  <2>1. Present' = Present
    BY <1>4, ServerKeepsPresent
  <2>2. \A c \in Here : OrdersIn(s2c'[c]) = OrdersIn(s2c[c])
    BY <1>4, NoOrderWritten
  <2> QED BY <1>here, <1>ends, <1>only, <1>4, <2>1, <2>2
<1> QED BY <1>2, <1>3, <1>4

\* A client that is asked to count down goes back to its select loop.
LEMMA Obeys ==
    ASSUME IndTypeOK, NEW c \in Clients, ClientRuns(c) \/ UserActs(c)
    PROVE  obeyed' = obeyed \/ cpc'[c] = "select"
<1>1. CASE OnMessage(c)
  <2>1. PICK buf \in Chunks(s2c[c], cliSide[c]) :
          \/ OnShutdown(c, buf) \/ OnPing(c, buf) \/ OnPingInit(c, buf)
          \/ OnPeer(c, buf) \/ OnLock(c, buf) \/ OnOrder(c, buf)
          \/ OnOther(c, buf)
    BY <1>1, OnMessageRead
  <2>2. CASE OnOrder(c, buf)
    <3>1. cpc[c] = "select" /\ UNCHANGED cpc
      BY <2>2 DEF OnOrder, Gets
    <3> QED BY <3>1
  <2>3. CASE ~OnOrder(c, buf)
    BY <2>1, <2>3 DEF OnShutdown, OnPing, OnPingInit, OnPeer, OnLock, OnOther, clientVars
  <2> QED BY <2>2, <2>3
<1>2. CASE ~OnMessage(c)
  BY <1>2 DEF ClientRuns, UserActs, LockAtEnd, Leave, ClientRecvThrows, PingTurn, Connect,
     ConnectFails, StartTyping, FinishLine, CloseInput, Killed
<1> QED BY <1>1, <1>2

\* A client only gets into business by connecting.
LEMMA OnlyConnects ==
    ASSUME IndTypeOK, NEW c \in Clients, ClientRuns(c) \/ UserActs(c),
           cpc[c] \notin Business, cpc'[c] \in Business
    PROVE  Connect(c)
<1>1. StepOf(c) /\ cpc[c] \in ClientPCs
  BY ClientTraffic DEF IndTypeOK, TypeOK, ClientTypeOK
<1>2. cpc[c] # "off" => cpc[c] \in Departed
  BY <1>1 DEF ClientPCs, Business, Departed
<1>3. cpc[c] = "off"
  BY <1>1, <1>2 DEF StepOf, Business
<1> QED BY <1>1, <1>3 DEF StepOf, Fate, LivePCs, Business

\* Only a line that was typed asks for anything.
LEMMA ClientAsks ==
    ASSUME RecvMax = 1, IndTypeOK, NEW c \in Clients, ClientRuns(c) \/ UserActs(c),
           UNCHANGED serverVars
    PROVE  \/ Connect(c) /\ Requested' \subseteq Requested
           \/ Requested' = Requested
           \/ /\ cpc[c] = "typing" /\ cpc'[c] = "select"
              /\ UNCHANGED <<s2c, obeyed>>
              /\ \E x \in Typable : Requested' = Requested \cup {x}
<1> DEFINE Asks(x, S) == \E m \in S : m.type = "COUNTDOWN_N" /\ x = m.n
<1>1. /\ NetworkTypeOK /\ ClientTypeOK /\ c2s[c] \in Seq(Msg) /\ UNCHANGED <<spc, n>>
      /\ StepOf(c)
  BY ClientTraffic DEF IndTypeOK, TypeOK, NetworkTypeOK, serverVars
<1>2. \A d \in Clients \ {c} : c2s'[d] = c2s[d]
  BY <1>1 DEF StepOf, Apart
<1>3. /\ \A x : x \in Requested <=>
            \/ \E d \in Clients : Asks(x, ToSet(c2s[d]))
            \/ spc \in Rounds /\ x = n
      /\ \A x : x \in Requested' <=>
            \/ \E d \in Clients : Asks(x, ToSet(c2s'[d]))
            \/ spc \in Rounds /\ x = n
  BY <1>1, WhoAsks
<1> HIDE DEF Asks
\* The requests of the others are as they were.
<1>4. \A x : \/ \E d \in Clients \ {c} : Asks(x, ToSet(c2s[d]))
             \/ spc \in Rounds /\ x = n
             => x \in Requested /\ x \in Requested'
  BY <1>2, <1>3
<1>5. \A x : x \in Requested /\ (Asks(x, ToSet(c2s[c])) => Asks(x, ToSet(c2s'[c])))
                => x \in Requested'
  BY <1>3, <1>4
<1>6. \A x : x \in Requested' /\ (Asks(x, ToSet(c2s'[c])) => Asks(x, ToSet(c2s[c])))
                => x \in Requested
  BY <1>2, <1>3, <1>4
<1>7. ~FinishLine(c) /\ ~Killed(c) => cpc[c] # "typing"
  BY DEF ClientRuns, UserActs, LockAtEnd, Leave, ClientRecvThrows, OnMessage, OnShutdown,
     OnPing, OnPingInit, OnPeer, OnLock, OnOrder, OnOther, Gets, PingTurn, Connect,
     ConnectFails, StartTyping, CloseInput
<1>8. ~FinishLine(c) => \A x : Asks(x, ToSet(c2s'[c])) => Asks(x, ToSet(c2s[c]))
  <2> SUFFICES ASSUME ~FinishLine(c), NEW m \in ToSet(c2s'[c]), m.type = "COUNTDOWN_N"
               PROVE  m \in ToSet(c2s[c])
    BY DEF Asks
  <2>1. CASE Killed(c)
    BY <2>1 DEF Killed
  <2>2. CASE ~Killed(c)
    BY <1>1, <1>7, <2>2 DEF StepOf, Says
  <2> QED BY <2>1, <2>2
<1>9. ~Connect(c) => \A x : Asks(x, ToSet(c2s[c])) => Asks(x, ToSet(c2s'[c]))
  <2> SUFFICES ASSUME ~Connect(c) PROVE ToSet(c2s[c]) \subseteq ToSet(c2s'[c])
    BY DEF Asks
  <2>1. PICK buf \in Seq(Msg) : c2s'[c] = c2s[c] \o buf
    BY StaysSaid
  <2> QED BY <1>1, <2>1, Contents
<1>10. CASE FinishLine(c)
  <2>1. PICK line \in Script[c][typed[c] + 1] :
          LET buf == parse_cmdline(line, Nick[c]) IN
          IF buf = <<>>
          THEN /\ cpc' = [cpc EXCEPT ![c] = "select"]
               /\ UNCHANGED <<c2s, cliSide, s2c, srvSide>>
          ELSE Writes(c, buf, s2c[c],
                      IF classify(buf) = "GOODBYE" THEN "leaving" ELSE "select")
    BY <1>10 DEF FinishLine
  <2> DEFINE buf == parse_cmdline(line, Nick[c])
  <2>2. /\ buf \in Seq(Msg) /\ cpc[c] = "typing" /\ obeyed' = obeyed
        /\ \A m \in ToSet(buf) : /\ m.type = classify(buf)
                                 /\ m.type = "COUNTDOWN_N" => m.n = line.n
    BY <1>10, LineType, LineSays DEF FinishLine, IndTypeOK, LinesOwed
  <2>3. line.n \in Typable
    <3>1. Script[c] \in Seq(SUBSET Lines) /\ typed[c] \in Nat /\ typed[c] < Len(Script[c])
      BY <1>10, ClientAssumption DEF IndTypeOK, TypeOK, ClientTypeOK, LinesOwed, FinishLine
    <3>2. typed[c] + 1 \in DOMAIN Script[c]
      BY <3>1, LenProperties
    <3>3. Script[c][typed[c] + 1] \in ToSet(Script[c])
      BY <3>2 DEF ToSet
    <3> QED BY <3>3 DEF Typable
  <2>4. ~Connect(c)
    BY <2>2 DEF Connect
  <2> HIDE DEF buf
  <2>5. CASE c2s' = c2s
    <3>1. \A x : x \in Requested <=> x \in Requested'
      BY <1>5, <1>6, <2>5
    <3> QED BY <3>1
  <2>6. CASE c2s' # c2s
    <3>1. /\ Writes(c, buf, s2c[c], IF classify(buf) = "GOODBYE" THEN "leaving" ELSE "select")
          /\ cliSide[c] # "broken"
      BY <2>1, <2>6 DEF buf, Writes
    <3>2. /\ cpc'[c] = IF classify(buf) = "GOODBYE" THEN "leaving" ELSE "select"
          /\ s2c' = s2c
          /\ c2s'[c] \in {c2s[c], c2s[c] \o buf}
      BY <1>1, <3>1 DEF Writes, Written, NetworkTypeOK, ClientTypeOK
    <3>3. ToSet(c2s'[c]) \subseteq ToSet(c2s[c]) \cup ToSet(buf)
      BY <1>1, <2>2, <3>2, Contents
    <3>4. \A x : Asks(x, ToSet(c2s'[c])) =>
                    Asks(x, ToSet(c2s[c])) \/ (x = line.n /\ classify(buf) = "COUNTDOWN_N")
      BY <2>2, <3>3 DEF Asks
    <3>5. CASE line.n \in Requested' /\ classify(buf) = "COUNTDOWN_N"
      <4>1. \A x : x \in Requested' <=> x \in Requested \/ x = line.n
        BY <1>5, <1>6, <1>9, <2>4, <3>4, <3>5
      <4>2. Requested' = Requested \cup {line.n}
        BY <4>1
      <4> QED BY <2>2, <2>3, <3>2, <3>5, <4>2
    <3>6. CASE ~(line.n \in Requested' /\ classify(buf) = "COUNTDOWN_N")
      <4>1. \A x : x \in Requested' <=> x \in Requested
        BY <1>5, <1>6, <1>9, <2>4, <3>4, <3>6
      <4>2. Requested' = Requested
        BY <4>1
      <4> QED BY <4>2
    <3> QED BY <3>5, <3>6
  <2> QED BY <2>5, <2>6
<1>11. CASE Connect(c) /\ ~FinishLine(c)
  <2>1. \A x : x \in Requested' => x \in Requested
    BY <1>6, <1>8, <1>11
  <2> QED BY <1>11, <2>1
<1>12. CASE ~Connect(c) /\ ~FinishLine(c)
  <2>1. \A x : x \in Requested' <=> x \in Requested
    BY <1>5, <1>6, <1>8, <1>9, <1>12
  <2> QED BY <2>1
<1> QED BY <1>10, <1>11, <1>12

\* What follows one number.
LEMMA FirstNumber ==
    ASSUME NEW x \in Int, NEW s \in Seq(Int)
    PROVE  /\ <<x>> \o s # <<>>
           /\ Head(<<x>> \o s) = x
           /\ Tail(<<x>> \o s) = s
<1> DEFINE t == <<x>> \o s
<1>1. /\ <<x>> \in Seq(Int) /\ Len(<<x>>) = 1 /\ <<x>>[1] = x
      /\ Len(s) \in Nat
  BY LenProperties
<1>2. /\ t \in Seq(Int) /\ Len(t) = 1 + Len(s)
      /\ \A k \in 1..(1 + Len(s)) : t[k] = IF k <= 1 THEN <<x>>[k] ELSE s[k - 1]
  BY <1>1, ConcatProperties
<1> HIDE DEF t
<1>3. t # <<>>
  BY <1>1, <1>2, EmptySeq
<1>4. Head(t) = x
  BY <1>1, <1>2, <1>3, HeadTailProperties
<1>5. Tail(t) = s
  <2> DEFINE u == Tail(t)
  <2>1. u \in Seq(Int) /\ Len(u) = Len(s) /\ \A k \in 1..Len(s) : u[k] = t[k + 1]
    BY <1>1, <1>2, <1>3, HeadTailProperties
  <2> HIDE DEF u
  <2>2. \A k \in 1..Len(s) : k + 1 \in 1..(1 + Len(s)) /\ ~(k + 1 <= 1) /\ (k + 1) - 1 = k
    BY <1>1
  <2>3. \A k \in 1..Len(u) : u[k] = s[k]
    BY <1>2, <2>1, <2>2
  <2>4. u = s
    BY <2>1, <2>3, SeqEqual
  <2> QED BY <2>4 DEF u
<1> QED BY <1>3, <1>4, <1>5 DEF t

\* What a client in business does, that stays in business.
LEMMA BusinessRefines ==
    ASSUME RecvMax = 1, IndTypeOK, JoinOK, DeliverOK, PlacedOK, FreshOK,
           NEW c \in Clients, ClientRuns(c) \/ UserActs(c), UNCHANGED serverVars,
           cpc[c] \in Business, cpc'[c] \in Business
    PROVE  Abstract!Next
<1>1. /\ NetworkTypeOK /\ ClientTypeOK /\ s2c[c] \in Seq(Msg) /\ Expect(c) \in Int
      /\ UNCHANGED <<spc, client_metas>> /\ StepOf(c)
      /\ \A d \in Clients \ {c} : obeyed'[d] = obeyed[d]
      /\ ToSet(client_metas) \subseteq Clients
  <2>1. ci[c] \in Nat
    BY DEF IndTypeOK, TypeOK, ClientTypeOK
  <2> QED BY <2>1, ClientTraffic, ClientLocal, MetaFacts DEF IndTypeOK, TypeOK, NetworkTypeOK,
         serverVars, Expect, DeliverOK
<1>2. Present' = Present
  BY <1>1, WhoCounts DEF StepOf, Apart
<1>3. \A d \in Clients \ {c} : s2c'[d] = s2c[d]
  BY <1>1 DEF StepOf, Apart
<1>4. obeyed' \in [Clients -> Seq(Int)] /\ obeyed \in [Clients -> Seq(Int)]
  BY NextKeepsTypes DEF Next, ClientNext, IndTypeOK, TypeOK, ClientTypeOK
<1>same. ASSUME OrdersIn(s2c'[c]) = OrdersIn(s2c[c]), obeyed'[c] = obeyed[c],
                Requested' = Requested \/ \E x \in Typable : Requested' = Requested \cup {x}
         PROVE  Abstract!Next
  <2>1. Due' = Due
    BY <1>1, <1>2, <1>3, <1>same, WhoCounts
  <2>2. obeyed' = obeyed
    BY <1>1, <1>4, <1>same
  <2> QED BY <1>1, <1>2, <1>same, <2>1, <2>2, ComesStill, Losing, Asking
<1>5. CASE \E x \in Typable : Requested' = Requested \cup {x} /\ UNCHANGED <<s2c, obeyed>>
  BY <1>5, <1>same
<1>6. CASE Requested' = Requested
  <2>1. ReadsOn(c)
    <3>1. c \in Here /\ cpc'[c] \notin Ended
      BY DEF Here, Ended, Business
    <3> QED BY <3>1, ClientReadsOn
  <2>2. CASE s2c'[c] = s2c[c] /\ obeyed'[c] = obeyed[c]
    BY <1>6, <1>same, <2>2
  <2>3. CASE /\ s2c[c] # <<>> /\ s2c'[c] = Tail(s2c[c])
             /\ obeyed'[c] = Counted(obeyed[c], Head(s2c[c]))
    <3> DEFINE m == Head(s2c[c])
               rest == Tail(s2c[c])
    <3>1. m \in Msg /\ m.n \in Int /\ rest \in Seq(Msg) /\ OrdersIn(rest) \in Seq(Int)
      <4>1. m \in Msg /\ rest \in Seq(Msg)
        BY <1>1, <2>3, HeadTailProperties
      <4> HIDE DEF m, rest
      <4> QED BY <4>1, OrdersInType DEF Msg
    <3>2. OrdersIn(s2c[c]) = IF m.type = "COUNTDOWN_ORDER"
                             THEN <<m.n>> \o OrdersIn(rest) ELSE OrdersIn(rest)
      BY <1>1, <2>3, OrdersInTail
    <3>3. s2c'[c] = rest /\ obeyed'[c] = Counted(obeyed[c], m)
      BY <2>3
    <3> HIDE DEF m, rest
    <3>4. CASE m.type # "COUNTDOWN_ORDER"
      BY <1>6, <1>same, <3>2, <3>3, <3>4 DEF Counted
    <3>5. CASE m.type = "COUNTDOWN_ORDER"
      <4>1. /\ OrdersIn(s2c[c]) # <<>> /\ Head(OrdersIn(s2c[c])) = m.n
            /\ Tail(OrdersIn(s2c[c])) = OrdersIn(rest)
        BY <3>1, <3>2, <3>5, FirstNumber
      <4>2. c \in Present
        <5>1. c \notin ToSet(backlog)
          BY <4>1 DEF FreshOK, Here, Ended, Business
        <5> QED BY <5>1, WhoCounts DEF PlacedOK
      <4>3. Due[c] = OrdersIn(s2c[c])
        BY <4>2, WhoCounts
      <4>4. Due' = [Due EXCEPT ![c] = Tail(@)]
        BY <1>1, <1>2, <1>3, <3>3, <4>1, <4>2, <4>3, WhoCounts
      <4>5. obeyed' = [obeyed EXCEPT ![c] = Append(@, Head(Due[c]))]
        BY <1>1, <1>4, <3>3, <3>5, <4>1, <4>3 DEF Counted
      <4> QED BY <1>1, <1>2, <1>6, <4>1, <4>2, <4>3, <4>4, <4>5, ComesStill, Counting
    <3> QED BY <3>4, <3>5
  <2> QED BY <2>1, <2>2, <2>3 DEF ReadsOn
<1>7. ~Connect(c)
  BY DEF Connect, Business
<1> QED BY <1>5, <1>6, <1>7, ClientAsks

\* Every step of a client is one of the coordination.
LEMMA ClientRefines ==
    ASSUME RecvMax = 1, IndTypeOK, OnePlaceEach, JoinOK, DeliverOK, PlacedOK, FreshOK,
           NEW c \in Clients, ClientRuns(c) \/ UserActs(c), UNCHANGED serverVars
    PROVE  Abstract!Next
<1>1. /\ UNCHANGED <<spc, client_metas>> /\ StepOf(c) /\ ToSet(client_metas) \subseteq Clients
      /\ cpc \in [Clients -> ClientPCs]
  BY ClientTraffic, MetaFacts DEF serverVars, IndTypeOK, TypeOK, ClientTypeOK
<1>2. \A d \in Clients \ {c} : cpc'[d] = cpc[d] /\ s2c'[d] = s2c[d]
  BY <1>1 DEF StepOf, Apart
<1>3. CASE cpc'[c] \notin Business
  <2>1. obeyed' = obeyed
    BY <1>3, Obeys DEF Business
  <2>2. Requested' \subseteq Requested /\ (Requested' = Requested \/ Connect(c))
    BY <1>3, ClientAsks DEF Business
  <2>3. Present' = Present \ {c}
    BY <1>1, <1>2, <1>3, WhoCounts
  <2>4. CASE c \in Present
    <3>1. Due' = [Due EXCEPT ![c] = <<>>]
      BY <1>1, <1>2, <2>3, WhoCounts
    <3>2. ~Connect(c)
      BY <2>4, WhoCounts DEF Connect, Business
    <3>3. Coming' = [Coming EXCEPT ![c] = <<>>]
      BY <2>3, ComesStill
    <3> QED BY <1>1, <2>1, <2>2, <2>3, <2>4, <3>1, <3>2, <3>3, Leaving
  <2>5. CASE c \notin Present
    <3>1. Due' = Due
      BY <1>1, <1>2, <2>3, <2>5, WhoCounts
    <3>2. Present' = Present /\ Coming' = Coming
      BY <2>3, <2>5, ComesStill
    <3> QED BY <1>1, <2>1, <2>2, <3>1, <3>2, Losing
  <2> QED BY <2>4, <2>5
<1>4. CASE cpc'[c] \in Business /\ cpc[c] \notin Business
  <2>1. Connect(c)
    BY <1>4, OnlyConnects
  <2>2. c \notin ToSet(client_metas)
    BY <2>1 DEF Connect, OnePlaceEach
  <2>3. Present' = Present /\ Due' = Due
    BY <1>1, <1>2, <2>2, WhoCounts
  <2>4. obeyed' = obeyed /\ Requested' \subseteq Requested
    <3>1. cpc[c] # "typing"
      BY <2>1 DEF Connect
    <3> QED BY <2>1, <3>1, ClientAsks DEF Connect
  <2> QED BY <1>1, <2>3, <2>4, ComesStill, Losing
<1>5. CASE cpc'[c] \in Business /\ cpc[c] \in Business
  BY <1>5, BusinessRefines
<1> QED BY <1>3, <1>4, <1>5

-----------------------------------------------------------------------------
(* Why there is nothing else to ask for, to place or to owe *)

LEMMA ServerKeepsCoordination ==
    ASSUME RecvMax = 1, IndTypeOK, OnePlaceEach, InLoop, JoinOK, DispatchOK, LeftOK, HeldOK,
           AskedOK, PlacedOK, FreshOK, ServerNext, UNCHANGED clientVars
    PROVE  AskedOK' /\ PlacedOK' /\ FreshOK'
<1>1. cpc' = cpc /\ obeyed' = obeyed /\ Here' = Here
  BY DEF clientVars, Here
<1>2. AskedOK'
  BY ServerAsks DEF AskedOK, Typable
<1>3. CASE Accept
  <2> DEFINE a == Head(backlog)
  <2>1. /\ a \in ToSet(backlog)
        /\ ToSet(client_metas') = ToSet(client_metas) \cup {a}
        /\ ToSet(backlog') = ToSet(backlog) \ {a}
    BY <1>3, AcceptPlaces
  <2> HIDE DEF a
  <2>2. \A c \in Here : OrdersIn(s2c'[c]) = OrdersIn(s2c[c])
    BY <1>3, NoOrderWritten DEF Accept, Order
  <2>3. PlacedOK'
    BY <1>1, <2>1 DEF PlacedOK
  <2>4. FreshOK'
    BY <1>1, <2>1, <2>2 DEF FreshOK
  <2> QED BY <1>2, <2>3, <2>4
<1>4. CASE ~Accept
  <2>1. Present' = Present
    BY <1>4, ServerKeepsPresent
  <2>2. backlog' = backlog
    BY <1>4 DEF ServerNext, ServerActs, Send, Select, AcceptFails, OperatorQuits,
       OperatorMistypes, Exit, RecvThrows, Dispatch, HandleHello, HandleGoodbye, HandleLock,
       HandleUnlock, HandleWrite, HandleCountdown, Discard, Ping, Pong, PongFails,
       OrderFaults, Order, Unlock, DispatchEnds, Erase, netVars
  <2>3. PlacedOK'
    BY <1>1, <2>1, <2>2, WhoCounts DEF PlacedOK
  <2>4. \A c \in Here : cpc[c] = "off" \/ c \in ToSet(backlog) =>
                          OrdersIn(s2c'[c]) = OrdersIn(s2c[c])
    <3>1. CASE ~Order
      BY <3>1, NoOrderWritten
    <3>2. CASE Order
      <4>1. \A c \in Clients : cpc[c] = "off" \/ c \in ToSet(backlog) =>
                                  c \notin ToSet(client_metas)
        BY DEF OnePlaceEach
      <4>2. j \in Indices /\ Meta(j) \in ToSet(client_metas)
        BY <3>2, MetaFacts, OrderReaches
      <4>3. \A c \in Clients \ {Meta(j)} : s2c'[c] = s2c[c]
        BY <3>2, OrderReaches
      <4> QED BY <4>1, <4>2, <4>3 DEF Here
    <3> QED BY <3>1, <3>2
  <2>5. FreshOK'
    BY <1>1, <2>2, <2>4 DEF FreshOK
  <2> QED BY <1>2, <2>3, <2>5
<1> QED BY <1>3, <1>4

LEMMA ClientKeepsCoordination ==
    ASSUME RecvMax = 1, IndTypeOK, OnePlaceEach, JoinOK, DeliverOK, AskedOK, PlacedOK,
           FreshOK, NEW c \in Clients, ClientRuns(c) \/ UserActs(c), UNCHANGED serverVars
    PROVE  AskedOK' /\ PlacedOK' /\ FreshOK'
<1>1. /\ UNCHANGED <<spc, n, client_metas>> /\ StepOf(c) /\ NetworkTypeOK /\ ClientTypeOK
      /\ s2c[c] \in Seq(Msg)
      /\ \A d \in Clients \ {c} : obeyed'[d] = obeyed[d]
  BY ClientTraffic, ClientLocal DEF serverVars, IndTypeOK, TypeOK, NetworkTypeOK, DeliverOK
<1>2. \A d \in Clients \ {c} : cpc'[d] = cpc[d] /\ s2c'[d] = s2c[d]
  BY <1>1 DEF StepOf, Apart
<1>3. AskedOK'
  <2>1. Requested' \subseteq Requested \cup Typable
    BY ClientAsks
  <2> QED BY <1>1, <2>1 DEF AskedOK, Typable
<1>4. backlog' = backlog \/ (Connect(c) /\ ToSet(backlog') = ToSet(backlog) \cup {c})
  <2>1. CASE Connect(c)
    <3>1. backlog \in Seq(Clients) /\ IsInjective(backlog) /\ c \notin ToSet(backlog)
      BY <1>1, <2>1 DEF NetworkTypeOK, OnePlaceEach, Connect
    <3> QED BY <2>1, <3>1, AppendDistinct DEF Connect
  <2>2. CASE ~Connect(c)
    <3>1. cpc[c] = "off" => cpc'[c] \notin Business
      BY <2>2, OnlyConnects DEF Business
    <3>2. cpc[c] = "off" => ConnectFails(c)
      BY <2>2 DEF ClientRuns, UserActs, LockAtEnd, Leave, ClientRecvThrows, OnMessage,
         OnShutdown, OnPing, OnPingInit, OnPeer, OnLock, OnOrder, OnOther, Gets, PingTurn,
         StartTyping, FinishLine, CloseInput, Killed, Live
    <3> QED BY <3>2, ClientStepFacts DEF ConnectFails, netVars
  <2> QED BY <2>1, <2>2
<1>5. PlacedOK'
  <2> SUFFICES ASSUME NEW d \in Clients, cpc'[d] \in Business
               PROVE  d \in ToSet(client_metas) \cup ToSet(backlog')
    BY <1>1 DEF PlacedOK
  <2>1. CASE cpc[d] \in Business
    BY <1>4, <2>1 DEF PlacedOK
  <2>2. CASE cpc[d] \notin Business
    <3>1. Connect(c) /\ d = c
      BY <1>2, <2>2, OnlyConnects
    <3>2. ToSet(backlog') = ToSet(backlog) \cup {c}
      <4>1. cpc[c] = "off" /\ backlog' = Append(backlog, c)
        BY <3>1 DEF Connect
      <4>2. backlog \in Seq(Clients) /\ IsInjective(backlog) /\ c \notin ToSet(backlog)
        BY <1>1, <4>1 DEF NetworkTypeOK, OnePlaceEach
      <4> QED BY <4>1, <4>2, AppendDistinct
    <3> QED BY <3>1, <3>2
  <2> QED BY <2>1, <2>2
<1>6. FreshOK'
  <2> SUFFICES ASSUME NEW d \in Clients, cpc'[d] \notin Ended,
                      cpc'[d] = "off" \/ d \in ToSet(backlog')
               PROVE  obeyed'[d] = <<>> /\ OrdersIn(s2c'[d]) = <<>>
    BY DEF FreshOK, Here, Ended
  <2>1. CASE d # c
    <3>1. cpc[d] = "off" \/ d \in ToSet(backlog)
      BY <1>2, <1>4, <2>1
    <3> QED BY <1>1, <1>2, <2>1, <3>1 DEF FreshOK, Here
  <2>2. CASE d = c /\ Connect(c)
    <3>1. cpc[c] = "off" /\ s2c' = s2c /\ obeyed' = obeyed
      BY <2>2 DEF Connect
    <3> QED BY <2>2, <3>1 DEF FreshOK, Here, Ended
  <2>3. CASE d = c /\ ~Connect(c)
    <3>1. cpc[c] \notin Ended /\ cpc'[c] # "off"
      BY <1>1, <2>3 DEF StepOf, Fate, Departed, Ended, LivePCs
    <3>2. c \in Here /\ c \in ToSet(backlog)
      BY <1>4, <2>3, <3>1 DEF Here
    <3>3. obeyed[c] = <<>> /\ OrdersIn(s2c[c]) = <<>>
      BY <3>2 DEF FreshOK
    <3>4. ReadsOn(c)
      BY <2>3, <3>2, ClientReadsOn
    <3>5. CASE s2c'[c] = s2c[c] /\ obeyed'[c] = obeyed[c]
      BY <2>3, <3>3, <3>5
    <3>6. CASE /\ s2c[c] # <<>> /\ s2c'[c] = Tail(s2c[c])
               /\ obeyed'[c] = Counted(obeyed[c], Head(s2c[c]))
      <4> DEFINE m == Head(s2c[c])
                 rest == Tail(s2c[c])
      <4>1. m \in Msg /\ rest \in Seq(Msg)
        BY <1>1, <3>6, HeadTailProperties
      <4>2. OrdersIn(s2c[c]) = IF m.type = "COUNTDOWN_ORDER"
                               THEN <<m.n>> \o OrdersIn(rest) ELSE OrdersIn(rest)
        BY <1>1, <3>6, OrdersInTail
      <4>3. s2c'[c] = rest /\ obeyed'[c] = Counted(obeyed[c], m)
        BY <3>6
      <4> HIDE DEF m, rest
      <4>4. m.n \in Int /\ OrdersIn(rest) \in Seq(Int)
        BY <4>1, OrdersInType DEF Msg
      <4>5. m.type # "COUNTDOWN_ORDER"
        BY <3>3, <4>2, <4>4, FirstNumber
      <4> QED BY <2>3, <3>3, <4>2, <4>3, <4>5 DEF Counted
    <3> QED BY <3>4, <3>5, <3>6 DEF ReadsOn
  <2> QED BY <2>1, <2>2, <2>3
<1> QED BY <1>3, <1>5, <1>6

\* Who has been asked and placed, and who has not been called.
LEMMA CoordinationInvariant ==
    ASSUME RecvMax = 1, FewClients
    PROVE  Spec => [](AskedOK /\ PlacedOK /\ FreshOK)
<1>1. Init => AskedOK /\ PlacedOK /\ FreshOK
  <2> SUFFICES ASSUME Init PROVE AskedOK /\ PlacedOK /\ FreshOK
    OBVIOUS
  <2>1. /\ spc = "select"
        /\ \A c \in Clients : /\ cpc[c] = "off" /\ s2c[c] = <<>> /\ c2s[c] = <<>>
                              /\ obeyed[c] = <<>>
    BY DEF Init, NetworkInit, ServerInit, ClientInit
  <2>2. Requested = {}
    <3>1. \A x : x \notin Requested
      BY <2>1, WhoAsks, Contents DEF Rounds
    <3> QED BY <3>1
  <2>3. AskedOK
    BY <2>1, <2>2 DEF AskedOK, Underway
  <2>4. PlacedOK
    BY <2>1 DEF PlacedOK, Business
  <2>5. FreshOK
    BY <2>1, OrdersInType DEF FreshOK, Here
  <2> QED BY <2>3, <2>4, <2>5
<1>2. /\ IndTypeOK /\ OnePlaceEach /\ InLoop /\ JoinOK /\ HeldOK /\ DeliverOK
      /\ DispatchOK /\ LeftOK /\ AskedOK /\ PlacedOK /\ FreshOK /\ [Next]_vars
      => AskedOK' /\ PlacedOK' /\ FreshOK'
  <2> SUFFICES ASSUME IndTypeOK, OnePlaceEach, InLoop, JoinOK, HeldOK, DeliverOK,
                      DispatchOK, LeftOK, AskedOK, PlacedOK, FreshOK, [Next]_vars
               PROVE  AskedOK' /\ PlacedOK' /\ FreshOK'
    OBVIOUS
  <2>1. CASE ServerNext /\ UNCHANGED clientVars
    BY <2>1, ServerKeepsCoordination
  <2>2. CASE ClientNext /\ UNCHANGED serverVars
    BY <2>2, ClientKeepsCoordination DEF ClientNext
  <2>3. CASE UNCHANGED vars
    BY <2>3 DEF vars, netVars, serverVars, clientVars, AskedOK, PlacedOK, FreshOK, Here,
       Requested, Typable, Underway
  <2> QED BY <2>1, <2>2, <2>3 DEF Next
<1> QED BY <1>1, <1>2, DeliveryInvariant, LeftInvariant, PTL DEF Spec

\* When every message arrives alone and there are at most PingN + 1 clients, the
\* server, its clients and the network are a way to run Coordination: whatever
\* the locks, the pings, the full streams and the dying processes do, every
\* countdown that is called was asked for by somebody and is meant for everyone
\* present; it reaches them one after the other before anything else is called,
\* and each counts down what has reached it in the order of the calls.
THEOREM ProgramCoordinates ==
    ASSUME RecvMax = 1, FewClients
    PROVE  Spec => Implements
<1>1. Init => Abstract!Init
  <2> SUFFICES ASSUME Init PROVE Abstract!Init
    OBVIOUS
  <2>1. /\ spc = "select"
        /\ \A c \in Clients : /\ cpc[c] = "off" /\ s2c[c] = <<>> /\ c2s[c] = <<>>
        /\ obeyed = [c \in Clients |-> <<>>]
    BY DEF Init, NetworkInit, ServerInit, ClientInit
  <2>2. Requested = {}
    <3>1. \A x : x \notin Requested
      BY <2>1, WhoAsks, Contents DEF Rounds
    <3> QED BY <3>1
  <2>3. Present \subseteq Clients
    BY InitIsTyped, MetaFacts, WhoCounts
  <2>4. Due = [c \in Clients |-> <<>>]
    BY <2>1, OrdersInType, WhoCounts
  <2>5. Coming = [c \in Clients |-> <<>>]
    BY <2>1, WhoComes
  <2> QED BY <2>1, <2>2, <2>3, <2>4, <2>5 DEF Abstract!Init, Abstract!NobodyCalled
<1>2. /\ IndTypeOK /\ OnePlaceEach /\ InLoop /\ JoinOK /\ HeldOK /\ DeliverOK
      /\ DispatchOK /\ LeftOK /\ AskedOK /\ PlacedOK /\ FreshOK /\ [Next]_vars
      => [Abstract!Next]_(Abstract!vars)
  <2> SUFFICES ASSUME IndTypeOK, OnePlaceEach, InLoop, JoinOK, HeldOK, DeliverOK,
                      DispatchOK, LeftOK, AskedOK, PlacedOK, FreshOK, [Next]_vars
               PROVE  [Abstract!Next]_(Abstract!vars)
    OBVIOUS
  <2>1. CASE ServerNext /\ UNCHANGED clientVars
    BY <2>1, ServerRefines
  <2>2. CASE ClientNext /\ UNCHANGED serverVars
    BY <2>2, ClientRefines DEF ClientNext
  <2>3. CASE UNCHANGED vars
    BY <2>3 DEF vars, netVars, serverVars, clientVars, Abstract!vars, Requested, Present, Due,
       Coming, Indices, Meta
  <2> QED BY <2>1, <2>2, <2>3 DEF Next
<1> QED
  BY <1>1, <1>2, DeliveryInvariant, LeftInvariant, CoordinationInvariant, PTL
     DEF Spec, Implements, Abstract!Spec

-----------------------------------------------------------------------------
(* What the program promises *)

\* The same coordination, with what is proved of it.
Proved == INSTANCE CoordinationProofs WITH
    Numbers <- Typable,
    asked   <- Requested,
    present <- Present,
    coming  <- Coming,
    owed    <- Due,
    done    <- obeyed,
    up      <- spc \notin {"exited", "crashed"}

\* When every message arrives alone and there are at most PingN + 1 clients, the
\* clients of a living server count down together: of any two in business, what
\* one has counted down, is about to or is still to be ordered in the order loop
\* is an ending of what the other has.
THEOREM ProgramAgrees ==
    ASSUME RecvMax = 1, FewClients
    PROVE  Spec => []CountdownsAgree
<1>1. Abstract!Init => Proved!Init
  BY DEF Abstract!Init, Proved!Init, Abstract!NobodyCalled, Proved!NobodyCalled
<1>2. [Abstract!Next]_(Abstract!vars) => [Proved!Next]_(Proved!vars)
  BY DEF Abstract!Next, Proved!Next, Abstract!vars, Proved!vars, Abstract!Ask, Proved!Ask,
     Abstract!Call, Proved!Call, Abstract!Reach, Proved!Reach, Abstract!Join, Proved!Join,
     Abstract!NobodyCalled, Proved!NobodyCalled,
     Abstract!Count, Proved!Count, Abstract!Leave, Proved!Leave, Abstract!Lose, Proved!Lose,
     Abstract!Stop, Proved!Stop
<1>3. Proved!Agreement => CountdownsAgree
  BY DEF CountdownsAgree, Abstract!Agreement, Proved!Agreement, Abstract!IsLateView,
     Proved!IsLateView, Abstract!Promised, Proved!Promised
<1> QED
  BY <1>1, <1>2, <1>3, Proved!AllAgree, ProgramCoordinates, PTL
     DEF Implements, Abstract!Spec, Proved!Spec

-----------------------------------------------------------------------------
(* One line at a time *)

Members == ToSet(client_metas)

\* A user in the middle of a line, or one who has quit.
Talk == {"typing"} \cup Departed

\* Connections that will be accepted.
Arriving == IF Held < MaxSocks THEN ToSet(backlog) ELSE {}

\* Who has to be dealt with: a connection to accept, a client with a line begun
\* or something to say of its own accord, or one that has gone.
Busy == Arriving \cup
        {c \in Members : cpc[c] \in Talk \/ \E m \in ToSet(c2s[c]) : m.type # "PING"}

\* Clients the server has read a goodbye from in this pass.
ToErase == {Meta(delete_idxs[a]) : a \in 1..Len(delete_idxs)}

\* Messages of these types come last in the stream.
OnlyLast(stream, types) ==
    \A k \in 1..Len(stream) : stream[k].type \in types => k = Len(stream)

NotLocks == MsgTypes \ {"PEER_LOCK"}

\* What a member may have on its way to the server: locks, and behind them one
\* message that says what it is doing.
SaysOne(c, m) ==
    \/ m.type = "PEER_LOCK"
    \/ /\ m = hello_msg(Nick[c])
       /\ c2s[c] = <<m>> /\ cpc[c] = "select" /\ c = Meta(Len(client_metas) - 1)
    \/ m = goodbye_msg(Nick[c]) /\ cpc[c] \in Departed
    \/ m.type \in {"WRITE_ARBITRARY", "COUNTDOWN_N"} /\ cpc[c] \notin Talk
    \/ /\ m.type = "PING" /\ m.n = i /\ c2s[c] = <<m>>
       /\ spc = "pong" /\ c = Meta(j)

SaysOK(c) ==
    /\ OnlyLast(c2s[c], NotLocks)
    /\ \A m \in ToSet(c2s[c]) : SaysOne(c, m)
    /\ cpc[c] \in Departed =>
            c \in ToErase \/ \E m \in ToSet(c2s[c]) : m.type = "GOODBYE"
    /\ cpc[c] \in Talk => s2c[c] = <<>>
    /\ cpc[c] = "exited" => srvSide[c] = "fin"

\* What may be on its way to a client: a ping only while the server waits for
\* the answer.
HearsOne(c, m) ==
    /\ m.type # "SHUTDOWN"
    /\ m.type = "PING" => /\ m.n = i /\ c2s[c] = <<>>
                          /\ spc = "pong" /\ c = Meta(j)

HearsOK(c) ==
    /\ OnlyLast(s2c[c], {"PING"})
    /\ \A m \in ToSet(s2c[c]) : HearsOne(c, m)

\* Clients that ever connected.
Connected == {c \in Clients : srvSide[c] # "none"}

\* A connection that waits, and who has not connected.
WaitOK ==
    /\ \A c \in ToSet(backlog) : s2c[c] = <<>>
    /\ \A c \in Arriving : cpc[c] = "select" /\ c2s[c] = <<hello_msg(Nick[c])>>
    /\ \A c \in Clients : cpc[c] = "off" => srvSide[c] = "none"
    /\ IsFiniteSet(Connected)

\* Who is to be erased has gone, and the dispatch loop is past it.
EraseOK ==
    /\ spc = "erase" => delete_idxs # <<>>
    /\ delete_idxs # <<>> => \E k \in Indices :
            /\ delete_idxs = <<k>>
            /\ cpc[Meta(k)] \in Departed
            /\ spc = "erase" \/ (spc = "scan" /\ k < i)

\* The round trips of this countdown.
RoundsOK ==
    /\ spc \in {"ping", "pong"} =>
        /\ i < PingN
        /\ \A k \in Indices : rtts[Meta(k)] = rtts0[Meta(k)] + IF k < j THEN i + 1 ELSE i
    /\ spc = "order" => \A k \in Indices : rtts[Meta(k)] = rtts0[Meta(k)] + PingN

\* A countdown and the unlock after a line are for everybody.
ForAll == {"ping", "pong", "order", "unlock"}

Polite ==
    /\ \A c, d \in Busy : c = d
    /\ spc \in ForAll => Busy = {}
    /\ \A c \in Clients : cpc[c] \notin {"deaf", "crashed"} /\ HearsOK(c)
    /\ \A c \in Members : SaysOK(c)
    /\ WaitOK
    /\ EraseOK
    /\ RoundsOK

\* A client the server holds something back from listens; and when the operator
\* has quit, the server has not written to a socket it has still to write to.
WritesOn ==
    \A c \in Clients : unsent[c] > 0 =>
        IF spc = "closing" THEN srvSide[c] # "broken" ELSE cpc[c] \in {"select", "pinging"}

Leaves == {"closing", "exited"}

TurnOK == spc # "crashed" /\ WritesOn /\ (spc \notin Leaves => Polite)

\* What is already proved of every behaviour of the program.
Known == IndTypeOK /\ OnePlaceEach /\ InLoop /\ JoinOK /\ HeldOK /\ DeliverOK

-----------------------------------------------------------------------------
(* Streams *)

\* What a stream consists of, and what a message at its end makes of it.
LEMMA StreamParts ==
    ASSUME NEW s \in Seq(Msg), NEW types
    PROVE  /\ s = <<>> <=> ToSet(s) = {}
           /\ s # <<>> => /\ Head(s) \in Msg /\ Tail(s) \in Seq(Msg)
                          /\ ToSet(s) = {Head(s)} \cup ToSet(Tail(s))
                          /\ OnlyLast(s, types) => OnlyLast(Tail(s), types)
                          /\ OnlyLast(s, types) /\ Head(s).type \in types => s = <<Head(s)>>
           /\ OnlyLast(<<>>, types)
           /\ \A m \in Msg : /\ s \o <<m>> \in Seq(Msg) /\ s \o <<m>> # <<>>
                             /\ ToSet(s \o <<m>>) = ToSet(s) \cup {m}
                             /\ s = <<>> => s \o <<m>> = <<m>>
                             /\ OnlyLast(<<m>>, types)
                             /\ (\A x \in ToSet(s) : x.type \notin types) =>
                                    OnlyLast(s \o <<m>>, types)
                             /\ OnlyLast(s, types) /\ m.type \notin types
                                /\ (\A x \in ToSet(s) : x.type \notin types) =>
                                    \A x \in ToSet(s \o <<m>>) : x.type \notin types
<1>1. /\ Len(s) \in Nat /\ DOMAIN s = 1..Len(s)
      /\ \A k \in 1..Len(s) : s[k] \in Msg
  BY LenProperties
<1>2. s = <<>> <=> ToSet(s) = {}
  <2>1. s # <<>> => Len(s) # 0
    BY EmptySeq
  <2>2. s # <<>> => 1 \in DOMAIN s
    BY <1>1, <2>1
  <2>3. s # <<>> => s[1] \in ToSet(s)
    BY <2>2 DEF ToSet
  <2> QED BY <2>3, Contents
<1>3. OnlyLast(<<>>, types) /\ \A m : OnlyLast(<<m>>, types)
  <2>1. Len(<<>>) = 0
    BY EmptySeq
  <2>2. \A m : Len(<<m>>) = 1
    OBVIOUS
  <2>3. \A k \in 1..1 : k = 1
    OBVIOUS
  <2>4. \A k \in 1..0 : FALSE
    OBVIOUS
  <2> QED BY <2>1, <2>2, <2>3, <2>4 DEF OnlyLast
<1>4. ASSUME s # <<>>
      PROVE  /\ Head(s) \in Msg /\ Tail(s) \in Seq(Msg)
             /\ ToSet(s) = {Head(s)} \cup ToSet(Tail(s))
             /\ OnlyLast(s, types) => OnlyLast(Tail(s), types)
             /\ OnlyLast(s, types) /\ Head(s).type \in types => s = <<Head(s)>>
  <2> DEFINE t == Tail(s)
             N == Len(s) - 1
  <2>1. /\ N \in Nat /\ t \in Seq(Msg) /\ Len(s) = N + 1 /\ Len(t) = N
        /\ \A k \in 1..N : t[k] = s[k + 1]
        /\ Head(s) = s[1] /\ s[1] \in Msg
        /\ DOMAIN s = 1..(N + 1) /\ DOMAIN t = 1..N
    BY <1>4, HeadTailProperties, EmptySeq, LenProperties
  <2> HIDE DEF t, N
  <2>2. ToSet(s) = {Head(s)} \cup ToSet(t)
    <3>1. \A k \in 1..(N + 1) : k = 1 \/ (k - 1 \in 1..N /\ (k - 1) + 1 = k)
      BY <2>1
    <3>2. \A k \in 1..N : k + 1 \in 1..(N + 1)
      BY <2>1
    <3>3. 1 \in 1..(N + 1)
      BY <2>1
    <3>4. ASSUME NEW k \in 1..(N + 1) PROVE s[k] \in {Head(s)} \cup ToSet(t)
      <4>1. CASE k = 1
        BY <2>1, <4>1
      <4>2. CASE k - 1 \in 1..N /\ (k - 1) + 1 = k
        <5>1. t[k - 1] = s[k]
          BY <2>1, <4>2
        <5> QED BY <2>1, <4>2, <5>1 DEF ToSet
      <4> QED BY <3>1, <4>1, <4>2
    <3>5. ASSUME NEW k \in 1..N PROVE t[k] \in ToSet(s)
      BY <2>1, <3>2, <3>5 DEF ToSet
    <3>6. Head(s) \in ToSet(s)
      BY <2>1, <3>3 DEF ToSet
    <3> QED BY <2>1, <3>4, <3>5, <3>6 DEF ToSet
  <2>3. OnlyLast(s, types) => OnlyLast(t, types)
    <3>1. \A k \in 1..N : k + 1 \in 1..(N + 1) /\ (k + 1 = N + 1 => k = N)
      BY <2>1
    <3> QED BY <2>1, <3>1 DEF OnlyLast
  <2>4. ASSUME OnlyLast(s, types), Head(s).type \in types PROVE s = <<Head(s)>>
    <3>1. 1 \in 1..(N + 1) /\ 1 = N + 1
      BY <2>1, <2>4 DEF OnlyLast
    <3>2. <<Head(s)>> \in Seq(Msg) /\ Len(<<Head(s)>>) = 1 /\ <<Head(s)>>[1] = Head(s)
      BY <2>1
    <3>3. Len(s) = Len(<<Head(s)>>) /\ \A k \in 1..Len(s) : s[k] = <<Head(s)>>[k]
      BY <2>1, <3>1, <3>2
    <3> HIDE DEF OnlyLast
    <3> QED BY <2>1, <3>2, <3>3, SeqEqual
  <2> QED BY <2>1, <2>2, <2>3, <2>4 DEF t
<1>5. ASSUME NEW m \in Msg
      PROVE  /\ s \o <<m>> \in Seq(Msg) /\ s \o <<m>> # <<>>
             /\ ToSet(s \o <<m>>) = ToSet(s) \cup {m}
             /\ s = <<>> => s \o <<m>> = <<m>>
             /\ (\A x \in ToSet(s) : x.type \notin types) => OnlyLast(s \o <<m>>, types)
  <2> DEFINE t == s \o <<m>>
             N == Len(s)
  <2>1. /\ <<m>> \in Seq(Msg) /\ Len(<<m>>) = 1 /\ N \in Nat /\ <<m>>[1] = m
    BY <1>1
  <2>2. /\ t \in Seq(Msg) /\ Len(t) = N + Len(<<m>>)
        /\ \A k \in 1..(N + Len(<<m>>)) : t[k] = IF k <= N THEN s[k] ELSE <<m>>[k - N]
    BY <2>1, ConcatProperties
  <2>3. ToSet(t) = ToSet(s) \cup {m} /\ (s = <<>> => t = <<m>>)
    <3>1. ToSet(t) = ToSet(s) \cup ToSet(<<m>>) /\ ToSet(<<m>>) = {m}
      BY <2>1, Contents
    <3>2. <<>> \o <<m>> = <<m>>
      BY <2>1, ConcatEmptySeq
    <3> QED BY <3>1, <3>2
  <2> HIDE DEF t
  <2>4. t # <<>>
    BY <2>3, Contents
  <2>5. ASSUME \A x \in ToSet(s) : x.type \notin types PROVE OnlyLast(t, types)
    <3>1. ASSUME NEW k \in 1..N PROVE t[k].type \notin types
      <4>1. k \in 1..(N + 1) /\ k <= N
        BY <2>1
      <4>2. t[k] = s[k]
        BY <2>1, <2>2, <4>1
      <4> QED BY <1>1, <2>5, <4>2 DEF ToSet
    <3>2. \A k \in 1..(N + 1) : k = N + 1 \/ k \in 1..N
      BY <2>1
    <3> QED BY <2>1, <2>2, <3>1, <3>2 DEF OnlyLast
  <2> QED BY <2>2, <2>3, <2>4, <2>5 DEF t
<1> HIDE DEF OnlyLast
<1>6. ASSUME NEW m \in Msg, m.type \notin types, \A x \in ToSet(s) : x.type \notin types
      PROVE  \A x \in ToSet(s \o <<m>>) : x.type \notin types
  BY <1>5, <1>6
<1> QED BY <1>2, <1>3, <1>4, <1>5, <1>6

-----------------------------------------------------------------------------
(* What a step of the server is, while users take turns *)

\* Types, and where everybody is.
LEMMA TurnFacts ==
    ASSUME Known, Polite, spc \notin Ended
    PROVE  /\ NetworkTypeOK /\ ServerTypeOK /\ ClientTypeOK
           /\ Members \subseteq Clients /\ Arriving \subseteq ToSet(backlog)
           /\ ToSet(backlog) \subseteq Clients /\ Members \cap ToSet(backlog) = {}
           /\ \A k \in Indices : Meta(k) \in Members
           /\ \A c \in Members : \E k \in Indices : c = Meta(k)
           /\ \A k, m \in Indices : Meta(k) = Meta(m) => k = m
           /\ \A c \in Members \ Busy :
                /\ cpc[c] \in {"select", "pinging"} /\ srvSide[c] = "open"
                /\ \A m \in ToSet(c2s[c]) : m.type = "PING" /\ SaysOne(c, m)
                /\ ~(spc = "pong" /\ c = Meta(j)) => c2s[c] = <<>>
           /\ \A c \in Members :
                /\ cpc[c] \in {"select", "typing", "pinging", "leaving", "exited"}
                /\ srvSide[c] = IF cpc[c] = "exited" THEN "fin" ELSE "open"
           /\ \A c \in Arriving : srvSide[c] = "open" /\ cliSide[c] = "open"
<1>1. /\ NetworkTypeOK /\ ServerTypeOK /\ ClientTypeOK
      /\ backlog \in Seq(Clients) /\ client_metas \in Seq(Clients)
  BY DEF Known, IndTypeOK, TypeOK, NetworkTypeOK, ServerTypeOK
<1>2. /\ Members \subseteq Clients /\ ToSet(backlog) \subseteq Clients
      /\ Arriving \subseteq ToSet(backlog) /\ Members \cap ToSet(backlog) = {}
  <2>1. ToSet(backlog) \subseteq Clients
    BY <1>1, LenProperties DEF ToSet
  <2> QED BY <2>1, MetaFacts DEF Known, Members, Arriving, OnePlaceEach
<1>3. /\ \A k \in Indices : Meta(k) \in Members
      /\ \A c \in Members : \E k \in Indices : c = Meta(k)
      /\ \A k, m \in Indices : Meta(k) = Meta(m) => k = m
  BY MetaFacts DEF Known, Members
<1>4. ASSUME NEW c \in Members
      PROVE  /\ cpc[c] \in {"select", "typing", "pinging", "leaving", "exited"}
             /\ srvSide[c] = IF cpc[c] = "exited" THEN "fin" ELSE "open"
  <2>1. c \in Clients /\ cpc[c] \in ClientPCs /\ cpc[c] \notin {"off", "deaf", "crashed"}
    BY <1>1, <1>2 DEF Known, OnePlaceEach, Polite, ClientTypeOK, Members
  <2>2. cpc[c] \in {"select", "typing", "pinging", "leaving", "exited"}
    BY <2>1 DEF ClientPCs
  <2>3. cpc[c] # "exited" => srvSide[c] = "open"
    BY <2>1, <2>2 DEF Known, JoinOK, Live
  <2> QED BY <2>2, <2>3 DEF Polite, SaysOK
<1>5. ASSUME NEW c \in Members \ Busy
      PROVE  /\ cpc[c] \in {"select", "pinging"} /\ srvSide[c] = "open"
             /\ \A m \in ToSet(c2s[c]) : m.type = "PING" /\ SaysOne(c, m)
             /\ ~(spc = "pong" /\ c = Meta(j)) => c2s[c] = <<>>
  <2>1. cpc[c] \notin Talk /\ \A m \in ToSet(c2s[c]) : m.type = "PING"
    BY DEF Busy
  <2>2. \A m \in ToSet(c2s[c]) : SaysOne(c, m)
    BY DEF Polite, SaysOK
  <2>3. \A m \in ToSet(c2s[c]) : spc = "pong" /\ c = Meta(j)
    <3> SUFFICES ASSUME NEW m \in ToSet(c2s[c]) PROVE spc = "pong" /\ c = Meta(j)
      OBVIOUS
    <3>1. m.type = "PING" /\ SaysOne(c, m)
      BY <2>1, <2>2
    <3>2. hello_msg(Nick[c]).type # "PING" /\ goodbye_msg(Nick[c]).type # "PING"
      BY DEF hello_msg, goodbye_msg, Named
    <3> QED BY <3>1, <3>2 DEF SaysOne
  <2>4. c2s[c] \in Seq(Msg)
    BY <1>1, <1>2 DEF NetworkTypeOK
  <2>5. ToSet(c2s[c]) = {} => c2s[c] = <<>>
    BY <2>4, StreamParts
  <2> QED BY <1>4, <2>1, <2>2, <2>3, <2>5 DEF Talk, Departed
<1>6. ASSUME NEW c \in Arriving PROVE srvSide[c] = "open" /\ cliSide[c] = "open"
  BY <1>2 DEF Polite, WaitOK, Known, JoinOK, Live
<1> QED BY <1>1, <1>2, <1>3, <1>4, <1>5, <1>6

\* A message to the clients C, all of whom are there.
Appends(C, m) ==
    /\ s2c' = [c \in Clients |-> IF c \in C THEN s2c[c] \o <<m>> ELSE s2c[c]]
    /\ UNCHANGED <<srvSide, cliSide, listening>>

LEMMA OpenWrite ==
    ASSUME NetworkTypeOK, NEW W \in SUBSET Clients, \A c \in W : srvSide[c] = "open", NEW m,
           s2c' = Written(s2c, srvSide, W, <<m>>), NEW V \in SUBSET W,
           srvSide' \in SidesAfterWrite(srvSide, V)
    PROVE  /\ s2c' = [c \in Clients |-> IF c \in W THEN s2c[c] \o <<m>> ELSE s2c[c]]
           /\ srvSide' = srvSide
<1>1. srvSide' = srvSide
  <2>1. srvSide' \in [Clients -> Sides] /\ \A c \in Clients : srvSide'[c] = srvSide[c]
    BY DEF SidesAfterWrite, NetworkTypeOK, Sides
  <2> QED BY <2>1 DEF NetworkTypeOK
<1> QED BY <1>1 DEF Written

\* The server holds something back from none but the clients C.
Holds(C) == \A c \in Clients : unsent'[c] > 0 => c \in C

LEMMA TurnWrite ==
    ASSUME Known, Polite, spc \notin Ended, NEW T \in SUBSET Indices,
           \A t \in T : srvSide[Meta(t)] = "open", NEW m, NEW pending, NEW next,
           WriteAll(T, <<m>>, pending, next)
    PROVE  /\ Appends(Metas(T), m) /\ Holds(Metas(T))
           /\ c2s' = pending /\ spc' = next
<1>1. /\ Broken(T) = {} /\ Metas(T) \in SUBSET Clients
      /\ \A c \in Metas(T) : srvSide[c] = "open"
  BY TurnFacts DEF Broken, Metas
<1>2. PICK W, V \in SUBSET Metas(T) :
         /\ srvSide' \in SidesAfterWrite(srvSide, W)
         /\ \/ WriteSucceeds(T, V, <<m>>, pending, next)
            \/ WriteKills(T, W, <<m>>, pending)
  BY WriteAllCases
<1>3. WriteSucceeds(T, V, <<m>>, pending, next)
  BY <1>1, <1>2 DEF WriteKills
<1>4. /\ s2c' = Written(s2c, srvSide, Metas(T), <<m>>)
      /\ spc' = next /\ c2s' = pending /\ UNCHANGED <<cliSide, listening>>
  BY <1>3 DEF WriteSucceeds
<1>5. Appends(Metas(T), m)
  <2>1. NetworkTypeOK
    BY TurnFacts
  <2>2. /\ s2c' = [c \in Clients |-> IF c \in Metas(T) THEN s2c[c] \o <<m>> ELSE s2c[c]]
        /\ srvSide' = srvSide
    BY <1>1, <1>2, <1>4, <2>1, OpenWrite
  <2> QED BY <1>4, <2>2 DEF Appends
<1>6. Holds(Metas(T))
  <2>1. ~(0 > 0)
    OBVIOUS
  <2> QED BY <1>2, <1>3, <2>1 DEF WriteSucceeds, Holds
<1> QED BY <1>4, <1>5, <1>6

\* The server takes the message m from the client at index k.
Takes(k, m) ==
    /\ spc = "scan" /\ c2s[Meta(k)] # <<>> /\ m = Head(c2s[Meta(k)])
    /\ c2s' = [c2s EXCEPT ![Meta(k)] = Tail(@)]
    /\ UNCHANGED <<client_metas, rtts, backlog>>

\* What the server passes on to the others.
Passed == {"PEER_LOCK", "HELLO", "GOODBYE", "WRITE_ARBITRARY"}

Relays(k, m) ==
    /\ m.type \in Passed
    /\ Appends(Members \ {Meta(k)}, m) /\ Holds(Members \ {Meta(k)})
    /\ delete_idxs' = IF m.type = "GOODBYE" THEN <<k>> ELSE <<>>
    /\ i' = IF m.type = "WRITE_ARBITRARY" THEN k ELSE k + 1
    /\ spc' = IF m.type = "WRITE_ARBITRARY" THEN "unlock" ELSE "scan"

CountsDown(m) ==
    /\ m.type = "COUNTDOWN_N"
    /\ delete_idxs' = <<>>
    /\ spc' = "scan" \/ (spc' = "ping" /\ i' = 0 /\ j' = 0 /\ rtts0' = rtts)
    /\ UNCHANGED <<s2c, unsent, srvSide, cliSide, listening>>

\* What the dispatch loop reads is the one thing there is to deal with.
LEMMA DispatchTurn ==
    ASSUME RecvMax = 1, PingN >= 1, Known, Polite, NEW k \in Indices, Dispatch(k)
    PROVE  /\ Busy = {Meta(k)} /\ delete_idxs = <<>>
           /\ \E m \in Msg : Takes(k, m) /\ (Relays(k, m) \/ CountsDown(m))
<1> DEFINE c == Meta(k)
           s == c2s[Meta(k)]
<1>1. PICK buf \in Chunks(s, srvSide[c]) :
          \/ HandleHello(k, buf) \/ HandleGoodbye(k, buf)
          \/ HandleLock(k, buf)  \/ HandleUnlock(k, buf)
          \/ HandleWrite(k, buf) \/ HandleCountdown(k, buf)
          \/ Discard(k, buf)
  BY DEF Dispatch
<1>2. /\ NextIndex(k) /\ spc = "scan" /\ spc \notin Ended /\ k >= i
  BY <1>1 DEF HandleHello, HandleGoodbye, HandleLock, HandleUnlock, HandleWrite,
     HandleCountdown, Discard, Received, NextIndex, Ended
<1>3. /\ NetworkTypeOK /\ ServerTypeOK /\ c \in Members /\ c \in Clients /\ s \in Seq(Msg)
      /\ i \in Int /\ k \in Nat /\ Members \subseteq Clients /\ PingN \in Int
  <2>1. /\ NetworkTypeOK /\ ServerTypeOK /\ c \in Members /\ Members \subseteq Clients
    BY <1>2, TurnFacts
  <2>2. s \in Seq(Msg) /\ i \in Int
    BY <2>1 DEF NetworkTypeOK, ServerTypeOK
  <2>3. k \in Nat /\ PingN \in Int
    BY MetaFacts, ServerAssumption DEF Known
  <2> QED BY <2>1, <2>2, <2>3
<1>4. delete_idxs # <<>> => /\ c \notin ToErase
                            /\ \E d \in Busy : d \in ToErase /\ d \in Members
  <2> SUFFICES ASSUME delete_idxs # <<>>
               PROVE  c \notin ToErase /\ \E d \in Busy : d \in ToErase /\ d \in Members
    OBVIOUS
  <2>1. PICK p \in Indices : /\ delete_idxs = <<p>> /\ cpc[Meta(p)] \in Departed
                             /\ p < i
    BY <1>2 DEF Polite, EraseOK
  <2>2. ToErase = {Meta(p)}
    BY <2>1 DEF ToErase
  <2>0. p \in Int
    BY <2>1 DEF Indices
  <2>3. p # k /\ Meta(p) # c
    <3>1. p # k
      BY ONLY <1>2, <1>3, <2>0, <2>1
    <3>2. \A l, m \in Indices : Meta(l) = Meta(m) => l = m
      BY <1>2, TurnFacts
    <3> QED BY <3>1, <3>2
  <2>4. Meta(p) \in Busy /\ Meta(p) \in Members
    BY <1>2, <2>1, TurnFacts DEF Busy, Talk
  <2> QED BY <2>2, <2>3, <2>4
<1>5. delete_idxs = <<>> => ToErase = {}
  BY EmptySeq DEF ToErase
<1>6. c \notin ToErase
  BY <1>4, <1>5
<1>7. s # <<>>
  <2> SUFFICES ASSUME s = <<>> PROVE FALSE
    OBVIOUS
  <2>1. srvSide[c] # "open"
    BY <1>1 DEF Chunks
  <2>2. cpc[c] = "exited"
    BY <1>2, <1>3, <2>1, TurnFacts
  <2>3. \E m \in ToSet(s) : m.type = "GOODBYE"
    BY <1>3, <1>6, <2>2 DEF Polite, SaysOK, Departed
  <2> QED BY <2>3, Contents
<1> DEFINE m == Head(s)
<1>8. /\ buf = <<m>> /\ m \in Msg /\ Head(buf) = m /\ classify(buf) = m.type
      /\ After(s, buf) = Tail(s)
  <2>1. buf = <<m>> /\ m \in Msg /\ After(s, buf) = Tail(s)
    BY <1>1, <1>3, <1>7, ChunkAlone
  <2> QED BY <2>1 DEF classify
<1>9. m \in ToSet(s) /\ SaysOne(c, m)
  BY <1>3, <1>7, StreamParts DEF Polite, SaysOK
<1>10. m.type \in Passed \cup {"COUNTDOWN_N"}
  BY <1>2, <1>9 DEF SaysOne, Passed, hello_msg, goodbye_msg, Named
<1>11. c \in Busy
  BY <1>3, <1>9, <1>10 DEF Busy, Passed
<1>12. Busy = {c} /\ delete_idxs = <<>>
  <2>1. \A d \in Busy : d = c
    BY <1>11 DEF Polite
  <2> QED BY <1>4, <1>6, <1>11, <2>1
<1>13. Rest(k, buf) = [c2s EXCEPT ![c] = Tail(@)]
  BY <1>8 DEF Rest
<1>14. Takes(k, m)
  <2>1. c2s' = Rest(k, buf) /\ UNCHANGED <<client_metas, rtts, backlog>>
    <3>1. CASE Relay(k, buf, "scan") \/ Relay(k, buf, "unlock")
      <4>1. \A t \in Indices \ {k} : srvSide[Meta(t)] = "open"
        <5> SUFFICES ASSUME NEW t \in Indices \ {k} PROVE srvSide[Meta(t)] = "open"
          OBVIOUS
        <5>1. Meta(t) \in Members \ Busy
          BY <1>2, <1>12, TurnFacts
        <5> QED BY <1>2, <5>1, TurnFacts
      <4>2. PICK next : WriteAll(Indices \ {k}, buf, Rest(k, buf), next)
        BY <3>1 DEF Relay, broadcast
      <4>3. c2s' = Rest(k, buf)
        BY <1>2, <1>8, <4>1, <4>2, TurnWrite
      <4> QED BY <1>1, <4>3 DEF HandleHello, HandleGoodbye, HandleLock, HandleUnlock,
             HandleWrite, HandleCountdown, Discard
    <3>2. CASE ~(Relay(k, buf, "scan") \/ Relay(k, buf, "unlock"))
      BY <1>1, <3>2 DEF HandleHello, HandleGoodbye, HandleLock, HandleUnlock,
             HandleWrite, HandleCountdown, Discard
    <3> QED BY <3>1, <3>2
  <2> QED BY <1>2, <1>7, <1>13, <2>1 DEF Takes
<1>15. CASE m.type \in Passed
  <2>1. /\ Relay(k, buf, IF m.type = "WRITE_ARBITRARY" THEN "unlock" ELSE "scan")
        /\ i' = IF m.type = "WRITE_ARBITRARY" THEN k ELSE k + 1
        /\ delete_idxs' = IF m.type = "GOODBYE" THEN Append(delete_idxs, k) ELSE delete_idxs
    BY <1>1, <1>8, <1>15 DEF Passed, HandleHello, HandleGoodbye, HandleLock, HandleUnlock,
             HandleWrite, HandleCountdown, Discard
  <2>2. \A t \in Indices \ {k} : srvSide[Meta(t)] = "open"
    <3> SUFFICES ASSUME NEW t \in Indices \ {k} PROVE srvSide[Meta(t)] = "open"
      OBVIOUS
    <3>1. Meta(t) \in Members \ Busy
      BY <1>2, <1>12, TurnFacts
    <3> QED BY <1>2, <3>1, TurnFacts
  <2>3. /\ Appends(Metas(Indices \ {k}), m) /\ Holds(Metas(Indices \ {k}))
        /\ spc' = IF m.type = "WRITE_ARBITRARY" THEN "unlock" ELSE "scan"
    BY <1>2, <1>8, <2>1, <2>2, TurnWrite DEF Relay, broadcast
  <2>4. Metas(Indices \ {k}) = Members \ {c}
    BY <1>2, TurnFacts DEF Metas
  <2>5. Append(<<>>, k) = <<k>>
    BY <1>3
  <2>6. Relays(k, m)
    BY <1>12, <1>15, <2>1, <2>3, <2>4, <2>5 DEF Relays
  <2> QED BY <1>8, <1>12, <1>14, <2>6
<1>16. CASE m.type = "COUNTDOWN_N"
  <2>1. HandleCountdown(k, buf)
    BY <1>1, <1>8, <1>16 DEF HandleHello, HandleGoodbye, HandleLock, HandleUnlock,
             HandleWrite, Discard
  <2>2. CountsDown(m)
    BY <1>2, <1>3, <1>12, <1>16, <2>1 DEF CountsDown, HandleCountdown
  <2> QED BY <1>8, <1>12, <1>14, <2>2
<1> QED BY <1>10, <1>15, <1>16
-----------------------------------------------------------------------------
(* What a step of the server leaves, while users take turns *)

\* The server says nothing of who comes and goes, and hears nothing of who comes.
Mutters ==
    /\ UNCHANGED <<client_metas, backlog, srvSide, delete_idxs>>
    /\ \A c \in Clients :
            \/ s2c'[c] = s2c[c]
            \/ \E m \in Msg : /\ m.type \notin {"HELLO", "GOODBYE"}
                             /\ s2c'[c] = s2c[c] \o <<m>>
    /\ \A c \in Members :
            \/ c2s'[c] = c2s[c]
            \/ /\ c2s[c] # <<>> /\ Head(c2s[c]).type # "HELLO"
               /\ c2s'[c] = Tail(c2s[c])

\* Nothing but a ping and its answer is on its way in the ping loop, and no ping
\* outside it.
LEMMA Silence ==
    ASSUME Known, Polite, spc \notin Ended, spc # "pong"
    PROVE  /\ \A c \in Clients : \A m \in ToSet(s2c[c]) : m.type \notin {"PING", "SHUTDOWN"}
           /\ \A c \in Members \ Busy : c2s[c] = <<>> /\ cpc[c] \in {"select", "pinging"}
<1>1. ASSUME NEW c \in Clients, NEW m \in ToSet(s2c[c])
      PROVE  m.type \notin {"PING", "SHUTDOWN"}
  BY DEF Polite, HearsOK, HearsOne
<1> QED BY <1>1, TurnFacts

\* Such a message to the clients C.
LEMMA HearsAfter ==
    ASSUME Known, Polite, spc \notin Ended, spc # "pong", NEW C, NEW m \in Msg,
           m.type \notin {"PING", "SHUTDOWN"}, Appends(C, m)
    PROVE  \A c \in Clients : HearsOK(c)'
<1> SUFFICES ASSUME NEW c \in Clients PROVE HearsOK(c)'
  OBVIOUS
<1>1. /\ s2c[c] \in Seq(Msg) /\ OnlyLast(s2c[c], {"PING"})
      /\ \A x \in ToSet(s2c[c]) : x.type \notin {"PING", "SHUTDOWN"}
  BY Silence DEF Known, IndTypeOK, TypeOK, NetworkTypeOK, Polite, HearsOK
<1>2. s2c'[c] = s2c[c] \/ s2c'[c] = s2c[c] \o <<m>>
  BY DEF Appends
<1>3. /\ OnlyLast(s2c[c] \o <<m>>, {"PING"})
      /\ \A x \in ToSet(s2c[c] \o <<m>>) : x.type \notin {"PING", "SHUTDOWN"}
  <2> HIDE DEF OnlyLast
  <2>1. ToSet(s2c[c] \o <<m>>) = ToSet(s2c[c]) \cup {m}
    BY <1>1, StreamParts
  <2>2. OnlyLast(s2c[c] \o <<m>>, {"PING"})
    BY <1>1, StreamParts
  <2> QED BY <1>1, <2>1, <2>2
<1>4. /\ OnlyLast(s2c'[c], {"PING"})
      /\ \A x \in ToSet(s2c'[c]) : x.type \notin {"PING", "SHUTDOWN"}
  BY ONLY <1>1, <1>2, <1>3
<1> QED BY <1>4 DEF HearsOK, HearsOne

\* Connections that wait are as they were.
LEMMA KeepsWait ==
    ASSUME Polite, UNCHANGED <<backlog, srvSide, cpc>>,
           \A c \in ToSet(backlog) : s2c'[c] = s2c[c] /\ c2s'[c] = c2s[c]
    PROVE  WaitOK' /\ Arriving' = Arriving
<1>1. Held' = Held /\ Connected' = Connected
  BY DEF Held, Connected
<1>2. Arriving' = Arriving /\ Arriving \subseteq ToSet(backlog)
  BY <1>1 DEF Arriving
<1> QED BY <1>1, <1>2 DEF Polite, WaitOK

\* Nobody has anything to say.
LEMMA Settled ==
    ASSUME \A c \in Members' : c2s'[c] = <<>> /\ cpc'[c] \in {"select", "pinging"},
           Arriving' = {}
    PROVE  Busy' = {} /\ \A c \in Members' : SaysOK(c)'
<1>1. ToSet(<<>>) = {} /\ OnlyLast(<<>>, NotLocks)
  <2>1. <<>> \in Seq(Msg)
    OBVIOUS
  <2> HIDE DEF OnlyLast
  <2> QED BY <2>1, StreamParts, Contents
<1>2. Busy' = {}
  BY <1>1 DEF Busy, Talk, Departed
<1>3. ASSUME NEW c \in Members' PROVE SaysOK(c)'
  BY <1>1, <1>3 DEF SaysOK, Talk, Departed
<1> QED BY <1>2, <1>3

\* A member with nothing to say.
LEMMA SaysNothing ==
    ASSUME NEW c, c2s'[c] = <<>>, cpc'[c] \in {"select", "pinging"}
    PROVE  SaysOK(c)' /\ (c \in Busy' => c \in Arriving')
<1>1. ToSet(<<>>) = {} /\ OnlyLast(<<>>, NotLocks)
  <2>1. <<>> \in Seq(Msg)
    OBVIOUS
  <2> HIDE DEF OnlyLast
  <2> QED BY <2>1, StreamParts, Contents
<1> QED BY <1>1 DEF SaysOK, Talk, Departed, Busy

\* The steps between the messages.
LEMMA PassTurn ==
    ASSUME Known, Polite, UNCHANGED <<netVars, clientVars>>,
           Select \/ AcceptFails \/ OperatorMistypes \/ DispatchEnds
    PROVE  Polite' /\ spc' \notin Ended /\ Mutters
<1>1. /\ UNCHANGED <<client_metas, rtts, s2c, c2s, srvSide, cliSide, backlog, cpc>>
      /\ spc \notin ForAll /\ spc' \notin ForAll /\ spc \notin Ended /\ spc' \notin Ended
  BY DEF Select, AcceptFails, OperatorMistypes, DispatchEnds, Phase, ForAll, Ended, netVars,
     clientVars
<1>2. /\ delete_idxs' = delete_idxs /\ (delete_idxs # <<>> => i' = i)
      /\ (delete_idxs # <<>> => spc = "scan" /\ spc' = "erase")
      /\ (delete_idxs = <<>> => spc' # "erase")
  <2>1. delete_idxs # <<>> => spc \in {"scan", "erase"}
    BY DEF Polite, EraseOK
  <2> QED BY <2>1 DEF Select, AcceptFails, OperatorMistypes, DispatchEnds, Phase
<1>3. /\ WaitOK' /\ Arriving' = Arriving /\ Busy' = Busy /\ Members' = Members
      /\ ToErase' = ToErase /\ Indices' = Indices /\ \A k : Meta(k)' = Meta(k)
  <2>1. WaitOK' /\ Arriving' = Arriving
    BY <1>1, KeepsWait
  <2> QED BY <1>1, <1>2, <2>1 DEF Busy, Members, ToErase, Indices, Meta
<1>4. \A c \in Clients : HearsOK(c)'
  BY <1>1, <1>3, Silence DEF Polite, HearsOK, HearsOne, ForAll
<1>5. ASSUME NEW c \in Members' PROVE SaysOK(c)'
  <2>1. SaysOK(c) /\ spc # "pong"
    BY <1>1, <1>3, <1>5 DEF Polite, ForAll
  <2>2. \A m : SaysOne(c, m) => SaysOne(c, m)'
    BY <1>1, <2>1 DEF SaysOne, Meta
  <2> QED BY <1>1, <1>3, <2>1, <2>2 DEF SaysOK
<1>6. EraseOK'
  BY <1>1, <1>2, <1>3 DEF Polite, EraseOK
<1>7. RoundsOK'
  BY <1>1 DEF RoundsOK, ForAll
<1>8. Mutters
  BY <1>1, <1>2 DEF Mutters
<1> QED BY <1>1, <1>3, <1>4, <1>5, <1>6, <1>7, <1>8 DEF Polite

\* A connection that is accepted becomes the last member, its hello before it.
LEMMA AcceptTurn ==
    ASSUME Known, Polite, Accept, UNCHANGED clientVars
    PROVE  Polite' /\ spc' \notin Ended
<1>0. PICK c : c = Head(backlog)
  OBVIOUS
<1>1. /\ spc = "accept" /\ spc \notin Ended /\ spc' \in {"stdin", "scan"} /\ backlog # <<>>
      /\ UNCHANGED <<c2s, cliSide, delete_idxs, cpc>> /\ Held < MaxSocks
      /\ client_metas' = Append(client_metas, c) /\ backlog' = Tail(backlog)
      /\ listening' = listening
  BY <1>0 DEF Accept, Phase, Ended, clientVars
<1>2. /\ NetworkTypeOK /\ ServerTypeOK /\ PingN \in Int
      /\ backlog \in Seq(Clients) /\ client_metas \in Seq(Clients)
  BY <1>1, TurnFacts, ServerAssumption DEF NetworkTypeOK, ServerTypeOK
<1>3. /\ c \in ToSet(backlog) /\ ToSet(backlog') = ToSet(backlog) \ {c}
      /\ c \in Clients /\ c \notin Members /\ Members' = Members \cup {c}
  BY <1>0, <1>1, AcceptPlaces DEF Known, Members
<1>4. Arriving = ToSet(backlog) /\ Arriving' \subseteq ToSet(backlog')
  BY <1>1 DEF Arriving
<1>5. /\ Busy = {c} /\ Arriving = {c} /\ ToSet(backlog') = {} /\ Arriving' = {}
  <2>1. \A d \in Arriving : d \in Busy
    BY DEF Busy
  <2>2. \A d \in Busy : d = c
    BY <1>3, <1>4, <2>1 DEF Polite
  <2> QED BY <1>3, <1>4, <2>1, <2>2
<1>6. cpc[c] = "select" /\ c2s[c] = <<hello_msg(Nick[c])>> /\ srvSide[c] = "open"
  BY <1>1, <1>5, TurnFacts DEF Polite, WaitOK
<1>7. Appends({c}, ping_init_msg(PingN))
  <2>1. /\ s2c' = Written(s2c, srvSide, {c}, <<ping_init_msg(PingN)>>)
        /\ srvSide' \in SidesAfterWrite(srvSide, {c})
    BY <1>0 DEF Accept
  <2>2. \A d \in {c} : srvSide[d] = "open"
    BY <1>6
  <2>3. {c} \in SUBSET Clients
    BY <1>3
  <2> QED BY <1>1, <1>2, <2>1, <2>2, <2>3, OpenWrite DEF Appends
<1>8. \A d \in Clients : HearsOK(d)'
  <2>1. /\ ping_init_msg(PingN) \in Msg
        /\ ping_init_msg(PingN).type \notin {"PING", "SHUTDOWN"}
    BY <1>2 DEF ping_init_msg, Numbered, Msg, MsgTypes
  <2> QED BY <1>1, <1>7, <2>1, HearsAfter
<1>9. ASSUME NEW d \in Members \ {c} PROVE SaysOK(d)' /\ d \notin Busy'
  <2>1. c2s'[d] = <<>> /\ cpc'[d] \in {"select", "pinging"}
    BY <1>1, <1>5, <1>9, Silence
  <2> QED BY <1>5, <2>1, SaysNothing
<1>10. SaysOK(c)'
  <2>1. hello_msg(Nick[c]) \in Msg /\ Nick[c] \in Names
    BY <1>3, NetworkAssumption DEF hello_msg, Named, Msg, MsgTypes
  <2>2. <<>> \in Seq(Msg)
    OBVIOUS
  <2>3. ToSet(<<hello_msg(Nick[c])>>) = {hello_msg(Nick[c])}
    BY <2>1, Contents
  <2>4. OnlyLast(<<hello_msg(Nick[c])>>, NotLocks)
    <3> HIDE DEF OnlyLast
    <3> QED BY <2>1, <2>2, StreamParts
  <2>5. c = Meta(Len(client_metas) - 1)'
    <3>1. /\ Len(client_metas') = Len(client_metas) + 1 /\ Len(client_metas) \in Nat
          /\ client_metas'[Len(client_metas) + 1] = c
      BY <1>1, <1>2, <1>3, AppendProperties, LenProperties
    <3>2. (Len(client_metas') - 1) + 1 = Len(client_metas) + 1
      BY <3>1
    <3> QED BY <3>1, <3>2 DEF Meta
  <2>6. c2s'[c] = <<hello_msg(Nick[c])>> /\ cpc'[c] = "select"
    BY <1>1, <1>6
  <2>7. SaysOne(c, hello_msg(Nick[c]))'
    BY <2>5, <2>6 DEF SaysOne
  <2>8. \A m \in ToSet(c2s'[c]) : SaysOne(c, m)'
    BY ONLY <2>3, <2>6, <2>7
  <2> QED BY <2>4, <2>6, <2>8 DEF SaysOK, Talk, Departed
<1>11. (\A d, e \in Busy' : d = e) /\ \A d \in Members' : SaysOK(d)'
  <2>1. Busy' \subseteq Members'
    BY <1>5 DEF Busy
  <2>2. Busy' \subseteq {c}
    BY <1>3, <1>9, <2>1
  <2>3. \A d \in Members' : SaysOK(d)'
    <3> SUFFICES ASSUME NEW d \in Members' PROVE SaysOK(d)'
      OBVIOUS
    <3>1. CASE d = c
      BY <1>10, <3>1
    <3>2. CASE d # c
      BY <1>3, <1>9, <3>2
    <3> QED BY <3>1, <3>2
  <2> QED BY <2>2, <2>3
<1>12. WaitOK'
  <2>1. Connected' = Connected
    BY <1>7 DEF Connected, Appends
  <2> QED BY <1>1, <1>5, <1>7, <2>1 DEF WaitOK, Polite, Appends
<1>13. EraseOK' /\ RoundsOK' /\ spc' \notin ForAll
  BY <1>1 DEF EraseOK, RoundsOK, Polite, ForAll
<1> QED BY <1>1, <1>8, <1>11, <1>12, <1>13 DEF Polite, Ended

\* The server deals with the one message there is.
LEMMA DispatchKeepsTurn ==
    ASSUME RecvMax = 1, PingN >= 1, Known, Polite, NEW k \in Indices, Dispatch(k),
           UNCHANGED clientVars
    PROVE  Polite' /\ spc' \notin Ended
<1>1. PICK c \in Members : c = Meta(k)
  BY MetaFacts DEF Known, Members
<1>2. PICK m \in Msg : Takes(k, m) /\ (Relays(k, m) \/ CountsDown(m))
  BY DispatchTurn
<1>3. /\ Busy = {c} /\ delete_idxs = <<>> /\ ToErase = {}
  <2>1. Busy = {c} /\ delete_idxs = <<>>
    BY <1>1, DispatchTurn
  <2> QED BY <2>1, EmptySeq DEF ToErase
<1>4. /\ spc = "scan" /\ spc \notin Ended /\ c2s[c] # <<>> /\ m = Head(c2s[c])
      /\ c2s' = [c2s EXCEPT ![c] = Tail(@)]
      /\ UNCHANGED <<client_metas, rtts, backlog, cpc, srvSide>>
      /\ spc' \notin Ended /\ spc' # "erase"
  BY <1>1, <1>2 DEF Takes, Relays, Appends, CountsDown, Ended, clientVars
<1>5. /\ NetworkTypeOK /\ Members \subseteq Clients /\ Members' = Members
      /\ c2s[c] \in Seq(Msg) /\ c2s'[c] = Tail(c2s[c])
      /\ \A d \in Clients \ {c} : c2s'[d] = c2s[d]
      /\ Indices' = Indices /\ \A l : Meta(l)' = Meta(l)
  BY <1>4, TurnFacts DEF NetworkTypeOK, Members, Indices, Meta
<1>6. /\ Tail(c2s[c]) \in Seq(Msg) /\ OnlyLast(Tail(c2s[c]), NotLocks)
      /\ ToSet(c2s[c]) = {m} \cup ToSet(Tail(c2s[c]))
      /\ m.type # "PEER_LOCK" => Tail(c2s[c]) = <<>>
      /\ SaysOK(c) /\ SaysOne(c, m)
  <2>1. SaysOK(c)
    BY DEF Polite
  <2>2. OnlyLast(c2s[c], NotLocks)
    BY <2>1 DEF SaysOK
  <2>3. /\ Tail(c2s[c]) \in Seq(Msg) /\ OnlyLast(Tail(c2s[c]), NotLocks)
        /\ ToSet(c2s[c]) = {m} \cup ToSet(Tail(c2s[c]))
        /\ m.type \in NotLocks => c2s[c] = <<m>>
    <3> HIDE DEF OnlyLast
    <3> QED BY <1>4, <1>5, <2>2, StreamParts
  <2>4. Tail(<<m>>) = <<>>
    OBVIOUS
  <2>5. m.type # "PEER_LOCK" => m.type \in NotLocks
    BY DEF NotLocks, Msg
  <2> QED BY <2>1, <2>3, <2>4, <2>5 DEF SaysOK
<1>7. \A d \in Members \ {c} : c2s'[d] = <<>> /\ cpc'[d] \in {"select", "pinging"}
  BY <1>3, <1>4, <1>5, Silence
<1>8. Arriving = {} /\ WaitOK' /\ Arriving' = {} /\ \A d \in Clients : HearsOK(d)'
  <2>1. Arriving = {}
    <3>1. Arriving \subseteq {c} /\ c \notin ToSet(backlog)
      BY <1>1, <1>3, <1>4, TurnFacts DEF Busy
    <3> QED BY <1>4, <3>1, TurnFacts
  <2>2. \A d \in ToSet(backlog) : d \in Clients /\ d \notin Members
    BY <1>4, TurnFacts
  <2>3. CASE UNCHANGED s2c
    <3>1. WaitOK' /\ Arriving' = Arriving
      BY <1>4, <1>5, <2>2, <2>3, KeepsWait
    <3>2. \A d \in Clients : HearsOK(d)'
      <4>1. \A d \in Clients : HearsOK(d)
        BY DEF Polite
      <4> QED BY <1>4, <2>3, <4>1, Silence DEF HearsOK, HearsOne
    <3> QED BY <2>1, <3>1, <3>2
  <2>4. CASE Relays(k, m)
    <3>1. Appends(Members \ {c}, m)
      BY <1>1, <2>4 DEF Relays
    <3>2. \A d \in ToSet(backlog) : s2c'[d] = s2c[d]
      BY <2>2, <3>1 DEF Appends
    <3>3. WaitOK' /\ Arriving' = Arriving
      BY <1>4, <1>5, <2>2, <3>2, KeepsWait
    <3>4. \A d \in Clients : HearsOK(d)'
      BY <1>4, <2>4, <3>1, HearsAfter DEF Relays, Passed
    <3> QED BY <2>1, <3>3, <3>4
  <2> QED BY <1>2, <2>3, <2>4 DEF CountsDown
<1>9. /\ s2c'[c] = s2c[c]
      /\ m.type = "GOODBYE" => ToErase' = {c}
  <2>1. s2c'[c] = s2c[c]
    BY <1>1, <1>2, <1>5 DEF Relays, Appends, CountsDown
  <2>2. ASSUME m.type = "GOODBYE" PROVE ToErase' = {c}
    <3>1. delete_idxs' = <<k>>
      BY <1>2, <2>2 DEF Relays, CountsDown
    <3>2. Len(<<k>>) = 1 /\ <<k>>[1] = k /\ 1 \in 1..1 /\ \A a \in 1..1 : a = 1
      OBVIOUS
    <3>3. \A a \in 1..Len(delete_idxs') : Meta(delete_idxs[a])' = c
      BY <1>1, <1>5, <3>1, <3>2
    <3>4. 1 \in 1..Len(delete_idxs') /\ Meta(delete_idxs[1])' = c
      BY <1>1, <1>5, <3>1, <3>2
    <3> QED BY <3>3, <3>4 DEF ToErase
  <2> QED BY <2>1, <2>2
<1>10. SaysOK(c)'
  <2>1. ASSUME NEW x \in ToSet(Tail(c2s[c])) PROVE SaysOne(c, x)'
    <3>1. SaysOne(c, x) /\ x \in ToSet(c2s[c]) /\ Tail(c2s[c]) # <<>>
      BY <1>6, <2>1, Contents DEF SaysOK
    <3>2. c2s[c] # <<x>>
      <4>1. Tail(<<x>>) = <<>>
        OBVIOUS
      <4> QED BY <3>1, <4>1
    <3> QED BY <1>4, <3>1, <3>2 DEF SaysOne
  <2>2. ASSUME cpc'[c] \in Departed
        PROVE  c \in ToErase' \/ \E x \in ToSet(c2s'[c]) : x.type = "GOODBYE"
    <3>1. \E x \in ToSet(c2s[c]) : x.type = "GOODBYE"
      BY <1>3, <1>4, <1>6, <2>2 DEF SaysOK
    <3> QED BY <1>5, <1>6, <1>9, <3>1
  <2> QED BY <1>4, <1>5, <1>6, <1>9, <2>1, <2>2 DEF SaysOK
<1>11. /\ Busy' \subseteq {c}
       /\ \A d \in Members' : SaysOK(d)'
  <2>1. \A d \in Members \ {c} : SaysOK(d)' /\ d \notin Busy'
    BY <1>7, <1>8, SaysNothing
  <2>2. Busy' \subseteq Members'
    BY <1>8 DEF Busy
  <2>3. ASSUME NEW d \in Members' PROVE SaysOK(d)'
    <3>1. CASE d = c
      BY <1>10, <3>1
    <3>2. CASE d # c
      BY <1>5, <2>1, <2>3, <3>2
    <3> QED BY <3>1, <3>2
  <2> QED BY <1>5, <2>1, <2>2, <2>3
<1>12. spc' \in ForAll => Busy' = {}
  <2> SUFFICES ASSUME spc' \in ForAll PROVE Busy' = {}
    OBVIOUS
  <2>1. m.type \in {"WRITE_ARBITRARY", "COUNTDOWN_N"}
    BY <1>2 DEF Relays, CountsDown, ForAll
  <2>2. cpc[c] \notin Talk
    BY <1>4, <1>6, <2>1 DEF SaysOne, hello_msg, goodbye_msg, Named
  <2>3. ToSet(c2s'[c]) = {}
    BY <1>5, <1>6, <2>1, Contents
  <2>4. c \notin Busy'
    BY <1>4, <1>8, <2>2, <2>3 DEF Busy
  <2> QED BY <1>11, <2>4
<1>13. EraseOK'
  <2>1. CASE m.type = "GOODBYE"
    <3>1. /\ delete_idxs' = <<k>> /\ spc' = "scan" /\ i' = k + 1
      BY <1>2, <2>1 DEF Relays, CountsDown
    <3>2. cpc[c] \in Departed
      BY <1>4, <1>6, <2>1 DEF SaysOne, hello_msg, goodbye_msg, Named
    <3>3. k < k + 1 /\ k \in Indices'
      BY <1>5 DEF Indices
    <3> QED BY <1>1, <1>4, <1>5, <3>1, <3>2, <3>3 DEF EraseOK
  <2>2. CASE m.type # "GOODBYE"
    <3>1. delete_idxs' = <<>>
      BY <1>2, <2>2 DEF Relays, CountsDown
    <3> QED BY <1>4, <3>1 DEF EraseOK
  <2> QED BY <2>1, <2>2
<1>14. RoundsOK'
  <2>1. CASE spc' = "ping"
    <3>1. i' = 0 /\ j' = 0 /\ rtts0' = rtts'
      BY <1>2, <1>4, <2>1 DEF Relays, CountsDown
    <3>2. \A l \in Indices : rtts'[Meta(l)] \in Nat /\ l \in Nat
      <4>1. ServerTypeOK /\ \A l \in Indices : l \in Nat /\ Meta(l) \in Clients
        BY <1>4, TurnFacts, MetaFacts DEF Known
      <4> QED BY <1>4, <4>1 DEF ServerTypeOK
    <3>3. 0 < PingN /\ \A l \in Nat : ~(l < 0)
      BY ServerAssumption
    <3>4. \A x \in Nat : x = x + 0
      OBVIOUS
    <3>5. \A l \in Indices :
             rtts'[Meta(l)] = rtts0'[Meta(l)] + IF l < j' THEN i' + 1 ELSE i'
      BY <3>1, <3>2, <3>3, <3>4
    <3> QED BY <1>5, <2>1, <3>1, <3>3, <3>5 DEF RoundsOK
  <2>2. CASE spc' # "ping"
    BY <1>2, <2>2 DEF RoundsOK, Relays, CountsDown
  <2> QED BY <2>1, <2>2
<1> QED BY <1>4, <1>8, <1>11, <1>12, <1>13, <1>14 DEF Polite

\* The ping loop, its orders and the unlock: everybody is there and listens.
LEMMA EverybodyListens ==
    ASSUME Known, Polite, spc \in ForAll
    PROVE  /\ spc \notin Ended /\ Busy = {} /\ Arriving = {} /\ delete_idxs = <<>>
           /\ \A c \in Members : cpc[c] \in {"select", "pinging"} /\ srvSide[c] = "open"
           /\ \A k \in Indices : Meta(k) \in Members /\ srvSide[Meta(k)] = "open"
           /\ spc # "pong" => \A c \in Members : c2s[c] = <<>>
<1>1. /\ spc \notin Ended /\ Busy = {} /\ delete_idxs = <<>>
  BY DEF Polite, ForAll, Ended, EraseOK
<1>2. Arriving = {}
  BY <1>1 DEF Busy
<1> QED BY <1>1, <1>2, TurnFacts, Silence

\* A message to the clients C while they do.
LEMMA WritesForAll ==
    ASSUME Known, Polite, spc \in ForAll \ {"pong"}, NEW C \in SUBSET Members, NEW m,
           Appends(C, m), UNCHANGED clientVars,
           UNCHANGED <<c2s, client_metas, backlog, delete_idxs>>, spc' # "erase"
    PROVE  /\ Busy' = {} /\ WaitOK' /\ EraseOK' /\ Members' = Members
           /\ Indices' = Indices /\ \A l : Meta(l)' = Meta(l)
           /\ \A c \in Members' : SaysOK(c)'
<1>1. /\ spc \notin Ended /\ Arriving = {} /\ delete_idxs = <<>> /\ UNCHANGED <<cpc, srvSide>>
      /\ \A c \in Members : c2s[c] = <<>> /\ cpc[c] \in {"select", "pinging"}
  BY EverybodyListens DEF clientVars, Appends
<1>2. Members' = Members /\ Indices' = Indices /\ \A l : Meta(l)' = Meta(l)
  BY DEF Members, Indices, Meta
<1>3. WaitOK' /\ Arriving' = Arriving
  <2>1. \A c \in ToSet(backlog) : c \in Clients /\ c \notin C
    BY <1>1, TurnFacts
  <2>2. \A c \in ToSet(backlog) : s2c'[c] = s2c[c] /\ c2s'[c] = c2s[c]
    BY <2>1 DEF Appends
  <2> QED BY <1>1, <2>2, KeepsWait
<1>4. Busy' = {} /\ \A c \in Members' : SaysOK(c)'
  BY <1>1, <1>2, <1>3, Settled
<1>5. EraseOK'
  BY <1>1 DEF EraseOK
<1> QED BY <1>2, <1>3, <1>4, <1>5

LEMMA PingTurnOK ==
    ASSUME Known, Polite, Ping, UNCHANGED clientVars
    PROVE  Polite' /\ spc' \notin Ended /\ Mutters /\ Holds(Members)
<1>1. /\ spc = "ping" /\ spc \in ForAll \ {"pong"} /\ spc \notin Ended
      /\ WriteAll({j}, <<ping_msg(i)>>, c2s, "pong")
      /\ UNCHANGED <<client_metas, rtts, rtts0, i, j, delete_idxs, backlog, cpc>>
  BY DEF Ping, WriteOne, ForAll, Ended, clientVars
<1>2. /\ j \in Indices /\ NetworkTypeOK /\ i \in Nat /\ Members \subseteq Clients
      /\ ping_msg(i) \in Msg /\ ping_msg(i).type = "PING" /\ ping_msg(i).n = i
  BY <1>1, TurnFacts DEF Known, InLoop, ServerTypeOK, ping_msg, Numbered, Msg, MsgTypes
<1>3. PICK c \in Members : c = Meta(j)
  BY <1>1, <1>2, EverybodyListens
<1>4. Appends({c}, ping_msg(i)) /\ Holds({c}) /\ c2s' = c2s /\ spc' = "pong"
  <2>1. \A t \in {j} : srvSide[Meta(t)] = "open"
    BY <1>1, <1>2, EverybodyListens
  <2>2. Metas({j}) = {c}
    BY <1>3 DEF Metas
  <2> QED BY <1>1, <1>2, <2>1, <2>2, TurnWrite
<1>5. /\ Busy' = {} /\ WaitOK' /\ EraseOK' /\ \A d \in Members' : SaysOK(d)'
      /\ Members' = Members /\ Indices' = Indices /\ \A l : Meta(l)' = Meta(l)
  <2>1. {c} \in SUBSET Members
    OBVIOUS
  <2> QED BY <1>1, <1>4, <2>1, WritesForAll
<1>6. ASSUME NEW d \in Clients PROVE HearsOK(d)'
  <2>1. /\ s2c[d] \in Seq(Msg) /\ OnlyLast(s2c[d], {"PING"})
        /\ \A x \in ToSet(s2c[d]) : x.type \notin {"PING", "SHUTDOWN"}
    BY <1>1, <1>2, Silence DEF NetworkTypeOK, Polite, HearsOK
  <2>2. CASE d # c
    <3>1. s2c'[d] = s2c[d]
      BY <1>4, <2>2 DEF Appends
    <3> QED BY <2>1, <3>1 DEF HearsOK, HearsOne
  <2>3. CASE d = c
    <3>1. s2c'[d] = s2c[d] \o <<ping_msg(i)>> /\ c2s'[d] = <<>>
      BY <1>1, <1>4, <2>3, EverybodyListens DEF Appends
    <3>2. /\ OnlyLast(s2c[d] \o <<ping_msg(i)>>, {"PING"})
          /\ ToSet(s2c[d] \o <<ping_msg(i)>>) = ToSet(s2c[d]) \cup {ping_msg(i)}
      <4>1. \A x \in ToSet(s2c[d]) : x.type \notin {"PING"}
        BY <2>1
      <4> HIDE DEF OnlyLast
      <4> QED BY <1>2, <2>1, <4>1, StreamParts
    <3>3. d = Meta(j)' /\ spc' = "pong" /\ i' = i
      BY <1>1, <1>3, <1>4, <2>3 DEF Meta
    <3>4. ASSUME NEW x \in ToSet(s2c'[d]) PROVE HearsOne(d, x)'
      BY <1>2, <2>1, <3>1, <3>2, <3>3, <3>4 DEF HearsOne
    <3> QED BY <3>1, <3>2, <3>4 DEF HearsOK
  <2> QED BY <2>2, <2>3
<1>7. RoundsOK'
  BY <1>1, <1>4, <1>5 DEF Polite, RoundsOK
<1>8. Mutters
  BY <1>1, <1>2, <1>4 DEF Mutters, Appends
<1>9. Holds(Members)
  BY <1>4 DEF Holds
<1> QED BY <1>1, <1>4, <1>5, <1>6, <1>7, <1>8, <1>9 DEF Polite, Ended

LEMMA OrderTurn ==
    ASSUME Known, Polite, Order, UNCHANGED clientVars
    PROVE  Polite' /\ spc' \notin Ended /\ Mutters /\ Holds(Members)
<1>1. /\ spc = "order" /\ spc \in ForAll \ {"pong"} /\ spc \notin Ended
      /\ WriteAll({j}, <<countdown_order_msg(n)>>, c2s,
                  IF j + 1 \in Indices THEN "order" ELSE "unlock")
      /\ UNCHANGED <<client_metas, rtts, rtts0, backlog, delete_idxs, cpc>>
  BY DEF Order, WriteOne, ForAll, Ended, clientVars
<1>2. /\ j \in Indices /\ NetworkTypeOK /\ n \in Int /\ Members \subseteq Clients
      /\ countdown_order_msg(n) \in Msg
      /\ countdown_order_msg(n).type \notin {"PING", "SHUTDOWN"}
  BY <1>1, TurnFacts DEF Known, InLoop, ServerTypeOK, countdown_order_msg, Numbered, Msg,
     MsgTypes
<1>3. PICK c \in Members : c = Meta(j)
  BY <1>1, <1>2, EverybodyListens
<1>4. /\ Appends({c}, countdown_order_msg(n)) /\ Holds({c}) /\ c2s' = c2s
      /\ spc' \in {"order", "unlock"}
  <2>1. \A t \in {j} : srvSide[Meta(t)] = "open"
    BY <1>1, <1>2, EverybodyListens
  <2>2. Metas({j}) = {c}
    BY <1>3 DEF Metas
  <2> QED BY <1>1, <1>2, <2>1, <2>2, TurnWrite
<1>5. /\ Busy' = {} /\ WaitOK' /\ EraseOK' /\ \A d \in Members' : SaysOK(d)'
      /\ Indices' = Indices /\ \A l : Meta(l)' = Meta(l)
  <2>1. {c} \in SUBSET Members
    OBVIOUS
  <2> QED BY <1>1, <1>4, <2>1, WritesForAll
<1>6. \A d \in Clients : HearsOK(d)'
  BY <1>1, <1>2, <1>4, HearsAfter
<1>7. RoundsOK'
  BY <1>1, <1>4, <1>5 DEF RoundsOK, Polite
<1>8. Mutters
  <2>1. countdown_order_msg(n).type \notin {"HELLO", "GOODBYE"}
    BY DEF countdown_order_msg, Numbered
  <2> QED BY <1>1, <1>2, <1>4, <2>1 DEF Mutters, Appends
<1>9. Holds(Members)
  BY <1>4 DEF Holds
<1> QED BY <1>1, <1>4, <1>5, <1>6, <1>7, <1>8, <1>9 DEF Polite, Ended

\* Everybody has answered, so there is an answer to read.
LEMMA OrderStands ==
    ASSUME PingN >= 1, Known, Polite
    PROVE  ~OrderFaults
<1> SUFFICES ASSUME OrderFaults PROVE FALSE
  OBVIOUS
<1>1. spc = "order" /\ rtts[Meta(j)] = 0 /\ spc \notin Ended
  BY DEF OrderFaults, Ended
<1>2. j \in Indices /\ Meta(j) \in Clients /\ rtts0 \in [Clients -> Nat]
  BY <1>1, TurnFacts DEF Known, InLoop, ServerTypeOK
<1>3. rtts[Meta(j)] = rtts0[Meta(j)] + PingN
  BY <1>1, <1>2 DEF Polite, RoundsOK
<1>4. \A x \in Nat : x + PingN # 0
  BY ServerAssumption
<1> QED BY <1>1, <1>2, <1>3, <1>4

LEMMA UnlockTurn ==
    ASSUME Known, Polite, Unlock, UNCHANGED clientVars
    PROVE  Polite' /\ spc' \notin Ended /\ Mutters /\ Holds(Members)
<1>1. /\ spc = "unlock" /\ spc \in ForAll \ {"pong"} /\ spc \notin Ended
      /\ WriteAll(Indices, <<unlock_msg(lock_owner)>>, c2s, "scan")
      /\ UNCHANGED <<client_metas, backlog, delete_idxs, cpc>>
  <2>1. Indices \ {-1} = Indices
    BY DEF Indices
  <2> QED BY <2>1 DEF Unlock, broadcast, ForAll, Ended, clientVars
<1>2. /\ unlock_msg(lock_owner) \in Msg
      /\ unlock_msg(lock_owner).type \notin {"PING", "SHUTDOWN"}
  BY <1>1, TurnFacts DEF ServerTypeOK, unlock_msg, Named, Msg, MsgTypes
<1>3. /\ Appends(Members, unlock_msg(lock_owner)) /\ Holds(Members) /\ c2s' = c2s
      /\ spc' = "scan"
  <2>1. \A t \in Indices : srvSide[Meta(t)] = "open"
    BY <1>1, EverybodyListens
  <2>2. Metas(Indices) = Members
    BY <1>1, TurnFacts DEF Metas
  <2> QED BY <1>1, <2>1, <2>2, TurnWrite
<1>4. Busy' = {} /\ WaitOK' /\ EraseOK' /\ \A d \in Members' : SaysOK(d)'
  BY <1>1, <1>3, WritesForAll
<1>5. \A d \in Clients : HearsOK(d)'
  BY <1>1, <1>2, <1>3, HearsAfter
<1>6. RoundsOK'
  BY <1>3 DEF RoundsOK
<1>7. Mutters
  <2>1. unlock_msg(lock_owner).type \notin {"HELLO", "GOODBYE"}
    BY DEF unlock_msg, Named
  <2> QED BY <1>1, <1>2, <1>3, <2>1 DEF Mutters, Appends
<1> QED BY <1>1, <1>3, <1>4, <1>5, <1>6, <1>7 DEF Polite, Ended

LEMMA PongTurn ==
    ASSUME RecvMax = 1, Known, Polite, Pong, UNCHANGED clientVars
    PROVE  Polite' /\ spc' \notin Ended /\ Mutters
<1>1. /\ spc = "pong" /\ spc \in ForAll /\ spc \notin Ended /\ j \in Indices
      /\ NextExchange
      /\ UNCHANGED <<client_metas, rtts0, s2c, srvSide, backlog, delete_idxs, cpc>>
  BY DEF Pong, ForAll, Ended, clientVars, Known, InLoop
<1>2. /\ NetworkTypeOK /\ ServerTypeOK /\ i \in Nat /\ j \in Nat /\ Members \subseteq Clients
      /\ PingN \in Int /\ i < PingN
  BY <1>1, TurnFacts, ServerAssumption DEF ServerTypeOK, Polite, RoundsOK
<1>3. PICK c \in Members : c = Meta(j)
  BY <1>1, EverybodyListens
<1>4. PICK buf \in Chunks(c2s[c], srvSide[c]) :
          /\ c2s' = [c2s EXCEPT ![c] = After(@, buf)]
          /\ rtts' = IF Answers(buf, i) THEN [rtts EXCEPT ![c] = @ + 1] ELSE rtts
  BY <1>3 DEF Pong
<1>5. /\ c2s[c] # <<>> /\ Head(c2s[c]) \in Msg /\ buf = <<Head(c2s[c])>>
      /\ After(c2s[c], buf) = Tail(c2s[c])
      /\ c2s[c] = <<Head(c2s[c])>> /\ Answers(buf, i)
  <2>1. c \in Clients /\ c2s[c] \in Seq(Msg) /\ srvSide[c] = "open" /\ c \in Members \ Busy
    BY <1>1, <1>2, <1>3, EverybodyListens DEF NetworkTypeOK
  <2>2. /\ c2s[c] # <<>> /\ Head(c2s[c]) \in Msg /\ buf = <<Head(c2s[c])>>
        /\ After(c2s[c], buf) = Tail(c2s[c])
    BY <1>4, <2>1, ChunkAlone
  <2>3. Head(c2s[c]) \in ToSet(c2s[c])
    <3>1. OnlyLast(c2s[c], NotLocks)
      BY DEF Polite, SaysOK
    <3> HIDE DEF OnlyLast
    <3> QED BY <2>1, <2>2, <3>1, StreamParts
  <2>4. Head(c2s[c]).type = "PING" /\ SaysOne(c, Head(c2s[c]))
    BY <1>1, <2>1, <2>3, TurnFacts
  <2>5. Head(c2s[c]).n = i /\ c2s[c] = <<Head(c2s[c])>>
    BY <2>4 DEF SaysOne, hello_msg, goodbye_msg, Named
  <2>6. classify(buf) = "PING" /\ Head(buf).n = i
    BY <2>2, <2>4, <2>5 DEF classify
  <2> QED BY <2>2, <2>5, <2>6 DEF Answers
<1>6. /\ c2s'[c] = <<>> /\ \A d \in Clients \ {c} : c2s'[d] = c2s[d]
      /\ rtts' = [rtts EXCEPT ![c] = @ + 1]
  <2>1. \A m : Tail(<<m>>) = <<>>
    OBVIOUS
  <2>2. Tail(c2s[c]) = <<>>
    BY <1>5, <2>1
  <2> QED BY <1>2, <1>4, <1>5, <2>2 DEF NetworkTypeOK
<1>7. Members' = Members /\ Indices' = Indices /\ \A l : Meta(l)' = Meta(l)
  BY <1>1 DEF Members, Indices, Meta
<1>8. \A d \in Members : c2s'[d] = <<>> /\ cpc'[d] \in {"select", "pinging"}
  <2> SUFFICES ASSUME NEW d \in Members
               PROVE  c2s'[d] = <<>> /\ cpc'[d] \in {"select", "pinging"}
    OBVIOUS
  <2>1. d \in Members \ Busy /\ cpc'[d] \in {"select", "pinging"}
    BY <1>1, EverybodyListens
  <2>2. d # c => c2s[d] = <<>>
    BY <1>1, <1>3, <2>1, TurnFacts
  <2> QED BY <1>2, <1>6, <2>1, <2>2
<1>9. WaitOK' /\ Arriving' = {}
  <2>1. \A d \in ToSet(backlog) : d \in Clients /\ d # c
    BY <1>1, TurnFacts
  <2>2. WaitOK' /\ Arriving' = Arriving
    BY <1>1, <1>6, <2>1, KeepsWait
  <2> QED BY <1>1, <2>2, EverybodyListens
<1>10. Busy' = {} /\ \A d \in Members' : SaysOK(d)'
  BY <1>7, <1>8, <1>9, Settled
<1>11. ASSUME NEW d \in Clients PROVE HearsOK(d)'
  <2>1. OnlyLast(s2c[d], {"PING"}) /\ \A m \in ToSet(s2c[d]) : HearsOne(d, m)
    BY DEF Polite, HearsOK
  <2>2. \A m \in ToSet(s2c[d]) : m.type \notin {"PING", "SHUTDOWN"}
    BY <1>3, <1>5, <2>1 DEF HearsOne
  <2> QED BY <1>1, <2>1, <2>2 DEF HearsOK, HearsOne
<1>12. spc' \in {"ping", "order"}
  BY <1>1 DEF NextExchange
<1>13. EraseOK'
  BY <1>1, <1>12, EverybodyListens DEF EraseOK
<1>14. RoundsOK'
  <2>1. /\ Indices = 0..(Len(client_metas) - 1) /\ Len(client_metas) \in Nat
        /\ \A k \in Indices : rtts0[Meta(k)] \in Nat
    <3>1. client_metas \in Seq(Clients) /\ rtts0 \in [Clients -> Nat]
      BY <1>2 DEF ServerTypeOK
    <3>2. \A k \in Indices : Meta(k) \in Clients
      BY <1>1, <1>2, TurnFacts
    <3> QED BY <3>1, <3>2, LenProperties DEF Indices
  <2>2. /\ \A k \in Indices : rtts[Meta(k)] = rtts0[Meta(k)] + IF k < j THEN i + 1 ELSE i
        /\ \A k \in Indices : k # j => rtts'[Meta(k)] = rtts[Meta(k)]
        /\ rtts'[Meta(j)] = rtts[Meta(j)] + 1
    <3>1. \A k \in Indices :
             rtts[Meta(k)] = rtts0[Meta(k)] + IF k < j THEN i + 1 ELSE i
      BY <1>1 DEF Polite, RoundsOK
    <3>2. \A k \in Indices : k # j => Meta(k) # c
      BY <1>1, <1>3, TurnFacts
    <3>3. c \in Clients /\ \A k \in Indices : Meta(k) \in Clients
      BY <1>1, <1>2, TurnFacts
    <3> QED BY <1>2, <1>3, <1>6, <3>1, <3>2, <3>3 DEF ServerTypeOK
  <2>3. ASSUME NEW k \in Indices
        PROVE  rtts'[Meta(k)] = rtts0[Meta(k)] + IF k < j + 1 THEN i + 1 ELSE i
    <3>1. k \in Int
      BY <2>1
    <3>2. CASE k = j
      <4>1. ~(k < j) /\ k < j + 1
        BY <1>2, <3>2
      <4>2. rtts[Meta(j)] = rtts0[Meta(j)] + i /\ rtts0[Meta(j)] \in Nat
        BY <1>1, <2>1, <2>2, <3>2, <4>1
      <4>3. \A x \in Nat : (x + i) + 1 = x + (i + 1)
        BY <1>2
      <4> QED BY <2>2, <3>2, <4>1, <4>2, <4>3
    <3>3. CASE k # j
      <4>1. (k < j + 1) <=> (k < j)
        BY <1>2, <3>1, <3>3
      <4> QED BY <2>2, <3>3, <4>1
    <3> QED BY <3>2, <3>3
  <2>4. CASE j + 1 \in Indices
    <3>1. j' = j + 1 /\ i' = i /\ spc' = "ping"
      BY <1>1, <2>4 DEF NextExchange
    <3>2. \A k \in Indices' :
             rtts'[Meta(k)'] = rtts0'[Meta(k)'] + IF k < j' THEN i' + 1 ELSE i'
      BY <1>1, <1>7, <2>3, <3>1
    <3> QED BY <1>2, <3>1, <3>2 DEF RoundsOK
  <2>5. CASE j + 1 \notin Indices
    <3>1. j' = 0 /\ i' = i + 1 /\ spc' = IF i + 1 < PingN THEN "ping" ELSE "order"
      BY <1>1, <2>5 DEF NextExchange
    <3>2. \A k \in Indices : k < j + 1 /\ ~(k < 0)
      BY <1>1, <1>2, <2>1, <2>5
    <3>3. \A k \in Indices : rtts'[Meta(k)] = rtts0[Meta(k)] + (i + 1)
      BY <2>3, <3>2
    <3>4. ~(i + 1 < PingN) => PingN = i + 1
      BY <1>2
    <3>5. \A k \in Indices' :
             rtts'[Meta(k)'] = rtts0'[Meta(k)'] + IF k < j' THEN i' + 1 ELSE i'
      BY <1>1, <1>7, <3>1, <3>2, <3>3
    <3>6. \A k \in Indices' : rtts'[Meta(k)'] = rtts0'[Meta(k)'] + i'
      BY <1>1, <1>7, <3>1, <3>3
    <3> QED BY <3>1, <3>4, <3>5, <3>6 DEF RoundsOK
  <2> QED BY <2>4, <2>5
<1>15. Mutters
  <2>1. Head(c2s[c]).type # "HELLO" /\ c2s'[c] = Tail(c2s[c])
    <3>1. \A m : Tail(<<m>>) = <<>> /\ Head(<<m>>) = m
      OBVIOUS
    <3>2. Tail(c2s[c]) = <<>>
      BY <1>5, <3>1
    <3> QED BY <1>5, <1>6, <3>1, <3>2 DEF Answers, classify
  <2> QED BY <1>1, <1>2, <1>5, <1>6, <2>1 DEF Mutters
<1> QED BY <1>1, <1>9, <1>10, <1>11, <1>12, <1>13, <1>14, <1>15 DEF Polite, Ended

\* Erasing the client at index k.
LEMMA ErasesOne ==
    ASSUME IndTypeOK, OnePlaceEach, NEW k \in Indices,
           client_metas' = RemoveAt(client_metas, k + 1)
    PROVE  /\ Members' = Members \ {Meta(k)}
           /\ Len(client_metas') = Len(client_metas) - 1
           /\ \A l \in Indices' : /\ (IF l < k THEN l ELSE l + 1) \in Indices \ {k}
                                  /\ Meta(l)' = Meta(IF l < k THEN l ELSE l + 1)
           /\ \A l \in Indices \ {k} : /\ (IF l < k THEN l ELSE l - 1) \in Indices'
                                       /\ Meta(l) = Meta(IF l < k THEN l ELSE l - 1)'
<1> DEFINE L == Len(client_metas)
<1>1. /\ client_metas \in Seq(Clients) /\ L \in Nat /\ DOMAIN client_metas = 1..L
      /\ Indices = 0..(L - 1) /\ k + 1 \in 1..L /\ k \in Int
  BY LenProperties DEF IndTypeOK, TypeOK, ServerTypeOK, Indices
<1>2. /\ Len(client_metas') = L - 1 /\ DOMAIN client_metas' = 1..(L - 1)
      /\ \A l \in 1..(L - 1) :
            client_metas'[l] = client_metas[IF l < k + 1 THEN l ELSE l + 1]
  <2> DEFINE r == RemoveAt(client_metas, k + 1)
  <2>1. client_metas \in Seq(Clients) /\ k + 1 \in 1..Len(client_metas)
    BY <1>1
  <2>2. /\ Len(r) = Len(client_metas) - 1 /\ DOMAIN r = 1..(Len(client_metas) - 1)
        /\ \A l \in 1..(Len(client_metas) - 1) :
              r[l] = client_metas[IF l < k + 1 THEN l ELSE l + 1]
    BY ONLY <2>1, RemoveAtElements, Zenon
  <2>3. client_metas' = r
    OBVIOUS
  <2> HIDE DEF r
  <2> QED BY <2>2, <2>3, Zenon
<1>3. Indices' = 0..(L - 2)
  <2>1. (L - 1) - 1 = L - 2
    BY <1>1
  <2> QED BY <1>2, <2>1 DEF Indices
<1> HIDE DEF L
<1>4. ASSUME NEW l \in Indices'
      PROVE  /\ (IF l < k THEN l ELSE l + 1) \in Indices \ {k}
             /\ Meta(l)' = Meta(IF l < k THEN l ELSE l + 1)
  <2>1. /\ l + 1 \in 1..(L - 1) /\ (l + 1 < k + 1 <=> l < k)
        /\ (IF l < k THEN l ELSE l + 1) \in Indices \ {k}
    BY <1>1, <1>3
  <2>2. client_metas'[l + 1] = client_metas[IF l < k THEN l + 1 ELSE (l + 1) + 1]
    BY <1>2, <2>1
  <2> QED BY <2>1, <2>2 DEF Meta
<1>5. ASSUME NEW l \in Indices \ {k}
      PROVE  /\ (IF l < k THEN l ELSE l - 1) \in Indices'
             /\ Meta(l) = Meta(IF l < k THEN l ELSE l - 1)'
  <2>1. CASE l < k
    <3>1. l \in Indices'
      BY <1>1, <1>3, <2>1
    <3> QED BY <1>4, <2>1, <3>1
  <2>2. CASE ~(l < k)
    <3>1. l - 1 \in Indices' /\ ~(l - 1 < k) /\ (l - 1) + 1 = l
      BY <1>1, <1>3, <2>2
    <3>2. Meta(l - 1)' = Meta((l - 1) + 1)
      BY <1>4, <3>1
    <3> QED BY <2>2, <3>1, <3>2
  <2> QED BY <2>1, <2>2
<1>6. /\ \A d : d \in Members <=> \E l \in Indices : d = Meta(l)
      /\ \A d : d \in Members' <=> \E l \in Indices' : d = Meta(l)'
  <2>1. \A x \in 1..L : x - 1 \in 0..(L - 1) /\ (x - 1) + 1 = x
    BY <1>1
  <2>2. \A x \in 1..(L - 1) : x - 1 \in 0..(L - 2) /\ (x - 1) + 1 = x
    BY <1>1
  <2>3. \A x \in 0..(L - 1) : x + 1 \in 1..L
    BY <1>1
  <2>4. \A x \in 0..(L - 2) : x + 1 \in 1..(L - 1)
    BY <1>1
  <2>5. \A d : d \in Members <=> \E l \in Indices : d = Meta(l)
    BY <1>1, <2>1, <2>3 DEF Members, ToSet, Meta
  <2>6. DOMAIN client_metas' = 1..(L - 1) /\ Indices' = 0..(L - 2)
    BY <1>2, <1>3
  <2>7. ASSUME NEW d \in Members' PROVE \E l \in Indices' : d = Meta(l)'
    <3>1. PICK x \in 1..(L - 1) : d = client_metas'[x]
      BY <2>6 DEF Members, ToSet
    <3>2. x - 1 \in Indices' /\ (x - 1) + 1 = x
      BY <2>2, <2>6
    <3>3. d = Meta(x - 1)'
      BY <3>1, <3>2 DEF Meta
    <3> QED BY <3>2, <3>3
  <2>8. ASSUME NEW l \in Indices' PROVE Meta(l)' \in Members'
    <3>1. l + 1 \in DOMAIN client_metas'
      BY <2>4, <2>6
    <3> QED BY <3>1 DEF Members, ToSet, Meta
  <2>9. \A d : d \in Members' <=> \E l \in Indices' : d = Meta(l)'
    BY <2>7, <2>8
  <2> QED BY <2>5, <2>9
<1>7. \A l \in Indices : Meta(l) = Meta(k) => l = k
  BY MetaFacts
<1>8. Members' = Members \ {Meta(k)}
  <2>1. ASSUME NEW d \in Members' PROVE d \in Members /\ d # Meta(k)
    <3>1. PICK l \in Indices' : d = Meta(l)'
      BY <1>6
    <3>2. PICK q \in Indices \ {k} : d = Meta(q)
      BY <1>4, <3>1
    <3> QED BY <1>6, <1>7, <3>2
  <2>2. ASSUME NEW d \in Members, d # Meta(k) PROVE d \in Members'
    <3>1. PICK l \in Indices \ {k} : d = Meta(l)
      BY <1>6, <2>2
    <3> QED BY <1>5, <1>6, <3>1
  <2> QED BY <2>1, <2>2
<1> QED BY <1>2, <1>4, <1>5, <1>8 DEF L

\* The client that has gone is the one that is erased.
LEMMA EraseTurn ==
    ASSUME Known, Polite, Erase, UNCHANGED clientVars
    PROVE  /\ Polite' /\ spc' \notin Ended /\ UNCHANGED netVars /\ Busy' = {}
           /\ \E k \in Indices : /\ delete_idxs = <<k>> /\ delete_idxs' = <<>>
                                 /\ cpc[Meta(k)] \in Departed /\ Busy = {Meta(k)}
                                 /\ client_metas' = RemoveAt(client_metas, k + 1)
                                 /\ spc = "erase" /\ spc' = "select"
<1>1. spc = "erase" /\ spc \notin Ended
  BY DEF Erase, Ended
<1>2. PICK k \in Indices : delete_idxs = <<k>> /\ cpc[Meta(k)] \in Departed
  BY <1>1 DEF Polite, EraseOK
<1>3. Len(<<k>>) = 1 /\ Last(<<k>>) = k /\ Front(<<k>>) = <<>>
  <2>1. <<k>> \in Seq(Indices) /\ Len(<<k>>) = 1 /\ <<k>>[1] = k
    OBVIOUS
  <2>2. Len(Front(<<k>>)) = 0 /\ Front(<<k>>) \in Seq(Indices)
    <3>1. 1 - 1 = 0 /\ 1 # 0
      OBVIOUS
    <3> QED BY <2>1, <3>1, FrontElements, FrontType
  <2>3. Front(<<k>>) = <<>>
    BY <2>2, EmptySeq
  <2> QED BY <2>1, <2>3 DEF Last
<1>4. /\ client_metas' = RemoveAt(client_metas, k + 1) /\ spc' = "select"
      /\ delete_idxs' = <<>> /\ UNCHANGED <<netVars, cpc>>
  BY <1>2, <1>3 DEF Erase, clientVars
<1>5. PICK c \in Members : c = Meta(k)
  BY <1>1, TurnFacts
<1>6. Busy = {c}
  <2>1. c \in Busy
    BY <1>2, <1>5 DEF Busy, Talk
  <2> QED BY <2>1 DEF Polite
<1>7. Members' = Members \ {c}
  BY <1>4, <1>5, ErasesOne DEF Known
<1>8. Arriving = {} /\ WaitOK' /\ Arriving' = {}
  <2>1. Arriving \subseteq {c} /\ c \notin ToSet(backlog)
    BY <1>1, <1>6, TurnFacts DEF Busy
  <2>2. WaitOK' /\ Arriving' = Arriving
    BY <1>4, KeepsWait DEF netVars
  <2> QED BY <1>1, <2>1, <2>2, TurnFacts
<1>9. Busy' = {} /\ \A d \in Members' : SaysOK(d)'
  <2>1. \A d \in Members' : c2s'[d] = <<>> /\ cpc'[d] \in {"select", "pinging"}
    BY <1>1, <1>4, <1>6, <1>7, Silence DEF netVars
  <2> QED BY <1>8, <2>1, Settled
<1>10. \A d \in Clients : HearsOK(d)'
  <2>1. \A d \in Clients : HearsOK(d) /\ \A m \in ToSet(s2c[d]) : m.type \notin {"PING", "SHUTDOWN"}
    BY <1>1, Silence DEF Polite
  <2> QED BY <1>4, <2>1 DEF HearsOK, HearsOne, netVars
<1>11. EraseOK' /\ RoundsOK'
  BY <1>4 DEF EraseOK, RoundsOK
<1>12. Polite' /\ spc' \notin Ended
  BY <1>4, <1>8, <1>9, <1>10, <1>11 DEF Polite, ForAll, Ended
<1> QED BY <1>1, <1>2, <1>4, <1>5, <1>6, <1>9, <1>12

\* The server goes on in a write.
LEMMA SendTurn ==
    ASSUME Known, spc \notin Ended, WritesOn, spc # "closing" => Polite, Send,
           UNCHANGED clientVars
    PROVE  /\ spc' = spc /\ WritesOn'
           /\ spc # "closing" => Polite' /\ Mutters
<1> DEFINE T     == {t \in Indices : unsent[Meta(t)] > 0}
           Full  == {t \in T : srvSide[Meta(t)] = "open" /\ Len(s2c[Meta(t)]) > SockBuf}
           Now   == Until(T, Full \cup Broken(T))
           Later == Metas(T \ Now)
<1>1. /\ IndTypeOK /\ OnePlaceEach /\ JoinOK /\ unsent \in [Clients -> Nat]
      /\ srvSide \in [Clients -> Sides]
      /\ \A t \in Indices : Meta(t) \in Clients
      /\ \A t, u \in Indices : Meta(t) = Meta(u) => t = u
  BY MetaFacts DEF Known, IndTypeOK, TypeOK, NetworkTypeOK
<1>2. \A c \in Clients : unsent[c] > 0 =>
         IF spc = "closing" THEN srvSide[c] # "broken" ELSE srvSide[c] = "open"
  BY <1>1 DEF WritesOn, JoinOK, Live
<1>3. Broken(T) = {}
  BY <1>1, <1>2 DEF Broken
<1>4. Until(Broken(T), Full) = {}
  BY <1>3 DEF Until
<1>5. /\ srvSide' \in SidesAfterWrite(srvSide, Metas(Now))
      /\ unsent' = [c \in Clients |-> IF c \in Later THEN unsent[c] ELSE 0]
      /\ UNCHANGED <<spc, s2c, c2s, cliSide, listening>>
      /\ UNCHANGED <<client_metas, rtts, rtts0, lock_owner, read_fds, i, j, n,
                     ordered, delete_idxs, op_lines, backlog>>
  BY <1>4 DEF Send
<1>6. \A c \in Clients : unsent'[c] > 0 => c \in Later /\ unsent[c] > 0
  <2>1. ~(0 > 0)
    OBVIOUS
  <2> QED BY <1>5, <2>1
<1>7. \A c \in Later : c \notin Metas(Now)
  BY <1>1 DEF Metas, Until
<1>8. \A c \in Clients \ Metas(Now) : srvSide'[c] = srvSide[c]
  BY <1>5 DEF SidesAfterWrite
<1> HIDE DEF Full, Later
<1>9. CASE spc = "closing"
  BY <1>2, <1>5, <1>6, <1>7, <1>8, <1>9 DEF WritesOn
<1>10. CASE spc # "closing"
  <2>1. \A c \in Metas(Now) : c \in Clients /\ srvSide[c] = "open"
    BY <1>1, <1>2, <1>10 DEF Metas, Until
  <2>2. srvSide' = srvSide
    <3>1. srvSide' \in [Clients -> Sides] /\ \A c \in Clients : srvSide'[c] = srvSide[c]
      BY <1>1, <1>5, <2>1 DEF SidesAfterWrite, Sides
    <3> QED BY <1>1, <3>1
  <2>3. WritesOn'
    BY <1>5, <1>6, <1>10 DEF WritesOn, clientVars
  <2> HIDE DEF T, Now
  <2>4. Mutters
    BY <1>5, <2>2 DEF Mutters
  <2>5. Polite
    BY <1>10
  <2>6. Polite'
    <3>1. /\ UNCHANGED <<spc, s2c, c2s, srvSide, cliSide, client_metas, rtts, rtts0, i, j>>
          /\ UNCHANGED <<delete_idxs, backlog, cpc>>
      BY <1>5, <2>2 DEF clientVars
    <3>2. UNCHANGED <<Indices, Members, Held, Connected, ToErase>>
      BY <3>1 DEF Indices, Members, Held, Connected, ToErase, Meta
    <3>3. \A k : Meta(k)' = Meta(k)
      BY <3>1 DEF Meta
    <3>4. Arriving' = Arriving
      BY <3>1, <3>2 DEF Arriving
    <3>5. Busy' = Busy
      BY <3>1, <3>2, <3>4 DEF Busy
    <3>6. WaitOK' /\ EraseOK' /\ RoundsOK'
      BY <2>5, <3>1, <3>2, <3>3, <3>4 DEF Polite, WaitOK, EraseOK, RoundsOK
    <3>7. \A c : HearsOK(c)' = HearsOK(c)
      BY <3>1, <3>3 DEF HearsOK, HearsOne
    <3>8. \A c : SaysOK(c)' = SaysOK(c)
      <4>1. \A c, m : SaysOne(c, m)' = SaysOne(c, m)
        BY <3>1, <3>3 DEF SaysOne
      <4> QED BY <3>1, <3>2, <4>1 DEF SaysOK
    <3> QED BY <2>5, <3>1, <3>2, <3>5, <3>6, <3>7, <3>8 DEF Polite
  <2> QED BY <1>5, <2>3, <2>4, <2>6
<1> QED BY <1>5, <1>9, <1>10

\* The operator's goodbye, as far as it gets.
LEMMA QuitTurn ==
    ASSUME Known, Polite, Flowing, OperatorQuits, UNCHANGED clientVars
    PROVE  spc' = "closing" /\ WritesOn'
<1>1. spc = "stdin" /\ spc \notin Ended
  BY DEF OperatorQuits, Ended
<1> DEFINE buf  == <<shutdown_msg>>
           T    == Indices \ {-1}
           Full == {t \in T : ~Fits(s2c[Meta(t)], srvSide[Meta(t)], buf)}
           Now  == Until(T, Full \cup Broken(T))
<1>2. /\ \A t \in T : Meta(t) \in Members /\ srvSide[Meta(t)] \in {"open", "fin"}
      /\ \A t, u \in T : Meta(t) = Meta(u) => t = u
      /\ Members \subseteq Clients
  BY <1>1, TurnFacts
<1>3. Broken(T) = {}
  BY <1>2 DEF Broken
<1>4. Until(Broken(T), Full) = {}
  BY <1>3 DEF Until
<1>5. /\ srvSide' \in SidesAfterWrite(srvSide, Metas(Now)) /\ spc' = "closing"
      /\ unsent' = [c \in Clients |-> IF c \in Metas(T \ Now) THEN Len(buf) ELSE 0]
  BY <1>4 DEF OperatorQuits, broadcast, WriteAll
<1>6. \A c \in Metas(T \ Now) : c \in Clients \ Metas(Now) /\ srvSide[c] \in {"open", "fin"}
  BY <1>2 DEF Metas, Until
<1>7. \A c \in Clients \ Metas(Now) : srvSide'[c] = srvSide[c]
  BY <1>5 DEF SidesAfterWrite
<1>8. \A c \in Clients : unsent'[c] > 0 => c \in Metas(T \ Now)
  <2>1. ~(0 > 0)
    OBVIOUS
  <2> QED BY <1>5, <2>1
<1> HIDE DEF T, Now
<1> QED BY <1>5, <1>6, <1>7, <1>8 DEF WritesOn

\* A write to members who are there and listen.
LEMMA HoldsListeners ==
    ASSUME NEW C, \A c \in C : cpc[c] \in {"select", "pinging"}, Holds(C),
           UNCHANGED clientVars, spc' # "closing"
    PROVE  WritesOn'
BY DEF Holds, WritesOn, clientVars

\* Steps in which the server writes nothing.
LEMMA HoldsNothing ==
    ASSUME Flowing, UNCHANGED unsent
    PROVE  WritesOn'
<1>1. ~(0 > 0)
  OBVIOUS
<1> QED BY <1>1 DEF Flowing, WritesOn

\* The server survives every step of its own.
LEMMA ServerTurn ==
    ASSUME RecvMax = 1, PingN >= 1, Known, WritesOn, spc \notin Leaves => Polite, ServerNext,
           UNCHANGED clientVars
    PROVE  /\ spc \notin Ended /\ spc' # "crashed" /\ WritesOn'
           /\ spc' \notin Leaves => spc \notin Leaves /\ Polite' /\ spc' \notin Ended
<1>1. spc \notin Ended
  BY ServerTraffic DEF Known, Ended
<1>2. CASE Send
  BY <1>1, <1>2, SendTurn DEF Leaves, Ended
<1>3. CASE Exit /\ Flowing
  BY <1>1, <1>3, HoldsNothing DEF Exit, Leaves
<1>4. ASSUME Flowing, ServerActs, ~Exit PROVE spc \notin Leaves
  BY <1>1, <1>4 DEF Leaves, Ended, ServerActs, Select, Accept, AcceptFails, OperatorQuits,
     OperatorMistypes, RecvThrows, Dispatch, HandleHello, HandleGoodbye, HandleLock,
     HandleUnlock, HandleWrite, HandleCountdown, Discard, Received, NextIndex, Ping, Pong,
     PongFails, OrderFaults, Order, Unlock, DispatchEnds, Erase
<1>5. CASE Flowing /\ ServerActs /\ ~Exit
  <2>0. spc \notin Leaves /\ Polite
    BY <1>4, <1>5
  <2>1. /\ \A c \in Members : srvSide[c] \in {"open", "fin"}
        /\ \A k \in Indices : srvSide[Meta(k)] \in {"open", "fin"}
    BY <1>1, <2>0, TurnFacts
  <2>2. CASE OperatorQuits
    BY <1>1, <1>5, <2>0, <2>2, QuitTurn DEF Leaves
  <2>3. CASE RecvThrows \/ PongFails
    <3>1. \E k \in Indices : srvSide[Meta(k)] = "reset"
      BY <2>3 DEF RecvThrows, PongFails, RecvFails, NextIndex, Known, InLoop
    <3> QED BY <2>1, <3>1
  <2>4. CASE OrderFaults
    BY <2>0, <2>4, OrderStands
  <2>5. CASE Select \/ AcceptFails \/ OperatorMistypes \/ DispatchEnds
    <3>1. UNCHANGED netVars
      BY <2>5 DEF Select, AcceptFails, OperatorMistypes, DispatchEnds
    <3>2. Polite' /\ spc' \notin Ended
      BY <2>0, <2>5, <3>1, PassTurn
    <3>3. WritesOn'
      BY <1>5, <3>1, HoldsNothing DEF netVars
    <3> QED BY <1>1, <2>0, <3>2, <3>3 DEF Ended
  <2>6. CASE Accept
    <3>1. Polite' /\ spc' \notin Ended
      BY <2>0, <2>6, AcceptTurn
    <3>2. WritesOn'
      BY <1>5, <2>6, HoldsNothing DEF Accept
    <3> QED BY <1>1, <2>0, <3>1, <3>2 DEF Ended
  <2>7. CASE \E k \in Indices : Dispatch(k)
    <3>1. PICK k \in Indices : Dispatch(k)
      BY <2>7
    <3>2. Polite' /\ spc' \notin Ended
      BY <2>0, <3>1, DispatchKeepsTurn
    <3>3. PICK m \in Msg : Takes(k, m) /\ (Relays(k, m) \/ CountsDown(m))
      BY <2>0, <3>1, DispatchTurn
    <3>4. WritesOn'
      <4>1. CASE CountsDown(m)
        BY <1>5, <4>1, HoldsNothing DEF CountsDown
      <4>2. CASE Relays(k, m)
        <5>1. Busy = {Meta(k)} /\ Holds(Members \ {Meta(k)}) /\ spc' # "closing"
          BY <2>0, <3>1, <4>2, DispatchTurn DEF Relays
        <5>2. \A c \in Members \ {Meta(k)} : cpc[c] \in {"select", "pinging"}
          BY <1>1, <2>0, <5>1, TurnFacts
        <5> QED BY <5>1, <5>2, HoldsListeners
      <4> QED BY <3>3, <4>1, <4>2
    <3> QED BY <1>1, <2>0, <3>2, <3>4 DEF Ended
  <2>8. CASE Ping \/ Order \/ Unlock
    <3>1. spc \in ForAll /\ spc' # "closing"
      BY <2>8, WriteAllCases DEF Ping, Order, Unlock, ForAll, WriteOne, broadcast,
         WriteSucceeds, WriteKills
    <3>2. Polite' /\ spc' \notin Ended /\ Holds(Members)
      BY <2>0, <2>8, PingTurnOK, OrderTurn, UnlockTurn
    <3>3. WritesOn'
      <4>1. \A c \in Members : cpc[c] \in {"select", "pinging"}
        BY <2>0, <3>1, EverybodyListens
      <4> QED BY <3>1, <3>2, <4>1, HoldsListeners
    <3> QED BY <1>1, <2>0, <3>2, <3>3 DEF Ended
  <2>9. CASE Pong
    <3>1. Polite' /\ spc' \notin Ended
      BY <2>0, <2>9, PongTurn
    <3>2. WritesOn'
      BY <1>5, <2>9, HoldsNothing DEF Pong
    <3> QED BY <1>1, <2>0, <3>1, <3>2 DEF Ended
  <2>10. CASE Erase
    <3>1. Polite' /\ spc' \notin Ended /\ UNCHANGED netVars
      BY <2>0, <2>10, EraseTurn
    <3>2. WritesOn'
      BY <1>5, <3>1, HoldsNothing DEF netVars
    <3> QED BY <1>1, <2>0, <3>1, <3>2 DEF Ended
  <2> QED BY <1>5, <2>2, <2>3, <2>4, <2>5, <2>6, <2>7, <2>8, <2>9, <2>10 DEF ServerActs
<1> QED BY <1>2, <1>3, <1>5 DEF ServerNext, ServerActs

-----------------------------------------------------------------------------
(* What a step of a client leaves, while users take turns *)

\* Nobody is to be dealt with when all is quiet.
LEMMA QuietFacts ==
    ASSUME Known, Polite, Quiet
    PROVE  /\ Busy = {} /\ Arriving = {} /\ spc = "select" /\ spc \notin Ended /\ spc \notin ForAll
           /\ delete_idxs = <<>> /\ ToErase = {}
           /\ \A c \in Members : c2s[c] = <<>> /\ s2c[c] = <<>> /\ cpc[c] = "select"
<1>1. /\ spc = "select" /\ spc \notin Ended /\ spc \notin ForAll /\ delete_idxs = <<>>
      /\ ToErase = {}
  BY EmptySeq DEF Quiet, Ended, ForAll, Polite, EraseOK, ToErase
<1>2. Arriving = {}
  <2>1. ToSet(<<>>) = {}
    BY Contents
  <2>2. ~(Held < MaxSocks) \/ backlog = <<>>
    <3> SUFFICES ASSUME backlog # <<>> PROVE ~(Held < MaxSocks)
      OBVIOUS
    <3>1. Held >= MaxSocks
      BY DEF Quiet
    <3>2. Held \in Int /\ MaxSocks \in Int
      <4>1. Cardinality(Connected) \in Nat
        BY FS_CardinalityType DEF Polite, WaitOK
      <4>2. Len(backlog) \in Nat
        BY <1>1, TurnFacts, LenProperties DEF NetworkTypeOK
      <4> QED BY <4>1, <4>2, ServerAssumption DEF Held, Connected
    <3> QED BY <3>1, <3>2
  <2> QED BY <2>1, <2>2 DEF Arriving
<1>3. ASSUME NEW c \in Members
      PROVE  c2s[c] = <<>> /\ s2c[c] = <<>> /\ cpc[c] = "select"
  <2>1. c \in Clients \ ToSet(backlog)
    BY <1>1, TurnFacts
  <2>2. c2s[c] = <<>> /\ s2c[c] = <<>> /\ cpc[c] \notin {"typing", "pinging", "leaving"}
    BY <2>1 DEF Quiet
  <2>3. ToSet(c2s[c]) = {}
    BY <2>2, Contents
  <2>4. cpc[c] # "exited"
    BY <1>1, <2>3 DEF Polite, SaysOK, Departed
  <2> QED BY <1>1, <2>2, <2>4, TurnFacts
<1>4. Busy = {}
  <2>1. ToSet(<<>>) = {}
    BY Contents
  <2> QED BY <1>2, <1>3, <2>1 DEF Busy, Talk, Departed
<1> QED BY <1>1, <1>2, <1>3, <1>4

\* A write of a client whose server lives.
LEMMA OpenWrites ==
    ASSUME NetworkTypeOK, ClientTypeOK, NEW c \in Clients, cliSide[c] = "open", NEW buf,
           NEW unread, NEW next, Writes(c, buf, unread, next)
    PROVE  /\ c2s' = [c2s EXCEPT ![c] = @ \o buf]
           /\ s2c' = [s2c EXCEPT ![c] = unread]
           /\ cpc' = [cpc EXCEPT ![c] = next]
           /\ UNCHANGED <<srvSide, cliSide>>
<1>1. /\ c2s' = Written(c2s, cliSide, {c}, buf) /\ cliSide' \in SidesAfterWrite(cliSide, {c})
      /\ cpc' = [cpc EXCEPT ![c] = next] /\ s2c' = [s2c EXCEPT ![c] = unread]
      /\ UNCHANGED srvSide
  BY DEF Writes
<1>2. cliSide' = cliSide
  <2>1. cliSide' \in [Clients -> Sides] /\ \A d \in Clients : cliSide'[d] = cliSide[d]
    BY <1>1 DEF SidesAfterWrite, NetworkTypeOK, Sides
  <2> QED BY <2>1 DEF NetworkTypeOK
<1>3. c2s' = [c2s EXCEPT ![c] = @ \o buf]
  <2>1. c2s \in [Clients -> Seq(Msg)]
    BY DEF NetworkTypeOK
  <2> QED BY <1>1, <2>1 DEF Written
<1> QED BY <1>1, <1>2, <1>3

\* A step that only moves the client c.
LEMMA OneMoves ==
    ASSUME Known, Polite, spc \notin Ended, NEW c \in Clients,
           UNCHANGED <<serverVars, backlog>>, Apart(c),
           srvSide[c] = "none" <=> srvSide'[c] = "none",
           cpc[c] \in Departed => cpc'[c] \in Departed,
           cpc'[c] \notin {"off", "deaf", "crashed"}, HearsOK(c)',
           c \in Members => SaysOK(c)',
           c \in ToSet(backlog) => s2c'[c] = <<>>,
           c \in Arriving => cpc'[c] = "select" /\ c2s'[c] = c2s[c],
           c \in Members => \/ c \in Busy
                            \/ Busy = {} /\ spc \notin ForAll
                            \/ cpc'[c] \notin Talk /\ \A m \in ToSet(c2s'[c]) : m.type = "PING"
    PROVE  Polite'
<1>1. /\ UNCHANGED <<spc, client_metas, rtts, rtts0, i, j, delete_idxs>>
      /\ Members' = Members /\ Indices' = Indices /\ \A l : Meta(l)' = Meta(l)
      /\ ToErase' = ToErase
  BY DEF serverVars, Members, Indices, Meta, ToErase
<1>2. \A d \in Clients \ {c} : /\ cpc'[d] = cpc[d] /\ s2c'[d] = s2c[d] /\ c2s'[d] = c2s[d]
                               /\ srvSide'[d] = srvSide[d]
  BY DEF Apart
<1>3. Connected' = Connected /\ Held' = Held /\ Arriving' = Arriving
  <2>1. \A d \in Clients : srvSide'[d] # "none" <=> srvSide[d] # "none"
    BY <1>2
  <2> QED BY <2>1 DEF Connected, Held, Arriving
<1>4. /\ Members \subseteq Clients /\ Arriving \subseteq ToSet(backlog)
      /\ ToSet(backlog) \subseteq Clients
  BY TurnFacts
<1>5. \A d \in Members \ {c} : d \in Busy' => d \in Busy
  BY <1>1, <1>2, <1>3, <1>4 DEF Busy
<1>6. /\ \A d, e \in Busy' : d = e
      /\ spc' \in ForAll => Busy' = {}
  <2>1. Busy' \subseteq Arriving \cup Members
    BY <1>1, <1>3 DEF Busy
  <2>2. Arriving \subseteq Busy /\ Members \cap Arriving = {}
    BY <1>4, TurnFacts DEF Busy
  <2>3. c \in Members /\ c \in Busy' => c \in Busy \/ (Busy = {} /\ spc \notin ForAll)
    <3>1. c \in Members => c \notin Arriving'
      BY <1>3, <2>2
    <3> QED BY <3>1 DEF Busy
  <2>4. \/ Busy' \subseteq Busy
        \/ Busy = {} /\ spc \notin ForAll /\ Busy' \subseteq {c}
    BY <1>5, <2>1, <2>2, <2>3
  <2> QED BY <1>1, <2>4 DEF Polite
<1>7. \A d \in Clients : cpc'[d] \notin {"deaf", "crashed"} /\ HearsOK(d)'
  <2> SUFFICES ASSUME NEW d \in Clients \ {c}
               PROVE  cpc'[d] \notin {"deaf", "crashed"} /\ HearsOK(d)'
    OBVIOUS
  <2>1. cpc[d] \notin {"deaf", "crashed"} /\ HearsOK(d)
    BY DEF Polite
  <2> QED BY <1>1, <1>2, <2>1 DEF HearsOK, HearsOne
<1>8. \A d \in Members' : SaysOK(d)'
  <2> SUFFICES ASSUME NEW d \in Members \ {c} PROVE SaysOK(d)'
    BY <1>1
  <2>1. SaysOK(d) /\ d \in Clients \ {c}
    BY <1>4 DEF Polite
  <2>2. \A m : SaysOne(d, m) => SaysOne(d, m)'
    BY <1>1, <1>2, <2>1 DEF SaysOne
  <2> QED BY <1>1, <1>2, <2>1, <2>2 DEF SaysOK
<1>9. WaitOK'
  <2>1. \A d \in ToSet(backlog) : s2c'[d] = <<>>
    BY <1>2, <1>4 DEF Polite, WaitOK
  <2>2. \A d \in Arriving : cpc'[d] = "select" /\ c2s'[d] = <<hello_msg(Nick[d])>>
    BY <1>2, <1>4 DEF Polite, WaitOK
  <2>3. \A d \in Clients : cpc'[d] = "off" => srvSide'[d] = "none"
    BY <1>2 DEF Polite, WaitOK
  <2>4. IsFiniteSet(Connected)
    BY DEF Polite, WaitOK
  <2> QED BY <1>3, <2>1, <2>2, <2>3, <2>4 DEF WaitOK
<1>10. EraseOK'
  <2>1. \A k \in Indices : Meta(k) \in Clients
    BY <1>4, TurnFacts
  <2>2. \A k \in Indices : cpc[Meta(k)] \in Departed => cpc'[Meta(k)] \in Departed
    BY <1>2, <2>1
  <2>3. EraseOK
    BY DEF Polite
  <2> QED BY <1>1, <2>2, <2>3 DEF EraseOK
<1>11. RoundsOK'
  BY <1>1 DEF Polite, RoundsOK
<1> QED BY <1>6, <1>7, <1>8, <1>9, <1>10, <1>11 DEF Polite

\* The client c reads m, and only a ping makes it write: it sends it back.
Reads(c, m) ==
    /\ s2c[c] # <<>> /\ m = Head(s2c[c])
    /\ s2c' = [s2c EXCEPT ![c] = Tail(@)]
    /\ cpc[c] \in {"select", "pinging"}
    /\ cpc'[c] \in {"select", "pinging"}
    /\ cpc'[c] = "pinging" => cpc[c] = "pinging" \/ m.type = "PING"
    /\ \A d \in Clients \ {c} : cpc'[d] = cpc[d]
    /\ UNCHANGED <<srvSide, cliSide, backlog>>
    /\ \/ c2s' = c2s
       \/ m.type = "PING" /\ c2s' = [c2s EXCEPT ![c] = @ \o <<m>>]

\* It learns of who comes and goes.
Learns(c, m) ==
    /\ \A d \in Clients \ {c} : peer_names'[d] = peer_names[d]
    /\ peer_names'[c] = IF m.type = "HELLO" THEN peer_names[c] \cup {m.nick}
                       ELSE IF m.type = "GOODBYE" THEN peer_names[c] \ {m.nick}
                       ELSE peer_names[c]

\* A process that a living server has not forgotten.
LEMMA LiveFacts ==
    ASSUME Known, Polite, spc \notin Ended, NEW c \in Clients, cpc[c] \in LivePCs
    PROVE  /\ srvSide[c] = "open" /\ cliSide[c] = "open"
           /\ s2c[c] \in Seq(Msg) /\ c2s[c] \in Seq(Msg)
<1>1. c \in Live
  BY DEF Live, LivePCs
<1> QED BY <1>1 DEF Known, JoinOK, IndTypeOK, TypeOK, NetworkTypeOK

\* The steps that look at the socket.
LEMMA ClientReads ==
    ASSUME RecvMax = 1, Known, Polite, spc \notin Ended, NEW c \in Clients,
           ClientRecvThrows(c) \/ OnMessage(c) \/ PingTurn(c)
    PROVE  \E m \in Msg : Reads(c, m) /\ Learns(c, m)
<1>1. cpc[c] \in {"select", "pinging"} /\ cpc[c] \in LivePCs
  BY DEF ClientRecvThrows, OnMessage, OnShutdown, OnPing, OnPingInit, OnPeer, OnLock, OnOrder,
     OnOther, Gets, PingTurn, LivePCs
<1>2. /\ srvSide[c] = "open" /\ cliSide[c] = "open" /\ s2c[c] \in Seq(Msg)
      /\ NetworkTypeOK /\ ClientTypeOK
  BY <1>1, LiveFacts DEF Known, IndTypeOK, TypeOK
<1>3. ~RecvFails(s2c[c], cliSide[c]) /\ ~RecvFails(Arrived(c, s2c[c]), cliSide[c])
  BY <1>2 DEF RecvFails
<1>4. ASSUME NEW buf \in Chunks(s2c[c], cliSide[c])
      PROVE  /\ s2c[c] # <<>> /\ Head(s2c[c]) \in Msg /\ buf = <<Head(s2c[c])>>
             /\ After(s2c[c], buf) = Tail(s2c[c]) /\ classify(buf) = Head(s2c[c]).type
             /\ Head(s2c[c]).type # "SHUTDOWN"
  <2>1. /\ s2c[c] # <<>> /\ Head(s2c[c]) \in Msg /\ buf = <<Head(s2c[c])>>
        /\ After(s2c[c], buf) = Tail(s2c[c])
    BY <1>2, <1>4, ChunkAlone
  <2>2. classify(buf) = Head(s2c[c]).type
    BY <2>1 DEF classify
  <2>3. Head(s2c[c]) \in ToSet(s2c[c])
    <3>1. ToSet(buf) = {Head(s2c[c])} /\ ToSet(buf) \subseteq ToSet(s2c[c])
      BY <1>2, <1>4, <2>1, ChunkWithin, Contents
    <3> QED BY <3>1
  <2> QED BY <2>1, <2>2, <2>3 DEF Polite, HearsOK, HearsOne
\* The message is taken in, and nothing is said.
<1>5. ASSUME NEW buf \in Chunks(s2c[c], cliSide[c]), Consume(c, buf),
             cpc'[c] \in {"select", cpc[c]}, \A d \in Clients \ {c} : cpc'[d] = cpc[d],
             UNCHANGED <<c2s, srvSide, cliSide, backlog>>, Learns(c, Head(s2c[c]))
      PROVE  \E m \in Msg : Reads(c, m) /\ Learns(c, m)
  <2>1. s2c' = [s2c EXCEPT ![c] = Tail(@)]
    BY <1>4, <1>5 DEF Consume
  <2> QED BY <1>1, <1>4, <1>5, <2>1 DEF Reads
\* It is sent back.
<1>6. ASSUME NEW buf \in Chunks(s2c[c], cliSide[c]), classify(buf) = "PING",
             NEW next \in {"select", "pinging"}, Writes(c, buf, After(s2c[c], buf), next),
             UNCHANGED <<backlog, peer_names>>
      PROVE  \E m \in Msg : Reads(c, m) /\ Learns(c, m)
  <2>1. /\ c2s' = [c2s EXCEPT ![c] = @ \o buf]
        /\ s2c' = [s2c EXCEPT ![c] = After(s2c[c], buf)]
        /\ cpc' = [cpc EXCEPT ![c] = next] /\ UNCHANGED <<srvSide, cliSide>>
    BY <1>2, <1>6, OpenWrites
  <2>2. cpc'[c] = next /\ \A d \in Clients \ {c} : cpc'[d] = cpc[d]
    BY <1>2, <2>1 DEF ClientTypeOK
  <2>3. Learns(c, Head(s2c[c]))
    BY <1>4, <1>6 DEF Learns
  <2> QED BY <1>1, <1>4, <1>6, <2>1, <2>2, <2>3 DEF Reads
<1>7. CASE PingTurn(c)
  <2>1. PICK buf \in Chunks(s2c[c], cliSide[c]), next \in {"select", "pinging"} :
          IF classify(buf) = "PING" /\ Head(buf).n = ci[c]
          THEN Writes(c, buf, After(s2c[c], buf), next)
          ELSE /\ cpc' = [cpc EXCEPT ![c] = next]
               /\ Consume(c, buf)
               /\ UNCHANGED <<c2s, srvSide, cliSide>>
    <3>1. IndTypeOK
      BY DEF Known
    <3> QED BY <1>3, <1>7, <3>1, PingTurnRead
  <2>2. UNCHANGED <<backlog, peer_names>>
    BY <1>7 DEF PingTurn
  <2>3. CASE classify(buf) = "PING" /\ Head(buf).n = ci[c]
    BY <1>6, <2>1, <2>2, <2>3
  <2>4. CASE ~(classify(buf) = "PING" /\ Head(buf).n = ci[c])
    <3>1. cpc'[c] \in {"select", cpc[c]} /\ \A d \in Clients \ {c} : cpc'[d] = cpc[d]
      BY <1>2, <1>7, <2>1, <2>4 DEF ClientTypeOK, PingTurn
    \* In its ping loop it never comes upon anything but a ping.
    <3>2. Head(s2c[c]).type = "PING"
      <4>1. /\ c \in Here /\ ci[c] \in Nat /\ ci[c] >= 1 /\ Expect(c) = ci[c]
            /\ Framed(Expect(c), s2c[c])
        BY <1>2, <1>7 DEF Here, Ended, Known, DeliverOK, ClientTypeOK, Expect, PingTurn
      <4>2. Follows(ci[c], Head(s2c[c]))
        BY <1>4, <4>1 DEF Framed
      <4>3. ci[c] > 0
        BY <4>1
      <4> QED BY <4>2, <4>3 DEF Follows
    <3>3. Learns(c, Head(s2c[c]))
      BY <2>2, <3>2 DEF Learns
    <3> QED BY <1>5, <2>1, <2>2, <2>4, <3>1, <3>3
  <2> QED BY <2>3, <2>4
<1>8. CASE OnMessage(c)
  <2>1. PICK buf \in Chunks(s2c[c], cliSide[c]) :
          \/ OnShutdown(c, buf) \/ OnPing(c, buf) \/ OnPingInit(c, buf)
          \/ OnPeer(c, buf) \/ OnLock(c, buf) \/ OnOrder(c, buf)
          \/ OnOther(c, buf)
    BY <1>8, OnMessageRead DEF Known
  <2>2. CASE OnPing(c, buf)
    <3>1. PICK next \in {"select", "pinging"} : Writes(c, buf, After(s2c[c], buf), next)
      BY <2>2 DEF OnPing
    <3> QED BY <1>6, <2>2, <3>1 DEF OnPing
  <2>3. CASE OnShutdown(c, buf)
    BY <1>4, <2>3 DEF OnShutdown
  <2>4. CASE \/ OnPingInit(c, buf) \/ OnPeer(c, buf) \/ OnLock(c, buf) \/ OnOrder(c, buf)
             \/ OnOther(c, buf)
    <3>1. /\ Consume(c, buf) /\ cpc' = cpc /\ cpc[c] = "select"
          /\ UNCHANGED <<c2s, srvSide, cliSide, backlog>>
      BY <2>4 DEF OnPingInit, OnPeer, OnLock, OnOrder, OnOther, Gets, clientVars
    <3>2. Learns(c, Head(s2c[c]))
      <4>1. CASE OnPeer(c, buf)
        <5>1. Head(buf) = Head(s2c[c]) /\ classify(buf) = Head(s2c[c]).type
          BY <1>4
        <5> QED BY <1>2, <4>1, <5>1 DEF OnPeer, Without, Learns, ClientTypeOK
      <4>2. CASE OnPingInit(c, buf) \/ OnLock(c, buf) \/ OnOrder(c, buf) \/ OnOther(c, buf)
        <5>1. peer_names' = peer_names /\ classify(buf) \notin {"HELLO", "GOODBYE"}
          BY <4>2 DEF OnPingInit, OnLock, OnOrder, OnOther, clientVars
        <5> QED BY <1>4, <5>1 DEF Learns
      <4> QED BY <2>4, <4>1, <4>2
    <3> QED BY <1>5, <3>1, <3>2
  <2> QED BY <2>1, <2>2, <2>3, <2>4
<1> QED BY <1>3, <1>7, <1>8 DEF ClientRecvThrows

LEMMA ReadsTurn ==
    ASSUME Known, Polite, spc \notin Ended, NEW c \in Clients, NEW m \in Msg, Reads(c, m),
           UNCHANGED serverVars
    PROVE  Polite'
<1>1. /\ NetworkTypeOK /\ s2c[c] \in Seq(Msg) /\ c2s[c] \in Seq(Msg) /\ srvSide[c] = "open"
  <2>1. cpc[c] \in LivePCs
    BY DEF Reads, LivePCs
  <2> QED BY <2>1, LiveFacts, TurnFacts
<1>2. /\ s2c'[c] = Tail(s2c[c]) /\ UNCHANGED <<srvSide, cliSide, backlog, spc, i, j, client_metas>>
      /\ Apart(c) /\ s2c[c] # <<>>
      /\ cpc[c] \in {"select", "pinging"} /\ cpc'[c] \in {"select", "pinging"}
      /\ m = Head(s2c[c]) /\ \A l : Meta(l)' = Meta(l)
  BY <1>1 DEF Reads, Apart, NetworkTypeOK, serverVars, Meta
<1>3. /\ Tail(s2c[c]) \in Seq(Msg) /\ OnlyLast(Tail(s2c[c]), {"PING"})
      /\ ToSet(s2c[c]) = {m} \cup ToSet(Tail(s2c[c]))
      /\ m.type = "PING" => s2c[c] = <<m>>
  <2>1. OnlyLast(s2c[c], {"PING"})
    BY DEF Polite, HearsOK
  <2> HIDE DEF OnlyLast
  <2> QED BY <1>1, <1>2, <2>1, StreamParts
<1>4. HearsOne(c, m) /\ \A x \in ToSet(Tail(s2c[c])) : HearsOne(c, x)
  BY <1>3 DEF Polite, HearsOK
<1>5. CASE c2s' = c2s
  <2>1. HearsOK(c)'
    BY <1>2, <1>3, <1>4, <1>5 DEF HearsOK, HearsOne
  <2>2. c \in Members => SaysOK(c)'
    <3> SUFFICES ASSUME c \in Members PROVE SaysOK(c)'
      OBVIOUS
    <3>1. SaysOK(c) /\ c2s'[c] = c2s[c]
      BY <1>5 DEF Polite
    <3>2. cpc'[c] \notin Talk \cup Departed /\ cpc'[c] # "exited"
      BY <1>2 DEF Talk, Departed
    <3>3. ASSUME NEW x \in ToSet(c2s[c]) PROVE SaysOne(c, x)'
      <4>1. SaysOne(c, x)
        BY <3>1 DEF SaysOK
      <4>2. c2s[c] = <<x>> /\ cpc[c] = "select" => cpc'[c] = "select"
        <5>1. <<x>> # <<>>
          OBVIOUS
        <5> QED BY <1>2, <1>4, <5>1 DEF Reads, HearsOne
      <4>3. cpc[c] \notin Departed
        BY <1>2 DEF Departed
      <4> QED BY <1>2, <1>5, <3>2, <4>1, <4>2, <4>3 DEF SaysOne
    <3> QED BY <3>1, <3>2, <3>3 DEF SaysOK
  <2>3. c \in Members => \/ c \in Busy
                         \/ cpc'[c] \notin Talk /\ \A x \in ToSet(c2s'[c]) : x.type = "PING"
    BY <1>2, <1>5 DEF Busy, Talk, Departed
  <2>4. /\ c \in ToSet(backlog) => s2c[c] = <<>>
        /\ c \in Arriving => c \in ToSet(backlog)
    BY TurnFacts DEF Polite, WaitOK
  <2> QED BY <1>2, <2>1, <2>2, <2>3, <2>4, OneMoves DEF Departed
<1>6. CASE m.type = "PING" /\ c2s' = [c2s EXCEPT ![c] = @ \o <<m>>]
  <2>1. /\ s2c[c] = <<m>> /\ c2s[c] = <<>> /\ m.n = i /\ spc = "pong" /\ c = Meta(j)
    BY <1>3, <1>4, <1>6 DEF HearsOne
  <2>2. s2c'[c] = <<>> /\ c2s'[c] = <<m>>
    <3>1. Tail(<<m>>) = <<>> /\ <<>> \o <<m>> = <<m>>
      OBVIOUS
    <3> QED BY <1>1, <1>2, <1>6, <2>1, <3>1 DEF NetworkTypeOK
  <2>3. /\ ToSet(<<m>>) = {m} /\ ToSet(<<>>) = {} /\ <<>> \in Seq(Msg)
        /\ OnlyLast(<<m>>, NotLocks) /\ OnlyLast(<<>>, {"PING"})
    <3>1. <<>> \in Seq(Msg)
      OBVIOUS
    <3> HIDE DEF OnlyLast
    <3> QED BY <3>1, StreamParts, Contents
  <2>4. HearsOK(c)'
    BY <2>2, <2>3 DEF HearsOK
  <2>5. SaysOK(c)'
    <3>1. SaysOne(c, m)'
      BY <1>2, <1>6, <2>1, <2>2 DEF SaysOne
    <3> QED BY <1>2, <2>2, <2>3, <3>1 DEF SaysOK, Talk, Departed
  <2>6. cpc'[c] \notin Talk /\ \A x \in ToSet(c2s'[c]) : x.type = "PING"
    BY <1>2, <1>6, <2>2, <2>3 DEF Talk, Departed
  <2>7. c \notin Arriving /\ c \notin ToSet(backlog)
    BY <2>1, TurnFacts DEF Known, InLoop
  <2> QED BY <1>2, <2>4, <2>5, <2>6, <2>7, OneMoves DEF Departed
<1> QED BY <1>5, <1>6 DEF Reads

\* A user begins a line while all is quiet.
LEMMA StartTurn ==
    ASSUME Known, Polite, NEW c \in Clients, StartTyping(c), Quiet, UNCHANGED serverVars
    PROVE  Polite'
<1>1. /\ spc \notin Ended /\ spc \notin ForAll /\ Busy = {} /\ Arriving = {}
      /\ \A d \in Members : c2s[d] = <<>> /\ s2c[d] = <<>>
  BY QuietFacts
<1>2. /\ cpc[c] = "select" /\ NetworkTypeOK /\ ClientTypeOK /\ cliSide[c] = "open"
      /\ Writes(c, <<lock_msg(Nick[c])>>, s2c[c], "typing") /\ UNCHANGED backlog
  <2>1. cpc[c] = "select" /\ cpc[c] \in LivePCs
    BY DEF StartTyping, LivePCs
  <2> QED BY <1>1, <2>1, LiveFacts, TurnFacts DEF StartTyping
<1>3. /\ c2s' = [c2s EXCEPT ![c] = @ \o <<lock_msg(Nick[c])>>]
      /\ s2c' = [s2c EXCEPT ![c] = s2c[c]]
      /\ cpc' = [cpc EXCEPT ![c] = "typing"]
      /\ UNCHANGED <<srvSide, cliSide>>
  BY <1>2, OpenWrites
<1>4. /\ s2c' = s2c /\ cpc'[c] = "typing" /\ Apart(c)
      /\ c2s'[c] = c2s[c] \o <<lock_msg(Nick[c])>>
  BY <1>2, <1>3 DEF Apart, NetworkTypeOK, ClientTypeOK
<1>5. /\ lock_msg(Nick[c]) \in Msg /\ lock_msg(Nick[c]).type = "PEER_LOCK"
  BY NetworkAssumption DEF lock_msg, Named, Msg, MsgTypes
<1>6. HearsOK(c)'
  <2>1. \A m \in ToSet(s2c[c]) : m.type \notin {"PING", "SHUTDOWN"}
    BY <1>1, Silence DEF ForAll
  <2> QED BY <1>4, <2>1 DEF HearsOK, HearsOne, OnlyLast, Polite
<1>7. c \in Members => SaysOK(c)'
  <2> SUFFICES ASSUME c \in Members PROVE SaysOK(c)'
    OBVIOUS
  <2>1. c2s[c] = <<>> /\ s2c'[c] = <<>>
    BY <1>1, <1>4
  <2>2. /\ c2s'[c] = <<lock_msg(Nick[c])>>
        /\ OnlyLast(<<lock_msg(Nick[c])>>, NotLocks)
        /\ ToSet(<<lock_msg(Nick[c])>>) = {lock_msg(Nick[c])}
    <3>1. <<>> \in Seq(Msg) /\ <<>> \o <<lock_msg(Nick[c])>> = <<lock_msg(Nick[c])>>
      OBVIOUS
    <3>2. OnlyLast(<<lock_msg(Nick[c])>>, NotLocks)
      <4> HIDE DEF OnlyLast
      <4> QED BY ONLY <1>5, <3>1, StreamParts
    <3>3. ToSet(<<lock_msg(Nick[c])>>) = {lock_msg(Nick[c])}
      BY ONLY <1>5, Contents
    <3>4. c2s'[c] = <<lock_msg(Nick[c])>>
      BY ONLY <1>4, <2>1, <3>1
    <3> QED BY <3>2, <3>3, <3>4
  <2>3. \A m \in ToSet(c2s'[c]) : SaysOne(c, m)'
    BY <1>5, <2>2 DEF SaysOne
  <2> QED BY <1>4, <2>1, <2>2, <2>3 DEF SaysOK, Departed
<1>8. c \in ToSet(backlog) => s2c'[c] = <<>>
  BY <1>4 DEF Polite, WaitOK
<1> QED BY <1>1, <1>2, <1>3, <1>4, <1>6, <1>7, <1>8, OneMoves DEF Departed

\* What it says when it finishes the line, and where it goes.
LEMMA FinishSays ==
    ASSUME Known, Polite, spc \notin Ended, NEW c \in Clients, FinishLine(c),
           UNCHANGED serverVars
    PROVE  /\ cpc[c] = "typing" /\ NetworkTypeOK /\ ClientTypeOK
           /\ c2s[c] \in Seq(Msg) /\ UNCHANGED <<backlog, peer_names>>
           /\ s2c'[c] = s2c[c] /\ Apart(c) /\ UNCHANGED <<srvSide, spc>>
           /\ \/ c2s'[c] = c2s[c] /\ cpc'[c] = "select"
              \/ \E m \in Msg : /\ c2s'[c] = c2s[c] \o <<m>>
                                /\ \/ /\ m.type \in {"WRITE_ARBITRARY", "COUNTDOWN_N"}
                                      /\ cpc'[c] = "select"
                                   \/ m = goodbye_msg(Nick[c]) /\ cpc'[c] = "leaving"
<1>1. /\ cpc[c] = "typing" /\ NetworkTypeOK /\ ClientTypeOK /\ cliSide[c] = "open"
      /\ c2s[c] \in Seq(Msg) /\ UNCHANGED <<backlog, peer_names>>
  <2>1. cpc[c] = "typing" /\ cpc[c] \in LivePCs
    BY DEF FinishLine, LivePCs
  <2> QED BY <2>1, LiveFacts, TurnFacts DEF FinishLine
<1>2. PICK line \in Script[c][typed[c] + 1] :
        LET buf == parse_cmdline(line, Nick[c]) IN
        IF buf = <<>>
        THEN cpc' = [cpc EXCEPT ![c] = "select"] /\ UNCHANGED <<c2s, cliSide, s2c, srvSide>>
        ELSE Writes(c, buf, s2c[c], IF classify(buf) = "GOODBYE" THEN "leaving" ELSE "select")
  BY DEF FinishLine
<1>3. /\ line \in Lines
      /\ typed[c] < Len(Script[c])
  <2>1. typed[c] < Len(Script[c])
    BY <1>1 DEF Known, IndTypeOK, LinesOwed
  <2>2. typed[c] + 1 \in 1..Len(Script[c]) /\ Script[c] \in Seq(SUBSET Lines)
    BY <1>1, <2>1, ClientAssumption DEF ClientTypeOK
  <2>3. Script[c][typed[c] + 1] \in SUBSET Lines
    BY <2>2
  <2> QED BY <2>1, <2>3
<1>4. \/ c2s'[c] = c2s[c] /\ cpc'[c] = "select"
      \/ \E m \in Msg : /\ c2s'[c] = c2s[c] \o <<m>>
                        /\ \/ /\ m.type \in {"WRITE_ARBITRARY", "COUNTDOWN_N"}
                              /\ cpc'[c] = "select"
                           \/ m = goodbye_msg(Nick[c]) /\ cpc'[c] = "leaving"
  <2>1. CASE parse_cmdline(line, Nick[c]) = <<>>
    BY <1>1, <1>2, <2>1 DEF ClientTypeOK
  <2>2. ASSUME NEW m \in Msg, parse_cmdline(line, Nick[c]) = <<m>>
        PROVE  /\ c2s'[c] = c2s[c] \o <<m>>
               /\ cpc'[c] = IF m.type = "GOODBYE" THEN "leaving" ELSE "select"
    <3>1. <<m>> # <<>> /\ Head(<<m>>) = m
      OBVIOUS
    <3>2. PICK next, buf : /\ next = IF m.type = "GOODBYE" THEN "leaving" ELSE "select"
                           /\ buf = <<m>> /\ Writes(c, buf, s2c[c], next)
      BY <1>2, <2>2, <3>1 DEF classify
    <3>3. Writes(c, buf, s2c[c], next)
      BY <3>2
    <3>4. /\ c2s' = [c2s EXCEPT ![c] = @ \o buf]
          /\ s2c' = [s2c EXCEPT ![c] = s2c[c]]
          /\ cpc' = [cpc EXCEPT ![c] = next]
          /\ UNCHANGED <<srvSide, cliSide>>
      BY <1>1, <3>3, OpenWrites
    <3> QED BY <1>1, <3>2, <3>4 DEF NetworkTypeOK, ClientTypeOK
  <2>3. /\ goodbye_msg(Nick[c]) \in Msg /\ goodbye_msg(Nick[c]).type = "GOODBYE"
        /\ write_msg \in Msg /\ write_msg.type = "WRITE_ARBITRARY"
        /\ countdown_n_msg(line.n) \in Msg /\ countdown_n_msg(line.n).type = "COUNTDOWN_N"
    BY <1>3, NetworkAssumption DEF goodbye_msg, write_msg, countdown_n_msg, Named, Numbered,
       Msg, MsgTypes, Lines
  <2>4. \/ parse_cmdline(line, Nick[c]) \in {<<>>, <<goodbye_msg(Nick[c])>>, <<write_msg>>}
        \/ parse_cmdline(line, Nick[c]) = <<countdown_n_msg(line.n)>>
    BY <1>3 DEF parse_cmdline, Lines
  <2>5. CASE parse_cmdline(line, Nick[c]) = <<goodbye_msg(Nick[c])>>
    BY <2>2, <2>3, <2>5
  <2>6. CASE parse_cmdline(line, Nick[c]) = <<write_msg>>
    <3>1. c2s'[c] = c2s[c] \o <<write_msg>> /\ cpc'[c] = "select"
      BY <2>2, <2>3, <2>6
    <3> QED BY <2>3, <3>1
  <2>7. CASE parse_cmdline(line, Nick[c]) = <<countdown_n_msg(line.n)>>
    <3>1. c2s'[c] = c2s[c] \o <<countdown_n_msg(line.n)>> /\ cpc'[c] = "select"
      BY <2>2, <2>3, <2>7
    <3> QED BY <2>3, <3>1
  <2> QED BY <2>1, <2>4, <2>5, <2>6, <2>7
<1>5. s2c'[c] = s2c[c] /\ Apart(c) /\ UNCHANGED <<srvSide, spc>>
  <2>1. CASE parse_cmdline(line, Nick[c]) = <<>>
    BY <1>1, <1>2, <2>1 DEF Apart, ClientTypeOK, serverVars
  <2>2. CASE parse_cmdline(line, Nick[c]) # <<>>
    <3>1. PICK next, buf : Writes(c, buf, s2c[c], next)
      BY <1>2, <2>2
    <3>2. /\ c2s' = [c2s EXCEPT ![c] = @ \o buf]
          /\ s2c' = [s2c EXCEPT ![c] = s2c[c]]
          /\ cpc' = [cpc EXCEPT ![c] = next]
          /\ UNCHANGED <<srvSide, cliSide>>
      BY <1>1, <3>1, OpenWrites
    <3> QED BY <1>1, <3>2 DEF Apart, NetworkTypeOK, ClientTypeOK, serverVars
  <2> QED BY <2>1, <2>2
<1> QED BY <1>1, <1>4, <1>5

\* Whatever it says is the last of it.
LEMMA FinishTurn ==
    ASSUME Known, Polite, spc \notin Ended, NEW c \in Clients, FinishLine(c),
           UNCHANGED serverVars
    PROVE  Polite'
<1>1. /\ cpc[c] = "typing" /\ NetworkTypeOK /\ c2s[c] \in Seq(Msg) /\ UNCHANGED backlog
      /\ s2c'[c] = s2c[c] /\ Apart(c) /\ UNCHANGED <<srvSide, spc>>
  BY FinishSays
\* The locks it has sent, while it types.
<1>2. c \in Members => /\ c \in Busy /\ s2c[c] = <<>> /\ spc # "pong"
                       /\ \A m \in ToSet(c2s[c]) : m.type = "PEER_LOCK"
  <2> SUFFICES ASSUME c \in Members
               PROVE  /\ c \in Busy /\ s2c[c] = <<>> /\ spc # "pong"
                      /\ \A m \in ToSet(c2s[c]) : m.type = "PEER_LOCK"
    OBVIOUS
  <2>1. c \in Busy /\ spc \notin ForAll
    BY <1>1 DEF Busy, Talk, Polite
  <2>2. SaysOK(c) /\ spc # "pong"
    BY <2>1 DEF Polite, ForAll
  <2> QED BY <1>1, <2>1, <2>2 DEF SaysOK, SaysOne, Talk, Departed
<1>3. \/ c2s'[c] = c2s[c] /\ cpc'[c] = "select"
      \/ \E m \in Msg : /\ c2s'[c] = c2s[c] \o <<m>>
                        /\ \/ /\ m.type \in {"WRITE_ARBITRARY", "COUNTDOWN_N"}
                              /\ cpc'[c] = "select"
                           \/ m = goodbye_msg(Nick[c]) /\ cpc'[c] = "leaving"
  BY FinishSays
<1>4. HearsOK(c)'
  <2>1. c \in Members => \A m \in ToSet(s2c[c]) : m.type \notin {"PING", "SHUTDOWN"}
    BY <1>2, Silence
  <2>2. c \notin Members => \A m \in ToSet(s2c[c]) : m.type \notin {"PING", "SHUTDOWN"}
    <3>1. spc = "pong" => Meta(j) \in Members
      BY TurnFacts DEF Known, InLoop
    <3> QED BY <3>1 DEF Polite, HearsOK, HearsOne
  <2> QED BY <1>1, <2>1, <2>2 DEF HearsOK, HearsOne, OnlyLast, Polite
<1>5. c \in Members => SaysOK(c)'
  <2> SUFFICES ASSUME c \in Members PROVE SaysOK(c)'
    OBVIOUS
  <2>1. SaysOK(c)
    BY DEF Polite
  <2>2. CASE c2s'[c] = c2s[c] /\ cpc'[c] = "select"
    <3>1. \A m \in ToSet(c2s'[c]) : SaysOne(c, m)'
      BY <1>2, <2>2 DEF SaysOne
    <3> QED BY <2>1, <2>2, <3>1 DEF SaysOK, Talk, Departed
  <2>3. ASSUME NEW m \in Msg, c2s'[c] = c2s[c] \o <<m>>,
               \/ m.type \in {"WRITE_ARBITRARY", "COUNTDOWN_N"} /\ cpc'[c] = "select"
               \/ m = goodbye_msg(Nick[c]) /\ cpc'[c] = "leaving"
        PROVE  SaysOK(c)'
    <3>1. /\ ToSet(c2s'[c]) = ToSet(c2s[c]) \cup {m}
          /\ OnlyLast(c2s'[c], NotLocks)
      <4>1. \A x \in ToSet(c2s[c]) : x.type \notin NotLocks
        BY <1>2 DEF NotLocks
      <4>2. /\ ToSet(c2s[c] \o <<m>>) = ToSet(c2s[c]) \cup {m}
            /\ OnlyLast(c2s[c] \o <<m>>, NotLocks)
        <5> HIDE DEF OnlyLast
        <5> QED BY <1>1, <4>1, StreamParts
      <4> QED BY <2>3, <4>2
    <3>2. SaysOne(c, m)'
      BY <2>3 DEF SaysOne, Talk, Departed
    <3>3. \A x \in ToSet(c2s'[c]) : SaysOne(c, x)'
      BY <1>2, <3>1, <3>2 DEF SaysOne
    <3>4. cpc'[c] \in Departed => \E x \in ToSet(c2s'[c]) : x.type = "GOODBYE"
      BY <2>3, <3>1 DEF Departed, goodbye_msg, Named
    <3>5. cpc'[c] # "exited" /\ s2c'[c] = <<>>
      BY <1>1, <1>2, <2>3
    <3> QED BY <3>1, <3>3, <3>4, <3>5 DEF SaysOK
  <2> QED BY <1>3, <2>2, <2>3
<1>6. /\ c \in ToSet(backlog) => s2c'[c] = <<>>
      /\ c \notin Arriving
  BY <1>1 DEF Polite, WaitOK
<1>7. cpc'[c] \notin {"off", "deaf", "crashed"} /\ cpc[c] \notin Departed
  BY <1>1, <1>3 DEF Departed
<1> QED BY <1>1, <1>2, <1>4, <1>5, <1>6, <1>7, OneMoves

\* One that has said goodbye has heard everything, and exits.
LEMMA LeaveTurn ==
    ASSUME Known, Polite, spc \notin Ended, NEW c \in Clients, Leave(c), UNCHANGED serverVars
    PROVE  Polite'
<1>1. /\ cpc[c] = "leaving" /\ NetworkTypeOK /\ ClientTypeOK /\ srvSide[c] = "open"
      /\ Ends(c, "exited", s2c[c]) /\ UNCHANGED <<c2s, cliSide, backlog>>
  <2>1. cpc[c] = "leaving" /\ cpc[c] \in LivePCs
    BY DEF Leave, LivePCs
  <2> QED BY <2>1, LiveFacts, TurnFacts DEF Leave
<1>2. /\ cpc'[c] = "exited" /\ s2c'[c] = <<>> /\ c2s'[c] = c2s[c]
      /\ srvSide'[c] = IF Arrived(c, s2c[c]) = <<>> THEN "fin" ELSE "reset"
      /\ Apart(c)
  BY <1>1 DEF Ends, Apart, Closed, NetworkTypeOK, ClientTypeOK
<1>3. HearsOK(c)'
  <2>1. ToSet(<<>>) = {} /\ OnlyLast(<<>>, {"PING"})
    <3>1. <<>> \in Seq(Msg)
      OBVIOUS
    <3> HIDE DEF OnlyLast
    <3> QED BY <3>1, StreamParts, Contents
  <2> QED BY <1>2, <2>1 DEF HearsOK
<1>4. c \in Members => SaysOK(c)' /\ c \in Busy
  <2> SUFFICES ASSUME c \in Members PROVE SaysOK(c)' /\ c \in Busy
    OBVIOUS
  <2>1. c \in Busy /\ spc \notin ForAll /\ SaysOK(c)
    BY <1>1 DEF Busy, Talk, Departed, Polite
  <2>2. s2c[c] = <<>> /\ srvSide'[c] = "fin"
    <3>1. s2c[c] = <<>> /\ s2c[c] \in Seq(Msg)
      BY <1>1, <2>1 DEF SaysOK, Talk, Departed, NetworkTypeOK
    <3>2. Arrived(c, s2c[c]) = <<>>
      BY <1>1, <3>1, ArrivedHead
    <3> QED BY <1>2, <3>1, <3>2
  <2>3. \A m : SaysOne(c, m) => SaysOne(c, m)'
    BY <1>1, <1>2, <2>1 DEF SaysOne, Talk, Departed, ForAll
  <2>4. ToErase' = ToErase
    BY DEF serverVars, ToErase, Meta
  <2> QED BY <1>1, <1>2, <2>1, <2>2, <2>3, <2>4 DEF SaysOK, Departed
<1>5. c \notin Arriving
  BY <1>1 DEF Polite, WaitOK
<1> QED BY <1>1, <1>2, <1>3, <1>4, <1>5, OneMoves DEF Departed

\* A client that cannot connect.
LEMMA NoServerTurn ==
    ASSUME Known, Polite, spc \notin Ended, NEW c \in Clients, ConnectFails(c),
           UNCHANGED serverVars
    PROVE  Polite'
<1>1. /\ cpc[c] = "off" /\ ClientTypeOK /\ UNCHANGED netVars
      /\ cpc' = [cpc EXCEPT ![c] = "exited"]
  BY TurnFacts DEF ConnectFails
<1>2. cpc'[c] = "exited" /\ Apart(c) /\ UNCHANGED <<s2c, c2s, srvSide, backlog>>
  BY <1>1 DEF Apart, ClientTypeOK, netVars
<1>3. c \notin Members /\ c \notin ToSet(backlog)
  BY <1>1 DEF Known, OnePlaceEach, Members
<1>4. c \notin Arriving
  BY <1>3 DEF Arriving
<1>5. HearsOK(c)'
  <2>1. UNCHANGED <<spc, i, j, client_metas>> /\ HearsOK(c)
    BY DEF serverVars, Polite
  <2> QED BY <1>2, <2>1 DEF HearsOK, HearsOne, Meta
<1> QED BY <1>2, <1>3, <1>4, <1>5, OneMoves DEF Departed

\* A client that connects while all is quiet has said hello.
LEMMA ConnectTurn ==
    ASSUME Known, Polite, NEW c \in Clients, Connect(c), Quiet, UNCHANGED serverVars
    PROVE  Polite'
<1>1. /\ spc = "select" /\ spc \notin Ended /\ spc \notin ForAll /\ Busy = {} /\ Arriving = {}
      /\ delete_idxs = <<>> /\ ToErase = {}
      /\ \A d \in Members : c2s[d] = <<>> /\ s2c[d] = <<>> /\ cpc[d] = "select"
  BY QuietFacts
<1>2. /\ NetworkTypeOK /\ ClientTypeOK /\ Members \subseteq Clients
      /\ backlog \in Seq(Clients) /\ ToSet(backlog) \subseteq Clients
      /\ cpc[c] = "off" /\ backlog' = Append(backlog, c)
      /\ c \notin Members /\ c \notin ToSet(backlog) /\ IsInjective(backlog)
  BY <1>1, TurnFacts DEF NetworkTypeOK, Known, OnePlaceEach, Members, Connect
<1>3. /\ cpc'[c] = "select" /\ c2s'[c] = <<hello_msg(Nick[c])>> /\ srvSide'[c] = "open"
      /\ \A d \in Clients \ {c} : /\ cpc'[d] = cpc[d] /\ c2s'[d] = c2s[d]
                                  /\ srvSide'[d] = srvSide[d]
      /\ UNCHANGED s2c
  BY <1>2 DEF Connect, NetworkTypeOK, ClientTypeOK
<1>4. /\ UNCHANGED <<spc, client_metas, rtts, i, j, delete_idxs>>
      /\ Members' = Members /\ ToErase' = ToErase
  BY DEF serverVars, Members, ToErase, Meta
<1>5. ToSet(backlog') = ToSet(backlog) \cup {c} /\ Len(backlog') = Len(backlog) + 1
      /\ Len(backlog) \in Nat
  BY <1>2, AppendDistinct, AppendProperties, LenProperties
<1>6. /\ c \notin Connected /\ Connected' = Connected \cup {c} /\ IsFiniteSet(Connected)
      /\ IsFiniteSet(Connected') /\ Cardinality(Connected') = Cardinality(Connected) + 1
  <2>1. c \notin Connected /\ IsFiniteSet(Connected)
    BY <1>2 DEF Polite, WaitOK, Connected
  <2>2. Connected' = Connected \cup {c}
    BY <1>3 DEF Connected
  <2> QED BY <2>1, <2>2, FS_AddElement
<1>7. Held' = Held
  <2>1. Cardinality(Connected) \in Nat
    BY <1>6, FS_CardinalityType
  <2>2. Held = Cardinality(Connected) - Len(backlog)
        /\ Held' = Cardinality(Connected') - Len(backlog')
    BY DEF Held, Connected
  <2> QED BY <1>5, <1>6, <2>1, <2>2
<1>8. Arriving' \subseteq {c}
  <2>1. CASE Held < MaxSocks
    <3>1. ToSet(backlog) = {}
      BY <1>1, <2>1 DEF Arriving
    <3> QED BY <1>5, <1>7, <2>1, <3>1 DEF Arriving
  <2>2. CASE ~(Held < MaxSocks)
    BY <1>7, <2>2 DEF Arriving
  <2> QED BY <2>1, <2>2
<1>9. \A d \in Members' : SaysOK(d)' /\ d \notin Busy'
  <2> SUFFICES ASSUME NEW d \in Members PROVE SaysOK(d)' /\ d \notin Busy'
    BY <1>4
  <2>1. d \in Clients \ {c} /\ d \notin Arriving'
    BY <1>2, <1>8
  <2>2. c2s'[d] = <<>> /\ cpc'[d] \in {"select", "pinging"}
    BY <1>1, <1>3, <2>1
  <2> QED BY <2>1, <2>2, SaysNothing
<1>10. \A d, e \in Busy' : d = e
  <2>1. Busy' \subseteq Arriving' \cup Members'
    BY DEF Busy
  <2> QED BY <1>8, <1>9, <2>1
<1>11. \A d \in Clients : cpc'[d] \notin {"deaf", "crashed"} /\ HearsOK(d)'
  <2> SUFFICES ASSUME NEW d \in Clients
               PROVE  cpc'[d] \notin {"deaf", "crashed"} /\ HearsOK(d)'
    OBVIOUS
  <2>1. /\ cpc[d] \notin {"deaf", "crashed"} /\ HearsOK(d)
        /\ \A m \in ToSet(s2c[d]) : m.type \notin {"PING", "SHUTDOWN"}
    BY <1>1, Silence DEF Polite
  <2>2. cpc'[d] \notin {"deaf", "crashed"}
    BY <1>3, <2>1
  <2> QED BY <1>3, <2>1, <2>2 DEF HearsOK, HearsOne
<1>12. WaitOK'
  <2>1. \A d \in ToSet(backlog') : s2c'[d] = <<>>
    BY <1>2, <1>3, <1>5 DEF Polite, WaitOK, Known, JoinOK
  <2>2. \A d \in Arriving' : cpc'[d] = "select" /\ c2s'[d] = <<hello_msg(Nick[d])>>
    BY <1>3, <1>8
  <2>3. \A d \in Clients : cpc'[d] = "off" => srvSide'[d] = "none"
    BY <1>3 DEF Polite, WaitOK
  <2> QED BY <1>6, <2>1, <2>2, <2>3 DEF WaitOK
<1>13. EraseOK' /\ RoundsOK'
  BY <1>1, <1>4 DEF EraseOK, RoundsOK
<1> QED BY <1>1, <1>4, <1>9, <1>10, <1>11, <1>12, <1>13 DEF Polite

\* No client of a living server is anything but polite.
LEMMA ClientTurn ==
    ASSUME RecvMax = 1, Killable = {}, Closing = {}, Known, Polite, spc \notin Ended,
           NEW c \in Clients, ClientRuns(c) \/ UserActs(c), Begins(c) => Quiet,
           UNCHANGED serverVars
    PROVE  Polite'
<1>1. ~CloseInput(c) /\ ~Killed(c)
  BY DEF CloseInput, Killed
<1>2. ~LockAtEnd(c)
  BY DEF LockAtEnd, Polite
<1>3. CASE ClientRecvThrows(c) \/ OnMessage(c) \/ PingTurn(c)
  BY <1>3, ClientReads, ReadsTurn
<1> QED
  BY <1>1, <1>2, <1>3, LeaveTurn, ConnectTurn, NoServerTurn, StartTurn, FinishTurn
     DEF ClientRuns, UserActs, Begins

\* Whom the server has still to write to goes on reading, and no step of a client
\* brings an error to the server's notice.
LEMMA ClientWritesOn ==
    ASSUME RecvMax = 1, Killable = {}, Closing = {}, Known, spc # "crashed", WritesOn,
           spc \notin Leaves => Polite,
           NEW c \in Clients, ClientRuns(c) \/ UserActs(c), Begins(c) => Quiet,
           UNCHANGED serverVars
    PROVE  WritesOn'
<1>1. /\ spc' = spc /\ StepOf(c)
  BY ClientTraffic DEF serverVars, Known
<1>2. UNCHANGED unsent
  BY DEF ClientRuns, UserActs, LockAtEnd, Leave, ClientRecvThrows, OnMessage, OnShutdown, OnPing,
     OnPingInit, OnPeer, OnLock, OnOrder, OnOther, PingTurn, Connect, ConnectFails, StartTyping,
     FinishLine, CloseInput, Killed, netVars
<1>3. \A d \in Clients \ {c} : cpc'[d] = cpc[d] /\ srvSide'[d] = srvSide[d]
  BY <1>1 DEF StepOf, Apart
<1>4. CASE spc = "exited"
  <2>1. Flowing
    BY <1>4 DEF Known, IndTypeOK, EndKnown
  <2> QED BY <1>2, <2>1, HoldsNothing
<1>5. CASE spc = "closing"
  <2>1. srvSide[c] # "broken" => srvSide'[c] # "broken"
    <3> SUFFICES ASSUME srvSide[c] # "broken" PROVE srvSide'[c] # "broken"
      OBVIOUS
    <3>1. srvSide \in [Clients -> Sides] /\ IndTypeOK
      BY DEF Known, IndTypeOK, TypeOK, NetworkTypeOK
    <3>2. ASSUME NEW how, NEW unread, Ends(c, how, unread) PROVE srvSide'[c] # "broken"
      BY <3>1, <3>2 DEF Ends, Closed
    <3>3. ASSUME NEW buf, NEW unread, NEW next, Writes(c, buf, unread, next)
          PROVE  srvSide'[c] # "broken"
      <4>1. CASE srvSide' = srvSide
        BY <4>1
      <4>2. CASE Ends(c, "crashed", unread)
        BY <3>2, <4>2
      <4> QED BY <3>3, <4>1, <4>2 DEF Writes
    <3>4. CASE srvSide' = srvSide
      BY <3>4
    <3>5. CASE Connect(c)
      BY <3>1, <3>5 DEF Connect
    <3>6. CASE OnMessage(c)
      <4>1. PICK buf \in Chunks(s2c[c], cliSide[c]) :
              \/ OnShutdown(c, buf) \/ OnPing(c, buf) \/ OnPingInit(c, buf)
              \/ OnPeer(c, buf) \/ OnLock(c, buf) \/ OnOrder(c, buf)
              \/ OnOther(c, buf)
        BY <3>1, <3>6, OnMessageRead
      <4>2. CASE OnShutdown(c, buf)
        BY <3>2, <4>2 DEF OnShutdown
      <4>3. CASE OnPing(c, buf)
        BY <3>3, <4>3 DEF OnPing
      <4> QED BY <3>4, <4>1, <4>2, <4>3 DEF OnPingInit, OnPeer, OnLock, OnOrder, OnOther
    <3>7. CASE PingTurn(c)
      <4>1. PICK next : \/ \E buf : Writes(c, buf, After(s2c[c], buf), next)
                        \/ UNCHANGED srvSide
        BY <3>7 DEF PingTurn
      <4> QED BY <3>3, <3>4, <4>1
    <3>8. CASE LockAtEnd(c) \/ StartTyping(c) \/ FinishLine(c)
      <4>1. \/ \E buf, unread, next : Writes(c, buf, unread, next)
            \/ UNCHANGED srvSide
        BY <3>8 DEF LockAtEnd, StartTyping, FinishLine
      <4> QED BY <3>3, <3>4, <4>1
    <3>9. CASE Leave(c) \/ ClientRecvThrows(c) \/ Killed(c)
      BY <3>2, <3>9 DEF Leave, ClientRecvThrows, Killed
    <3>10. CASE ConnectFails(c) \/ CloseInput(c)
      BY <3>4, <3>10 DEF ConnectFails, CloseInput, netVars
    <3> QED BY <3>5, <3>6, <3>7, <3>8, <3>9, <3>10 DEF ClientRuns, UserActs
  <2> QED BY <1>1, <1>2, <1>3, <1>5, <2>1 DEF WritesOn
<1>6. CASE spc \notin Leaves
  <2>1. spc \notin Ended /\ spc # "closing" /\ ClientTypeOK
    BY <1>6 DEF Leaves, Ended, Known, IndTypeOK, TypeOK
  <2>2. unsent[c] > 0 => cpc[c] \in {"select", "pinging"} /\ ~Begins(c)
    <3>1. ~(0 > 0)
      OBVIOUS
    <3> QED BY <2>1, <3>1 DEF WritesOn, Quiet, Flowing
  <2>3. cpc[c] \in {"select", "pinging"} /\ ~Begins(c) => cpc'[c] \in {"select", "pinging"}
    <3> SUFFICES ASSUME cpc[c] \in {"select", "pinging"}, ~Begins(c)
                 PROVE  cpc'[c] \in {"select", "pinging"}
      OBVIOUS
    <3>1. ClientRecvThrows(c) \/ OnMessage(c) \/ PingTurn(c)
      BY DEF ClientRuns, UserActs, LockAtEnd, Leave, ConnectFails, FinishLine, CloseInput, Killed,
         Begins
    <3> QED BY <1>6, <2>1, <3>1, ClientReads DEF Reads
  <2> QED BY <1>1, <1>2, <1>3, <2>1, <2>2, <2>3 DEF WritesOn
<1> QED BY <1>4, <1>5, <1>6 DEF Leaves

-----------------------------------------------------------------------------
(* Who knows whom *)

\* The nicknames in the messages of this type.
Heads(stream, type) == {m.nick : m \in {x \in ToSet(stream) : x.type = type}}

\* What a client will know once it has read what is on its way to it.
Told(d) == (peer_names[d] \cup Heads(s2c[d], "HELLO")) \ Heads(s2c[d], "GOODBYE")

Later(d, e) == \E k, l \in Indices : k < l /\ Meta(k) = d /\ Meta(l) = e

\* Its hello has been passed on and its goodbye has not.
Introduced(c) == Heads(c2s[c], "HELLO") = {} /\ c \notin ToErase

Peers(d) == {Nick[e] : e \in {x \in Members : Later(d, x) /\ Introduced(x)}}

\* News is on its way to the members while nobody has any of its own.
Knowing ==
    /\ \A c \in Clients : cpc[c] = "off" \/ c \in ToSet(backlog) => peer_names[c] = {}
    /\ \A c \in Members : Heads(s2c[c], "HELLO") = {} \/ Heads(s2c[c], "GOODBYE") = {}
    /\ Busy # {} => \A c \in Members :
            /\ Heads(s2c[c], "HELLO") = {}
            /\ delete_idxs = <<>> => Heads(s2c[c], "GOODBYE") = {}
    /\ \A d \in Members : cpc[d] \notin Departed => Told(d) = Peers(d)

RosterOK == spc \notin Leaves => Knowing

NicksDiffer == \A c, d \in Clients : Nick[c] = Nick[d] => c = d

LEMMA HeadsOf ==
    ASSUME NEW s \in Seq(Msg), NEW type
    PROVE  /\ Heads(<<>>, type) = {}
           /\ \A m \in Msg : Heads(s \o <<m>>, type) =
                    Heads(s, type) \cup (IF m.type = type THEN {m.nick} ELSE {})
           /\ s # <<>> => Heads(s, type) =
                    (IF Head(s).type = type THEN {Head(s).nick} ELSE {})
                        \cup Heads(Tail(s), type)
<1>1. Heads(<<>>, type) = {}
  BY Contents DEF Heads
<1>2. ASSUME NEW m \in Msg
      PROVE  Heads(s \o <<m>>, type) =
                Heads(s, type) \cup (IF m.type = type THEN {m.nick} ELSE {})
  <2>1. <<m>> \in Seq(Msg)
    OBVIOUS
  <2>2. ToSet(s \o <<m>>) = ToSet(s) \cup {m}
    BY <2>1, Contents
  <2> QED BY <2>2 DEF Heads
<1>3. ASSUME s # <<>>
      PROVE  Heads(s, type) = (IF Head(s).type = type THEN {Head(s).nick} ELSE {})
                                \cup Heads(Tail(s), type)
  <2>1. ToSet(s) = {Head(s)} \cup ToSet(Tail(s))
    <3>1. OnlyLast(<<>>, {})
      BY StreamParts
    <3> QED BY <1>3, <3>1, StreamParts
  <2> QED BY <2>1 DEF Heads
<1> QED BY <1>1, <1>2, <1>3

\* News reaches a stream only with a message that says it.
LEMMA HeadsAppend ==
    ASSUME NEW s \in Seq(Msg), NEW m \in Msg, NEW t, t = s \o <<m>>
    PROVE  /\ Heads(t, "HELLO") = Heads(s, "HELLO") \cup
                    (IF m.type = "HELLO" THEN {m.nick} ELSE {})
           /\ Heads(t, "GOODBYE") = Heads(s, "GOODBYE") \cup
                    (IF m.type = "GOODBYE" THEN {m.nick} ELSE {})
<1>1. ASSUME NEW type
      PROVE  Heads(s \o <<m>>, type) = Heads(s, type) \cup
                    (IF m.type = type THEN {m.nick} ELSE {})
  BY HeadsOf
<1> QED BY <1>1

LEMMA NoNews ==
    ASSUME NEW s \in Seq(Msg), NEW m \in Msg, NEW t, t = s \o <<m>>
    PROVE  /\ m.type # "HELLO" => Heads(t, "HELLO") = Heads(s, "HELLO")
           /\ m.type # "GOODBYE" => Heads(t, "GOODBYE") = Heads(s, "GOODBYE")
<1>1. /\ Heads(t, "HELLO") = Heads(s, "HELLO") \cup
                    (IF m.type = "HELLO" THEN {m.nick} ELSE {})
      /\ Heads(t, "GOODBYE") = Heads(s, "GOODBYE") \cup
                    (IF m.type = "GOODBYE" THEN {m.nick} ELSE {})
  BY HeadsAppend
<1> QED BY ONLY <1>1

\* Nor does it leave with another.
LEMMA HeadsTail ==
    ASSUME NEW s \in Seq(Msg), s # <<>>
    PROVE  /\ Heads(s, "HELLO") = Heads(Tail(s), "HELLO") \cup
                    (IF Head(s).type = "HELLO" THEN {Head(s).nick} ELSE {})
           /\ Heads(s, "GOODBYE") = Heads(Tail(s), "GOODBYE") \cup
                    (IF Head(s).type = "GOODBYE" THEN {Head(s).nick} ELSE {})
<1>1. ASSUME NEW type
      PROVE  Heads(s, type) = Heads(Tail(s), type) \cup
                    (IF Head(s).type = type THEN {Head(s).nick} ELSE {})
  BY HeadsOf
<1> QED BY <1>1

\* What a step of the server tells the members.
LEMMA ServerSpeaks ==
    ASSUME RecvMax = 1, PingN >= 1, Known, WritesOn, Polite, ServerNext, UNCHANGED clientVars,
           spc \notin Leaves, spc' \notin Leaves
    PROVE  \/ Accept \/ Erase \/ Mutters
           \/ \E k \in Indices, m \in Msg :
                  /\ Dispatch(k) /\ Takes(k, m) /\ Relays(k, m)
                  /\ m.type \in {"HELLO", "GOODBYE"}
<1>1. spc \notin Ended
  BY ServerTraffic DEF Known, Ended
<1>2. CASE Select \/ AcceptFails \/ OperatorMistypes \/ DispatchEnds
  BY <1>2, PassTurn DEF Select, AcceptFails, OperatorMistypes, DispatchEnds
<1>3. ~(Flowing /\ OperatorQuits) /\ ~Exit /\ ~OrderFaults
  BY QuitTurn, OrderStands DEF Exit, Leaves
<1>6. Send => Mutters
  BY <1>1, SendTurn DEF Leaves
<1>4. CASE RecvThrows \/ PongFails
  <2>1. \E k \in Indices : srvSide[Meta(k)] = "reset"
    BY <1>4 DEF RecvThrows, PongFails, RecvFails, NextIndex, Known, InLoop
  <2> QED BY <1>1, <2>1, TurnFacts
<1>5. ASSUME NEW k \in Indices, Dispatch(k)
      PROVE  \/ Mutters
             \/ \E m \in Msg : /\ Takes(k, m) /\ Relays(k, m)
                              /\ m.type \in {"HELLO", "GOODBYE"}
  <2>1. PICK m \in Msg : Takes(k, m) /\ (Relays(k, m) \/ CountsDown(m))
    BY <1>5, DispatchTurn
  <2>2. CASE Relays(k, m) /\ m.type \in {"HELLO", "GOODBYE"}
    BY <2>1, <2>2
  <2>3. CASE CountsDown(m) \/ m.type \notin {"HELLO", "GOODBYE"}
    <3>1. delete_idxs = <<>> /\ m.type \notin {"HELLO", "GOODBYE"}
      BY <1>5, <2>3, DispatchTurn DEF CountsDown
    <3>2. /\ UNCHANGED <<client_metas, backlog, srvSide>> /\ delete_idxs' = <<>>
          /\ \A c \in Clients : s2c'[c] = s2c[c] \/ s2c'[c] = s2c[c] \o <<m>>
      BY <2>1, <3>1 DEF Takes, Relays, CountsDown, Appends
    <3>3. \A c \in Members : \/ c2s'[c] = c2s[c]
                            \/ /\ c2s[c] # <<>> /\ Head(c2s[c]).type # "HELLO"
                               /\ c2s'[c] = Tail(c2s[c])
      BY <1>1, <2>1, <3>1, TurnFacts DEF Takes, NetworkTypeOK
    <3> QED BY <3>1, <3>2, <3>3 DEF Mutters
  <2> QED BY <2>1, <2>2, <2>3
<1> QED BY <1>2, <1>3, <1>4, <1>5, <1>6, PingTurnOK, PongTurn, OrderTurn, UnlockTurn
       DEF ServerNext, ServerActs

\* The members and their order stay, and so does who has been introduced.
LEMMA SamePeers ==
    ASSUME UNCHANGED client_metas, ToErase' = ToErase,
           \A x \in Members : Heads(c2s'[x], "HELLO") = {} <=> Heads(c2s[x], "HELLO") = {}
    PROVE  /\ Members' = Members /\ Indices' = Indices /\ \A k : Meta(k)' = Meta(k)
           /\ \A d : Peers(d)' = Peers(d)
<1>1. Members' = Members /\ Indices' = Indices /\ \A k : Meta(k)' = Meta(k)
  BY DEF Members, Indices, Meta
<1>2. \A d, e : Later(d, e)' <=> Later(d, e)
  BY <1>1 DEF Later
<1>3. \A x \in Members : Introduced(x)' <=> Introduced(x)
  BY DEF Introduced
<1> QED BY <1>1, <1>2, <1>3 DEF Peers

LEMMA MutterKnows ==
    ASSUME Known, Polite, Knowing, Mutters, ServerNext, UNCHANGED clientVars
    PROVE  Knowing'
<1>1. /\ spc \notin Ended /\ NetworkTypeOK /\ Members \subseteq Clients
      /\ ToSet(backlog) \subseteq Clients
      /\ UNCHANGED <<client_metas, backlog, srvSide, delete_idxs, cpc, peer_names>>
  BY ServerTraffic, TurnFacts DEF Known, Ended, Mutters, clientVars
<1>2. ASSUME NEW c \in Clients
      PROVE  /\ Heads(s2c'[c], "HELLO") = Heads(s2c[c], "HELLO")
             /\ Heads(s2c'[c], "GOODBYE") = Heads(s2c[c], "GOODBYE")
  <2>1. s2c[c] \in Seq(Msg)
    BY <1>1 DEF NetworkTypeOK
  <2>2. CASE s2c'[c] = s2c[c]
    BY <2>2
  <2>3. ASSUME NEW m \in Msg, m.type \notin {"HELLO", "GOODBYE"}, s2c'[c] = s2c[c] \o <<m>>
        PROVE  /\ Heads(s2c'[c], "HELLO") = Heads(s2c[c], "HELLO")
               /\ Heads(s2c'[c], "GOODBYE") = Heads(s2c[c], "GOODBYE")
    <3>1. PICK s, t : s = s2c[c] /\ t = s2c'[c]
      OBVIOUS
    <3>2. s \in Seq(Msg) /\ t = s \o <<m>>
      BY <2>1, <2>3, <3>1
    <3>3. Heads(t, "HELLO") = Heads(s, "HELLO") /\ Heads(t, "GOODBYE") = Heads(s, "GOODBYE")
      BY ONLY <2>3, <3>2, NoNews
    <3> QED BY <3>1, <3>3
  <2> QED BY <2>2, <2>3 DEF Mutters
<1>3. \A x \in Members : Heads(c2s'[x], "HELLO") = Heads(c2s[x], "HELLO")
  <2> SUFFICES ASSUME NEW x \in Members
               PROVE  Heads(c2s'[x], "HELLO") = Heads(c2s[x], "HELLO")
    OBVIOUS
  <2>1. c2s[x] \in Seq(Msg)
    BY <1>1 DEF NetworkTypeOK
  <2>2. c2s[x] # <<>> /\ Head(c2s[x]).type # "HELLO" =>
            Heads(c2s[x], "HELLO") = Heads(Tail(c2s[x]), "HELLO")
    BY ONLY <2>1, HeadsTail
  <2> QED BY <2>2 DEF Mutters
<1>4. ToErase' = ToErase
  BY <1>1 DEF ToErase, Meta
<1>5. Members' = Members /\ \A d : Peers(d)' = Peers(d)
  BY <1>1, <1>3, <1>4, SamePeers
<1>6. \A d \in Members : Told(d)' = Told(d)
  BY <1>1, <1>2 DEF Told
<1>7. Busy' # {} => Busy # {}
  <2>1. Arriving' = Arriving
    BY <1>1 DEF Arriving, Held
  <2>2. \A c \in Clients : ToSet(c2s'[c]) \subseteq ToSet(c2s[c])
    BY ServerTraffic DEF Known
  <2>3. Busy' \subseteq Busy
    BY <1>1, <1>5, <2>1, <2>2 DEF Busy
  <2> QED BY <2>3
<1> QED BY <1>1, <1>2, <1>5, <1>6, <1>7 DEF Knowing

LEMMA AcceptKnows ==
    ASSUME Known, Polite, Knowing, Accept, UNCHANGED clientVars
    PROVE  Knowing'
<1>0. PICK c : c = Head(backlog)
  OBVIOUS
<1>1. /\ spc = "accept" /\ spc \notin Ended /\ backlog # <<>> /\ Held < MaxSocks
      /\ UNCHANGED <<c2s, delete_idxs, cpc, peer_names>>
      /\ client_metas' = Append(client_metas, c)
  BY <1>0 DEF Accept, Ended, clientVars
<1>2. /\ NetworkTypeOK /\ PingN \in Int /\ client_metas \in Seq(Clients)
      /\ Members \subseteq Clients /\ ToSet(backlog) \subseteq Clients
  BY <1>1, TurnFacts, ServerAssumption DEF ServerTypeOK
<1>3. /\ c \in Clients /\ c \in ToSet(backlog) /\ c \notin Members
      /\ Members' = Members \cup {c} /\ ToSet(backlog') = ToSet(backlog) \ {c}
  BY <1>0, AcceptPlaces DEF Known, Members
\* It is the client that is dealt with.
<1>4. /\ c \in Arriving /\ Busy # {} /\ delete_idxs = <<>> /\ ToErase = {} /\ ToErase' = {}
      /\ peer_names[c] = {} /\ s2c[c] = <<>> /\ c2s[c] = <<hello_msg(Nick[c])>>
      /\ srvSide[c] = "open"
  <2>1. c \in Arriving
    BY <1>1, <1>3 DEF Arriving
  <2>2. delete_idxs = <<>>
    BY <1>1 DEF Polite, EraseOK
  <2>3. ToErase = {} /\ ToErase' = {}
    BY <1>1, <2>2, EmptySeq DEF ToErase
  <2> QED BY <1>1, <1>3, <2>1, <2>2, <2>3, TurnFacts DEF Busy, Knowing, Polite, WaitOK
<1>5. /\ ping_init_msg(PingN) \in Msg
      /\ ping_init_msg(PingN).type \notin {"HELLO", "GOODBYE"}
      /\ hello_msg(Nick[c]) \in Msg /\ hello_msg(Nick[c]).type = "HELLO"
  BY <1>2, <1>3, NetworkAssumption DEF ping_init_msg, hello_msg, Named, Numbered, Msg, MsgTypes
<1>6. /\ s2c'[c] = s2c[c] \o <<ping_init_msg(PingN)>>
      /\ \A d \in Clients \ {c} : s2c'[d] = s2c[d]
  BY <1>0, <1>3, <1>4 DEF Accept, Written
<1>7. ASSUME NEW d \in Clients
      PROVE  /\ Heads(s2c'[d], "HELLO") = Heads(s2c[d], "HELLO")
             /\ Heads(s2c'[d], "GOODBYE") = Heads(s2c[d], "GOODBYE")
  <2>1. CASE d = c
    <3>1. s2c[c] \in Seq(Msg)
      BY <1>2, <1>3 DEF NetworkTypeOK
    <3>2. PICK s, t, m : s = s2c[c] /\ t = s2c'[c] /\ m = ping_init_msg(PingN)
      OBVIOUS
    <3>3. /\ s \in Seq(Msg) /\ m \in Msg /\ t = s \o <<m>>
          /\ m.type # "HELLO" /\ m.type # "GOODBYE"
      BY <1>5, <1>6, <3>1, <3>2
    <3>4. Heads(t, "HELLO") = Heads(s, "HELLO") /\ Heads(t, "GOODBYE") = Heads(s, "GOODBYE")
      BY ONLY <3>3, NoNews
    <3> QED BY <2>1, <3>2, <3>4
  <2>2. CASE d # c
    BY <1>6, <2>2
  <2> QED BY <2>1, <2>2
<1>8. Heads(s2c[c], "HELLO") = {} /\ Heads(s2c[c], "GOODBYE") = {}
  <2>1. <<>> \in Seq(Msg)
    OBVIOUS
  <2> QED BY <1>4, <2>1, HeadsOf
<1>9. Heads(c2s[c], "HELLO") # {}
  <2>1. ToSet(c2s[c]) = {hello_msg(Nick[c])}
    BY <1>4, <1>5, Contents
  <2> QED BY <1>5, <2>1 DEF Heads
<1>10. ASSUME NEW d, NEW e \in Members
       PROVE  /\ d \in Members => (Later(d, e)' <=> Later(d, e))
              /\ ~Later(c, e)'
  <2>0. PICK L : L = Len(client_metas)
    OBVIOUS
  <2>1. /\ L \in Nat /\ Len(client_metas') = L + 1 /\ client_metas'[L + 1] = c
        /\ \A k \in 1..L : client_metas'[k] = client_metas[k]
    BY <1>1, <1>2, <1>3, <2>0, AppendProperties, LenProperties
  <2>2. Indices = 0..(L - 1) /\ Indices' = 0..L
    <3>1. (L + 1) - 1 = L
      BY <2>1
    <3> QED BY <2>0, <2>1, <3>1 DEF Indices
  <2>3. /\ \A k \in Indices : k + 1 \in 1..L
        /\ \A k \in Indices' : k \in Indices \/ k = L
        /\ \A k \in Indices : k \in Indices'
    BY <2>1, <2>2
  <2>4. (\A k \in Indices : Meta(k)' = Meta(k)) /\ Meta(L)' = c
    <3>1. \A k \in Indices : Meta(k)' = Meta(k)
      BY <2>1, <2>3 DEF Meta
    <3>2. Meta(L)' = client_metas'[L + 1]
      BY DEF Meta
    <3> QED BY <2>1, <3>1, <3>2
  <2>5. \A k \in Indices : Meta(k) \in Members
    BY <1>1, TurnFacts
  <2>6. \A k, l \in Indices' : k < l /\ Meta(l)' = e => k \in Indices /\ l \in Indices
    <3> SUFFICES ASSUME NEW k \in Indices', NEW l \in Indices', k < l, Meta(l)' = e
                 PROVE  k \in Indices /\ l \in Indices
      OBVIOUS
    <3>1. l \in Indices
      <4>1. c # e /\ (l \in Indices \/ l = L)
        BY <1>3, <2>3
      <4> QED BY <2>4, <4>1
    <3>2. k \in Indices
      BY <2>1, <2>2, <3>1
    <3> QED BY <3>1, <3>2
  <2> QED BY <1>3, <2>3, <2>4, <2>5, <2>6 DEF Later
<1>11. ~Introduced(c)' /\ \A x \in Members : Introduced(x)' <=> Introduced(x)
  BY <1>1, <1>4, <1>9 DEF Introduced
<1>12. ASSUME NEW d \in Members', cpc'[d] \notin Departed PROVE Told(d)' = Peers(d)'
  <2>1. CASE d = c
    <3>1. Told(c)' = {}
      BY <1>1, <1>3, <1>4, <1>7, <1>8 DEF Told
    <3>2. Peers(c)' = {}
      BY <1>3, <1>10, <1>11 DEF Peers
    <3> QED BY <2>1, <3>1, <3>2
  <2>2. CASE d # c
    <3>1. d \in Members /\ d \in Clients /\ Told(d) = Peers(d)
      BY <1>1, <1>2, <1>3, <1>12, <2>2 DEF Knowing
    <3>2. Told(d)' = Told(d)
      BY <1>1, <1>7, <3>1 DEF Told
    <3>3. {x \in Members' : Later(d, x)' /\ Introduced(x)'}
            = {x \in Members : Later(d, x) /\ Introduced(x)}
      BY <1>3, <1>10, <1>11, <3>1
    <3>4. Peers(d)' = Peers(d)
      BY <3>3 DEF Peers
    <3> QED BY <3>1, <3>2, <3>4
  <2> QED BY <2>1, <2>2
<1>13. \A d \in Members' : Heads(s2c'[d], "HELLO") = {} /\ Heads(s2c'[d], "GOODBYE") = {}
  <2> SUFFICES ASSUME NEW d \in Members'
               PROVE  Heads(s2c'[d], "HELLO") = {} /\ Heads(s2c'[d], "GOODBYE") = {}
    OBVIOUS
  <2>1. CASE d = c
    BY <1>3, <1>7, <1>8, <2>1
  <2>2. CASE d # c
    BY <1>2, <1>3, <1>4, <1>7, <2>2 DEF Knowing
  <2> QED BY <2>1, <2>2
<1>14. \A d \in Clients : cpc'[d] = "off" \/ d \in ToSet(backlog') => peer_names'[d] = {}
  BY <1>1, <1>3 DEF Knowing
<1> QED BY <1>12, <1>13, <1>14 DEF Knowing

\* A hello or a goodbye goes to everybody but the one it is from, who says
\* nothing else.
News(c, m) ==
    /\ c \in Members /\ Members \subseteq Clients /\ Busy = {c}
    /\ spc = "scan" /\ spc \notin Ended /\ delete_idxs = <<>> /\ ToErase = {}
    /\ Members' = Members /\ Indices' = Indices /\ \A l : Meta(l)' = Meta(l)
    /\ UNCHANGED <<cpc, peer_names, backlog>>
    /\ \/ m = hello_msg(Nick[c]) /\ cpc[c] = "select" /\ c = Meta(Len(client_metas) - 1)
       \/ m = goodbye_msg(Nick[c]) /\ cpc[c] \in Departed
    /\ c2s[c] = <<m>> /\ c2s'[c] = <<>>
    /\ \A d \in Members \ {c} : c2s[d] = <<>> /\ c2s'[d] = <<>>
    /\ \A d \in Members : Heads(s2c[d], "HELLO") = {} /\ Heads(s2c[d], "GOODBYE") = {}
    /\ s2c'[c] = s2c[c]
    /\ \A d \in Members \ {c} : s2c[d] \in Seq(Msg) /\ s2c'[d] = s2c[d] \o <<m>>
    /\ Arriving' = {}

LEMMA NewsFacts ==
    ASSUME RecvMax = 1, PingN >= 1, Known, Polite, Knowing, UNCHANGED clientVars,
           NEW k \in Indices, NEW m \in Msg, Dispatch(k), Takes(k, m), Relays(k, m),
           m.type \in {"HELLO", "GOODBYE"}, NEW c, c = Meta(k)
    PROVE  News(c, m)
<1>1. /\ Busy = {c} /\ delete_idxs = <<>> /\ ToErase = {}
  <2>1. Busy = {c} /\ delete_idxs = <<>>
    BY DispatchTurn
  <2> QED BY <2>1, EmptySeq DEF ToErase
<1>2. /\ spc = "scan" /\ spc \notin Ended /\ c2s[c] # <<>> /\ m = Head(c2s[c])
      /\ c2s' = [c2s EXCEPT ![c] = Tail(@)] /\ Appends(Members \ {c}, m)
      /\ UNCHANGED <<client_metas, backlog, srvSide, cpc, peer_names>>
  BY DEF Takes, Relays, Appends, Ended, clientVars
<1>3. /\ NetworkTypeOK /\ c \in Members /\ Members \subseteq Clients
      /\ Members' = Members /\ Indices' = Indices /\ \A l : Meta(l)' = Meta(l)
  BY <1>2, TurnFacts DEF Members, Indices, Meta
<1>4. /\ c2s[c] \in Seq(Msg) /\ c2s'[c] = Tail(c2s[c])
      /\ \A d \in Clients : s2c[d] \in Seq(Msg)
      /\ \A d \in Clients \ {c} : c2s'[d] = c2s[d]
  BY <1>2, <1>3 DEF NetworkTypeOK
<1>5. /\ s2c'[c] = s2c[c]
      /\ \A d \in Members \ {c} : s2c'[d] = s2c[d] \o <<m>>
  BY <1>2, <1>3 DEF Appends
<1>6. c2s[c] = <<m>> /\ c2s'[c] = <<>> /\ SaysOne(c, m)
  <2>1. OnlyLast(c2s[c], NotLocks) /\ m.type \in NotLocks
    BY <1>3 DEF Polite, SaysOK, NotLocks, MsgTypes
  <2>2. c2s[c] = <<m>> /\ m \in ToSet(c2s[c])
    <3> HIDE DEF OnlyLast
    <3> QED BY <1>2, <1>4, <2>1, StreamParts
  <2>3. Tail(<<m>>) = <<>>
    OBVIOUS
  <2> QED BY <1>3, <1>4, <2>2, <2>3 DEF Polite, SaysOK
<1>7. \/ m = hello_msg(Nick[c]) /\ cpc[c] = "select" /\ c = Meta(Len(client_metas) - 1)
      \/ m = goodbye_msg(Nick[c]) /\ cpc[c] \in Departed
  BY <1>6 DEF SaysOne
<1>8. \A d \in Members \ {c} : c2s[d] = <<>> /\ c2s'[d] = <<>>
  <2>1. \A d \in Members \ {c} : c2s[d] = <<>>
    BY <1>1, <1>2, Silence
  <2> QED BY <1>3, <1>4, <2>1
<1>9. \A d \in Members : Heads(s2c[d], "HELLO") = {} /\ Heads(s2c[d], "GOODBYE") = {}
  BY <1>1 DEF Knowing
<1>10. Arriving' = {}
  <2>1. Arriving \subseteq {c} /\ c \notin ToSet(backlog) /\ Arriving \subseteq ToSet(backlog)
    BY <1>1, <1>2, <1>3, TurnFacts DEF Busy
  <2>2. Arriving' = Arriving
    BY <1>2 DEF Arriving, Held
  <2> QED BY <2>1, <2>2
<1>11. \A d \in Members \ {c} : s2c[d] \in Seq(Msg)
  BY <1>3, <1>4
<1> QED BY <1>1, <1>2, <1>3, <1>5, <1>6, <1>7, <1>8, <1>9, <1>10, <1>11 DEF News

\* The last to join says hello: from now on those before it know of it.
LEMMA HelloKnows ==
    ASSUME RecvMax = 1, PingN >= 1, Known, Polite, Knowing, UNCHANGED clientVars,
           NEW k \in Indices, NEW m \in Msg, Dispatch(k), Takes(k, m), Relays(k, m),
           m.type = "HELLO"
    PROVE  Knowing'
<1>0. PICK c : c = Meta(k)
  OBVIOUS
<1>1. /\ c \in Members /\ Members \subseteq Clients /\ Busy = {c}
      /\ spc = "scan" /\ spc \notin Ended /\ delete_idxs = <<>> /\ ToErase = {}
      /\ Members' = Members /\ Indices' = Indices /\ \A l : Meta(l)' = Meta(l)
      /\ UNCHANGED <<cpc, peer_names, backlog>>
      /\ \/ m = hello_msg(Nick[c]) /\ cpc[c] = "select" /\ c = Meta(Len(client_metas) - 1)
         \/ m = goodbye_msg(Nick[c]) /\ cpc[c] \in Departed
      /\ c2s[c] = <<m>> /\ c2s'[c] = <<>>
      /\ \A d \in Members \ {c} : c2s[d] = <<>> /\ c2s'[d] = <<>>
      /\ \A d \in Members : Heads(s2c[d], "HELLO") = {} /\ Heads(s2c[d], "GOODBYE") = {}
      /\ s2c'[c] = s2c[c]
      /\ \A d \in Members \ {c} : s2c[d] \in Seq(Msg) /\ s2c'[d] = s2c[d] \o <<m>>
      /\ Arriving' = {}
  <2>1. News(c, m)
    BY <1>0, NewsFacts
  <2> QED BY <2>1 DEF News
<1>2. m = hello_msg(Nick[c]) /\ m.nick = Nick[c] /\ c = Meta(Len(client_metas) - 1)
      /\ cpc[c] = "select"
  BY <1>1 DEF hello_msg, goodbye_msg, Named
<1>3. /\ delete_idxs' = <<>> /\ ToErase' = {}
  <2>1. delete_idxs' = <<>>
    BY DEF Relays
  <2> QED BY <2>1, EmptySeq DEF ToErase
<1>4. Busy' = {}
  <2>1. ToSet(<<>>) = {}
    BY Contents
  <2>2. \A d \in Members \ {c} : cpc[d] \in {"select", "pinging"}
    BY <1>1, Silence
  <2>3. \A d \in Members' : c2s'[d] = <<>> /\ cpc'[d] \notin Talk
    BY <1>1, <1>2, <2>2 DEF Talk, Departed
  <2> QED BY <1>1, <2>1, <2>3 DEF Busy
<1>5. \A d \in Members \ {c} : /\ Heads(s2c'[d], "HELLO") = {Nick[c]}
                               /\ Heads(s2c'[d], "GOODBYE") = {}
  <2> SUFFICES ASSUME NEW d \in Members \ {c}
               PROVE  Heads(s2c'[d], "HELLO") = {Nick[c]} /\ Heads(s2c'[d], "GOODBYE") = {}
    OBVIOUS
  <2>1. PICK s, t : s = s2c[d] /\ t = s2c'[d]
    OBVIOUS
  <2>2. /\ s \in Seq(Msg) /\ t = s \o <<m>>
        /\ Heads(s, "HELLO") = {} /\ Heads(s, "GOODBYE") = {}
    BY <1>1, <2>1
  <2>3. /\ Heads(t, "HELLO") = {m.nick}
        /\ Heads(t, "GOODBYE") = {}
    <3>1. /\ Heads(t, "HELLO") = Heads(s, "HELLO") \cup
                    (IF m.type = "HELLO" THEN {m.nick} ELSE {})
          /\ Heads(t, "GOODBYE") = Heads(s, "GOODBYE") \cup
                    (IF m.type = "GOODBYE" THEN {m.nick} ELSE {})
      BY ONLY m \in Msg, <2>2, HeadsAppend
    <3> QED BY ONLY m.type = "HELLO", <2>2, <3>1
  <2> QED BY <1>2, <2>1, <2>3
<1>6. /\ \A d, e : Later(d, e)' <=> Later(d, e)
      /\ \A d : ~Later(c, d)
      /\ \A d \in Members \ {c} : Later(d, c)
  <2>1. \A d, e : Later(d, e)' <=> Later(d, e)
    BY <1>1 DEF Later
  <2>2. /\ Len(client_metas) \in Nat /\ Indices = 0..(Len(client_metas) - 1)
        /\ Len(client_metas) - 1 \in Indices
        /\ \A l \in Indices : l \in Int /\ l <= Len(client_metas) - 1
    <3>1. Len(client_metas) \in Nat /\ Indices = 0..(Len(client_metas) - 1)
      BY <1>1, TurnFacts, LenProperties DEF ServerTypeOK, Indices
    <3> QED BY <3>1
  <2>3. \A l \in Indices : Meta(l) = c => l = Len(client_metas) - 1
    BY <1>1, <1>2, <2>2, TurnFacts
  <2>4. \A d : ~Later(c, d)
    BY <2>2, <2>3 DEF Later
  <2>5. ASSUME NEW d \in Members \ {c} PROVE Later(d, c)
    <3>1. PICK l \in Indices : Meta(l) = d
      BY <1>1, TurnFacts
    <3>2. l # Len(client_metas) - 1
      BY <1>2, <3>1
    <3>3. l < Len(client_metas) - 1
      BY <2>2, <3>2
    <3> QED BY <1>2, <2>2, <3>1, <3>3 DEF Later
  <2> QED BY <2>1, <2>4, <2>5
<1>7. Introduced(c)' /\ \A x \in Members \ {c} : Introduced(x)' /\ Introduced(x)
  <2>1. Heads(<<>>, "HELLO") = {}
    <3>1. ToSet(<<>>) = {}
      BY Contents
    <3> QED BY <3>1 DEF Heads
  <2> QED BY <1>1, <1>3, <2>1 DEF Introduced
<1>8. ASSUME NEW d \in Members, cpc'[d] \notin Departed PROVE Told(d)' = Peers(d)'
  <2>1. Told(d) = Peers(d) /\ Told(d) = peer_names[d]
    BY <1>1, <1>8 DEF Knowing, Told
  <2>2. CASE d = c
    <3>1. Peers(d) = {} /\ Peers(d)' = {}
      BY <1>6, <2>2 DEF Peers
    <3> QED BY <1>1, <2>1, <2>2, <3>1 DEF Told
  <2>3. CASE d # c
    <3>1. Told(d)' = peer_names[d] \cup {Nick[c]}
      BY <1>1, <1>5, <2>3 DEF Told
    <3>2. {x \in Members' : Later(d, x)' /\ Introduced(x)'}
            = {x \in Members : Later(d, x) /\ Introduced(x)} \cup {c}
      BY <1>1, <1>6, <1>7, <2>3
    <3>3. Peers(d)' = Peers(d) \cup {Nick[c]}
      BY <3>2 DEF Peers
    <3> QED BY <2>1, <3>1, <3>3
  <2> QED BY <2>2, <2>3
<1>9. \A d \in Members : Heads(s2c'[d], "HELLO") = {} \/ Heads(s2c'[d], "GOODBYE") = {}
  BY <1>1, <1>5
<1>10. \A d \in Clients : cpc'[d] = "off" \/ d \in ToSet(backlog') => peer_names'[d] = {}
  BY <1>1 DEF Knowing
<1> QED BY <1>1, <1>4, <1>8, <1>9, <1>10 DEF Knowing

\* One who has gone says goodbye: those before it forget it.
LEMMA GoodbyeKnows ==
    ASSUME RecvMax = 1, PingN >= 1, NicksDiffer, Known, Polite, Knowing, UNCHANGED clientVars,
           NEW k \in Indices, NEW m \in Msg, Dispatch(k), Takes(k, m), Relays(k, m),
           m.type = "GOODBYE"
    PROVE  Knowing'
<1>0. PICK c : c = Meta(k)
  OBVIOUS
<1>1. /\ c \in Members /\ Members \subseteq Clients /\ Busy = {c}
      /\ spc = "scan" /\ spc \notin Ended /\ delete_idxs = <<>> /\ ToErase = {}
      /\ Members' = Members /\ Indices' = Indices /\ \A l : Meta(l)' = Meta(l)
      /\ UNCHANGED <<cpc, peer_names, backlog>>
      /\ \/ m = hello_msg(Nick[c]) /\ cpc[c] = "select" /\ c = Meta(Len(client_metas) - 1)
         \/ m = goodbye_msg(Nick[c]) /\ cpc[c] \in Departed
      /\ c2s[c] = <<m>> /\ c2s'[c] = <<>>
      /\ \A d \in Members \ {c} : c2s[d] = <<>> /\ c2s'[d] = <<>>
      /\ \A d \in Members : Heads(s2c[d], "HELLO") = {} /\ Heads(s2c[d], "GOODBYE") = {}
      /\ s2c'[c] = s2c[c]
      /\ \A d \in Members \ {c} : s2c[d] \in Seq(Msg) /\ s2c'[d] = s2c[d] \o <<m>>
      /\ Arriving' = {}
  <2>1. News(c, m)
    BY <1>0, NewsFacts
  <2> QED BY <2>1 DEF News
<1>2. m = goodbye_msg(Nick[c]) /\ m.nick = Nick[c] /\ cpc[c] \in Departed
  BY <1>1 DEF hello_msg, goodbye_msg, Named
<1>3. /\ delete_idxs' = <<k>> /\ delete_idxs' # <<>> /\ ToErase' = {c}
  <2>1. delete_idxs' = <<k>>
    BY DEF Relays
  <2>2. Len(<<k>>) = 1 /\ <<k>>[1] = k /\ 1 \in 1..1 /\ \A a \in 1..1 : a = 1
    OBVIOUS
  <2>3. \A a \in 1..Len(delete_idxs') : Meta(delete_idxs[a])' = c
    BY <1>0, <1>1, <2>1, <2>2
  <2>4. 1 \in 1..Len(delete_idxs') /\ Meta(delete_idxs[1])' = c
    BY <1>0, <1>1, <2>1, <2>2
  <2> QED BY <2>1, <2>3, <2>4 DEF ToErase
<1>4. \A d \in Members \ {c} : /\ Heads(s2c'[d], "HELLO") = {}
                               /\ Heads(s2c'[d], "GOODBYE") = {Nick[c]}
  <2> SUFFICES ASSUME NEW d \in Members \ {c}
               PROVE  Heads(s2c'[d], "HELLO") = {} /\ Heads(s2c'[d], "GOODBYE") = {Nick[c]}
    OBVIOUS
  <2>1. PICK s, t : s = s2c[d] /\ t = s2c'[d]
    OBVIOUS
  <2>2. /\ s \in Seq(Msg) /\ t = s \o <<m>>
        /\ Heads(s, "HELLO") = {} /\ Heads(s, "GOODBYE") = {}
    BY <1>1, <2>1
  <2>3. /\ Heads(t, "HELLO") = {}
        /\ Heads(t, "GOODBYE") = {m.nick}
    <3>1. /\ Heads(t, "HELLO") = Heads(s, "HELLO") \cup
                    (IF m.type = "HELLO" THEN {m.nick} ELSE {})
          /\ Heads(t, "GOODBYE") = Heads(s, "GOODBYE") \cup
                    (IF m.type = "GOODBYE" THEN {m.nick} ELSE {})
      BY ONLY m \in Msg, <2>2, HeadsAppend
    <3> QED BY ONLY m.type = "GOODBYE", <2>2, <3>1
  <2> QED BY <1>2, <2>1, <2>3
<1>5. \A d, e : Later(d, e)' <=> Later(d, e)
  BY <1>1 DEF Later
<1>6. ~Introduced(c)' /\ \A x \in Members \ {c} : Introduced(x)' /\ Introduced(x)
  <2>1. Heads(<<>>, "HELLO") = {}
    <3>1. ToSet(<<>>) = {}
      BY Contents
    <3> QED BY <3>1 DEF Heads
  <2> QED BY <1>1, <1>3, <2>1 DEF Introduced
<1>7. ASSUME NEW d \in Members, cpc'[d] \notin Departed PROVE Told(d)' = Peers(d)'
  <2>1. Told(d) = Peers(d) /\ Told(d) = peer_names[d] /\ d # c
    BY <1>1, <1>2, <1>7 DEF Knowing, Told
  <2>2. Told(d)' = peer_names[d] \ {Nick[c]}
    BY <1>1, <1>4, <2>1 DEF Told
  <2>3. {x \in Members' : Later(d, x)' /\ Introduced(x)'}
            = {x \in Members : Later(d, x) /\ Introduced(x)} \ {c}
    BY <1>1, <1>5, <1>6
  <2>4. \A x \in Members : Nick[x] = Nick[c] => x = c
    BY <1>1 DEF NicksDiffer
  <2>5. Peers(d)' = Peers(d) \ {Nick[c]}
    <3>1. Peers(d)' \subseteq Peers(d) \ {Nick[c]}
      BY <2>3, <2>4 DEF Peers
    <3>2. Peers(d) \ {Nick[c]} \subseteq Peers(d)'
      BY <2>3 DEF Peers
    <3> QED BY <3>1, <3>2
  <2> QED BY <2>1, <2>2, <2>5
<1>8. \A d \in Members : Heads(s2c'[d], "HELLO") = {}
  BY <1>1, <1>4
<1>9. \A d \in Clients : cpc'[d] = "off" \/ d \in ToSet(backlog') => peer_names'[d] = {}
  BY <1>1 DEF Knowing
<1> QED BY <1>1, <1>3, <1>7, <1>8, <1>9 DEF Knowing

\* One that is erased had said goodbye.
LEMMA EraseKnows ==
    ASSUME Known, Polite, Knowing, Erase, UNCHANGED clientVars
    PROVE  Knowing'
<1>1. PICK k \in Indices : /\ delete_idxs = <<k>> /\ delete_idxs' = <<>>
                           /\ cpc[Meta(k)] \in Departed /\ Busy = {Meta(k)}
                           /\ client_metas' = RemoveAt(client_metas, k + 1)
  BY EraseTurn
<1>2. PICK c \in Members : c = Meta(k)
  BY MetaFacts DEF Known, Members
<1>3. /\ UNCHANGED <<cpc, peer_names, backlog, s2c, c2s>> /\ Busy' = {} /\ spc \notin Ended
  BY EraseTurn DEF netVars, clientVars, Erase, Ended
<1>4. /\ Members' = Members \ {c}
      /\ \A l \in Indices' : /\ (IF l < k THEN l ELSE l + 1) \in Indices \ {k}
                             /\ Meta(l)' = Meta(IF l < k THEN l ELSE l + 1)
      /\ \A l \in Indices \ {k} : /\ (IF l < k THEN l ELSE l - 1) \in Indices'
                                  /\ Meta(l) = Meta(IF l < k THEN l ELSE l - 1)'
  BY <1>1, <1>2, ErasesOne DEF Known
<1>5. ToErase = {c} /\ ToErase' = {}
  <2>1. Len(<<k>>) = 1 /\ <<k>>[1] = k /\ 1 \in 1..1 /\ \A a \in 1..1 : a = 1
    OBVIOUS
  <2>2. ToErase = {c}
    BY <1>1, <1>2, <2>1 DEF ToErase
  <2>3. ToErase' = {}
    BY <1>1, EmptySeq DEF ToErase
  <2> QED BY <2>2, <2>3
<1>6. ASSUME NEW d \in Members', NEW e \in Members' PROVE Later(d, e)' <=> Later(d, e)
  <2>1. d # c /\ e # c
    BY <1>4
  <2>2. \A l \in Indices \cup Indices' : l \in Int
    BY DEF Indices
  <2>3. ASSUME Later(d, e)' PROVE Later(d, e)
    <3>1. PICK l \in Indices', m \in Indices' : l < m /\ Meta(l)' = d /\ Meta(m)' = e
      BY <2>3 DEF Later
    <3>2. PICK lo \in Indices, mo \in Indices :
            /\ lo = (IF l < k THEN l ELSE l + 1) /\ Meta(lo) = d
            /\ mo = (IF m < k THEN m ELSE m + 1) /\ Meta(mo) = e
      BY <1>4, <3>1
    <3>3. lo < mo
      BY ONLY <2>2, k \in Indices, l \in Indices', m \in Indices', <3>1, <3>2
    <3> QED BY <3>2, <3>3 DEF Later
  <2>4. ASSUME Later(d, e) PROVE Later(d, e)'
    <3>1. PICK l \in Indices, m \in Indices : l < m /\ Meta(l) = d /\ Meta(m) = e
      BY <2>4 DEF Later
    <3>2. l # k /\ m # k
      BY <1>2, <2>1, <3>1
    <3>3. PICK lo \in Indices', mo \in Indices' :
            /\ lo = (IF l < k THEN l ELSE l - 1) /\ Meta(lo)' = d
            /\ mo = (IF m < k THEN m ELSE m - 1) /\ Meta(mo)' = e
      BY <1>4, <3>1, <3>2
    <3>4. lo < mo
      BY ONLY <2>2, k \in Indices, l \in Indices, m \in Indices, <3>1, <3>2, <3>3
    <3> QED BY <3>3, <3>4 DEF Later
  <2> QED BY <2>3, <2>4
<1>7. ~Introduced(c) /\ \A x \in Members' : Introduced(x)' <=> Introduced(x)
  BY <1>3, <1>4, <1>5 DEF Introduced
<1>8. ASSUME NEW d \in Members', cpc'[d] \notin Departed PROVE Told(d)' = Peers(d)'
  <2>1. Told(d) = Peers(d) /\ Told(d)' = Told(d)
    BY <1>3, <1>4, <1>8 DEF Knowing, Told
  <2>2. {x \in Members' : Later(d, x)' /\ Introduced(x)'}
            = {x \in Members : Later(d, x) /\ Introduced(x)}
    BY <1>4, <1>6, <1>7
  <2>3. Peers(d)' = Peers(d)
    BY <2>2 DEF Peers
  <2> QED BY <2>1, <2>3
<1>9. \A d \in Members' : Heads(s2c'[d], "HELLO") = {} \/ Heads(s2c'[d], "GOODBYE") = {}
  BY <1>3, <1>4 DEF Knowing
<1>10. \A d \in Clients : cpc'[d] = "off" \/ d \in ToSet(backlog') => peer_names'[d] = {}
  BY <1>3 DEF Knowing
<1> QED BY <1>3, <1>8, <1>9, <1>10 DEF Knowing

LEMMA ServerKnows ==
    ASSUME RecvMax = 1, PingN >= 1, NicksDiffer, Known, WritesOn, Polite, Knowing, ServerNext,
           UNCHANGED clientVars, spc \notin Leaves, spc' \notin Leaves
    PROVE  Knowing'
<1>1. CASE \E k \in Indices, m \in Msg : /\ Dispatch(k) /\ Takes(k, m) /\ Relays(k, m)
                                         /\ m.type \in {"HELLO", "GOODBYE"}
  BY <1>1, HelloKnows, GoodbyeKnows
<1> QED BY <1>1, ServerSpeaks, AcceptKnows, EraseKnows, MutterKnows

\* A client's step tells nobody anything: what it knows and will be told adds up
\* to the same.
LEMMA OneKnows ==
    ASSUME Known, Polite, Knowing, spc \notin Ended, NEW c \in Clients,
           UNCHANGED serverVars, Apart(c),
           \A d \in Clients \ {c} : /\ peer_names'[d] = peer_names[d]
                                    /\ d \in ToSet(backlog') => d \in ToSet(backlog),
           cpc'[c] = "off" \/ c \in ToSet(backlog') => peer_names'[c] = {},
           c \in Members =>
                /\ Heads(c2s'[c], "HELLO") = Heads(c2s[c], "HELLO")
                /\ Heads(s2c'[c], "HELLO") \subseteq Heads(s2c[c], "HELLO")
                /\ Heads(s2c'[c], "GOODBYE") \subseteq Heads(s2c[c], "GOODBYE")
                /\ cpc'[c] \notin Departed => cpc[c] \notin Departed /\ Told(c)' = Told(c),
           Busy' = {} \/ Busy # {} \/ Quiet
    PROVE  Knowing'
<1>1. /\ UNCHANGED <<client_metas, delete_idxs>> /\ Members \subseteq Clients
      /\ ToErase' = ToErase
  BY TurnFacts DEF serverVars, ToErase, Meta
<1>2. \A d \in Clients \ {c} : cpc'[d] = cpc[d] /\ s2c'[d] = s2c[d] /\ c2s'[d] = c2s[d]
  BY DEF Apart
<1>3. \A d \in Members : Heads(c2s'[d], "HELLO") = Heads(c2s[d], "HELLO")
  BY <1>1, <1>2
<1>4. Members' = Members /\ \A d : Peers(d)' = Peers(d)
  BY <1>1, <1>3, SamePeers
<1>5. ASSUME NEW d \in Members
      PROVE  /\ Heads(s2c'[d], "HELLO") \subseteq Heads(s2c[d], "HELLO")
             /\ Heads(s2c'[d], "GOODBYE") \subseteq Heads(s2c[d], "GOODBYE")
             /\ cpc'[d] \notin Departed => Told(d)' = Peers(d)'
  <2>1. CASE d = c
    BY <1>4, <2>1 DEF Knowing
  <2>2. CASE d # c
    <3>1. d \in Clients \ {c}
      BY <1>1, <2>2
    <3>2. s2c'[d] = s2c[d] /\ cpc'[d] = cpc[d] /\ peer_names'[d] = peer_names[d]
      BY <1>2, <3>1
    <3> QED BY <1>4, <3>2 DEF Knowing, Told
  <2> QED BY <2>1, <2>2
<1>6. Busy' # {} => \A d \in Members : /\ Heads(s2c'[d], "HELLO") = {}
                                       /\ delete_idxs' = <<>> => Heads(s2c'[d], "GOODBYE") = {}
  <2>1. CASE Busy # {}
    BY <1>1, <1>5, <2>1 DEF Knowing
  <2>2. CASE Quiet
    <3> SUFFICES ASSUME NEW d \in Members
                 PROVE  Heads(s2c'[d], "HELLO") = {} /\ Heads(s2c'[d], "GOODBYE") = {}
      OBVIOUS
    <3>1. s2c[d] = <<>> /\ ToSet(<<>>) = {}
      BY <2>2, QuietFacts, Contents
    <3>2. Heads(s2c[d], "HELLO") = {} /\ Heads(s2c[d], "GOODBYE") = {}
      BY <3>1 DEF Heads
    <3> QED BY <1>5, <3>2
  <2> QED BY <2>1, <2>2
<1>7. \A d \in Members : Heads(s2c'[d], "HELLO") = {} \/ Heads(s2c'[d], "GOODBYE") = {}
  BY <1>5 DEF Knowing
<1>8. \A d \in Clients : cpc'[d] = "off" \/ d \in ToSet(backlog') => peer_names'[d] = {}
  BY <1>2 DEF Knowing
<1> QED BY <1>4, <1>5, <1>6, <1>7, <1>8 DEF Knowing

\* Whoever has to be dealt with had to be before.
LEMMA NobodyNew ==
    ASSUME Known, Polite, spc \notin Ended, NEW c \in Clients,
           UNCHANGED <<serverVars, backlog>>, Apart(c),
           srvSide[c] = "none" <=> srvSide'[c] = "none",
           c \in Members => c \in Busy \/ (cpc'[c] \notin Talk /\ c2s'[c] = c2s[c])
                                       \/ (cpc'[c] \notin Talk /\ \A m \in ToSet(c2s'[c]) : m.type = "PING")
    PROVE  Busy' = {} \/ Busy # {}
<1>1. UNCHANGED client_metas /\ Members' = Members /\ Members \subseteq Clients
  BY TurnFacts DEF serverVars, Members
<1>2. \A d \in Clients \ {c} : /\ cpc'[d] = cpc[d] /\ c2s'[d] = c2s[d]
                               /\ srvSide'[d] = srvSide[d]
  BY DEF Apart
<1>3. Arriving' = Arriving
  <2>1. \A d \in Clients : srvSide'[d] # "none" <=> srvSide[d] # "none"
    BY <1>2
  <2> QED BY <2>1 DEF Held, Arriving
<1>4. Busy' \subseteq Busy
  BY <1>1, <1>2, <1>3 DEF Busy
<1> QED BY <1>4

LEMMA ReadsKnows ==
    ASSUME Known, Polite, Knowing, spc \notin Ended, NEW c \in Clients, NEW m \in Msg,
           Reads(c, m), Learns(c, m), UNCHANGED serverVars
    PROVE  Knowing'
<1>1. /\ NetworkTypeOK /\ s2c[c] \in Seq(Msg) /\ c2s[c] \in Seq(Msg) /\ cpc[c] \in LivePCs
      /\ cpc[c] \notin Departed
  <2>1. cpc[c] \in LivePCs /\ cpc[c] \notin Departed
    BY DEF Reads, LivePCs, Departed
  <2> QED BY <2>1, LiveFacts, TurnFacts
<1>2. /\ s2c[c] # <<>> /\ m = Head(s2c[c]) /\ s2c'[c] = Tail(s2c[c])
      /\ UNCHANGED <<srvSide, cliSide, backlog>> /\ Apart(c)
      /\ cpc'[c] \in {"select", "pinging"}
      /\ \/ c2s'[c] = c2s[c]
         \/ m.type = "PING" /\ c2s'[c] = c2s[c] \o <<m>>
  BY <1>1 DEF Reads, Apart, NetworkTypeOK
<1>3. /\ Heads(s2c[c], "HELLO") = Heads(s2c'[c], "HELLO") \cup
                    (IF m.type = "HELLO" THEN {m.nick} ELSE {})
      /\ Heads(s2c[c], "GOODBYE") = Heads(s2c'[c], "GOODBYE") \cup
                    (IF m.type = "GOODBYE" THEN {m.nick} ELSE {})
  <2>1. /\ Heads(s2c[c], "HELLO") = Heads(Tail(s2c[c]), "HELLO") \cup
                    (IF Head(s2c[c]).type = "HELLO" THEN {Head(s2c[c]).nick} ELSE {})
        /\ Heads(s2c[c], "GOODBYE") = Heads(Tail(s2c[c]), "GOODBYE") \cup
                    (IF Head(s2c[c]).type = "GOODBYE" THEN {Head(s2c[c]).nick} ELSE {})
    BY ONLY <1>1, <1>2, HeadsTail
  <2> QED BY <1>2, <2>1
<1>4. c \in Members => Told(c)' = Told(c)
  <2> SUFFICES ASSUME c \in Members PROVE Told(c)' = Told(c)
    OBVIOUS
  <2>1. Heads(s2c[c], "HELLO") = {} \/ Heads(s2c[c], "GOODBYE") = {}
    BY DEF Knowing
  <2>2. PICK p, h, g, pp, hh, gg :
            /\ p = peer_names[c] /\ pp = peer_names'[c]
            /\ h = Heads(s2c[c], "HELLO") /\ hh = Heads(s2c'[c], "HELLO")
            /\ g = Heads(s2c[c], "GOODBYE") /\ gg = Heads(s2c'[c], "GOODBYE")
    OBVIOUS
  <2>3. /\ h = hh \cup (IF m.type = "HELLO" THEN {m.nick} ELSE {})
        /\ g = gg \cup (IF m.type = "GOODBYE" THEN {m.nick} ELSE {})
        /\ pp = IF m.type = "HELLO" THEN p \cup {m.nick}
                ELSE IF m.type = "GOODBYE" THEN p \ {m.nick} ELSE p
        /\ h = {} \/ g = {}
    BY <1>3, <2>1, <2>2 DEF Learns
  <2>4. (pp \cup hh) \ gg = (p \cup h) \ g
    <3>1. CASE m.type = "HELLO"
      BY ONLY <2>3, <3>1
    <3>2. CASE m.type = "GOODBYE"
      BY ONLY <2>3, <3>2
    <3>3. CASE m.type # "HELLO" /\ m.type # "GOODBYE"
      BY ONLY <2>3, <3>3
    <3> QED BY <3>1, <3>2, <3>3
  <2> QED BY <2>2, <2>4 DEF Told
<1>5. Heads(c2s'[c], "HELLO") = Heads(c2s[c], "HELLO")
  <2>1. CASE c2s'[c] = c2s[c]
    BY <2>1
  <2>2. CASE m.type = "PING" /\ c2s'[c] = c2s[c] \o <<m>>
    <3>1. PICK s, t : s = c2s[c] /\ t = c2s'[c]
      OBVIOUS
    <3>2. s \in Seq(Msg) /\ t = s \o <<m>>
      BY <1>1, <2>2, <3>1
    <3>3. Heads(t, "HELLO") = Heads(s, "HELLO")
      BY ONLY <2>2, <3>2, m \in Msg, NoNews
    <3> QED BY <3>1, <3>3
  <2> QED BY <1>2, <2>1, <2>2
<1>6. c \notin ToSet(backlog)
  BY <1>2 DEF Polite, WaitOK
<1>7. Busy' = {} \/ Busy # {}
  <2>1. cpc'[c] \notin Talk
    BY <1>2 DEF Talk, Departed
  <2>2. ASSUME c \in Members, c \notin Busy, m.type = "PING", c2s'[c] = c2s[c] \o <<m>>
        PROVE  \A x \in ToSet(c2s'[c]) : x.type = "PING"
    <3>1. ToSet(c2s'[c]) = ToSet(c2s[c]) \cup {m}
      <4>1. <<m>> \in Seq(Msg) /\ c2s[c] \in Seq(Msg)
        BY <1>1
      <4>2. ToSet(c2s[c] \o <<m>>) = ToSet(c2s[c]) \cup ToSet(<<m>>) /\ ToSet(<<m>>) = {m}
        BY ONLY <4>1, m \in Msg, Contents
      <4> QED BY ONLY <2>2, <4>2
    <3>2. \A x \in ToSet(c2s[c]) : x.type = "PING"
      BY <2>2, TurnFacts
    <3> QED BY <2>2, <3>1, <3>2
  <2> QED BY <1>2, <2>1, <2>2, NobodyNew
<1>8. \A d \in Clients \ {c} : peer_names'[d] = peer_names[d]
  BY DEF Learns
<1>9. cpc'[c] # "off"
  BY <1>2
<1> QED BY <1>1, <1>2, <1>3, <1>4, <1>5, <1>6, <1>7, <1>8, <1>9, OneKnows

LEMMA FinishKnows ==
    ASSUME Known, Polite, Knowing, spc \notin Ended, NEW c \in Clients, FinishLine(c),
           UNCHANGED serverVars
    PROVE  Knowing'
<1>1. /\ cpc[c] = "typing" /\ cpc[c] \notin Departed /\ NetworkTypeOK /\ c2s[c] \in Seq(Msg)
      /\ s2c'[c] = s2c[c] /\ Apart(c) /\ UNCHANGED <<srvSide, backlog, peer_names>>
      /\ cpc'[c] # "off"
  BY FinishSays DEF Departed
<1>2. \/ c2s'[c] = c2s[c]
      \/ \E m \in Msg : m.type # "HELLO" /\ c2s'[c] = c2s[c] \o <<m>>
  BY FinishSays DEF goodbye_msg, Named
<1>3. Heads(c2s'[c], "HELLO") = Heads(c2s[c], "HELLO")
  <2>1. CASE c2s'[c] = c2s[c]
    BY <2>1
  <2>2. ASSUME NEW m \in Msg, m.type # "HELLO", c2s'[c] = c2s[c] \o <<m>>
        PROVE  Heads(c2s'[c], "HELLO") = Heads(c2s[c], "HELLO")
    <3>1. PICK s, t : s = c2s[c] /\ t = c2s'[c]
      OBVIOUS
    <3>2. s \in Seq(Msg) /\ t = s \o <<m>>
      BY <1>1, <2>2, <3>1
    <3>3. Heads(t, "HELLO") = Heads(s, "HELLO")
      BY ONLY <2>2, <3>2, m \in Msg, NoNews
    <3> QED BY <3>1, <3>3
  <2> QED BY <1>2, <2>1, <2>2
<1>4. c \in Members => c \in Busy
  BY <1>1 DEF Busy, Talk
<1>5. Busy' = {} \/ Busy # {}
  BY <1>1, <1>4, NobodyNew
<1>6. /\ Told(c)' = Told(c)
      /\ c \in ToSet(backlog') => peer_names'[c] = {}
  BY <1>1 DEF Told, Knowing
<1> QED BY <1>1, <1>3, <1>5, <1>6, OneKnows

LEMMA StartKnows ==
    ASSUME Known, Polite, Knowing, NEW c \in Clients, StartTyping(c), Quiet,
           UNCHANGED serverVars
    PROVE  Knowing'
<1>1. spc \notin Ended
  BY QuietFacts
<1>2. /\ cpc[c] = "select" /\ NetworkTypeOK /\ ClientTypeOK /\ cliSide[c] = "open"
      /\ c2s[c] \in Seq(Msg) /\ Writes(c, <<lock_msg(Nick[c])>>, s2c[c], "typing")
      /\ UNCHANGED <<backlog, peer_names>>
  <2>1. cpc[c] = "select" /\ cpc[c] \in LivePCs
    BY DEF StartTyping, LivePCs
  <2> QED BY <1>1, <2>1, LiveFacts, TurnFacts DEF StartTyping
<1>3. /\ c2s' = [c2s EXCEPT ![c] = @ \o <<lock_msg(Nick[c])>>]
      /\ s2c' = [s2c EXCEPT ![c] = s2c[c]]
      /\ cpc' = [cpc EXCEPT ![c] = "typing"]
      /\ UNCHANGED <<srvSide, cliSide>>
  BY <1>2, OpenWrites
<1>4. /\ s2c'[c] = s2c[c] /\ cpc'[c] = "typing" /\ Apart(c)
      /\ c2s'[c] = c2s[c] \o <<lock_msg(Nick[c])>>
  BY <1>2, <1>3 DEF Apart, NetworkTypeOK, ClientTypeOK
<1>5. Heads(c2s'[c], "HELLO") = Heads(c2s[c], "HELLO")
  <2>1. PICK s, t, m : s = c2s[c] /\ t = c2s'[c] /\ m = lock_msg(Nick[c])
    OBVIOUS
  <2>2. m \in Msg /\ m.type = "PEER_LOCK"
    BY <2>1, NetworkAssumption DEF lock_msg, Named, Msg, MsgTypes
  <2>3. s \in Seq(Msg) /\ t = s \o <<m>>
    BY <1>2, <1>4, <2>1
  <2>4. Heads(t, "HELLO") = Heads(s, "HELLO")
    BY ONLY <2>2, <2>3, NoNews
  <2> QED BY <2>1, <2>4
<1>6. /\ Told(c)' = Told(c) /\ cpc[c] \notin Departed /\ cpc'[c] # "off"
      /\ c \in ToSet(backlog') => peer_names'[c] = {}
  BY <1>2, <1>4 DEF Told, Knowing, Departed
<1> QED BY <1>1, <1>2, <1>4, <1>5, <1>6, OneKnows

LEMMA LeaveKnows ==
    ASSUME Known, Polite, Knowing, spc \notin Ended, NEW c \in Clients, Leave(c),
           UNCHANGED serverVars
    PROVE  Knowing'
<1>1. /\ cpc[c] = "leaving" /\ NetworkTypeOK /\ ClientTypeOK /\ srvSide[c] = "open"
      /\ Ends(c, "exited", s2c[c]) /\ UNCHANGED <<c2s, cliSide, backlog, peer_names>>
  <2>1. cpc[c] = "leaving" /\ cpc[c] \in LivePCs
    BY DEF Leave, LivePCs
  <2> QED BY <2>1, LiveFacts, TurnFacts DEF Leave
<1>2. /\ cpc'[c] = "exited" /\ s2c'[c] = <<>> /\ c2s'[c] = c2s[c] /\ srvSide'[c] # "none"
      /\ Apart(c)
  BY <1>1 DEF Ends, Apart, Closed, NetworkTypeOK, ClientTypeOK
<1>3. Heads(s2c'[c], "HELLO") = {} /\ Heads(s2c'[c], "GOODBYE") = {}
  <2>1. ToSet(s2c'[c]) = {}
    BY <1>2, Contents
  <2> QED BY <2>1 DEF Heads
<1>4. c \in Members => c \in Busy
  BY <1>1 DEF Busy, Talk, Departed
<1>5. Busy' = {} \/ Busy # {}
  BY <1>1, <1>2, <1>4, NobodyNew
<1>6. /\ cpc'[c] \in Departed /\ cpc'[c] # "off"
      /\ c \in ToSet(backlog') => peer_names'[c] = {}
  BY <1>1, <1>2 DEF Knowing, Departed
<1> QED BY <1>1, <1>2, <1>3, <1>5, <1>6, OneKnows

LEMMA NoServerKnows ==
    ASSUME Known, Polite, Knowing, spc \notin Ended, NEW c \in Clients, ConnectFails(c),
           UNCHANGED serverVars
    PROVE  Knowing'
<1>1. /\ cpc[c] = "off" /\ ClientTypeOK /\ UNCHANGED <<netVars, peer_names>>
      /\ cpc' = [cpc EXCEPT ![c] = "exited"]
  BY TurnFacts DEF ConnectFails
<1>2. cpc'[c] = "exited" /\ Apart(c) /\ UNCHANGED <<s2c, c2s, srvSide, backlog>>
  BY <1>1 DEF Apart, ClientTypeOK, netVars
<1>3. c \notin Members /\ peer_names'[c] = {}
  BY <1>1 DEF Known, OnePlaceEach, Members, Knowing
<1>4. Busy' = {} \/ Busy # {}
  BY <1>2, <1>3, NobodyNew
<1> QED BY <1>1, <1>2, <1>3, <1>4, OneKnows

LEMMA ConnectKnows ==
    ASSUME Known, Polite, Knowing, NEW c \in Clients, Connect(c), Quiet, UNCHANGED serverVars
    PROVE  Knowing'
<1>1. spc \notin Ended
  BY QuietFacts
<1>2. /\ NetworkTypeOK /\ ClientTypeOK /\ backlog \in Seq(Clients)
      /\ cpc[c] = "off" /\ backlog' = Append(backlog, c) /\ UNCHANGED <<peer_names, s2c>>
      /\ c \notin Members
  BY <1>1, TurnFacts DEF NetworkTypeOK, Known, OnePlaceEach, Members, Connect
<1>3. Apart(c) /\ peer_names'[c] = {}
  BY <1>2 DEF Connect, Apart, NetworkTypeOK, ClientTypeOK, Knowing
<1>4. \A d \in Clients \ {c} : d \in ToSet(backlog') => d \in ToSet(backlog)
  <2>1. /\ Len(backlog) \in Nat /\ Len(backlog') = Len(backlog) + 1
        /\ backlog'[Len(backlog) + 1] = c
        /\ \A k \in 1..Len(backlog) : backlog'[k] = backlog[k]
        /\ DOMAIN backlog' = 1..(Len(backlog) + 1) /\ DOMAIN backlog = 1..Len(backlog)
    BY <1>2, AppendProperties, LenProperties
  <2> QED BY <2>1 DEF ToSet
<1> QED BY <1>1, <1>2, <1>3, <1>4, OneKnows

LEMMA ClientKnows ==
    ASSUME RecvMax = 1, Killable = {}, Closing = {}, Known, Polite, Knowing, spc \notin Ended,
           NEW c \in Clients, ClientRuns(c) \/ UserActs(c), Begins(c) => Quiet,
           UNCHANGED serverVars
    PROVE  Knowing'
<1>1. ~CloseInput(c) /\ ~Killed(c)
  BY DEF CloseInput, Killed
<1>2. ~LockAtEnd(c)
  BY DEF LockAtEnd, Polite
<1>3. CASE ClientRecvThrows(c) \/ OnMessage(c) \/ PingTurn(c)
  BY <1>3, ClientReads, ReadsKnows
<1> QED
  BY <1>1, <1>2, <1>3, LeaveKnows, ConnectKnows, NoServerKnows, StartKnows, FinishKnows
     DEF ClientRuns, UserActs, Begins

-----------------------------------------------------------------------------
(* What users who take turns may rely on *)

LEMMA TurnInvariant ==
    ASSUME RecvMax = 1, PingN >= 1, Killable = {}, Closing = {}
    PROVE  TurnSpec => [](Known /\ TurnOK)
<1>1. Init => TurnOK
  <2> SUFFICES ASSUME Init PROVE TurnOK
    OBVIOUS
  <2>1. /\ spc = "select" /\ client_metas = <<>> /\ delete_idxs = <<>> /\ backlog = <<>>
        /\ \A c \in Clients : /\ cpc[c] = "off" /\ s2c[c] = <<>> /\ srvSide[c] = "none"
                             /\ unsent[c] = 0
    BY DEF Init, NetworkInit, ServerInit, ClientInit
  <2>2. ToSet(<<>>) = {} /\ OnlyLast(<<>>, {"PING"})
    <3>1. <<>> \in Seq(Msg)
      OBVIOUS
    <3> HIDE DEF OnlyLast
    <3> QED BY <3>1, StreamParts, Contents
  <2>3. Members = {} /\ Arriving = {} /\ Connected = {} /\ Busy = {}
    BY <2>1, <2>2 DEF Members, Arriving, Connected, Busy
  <2>4. WaitOK
    BY <2>1, <2>2, <2>3, FS_EmptySet DEF WaitOK
  <2>5. \A c \in Clients : HearsOK(c)
    BY <2>1, <2>2 DEF HearsOK
  <2>6. Flowing
    BY <2>1 DEF Flowing
  <2>7. WritesOn
    BY <2>6 DEF WritesOn, Flowing
  <2> QED BY <2>1, <2>3, <2>4, <2>5, <2>7 DEF TurnOK, Polite, EraseOK, RoundsOK
<1>2. Known /\ TurnOK /\ [TurnNext]_vars => TurnOK'
  <2> SUFFICES ASSUME Known, TurnOK, [TurnNext]_vars PROVE TurnOK'
    OBVIOUS
  <2>1. CASE ServerNext /\ UNCHANGED clientVars
    <3>1. WritesOn /\ (spc \notin Leaves => Polite)
      BY DEF TurnOK
    <3> QED BY <2>1, <3>1, ServerTurn DEF TurnOK
  <2>2. CASE ClientNext /\ UNCHANGED serverVars /\ ((\E c \in Clients : Begins(c)) => Quiet)
    <3>1. PICK c \in Clients : ClientRuns(c) \/ UserActs(c)
      BY <2>2 DEF ClientNext
    <3>2. spc' = spc
      BY <2>2 DEF serverVars
    <3>3. WritesOn'
      BY <2>2, <3>1, ClientWritesOn DEF TurnOK
    <3>4. ASSUME spc \notin Leaves PROVE Polite'
      <4>1. spc \notin Ended /\ Polite
        BY <3>4 DEF TurnOK, Ended, Leaves
      <4> QED BY <2>2, <3>1, <4>1, ClientTurn
    <3> QED BY <3>2, <3>3, <3>4 DEF TurnOK
  <2>3. CASE UNCHANGED vars
    <3>1. /\ UNCHANGED <<spc, client_metas, delete_idxs, backlog, cpc, s2c, c2s, srvSide>>
          /\ UNCHANGED <<rtts, i, j>>
      BY <2>3 DEF vars, netVars, serverVars, clientVars
    <3>0. UNCHANGED <<unsent, rtts0>> /\ (WritesOn' <=> WritesOn)
      BY <2>3 DEF vars, netVars, serverVars, clientVars, WritesOn
    <3>2. /\ Members' = Members /\ Indices' = Indices /\ \A l : Meta(l)' = Meta(l)
          /\ ToErase' = ToErase /\ Connected' = Connected /\ Arriving' = Arriving
      BY <3>1 DEF Members, Indices, Meta, ToErase, Connected, Arriving, Held
    <3>3. Busy' = Busy
      BY <3>1, <3>2 DEF Busy
    <3>4. (\A c \in Clients : HearsOK(c)' <=> HearsOK(c)) /\ (\A c : SaysOK(c)' <=> SaysOK(c))
      BY <3>1, <3>2 DEF HearsOK, HearsOne, SaysOK, SaysOne, OnlyLast
    <3>5. (WaitOK' <=> WaitOK) /\ (EraseOK' <=> EraseOK) /\ (RoundsOK' <=> RoundsOK)
      BY <3>0, <3>1, <3>2 DEF WaitOK, EraseOK, RoundsOK
    <3> QED BY <3>0, <3>1, <3>2, <3>3, <3>4, <3>5 DEF TurnOK, Polite
  <2> QED BY <2>1, <2>2, <2>3 DEF TurnNext, Next
<1>3. TurnSpec => Spec
  <2>1. [TurnNext]_vars => [Next]_vars
    BY DEF TurnNext
  <2> QED BY <2>1, PTL DEF TurnSpec, Spec
<1> QED BY <1>1, <1>2, <1>3, DeliveryInvariant, PTL DEF TurnSpec, Known

\* While the users take turns, every message arrives alone, nobody is killed and
\* no standard input ends, the server outlives every countdown, write, quit and
\* mistyped line.
THEOREM Survival ==
    ASSUME RecvMax = 1, PingN >= 1, Killable = {}, Closing = {}
    PROVE  TurnSpec => []ServerSurvives
<1>1. TurnOK => ServerSurvives
  BY DEF TurnOK, ServerSurvives
<1> QED BY <1>1, TurnInvariant, PTL

\* Then the orders of a countdown only go out once every client has answered every
\* ping of that very countdown, so that no delay lacks a measurement it should have.
THEOREM RoundTrips ==
    ASSUME RecvMax = 1, PingN >= 1, Killable = {}, Closing = {}
    PROVE  TurnSpec => []AllRoundTrips
<1>1. Known /\ TurnOK => AllRoundTrips
  <2> SUFFICES ASSUME Known, TurnOK, spc = "order", NEW c \in Members
               PROVE  rtts[c] = rtts0[c] + PingN
    BY DEF AllRoundTrips, Members
  <2>1. Polite /\ spc \notin Ended
    BY DEF TurnOK, Ended, Leaves
  <2>2. PICK k \in Indices : c = Meta(k)
    BY <2>1, TurnFacts
  <2> QED BY <2>1, <2>2 DEF Polite, RoundsOK
<1> QED BY <1>1, TurnInvariant, PTL

LEMMA RosterInvariant ==
    ASSUME RecvMax = 1, PingN >= 1, Killable = {}, Closing = {}, NicksDiffer
    PROVE  TurnSpec => [](Known /\ TurnOK /\ RosterOK)
<1>1. Init => RosterOK
  <2> SUFFICES ASSUME Init PROVE Knowing
    BY DEF RosterOK
  <2>1. /\ client_metas = <<>> /\ backlog = <<>>
        /\ \A c \in Clients : peer_names[c] = {}
    BY DEF Init, NetworkInit, ServerInit, ClientInit
  <2>2. ToSet(<<>>) = {}
    BY Contents
  <2>3. Members = {}
    BY <2>1, <2>2 DEF Members
  <2> QED BY <2>1, <2>3 DEF Knowing
<1>2. Known /\ TurnOK /\ RosterOK /\ [TurnNext]_vars => RosterOK'
  <2> SUFFICES ASSUME Known, TurnOK, RosterOK, [TurnNext]_vars, spc' \notin Leaves
               PROVE  Knowing'
    BY DEF RosterOK
  <2>1. CASE ServerNext /\ UNCHANGED clientVars
    <3>1. WritesOn /\ spc \notin Leaves
      BY <2>1, ServerTurn DEF TurnOK
    <3>2. Polite /\ Knowing
      BY <3>1 DEF TurnOK, RosterOK
    <3> QED BY <2>1, <3>1, <3>2, ServerKnows
  <2>2. CASE ClientNext /\ UNCHANGED serverVars /\ ((\E c \in Clients : Begins(c)) => Quiet)
    <3>1. PICK c \in Clients : ClientRuns(c) \/ UserActs(c)
      BY <2>2 DEF ClientNext
    <3>2. spc' = spc
      BY <2>2 DEF serverVars
    <3>3. spc \notin Ended /\ Polite /\ Knowing
      BY <3>2 DEF TurnOK, RosterOK, Ended, Leaves
    <3> QED BY <2>2, <3>1, <3>3, ClientKnows
  <2>3. CASE UNCHANGED vars
    <3>1. /\ UNCHANGED <<spc, client_metas, delete_idxs, backlog, cpc, s2c, c2s, srvSide>>
          /\ UNCHANGED peer_names
      BY <2>3 DEF vars, netVars, serverVars, clientVars
    <3>2. Members' = Members /\ ToErase' = ToErase /\ Arriving' = Arriving
      BY <3>1 DEF Members, Meta, ToErase, Arriving, Held
    <3>3. Busy' = Busy /\ (\A d : Peers(d)' = Peers(d)) /\ \A d : Told(d)' = Told(d)
      BY <3>1, <3>2, SamePeers DEF Busy, Told
    <3>4. Knowing
      BY <3>1 DEF RosterOK
    <3> QED BY <3>1, <3>2, <3>3, <3>4 DEF Knowing
  <2> QED BY <2>1, <2>2, <2>3 DEF TurnNext, Next
<1> QED BY <1>1, <1>2, TurnInvariant, PTL DEF TurnSpec

\* Then also, if no two users chose the same nickname, a client knows exactly the
\* peers that joined after it and are still there, whenever all is quiet.
THEOREM RosterKnown ==
    ASSUME RecvMax = 1, PingN >= 1, Killable = {}, Closing = {}, NicksDiffer
    PROVE  TurnSpec => []RosterExact
<1>1. Known /\ TurnOK /\ RosterOK => RosterExact
  <2> SUFFICES ASSUME Known, TurnOK, RosterOK, Quiet, NEW k \in Indices
               PROVE  peer_names[Meta(k)] = {Nick[Meta(m)] : m \in {l \in Indices : l > k}}
    BY DEF RosterExact
  <2>1. Polite /\ Knowing /\ spc \notin Ended
    BY DEF TurnOK, RosterOK, Quiet, Ended, Leaves
  <2>2. PICK d \in Members : d = Meta(k)
    BY <2>1, TurnFacts
  <2>3. /\ ToErase = {} /\ \A c \in Members : Heads(c2s[c], "HELLO") = {}
        /\ Heads(s2c[d], "HELLO") = {} /\ Heads(s2c[d], "GOODBYE") = {}
        /\ cpc[d] \notin Departed
    <3>1. ToSet(<<>>) = {}
      BY Contents
    <3>2. ToErase = {} /\ \A c \in Members : c2s[c] = <<>> /\ s2c[c] = <<>> /\ cpc[c] = "select"
      BY <2>1, QuietFacts
    <3> QED BY <3>1, <3>2 DEF Heads, Departed
  <2>4. peer_names[d] = Peers(d)
    BY <2>1, <2>3 DEF Knowing, Told
  <2>5. {x \in Members : Later(d, x) /\ Introduced(x)}
            = {Meta(m) : m \in {l \in Indices : l > k}}
    <3>1. \A x \in Members : Introduced(x)
      BY <2>3 DEF Introduced
    <3>2. \A x : Later(d, x) <=> \E l \in Indices : k < l /\ Meta(l) = x
      BY <2>1, <2>2, TurnFacts DEF Later
    <3>3. \A l \in Indices : l \in Int /\ Meta(l) \in Members
      BY <2>1, TurnFacts DEF Indices
    <3>4. \A l \in Indices : l > k <=> k < l
      BY <3>3
    <3> QED BY <3>1, <3>2, <3>3, <3>4
  <2>6. Peers(d) = {Nick[Meta(m)] : m \in {l \in Indices : l > k}}
    BY <2>5 DEF Peers
  <2> QED BY <2>2, <2>4, <2>6
<1> QED BY <1>1, RosterInvariant, PTL
=============================================================================
