----------------------- MODULE NetworkCountdownProofs -----------------------
(***************************************************************************)
(* Theorems about NetworkCountdown for any clients, scripts, number of     *)
(* pings and size of a recv: its types; that a connection is in one place; *)
(* that the dispatch loop neither blocks nor erases the wrong client; what *)
(* a client is told first, whom the server forgets, and why the server may *)
(* die.  And the facts these and later theorems share: about               *)
(* sequences, about streams, and about what a step of either program does  *)
(* to what is on its way.                                                  *)
(***************************************************************************)
EXTENDS NetworkCountdown, SequenceTheorems, FiniteSetTheorems,
        WellFoundedInduction, TLAPS

-----------------------------------------------------------------------------
(* The network *)

\* What recvloop returns is a sequence of messages.
LEMMA ChunkType ==
    ASSUME NEW stream \in Seq(Msg), NEW side, NEW buf \in Chunks(stream, side)
    PROVE  /\ buf \in Seq(Msg)
           /\ buf # <<>> => Head(buf) \in Msg
           /\ classify(buf) # "MALFORMED" => Head(buf) \in Msg
<1>1. buf \in Seq(Msg)
  <2>1. CASE stream # <<>>
    <3>1. PICK k \in 1..Len(stream) : buf = SubSeq(stream, 1, k)
      BY <2>1 DEF Chunks
    <3>2. \A m \in 1..k : stream[m] \in Msg
      BY LenProperties
    <3> QED BY <3>1, <3>2, SubSeqProperties, LenProperties
  <2>2. CASE stream = <<>>
    BY <2>2 DEF Chunks
  <2> QED BY <2>1, <2>2
<1>2. buf # <<>> => Head(buf) \in Msg
  BY <1>1, HeadTailProperties
<1> QED BY <1>1, <1>2 DEF classify

\* What recvloop leaves is one too.
LEMMA AfterType ==
    ASSUME NEW stream \in Seq(Msg), NEW buf \in Seq(Msg)
    PROVE  After(stream, buf) \in Seq(Msg)
<1>1. Len(stream) \in Nat /\ Len(buf) \in Nat
  BY LenProperties
<1>2. \A m \in (Len(buf) + 1)..Len(stream) : stream[m] \in Msg
  BY <1>1, LenProperties
<1> QED BY <1>1, <1>2, SubSeqProperties DEF After

\* Writing messages to streams of messages gives streams of messages.
LEMMA WrittenType ==
    ASSUME NEW streams \in [Clients -> Seq(Msg)], NEW sides, NEW W,
           NEW buf \in Seq(Msg)
    PROVE  Written(streams, sides, W, buf) \in [Clients -> Seq(Msg)]
<1>1. \A c \in Clients : streams[c] \o buf \in Seq(Msg)
  BY ConcatProperties
<1> QED BY <1>1 DEF Written

\* A write leaves every socket in a state a socket can have.
LEMMA SidesType ==
    ASSUME NEW sides \in [Clients -> Sides], NEW W,
           NEW after \in SidesAfterWrite(sides, W)
    PROVE  after \in [Clients -> Sides]
BY DEF SidesAfterWrite, Sides

\* Closing a socket leaves its other end in a state a socket can have.
LEMMA ClosedType ==
    ASSUME NEW side \in Sides, NEW unread
    PROVE  Closed(side, unread) \in Sides
BY DEF Closed, Sides

\* The end of the server process leaves the network well typed.
LEMMA ServerClosesType ==
    ASSUME NetworkTypeOK, NEW pending, ServerCloses(pending)
    PROVE  /\ listening' \in BOOLEAN
           /\ c2s' \in [Clients -> Seq(Msg)]
           /\ cliSide' \in [Clients -> Sides]
<1>1. cliSide' \in [Clients -> Sides]
  BY ClosedType DEF ServerCloses, NetworkTypeOK
<1>2. <<>> \in Seq(Msg)
  BY EmptySeq
<1> QED BY <1>1, <1>2 DEF ServerCloses

\* The constructors build messages.
LEMMA MessageTypes ==
    ASSUME NEW nickname \in Names \cup {NoName}, NEW number \in Int
    PROVE  /\ <<hello_msg(nickname)>> \in Seq(Msg)
           /\ <<goodbye_msg(nickname)>> \in Seq(Msg)
           /\ <<lock_msg(nickname)>> \in Seq(Msg)
           /\ <<unlock_msg(nickname)>> \in Seq(Msg)
           /\ <<write_msg>> \in Seq(Msg)
           /\ <<shutdown_msg>> \in Seq(Msg)
           /\ <<ping_init_msg(number)>> \in Seq(Msg)
           /\ <<ping_msg(number)>> \in Seq(Msg)
           /\ <<countdown_n_msg(number)>> \in Seq(Msg)
           /\ <<countdown_order_msg(number)>> \in Seq(Msg)
<1>1. \A m \in Msg : <<m>> \in Seq(Msg)
  OBVIOUS
<1>2. \A type \in MsgTypes : Named(type, nickname) \in Msg
  BY DEF Named, Msg
<1>3. \A type \in MsgTypes : Numbered(type, number) \in Msg
  BY DEF Numbered, Msg
<1>4. write_msg \in Msg /\ shutdown_msg \in Msg
  BY DEF write_msg, shutdown_msg, Named, Msg, MsgTypes
<1> QED
  BY <1>1, <1>2, <1>3, <1>4 DEF hello_msg, goodbye_msg, lock_msg, unlock_msg,
     ping_init_msg, ping_msg, countdown_n_msg, countdown_order_msg, MsgTypes

-----------------------------------------------------------------------------
(* What the writes of the two programs do to the network *)

\* The clients at the indices of client_metas are those in it.
LEMMA IndicesMetas ==
    ASSUME client_metas \in Seq(Clients)
    PROVE  /\ Metas(Indices) = ToSet(client_metas)
           /\ ToSet(client_metas) \subseteq Clients
<1>1. /\ Len(client_metas) \in Nat /\ DOMAIN client_metas = 1..Len(client_metas)
      /\ \A m \in 1..Len(client_metas) : client_metas[m] \in Clients
  BY LenProperties
<1>2. /\ \A k \in Indices : k + 1 \in 1..Len(client_metas)
      /\ \A m \in 1..Len(client_metas) : m - 1 \in Indices /\ (m - 1) + 1 = m
  BY <1>1 DEF Indices
<1>3. ToSet(client_metas) = {client_metas[m] : m \in 1..Len(client_metas)}
  BY <1>1 DEF ToSet
<1>4. Metas(Indices) \subseteq ToSet(client_metas)
  BY <1>2, <1>3 DEF Metas, Meta
<1>5. \A m \in 1..Len(client_metas) : client_metas[m] \in Metas(Indices)
  <2> SUFFICES ASSUME NEW m \in 1..Len(client_metas) PROVE client_metas[m] \in Metas(Indices)
    OBVIOUS
  <2>1. client_metas[m] = Meta(m - 1) /\ m - 1 \in Indices
    BY <1>2 DEF Meta
  <2> QED BY <2>1 DEF Metas
<1> QED BY <1>1, <1>3, <1>4, <1>5

\* The server gets to the end of a write to the clients at the indices T, or
\* blocks in it with those to V still to do ...
WriteSucceeds(T, V, buf, pending, next) ==
    /\ spc' = next
    /\ s2c' = Written(s2c, srvSide, Metas(T), buf)
    /\ unsent' = [c \in Clients |-> IF c \in V THEN Len(buf) ELSE 0]
    /\ c2s' = pending
    /\ UNCHANGED <<cliSide, listening>>

\* ... or it dies at a broken socket when it has written to W.
WriteKills(T, W, buf, pending) ==
    /\ spc' = "crashed"
    /\ s2c' = Written(s2c, srvSide, W, buf)
    /\ UNCHANGED unsent
    /\ ServerCloses(pending)
    /\ Broken(T) # {}

LEMMA WriteAllCases ==
    ASSUME NEW T, NEW buf, NEW pending, NEW next, WriteAll(T, buf, pending, next)
    PROVE  \E W, V \in SUBSET Metas(T) :
             /\ srvSide' \in SidesAfterWrite(srvSide, W)
             /\ \/ WriteSucceeds(T, V, buf, pending, next)
                \/ WriteKills(T, W, buf, pending)
<1> DEFINE Full == {t \in T : ~Fits(s2c[Meta(t)], srvSide[Meta(t)], buf)}
           Now  == Until(T, Full \cup Broken(T))
<1>1. Metas(Now) \in SUBSET Metas(T) /\ Metas(T \ Now) \in SUBSET Metas(T)
  BY DEF Until, Metas
<1>2. Until(Broken(T), Full) # {} => Broken(T) # {}
  BY DEF Until
<1>3. /\ srvSide' \in SidesAfterWrite(srvSide, Metas(Now))
      /\ \/ WriteSucceeds(T, Metas(T \ Now), buf, pending, next)
         \/ WriteKills(T, Metas(Now), buf, pending)
  BY <1>2 DEF WriteAll, WriteSucceeds, WriteKills
<1> HIDE DEF Now, Full
<1> QED BY <1>1, <1>3

\* What of a stream can have arrived is a sequence of messages.
LEMMA ArrivedType ==
    ASSUME NetworkTypeOK, NEW c \in Clients, NEW stream \in Seq(Msg)
    PROVE  Arrived(c, stream) \in Seq(Msg)
<1>1. Len(stream) \in Nat /\ unsent[c] \in Nat
  BY LenProperties DEF NetworkTypeOK
<1>2. \A m \in 1..(Len(stream) - unsent[c]) : stream[m] \in Msg
  BY <1>1, LenProperties
<1> QED BY <1>1, <1>2, SubSeqProperties DEF Arrived

\* A write by the server to any of its clients, fatal or not.
LEMMA WriteAllType ==
    ASSUME NetworkTypeOK, NEW T, NEW buf \in Seq(Msg),
           NEW pending \in [Clients -> Seq(Msg)], NEW next \in ServerPCs,
           WriteAll(T, buf, pending, next)
    PROVE  /\ s2c' \in [Clients -> Seq(Msg)]
           /\ unsent' \in [Clients -> Nat]
           /\ c2s' \in [Clients -> Seq(Msg)]
           /\ srvSide' \in [Clients -> Sides]
           /\ cliSide' \in [Clients -> Sides]
           /\ listening' \in BOOLEAN
           /\ spc' \in ServerPCs
           /\ spc' \in {next, "crashed"}
<1>1. PICK W, V \in SUBSET Metas(T) :
        /\ srvSide' \in SidesAfterWrite(srvSide, W)
        /\ \/ WriteSucceeds(T, V, buf, pending, next)
           \/ WriteKills(T, W, buf, pending)
  BY WriteAllCases
<1>2. srvSide' \in [Clients -> Sides]
  BY <1>1, SidesType DEF NetworkTypeOK
<1>3. CASE WriteSucceeds(T, V, buf, pending, next)
  <2>1. Len(buf) \in Nat
    BY LenProperties
  <2>2. s2c' \in [Clients -> Seq(Msg)]
    BY <1>3, WrittenType DEF WriteSucceeds, NetworkTypeOK
  <2> QED BY <1>2, <1>3, <2>1, <2>2 DEF WriteSucceeds, NetworkTypeOK
<1>4. CASE WriteKills(T, W, buf, pending)
  <2>1. s2c' \in [Clients -> Seq(Msg)]
    BY <1>4, WrittenType DEF WriteKills, NetworkTypeOK
  <2> QED BY <1>2, <1>4, <2>1, ServerClosesType DEF WriteKills, ServerPCs, NetworkTypeOK
<1> QED BY <1>1, <1>3, <1>4

\* The end of a client process.
LEMMA EndsType ==
    ASSUME NetworkTypeOK, ClientTypeOK, NEW c, NEW how \in ClientPCs, NEW unread,
           Ends(c, how, unread)
    PROVE  /\ cpc' \in [Clients -> ClientPCs]
           /\ s2c' \in [Clients -> Seq(Msg)]
           /\ srvSide' \in [Clients -> Sides]
BY EmptySeq, ClosedType DEF Ends, NetworkTypeOK, ClientTypeOK

\* A write by a client, fatal or not.
LEMMA WritesType ==
    ASSUME NetworkTypeOK, ClientTypeOK, NEW c, NEW buf \in Seq(Msg),
           NEW unread \in Seq(Msg), NEW next \in ClientPCs,
           Writes(c, buf, unread, next)
    PROVE  /\ cpc' \in [Clients -> ClientPCs]
           /\ s2c' \in [Clients -> Seq(Msg)]
           /\ c2s' \in [Clients -> Seq(Msg)]
           /\ srvSide' \in [Clients -> Sides]
           /\ cliSide' \in [Clients -> Sides]
           /\ \A d \in Clients : cpc'[d] \in {cpc[d], next, "crashed"}
           /\ \A d \in Clients \ {c} : cpc'[d] = cpc[d]
<1>1. CASE cliSide[c] # "broken"
  <2>1. /\ c2s' = Written(c2s, cliSide, {c}, buf)
        /\ cliSide' \in SidesAfterWrite(cliSide, {c})
        /\ cpc' = [cpc EXCEPT ![c] = next]
        /\ s2c' = [s2c EXCEPT ![c] = unread]
        /\ UNCHANGED srvSide
    BY <1>1 DEF Writes
  <2> QED BY <2>1, WrittenType, SidesType DEF NetworkTypeOK, ClientTypeOK
<1>2. CASE cliSide[c] = "broken"
  <2>1. Ends(c, "crashed", unread) /\ UNCHANGED <<c2s, cliSide>>
    BY <1>2 DEF Writes
  <2>2. "crashed" \in ClientPCs
    BY DEF ClientPCs
  <2> QED BY <2>1, <2>2, EndsType DEF Ends, NetworkTypeOK, ClientTypeOK
<1> QED BY <1>1, <1>2

-----------------------------------------------------------------------------
(* Type correctness of the server's steps *)

\* The last element of a sequence of naturals, the sequence without it, and the
\* clients without one of them.
LEMMA FrontType ==
    ASSUME NEW S, NEW s \in Seq(S)
    PROVE  Front(s) \in Seq(S)
<1>1. Len(s) \in Nat /\ \A m \in 1..(Len(s) - 1) : s[m] \in S
  BY LenProperties
<1> QED BY <1>1, SubSeqProperties DEF Front

\* Nor does removing one of its elements.
LEMMA RemoveAtType ==
    ASSUME NEW S, NEW s \in Seq(S), NEW m \in 1..Len(s)
    PROVE  RemoveAt(s, m) \in Seq(S)
<1>1. Len(s) \in Nat /\ \A l \in 1..Len(s) : s[l] \in S
  BY LenProperties
<1>2. SubSeq(s, 1, m - 1) \in Seq(S)
  BY <1>1, SubSeqProperties
<1>3. SubSeq(s, m + 1, Len(s)) \in Seq(S)
  BY <1>1, SubSeqProperties
<1> QED BY <1>2, <1>3, ConcatProperties DEF RemoveAt

\* A client the dispatch loop may look at is a client, and what it sends is a
\* sequence of messages.
LEMMA ReceivedType ==
    ASSUME TypeOK, NEW k \in Indices, NEW buf, Received(k, buf)
    PROVE  /\ k \in Nat
           /\ Meta(k) \in Clients
           /\ buf \in Seq(Msg)
           /\ classify(buf) # "MALFORMED" => Head(buf) \in Msg
           /\ Rest(k, buf) \in [Clients -> Seq(Msg)]
<1> USE DEF TypeOK
<1>1. Len(client_metas) \in Nat
  BY LenProperties DEF ServerTypeOK
<1>2. k \in Nat /\ k + 1 \in 1..Len(client_metas)
  BY <1>1 DEF Indices
<1>3. Meta(k) \in Clients
  BY <1>2, ElementOfSeq DEF Meta, ServerTypeOK
<1>4. c2s[Meta(k)] \in Seq(Msg) /\ buf \in Chunks(c2s[Meta(k)], srvSide[Meta(k)])
  BY <1>3 DEF NetworkTypeOK, Received
<1>5. /\ buf \in Seq(Msg)
      /\ classify(buf) # "MALFORMED" => Head(buf) \in Msg
  BY <1>4, ChunkType
<1>6. Rest(k, buf) \in [Clients -> Seq(Msg)]
  BY <1>3, <1>4, <1>5, AfterType DEF Rest, NetworkTypeOK
<1> QED BY <1>2, <1>3, <1>5, <1>6

\* The handlers of the dispatch loop.
LEMMA DispatchKeepsTypes ==
    ASSUME IndTypeOK, NEW k \in Indices, Dispatch(k), UNCHANGED clientVars
    PROVE  TypeOK'
<1> USE DEF IndTypeOK
<1>1. PICK buf \in Chunks(c2s[Meta(k)], srvSide[Meta(k)]) :
        \/ HandleHello(k, buf) \/ HandleGoodbye(k, buf)
        \/ HandleLock(k, buf)  \/ HandleUnlock(k, buf)
        \/ HandleWrite(k, buf) \/ HandleCountdown(k, buf)
        \/ Discard(k, buf)
  BY DEF Dispatch
<1>2. /\ Received(k, buf)
      /\ spc = "scan"
  BY <1>1 DEF HandleHello, HandleGoodbye, HandleLock, HandleUnlock, HandleWrite,
     HandleCountdown, Discard, Received, NextIndex
<1>3. /\ k \in Nat
      /\ buf \in Seq(Msg)
      /\ classify(buf) # "MALFORMED" => Head(buf) \in Msg
      /\ Rest(k, buf) \in [Clients -> Seq(Msg)]
  BY <1>2, ReceivedType
<1>4. ClientTypeOK'
  BY DEF TypeOK, ClientTypeOK, clientVars
<1>5. ASSUME NEW next \in ServerPCs, Relay(k, buf, next),
             UNCHANGED backlog
      PROVE  NetworkTypeOK' /\ spc' \in ServerPCs
  <2>1. WriteAll(Indices \ {k}, buf, Rest(k, buf), next)
    BY <1>5 DEF Relay, broadcast
  <2> QED BY <1>3, <1>5, <2>1, WriteAllType DEF TypeOK, NetworkTypeOK
<1>6. CASE HandleHello(k, buf)
  <2>1. NetworkTypeOK' /\ spc' \in ServerPCs
    BY <1>5, <1>6 DEF HandleHello, ServerPCs
  <2> QED BY <1>3, <1>4, <1>6, <2>1 DEF HandleHello, TypeOK, ServerTypeOK
<1>7. CASE HandleGoodbye(k, buf)
  <2>1. NetworkTypeOK' /\ spc' \in ServerPCs
    BY <1>5, <1>7 DEF HandleGoodbye, ServerPCs
  <2>2. delete_idxs' \in Seq(Nat)
    BY <1>3, <1>7, AppendProperties DEF HandleGoodbye, TypeOK, ServerTypeOK
  <2> QED BY <1>3, <1>4, <1>7, <2>1, <2>2 DEF HandleGoodbye, TypeOK, ServerTypeOK
<1>8. CASE HandleLock(k, buf)
  <2>1. NetworkTypeOK' /\ spc' \in ServerPCs
    BY <1>5, <1>8 DEF HandleLock, ServerPCs
  <2>2. lock_owner' \in Names \cup {NoName}
    BY <1>3, <1>8 DEF HandleLock, TypeOK, ServerTypeOK, Msg
  <2> QED BY <1>3, <1>4, <1>8, <2>1, <2>2 DEF HandleLock, TypeOK, ServerTypeOK
<1>9. CASE HandleUnlock(k, buf)
  <2>1. NetworkTypeOK' /\ spc' \in ServerPCs
    BY <1>5, <1>9 DEF HandleUnlock, ServerPCs
  <2> QED BY <1>3, <1>4, <1>9, <2>1 DEF HandleUnlock, TypeOK, ServerTypeOK
<1>10. CASE HandleWrite(k, buf)
  <2>1. NetworkTypeOK' /\ spc' \in ServerPCs
    BY <1>5, <1>10 DEF HandleWrite, ServerPCs
  <2> QED BY <1>3, <1>4, <1>10, <2>1 DEF HandleWrite, TypeOK, ServerTypeOK
<1>11. CASE HandleCountdown(k, buf)
  <2>1. NetworkTypeOK'
    BY <1>3, <1>11 DEF HandleCountdown, TypeOK, NetworkTypeOK
  <2>2. n' \in Int /\ i' \in Nat /\ j' \in Nat
    BY <1>3, <1>11 DEF HandleCountdown, TypeOK, ServerTypeOK, Msg
  <2>3. spc' \in ServerPCs
    BY <1>2, <1>11 DEF HandleCountdown, ServerPCs
  <2> QED BY <1>4, <1>11, <2>1, <2>2, <2>3 DEF HandleCountdown, TypeOK, ServerTypeOK
<1>12. CASE Discard(k, buf)
  <2>1. NetworkTypeOK'
    BY <1>3, <1>12 DEF Discard, TypeOK, NetworkTypeOK
  <2> QED BY <1>2, <1>3, <1>4, <1>12, <2>1 DEF Discard, TypeOK, ServerTypeOK
<1> QED BY <1>1, <1>6, <1>7, <1>8, <1>9, <1>10, <1>11, <1>12

\* Every step of the server.
LEMMA ServerKeepsTypes ==
    ASSUME IndTypeOK, ServerNext, UNCHANGED clientVars
    PROVE  TypeOK' /\ LinesOwed'
<1> USE DEF IndTypeOK, LinesOwed
<1>1. ClientTypeOK'
  BY DEF TypeOK, ClientTypeOK, clientVars
<1>2. \A c \in Clients : cpc'[c] = "typing" => typed'[c] < Len(Script[c])
  BY DEF clientVars
<1>3. lock_owner \in Names \cup {NoName} /\ PingN \in Int
  BY ServerAssumption DEF TypeOK, ServerTypeOK
<1>write. ASSUME NEW T, NEW buf \in Seq(Msg), NEW next \in ServerPCs,
             WriteAll(T, buf, c2s, next), UNCHANGED backlog
      PROVE  NetworkTypeOK' /\ spc' \in ServerPCs
  BY <1>write, WriteAllType DEF TypeOK, NetworkTypeOK
<1>4. SUFFICES TypeOK'
  BY <1>2
<1>send. CASE Send
  <2>1. s2c' \in [Clients -> Seq(Msg)]
    <3>1. \A c \in Clients : Arrived(c, s2c[c]) \in Seq(Msg)
      BY ArrivedType DEF TypeOK, NetworkTypeOK
    <3>2. PICK Later :
            \/ UNCHANGED s2c
            \/ s2c' = [c \in Clients |-> IF c \in Later THEN Arrived(c, s2c[c]) ELSE s2c[c]]
      BY <1>send DEF Send
    <3> QED BY <3>1, <3>2 DEF TypeOK, NetworkTypeOK
  <2>2. srvSide' \in [Clients -> Sides]
    BY <1>send, SidesType DEF Send, TypeOK, NetworkTypeOK
  <2>3. /\ unsent' \in [Clients -> Nat]
        /\ spc' \in ServerPCs
    <3>1. PICK Later :
            \/ /\ unsent' = [c \in Clients |-> IF c \in Later THEN unsent[c] ELSE 0]
               /\ UNCHANGED spc
            \/ unsent' = [c \in Clients |-> 0] /\ spc' = "crashed"
      BY <1>send DEF Send
    <3>2. unsent \in [Clients -> Nat] /\ spc \in ServerPCs
      BY DEF TypeOK, NetworkTypeOK, ServerTypeOK
    <3>3. unsent' \in [Clients -> Nat]
      BY ONLY <3>1, <3>2
    <3> QED BY <3>1, <3>2, <3>3 DEF ServerPCs
  <2>4. /\ listening' \in BOOLEAN
        /\ c2s' \in [Clients -> Seq(Msg)]
        /\ cliSide' \in [Clients -> Sides]
    BY <1>send, ServerClosesType DEF Send, TypeOK, NetworkTypeOK
  <2> QED
    BY <1>1, <1>send, <2>1, <2>2, <2>3, <2>4 DEF Send, TypeOK, NetworkTypeOK, ServerTypeOK
<1>5. CASE Select
  <2>1. ToSet(client_metas) \subseteq Clients
    BY ElementOfSeq, LenProperties DEF ToSet, TypeOK, ServerTypeOK
  <2>2. read_fds' \in SUBSET (Clients \cup {LISTEN, STDIN})
    BY <1>5, <2>1 DEF Select, Ready
  <2>3. spc' \in ServerPCs
    BY <1>5 DEF Select, Phase, ServerPCs
  <2>4. op_lines' \in Nat /\ delete_idxs' \in Seq(Nat) /\ i' \in Nat
    BY <1>5, EmptySeq DEF Select, TypeOK, ServerTypeOK
  <2>5. NetworkTypeOK'
    BY <1>5 DEF Select, TypeOK, NetworkTypeOK, netVars
  <2> QED
    BY <1>1, <1>5, <2>2, <2>3, <2>4, <2>5 DEF Select, TypeOK, ServerTypeOK
<1>6. CASE Accept
  <2> DEFINE c == Head(backlog)
  <2>1. c \in Clients /\ backlog' \in Seq(Clients)
    BY <1>6, HeadTailProperties DEF Accept, TypeOK, NetworkTypeOK
  <2>2. client_metas' \in Seq(Clients) /\ rtts' \in [Clients -> Nat]
    BY <1>6, <2>1, AppendProperties DEF Accept, TypeOK, ServerTypeOK
  <2>3. <<ping_init_msg(PingN)>> \in Seq(Msg)
    BY <1>3, MessageTypes
  <2>4. s2c' \in [Clients -> Seq(Msg)] /\ srvSide' \in [Clients -> Sides]
    BY <1>6, <2>3, WrittenType, SidesType DEF Accept, TypeOK, NetworkTypeOK
  <2>5. spc' \in ServerPCs
    BY <1>6 DEF Accept, Phase, ServerPCs
  <2> QED
    BY <1>1, <1>6, <2>1, <2>2, <2>4, <2>5 DEF Accept, TypeOK, NetworkTypeOK, ServerTypeOK
<1>fails. CASE AcceptFails
  <2>1. spc' \in ServerPCs
    BY <1>fails DEF AcceptFails, Phase, ServerPCs
  <2> QED
    BY <1>1, <1>fails, <2>1 DEF AcceptFails, TypeOK, NetworkTypeOK, ServerTypeOK, netVars
<1>7. CASE OperatorQuits
  <2>1. <<shutdown_msg>> \in Seq(Msg)
    BY <1>3, MessageTypes
  <2>2. "closing" \in ServerPCs
    BY DEF ServerPCs
  <2>3. WriteAll(Indices \ {-1}, <<shutdown_msg>>, c2s, "closing")
    BY <1>7 DEF OperatorQuits, broadcast
  <2>4. NetworkTypeOK' /\ spc' \in ServerPCs
    BY <1>7, <1>write, <2>1, <2>2, <2>3 DEF OperatorQuits
  <2> QED
    BY <1>1, <1>7, <2>4 DEF OperatorQuits, TypeOK, ServerTypeOK
<1>exit. CASE Exit
  <2>1. /\ listening' \in BOOLEAN
        /\ c2s' \in [Clients -> Seq(Msg)]
        /\ cliSide' \in [Clients -> Sides]
    BY <1>exit, ServerClosesType DEF Exit, TypeOK
  <2> QED
    BY <1>1, <1>exit, <2>1 DEF Exit, TypeOK, NetworkTypeOK, ServerTypeOK, ServerPCs
<1>faults. CASE OrderFaults
  <2>1. /\ listening' \in BOOLEAN
        /\ c2s' \in [Clients -> Seq(Msg)]
        /\ cliSide' \in [Clients -> Sides]
    BY <1>faults, ServerClosesType DEF OrderFaults, TypeOK
  <2> QED
    BY <1>1, <1>faults, <2>1 DEF OrderFaults, TypeOK, NetworkTypeOK, ServerTypeOK, ServerPCs
<1>8. CASE OperatorMistypes
  BY <1>1, <1>8 DEF OperatorMistypes, TypeOK, NetworkTypeOK, ServerTypeOK, netVars, ServerPCs
<1>9. CASE RecvThrows
  <2>1. /\ listening' \in BOOLEAN
        /\ c2s' \in [Clients -> Seq(Msg)]
        /\ cliSide' \in [Clients -> Sides]
    BY <1>9, ServerClosesType DEF RecvThrows, TypeOK
  <2> QED
    BY <1>1, <1>9, <2>1 DEF RecvThrows, TypeOK, NetworkTypeOK, ServerTypeOK, ServerPCs
<1>10. CASE \E k \in Indices : Dispatch(k)
  BY <1>10, DispatchKeepsTypes
<1>11. CASE Ping
  <2>1. <<ping_msg(i)>> \in Seq(Msg)
    <3>1. i \in Int
      BY DEF TypeOK, ServerTypeOK
    <3> QED BY <1>3, <3>1, MessageTypes
  <2>2. "pong" \in ServerPCs
    BY DEF ServerPCs
  <2>3. WriteAll({j}, <<ping_msg(i)>>, c2s, "pong")
    BY <1>11 DEF Ping, WriteOne
  <2>4. NetworkTypeOK' /\ spc' \in ServerPCs
    BY <1>11, <1>write, <2>1, <2>2, <2>3 DEF Ping
  <2> QED BY <1>1, <1>11, <2>4 DEF Ping, TypeOK, NetworkTypeOK, ServerTypeOK
<1>12. ASSUME NextExchange PROVE i' \in Nat /\ j' \in Nat /\ spc' \in ServerPCs
  BY <1>12 DEF NextExchange, TypeOK, ServerTypeOK, ServerPCs
<1>13. CASE Pong
  <2> DEFINE c == Meta(j)
  <2>1. PICK buf \in Chunks(c2s[c], srvSide[c]) :
          /\ c2s' = [c2s EXCEPT ![c] = After(@, buf)]
          /\ rtts' = IF Answers(buf, i) THEN [rtts EXCEPT ![c] = @ + 1] ELSE rtts
    BY <1>13 DEF Pong
  <2>2. c \in Clients => After(c2s[c], buf) \in Seq(Msg)
    BY <2>1, ChunkType, AfterType DEF TypeOK, NetworkTypeOK
  <2>3. c2s' \in [Clients -> Seq(Msg)]
    BY <2>1, <2>2 DEF TypeOK, NetworkTypeOK
  <2>4. rtts' \in [Clients -> Nat]
    <3>1. rtts \in [Clients -> Nat]
      BY DEF TypeOK, ServerTypeOK
    <3>2. CASE Answers(buf, i)
      <4> DEFINE e == rtts[c] + 1
      <4>1. rtts' = [rtts EXCEPT ![c] = e]
        BY <2>1, <3>2
      <4>2. c \in Clients => e \in Nat
        BY <3>1
      <4> HIDE DEF e, c
      <4> QED BY <3>1, <4>1, <4>2
    <3>3. CASE ~Answers(buf, i)
      BY <2>1, <3>1, <3>3
    <3> QED BY <3>2, <3>3
  <2>5. NextExchange
    BY <1>13 DEF Pong
  <2> QED
    BY <1>1, <1>12, <1>13, <2>3, <2>4, <2>5 DEF Pong, TypeOK, NetworkTypeOK, ServerTypeOK
<1>14. CASE PongFails
  <2>1. srvSide' \in [Clients -> Sides]
    BY <1>14 DEF PongFails, TypeOK, NetworkTypeOK, Sides
  <2>2. NextExchange
    BY <1>14 DEF PongFails
  <2> QED
    BY <1>1, <1>12, <1>14, <2>1, <2>2 DEF PongFails, TypeOK, NetworkTypeOK, ServerTypeOK
<1>15. CASE Order
  <2>1. <<countdown_order_msg(n)>> \in Seq(Msg)
    <3>1. n \in Int
      BY DEF TypeOK, ServerTypeOK
    <3> QED BY <1>3, <3>1, MessageTypes
  <2>2. {"order", "unlock"} \subseteq ServerPCs
    BY DEF ServerPCs
  <2>3. PICK next \in {"order", "unlock"} :
          WriteAll({j}, <<countdown_order_msg(n)>>, c2s, next)
    BY <1>15 DEF Order, WriteOne
  <2>4. NetworkTypeOK' /\ spc' \in ServerPCs
    BY <1>15, <1>write, <2>1, <2>2, <2>3 DEF Order
  <2>5. ordered' \in [Clients -> Seq(Int)]
    <3>1. Meta(j) \in Clients => Append(ordered[Meta(j)], n) \in Seq(Int)
      BY AppendProperties DEF TypeOK, ServerTypeOK
    <3> QED BY <1>15, <3>1 DEF Order, TypeOK, ServerTypeOK
  <2>6. j' \in Nat
    BY <1>15 DEF Order, TypeOK, ServerTypeOK
  <2> QED BY <1>1, <1>15, <2>4, <2>5, <2>6 DEF Order, TypeOK, NetworkTypeOK, ServerTypeOK
<1>16. CASE Unlock
  <2>1. <<unlock_msg(lock_owner)>> \in Seq(Msg)
    BY <1>3, MessageTypes
  <2>2. "scan" \in ServerPCs
    BY DEF ServerPCs
  <2>3. WriteAll(Indices \ {-1}, <<unlock_msg(lock_owner)>>, c2s, "scan")
    BY <1>16 DEF Unlock, broadcast
  <2>4. NetworkTypeOK' /\ spc' \in ServerPCs
    BY <1>16, <1>write, <2>1, <2>2, <2>3 DEF Unlock
  <2> QED BY <1>1, <1>16, <2>4 DEF Unlock, TypeOK, NetworkTypeOK, ServerTypeOK
<1>17. CASE DispatchEnds
  BY <1>1, <1>17 DEF DispatchEnds, TypeOK, NetworkTypeOK, ServerTypeOK, netVars, ServerPCs
<1>18. CASE Erase
  <2> DEFINE idx == Last(delete_idxs)
  <2>1. delete_idxs' \in Seq(Nat)
    BY <1>18, FrontType DEF Erase, TypeOK, ServerTypeOK
  <2>2. spc' \in ServerPCs
    BY <1>18 DEF Erase, ServerPCs
  <2>3. client_metas' \in Seq(Clients)
    <3>1. CASE client_metas' = RemoveAt(client_metas, idx + 1) /\ idx \in Indices
      <4>1. idx + 1 \in 1..Len(client_metas)
        BY <3>1, LenProperties DEF Indices, TypeOK, ServerTypeOK
      <4> QED BY <3>1, <4>1, RemoveAtType DEF TypeOK, ServerTypeOK
    <3>2. CASE client_metas' = Front(client_metas)
      BY <3>2, FrontType DEF TypeOK, ServerTypeOK
    <3>3. CASE client_metas' = client_metas
      BY <3>3 DEF TypeOK, ServerTypeOK
    <3> QED BY <1>18, <3>1, <3>2, <3>3 DEF Erase
  <2>4. NetworkTypeOK'
    <3>1. CASE UNCHANGED netVars
      BY <3>1 DEF netVars, TypeOK, NetworkTypeOK
    <3>2. CASE ServerCloses(c2s) /\ UNCHANGED <<s2c, unsent, srvSide, backlog>>
      BY <3>2, ServerClosesType DEF TypeOK, NetworkTypeOK
    <3> QED BY <1>18, <3>1, <3>2 DEF Erase
  <2> QED BY <1>1, <1>18, <2>1, <2>2, <2>3, <2>4 DEF Erase, TypeOK, ServerTypeOK
<1> QED
  BY <1>5, <1>6, <1>fails, <1>7, <1>8, <1>9, <1>10, <1>11, <1>13, <1>14, <1>15, <1>16,
     <1>17, <1>18, <1>send, <1>exit, <1>faults DEF ServerNext, ServerActs

-----------------------------------------------------------------------------
(* Type correctness of the clients' steps *)

\* What a client can read is at the front of its stream, and so is the end of
\* its connection, which it only comes to once the server holds nothing back.
LEMMA ArrivedRead ==
    ASSUME IndTypeOK, NEW c \in Clients
    PROVE  /\ \A buf \in Chunks(Arrived(c, s2c[c]), cliSide[c]) :
                 buf \in Chunks(s2c[c], cliSide[c])
           /\ RecvFails(Arrived(c, s2c[c]), cliSide[c]) => RecvFails(s2c[c], cliSide[c])
<1> DEFINE stream == s2c[c]
           m == Len(stream) - unsent[c]
<1>1. /\ stream \in Seq(Msg) /\ Len(stream) \in Nat /\ unsent[c] \in Nat
      /\ DOMAIN stream = 1..Len(stream)
      /\ \A l \in 1..Len(stream) : stream[l] \in Msg
  BY LenProperties DEF IndTypeOK, TypeOK, NetworkTypeOK
<1>2. cliSide[c] \in {"fin", "broken", "reset"} => Arrived(c, stream) = stream
  <2> SUFFICES ASSUME cliSide[c] \in {"fin", "broken", "reset"} PROVE Arrived(c, stream) = stream
    OBVIOUS
  <2>1. unsent[c] = 0
    BY DEF IndTypeOK, EndKnown, Flowing
  <2>2. SubSeq(stream, 1, Len(stream)) = stream
    BY <1>1, SubSeqFull
  <2> QED BY <1>1, <2>1, <2>2 DEF Arrived
<1>3. ASSUME NEW buf \in Chunks(Arrived(c, stream), cliSide[c])
      PROVE  buf \in Chunks(stream, cliSide[c])
  <2>1. CASE Arrived(c, stream) # <<>>
    <3> DEFINE some == Arrived(c, stream)
    <3>1. some = SubSeq(stream, 1, m)
      BY DEF Arrived
    <3>2. \A l \in 1..m : stream[l] \in Msg
      BY <1>1
    <3>3. /\ some \in Seq(Msg)
          /\ Len(some) = IF 1 <= m THEN m ELSE 0
          /\ \A l \in 1..m : some[l] = stream[l]
      <4>1. \A l \in 1..m : 1 + l - 1 = l
        BY <1>1
      <4> HIDE DEF m
      <4>2. m \in Int
        BY <1>1 DEF m
      <4> HIDE DEF some, stream
      <4> QED BY <1>1, <3>1, <3>2, <4>1, <4>2, SubSeqProperties
    <3>4. 1 <= m /\ m <= Len(stream)
      BY <1>1, <2>1, <3>3, EmptySeq
    <3>5. PICK k \in 1..Len(some) : k <= RecvMax /\ buf = SubSeq(some, 1, k)
      BY <1>3, <2>1 DEF Chunks
    <3>6. k \in 1..Len(stream) /\ k \in 1..m
      BY <1>1, <3>3, <3>4, <3>5
    <3>7. SubSeq(some, 1, k) = SubSeq(stream, 1, k)
      <4> HIDE DEF some, stream, m
      <4> QED BY <1>1, <3>3, <3>4, <3>6
    <3>8. stream # <<>>
      BY <1>1, <3>4, EmptySeq
    <3> QED BY <3>5, <3>6, <3>7, <3>8 DEF Chunks
  <2>2. CASE Arrived(c, stream) = <<>>
    <3>1. buf = <<>> /\ cliSide[c] \in {"fin", "broken"}
      BY <1>3, <2>2 DEF Chunks
    <3> QED BY <1>2, <1>3, <3>1
  <2> QED BY <2>1, <2>2
<1>4. RecvFails(Arrived(c, stream), cliSide[c]) => RecvFails(stream, cliSide[c])
  BY <1>2 DEF RecvFails
<1> QED BY <1>3, <1>4

\* So every message a client handles is one of its stream.
LEMMA OnMessageRead ==
    ASSUME IndTypeOK, NEW c \in Clients, OnMessage(c)
    PROVE  \E buf \in Chunks(s2c[c], cliSide[c]) :
             \/ OnShutdown(c, buf) \/ OnPing(c, buf) \/ OnPingInit(c, buf)
             \/ OnPeer(c, buf) \/ OnLock(c, buf) \/ OnOrder(c, buf)
             \/ OnOther(c, buf)
BY ArrivedRead DEF OnMessage

\* And so is what it reads in its ping loop.
LEMMA PingTurnRead ==
    ASSUME IndTypeOK, NEW c \in Clients, PingTurn(c)
    PROVE  \E next \in {"pinging", "select"} :
             /\ next = IF MorePings(c, ci[c] + 1) THEN "pinging" ELSE "select"
             /\ \/ \E buf \in Chunks(s2c[c], cliSide[c]) :
                      IF classify(buf) = "PING" /\ Head(buf).n = ci[c]
                      THEN Writes(c, buf, After(s2c[c], buf), next)
                      ELSE /\ cpc' = [cpc EXCEPT ![c] = next]
                           /\ Consume(c, buf)
                           /\ UNCHANGED <<c2s, srvSide, cliSide>>
                \/ /\ RecvFails(s2c[c], cliSide[c])
                   /\ cliSide' = [cliSide EXCEPT ![c] = "broken"]
                   /\ cpc' = [cpc EXCEPT ![c] = next]
                   /\ UNCHANGED <<s2c, c2s, srvSide>>
<1> DEFINE next == IF MorePings(c, ci[c] + 1) THEN "pinging" ELSE "select"
<1>1. next \in {"pinging", "select"}
  OBVIOUS
<1>2. \/ \E buf \in Chunks(Arrived(c, s2c[c]), cliSide[c]) :
            IF classify(buf) = "PING" /\ Head(buf).n = ci[c]
            THEN Writes(c, buf, After(s2c[c], buf), next)
            ELSE /\ cpc' = [cpc EXCEPT ![c] = next]
                 /\ Consume(c, buf)
                 /\ UNCHANGED <<c2s, srvSide, cliSide>>
      \/ /\ RecvFails(Arrived(c, s2c[c]), cliSide[c])
         /\ cliSide' = [cliSide EXCEPT ![c] = "broken"]
         /\ cpc' = [cpc EXCEPT ![c] = next]
         /\ UNCHANGED <<s2c, c2s, srvSide>>
  BY DEF PingTurn
<1> HIDE DEF next
<1>3. \/ \E buf \in Chunks(s2c[c], cliSide[c]) :
            IF classify(buf) = "PING" /\ Head(buf).n = ci[c]
            THEN Writes(c, buf, After(s2c[c], buf), next)
            ELSE /\ cpc' = [cpc EXCEPT ![c] = next]
                 /\ Consume(c, buf)
                 /\ UNCHANGED <<c2s, srvSide, cliSide>>
      \/ /\ RecvFails(s2c[c], cliSide[c])
         /\ cliSide' = [cliSide EXCEPT ![c] = "broken"]
         /\ cpc' = [cpc EXCEPT ![c] = next]
         /\ UNCHANGED <<s2c, c2s, srvSide>>
  BY <1>2, ArrivedRead
<1> QED BY <1>1, <1>3 DEF next

\* What the select loop of a client reads, and what it leaves.
LEMMA GetsType ==
    ASSUME TypeOK, NEW c \in Clients, NEW buf \in Chunks(s2c[c], cliSide[c])
    PROVE  /\ buf \in Seq(Msg)
           /\ classify(buf) # "MALFORMED" => Head(buf) \in Msg
           /\ After(s2c[c], buf) \in Seq(Msg)
           /\ Consume(c, buf) => s2c' \in [Clients -> Seq(Msg)]
<1>1. s2c \in [Clients -> Seq(Msg)]
  BY DEF TypeOK, NetworkTypeOK
<1>2. buf \in Seq(Msg) /\ (classify(buf) # "MALFORMED" => Head(buf) \in Msg)
  BY <1>1, ChunkType
<1>3. After(s2c[c], buf) \in Seq(Msg)
  BY <1>1, <1>2, AfterType
<1> QED BY <1>1, <1>2, <1>3 DEF Consume

\* What a client answers to its message loop.
LEMMA OnMessageKeepsTypes ==
    ASSUME IndTypeOK, NEW c \in Clients, OnMessage(c), UNCHANGED serverVars
    PROVE  TypeOK' /\ LinesOwed'
<1> USE DEF IndTypeOK, LinesOwed
<1>1. ServerTypeOK' /\ spc' = spc
  BY DEF TypeOK, ServerTypeOK, serverVars
<1>2. PICK buf \in Chunks(s2c[c], cliSide[c]) :
        \/ OnShutdown(c, buf) \/ OnPing(c, buf) \/ OnPingInit(c, buf)
        \/ OnPeer(c, buf) \/ OnLock(c, buf) \/ OnOrder(c, buf)
        \/ OnOther(c, buf)
  BY OnMessageRead
<1>3. /\ buf \in Seq(Msg)
      /\ classify(buf) # "MALFORMED" => Head(buf) \in Msg
      /\ After(s2c[c], buf) \in Seq(Msg)
      /\ Consume(c, buf) => s2c' \in [Clients -> Seq(Msg)]
  BY GetsType
<1>4. CASE OnShutdown(c, buf)
  <2>1. /\ cpc' \in [Clients -> ClientPCs]
        /\ s2c' \in [Clients -> Seq(Msg)]
        /\ srvSide' \in [Clients -> Sides]
    BY <1>4, EndsType DEF OnShutdown, ClientPCs, TypeOK
  <2>2. \A d \in Clients : cpc'[d] \in {cpc[d], "exited"}
    BY <1>4 DEF OnShutdown, Ends, TypeOK, ClientTypeOK
  <2> QED BY <1>1, <1>4, <2>1, <2>2 DEF OnShutdown, TypeOK, NetworkTypeOK, ClientTypeOK
<1>5. CASE OnPing(c, buf)
  <2>1. PICK next \in {"pinging", "select"} : Writes(c, buf, After(s2c[c], buf), next)
    BY <1>5 DEF OnPing
  <2>2. next \in ClientPCs
    BY DEF ClientPCs
  <2>3. /\ cpc' \in [Clients -> ClientPCs]
        /\ s2c' \in [Clients -> Seq(Msg)]
        /\ c2s' \in [Clients -> Seq(Msg)]
        /\ srvSide' \in [Clients -> Sides]
        /\ cliSide' \in [Clients -> Sides]
        /\ \A d \in Clients : cpc'[d] \in {cpc[d], next, "crashed"}
    BY <1>3, <2>1, <2>2, WritesType DEF TypeOK
  <2> QED BY <1>1, <1>5, <2>3 DEF OnPing, TypeOK, NetworkTypeOK, ClientTypeOK
<1>6. CASE OnPingInit(c, buf)
  <2>1. ping_n' \in [Clients -> Int]
    BY <1>3, <1>6 DEF OnPingInit, TypeOK, ClientTypeOK, Msg
  <2> QED BY <1>1, <1>3, <1>6, <2>1 DEF OnPingInit, TypeOK, NetworkTypeOK, ClientTypeOK
<1>7. CASE OnPeer(c, buf)
  <2>1. Head(buf).nick \in Names \cup {NoName}
    BY <1>3, <1>7 DEF OnPeer, Msg
  <2>2. PICK names \in SUBSET (Names \cup {NoName}) :
          peer_names' = [peer_names EXCEPT ![c] = names]
    <3>1. peer_names[c] \in SUBSET (Names \cup {NoName})
      BY DEF TypeOK, ClientTypeOK
    <3>2. /\ peer_names[c] \cup {Head(buf).nick} \in SUBSET (Names \cup {NoName})
          /\ Without(peer_names[c], Head(buf).nick) \in SUBSET (Names \cup {NoName})
      BY <2>1, <3>1 DEF Without
    <3> QED BY <1>7, <3>2 DEF OnPeer
  <2>3. peer_names' \in [Clients -> SUBSET (Names \cup {NoName})]
    BY <2>2 DEF TypeOK, ClientTypeOK
  <2> QED BY <1>1, <1>3, <1>7, <2>3 DEF OnPeer, TypeOK, NetworkTypeOK, ClientTypeOK
<1>8. CASE OnLock(c, buf)
  <2>1. color' \in [Clients -> {"def", "red"}]
    BY <1>8 DEF OnLock, TypeOK, ClientTypeOK
  <2> QED BY <1>1, <1>3, <1>8, <2>1 DEF OnLock, TypeOK, NetworkTypeOK, ClientTypeOK
<1>9. CASE OnOrder(c, buf)
  <2>1. Head(buf).n \in Int /\ obeyed[c] \in Seq(Int)
    BY <1>3, <1>9 DEF OnOrder, Msg, TypeOK, ClientTypeOK
  <2>2. Append(obeyed[c], Head(buf).n) \in Seq(Int)
    BY <2>1, AppendProperties
  <2>3. obeyed' \in [Clients -> Seq(Int)]
    BY <1>9, <2>2 DEF OnOrder, TypeOK, ClientTypeOK
  <2> QED BY <1>1, <1>3, <1>9, <2>3 DEF OnOrder, TypeOK, NetworkTypeOK, ClientTypeOK
<1>10. CASE OnOther(c, buf)
  BY <1>1, <1>3, <1>10 DEF OnOther, clientVars, TypeOK, NetworkTypeOK, ClientTypeOK
<1> QED BY <1>2, <1>4, <1>5, <1>6, <1>7, <1>8, <1>9, <1>10

\* What a client does with the line its user typed.
LEMMA LineType ==
    ASSUME TypeOK, NEW c \in Clients, typed[c] < Len(Script[c]),
           NEW line \in Script[c][typed[c] + 1]
    PROVE  parse_cmdline(line, Nick[c]) \in Seq(Msg)
<1>1. line \in Lines
  <2>1. Script[c] \in Seq(SUBSET Lines)
    BY ClientAssumption
  <2>2. typed[c] + 1 \in 1..Len(Script[c])
    BY <2>1, LenProperties DEF TypeOK, ClientTypeOK
  <2>3. Script[c][typed[c] + 1] \in SUBSET Lines
    BY <2>1, <2>2, ElementOfSeq
  <2> QED BY <2>3
<1>2. line.word \in {"quit", "countdown", "write", "junk"} /\ line.n \in Int
  BY <1>1 DEF Lines
<1>3. Nick[c] \in Names \cup {NoName}
  BY NetworkAssumption
<1>4. <<>> \in Seq(Msg)
  BY EmptySeq
<1>5. /\ <<goodbye_msg(Nick[c])>> \in Seq(Msg)
      /\ <<countdown_n_msg(line.n)>> \in Seq(Msg)
      /\ <<write_msg>> \in Seq(Msg)
  BY <1>2, <1>3, MessageTypes
<1> QED BY <1>2, <1>4, <1>5 DEF parse_cmdline

\* Every step of a client.
LEMMA ClientKeepsTypes ==
    ASSUME IndTypeOK, NEW c \in Clients, ClientRuns(c) \/ UserActs(c),
           UNCHANGED serverVars
    PROVE  TypeOK' /\ LinesOwed'
<1> USE DEF IndTypeOK, LinesOwed
<1>1. ServerTypeOK' /\ spc' = spc
  BY DEF TypeOK, ServerTypeOK, serverVars
<1>2. s2c[c] \in Seq(Msg) /\ Nick[c] \in Names \cup {NoName} /\ PingN \in Int
  BY NetworkAssumption, ServerAssumption DEF TypeOK, NetworkTypeOK
<1>end. ASSUME NEW how \in {"exited", "crashed"}, NEW unread, Ends(c, how, unread),
               UNCHANGED <<ping_n, ci, peer_names, color, typed, obeyed, c2s,
                           cliSide, backlog, listening, unsent>>
        PROVE  TypeOK' /\ LinesOwed'
  <2>1. /\ cpc' \in [Clients -> ClientPCs]
        /\ s2c' \in [Clients -> Seq(Msg)]
        /\ srvSide' \in [Clients -> Sides]
    BY <1>end, EndsType DEF ClientPCs, TypeOK
  <2>2. \A d \in Clients : cpc'[d] \in {cpc[d], how}
    BY <1>end DEF Ends, TypeOK, ClientTypeOK
  <2> QED BY <1>1, <1>end, <2>1, <2>2 DEF TypeOK, NetworkTypeOK, ClientTypeOK
<1>3. CASE Leave(c)
  BY <1>3, <1>end DEF Leave
<1>4. CASE ClientRecvThrows(c)
  BY <1>4, <1>end DEF ClientRecvThrows
<1>5. CASE OnMessage(c)
  BY <1>5, OnMessageKeepsTypes
<1>6. CASE PingTurn(c)
  <2>1. ci' \in [Clients -> Nat]
    BY <1>6 DEF PingTurn, TypeOK, ClientTypeOK
  <2>2. PICK next \in {"pinging", "select"} :
          \/ \E buf \in Chunks(s2c[c], cliSide[c]) :
                IF classify(buf) = "PING" /\ Head(buf).n = ci[c]
                THEN Writes(c, buf, After(s2c[c], buf), next)
                ELSE /\ cpc' = [cpc EXCEPT ![c] = next]
                     /\ Consume(c, buf)
                     /\ UNCHANGED <<c2s, srvSide, cliSide>>
          \/ /\ RecvFails(s2c[c], cliSide[c])
             /\ cliSide' = [cliSide EXCEPT ![c] = "broken"]
             /\ cpc' = [cpc EXCEPT ![c] = next]
             /\ UNCHANGED <<s2c, c2s, srvSide>>
    BY <1>6, PingTurnRead
  <2>3. next \in ClientPCs /\ "broken" \in Sides
    BY DEF ClientPCs, Sides
  <2>4. /\ cpc' \in [Clients -> ClientPCs]
        /\ s2c' \in [Clients -> Seq(Msg)]
        /\ c2s' \in [Clients -> Seq(Msg)]
        /\ srvSide' \in [Clients -> Sides]
        /\ cliSide' \in [Clients -> Sides]
        /\ \A d \in Clients : cpc'[d] \in {cpc[d], next, "crashed"}
    <3>1. ASSUME NEW buf \in Chunks(s2c[c], cliSide[c]),
                 Writes(c, buf, After(s2c[c], buf), next)
          PROVE  <2>4!:
      BY <2>3, <3>1, GetsType, WritesType DEF TypeOK
    <3>2. ASSUME NEW buf \in Chunks(s2c[c], cliSide[c]),
                 cpc' = [cpc EXCEPT ![c] = next],
                 Consume(c, buf),
                 UNCHANGED <<c2s, srvSide, cliSide>>
          PROVE  <2>4!:
      BY <2>3, <3>2, GetsType DEF TypeOK, NetworkTypeOK, ClientTypeOK
    <3>3. CASE /\ cliSide' = [cliSide EXCEPT ![c] = "broken"]
               /\ cpc' = [cpc EXCEPT ![c] = next]
               /\ UNCHANGED <<s2c, c2s, srvSide>>
      BY <2>3, <3>3 DEF TypeOK, NetworkTypeOK, ClientTypeOK
    <3> QED BY <2>2, <3>1, <3>2, <3>3
  <2> QED BY <1>1, <1>6, <2>1, <2>4 DEF PingTurn, TypeOK, NetworkTypeOK, ClientTypeOK
<1>7. CASE Connect(c)
  <2>1. <<hello_msg(Nick[c])>> \in Seq(Msg)
    BY <1>2, MessageTypes
  <2>2. backlog' \in Seq(Clients)
    BY <1>7, AppendProperties DEF Connect, TypeOK, NetworkTypeOK
  <2>3. /\ c2s' \in [Clients -> Seq(Msg)]
        /\ srvSide' \in [Clients -> Sides]
        /\ cliSide' \in [Clients -> Sides]
    BY <1>7, <2>1 DEF Connect, TypeOK, NetworkTypeOK, Sides
  <2>4. cpc' \in [Clients -> ClientPCs] /\ \A d \in Clients : cpc'[d] \in {cpc[d], "select"}
    BY <1>7 DEF Connect, TypeOK, ClientTypeOK, ClientPCs
  <2> QED BY <1>1, <1>7, <2>2, <2>3, <2>4 DEF Connect, TypeOK, NetworkTypeOK, ClientTypeOK
<1>8. CASE ConnectFails(c)
  <2>1. cpc' \in [Clients -> ClientPCs] /\ \A d \in Clients : cpc'[d] \in {cpc[d], "exited"}
    BY <1>8 DEF ConnectFails, TypeOK, ClientTypeOK, ClientPCs
  <2> QED BY <1>1, <1>8, <2>1 DEF ConnectFails, netVars, TypeOK, NetworkTypeOK, ClientTypeOK
<1>9. CASE StartTyping(c)
  <2>1. <<lock_msg(Nick[c])>> \in Seq(Msg) /\ "typing" \in ClientPCs
    BY <1>2, MessageTypes DEF ClientPCs
  <2>2. /\ cpc' \in [Clients -> ClientPCs]
        /\ s2c' \in [Clients -> Seq(Msg)]
        /\ c2s' \in [Clients -> Seq(Msg)]
        /\ srvSide' \in [Clients -> Sides]
        /\ cliSide' \in [Clients -> Sides]
        /\ \A d \in Clients \ {c} : cpc'[d] = cpc[d]
    BY <1>2, <1>9, <2>1, WritesType DEF StartTyping, TypeOK
  <2> QED BY <1>1, <1>9, <2>2 DEF StartTyping, TypeOK, NetworkTypeOK, ClientTypeOK
<1>close. CASE CloseInput(c)
  <2>1. cpc' \in [Clients -> ClientPCs] /\ \A d \in Clients : cpc'[d] \in {cpc[d], "deaf"}
    BY <1>close DEF CloseInput, TypeOK, ClientTypeOK, ClientPCs
  <2> QED BY <1>1, <1>close, <2>1 DEF CloseInput, netVars, TypeOK, NetworkTypeOK, ClientTypeOK
<1>deaf. CASE LockAtEnd(c)
  <2>1. <<lock_msg(Nick[c])>> \in Seq(Msg) /\ "deaf" \in ClientPCs
    BY <1>2, MessageTypes DEF ClientPCs
  <2>2. /\ cpc' \in [Clients -> ClientPCs]
        /\ s2c' \in [Clients -> Seq(Msg)]
        /\ c2s' \in [Clients -> Seq(Msg)]
        /\ srvSide' \in [Clients -> Sides]
        /\ cliSide' \in [Clients -> Sides]
        /\ \A d \in Clients : cpc'[d] \in {cpc[d], "deaf", "crashed"}
    BY <1>2, <1>deaf, <2>1, WritesType DEF LockAtEnd, TypeOK
  <2> QED BY <1>1, <1>deaf, <2>2 DEF LockAtEnd, TypeOK, NetworkTypeOK, ClientTypeOK
<1>10. CASE FinishLine(c)
  <2>1. typed' \in [Clients -> Nat] /\ \A d \in Clients \ {c} : typed'[d] = typed[d]
    BY <1>10 DEF FinishLine, TypeOK, ClientTypeOK
  <2>2. PICK line \in Script[c][typed[c] + 1], next \in {"leaving", "select"} :
          LET buf == parse_cmdline(line, Nick[c]) IN
          IF buf = <<>>
          THEN /\ cpc' = [cpc EXCEPT ![c] = "select"]
               /\ UNCHANGED <<c2s, cliSide, s2c, srvSide>>
          ELSE Writes(c, buf, s2c[c], next)
    BY <1>10 DEF FinishLine
  <2>3. parse_cmdline(line, Nick[c]) \in Seq(Msg)
    BY <1>10, LineType DEF FinishLine
  <2>4. {"leaving", "select"} \subseteq ClientPCs
    BY DEF ClientPCs
  <2>5. /\ cpc' \in [Clients -> ClientPCs]
        /\ s2c' \in [Clients -> Seq(Msg)]
        /\ c2s' \in [Clients -> Seq(Msg)]
        /\ srvSide' \in [Clients -> Sides]
        /\ cliSide' \in [Clients -> Sides]
        /\ \A d \in Clients \ {c} : cpc'[d] = cpc[d]
        /\ cpc'[c] # "typing"
    <3>1. CASE Writes(c, parse_cmdline(line, Nick[c]), s2c[c], next)
      <4>1. cpc'[c] \in {next, "crashed"}
        BY <3>1 DEF Writes, Ends, TypeOK, ClientTypeOK
      <4> QED BY <1>2, <2>3, <2>4, <3>1, <4>1, WritesType DEF TypeOK
    <3>2. CASE /\ cpc' = [cpc EXCEPT ![c] = "select"]
               /\ UNCHANGED <<c2s, cliSide, s2c, srvSide>>
      BY <2>4, <3>2 DEF TypeOK, NetworkTypeOK, ClientTypeOK
    <3> QED BY <2>2, <3>1, <3>2
  <2> QED BY <1>1, <1>10, <2>1, <2>5 DEF FinishLine, TypeOK, NetworkTypeOK, ClientTypeOK
<1>11. CASE Killed(c)
  BY <1>11, <1>end DEF Killed
<1> QED
  BY <1>3, <1>4, <1>5, <1>6, <1>7, <1>8, <1>9, <1>10, <1>11, <1>close, <1>deaf
     DEF ClientRuns, UserActs

-----------------------------------------------------------------------------
(* The end of the server *)

\* A server that has ended does nothing.
LEMMA ServerLives ==
    ASSUME IndTypeOK, ServerNext
    PROVE  spc \notin {"exited", "crashed"}
<1>1. CASE Send
  BY <1>1 DEF Send, Flowing, IndTypeOK, EndKnown
<1>2. CASE ServerActs
  BY <1>2 DEF ServerActs, Select, Accept, AcceptFails, OperatorQuits, OperatorMistypes,
     Exit, RecvThrows, NextIndex, Dispatch, HandleHello, HandleGoodbye, HandleLock,
     HandleUnlock, HandleWrite, HandleCountdown, Discard, Received, Ping, Pong,
     PongFails, OrderFaults, Order, Unlock, DispatchEnds, Erase
<1> QED BY <1>1, <1>2 DEF ServerNext

\* While the server lives a step of its own tells no client of its end, and when
\* it ends it holds nothing back.
LEMMA ServerKeepsEnd ==
    ASSUME IndTypeOK, ServerNext
    PROVE  EndKnown'
<1> DEFINE Ends2 == {"exited", "crashed"}
           Same == spc' \notin Ends2 /\ UNCHANGED cliSide
           Over == spc' \in Ends2 /\ Flowing'
<1>1. spc \notin Ends2 /\ \A c \in Clients : cliSide[c] \in {"none", "open"}
  BY ServerLives DEF IndTypeOK, EndKnown
<1>2. Same => EndKnown'
  BY <1>1 DEF EndKnown
<1>3. Over => EndKnown'
  BY DEF EndKnown
<1>4. CASE Send
  <2>1. CASE UNCHANGED <<spc, cliSide>>
    BY <1>1, <1>2, <2>1
  <2>2. CASE spc' = "crashed" /\ unsent' = [c \in Clients |-> 0]
    BY <1>3, <2>2 DEF Flowing
  <2> QED BY <1>4, <2>1, <2>2 DEF Send
<1>5. CASE Flowing /\ ServerActs
  <2>1. UNCHANGED unsent => Flowing'
    BY <1>5 DEF Flowing
  <2>write. ASSUME NEW T, NEW buf, NEW pending, NEW next, next \notin Ends2,
                   WriteAll(T, buf, pending, next)
            PROVE  Same \/ Over
    BY <2>1, <2>write, WriteAllCases DEF WriteSucceeds, WriteKills
  <2>next. NextExchange => spc' \notin Ends2
    BY DEF NextExchange
  <2>2. CASE Select \/ Accept \/ AcceptFails \/ OperatorMistypes \/ DispatchEnds
    <3>1. spc' \notin Ends2
      BY <2>2 DEF Select, Accept, AcceptFails, OperatorMistypes, DispatchEnds, Phase
    <3> QED BY <1>2, <2>2, <3>1 DEF Select, Accept, AcceptFails, OperatorMistypes, DispatchEnds, netVars
  <2>3. CASE OperatorQuits
    <3>1. WriteAll(Indices \ {-1}, <<shutdown_msg>>, c2s, "closing")
      BY <2>3 DEF OperatorQuits, broadcast
    <3> QED BY <1>2, <1>3, <2>write, <3>1
  <2>4. CASE Exit \/ RecvThrows \/ OrderFaults
    BY <1>3, <2>1, <2>4 DEF Exit, RecvThrows, OrderFaults
  <2>5. CASE \E k \in Indices : Dispatch(k)
    <3>k. PICK k \in Indices : Dispatch(k)
      BY <2>5
    <3>1. PICK buf \in Chunks(c2s[Meta(k)], srvSide[Meta(k)]) :
            \/ HandleHello(k, buf) \/ HandleGoodbye(k, buf)
            \/ HandleLock(k, buf)  \/ HandleUnlock(k, buf)
            \/ HandleWrite(k, buf) \/ HandleCountdown(k, buf)
            \/ Discard(k, buf)
      BY <3>k DEF Dispatch
    <3>2. CASE \/ HandleHello(k, buf) \/ HandleGoodbye(k, buf)
               \/ HandleLock(k, buf)  \/ HandleUnlock(k, buf)
               \/ HandleWrite(k, buf)
      <4>1. PICK next \in {"scan", "unlock"} :
              WriteAll(Indices \ {k}, buf, Rest(k, buf), next)
        BY <3>2 DEF HandleHello, HandleGoodbye, HandleLock, HandleUnlock, HandleWrite,
           Relay, broadcast
      <4> QED BY <1>2, <1>3, <2>write, <4>1
    <3>3. CASE HandleCountdown(k, buf) \/ Discard(k, buf)
      <4>1. spc = "scan"
        BY <3>3 DEF HandleCountdown, Discard, Received, NextIndex
      <4> QED BY <1>2, <3>3, <4>1 DEF HandleCountdown, Discard
    <3> QED BY <3>1, <3>2, <3>3
  <2>6. CASE Ping
    <3>1. WriteAll({j}, <<ping_msg(i)>>, c2s, "pong")
      BY <2>6 DEF Ping, WriteOne
    <3> QED BY <1>2, <1>3, <2>write, <3>1
  <2>7. CASE Pong \/ PongFails
    BY <1>2, <2>7, <2>next DEF Pong, PongFails
  <2>8. CASE Order
    <3>1. PICK next \in {"order", "unlock"} :
            WriteAll({j}, <<countdown_order_msg(n)>>, c2s, next)
      BY <2>8 DEF Order, WriteOne
    <3> QED BY <1>2, <1>3, <2>write, <3>1
  <2>9. CASE Unlock
    <3>1. WriteAll(Indices \ {-1}, <<unlock_msg(lock_owner)>>, c2s, "scan")
      BY <2>9 DEF Unlock, broadcast
    <3> QED BY <1>2, <1>3, <2>write, <3>1
  <2>10. CASE Erase
    <3>1. \/ spc' \in {"select", "erase"} /\ UNCHANGED netVars
          \/ spc' = "crashed" /\ UNCHANGED unsent
      BY <2>10 DEF Erase
    <3> QED BY <1>2, <1>3, <2>1, <3>1 DEF netVars
  <2> QED
    BY <1>5, <2>2, <2>3, <2>4, <2>5, <2>6, <2>7, <2>8, <2>9, <2>10 DEF ServerActs
<1> QED BY <1>4, <1>5 DEF ServerNext

\* Nor does a step of a client, which reads of that end or sees its connection
\* reset only when the server has ended.
LEMMA ClientKeepsEnd ==
    ASSUME IndTypeOK, NEW c \in Clients, ClientRuns(c) \/ UserActs(c),
           UNCHANGED serverVars
    PROVE  EndKnown'
<1>1. spc' = spc
  BY DEF serverVars
<1>2. /\ UNCHANGED unsent
      /\ \/ UNCHANGED cliSide
         \/ cliSide' = [cliSide EXCEPT ![c] = "open"]
         \/ cliSide' \in SidesAfterWrite(cliSide, {c})
         \/ cliSide[c] = "reset" /\ cliSide' = [cliSide EXCEPT ![c] = "broken"]
  <2>write. ASSUME NEW buf, NEW unread, NEW next, Writes(c, buf, unread, next)
            PROVE  UNCHANGED cliSide \/ cliSide' \in SidesAfterWrite(cliSide, {c})
    BY <2>write DEF Writes
  <2>1. CASE OnMessage(c)
    <3>1. PICK buf :
            \/ OnShutdown(c, buf) \/ OnPing(c, buf) \/ OnPingInit(c, buf)
            \/ OnPeer(c, buf) \/ OnLock(c, buf) \/ OnOrder(c, buf)
            \/ OnOther(c, buf)
      BY <2>1 DEF OnMessage
    <3>2. CASE OnPing(c, buf)
      BY <2>write, <3>2 DEF OnPing
    <3> QED BY <3>1, <3>2 DEF OnShutdown, OnPingInit, OnPeer, OnLock, OnOrder, OnOther
  <2>2. CASE PingTurn(c)
    <3>1. UNCHANGED unsent
      BY <2>2 DEF PingTurn
    <3>2. \/ UNCHANGED cliSide
          \/ cliSide' \in SidesAfterWrite(cliSide, {c})
          \/ cliSide[c] = "reset" /\ cliSide' = [cliSide EXCEPT ![c] = "broken"]
      BY <2>2, <2>write DEF PingTurn, RecvFails
    <3> QED BY <3>1, <3>2
  <2>3. CASE FinishLine(c)
    <3>1. UNCHANGED unsent
      BY <2>3 DEF FinishLine
    <3>2. UNCHANGED cliSide \/ cliSide' \in SidesAfterWrite(cliSide, {c})
      BY <2>3, <2>write DEF FinishLine
    <3> QED BY <3>1, <3>2
  <2>4. CASE StartTyping(c) \/ LockAtEnd(c)
    BY <2>4, <2>write DEF StartTyping, LockAtEnd
  <2>5. CASE Leave(c) \/ ClientRecvThrows(c) \/ Killed(c) \/ ConnectFails(c)
             \/ CloseInput(c) \/ Connect(c)
    BY <2>5 DEF Leave, ClientRecvThrows, Killed, ConnectFails, CloseInput, Connect, netVars
  <2> QED BY <2>1, <2>2, <2>3, <2>4, <2>5 DEF ClientRuns, UserActs
<1>3. CASE spc \in {"exited", "crashed"}
  BY <1>1, <1>2, <1>3 DEF IndTypeOK, EndKnown, Flowing
<1>4. CASE spc \notin {"exited", "crashed"}
  <2>1. cliSide \in [Clients -> Sides] /\ \A d \in Clients : cliSide[d] \in {"none", "open"}
    BY <1>4 DEF IndTypeOK, EndKnown, TypeOK, NetworkTypeOK
  <2>2. \A d \in Clients : cliSide'[d] \in {"none", "open"}
    <3>1. CASE cliSide' \in SidesAfterWrite(cliSide, {c})
      BY <2>1, <3>1 DEF SidesAfterWrite
    <3> QED BY <1>2, <2>1, <3>1
  <2> QED BY <1>1, <1>4, <2>2 DEF EndKnown
<1> QED BY <1>3, <1>4

-----------------------------------------------------------------------------
(* Type correctness *)

\* The initial state is well typed.
LEMMA InitIsTyped == Init => IndTypeOK
<1> SUFFICES ASSUME Init PROVE IndTypeOK
  OBVIOUS
<1>1. NetworkTypeOK
  BY EmptySeq DEF Init, NetworkInit, NetworkTypeOK, Sides
<1>2. ServerTypeOK
  BY EmptySeq DEF Init, ServerInit, ServerTypeOK, ServerPCs
<1>3. ClientTypeOK
  BY EmptySeq DEF Init, ClientInit, ClientTypeOK, ClientPCs
<1>4. \A c \in Clients : cpc[c] # "typing"
  BY DEF Init, ClientInit
<1>5. Flowing /\ \A c \in Clients : cliSide[c] = "none"
  BY DEF Init, NetworkInit, Flowing
<1> QED BY <1>1, <1>2, <1>3, <1>4, <1>5 DEF IndTypeOK, TypeOK, LinesOwed, EndKnown

\* A step of either program, or none at all, keeps every type.
LEMMA NextKeepsTypes == IndTypeOK /\ [Next]_vars => IndTypeOK'
<1> SUFFICES ASSUME IndTypeOK, [Next]_vars PROVE IndTypeOK'
  OBVIOUS
<1>1. CASE ServerNext /\ UNCHANGED clientVars
  BY <1>1, ServerKeepsTypes, ServerKeepsEnd DEF IndTypeOK
<1>2. CASE ClientNext /\ UNCHANGED serverVars
  BY <1>2, ClientKeepsTypes, ClientKeepsEnd DEF ClientNext, IndTypeOK
<1>3. CASE UNCHANGED vars
  BY <1>3 DEF vars, netVars, serverVars, clientVars, IndTypeOK, TypeOK, LinesOwed,
     EndKnown, Flowing, NetworkTypeOK, ServerTypeOK, ClientTypeOK
<1> QED BY <1>1, <1>2, <1>3 DEF Next

\* Every variable of the server, of the clients and of the network keeps its
\* type in every behaviour, whatever the users do, the bytes arrive in or the
\* machines fail at.
THEOREM TypeCorrect == Spec => []TypeOK
<1>1. IndTypeOK => TypeOK
  BY DEF IndTypeOK
<1> QED BY <1>1, InitIsTyped, NextKeepsTypes, PTL DEF Spec

-----------------------------------------------------------------------------
(* What a step leaves readable *)

\* What is readable for the server stays so until the server reads it.
StaysReadable ==
    \A d \in Clients : Readable(c2s[d], srvSide[d]) => Readable(c2s'[d], srvSide'[d])

\* A write to the clients closes no socket for good, and what was not open
\* before is not open after.
LEMMA SidesStayShut ==
    ASSUME NEW sides \in [Clients -> Sides], NEW W,
           NEW after \in SidesAfterWrite(sides, W), NEW d \in Clients,
           sides[d] # "open"
    PROVE  after[d] # "open"
BY DEF SidesAfterWrite

\* A write by the server reads nothing itself.
LEMMA WriteAllReads ==
    ASSUME NetworkTypeOK, NEW T, NEW buf, NEW pending, NEW next,
           WriteAll(T, buf, pending, next), spc' # "crashed"
    PROVE  /\ spc' = next
           /\ c2s' = pending
           /\ \A d \in Clients : srvSide[d] # "open" => srvSide'[d] # "open"
<1>1. PICK W, V \in SUBSET Metas(T) :
        /\ srvSide' \in SidesAfterWrite(srvSide, W)
        /\ WriteSucceeds(T, V, buf, pending, next)
  BY WriteAllCases DEF WriteKills
<1>2. \A d \in Clients : srvSide[d] # "open" => srvSide'[d] # "open"
  BY <1>1, SidesStayShut DEF NetworkTypeOK
<1> QED BY <1>1, <1>2 DEF WriteSucceeds

\* The end of a client leaves what it wrote to be read.
LEMMA EndsLeavesReadable ==
    ASSUME NetworkTypeOK, ClientTypeOK, NEW c \in Clients,
           NEW how \in {"exited", "crashed"}, NEW unread,
           Ends(c, how, unread), UNCHANGED c2s
    PROVE  /\ StaysReadable
           /\ \A d \in Clients : cpc'[d] = "off" => cpc[d] = "off"
<1>1. \A d \in Clients : srvSide[d] # "open" => srvSide'[d] # "open"
  BY DEF Ends, Closed, NetworkTypeOK
<1>2. \A d \in Clients : cpc'[d] = "off" => cpc[d] = "off"
  BY DEF Ends, ClientTypeOK
<1> QED BY <1>1, <1>2 DEF StaysReadable, Readable

\* A write by a client only adds to what is to be read.
LEMMA WritesLeavesReadable ==
    ASSUME NetworkTypeOK, ClientTypeOK, NEW c \in Clients, NEW buf \in Seq(Msg),
           NEW unread, NEW next \in ClientPCs \ {"off"},
           Writes(c, buf, unread, next)
    PROVE  /\ StaysReadable
           /\ \A d \in Clients : cpc'[d] = "off" => cpc[d] = "off"
<1>1. CASE cliSide[c] # "broken"
  <2>1. /\ c2s' = Written(c2s, cliSide, {c}, buf)
        /\ cpc' = [cpc EXCEPT ![c] = next]
        /\ UNCHANGED srvSide
    BY <1>1 DEF Writes
  <2>2. \A d \in Clients : c2s[d] # <<>> => c2s'[d] # <<>>
    <3> SUFFICES ASSUME NEW d \in Clients, c2s[d] # <<>> PROVE c2s'[d] # <<>>
      OBVIOUS
    <3>1. c2s[d] \in Seq(Msg)
      BY DEF NetworkTypeOK
    <3>2. c2s[d] \o buf # <<>>
      BY <3>1, ConcatProperties, EmptySeq, LenProperties
    <3> QED BY <2>1, <3>2 DEF Written
  <2>3. \A d \in Clients : cpc'[d] = "off" => cpc[d] = "off"
    BY <2>1 DEF ClientTypeOK
  <2> QED BY <2>1, <2>2, <2>3 DEF StaysReadable, Readable
<1>2. CASE cliSide[c] = "broken"
  BY <1>2, EndsLeavesReadable DEF Writes
<1> QED BY <1>1, <1>2

\* No step of a client takes anything away from the server: what was readable
\* stays so, and a client that connects had no connection before.
LEMMA ClientStepFacts ==
    ASSUME IndTypeOK, NEW c \in Clients, ClientRuns(c) \/ UserActs(c)
    PROVE  /\ StaysReadable
           /\ \A d \in Clients : cpc'[d] = "off" => cpc[d] = "off"
           /\ \/ backlog' = backlog
              \/ cpc[c] = "off" /\ cpc'[c] # "off" /\ backlog' = Append(backlog, c)
<1> USE DEF IndTypeOK, LinesOwed
<1>1. NetworkTypeOK /\ ClientTypeOK
  BY DEF TypeOK
<1>same. ASSUME UNCHANGED <<c2s, srvSide>> PROVE StaysReadable
  BY <1>same DEF StaysReadable
<1>pcs. {"typing", "pinging", "select", "deaf", "leaving"} \subseteq ClientPCs \ {"off"}
  BY DEF ClientPCs
<1>2. CASE Leave(c)
  BY <1>1, <1>2, EndsLeavesReadable DEF Leave
<1>3. CASE ClientRecvThrows(c)
  BY <1>1, <1>3, EndsLeavesReadable DEF ClientRecvThrows
<1>4. CASE OnMessage(c)
  <2>1. PICK buf \in Chunks(s2c[c], cliSide[c]) :
          \/ OnShutdown(c, buf) \/ OnPing(c, buf) \/ OnPingInit(c, buf)
          \/ OnPeer(c, buf) \/ OnLock(c, buf) \/ OnOrder(c, buf)
          \/ OnOther(c, buf)
    BY <1>4, OnMessageRead
  <2>2. CASE OnShutdown(c, buf)
    BY <1>1, <2>2, EndsLeavesReadable DEF OnShutdown
  <2>3. CASE OnPing(c, buf)
    <3>1. PICK next \in {"pinging", "select"} : Writes(c, buf, After(s2c[c], buf), next)
      BY <2>3 DEF OnPing
    <3>2. buf \in Seq(Msg)
      BY GetsType
    <3> QED BY <1>1, <1>pcs, <2>3, <3>1, <3>2, WritesLeavesReadable DEF OnPing
  <2>4. CASE OnPingInit(c, buf) \/ OnPeer(c, buf) \/ OnLock(c, buf)
             \/ OnOrder(c, buf) \/ OnOther(c, buf)
    BY <1>same, <2>4 DEF OnPingInit, OnPeer, OnLock, OnOrder, OnOther, clientVars
  <2> QED BY <2>1, <2>2, <2>3, <2>4
<1>5. CASE PingTurn(c)
  <2>1. PICK next \in {"pinging", "select"} :
          \/ \E buf \in Chunks(s2c[c], cliSide[c]) :
                \/ Writes(c, buf, After(s2c[c], buf), next)
                \/ cpc' = [cpc EXCEPT ![c] = next] /\ UNCHANGED <<c2s, srvSide>>
          \/ cpc' = [cpc EXCEPT ![c] = next] /\ UNCHANGED <<c2s, srvSide>>
    BY <1>5, PingTurnRead
  <2>2. CASE cpc' = [cpc EXCEPT ![c] = next] /\ UNCHANGED <<c2s, srvSide>>
    BY <1>1, <1>5, <1>same, <1>pcs, <2>2 DEF PingTurn, ClientTypeOK
  <2>3. ASSUME NEW buf \in Chunks(s2c[c], cliSide[c]),
               Writes(c, buf, After(s2c[c], buf), next)
        PROVE  /\ StaysReadable
               /\ \A d \in Clients : cpc'[d] = "off" => cpc[d] = "off"
    <3>1. buf \in Seq(Msg)
      BY GetsType
    <3> QED BY <1>1, <1>pcs, <2>3, <3>1, WritesLeavesReadable
  <2> QED BY <1>5, <2>1, <2>2, <2>3 DEF PingTurn
<1>6. CASE Connect(c)
  <2>1. <<hello_msg(Nick[c])>> # <<>>
    OBVIOUS
  <2>2. StaysReadable
    BY <1>1, <1>6, <2>1 DEF Connect, StaysReadable, Readable, NetworkTypeOK
  <2> QED BY <1>1, <1>6, <2>2 DEF Connect, ClientTypeOK
<1>7. CASE ConnectFails(c)
  BY <1>1, <1>7, <1>same DEF ConnectFails, netVars, ClientTypeOK
<1>8. CASE StartTyping(c)
  <2>1. <<lock_msg(Nick[c])>> \in Seq(Msg)
    BY MessageTypes, NetworkAssumption, ServerAssumption
  <2> QED BY <1>1, <1>8, <1>pcs, <2>1, WritesLeavesReadable DEF StartTyping
<1>9. CASE FinishLine(c)
  <2>1. PICK line \in Script[c][typed[c] + 1], next \in {"leaving", "select"} :
          \/ cpc' = [cpc EXCEPT ![c] = "select"] /\ UNCHANGED <<c2s, srvSide>>
          \/ Writes(c, parse_cmdline(line, Nick[c]), s2c[c], next)
    BY <1>9 DEF FinishLine
  <2>2. parse_cmdline(line, Nick[c]) \in Seq(Msg)
    BY <1>9, LineType DEF FinishLine
  <2>3. CASE cpc' = [cpc EXCEPT ![c] = "select"] /\ UNCHANGED <<c2s, srvSide>>
    BY <1>1, <1>9, <1>same, <2>3 DEF FinishLine, ClientTypeOK
  <2>4. CASE Writes(c, parse_cmdline(line, Nick[c]), s2c[c], next)
    BY <1>1, <1>9, <1>pcs, <2>2, <2>4, WritesLeavesReadable DEF FinishLine
  <2> QED BY <2>1, <2>3, <2>4
<1>10. CASE Killed(c)
  BY <1>1, <1>10, EndsLeavesReadable DEF Killed
<1>11. CASE CloseInput(c)
  BY <1>1, <1>11, <1>same DEF CloseInput, netVars, ClientTypeOK
<1>12. CASE LockAtEnd(c)
  <2>1. <<lock_msg(Nick[c])>> \in Seq(Msg)
    BY MessageTypes, NetworkAssumption, ServerAssumption
  <2> QED BY <1>1, <1>12, <1>pcs, <2>1, WritesLeavesReadable DEF LockAtEnd
<1> QED
  BY <1>2, <1>3, <1>4, <1>5, <1>6, <1>7, <1>8, <1>9, <1>10, <1>11, <1>12
     DEF ClientRuns, UserActs

-----------------------------------------------------------------------------
(* Sequences without repetitions *)

\* Taking one element out moves what follows it to the front by one.
LEMMA RemoveAtElements ==
    ASSUME NEW S, NEW s \in Seq(S), NEW m \in 1..Len(s)
    PROVE  /\ RemoveAt(s, m) \in Seq(S)
           /\ Len(RemoveAt(s, m)) = Len(s) - 1
           /\ DOMAIN RemoveAt(s, m) = 1..(Len(s) - 1)
           /\ \A l \in 1..(Len(s) - 1) :
                 RemoveAt(s, m)[l] = s[IF l < m THEN l ELSE l + 1]
<1> DEFINE N == Len(s)
           r == RemoveAt(s, m)
           s1 == SubSeq(s, 1, m - 1)
           s2 == SubSeq(s, m + 1, N)
<1>1. /\ N \in Nat /\ m \in Nat /\ 1 <= m /\ m <= N
      /\ DOMAIN s = 1..N /\ \A l \in 1..N : s[l] \in S
  BY LenProperties
<1>2. r = s1 \o s2
  BY DEF RemoveAt
<1>3. /\ s1 \in Seq(S)
      /\ Len(s1) = m - 1
      /\ \A l \in 1..(m - 1) : s1[l] = s[l]
  <2>1. \A l \in 1..(m - 1) : s[l] \in S
    BY <1>1
  <2>2. \A l \in 1..(m - 1) : 1 + l - 1 = l
    OBVIOUS
  <2> HIDE DEF N
  <2>3. /\ s1 \in Seq(S)
        /\ Len(s1) = IF 1 <= m - 1 THEN (m - 1) - 1 + 1 ELSE 0
        /\ \A l \in 1..((m - 1) - 1 + 1) : s1[l] = s[1 + l - 1]
    BY <1>1, <2>1, SubSeqProperties
  <2> HIDE DEF s1
  <2> QED BY <1>1, <2>2, <2>3
<1>4. /\ s2 \in Seq(S)
      /\ Len(s2) = N - m
      /\ \A l \in 1..(N - m) : s2[l] = s[m + l]
  <2>1. \A l \in (m + 1)..N : s[l] \in S
    BY <1>1
  <2>2. \A l \in 1..(N - m) : (m + 1) + l - 1 = m + l
    BY <1>1
  <2> HIDE DEF N
  <2>3. /\ s2 \in Seq(S)
        /\ Len(s2) = IF m + 1 <= N THEN N - (m + 1) + 1 ELSE 0
        /\ \A l \in 1..(N - (m + 1) + 1) : s2[l] = s[(m + 1) + l - 1]
    BY <1>1, <2>1, SubSeqProperties
  <2> HIDE DEF s2
  <2> QED BY <1>1, <2>2, <2>3
<1> HIDE DEF r, s1, s2
<1>5. /\ r \in Seq(S)
      /\ Len(r) = N - 1
      /\ \A l \in 1..(N - 1) : r[l] = IF l <= m - 1 THEN s1[l] ELSE s2[l - (m - 1)]
  <2>1. /\ r \in Seq(S)
        /\ Len(r) = Len(s1) + Len(s2)
        /\ \A l \in 1..(Len(s1) + Len(s2)) :
              r[l] = IF l <= Len(s1) THEN s1[l] ELSE s2[l - Len(s1)]
    BY <1>2, <1>3, <1>4, ConcatProperties
  <2>2. Len(s1) + Len(s2) = N - 1
    BY <1>1, <1>3, <1>4
  <2> QED BY <1>3, <2>1, <2>2
<1> HIDE DEF N
<1>6. ASSUME NEW l \in 1..(N - 1) PROVE r[l] = s[IF l < m THEN l ELSE l + 1]
  <2>1. CASE l < m
    <3>1. l <= m - 1 /\ l \in 1..(m - 1)
      BY <1>1, <2>1
    <3> QED BY <1>3, <1>5, <2>1, <3>1
  <2>2. CASE ~(l < m)
    <3>1. ~(l <= m - 1) /\ l - (m - 1) \in 1..(N - m) /\ m + (l - (m - 1)) = l + 1
      BY <1>1, <2>2
    <3> QED BY <1>4, <1>5, <2>2, <3>1
  <2> QED BY <2>1, <2>2
<1>7. DOMAIN r = 1..(N - 1)
  BY <1>5, LenProperties
<1>8. /\ r \in Seq(S) /\ Len(r) = N - 1 /\ DOMAIN r = 1..(N - 1)
      /\ \A l \in 1..(N - 1) : r[l] = s[IF l < m THEN l ELSE l + 1]
  BY <1>5, <1>6, <1>7
<1> QED BY <1>8 DEF r, N

\* Taking one element out brings in no repetition and nothing new, and leaves
\* the sequence shorter by one.
LEMMA RemoveAtDistinct ==
    ASSUME NEW S, NEW s \in Seq(S), IsInjective(s), NEW m \in 1..Len(s)
    PROVE  /\ IsInjective(RemoveAt(s, m))
           /\ ToSet(RemoveAt(s, m)) \subseteq ToSet(s)
           /\ Len(RemoveAt(s, m)) = Len(s) - 1
<1> DEFINE N == Len(s)
           r == RemoveAt(s, m)
<1>1. N \in Nat /\ DOMAIN s = 1..N
  BY LenProperties
<1>2. /\ Len(r) = N - 1 /\ DOMAIN r = 1..(N - 1)
      /\ \A l \in 1..(N - 1) : r[l] = s[IF l < m THEN l ELSE l + 1]
  BY RemoveAtElements
<1>3. m \in 1..N
  OBVIOUS
<1> HIDE DEF r, N
<1> DEFINE from(l) == IF l < m THEN l ELSE l + 1
<1>f. /\ \A l \in 1..(N - 1) : from(l) \in 1..N /\ r[l] = s[from(l)]
      /\ \A a, b \in 1..(N - 1) : from(a) = from(b) => a = b
  BY <1>1, <1>2, <1>3
<1> HIDE DEF from
<1>4. IsInjective(r)
  <2> SUFFICES ASSUME NEW a \in 1..(N - 1), NEW b \in 1..(N - 1), r[a] = r[b]
               PROVE  a = b
    BY <1>2 DEF IsInjective
  <2>1. from(a) = from(b)
    BY <1>1, <1>f DEF IsInjective
  <2> QED BY <1>f, <2>1
<1>5. ToSet(r) \subseteq ToSet(s)
  <2>1. \A l \in 1..(N - 1) : r[l] \in ToSet(s)
    BY <1>1, <1>f DEF ToSet
  <2> QED BY <1>2, <2>1 DEF ToSet
<1>6. IsInjective(r) /\ ToSet(r) \subseteq ToSet(s) /\ Len(r) = N - 1
  BY <1>2, <1>4, <1>5
<1> QED BY <1>6 DEF r, N

\* The elements of a sequence but its last.
LEMMA FrontElements ==
    ASSUME NEW S, NEW s \in Seq(S), Len(s) # 0
    PROVE  /\ Len(Front(s)) = Len(s) - 1
           /\ DOMAIN Front(s) = 1..(Len(s) - 1)
           /\ \A a \in 1..(Len(s) - 1) : Front(s)[a] = s[a]
<1> DEFINE f == Len(s) - 1
<1>1. /\ Len(s) \in Nat /\ f \in Nat
      /\ \A m \in 1..f : s[m] \in S
      /\ (IF 1 <= f THEN f - 1 + 1 ELSE 0) = f
      /\ \A m \in 1..f : 1 + m - 1 = m
      /\ f - 1 + 1 = f
  <2>1. Len(s) \in Nat /\ f \in Nat
    BY LenProperties
  <2>2. \A m \in 1..f : m \in 1..Len(s)
    BY <2>1
  <2>3. \A m \in 1..f : s[m] \in S
    BY <2>1, <2>2, LenProperties
  <2> HIDE DEF f
  <2>4. /\ (IF 1 <= f THEN f - 1 + 1 ELSE 0) = f
        /\ \A m \in 1..f : 1 + m - 1 = m
        /\ f - 1 + 1 = f
    BY <2>1
  <2> QED BY <2>1, <2>3, <2>4
<1> HIDE DEF f
<1>2. /\ SubSeq(s, 1, f) \in Seq(S)
      /\ Len(SubSeq(s, 1, f)) = f
      /\ \A a \in 1..f : SubSeq(s, 1, f)[a] = s[a]
  <2>1. /\ SubSeq(s, 1, f) \in Seq(S)
        /\ Len(SubSeq(s, 1, f)) = IF 1 <= f THEN f - 1 + 1 ELSE 0
        /\ \A a \in 1..(f - 1 + 1) : SubSeq(s, 1, f)[a] = s[1 + a - 1]
    BY <1>1, SubSeqProperties
  <2> QED BY <1>1, <2>1
<1>3. DOMAIN SubSeq(s, 1, f) = 1..f
  BY <1>2, LenProperties
<1> QED BY <1>2, <1>3 DEF Front, f

\* Nor does taking the last one out.
LEMMA FrontDistinct ==
    ASSUME NEW S, NEW s \in Seq(S), IsInjective(s), s # <<>>
    PROVE  IsInjective(Front(s)) /\ ToSet(Front(s)) \subseteq ToSet(s)
<1>1. Len(s) \in Nat \ {0}
  BY EmptySeq
<1>2. SubSeq(s, Len(s) + 1, Len(s)) = <<>>
  BY <1>1, SubSeqEmpty
<1>3. Front(s) \in Seq(S)
  BY FrontType
<1>4. Front(s) \o <<>> = Front(s)
  BY <1>3, ConcatEmptySeq
<1>5. RemoveAt(s, Len(s)) = Front(s)
  BY <1>2, <1>4 DEF RemoveAt, Front
<1> QED BY <1>1, <1>5, RemoveAtDistinct

\* Adding an element that is not there brings in no repetition.
LEMMA AppendDistinct ==
    ASSUME NEW S, NEW s \in Seq(S), IsInjective(s), NEW e \in S, e \notin ToSet(s)
    PROVE  /\ IsInjective(Append(s, e))
           /\ ToSet(Append(s, e)) = ToSet(s) \cup {e}
<1> DEFINE t == Append(s, e)
<1>1. /\ t \in Seq(S)
      /\ Len(s) \in Nat /\ DOMAIN s = 1..Len(s)
      /\ Len(t) = Len(s) + 1
      /\ DOMAIN t = 1..(Len(s) + 1)
      /\ \A l \in 1..Len(s) : t[l] = s[l]
      /\ t[Len(s) + 1] = e
  BY AppendProperties, LenProperties
<1> HIDE DEF t
<1>2. IsInjective(t)
  BY <1>1 DEF IsInjective, ToSet
<1>3. ToSet(t) = ToSet(s) \cup {e}
  BY <1>1 DEF ToSet
<1>4. IsInjective(t) /\ ToSet(t) = ToSet(s) \cup {e}
  BY <1>2, <1>3
<1> QED BY <1>4 DEF t

\* The head of a sequence without repetitions is not in its tail.
LEMMA TailDistinct ==
    ASSUME NEW S, NEW s \in Seq(S), s # <<>>, IsInjective(s)
    PROVE  /\ IsInjective(Tail(s))
           /\ Head(s) \in ToSet(s)
           /\ ToSet(Tail(s)) = ToSet(s) \ {Head(s)}
<1>1. /\ Tail(s) \in Seq(S)
      /\ Len(s) \in Nat \ {0} /\ DOMAIN s = 1..Len(s)
      /\ Head(s) = s[1]
      /\ Len(Tail(s)) = Len(s) - 1
      /\ DOMAIN Tail(s) = 1..(Len(s) - 1)
      /\ \A l \in 1..(Len(s) - 1) : Tail(s)[l] = s[l + 1]
  BY HeadTailProperties, LenProperties, EmptySeq
<1>2. IsInjective(Tail(s))
  BY <1>1 DEF IsInjective
<1>3. Head(s) \in ToSet(s)
  BY <1>1 DEF ToSet
<1>4. ToSet(Tail(s)) \subseteq ToSet(s) \ {Head(s)}
  BY <1>1 DEF ToSet, IsInjective
<1>5. ASSUME NEW e \in ToSet(s) \ {Head(s)} PROVE e \in ToSet(Tail(s))
  <2>1. PICK l \in 1..Len(s) : e = s[l]
    BY <1>1 DEF ToSet
  <2>2. l - 1 \in 1..(Len(s) - 1) /\ Tail(s)[l - 1] = e
    BY <1>1, <1>5, <2>1
  <2> QED BY <1>1, <2>2 DEF ToSet
<1> QED BY <1>2, <1>3, <1>4, <1>5

\* A sequence of clients without repetitions is no longer than there are clients.
LEMMA DistinctLength ==
    ASSUME IsFiniteSet(Clients), NEW s \in Seq(Clients), IsInjective(s)
    PROVE  Len(s) <= Cardinality(Clients)
<1>1. Len(s) \in Nat /\ s \in [1..Len(s) -> Clients]
  BY LenProperties
<1>2. s \in Injection(1..Len(s), Clients)
  BY <1>1 DEF Injection
<1>3. Cardinality(1..Len(s)) <= Cardinality(Clients)
  BY <1>2, FS_Injection
<1>4. Cardinality(1..Len(s)) = Len(s)
  BY <1>1, FS_Interval
<1> QED BY <1>3, <1>4

-----------------------------------------------------------------------------
(* A connection is in one place *)

\* The server moves connections from the backlog to client_metas, and drops them.
LEMMA ServerKeepsPlaces ==
    ASSUME IndTypeOK, OnePlaceEach, ServerNext, UNCHANGED clientVars
    PROVE  OnePlaceEach'
<1> USE DEF IndTypeOK
<1>1. client_metas \in Seq(Clients) /\ backlog \in Seq(Clients)
  BY DEF TypeOK, ServerTypeOK, NetworkTypeOK
<1>2. cpc' = cpc
  BY DEF clientVars
<1>3. CASE UNCHANGED <<client_metas, backlog>>
  BY <1>2, <1>3 DEF OnePlaceEach
<1>4. CASE Accept
  <2>1. /\ backlog # <<>>
        /\ client_metas' = Append(client_metas, Head(backlog))
        /\ backlog' = Tail(backlog)
    BY <1>4 DEF Accept
  <2>2. /\ IsInjective(Tail(backlog))
        /\ Head(backlog) \in ToSet(backlog)
        /\ ToSet(Tail(backlog)) = ToSet(backlog) \ {Head(backlog)}
    BY <1>1, <2>1, TailDistinct DEF OnePlaceEach
  <2>3. Head(backlog) \in Clients
    BY <1>1, <2>1, HeadTailProperties
  <2>4. /\ IsInjective(Append(client_metas, Head(backlog)))
        /\ ToSet(Append(client_metas, Head(backlog)))
             = ToSet(client_metas) \cup {Head(backlog)}
    BY <1>1, <2>2, <2>3, AppendDistinct DEF OnePlaceEach
  <2> HIDE DEF IndTypeOK
  <2> QED BY <1>2, <2>1, <2>2, <2>4 DEF OnePlaceEach
<1>5. CASE Erase
  <2>1. CASE client_metas' = RemoveAt(client_metas, Last(delete_idxs) + 1)
             /\ Last(delete_idxs) \in Indices /\ UNCHANGED netVars
    <3>1. Last(delete_idxs) + 1 \in 1..Len(client_metas)
      BY <1>1, <2>1, LenProperties DEF Indices
    <3>2. /\ IsInjective(client_metas')
          /\ ToSet(client_metas') \subseteq ToSet(client_metas)
      BY <1>1, <2>1, <3>1, RemoveAtDistinct DEF OnePlaceEach
    <3> HIDE DEF IndTypeOK
    <3> QED BY <1>2, <2>1, <3>2 DEF OnePlaceEach, netVars
  <2>2. CASE client_metas # <<>> /\ client_metas' = Front(client_metas)
             /\ UNCHANGED netVars
    <3>1. /\ IsInjective(client_metas')
          /\ ToSet(client_metas') \subseteq ToSet(client_metas)
      BY <1>1, <2>2, FrontDistinct DEF OnePlaceEach
    <3> HIDE DEF IndTypeOK
    <3> QED BY <1>2, <2>2, <3>1 DEF OnePlaceEach, netVars
  <2> QED BY <1>3, <1>5, <2>1, <2>2 DEF Erase
<1>6. CASE \E k \in Indices : Dispatch(k)
  BY <1>3, <1>6 DEF Dispatch, HandleHello, HandleGoodbye, HandleLock, HandleUnlock,
     HandleWrite, HandleCountdown, Discard
<1>7. CASE Select \/ AcceptFails \/ OperatorQuits \/ OperatorMistypes \/ Exit
           \/ RecvThrows \/ Ping \/ Pong \/ PongFails \/ OrderFaults \/ Order
           \/ Unlock \/ DispatchEnds
  BY <1>3, <1>7 DEF Select, AcceptFails, OperatorQuits, OperatorMistypes, Exit,
     RecvThrows, Ping, Pong, PongFails, OrderFaults, Order, Unlock, DispatchEnds, netVars
<1>8. CASE Send
  BY <1>3, <1>8 DEF Send
<1> QED BY <1>4, <1>5, <1>6, <1>7, <1>8 DEF ServerNext, ServerActs

\* A client enters the backlog only once, when it connects.
LEMMA ClientKeepsPlaces ==
    ASSUME IndTypeOK, OnePlaceEach, NEW c \in Clients, ClientRuns(c) \/ UserActs(c),
           UNCHANGED serverVars
    PROVE  OnePlaceEach'
<1>1. client_metas' = client_metas
  BY DEF serverVars
<1>2. /\ \A d \in Clients : cpc'[d] = "off" => cpc[d] = "off"
      /\ \/ backlog' = backlog
         \/ cpc[c] = "off" /\ cpc'[c] # "off" /\ backlog' = Append(backlog, c)
  BY ClientStepFacts
<1>3. backlog \in Seq(Clients) /\ client_metas \in Seq(Clients)
  BY DEF IndTypeOK, TypeOK, NetworkTypeOK, ServerTypeOK
<1>4. ToSet(client_metas) \subseteq Clients /\ ToSet(backlog) \subseteq Clients
  BY <1>3, ElementOfSeq, LenProperties DEF ToSet
<1>5. CASE backlog' = backlog
  BY <1>1, <1>2, <1>4, <1>5 DEF OnePlaceEach
<1>6. CASE cpc[c] = "off" /\ cpc'[c] # "off" /\ backlog' = Append(backlog, c)
  <2>1. c \notin ToSet(client_metas) /\ c \notin ToSet(backlog)
    BY <1>6 DEF OnePlaceEach
  <2>2. IsInjective(backlog') /\ ToSet(backlog') = ToSet(backlog) \cup {c}
    BY <1>3, <1>6, <2>1, AppendDistinct DEF OnePlaceEach
  <2> QED BY <1>1, <1>2, <1>4, <1>6, <2>1, <2>2 DEF OnePlaceEach
<1> QED BY <1>2, <1>5, <1>6

\* No client is in client_metas twice, nor both there and in the backlog: what
\* the server writes to a client it writes once.
THEOREM ConnectionsDistinct == Spec => []OnePlaceEach
<1>1. Init => OnePlaceEach
  BY EmptySeq DEF Init, NetworkInit, ServerInit, OnePlaceEach, IsInjective, ToSet
<1>2. IndTypeOK /\ OnePlaceEach /\ [Next]_vars => OnePlaceEach'
  <2> SUFFICES ASSUME IndTypeOK, OnePlaceEach, [Next]_vars PROVE OnePlaceEach'
    OBVIOUS
  <2>1. CASE ServerNext /\ UNCHANGED clientVars
    BY <2>1, ServerKeepsPlaces
  <2>2. CASE ClientNext /\ UNCHANGED serverVars
    BY <2>2, ClientKeepsPlaces DEF ClientNext
  <2>3. CASE UNCHANGED vars
    BY <2>3 DEF vars, netVars, serverVars, clientVars, OnePlaceEach
  <2> QED BY <2>1, <2>2, <2>3 DEF Next
<1> QED BY <1>1, <1>2, InitIsTyped, NextKeepsTypes, PTL DEF Spec

-----------------------------------------------------------------------------
(* The dispatch loop *)

\* Every step of the server, as long as no index is left after the ping loop.
LEMMA ServerKeepsDispatch ==
    ASSUME FewClients, IndTypeOK, OnePlaceEach, DispatchOK, ServerNext,
           UNCHANGED clientVars
    PROVE  DispatchOK'
<1>1. /\ client_metas \in Seq(Clients)
      /\ delete_idxs \in Seq(Nat)
      /\ i \in Nat /\ j \in Nat /\ PingN \in Int
      /\ NetworkTypeOK
  BY ServerAssumption DEF IndTypeOK, TypeOK, ServerTypeOK
<1>2. Len(client_metas) \in Nat /\ Len(client_metas) <= PingN + 1
  <2>1. Len(client_metas) \in Nat /\ Len(client_metas) <= Cardinality(Clients)
    BY <1>1, LenProperties, DistinctLength DEF OnePlaceEach, FewClients
  <2>2. Cardinality(Clients) \in Nat /\ Cardinality(Clients) <= PingN + 1
    BY FS_CardinalityType DEF FewClients
  <2> QED BY <1>1, <2>1, <2>2
<1>3. /\ \A k \in Indices : k \in Nat /\ k < Len(client_metas) /\ Meta(k) \in Clients
      /\ \A k, m \in Indices : Meta(k) = Meta(m) => k = m
  <2>1. \A k \in Indices : k + 1 \in 1..Len(client_metas) /\ k \in Nat
    BY <1>2 DEF Indices
  <2>2. DOMAIN client_metas = 1..Len(client_metas)
    BY <1>1, LenProperties
  <2>3. \A k \in Indices : Meta(k) \in Clients
    BY <1>1, <2>1, ElementOfSeq DEF Meta
  <2>4. \A k, m \in Indices : Meta(k) = Meta(m) => k + 1 = m + 1
    BY <2>1, <2>2 DEF OnePlaceEach, IsInjective, Meta
  <2> QED BY <1>2, <2>1, <2>3, <2>4 DEF Indices
<1>4. /\ Len(delete_idxs) \in Nat /\ DOMAIN delete_idxs = 1..Len(delete_idxs)
      /\ \A a \in 1..Len(delete_idxs) : delete_idxs[a] \in Indices
      /\ \A a, b \in 1..Len(delete_idxs) : a < b => delete_idxs[a] < delete_idxs[b]
  BY <1>1, LenProperties DEF DispatchOK, ErasesBackwards, ToSet
<1>same. ASSUME UNCHANGED <<client_metas, delete_idxs>>
         PROVE  ErasesBackwards' /\ Indices' = Indices
  BY <1>same DEF DispatchOK, ErasesBackwards, Indices
<1>away. ASSUME UNCHANGED <<client_metas, delete_idxs>>,
                spc' \in {"ping", "pong", "closing", "exited", "crashed"}
         PROVE  DispatchOK'
  BY <1>same, <1>away DEF DispatchOK
\* What a handler has served lies behind, what it has not is as it was.
<1>behind. ASSUME NEW k \in Indices, NEW buf, Received(k, buf),
                  UNCHANGED client_metas,
                  \/ delete_idxs' = delete_idxs
                  \/ delete_idxs' = Append(delete_idxs, k)
           PROVE  /\ ErasesBackwards'
                  /\ \A a \in 1..Len(delete_idxs') : delete_idxs'[a] < k + 1
  <2>1. spc = "scan" /\ k >= i /\ k \in Nat
    BY <1>3, <1>behind DEF Received, NextIndex
  <2>2. \A a \in 1..Len(delete_idxs) : delete_idxs[a] < k /\ delete_idxs[a] \in Nat
    BY <1>1, <1>3, <1>4, <2>1 DEF DispatchOK, Ahead
  <2>3. Indices' = Indices
    BY <1>behind DEF Indices
  <2>4. CASE delete_idxs' = delete_idxs
    BY <1>same, <1>behind, <2>1, <2>2, <2>4
  <2>5. CASE delete_idxs' = Append(delete_idxs, k)
    <3>1. /\ delete_idxs' \in Seq(Nat)
          /\ Len(delete_idxs') = Len(delete_idxs) + 1
          /\ DOMAIN delete_idxs' = 1..(Len(delete_idxs) + 1)
          /\ \A a \in 1..Len(delete_idxs) : delete_idxs'[a] = delete_idxs[a]
          /\ delete_idxs'[Len(delete_idxs) + 1] = k
      BY <1>1, <2>1, <2>5, AppendProperties, LenProperties
    <3>2. \A a \in 1..(Len(delete_idxs) + 1) :
             delete_idxs'[a] \in Indices /\ delete_idxs'[a] < k + 1
      BY <1>4, <2>1, <2>2, <3>1
    <3>3. \A a, b \in 1..(Len(delete_idxs) + 1) :
             a < b => delete_idxs'[a] < delete_idxs'[b]
      <4> SUFFICES ASSUME NEW a \in 1..(Len(delete_idxs) + 1),
                          NEW b \in 1..(Len(delete_idxs) + 1), a < b
                   PROVE  delete_idxs'[a] < delete_idxs'[b]
        OBVIOUS
      <4>1. a \in 1..Len(delete_idxs) /\ delete_idxs'[a] = delete_idxs[a]
        BY <1>4, <3>1
      <4>2. CASE b \in 1..Len(delete_idxs)
        BY <1>4, <3>1, <4>1, <4>2
      <4>3. CASE b = Len(delete_idxs) + 1
        BY <2>2, <3>1, <4>1, <4>3
      <4> QED BY <1>4, <4>2, <4>3
    <3> QED BY <2>3, <3>1, <3>2, <3>3 DEF ErasesBackwards, ToSet
  <2> QED BY <1>behind, <2>4, <2>5
<1>served. ASSUME NEW k \in Indices, NEW buf, Received(k, buf),
                  UNCHANGED <<client_metas, read_fds>>,
                  \/ delete_idxs' = delete_idxs
                  \/ delete_idxs' = Append(delete_idxs, k),
                  c2s' = Rest(k, buf),
                  \A d \in Clients : srvSide[d] # "open" => srvSide'[d] # "open",
                  \/ spc' = "scan" /\ i' = k + 1
                  \/ spc' = "unlock" /\ i' = k
           PROVE  DispatchOK'
  <2>1. spc = "scan" /\ k >= i /\ k \in Nat
    BY <1>3, <1>served DEF Received, NextIndex
  <2>2. Ahead' = k + 1
    BY <1>served DEF Ahead
  <2>3. Indices' = Indices /\ \A m \in Indices : Meta(m)' = Meta(m)
    BY <1>served DEF Indices, Meta
  <2>4. ASSUME NEW m \in Indices, m >= k + 1, Meta(m) \in read_fds
        PROVE  Readable(c2s'[Meta(m)], srvSide'[Meta(m)])
    <3>1. Meta(m) # Meta(k) /\ Meta(m) \in Clients
      BY <1>3, <2>1, <2>4
    <3>2. m >= i
      BY <1>1, <1>3, <2>1, <2>4
    <3>3. Readable(c2s[Meta(m)], srvSide[Meta(m)])
      BY <2>1, <2>4, <3>2 DEF DispatchOK, Ahead
    <3>4. c2s'[Meta(m)] = c2s[Meta(m)]
      BY <1>1, <1>served, <3>1 DEF Rest, NetworkTypeOK
    <3> QED BY <1>served, <3>1, <3>3, <3>4 DEF Readable
  <2>5. /\ ErasesBackwards'
        /\ \A a \in 1..Len(delete_idxs') : delete_idxs'[a] < k + 1
    BY <1>behind, <1>served
  <2> QED BY <1>served, <2>2, <2>3, <2>4, <2>5 DEF DispatchOK
<1>relay. ASSUME NEW k \in Indices, NEW buf \in Seq(Msg), Received(k, buf),
                 NEW next \in {"scan", "unlock"}, Relay(k, buf, next),
                 UNCHANGED <<client_metas, read_fds>>,
                 \/ delete_idxs' = delete_idxs
                 \/ delete_idxs' = Append(delete_idxs, k),
                 i' = IF next = "scan" THEN k + 1 ELSE k
          PROVE  DispatchOK'
  <2>1. WriteAll(Indices \ {k}, buf, Rest(k, buf), next)
    BY <1>relay DEF Relay, broadcast
  <2>2. CASE spc' = "crashed"
    BY <1>behind, <1>relay, <2>2 DEF DispatchOK
  <2>3. CASE spc' # "crashed"
    <3>1. /\ spc' = next
          /\ c2s' = Rest(k, buf)
          /\ \A d \in Clients : srvSide[d] # "open" => srvSide'[d] # "open"
      BY <1>1, <2>1, <2>3, WriteAllReads
    <3> QED BY <1>relay, <1>served, <3>1
  <2> QED BY <2>2, <2>3
<1>idle. ASSUME spc' \in {"accept", "stdin", "scan"}, delete_idxs' = <<>>,
                \A c \in read_fds' \cap Clients : Readable(c2s'[c], srvSide'[c]),
                client_metas' \in Seq(Clients)
         PROVE  DispatchOK'
  <2>1. ErasesBackwards' /\ Len(delete_idxs') = 0
    BY <1>idle, EmptySeq DEF ErasesBackwards, ToSet
  <2>2. \A k \in Indices' : Meta(k)' \in Clients
    <3>1. Len(client_metas') \in Nat /\ client_metas' \in [1..Len(client_metas') -> Clients]
      BY <1>idle, LenProperties
    <3>2. \A k \in 0..(Len(client_metas') - 1) : k + 1 \in 1..Len(client_metas')
      BY <3>1
    <3> QED BY <3>1, <3>2 DEF Indices, Meta
  <2> QED BY <1>idle, <2>1, <2>2 DEF DispatchOK
<1>5. CASE Select
  <2>1. /\ read_fds' \cap Clients \subseteq Ready
        /\ spc' \in {"accept", "stdin", "scan"}
        /\ delete_idxs' = <<>>
        /\ UNCHANGED <<client_metas, c2s, srvSide>>
    BY <1>5, ServerAssumption DEF Select, Phase, netVars
  <2> QED BY <1>1, <1>idle, <2>1 DEF Ready
<1>6. CASE Accept
  <2> DEFINE c == Head(backlog)
  <2>1. /\ client_metas' = Append(client_metas, c)
        /\ srvSide' \in SidesAfterWrite(srvSide, {c})
        /\ spc' \in {"stdin", "scan"}
        /\ UNCHANGED <<read_fds, delete_idxs, c2s>>
    BY <1>6 DEF Accept, Phase
  <2>2. c \in Clients
    BY <1>1, <1>6, HeadTailProperties DEF Accept, IndTypeOK, NetworkTypeOK
  <2>3. client_metas' \in Seq(Clients)
    BY <1>1, <2>1, <2>2, AppendProperties
  <2>4. \A d \in Clients : srvSide[d] # "open" => srvSide'[d] # "open"
    BY <1>1, <2>1, SidesStayShut DEF NetworkTypeOK
  <2>5. \A d \in read_fds' \cap Clients : Readable(c2s'[d], srvSide'[d])
    BY <1>6, <2>1, <2>4 DEF Accept, DispatchOK, Readable
  <2>6. delete_idxs = <<>>
    BY <1>6 DEF Accept, DispatchOK
  <2> QED BY <1>idle, <2>1, <2>3, <2>5, <2>6
<1>fails. CASE AcceptFails
  <2>1. spc' \in {"stdin", "scan"} /\ UNCHANGED <<client_metas, read_fds, delete_idxs>>
    BY <1>fails DEF AcceptFails, Phase
  <2> QED BY <1>1, <1>fails, <1>idle, <2>1 DEF AcceptFails, DispatchOK, netVars
<1>7. CASE OperatorQuits \/ Exit \/ OrderFaults
  <2>1. CASE OperatorQuits
    <3>1. spc' \in {"closing", "crashed"}
      BY <2>1, WriteAllCases DEF OperatorQuits, broadcast, WriteSucceeds, WriteKills
    <3> QED BY <1>away, <2>1, <3>1 DEF OperatorQuits
  <2> QED BY <1>7, <1>away, <2>1 DEF Exit, OrderFaults
\* A write that goes on reads nothing and opens nothing.
<1>send. CASE Send
  <2>1. /\ UNCHANGED <<client_metas, delete_idxs, read_fds, i>>
        /\ srvSide' \in [Clients -> Sides]
        /\ \/ spc' = "crashed"
           \/ /\ UNCHANGED <<spc, c2s>>
              /\ \A d \in Clients : srvSide[d] # "open" => srvSide'[d] # "open"
    <3>1. \E W : srvSide' \in SidesAfterWrite(srvSide, W)
      BY <1>send DEF Send
    <3>2. /\ srvSide' \in [Clients -> Sides]
          /\ \A d \in Clients : srvSide[d] # "open" => srvSide'[d] # "open"
      BY <1>1, <3>1, SidesType, SidesStayShut DEF NetworkTypeOK
    <3>3. /\ UNCHANGED <<client_metas, delete_idxs, read_fds, i>>
          /\ spc' = "crashed" \/ UNCHANGED <<spc, c2s>>
      BY <1>send DEF Send
    <3> QED BY <3>2, <3>3
  <2>2. CASE spc' = "crashed"
    BY <1>away, <2>1, <2>2
  <2>3. CASE /\ UNCHANGED <<spc, c2s>>
             /\ \A d \in Clients : srvSide[d] # "open" => srvSide'[d] # "open"
    <3>1. /\ ErasesBackwards' /\ Indices' = Indices /\ Ahead' = Ahead
          /\ \A k \in Indices : Meta(k)' = Meta(k)
      BY <1>same, <2>1, <2>3 DEF Meta, Ahead
    <3>2. \A d \in Clients : Readable(c2s[d], srvSide[d]) => Readable(c2s'[d], srvSide'[d])
      BY <2>3 DEF Readable
    <3> QED BY <1>3, <2>1, <2>3, <3>1, <3>2 DEF DispatchOK
  <2> QED BY <2>1, <2>2, <2>3
<1>8. CASE OperatorMistypes
  BY <1>1, <1>8, <1>idle DEF OperatorMistypes, DispatchOK, netVars
<1>9. CASE RecvThrows
  BY <1>9, <1>away DEF RecvThrows
<1>10. ASSUME NEW k \in Indices, Dispatch(k) PROVE DispatchOK'
  <2>1. PICK buf \in Chunks(c2s[Meta(k)], srvSide[Meta(k)]) :
          \/ HandleHello(k, buf) \/ HandleGoodbye(k, buf)
          \/ HandleLock(k, buf)  \/ HandleUnlock(k, buf)
          \/ HandleWrite(k, buf) \/ HandleCountdown(k, buf)
          \/ Discard(k, buf)
    BY <1>10 DEF Dispatch
  <2>2. Received(k, buf)
    BY <2>1 DEF HandleHello, HandleGoodbye, HandleLock, HandleUnlock,
       HandleWrite, HandleCountdown, Discard
  <2>3. buf \in Seq(Msg)
    BY <2>2, ReceivedType DEF IndTypeOK
  <2>4. CASE HandleHello(k, buf)
    BY <1>relay, <2>2, <2>3, <2>4 DEF HandleHello
  <2>5. CASE HandleGoodbye(k, buf)
    BY <1>relay, <2>2, <2>3, <2>5 DEF HandleGoodbye
  <2>6. CASE HandleLock(k, buf)
    BY <1>relay, <2>2, <2>3, <2>6 DEF HandleLock
  <2>7. CASE HandleUnlock(k, buf)
    BY <1>relay, <2>2, <2>3, <2>7 DEF HandleUnlock
  <2>8. CASE HandleWrite(k, buf)
    BY <1>relay, <2>2, <2>3, <2>8 DEF HandleWrite
  <2>9. CASE Discard(k, buf)
    BY <1>served, <2>2, <2>9 DEF Discard, Received, NextIndex
  <2>10. CASE HandleCountdown(k, buf)
    <3>1. CASE Head(buf).n < 0 /\ i' = k + 1 /\ spc' = spc
      BY <1>served, <2>2, <2>10, <3>1 DEF HandleCountdown, Received, NextIndex
    <3>2. CASE i' = 0 /\ spc' = IF PingN > 0 THEN "ping" ELSE "order"
      BY <1>1, <1>same, <2>10, <3>2 DEF HandleCountdown, DispatchOK
    <3> QED BY <2>10, <3>1, <3>2 DEF HandleCountdown
  <2> QED BY <2>1, <2>4, <2>5, <2>6, <2>7, <2>8, <2>9, <2>10
<1>11. CASE Ping
  <2>1. spc' \in {"pong", "crashed"}
    BY <1>11, WriteAllCases DEF Ping, WriteOne, WriteSucceeds, WriteKills
  <2> QED BY <1>11, <1>away, <2>1 DEF Ping
\* The ping loop ends with i = PingN or more.
<1>12. ASSUME NextExchange, UNCHANGED <<client_metas, delete_idxs>> PROVE DispatchOK'
  <2>1. CASE spc' = "ping"
    BY <1>12, <1>away, <2>1
  <2>2. CASE spc' = "order" /\ i' >= PingN
    BY <1>12, <1>same, <2>2 DEF DispatchOK
  <2> QED BY <1>1, <1>12, <2>1, <2>2 DEF NextExchange
<1>13. CASE Pong \/ PongFails
  BY <1>12, <1>13 DEF Pong, PongFails
\* So that no index of client_metas is left after it.
<1>14. CASE Order
  <2>1. /\ spc' \in {"order", "unlock", "crashed"}
        /\ UNCHANGED <<client_metas, delete_idxs, i>>
    <3>1. PICK next \in {"order", "unlock"} :
            WriteAll({j}, <<countdown_order_msg(n)>>, c2s, next)
      BY <1>14 DEF Order, WriteOne
    <3> QED BY <1>14, <3>1, WriteAllCases DEF Order, WriteSucceeds, WriteKills
  <2>2. CASE spc' = "crashed"
    BY <1>away, <2>1, <2>2
  <2>4. CASE spc' = "order"
    BY <1>14, <1>same, <2>1, <2>4 DEF Order, DispatchOK
  <2>3. CASE spc' = "unlock"
    <3>1. Ahead' = i + 1 /\ i >= PingN
      BY <1>14, <2>1, <2>3 DEF Ahead, Order, DispatchOK
    <3>2. \A k \in Indices : k < i + 1
      BY <1>1, <1>2, <1>3, <3>1
    <3>3. \A k \in Indices : ~(k >= i + 1)
      BY <1>1, <1>3, <3>2
    <3>4. \A a \in 1..Len(delete_idxs') : delete_idxs'[a] < i + 1
      BY <1>4, <2>1, <3>2
    <3> QED BY <1>same, <2>1, <2>3, <3>1, <3>3, <3>4 DEF DispatchOK
  <2> QED BY <2>1, <2>2, <2>3, <2>4
<1>15. CASE Unlock
  <2>1. WriteAll(Indices \ {-1}, <<unlock_msg(lock_owner)>>, c2s, "scan")
    BY <1>15 DEF Unlock, broadcast
  <2>2. CASE spc' = "crashed"
    BY <1>15, <1>away, <2>2 DEF Unlock
  <2>3. CASE spc' # "crashed"
    <3>1. /\ spc' = "scan" /\ c2s' = c2s
          /\ \A d \in Clients : srvSide[d] # "open" => srvSide'[d] # "open"
      BY <1>1, <2>1, <2>3, WriteAllReads
    <3>2. Ahead = i + 1 /\ Ahead' = i + 1 /\ spc = "unlock"
      BY <1>15, <3>1 DEF Unlock, Ahead
    <3>3. /\ ErasesBackwards' /\ Indices' = Indices
          /\ \A k \in Indices : Meta(k)' = Meta(k)
      BY <1>15, <1>same DEF Unlock, Meta
    <3> QED BY <1>3, <1>15, <3>1, <3>2, <3>3 DEF Unlock, DispatchOK, Readable
  <2> QED BY <2>2, <2>3
<1>16. CASE DispatchEnds
  BY <1>16, <1>same DEF DispatchEnds, DispatchOK
\* The last index is the highest: what is before it stays where it was.
<1>17. CASE Erase
  <2> DEFINE L == Len(delete_idxs)
  <2>1. L \in Nat \ {0}
    BY <1>1, <1>17, EmptySeq DEF Erase, DispatchOK
  <2>2. Last(delete_idxs) = delete_idxs[L] /\ L \in 1..L
    BY <2>1 DEF Last
  <2>3. Last(delete_idxs) \in Indices
    BY <1>4, <2>2
  <2>4. /\ client_metas' = RemoveAt(client_metas, Last(delete_idxs) + 1)
        /\ spc' = IF L = 1 THEN "select" ELSE "erase"
        /\ delete_idxs' = Front(delete_idxs)
    BY <1>17, <2>3 DEF Erase
  <2>5. Len(client_metas') = Len(client_metas) - 1
    <3>1. Last(delete_idxs) + 1 \in 1..Len(client_metas)
      BY <1>2, <2>3 DEF Indices
    <3> QED BY <1>1, <2>4, <3>1, RemoveAtDistinct DEF OnePlaceEach
  <2>6. /\ Len(delete_idxs') = L - 1
        /\ DOMAIN delete_idxs' = 1..(L - 1)
        /\ \A a \in 1..(L - 1) : delete_idxs'[a] = delete_idxs[a]
    BY <1>1, <2>1, <2>4, FrontElements
  <2> HIDE DEF L
  <2>7. ASSUME NEW a \in 1..(L - 1) PROVE delete_idxs[a] \in 0..(Len(client_metas') - 1)
    <3>1. a \in 1..L /\ a < L
      BY <2>1
    <3>2. delete_idxs[a] \in Indices /\ delete_idxs[a] < Last(delete_idxs)
      BY <1>4, <2>2, <3>1 DEF L
    <3> QED BY <1>2, <1>3, <2>3, <2>5, <3>2 DEF Indices
  <2>8. \A a, b \in 1..(L - 1) : a < b => delete_idxs[a] < delete_idxs[b]
    BY <1>4, <2>1 DEF L
  <2>9. ErasesBackwards'
    BY <2>6, <2>7, <2>8 DEF ErasesBackwards, ToSet, Indices
  <2>10. L = 1 <=> delete_idxs' = <<>>
    <3>1. delete_idxs' \in Seq(Nat)
      BY <1>1, <2>4, FrontType
    <3> QED BY <2>1, <2>6, <3>1, EmptySeq
  <2> QED BY <2>4, <2>9, <2>10 DEF DispatchOK
<1> QED
  BY <1>5, <1>6, <1>fails, <1>7, <1>8, <1>9, <1>10, <1>11, <1>13, <1>14, <1>15,
     <1>16, <1>17, <1>send DEF ServerNext, ServerActs

\* A client takes nothing away from what the server is about to read.
LEMMA ClientKeepsDispatch ==
    ASSUME IndTypeOK, DispatchOK, NEW c \in Clients, ClientRuns(c) \/ UserActs(c),
           UNCHANGED serverVars
    PROVE  DispatchOK'
<1>1. StaysReadable
  BY ClientStepFacts
<1>2. /\ UNCHANGED <<spc, client_metas, read_fds, i, delete_idxs>>
      /\ Indices' = Indices /\ Ahead' = Ahead
      /\ ErasesBackwards' = ErasesBackwards
      /\ \A k \in Indices : Meta(k)' = Meta(k)
  BY DEF serverVars, Indices, Ahead, ErasesBackwards, Meta
<1>3. \A k \in Indices : Meta(k) \in Clients
  <2>1. Len(client_metas) \in Nat /\ client_metas \in [1..Len(client_metas) -> Clients]
    BY LenProperties DEF IndTypeOK, TypeOK, ServerTypeOK
  <2>2. \A k \in 0..(Len(client_metas) - 1) : k + 1 \in 1..Len(client_metas)
    BY <2>1
  <2> QED BY <2>1, <2>2 DEF Indices, Meta
<1> QED BY <1>1, <1>2, <1>3 DEF DispatchOK, StaysReadable

\* The invariant behind the two theorems that follow.
LEMMA DispatchInvariant ==
    ASSUME FewClients
    PROVE  Spec => [](IndTypeOK /\ OnePlaceEach /\ DispatchOK)
<1>1. Init => DispatchOK
  <2> SUFFICES ASSUME Init PROVE DispatchOK
    OBVIOUS
  <2>1. spc = "select" /\ delete_idxs = <<>>
    BY DEF Init, ServerInit
  <2>2. ErasesBackwards
    BY <2>1, EmptySeq DEF ErasesBackwards, ToSet
  <2> QED BY <2>1, <2>2 DEF DispatchOK
<1>2. IndTypeOK /\ OnePlaceEach /\ DispatchOK /\ [Next]_vars => DispatchOK'
  <2> SUFFICES ASSUME IndTypeOK, OnePlaceEach, DispatchOK, [Next]_vars
               PROVE  DispatchOK'
    OBVIOUS
  <2>1. CASE ServerNext /\ UNCHANGED clientVars
    BY <2>1, ServerKeepsDispatch
  <2>2. CASE ClientNext /\ UNCHANGED serverVars
    BY <2>2, ClientKeepsDispatch DEF ClientNext
  <2>3. CASE UNCHANGED vars
    BY <2>3 DEF vars, netVars, serverVars, clientVars, DispatchOK, ErasesBackwards,
       Ahead, Indices, Meta
  <2> QED BY <2>1, <2>2, <2>3 DEF Next
<1> QED
  BY <1>1, <1>2, InitIsTyped, NextKeepsTypes, ConnectionsDistinct, PTL DEF Spec

\* While there are at most PingN + 1 clients, every recv of the dispatch loop is
\* of a socket with something to read: not even a countdown, which reads from
\* the same sockets and counts with the same i, makes the loop block.
THEOREM DispatchSafe ==
    ASSUME FewClients
    PROVE  Spec => []DispatchNeverBlocks
<1>1. IndTypeOK /\ DispatchOK => DispatchNeverBlocks
  <2> SUFFICES ASSUME DispatchOK, NEW k \in Indices, NextIndex(k)
               PROVE  Readable(c2s[Meta(k)], srvSide[Meta(k)])
    BY DEF DispatchNeverBlocks
  <2>1. spc = "scan" /\ k >= Ahead /\ Meta(k) \in read_fds
    BY DEF NextIndex, Ahead
  <2> QED BY <2>1 DEF DispatchOK
<1> QED BY <1>1, DispatchInvariant, PTL

\* While there are at most PingN + 1 clients, the indices to erase are in range
\* and increasing until the last one has been erased: the walk from the end of
\* the list erases the clients it was meant to.
THEOREM EraseSafe ==
    ASSUME FewClients
    PROVE  Spec => []ErasesBackwards
<1>1. DispatchOK => ErasesBackwards
  BY DEF DispatchOK
<1> QED BY <1>1, DispatchInvariant, PTL


-----------------------------------------------------------------------------
(* Induction over the natural numbers, for sets *)

\* A pair of natural numbers, the lower one first.
Lower == {pair \in Nat \X Nat : pair[1] < pair[2]}

\* A set with 0, and with the successor of each of its numbers, has them all.
LEMMA SetInduction ==
    ASSUME NEW S, 0 \in S, \A k \in Nat : k \in S => k + 1 \in S
    PROVE  Nat \subseteq S
<1> SUFFICES ASSUME Nat \ S # {} PROVE FALSE
  OBVIOUS
<1>1. IsWellFoundedOn(Lower, Nat)
  BY NatLessThanWellFounded DEF Lower, OpToRel
<1>2. PICK x \in Nat \ S : \A y \in Nat \ S : ~(<<y, x>> \in Lower)
  <2> DEFINE T == Nat \ S
  <2>1. T \subseteq Nat /\ T # {}
    OBVIOUS
  <2> HIDE DEF T
  <2>2. \E x \in T : \A y \in T : ~(<<y, x>> \in Lower)
    BY <1>1, <2>1, WFMin
  <2> QED BY <2>2 DEF T
<1>3. x - 1 \in Nat /\ <<x - 1, x>> \in Lower
  BY DEF Lower
<1>4. x - 1 \in S
  BY <1>2, <1>3
<1> QED BY <1>3, <1>4

-----------------------------------------------------------------------------
(* The orders of a stream *)

\* One step of the count in OrdersIn.
Counted(orders, m) ==
    IF m.type = "COUNTDOWN_ORDER" THEN Append(orders, m.n) ELSE orders

\* f[k] holds the orders among the first k messages of the stream.
IsUpTo(f, stream, N) ==
    f = [k \in 0..N |->
            IF k = 0 THEN <<>>
            ELSE IF stream[k].type = "COUNTDOWN_ORDER"
                 THEN Append(f[k - 1], stream[k].n)
                 ELSE f[k - 1]]

\* What IsUpTo says of each element.
LEMMA UpToElements ==
    ASSUME NEW f, NEW s, NEW N \in Nat
    PROVE  /\ IsUpTo(f, s, N) =>
                f[0] = <<>> /\ \A k \in 1..N : f[k] = Counted(f[k - 1], s[k])
           /\ /\ f = [k \in 0..N |-> f[k]]
              /\ f[0] = <<>>
              /\ \A k \in 1..N : f[k] = Counted(f[k - 1], s[k])
              => IsUpTo(f, s, N)
<1> DEFINE h(k) == IF k = 0 THEN <<>>
                   ELSE IF s[k].type = "COUNTDOWN_ORDER"
                        THEN Append(f[k - 1], s[k].n) ELSE f[k - 1]
<1>1. /\ h(0) = <<>>
      /\ \A k \in 1..N : k \in 0..N /\ k # 0 /\ h(k) = Counted(f[k - 1], s[k])
      /\ \A k \in 0..N : k = 0 \/ k \in 1..N
      /\ 0 \in 0..N
  BY DEF Counted
<1>2. IsUpTo(f, s, N) <=> f = [k \in 0..N |-> h(k)]
  BY DEF IsUpTo
<1> HIDE DEF h
<1>3. ASSUME f = [k \in 0..N |-> h(k)]
      PROVE  f[0] = <<>> /\ \A k \in 1..N : f[k] = Counted(f[k - 1], s[k])
  <2>1. \A k \in 0..N : f[k] = h(k)
    BY <1>3
  <2> QED BY <1>1, <2>1
<1>4. ASSUME f = [k \in 0..N |-> f[k]], f[0] = <<>>,
             \A k \in 1..N : f[k] = Counted(f[k - 1], s[k])
      PROVE  f = [k \in 0..N |-> h(k)]
  <2>1. \A k \in 0..N : f[k] = h(k)
    BY <1>1, <1>4
  <2> QED BY <1>4, <2>1
<1> QED BY <1>2, <1>3, <1>4

\* The recursion is well founded: there is such an f.
LEMMA UpToExists ==
    ASSUME NEW s, NEW N \in Nat
    PROVE  \E f : IsUpTo(f, s, N)
<1> DEFINE S == {k \in Nat : \E f : IsUpTo(f, s, k)}
<1>1. 0 \in S
  <2> DEFINE f == [l \in 0..0 |-> <<>>]
  <2>1. f[0] = <<>> /\ f = [l \in 0..0 |-> f[l]] /\ 1..0 = {}
    OBVIOUS
  <2> HIDE DEF f
  <2>2. IsUpTo(f, s, 0)
    BY <2>1, UpToElements
  <2> QED BY <2>2
<1>2. ASSUME NEW k \in Nat, k \in S PROVE k + 1 \in S
  <2>1. PICK f : IsUpTo(f, s, k)
    BY <1>2
  <2> DEFINE g == [l \in 0..(k + 1) |->
                     IF l = k + 1 THEN Counted(f[k], s[k + 1]) ELSE f[l]]
  <2>2. f[0] = <<>> /\ \A l \in 1..k : f[l] = Counted(f[l - 1], s[l])
    BY <2>1, UpToElements
  <2>3. /\ \A l \in 0..k : g[l] = f[l]
        /\ g[k + 1] = Counted(f[k], s[k + 1])
        /\ g = [l \in 0..(k + 1) |-> g[l]]
    OBVIOUS
  <2> HIDE DEF g
  <2>4. \A l \in 1..(k + 1) : g[l] = Counted(g[l - 1], s[l])
    <3> TAKE l \in 1..(k + 1)
    <3>1. l - 1 \in 0..k /\ (l = k + 1 \/ l \in 1..k) /\ (k + 1) - 1 = k
      OBVIOUS
    <3>2. l \in 1..k => l \in 0..k
      OBVIOUS
    <3> QED BY <2>2, <2>3, <3>1, <3>2
  <2>5. IsUpTo(g, s, k + 1)
    <3>1. 0 \in 0..k /\ k + 1 \in Nat
      OBVIOUS
    <3>2. g[0] = <<>>
      BY <2>2, <2>3, <3>1
    <3> QED BY <2>3, <2>4, <3>1, <3>2, UpToElements
  <2> QED BY <2>5
<1> HIDE DEF S
<1>3. Nat \subseteq S
  BY <1>1, <1>2, SetInduction
<1> QED BY <1>3 DEF S

\* What OrdersIn computes, for a stream of any length.
LEMMA OrdersInUnfolds ==
    ASSUME NEW s \in Seq(Msg)
    PROVE  \E f : /\ OrdersIn(s) = f[Len(s)]
                  /\ f[0] = <<>>
                  /\ \A k \in 1..Len(s) : f[k] = Counted(f[k - 1], s[k])
                  /\ \A k \in 0..Len(s) : f[k] \in Seq(Int)
<1>1. Len(s) \in Nat
  BY LenProperties
<1> DEFINE f == CHOOSE f : IsUpTo(f, s, Len(s))
<1>2. IsUpTo(f, s, Len(s))
  BY <1>1, UpToExists
<1>3. OrdersIn(s) = f[Len(s)]
  BY DEF OrdersIn, IsUpTo
<1> HIDE DEF f
<1>4. f[0] = <<>> /\ \A k \in 1..Len(s) : f[k] = Counted(f[k - 1], s[k])
  BY <1>1, <1>2, UpToElements
<1>5. \A k \in 0..Len(s) : f[k] \in Seq(Int)
  <2> DEFINE S == {k \in Nat : k <= Len(s) => f[k] \in Seq(Int)}
  <2>1. 0 \in S
    BY <1>4, EmptySeq
  <2>2. ASSUME NEW k \in Nat, k \in S, k + 1 <= Len(s) PROVE f[k + 1] \in Seq(Int)
    <3>1. f[k] \in Seq(Int)
      BY <1>1, <2>2
    <3>2. k + 1 \in 1..Len(s) /\ (k + 1) - 1 = k
      BY <1>1, <2>2
    <3>3. s[k + 1] \in Msg
      BY <3>2, ElementOfSeq
    <3>4. Append(f[k], s[k + 1].n) \in Seq(Int)
      BY <3>1, <3>3, AppendProperties DEF Msg
    <3> QED BY <1>4, <3>1, <3>2, <3>4 DEF Counted
  <2>3. \A k \in Nat : k \in S => k + 1 \in S
    BY <2>2
  <2> HIDE DEF S
  <2>4. Nat \subseteq S
    BY <2>1, <2>3, SetInduction
  <2> QED BY <1>1, <2>4 DEF S
<1> QED BY <1>3, <1>4, <1>5

\* An empty stream holds none; the numbers are integers.
LEMMA OrdersInType ==
    /\ OrdersIn(<<>>) = <<>>
    /\ \A s \in Seq(Msg) : OrdersIn(s) \in Seq(Int)
<1>1. OrdersIn(<<>>) = <<>>
  <2>1. <<>> \in Seq(Msg) /\ Len(<<>>) = 0
    BY EmptySeq
  <2> QED BY <2>1, OrdersInUnfolds
<1>2. ASSUME NEW s \in Seq(Msg) PROVE OrdersIn(s) \in Seq(Int)
  <2>1. Len(s) \in 0..Len(s)
    BY LenProperties
  <2> QED BY <2>1, OrdersInUnfolds
<1> QED BY <1>1, <1>2

\* Writing an order adds its number, writing anything else adds nothing.
LEMMA OrdersInAppend ==
    ASSUME NEW s \in Seq(Msg), NEW m \in Msg
    PROVE  OrdersIn(s \o <<m>>) = Counted(OrdersIn(s), m)
<1> DEFINE t == s \o <<m>>
           N == Len(s)
<1>1. /\ N \in Nat /\ t \in Seq(Msg) /\ Len(t) = N + 1
      /\ \A k \in 1..N : t[k] = s[k]
      /\ t[N + 1] = m
  <2>1. t = Append(s, m)
    BY AppendIsConcat
  <2> QED BY <2>1, AppendProperties, LenProperties
<1> HIDE DEF t
<1>2. PICK f : /\ OrdersIn(s) = f[N] /\ f[0] = <<>>
               /\ \A k \in 1..N : f[k] = Counted(f[k - 1], s[k])
  BY OrdersInUnfolds
<1> HIDE DEF N
<1>3. PICK g : /\ OrdersIn(t) = g[N + 1] /\ g[0] = <<>>
               /\ \A k \in 1..(N + 1) : g[k] = Counted(g[k - 1], t[k])
  <2>1. \E g : /\ OrdersIn(t) = g[Len(t)] /\ g[0] = <<>>
               /\ \A k \in 1..Len(t) : g[k] = Counted(g[k - 1], t[k])
    BY <1>1, OrdersInUnfolds
  <2> QED BY <1>1, <2>1
<1>4. g[N] = f[N]
  <2> DEFINE S == {k \in Nat : k <= N => g[k] = f[k]}
  <2>1. 0 \in S
    BY <1>2, <1>3
  <2>2. ASSUME NEW k \in Nat, k \in S, k + 1 <= N PROVE g[k + 1] = f[k + 1]
    <3>1. /\ k + 1 \in 1..N /\ k + 1 \in 1..(N + 1) /\ (k + 1) - 1 = k
          /\ g[k] = f[k]
      BY <1>1, <2>2
    <3> HIDE DEF S
    <3> QED BY <1>1, <1>2, <1>3, <3>1
  <2>3. \A k \in Nat : k \in S => k + 1 \in S
    BY <2>2
  <2> HIDE DEF S
  <2>4. Nat \subseteq S
    BY <2>1, <2>3, SetInduction
  <2> QED BY <1>1, <2>4 DEF S
<1>5. N + 1 \in 1..(N + 1) /\ (N + 1) - 1 = N
  BY <1>1
<1>6. OrdersIn(t) = Counted(OrdersIn(s), m)
  BY <1>1, <1>2, <1>3, <1>4, <1>5
<1> QED BY <1>6 DEF t

\* Numbers can be joined in any order of grouping.
LEMMA NumbersGroup ==
    ASSUME NEW u \in Seq(Int), NEW v \in Seq(Int), NEW w \in Seq(Int)
    PROVE  (u \o v) \o w = u \o (v \o w)
BY SMT

\* Reading an order takes its number from the front.
LEMMA OrdersInTail ==
    ASSUME NEW s \in Seq(Msg), s # <<>>
    PROVE  OrdersIn(s) = IF Head(s).type = "COUNTDOWN_ORDER"
                         THEN <<Head(s).n>> \o OrdersIn(Tail(s))
                         ELSE OrdersIn(Tail(s))
<1> DEFINE t == Tail(s)
           N == Len(s) - 1
<1>1. /\ N \in Nat /\ t \in Seq(Msg) /\ Len(s) = N + 1 /\ Len(t) = N
      /\ \A k \in 1..N : t[k] = s[k + 1]
      /\ Head(s) = s[1] /\ s[1] \in Msg
      /\ \A k \in 1..(N + 1) : s[k] \in Msg
  BY HeadTailProperties, EmptySeq, LenProperties
<1> HIDE DEF t, N
<1>2. PICK f : /\ OrdersIn(s) = f[N + 1] /\ f[0] = <<>>
               /\ \A k \in 1..(N + 1) : f[k] = Counted(f[k - 1], s[k])
  <2>1. \E f : /\ OrdersIn(s) = f[Len(s)] /\ f[0] = <<>>
               /\ \A k \in 1..Len(s) : f[k] = Counted(f[k - 1], s[k])
    BY OrdersInUnfolds
  <2> QED BY <1>1, <2>1
<1>3. PICK g : /\ OrdersIn(t) = g[N] /\ g[0] = <<>>
               /\ \A k \in 1..N : g[k] = Counted(g[k - 1], t[k])
               /\ \A k \in 0..N : g[k] \in Seq(Int)
  BY <1>1, OrdersInUnfolds
<1> DEFINE h == Counted(<<>>, s[1])
<1>4. f[1] = h /\ h \in Seq(Int)
  <2>1. 1 \in 1..(N + 1) /\ 1 - 1 = 0
    BY <1>1
  <2>2. f[1] = h
    BY <1>2, <2>1
  <2>3. <<>> \in Seq(Int) /\ s[1].n \in Int
    BY <1>1, EmptySeq DEF Msg
  <2>4. h \in Seq(Int)
    BY <2>3, AppendProperties DEF Counted
  <2> QED BY <2>2, <2>4
<1>5. h = IF Head(s).type = "COUNTDOWN_ORDER" THEN <<Head(s).n>> ELSE <<>>
  <2>1. Append(<<>>, s[1].n) = <<s[1].n>>
    BY <1>1 DEF Msg
  <2> QED BY <1>1, <2>1 DEF Counted
<1> HIDE DEF h
<1>6. f[N + 1] = h \o g[N]
  <2> DEFINE S == {k \in Nat : k <= N => f[k + 1] = h \o g[k]}
  <2>1. 0 \in S
    <3>1. h \o <<>> = h
      BY <1>4, ConcatEmptySeq
    <3> QED BY <1>3, <1>4, <3>1
  <2>2. ASSUME NEW k \in Nat, k \in S, k + 1 <= N
        PROVE  f[(k + 1) + 1] = h \o g[k + 1]
    <3>1. /\ k + 1 \in 1..N /\ (k + 1) + 1 \in 1..(N + 1)
          /\ ((k + 1) + 1) - 1 = k + 1 /\ (k + 1) - 1 = k /\ k \in 0..N
          /\ f[k + 1] = h \o g[k]
      BY <1>1, <2>2
    <3> HIDE DEF S
    <3> DEFINE m == s[(k + 1) + 1]
    <3>2. t[k + 1] = m /\ m \in Msg /\ m.n \in Int
      BY <1>1, <3>1 DEF Msg
    <3>3. f[(k + 1) + 1] = Counted(h \o g[k], m)
      BY <1>2, <3>1
    <3>4. g[k + 1] = Counted(g[k], m) /\ g[k] \in Seq(Int)
      BY <1>3, <3>1, <3>2
    <3> HIDE DEF m
    <3>5. ASSUME NEW b \in Seq(Int), NEW e \in Int
          PROVE  Append(h \o b, e) = h \o Append(b, e)
      <4>1. h \o b \in Seq(Int) /\ <<e>> \in Seq(Int)
        BY <1>4, ConcatProperties
      <4>2. Append(h \o b, e) = (h \o b) \o <<e>>
        BY <4>1, AppendIsConcat
      <4>3. Append(b, e) = b \o <<e>>
        BY AppendIsConcat
      <4>4. (h \o b) \o <<e>> = h \o (b \o <<e>>)
        <5>1. h \in Seq(Int) /\ b \in Seq(Int) /\ <<e>> \in Seq(Int)
          BY <1>4, <4>1
        <5> QED BY <5>1, NumbersGroup
      <4> QED BY <4>2, <4>3, <4>4
    <3> DEFINE b == g[k]
               e == m.n
    <3>6. b \in Seq(Int) /\ e \in Int
      BY <3>2, <3>4
    <3> HIDE DEF b, e
    <3>7. Append(h \o b, e) = h \o Append(b, e)
      BY <3>5, <3>6
    <3> QED BY <3>3, <3>4, <3>7 DEF Counted, b, e
  <2>3. ASSUME NEW k \in Nat, k \in S PROVE k + 1 \in S
    <3>1. k + 1 <= N => f[(k + 1) + 1] = h \o g[k + 1]
      BY <2>2, <2>3
    <3> QED BY <3>1
  <2> HIDE DEF S
  <2>4. Nat \subseteq S
    BY <2>1, <2>3, SetInduction
  <2> QED BY <1>1, <2>4 DEF S
<1>7. OrdersIn(t) \in Seq(Int)
  BY <1>1, OrdersInType
<1>8. OrdersIn(s) = h \o OrdersIn(t) /\ <<>> \o OrdersIn(t) = OrdersIn(t)
  BY <1>2, <1>3, <1>6, <1>7, ConcatEmptySeq
<1> QED BY <1>5, <1>8 DEF t

-----------------------------------------------------------------------------
(* What is read from a stream and what is left of it *)

\* The messages of a concatenation, and of a buffer with one message.
LEMMA Contents ==
    /\ \A s, t \in Seq(Msg) : ToSet(s \o t) = ToSet(s) \cup ToSet(t)
    /\ \A m \in Msg : ToSet(<<m>>) = {m}
    /\ ToSet(<<>>) = {}
<1>1. ASSUME NEW s \in Seq(Msg), NEW t \in Seq(Msg)
      PROVE  ToSet(s \o t) = ToSet(s) \cup ToSet(t)
  <2> DEFINE st == s \o t
  <2>1. /\ Len(s) \in Nat /\ Len(t) \in Nat
        /\ DOMAIN s = 1..Len(s) /\ DOMAIN t = 1..Len(t)
        /\ DOMAIN st = 1..(Len(s) + Len(t))
        /\ \A k \in 1..(Len(s) + Len(t)) :
                st[k] = IF k <= Len(s) THEN s[k] ELSE t[k - Len(s)]
    BY ConcatProperties, LenProperties
  <2> HIDE DEF st
  <2>2. ASSUME NEW k \in 1..(Len(s) + Len(t)) PROVE st[k] \in ToSet(s) \cup ToSet(t)
    <3>1. k <= Len(s) => k \in 1..Len(s)
      BY <2>1
    <3>2. ~(k <= Len(s)) => k - Len(s) \in 1..Len(t)
      BY <2>1
    <3> QED BY <2>1, <3>1, <3>2 DEF ToSet
  <2>3. ASSUME NEW k \in 1..Len(s) PROVE s[k] \in ToSet(st)
    <3>1. k \in 1..(Len(s) + Len(t)) /\ k <= Len(s)
      BY <2>1
    <3> QED BY <2>1, <3>1 DEF ToSet
  <2>4. ASSUME NEW k \in 1..Len(t) PROVE t[k] \in ToSet(st)
    <3>1. /\ Len(s) + k \in 1..(Len(s) + Len(t)) /\ ~(Len(s) + k <= Len(s))
          /\ (Len(s) + k) - Len(s) = k
      BY <2>1
    <3> QED BY <2>1, <3>1 DEF ToSet
  <2>5. ToSet(st) = ToSet(s) \cup ToSet(t)
    BY <2>1, <2>2, <2>3, <2>4 DEF ToSet
  <2> QED BY <2>5 DEF st
<1>2. ASSUME NEW m \in Msg PROVE ToSet(<<m>>) = {m}
  BY DEF ToSet
<1>3. ToSet(<<>>) = {}
  BY DEF ToSet
<1> QED BY <1>1, <1>2, <1>3

\* What a recv returns starts where the stream does and holds nothing else,
\* nor does what it leaves.
LEMMA ChunkWithin ==
    ASSUME NEW stream \in Seq(Msg), NEW side, NEW buf \in Chunks(stream, side)
    PROVE  /\ ToSet(buf) \subseteq ToSet(stream)
           /\ ToSet(After(stream, buf)) \subseteq ToSet(stream)
           /\ buf # <<>> => stream # <<>> /\ Head(buf) = Head(stream)
<1>1. /\ Len(stream) \in Nat /\ DOMAIN stream = 1..Len(stream)
      /\ \A m \in 1..Len(stream) : stream[m] \in Msg
  BY LenProperties
<1>2. buf \in Seq(Msg)
  BY ChunkType
<1>3. ToSet(After(stream, buf)) \subseteq ToSet(stream)
  <2> DEFINE L == Len(buf)
             N == Len(stream)
             r == SubSeq(stream, L + 1, N)
  <2>1. L \in Nat /\ N \in Nat
    BY <1>1, <1>2, LenProperties
  <2>2. \A m \in (L + 1)..N : stream[m] \in Msg /\ m \in 1..N
    BY <1>1, <2>1
  <2> HIDE DEF L, N
  <2>3. /\ r \in Seq(Msg)
        /\ Len(r) = IF L + 1 <= N THEN N - (L + 1) + 1 ELSE 0
        /\ \A m \in 1..(N - (L + 1) + 1) : r[m] = stream[(L + 1) + m - 1]
    BY <2>1, <2>2, SubSeqProperties
  <2> HIDE DEF r
  <2>4. DOMAIN r = 1..Len(r)
    BY <2>3, LenProperties
  <2>5. ASSUME NEW m \in DOMAIN r PROVE r[m] \in ToSet(stream)
    <3>1. /\ m \in 1..(N - (L + 1) + 1)
          /\ (L + 1) + m - 1 \in 1..N
      BY <2>1, <2>3, <2>4
    <3>2. DOMAIN stream = 1..N
      BY <1>1 DEF N
    <3> QED BY <2>3, <3>1, <3>2 DEF ToSet
  <2>6. ToSet(r) \subseteq ToSet(stream)
    BY <2>5 DEF ToSet
  <2> QED BY <2>6 DEF After, r, L, N
<1>4. CASE stream # <<>>
  <2>1. PICK k \in 1..Len(stream) : buf = SubSeq(stream, 1, k)
    BY <1>4 DEF Chunks
  <2>2. \A m \in 1..k : stream[m] \in Msg /\ m \in 1..Len(stream) /\ 1 + m - 1 = m
    BY <1>1
  <2>3. /\ Len(buf) = k /\ DOMAIN buf = 1..k
        /\ \A m \in 1..k : buf[m] = stream[m]
    <3>1. /\ Len(SubSeq(stream, 1, k)) = IF 1 <= k THEN k - 1 + 1 ELSE 0
          /\ \A m \in 1..(k - 1 + 1) : SubSeq(stream, 1, k)[m] = stream[1 + m - 1]
      BY <1>1, <2>2, SubSeqProperties
    <3>2. k \in Nat /\ 1 <= k /\ k - 1 + 1 = k
      OBVIOUS
    <3>3. Len(buf) = k /\ \A m \in 1..k : buf[m] = stream[m]
      BY <2>1, <2>2, <3>1, <3>2
    <3> QED BY <1>2, <3>3, LenProperties
  <2>4. ToSet(buf) \subseteq ToSet(stream)
    BY <1>1, <2>2, <2>3 DEF ToSet
  <2>5. Head(buf) = buf[1] /\ Head(stream) = stream[1] /\ 1 \in 1..k
    BY <1>2, <1>4, <2>3, HeadTailProperties, EmptySeq
  <2> QED BY <1>3, <1>4, <2>3, <2>4, <2>5
<1>5. CASE stream = <<>>
  BY <1>3, <1>5, Contents DEF Chunks
<1> QED BY <1>4, <1>5

\* When messages arrive alone, a recv takes the first and leaves the others.
LEMMA ChunkAlone ==
    ASSUME RecvMax = 1, NEW stream \in Seq(Msg), NEW side,
           NEW buf \in Chunks(stream, side)
    PROVE  \/ /\ stream # <<>> /\ Head(stream) \in Msg
              /\ buf = <<Head(stream)>>
              /\ After(stream, buf) = Tail(stream)
           \/ /\ stream = <<>> /\ buf = <<>>
              /\ After(stream, buf) = <<>>
              /\ side \in {"fin", "broken"}
<1>1. Len(stream) \in Nat
  BY LenProperties
<1>2. CASE stream # <<>>
  <2>1. PICK k \in 1..Len(stream) : k <= 1 /\ buf = SubSeq(stream, 1, k)
    BY <1>2 DEF Chunks
  <2>2. k = 1
    BY <1>1, <2>1
  <2>3. Head(stream) = stream[1] /\ Head(stream) \in Msg /\ 1 \in 1..Len(stream)
    BY <1>2, HeadTailProperties, <1>1, EmptySeq
  <2>4. SubSeq(stream, 1, 1) = <<stream[1]>>
    <3>1. \A m \in 1..1 : stream[m] \in Msg
      BY <2>3
    <3>2. /\ SubSeq(stream, 1, 1) \in Seq(Msg)
          /\ Len(SubSeq(stream, 1, 1)) = 1
          /\ SubSeq(stream, 1, 1)[1] = stream[1]
      BY <3>1, SubSeqProperties
    <3> DEFINE a == SubSeq(stream, 1, 1)
               b == <<stream[1]>>
    <3>3. b \in Seq(Msg) /\ Len(b) = 1 /\ b[1] = stream[1]
      BY <2>3
    <3> HIDE DEF a, b
    <3>4. a \in Seq(Msg) /\ Len(a) = Len(b) /\ \A m \in 1..Len(a) : a[m] = b[m]
      BY <3>2, <3>3 DEF a
    <3>5. a = b
      BY <3>3, <3>4, SeqEqual
    <3> QED BY <3>5 DEF a, b
  <2>5. Tail(stream) = SubSeq(stream, 2, Len(stream))
    BY <1>2, TailIsSubSeq
  <2>6. buf = <<Head(stream)>>
    BY <2>1, <2>2, <2>3, <2>4
  <2>7. Len(buf) + 1 = 2
    BY <2>6
  <2> QED BY <1>2, <2>3, <2>5, <2>6, <2>7 DEF After
<1>3. CASE stream = <<>>
  <2>1. buf = <<>> /\ side \in {"fin", "broken"}
    BY <1>3 DEF Chunks
  <2>2. After(stream, buf) = <<>>
    BY <1>3, <2>1 DEF After
  <2> QED BY <1>3, <2>1, <2>2
<1> QED BY <1>2, <1>3

-----------------------------------------------------------------------------
(* What the server does to the streams and the sockets *)

\* The messages the server makes up itself.
FromServer(m) ==
    \/ m.type \in {"PING", "COUNTDOWN_ORDER", "PEER_UNLOCK", "SHUTDOWN"}
    \/ m = ping_init_msg(PingN)

\* A write adds the buffer at most.
LEMMA WrittenWithin ==
    ASSUME NEW streams \in [Clients -> Seq(Msg)], NEW sides, NEW W,
           NEW buf \in Seq(Msg), NEW c \in Clients
    PROVE  ToSet(Written(streams, sides, W, buf)[c])
                \subseteq ToSet(streams[c]) \cup ToSet(buf)
<1>1. ToSet(streams[c] \o buf) = ToSet(streams[c]) \cup ToSet(buf)
  BY Contents
<1> QED BY <1>1 DEF Written

\* A write leaves alone a socket whose peer is there.
LEMMA SidesStayOpen ==
    ASSUME NEW sides \in [Clients -> Sides], NEW W,
           NEW after \in SidesAfterWrite(sides, W), NEW d \in Clients,
           sides[d] \in {"none", "open"}
    PROVE  after[d] = sides[d]
BY DEF SidesAfterWrite

\* What a write of the server does, fatal or not.
LEMMA WriteAllTraffic ==
    ASSUME NetworkTypeOK, NEW T, NEW buf \in Seq(Msg),
           NEW pending \in [Clients -> Seq(Msg)], NEW next,
           \A c \in Clients : ToSet(pending[c]) \subseteq ToSet(c2s[c]),
           WriteAll(T, buf, pending, next)
    PROVE  /\ \A c \in Clients : ToSet(c2s'[c]) \subseteq ToSet(c2s[c])
           /\ \A c \in Clients : ToSet(s2c'[c]) \subseteq ToSet(s2c[c]) \cup ToSet(buf)
           /\ \A d \in Clients : srvSide[d] \in {"none", "open"} => srvSide'[d] = srvSide[d]
           /\ spc' # "crashed" => UNCHANGED cliSide
<1>1. PICK W, V \in SUBSET Metas(T) :
        /\ srvSide' \in SidesAfterWrite(srvSide, W)
        /\ \/ WriteSucceeds(T, V, buf, pending, next)
           \/ WriteKills(T, W, buf, pending)
  BY WriteAllCases
<1>2. \A d \in Clients : srvSide[d] \in {"none", "open"} => srvSide'[d] = srvSide[d]
  BY <1>1, SidesStayOpen DEF NetworkTypeOK
<1>3. CASE WriteSucceeds(T, V, buf, pending, next)
  <2>1. \A c \in Clients : ToSet(s2c'[c]) \subseteq ToSet(s2c[c]) \cup ToSet(buf)
    BY <1>3, WrittenWithin DEF WriteSucceeds, NetworkTypeOK
  <2> QED BY <1>2, <1>3, <2>1 DEF WriteSucceeds
<1>4. CASE WriteKills(T, W, buf, pending)
  <2>1. \A c \in Clients : ToSet(s2c'[c]) \subseteq ToSet(s2c[c]) \cup ToSet(buf)
    BY <1>4, WrittenWithin DEF WriteKills, NetworkTypeOK
  <2>2. spc' = "crashed" /\ \A c \in Clients : c2s'[c] = <<>>
    BY <1>4 DEF WriteKills, ServerCloses
  <2> QED BY <1>2, <2>1, <2>2, Contents
<1> QED BY <1>1, <1>3, <1>4

\* What has arrived of a stream is of that stream.
LEMMA ArrivedWithin ==
    ASSUME NetworkTypeOK, NEW c \in Clients, NEW stream \in Seq(Msg)
    PROVE  ToSet(Arrived(c, stream)) \subseteq ToSet(stream)
<1> DEFINE m == Len(stream) - unsent[c]
           some == Arrived(c, stream)
<1>1. /\ Len(stream) \in Nat /\ m \in Int /\ m <= Len(stream)
      /\ DOMAIN stream = 1..Len(stream)
      /\ \A l \in 1..Len(stream) : stream[l] \in Msg
  BY LenProperties DEF NetworkTypeOK
<1>2. some = SubSeq(stream, 1, m)
  BY DEF Arrived
<1> HIDE DEF m, some
<1>3. \A l \in 1..m : stream[l] \in Msg /\ 1 + l - 1 = l
  BY <1>1
<1>4. /\ some \in Seq(Msg)
      /\ Len(some) = IF 1 <= m THEN m ELSE 0
      /\ \A l \in 1..m : some[l] = stream[l]
  BY <1>1, <1>2, <1>3, SubSeqProperties
<1>5. DOMAIN some = 1..Len(some)
  BY <1>4, LenProperties
<1>6. \A l \in 1..Len(some) : l \in 1..m /\ l \in 1..Len(stream)
  BY <1>1, <1>4
<1>7. ToSet(some) \subseteq ToSet(stream)
  BY <1>1, <1>4, <1>5, <1>6 DEF ToSet
<1> QED BY <1>7 DEF some

\* A write that goes on gets on to Later ...
SendSucceeds(Later) ==
    /\ unsent' = [c \in Clients |-> IF c \in Later THEN unsent[c] ELSE 0]
    /\ UNCHANGED <<spc, s2c, c2s, cliSide, listening>>

\* ... or comes to a broken socket.
SendKills(Later) ==
    /\ s2c' = [c \in Clients |-> IF c \in Later THEN Arrived(c, s2c[c]) ELSE s2c[c]]
    /\ unsent' = [c \in Clients |-> 0]
    /\ spc' = "crashed"
    /\ ServerCloses(c2s)
    /\ Broken(Indices) # {}

LEMMA SendCases ==
    ASSUME client_metas \in Seq(Clients), Send
    PROVE  /\ \E W \in SUBSET ToSet(client_metas) : srvSide' \in SidesAfterWrite(srvSide, W)
           /\ \E Later : SendSucceeds(Later) \/ SendKills(Later)
           /\ UNCHANGED <<client_metas, rtts, rtts0, lock_owner, read_fds, i, j, n,
                          ordered, delete_idxs, op_lines, backlog>>
<1> DEFINE T     == {t \in Indices : unsent[Meta(t)] > 0}
           Full  == {t \in T : srvSide[Meta(t)] = "open" /\ Len(s2c[Meta(t)]) > SockBuf}
           Now   == Until(T, Full \cup Broken(T))
           Later == Metas(T \ Now)
<1>1. Metas(Now) \in SUBSET Metas(Indices)
  BY DEF Until, Metas
<1>2. Until(Broken(T), Full) # {} => Broken(Indices) # {}
  BY DEF Until, Broken
<1>3. /\ srvSide' \in SidesAfterWrite(srvSide, Metas(Now))
      /\ SendSucceeds(Later) \/ SendKills(Later)
      /\ UNCHANGED <<client_metas, rtts, rtts0, lock_owner, read_fds, i, j, n,
                     ordered, delete_idxs, op_lines, backlog>>
  BY <1>2 DEF Send, SendSucceeds, SendKills
<1> HIDE DEF T, Full, Now, Later
<1>4. Metas(Indices) \subseteq ToSet(client_metas)
  BY IndicesMetas
<1> QED BY <1>1, <1>3, <1>4

\* Every step of the server takes messages from the clients, and gives them some
\* of what clients have written or of what it makes up; it notices nothing of
\* a client that is still there, and the clients nothing of it while it lives.
LEMMA ServerTraffic ==
    ASSUME IndTypeOK, ServerNext
    PROVE  /\ \A c \in Clients : ToSet(c2s'[c]) \subseteq ToSet(c2s[c])
           /\ \A c \in Clients : \A m \in ToSet(s2c'[c]) :
                \/ m \in ToSet(s2c[c])
                \/ \E d \in Clients : m \in ToSet(c2s[d])
                \/ FromServer(m)
           /\ \A d \in Clients : srvSide[d] \in {"none", "open"} => srvSide'[d] = srvSide[d]
           /\ spc \notin {"exited", "crashed"}
           /\ spc' \notin {"exited", "crashed"} => UNCHANGED cliSide
<1> DEFINE Traffic ==
        /\ \A c \in Clients : ToSet(c2s'[c]) \subseteq ToSet(c2s[c])
        /\ \A c \in Clients : \A m \in ToSet(s2c'[c]) :
             \/ m \in ToSet(s2c[c])
             \/ \E d \in Clients : m \in ToSet(c2s[d])
             \/ FromServer(m)
        /\ \A d \in Clients : srvSide[d] \in {"none", "open"} => srvSide'[d] = srvSide[d]
        /\ spc \notin {"exited", "crashed"}
        /\ spc' \notin {"exited", "crashed"} => UNCHANGED cliSide
<1>1. /\ NetworkTypeOK /\ client_metas \in Seq(Clients)
      /\ lock_owner \in Names \cup {NoName} /\ PingN \in Int
      /\ i \in Int /\ n \in Int
  BY ServerAssumption DEF IndTypeOK, TypeOK, ServerTypeOK
<1>2. spc \notin {"exited", "crashed"}
  BY ServerLives
<1>send. CASE Send
  <2>1. \A d \in Clients : srvSide[d] \in {"none", "open"} => srvSide'[d] = srvSide[d]
    <3>1. PICK W : srvSide' \in SidesAfterWrite(srvSide, W)
      BY <1>1, <1>send, SendCases
    <3> QED BY <1>1, <3>1, SidesStayOpen DEF NetworkTypeOK
  <2>2. PICK Later : SendSucceeds(Later) \/ SendKills(Later)
    BY <1>1, <1>send, SendCases
  <2>3. CASE SendSucceeds(Later)
    BY <1>2, <2>1, <2>3 DEF SendSucceeds
  <2>4. CASE SendKills(Later)
    <3>1. \A c \in Clients : ToSet(s2c'[c]) \subseteq ToSet(s2c[c])
      BY <1>1, <2>4, ArrivedWithin DEF SendKills, NetworkTypeOK
    <3>2. spc' = "crashed" /\ \A c \in Clients : c2s'[c] = <<>>
      BY <2>4 DEF SendKills, ServerCloses
    <3> QED BY <1>2, <2>1, <3>1, <3>2, Contents
  <2> QED BY <2>2, <2>3, <2>4
<1>said. ASSUME NEW T, NEW m \in Msg, FromServer(m), NEW next,
                WriteAll(T, <<m>>, c2s, next)
         PROVE  Traffic
  <2>1. <<m>> \in Seq(Msg) /\ ToSet(<<m>>) = {m} /\ c2s \in [Clients -> Seq(Msg)]
    BY <1>1, Contents DEF NetworkTypeOK
  <2> HIDE DEF FromServer
  <2> QED BY <1>1, <1>2, <1>said, <2>1, WriteAllTraffic
<1>closes. ASSUME ServerCloses(c2s), UNCHANGED s2c, spc' \in {"exited", "crashed"},
                  \A d \in Clients : srvSide[d] \in {"none", "open"} => srvSide'[d] = srvSide[d]
           PROVE  Traffic
  BY <1>2, <1>closes, Contents DEF ServerCloses
<1>3. CASE UNCHANGED <<s2c, c2s, srvSide, cliSide>>
  BY <1>2, <1>3
<1>4. CASE Select \/ AcceptFails \/ OperatorMistypes \/ DispatchEnds
  BY <1>3, <1>4 DEF Select, AcceptFails, OperatorMistypes, DispatchEnds, netVars
<1>5. CASE Accept
  <2>1. ping_init_msg(PingN) \in Msg /\ FromServer(ping_init_msg(PingN))
    BY <1>1 DEF ping_init_msg, Numbered, Msg, MsgTypes, FromServer
  <2>2. <<ping_init_msg(PingN)>> \in Seq(Msg)
        /\ ToSet(<<ping_init_msg(PingN)>>) = {ping_init_msg(PingN)}
    BY <2>1, Contents
  <2>3. PICK W : /\ s2c' = Written(s2c, srvSide, W, <<ping_init_msg(PingN)>>)
                 /\ srvSide' \in SidesAfterWrite(srvSide, W)
                 /\ UNCHANGED <<c2s, cliSide>>
    BY <1>5 DEF Accept
  <2>4. \A c \in Clients :
          ToSet(s2c'[c]) \subseteq ToSet(s2c[c]) \cup {ping_init_msg(PingN)}
    BY <1>1, <2>2, <2>3, WrittenWithin DEF NetworkTypeOK
  <2>5. \A d \in Clients : srvSide[d] \in {"none", "open"} => srvSide'[d] = srvSide[d]
    BY <1>1, <2>3, SidesStayOpen DEF NetworkTypeOK
  <2>6. ASSUME NEW c \in Clients, NEW m \in ToSet(s2c'[c])
        PROVE  m \in ToSet(s2c[c]) \/ FromServer(m)
    <3>1. m \in ToSet(s2c[c]) \/ m = ping_init_msg(PingN)
      BY <2>4
    <3> QED BY <2>1, <3>1
  <2>7. UNCHANGED <<c2s, cliSide>>
    BY <2>3
  <2> QED BY <1>2, <2>5, <2>6, <2>7
<1>6. CASE OperatorQuits
  <2>1. shutdown_msg \in Msg /\ FromServer(shutdown_msg)
    BY <1>1 DEF shutdown_msg, Named, Msg, MsgTypes, FromServer
  <2> QED BY <1>6, <1>said, <2>1 DEF OperatorQuits, broadcast
<1>7. CASE RecvThrows \/ Exit \/ OrderFaults
  BY <1>7, <1>closes DEF RecvThrows, Exit, OrderFaults
<1>8. ASSUME NEW k \in Indices, Dispatch(k) PROVE Traffic
  <2>1. PICK buf \in Chunks(c2s[Meta(k)], srvSide[Meta(k)]) :
          \/ HandleHello(k, buf) \/ HandleGoodbye(k, buf)
          \/ HandleLock(k, buf)  \/ HandleUnlock(k, buf)
          \/ HandleWrite(k, buf) \/ HandleCountdown(k, buf)
          \/ Discard(k, buf)
    BY <1>8 DEF Dispatch
  <2>2. Received(k, buf)
    BY <2>1 DEF HandleHello, HandleGoodbye, HandleLock, HandleUnlock,
       HandleWrite, HandleCountdown, Discard
  <2>3. /\ buf \in Seq(Msg) /\ Meta(k) \in Clients
        /\ Rest(k, buf) \in [Clients -> Seq(Msg)]
    BY <2>2, ReceivedType DEF IndTypeOK
  <2>4. /\ ToSet(buf) \subseteq ToSet(c2s[Meta(k)])
        /\ \A c \in Clients : ToSet(Rest(k, buf)[c]) \subseteq ToSet(c2s[c])
    <3>1. c2s[Meta(k)] \in Seq(Msg) /\ c2s \in [Clients -> Seq(Msg)]
      BY <1>1, <2>3 DEF NetworkTypeOK
    <3> QED BY <2>3, <3>1, ChunkWithin DEF Rest
  <2>5. ASSUME NEW next, Relay(k, buf, next) PROVE Traffic
    <3>1. WriteAll(Indices \ {k}, buf, Rest(k, buf), next)
      BY <2>5 DEF Relay, broadcast
    <3> QED BY <1>1, <1>2, <2>3, <2>4, <3>1, WriteAllTraffic
  <2>6. CASE HandleHello(k, buf) \/ HandleGoodbye(k, buf) \/ HandleLock(k, buf)
             \/ HandleUnlock(k, buf) \/ HandleWrite(k, buf)
    BY <2>5, <2>6 DEF HandleHello, HandleGoodbye, HandleLock, HandleUnlock, HandleWrite
  <2>7. CASE HandleCountdown(k, buf) \/ Discard(k, buf)
    <3>1. c2s' = Rest(k, buf) /\ UNCHANGED <<s2c, srvSide, cliSide>>
      BY <2>7 DEF HandleCountdown, Discard
    <3> QED BY <1>2, <2>4, <3>1
  <2> QED BY <2>1, <2>6, <2>7
<1>9. CASE Ping
  <2>1. ping_msg(i) \in Msg /\ FromServer(ping_msg(i))
    BY <1>1 DEF ping_msg, Numbered, Msg, MsgTypes, FromServer
  <2> QED BY <1>9, <1>said, <2>1 DEF Ping, WriteOne
<1>10. CASE Pong
  <2> DEFINE c == Meta(j)
  <2>1. PICK buf \in Chunks(c2s[c], srvSide[c]) : c2s' = [c2s EXCEPT ![c] = After(@, buf)]
    BY <1>10 DEF Pong
  <2> HIDE DEF c
  <2>2. \A d \in Clients : ToSet(c2s'[d]) \subseteq ToSet(c2s[d])
    BY <1>1, <2>1, ChunkWithin DEF NetworkTypeOK
  <2> QED BY <1>2, <1>10, <2>2 DEF Pong
<1>11. CASE PongFails
  <2>1. /\ srvSide[Meta(j)] = "reset"
        /\ srvSide' = [srvSide EXCEPT ![Meta(j)] = "broken"]
        /\ UNCHANGED <<s2c, c2s, cliSide>>
    BY <1>11 DEF PongFails, RecvFails
  <2> QED BY <1>1, <1>2, <2>1 DEF NetworkTypeOK
<1>12. CASE Order
  <2>1. countdown_order_msg(n) \in Msg /\ FromServer(countdown_order_msg(n))
    BY <1>1 DEF countdown_order_msg, Numbered, Msg, MsgTypes, FromServer
  <2> QED BY <1>12, <1>said, <2>1 DEF Order, WriteOne
<1>13. CASE Unlock
  <2>1. unlock_msg(lock_owner) \in Msg /\ FromServer(unlock_msg(lock_owner))
    BY <1>1 DEF unlock_msg, Named, Msg, MsgTypes, FromServer
  <2> QED BY <1>13, <1>said, <2>1 DEF Unlock, broadcast
<1>14. CASE Erase
  <2>1. CASE UNCHANGED netVars
    BY <1>3, <2>1 DEF netVars
  <2>2. CASE spc' = "crashed" /\ ServerCloses(c2s) /\ UNCHANGED <<s2c, srvSide>>
    BY <1>closes, <2>2
  <2> QED BY <1>14, <2>1, <2>2 DEF Erase
<1> QED
  BY <1>4, <1>5, <1>6, <1>7, <1>8, <1>9, <1>10, <1>11, <1>12, <1>13, <1>14, <1>send
     DEF ServerNext, ServerActs

-----------------------------------------------------------------------------
(* What a client does to the streams and the sockets *)

\* Where a client is gone, or about to go.
Departed == {"leaving", "exited", "crashed"}

LivePCs == {"select", "typing", "pinging", "deaf", "leaving"}

\* A client's step is about its own connection.
Apart(c) ==
    \A d \in Clients \ {c} :
        /\ cpc'[d] = cpc[d] /\ s2c'[d] = s2c[d] /\ c2s'[d] = c2s[d]
        /\ srvSide'[d] = srvSide[d] /\ cliSide'[d] = cliSide[d]

\* It ends, connects, or goes on and notices nothing of a server that is there.
Fate(c) ==
    \/ cpc'[c] \in {"exited", "crashed"}
    \/ Connect(c)
    \/ /\ cpc[c] \in LivePCs /\ cpc'[c] \in LivePCs
       /\ srvSide' = srvSide
       /\ cliSide[c] = "open" => cliSide'[c] = "open"

\* What a client may write: an echo of what it reads, which is a ping when it
\* comes alone, or a message of its own.
Says(c, m) ==
    \/ m \in ToSet(s2c[c]) /\ (RecvMax = 1 => m.type = "PING")
    \/ m.type \in {"HELLO", "PEER_LOCK", "WRITE_ARBITRARY"}
    \/ /\ m.type = "COUNTDOWN_N" /\ cpc[c] = "typing"
       /\ \E line \in Script[c][typed[c] + 1] : m.n = line.n
    \/ m.type = "GOODBYE" /\ cpc'[c] = "leaving"

LEMMA EndsTraffic ==
    ASSUME NetworkTypeOK, ClientTypeOK, NEW c \in Clients,
           NEW how \in {"exited", "crashed"}, NEW unread,
           Ends(c, how, unread), UNCHANGED <<c2s, cliSide>>
    PROVE  /\ Apart(c) /\ Fate(c) /\ cpc'[c] = how
           /\ s2c'[c] = <<>> /\ ToSet(s2c'[c]) \subseteq ToSet(s2c[c])
<1>1. s2c'[c] = <<>>
  BY DEF Ends, NetworkTypeOK
<1>2. Apart(c) /\ cpc'[c] = how
  BY DEF Ends, NetworkTypeOK, ClientTypeOK, Apart
<1> QED BY <1>1, <1>2, Contents DEF Fate

LEMMA WritesTraffic ==
    ASSUME NetworkTypeOK, ClientTypeOK, NEW c \in Clients, NEW buf \in Seq(Msg),
           NEW unread \in Seq(Msg), ToSet(unread) \subseteq ToSet(s2c[c]),
           cpc[c] \in LivePCs, NEW next \in LivePCs,
           Writes(c, buf, unread, next)
    PROVE  /\ Apart(c) /\ Fate(c)
           /\ ToSet(s2c'[c]) \subseteq ToSet(s2c[c])
           /\ ToSet(c2s'[c]) \subseteq ToSet(c2s[c]) \cup ToSet(buf)
           /\ cpc'[c] = next \/ (cpc'[c] = "crashed" /\ c2s' = c2s)
<1>1. CASE cliSide[c] # "broken"
  <2>1. /\ c2s' = Written(c2s, cliSide, {c}, buf)
        /\ cliSide' \in SidesAfterWrite(cliSide, {c})
        /\ cpc' = [cpc EXCEPT ![c] = next]
        /\ s2c' = [s2c EXCEPT ![c] = unread]
        /\ UNCHANGED srvSide
    BY <1>1 DEF Writes
  <2>2. ToSet(c2s'[c]) \subseteq ToSet(c2s[c]) \cup ToSet(buf)
    BY <2>1, WrittenWithin DEF NetworkTypeOK
  <2>3. cliSide[c] = "open" => cliSide'[c] = "open"
    BY <2>1, SidesStayOpen DEF NetworkTypeOK
  <2>4. Apart(c)
    <3>1. \A d \in Clients \ {c} : c2s'[d] = c2s[d] /\ cliSide'[d] = cliSide[d]
      BY <2>1 DEF Written, SidesAfterWrite
    <3> QED BY <2>1, <3>1 DEF Apart, NetworkTypeOK, ClientTypeOK
  <2>5. cpc'[c] = next /\ s2c'[c] = unread
    BY <2>1 DEF NetworkTypeOK, ClientTypeOK
  <2> QED BY <2>1, <2>2, <2>3, <2>4, <2>5 DEF Fate
<1>2. CASE cliSide[c] = "broken"
  <2>1. Ends(c, "crashed", unread) /\ UNCHANGED <<c2s, cliSide>>
    BY <1>2 DEF Writes
  <2> QED BY <2>1, EndsTraffic
<1> QED BY <1>1, <1>2

\* What a client types.
LEMMA LineSays ==
    ASSUME IndTypeOK, NEW c \in Clients, cpc[c] = "typing",
           NEW line \in Script[c][typed[c] + 1],
           NEW m \in ToSet(parse_cmdline(line, Nick[c]))
    PROVE  /\ m.type = classify(parse_cmdline(line, Nick[c]))
           /\ \/ m.type \in {"WRITE_ARBITRARY", "GOODBYE"}
              \/ m.type = "COUNTDOWN_N" /\ m.n = line.n
<1>1. line.word \in {"quit", "countdown", "write", "junk"} /\ line.n \in Int
  <2>1. Script[c] \in Seq(SUBSET Lines) /\ typed[c] < Len(Script[c]) /\ typed[c] \in Nat
    BY ClientAssumption DEF IndTypeOK, LinesOwed, TypeOK, ClientTypeOK
  <2>2. typed[c] + 1 \in 1..Len(Script[c])
    BY <2>1, LenProperties
  <2>3. Script[c][typed[c] + 1] \in SUBSET Lines
    BY <2>1, <2>2, ElementOfSeq
  <2> QED BY <2>3 DEF Lines
<1>2. CASE line.word = "quit"
  <2> DEFINE g == goodbye_msg(Nick[c])
  <2>1. parse_cmdline(line, Nick[c]) = <<g>> /\ g.type = "GOODBYE"
    BY <1>2 DEF parse_cmdline, goodbye_msg, Named
  <2> HIDE DEF g
  <2>2. m = g /\ classify(<<g>>) = g.type
    BY <2>1 DEF ToSet, classify
  <2> QED BY <2>1, <2>2
<1>3. CASE line.word = "countdown"
  <2> DEFINE g == countdown_n_msg(line.n)
  <2>1. parse_cmdline(line, Nick[c]) = <<g>> /\ g.type = "COUNTDOWN_N" /\ g.n = line.n
    BY <1>3 DEF parse_cmdline, countdown_n_msg, Numbered
  <2> HIDE DEF g
  <2>2. m = g /\ classify(<<g>>) = g.type
    BY <2>1 DEF ToSet, classify
  <2> QED BY <2>1, <2>2
<1>4. CASE line.word = "write"
  <2>1. parse_cmdline(line, Nick[c]) = <<write_msg>> /\ write_msg.type = "WRITE_ARBITRARY"
    BY <1>4 DEF parse_cmdline, write_msg, Named
  <2>2. m = write_msg /\ classify(<<write_msg>>) = write_msg.type
    BY <2>1 DEF ToSet, classify
  <2> QED BY <2>1, <2>2
<1>5. CASE line.word = "junk"
  <2>1. parse_cmdline(line, Nick[c]) = <<>>
    BY <1>5 DEF parse_cmdline
  <2> QED BY <2>1, Contents
<1> QED BY <1>1, <1>2, <1>3, <1>4, <1>5

\* Every step of a client.
StepOf(c) ==
    /\ Apart(c) /\ Fate(c)
    /\ ToSet(s2c'[c]) \subseteq ToSet(s2c[c])
    /\ \A m \in ToSet(c2s'[c]) : m \in ToSet(c2s[c]) \/ Says(c, m)
    /\ cpc[c] \in Departed => cpc'[c] \in {"exited", "crashed"}

LEMMA ClientTraffic ==
    ASSUME IndTypeOK, NEW c \in Clients, ClientRuns(c) \/ UserActs(c)
    PROVE  StepOf(c)
<1>1. /\ NetworkTypeOK /\ ClientTypeOK /\ s2c[c] \in Seq(Msg)
      /\ Nick[c] \in Names \cup {NoName} /\ PingN \in Int
  BY NetworkAssumption, ServerAssumption DEF IndTypeOK, TypeOK, NetworkTypeOK
<1>2. /\ \A m \in ToSet(<<lock_msg(Nick[c])>>) : m.type = "PEER_LOCK"
      /\ \A m \in ToSet(<<hello_msg(Nick[c])>>) : m.type = "HELLO"
      /\ <<lock_msg(Nick[c])>> \in Seq(Msg)
  <2>1. lock_msg(Nick[c]).type = "PEER_LOCK" /\ hello_msg(Nick[c]).type = "HELLO"
    BY DEF lock_msg, hello_msg, Named
  <2>2. <<lock_msg(Nick[c])>> \in Seq(Msg)
    BY <1>1, MessageTypes
  <2> QED BY <2>1, <2>2 DEF ToSet
<1>ends. ASSUME NEW how \in {"exited", "crashed"}, NEW unread, Ends(c, how, unread),
                UNCHANGED <<c2s, cliSide>>
         PROVE  StepOf(c)
  BY <1>1, <1>ends, EndsTraffic DEF StepOf
<1>writes. ASSUME NEW buf \in Seq(Msg), NEW unread \in Seq(Msg),
                  ToSet(unread) \subseteq ToSet(s2c[c]),
                  cpc[c] \in LivePCs, cpc[c] \notin Departed, NEW next \in LivePCs,
                  Writes(c, buf, unread, next),
                  cpc'[c] = next => \A m \in ToSet(buf) : Says(c, m)
           PROVE  StepOf(c)
  BY <1>1, <1>writes, WritesTraffic DEF StepOf
<1>same. ASSUME UNCHANGED <<c2s, srvSide>>, cpc[c] \in LivePCs, cpc[c] \notin Departed,
                cpc'[c] \in LivePCs, \A d \in Clients \ {c} : cpc'[d] = cpc[d],
                s2c' = s2c \/ \E buf \in Chunks(s2c[c], cliSide[c]) : Consume(c, buf),
                \/ cliSide' = cliSide
                \/ cliSide[c] # "open" /\ \A d \in Clients \ {c} : cliSide'[d] = cliSide[d]
         PROVE  StepOf(c)
  <2>1. ToSet(s2c'[c]) \subseteq ToSet(s2c[c]) /\ \A d \in Clients \ {c} : s2c'[d] = s2c[d]
    BY <1>1, <1>same, ChunkWithin DEF Consume, NetworkTypeOK
  <2> QED BY <1>same, <2>1 DEF StepOf, Apart, Fate
<1>3. CASE Leave(c)
  BY <1>3, <1>ends DEF Leave
<1>4. CASE ClientRecvThrows(c)
  BY <1>4, <1>ends DEF ClientRecvThrows
<1>5. CASE OnMessage(c)
  <2>1. PICK buf \in Chunks(s2c[c], cliSide[c]) :
          \/ OnShutdown(c, buf) \/ OnPing(c, buf) \/ OnPingInit(c, buf)
          \/ OnPeer(c, buf) \/ OnLock(c, buf) \/ OnOrder(c, buf)
          \/ OnOther(c, buf)
    BY <1>5, OnMessageRead
  <2>2. CASE OnShutdown(c, buf)
    BY <1>ends, <2>2 DEF OnShutdown
  <2>3. CASE OnPing(c, buf)
    <3>1. PICK next \in {"pinging", "select"} : Writes(c, buf, After(s2c[c], buf), next)
      BY <2>3 DEF OnPing
    <3>2. /\ buf \in Seq(Msg) /\ After(s2c[c], buf) \in Seq(Msg)
          /\ ToSet(buf) \subseteq ToSet(s2c[c])
          /\ ToSet(After(s2c[c], buf)) \subseteq ToSet(s2c[c])
      BY <1>1, ChunkType, AfterType, ChunkWithin
    <3>3. cpc[c] = "select" /\ classify(buf) = "PING"
      BY <2>3 DEF OnPing, Gets
    <3>4. \A m \in ToSet(buf) : Says(c, m)
      <4>1. RecvMax = 1 => \A m \in ToSet(buf) : m.type = "PING"
        <5> SUFFICES ASSUME RecvMax = 1 PROVE \A m \in ToSet(buf) : m.type = "PING"
          OBVIOUS
        <5>1. buf = <<Head(s2c[c])>> \/ buf = <<>>
          BY <1>1, ChunkAlone
        <5>2. buf = <<Head(s2c[c])>>
          BY <3>3, <5>1 DEF classify
        <5>3. Head(buf) = Head(s2c[c]) /\ ToSet(buf) = {Head(s2c[c])}
          BY <5>2 DEF ToSet
        <5>4. Head(buf).type = "PING"
          BY <3>3 DEF classify
        <5> QED BY <5>3, <5>4
      <4> QED BY <3>2, <4>1 DEF Says
    <3> QED BY <1>writes, <3>1, <3>2, <3>3, <3>4 DEF LivePCs, Departed
  <2>4. CASE OnPingInit(c, buf) \/ OnPeer(c, buf) \/ OnLock(c, buf)
             \/ OnOrder(c, buf) \/ OnOther(c, buf)
    <3>1. /\ cpc[c] = "select" /\ UNCHANGED <<cpc, c2s, srvSide, cliSide>>
          /\ Consume(c, buf)
      BY <2>4 DEF OnPingInit, OnPeer, OnLock, OnOrder, OnOther, clientVars, Gets
    <3> QED BY <1>same, <3>1 DEF LivePCs, Departed
  <2> QED BY <2>1, <2>2, <2>3, <2>4
<1>6. CASE PingTurn(c)
  <2>1. PICK next \in {"pinging", "select"} :
          \/ \E buf \in Chunks(s2c[c], cliSide[c]) :
                \/ classify(buf) = "PING" /\ Writes(c, buf, After(s2c[c], buf), next)
                \/ /\ cpc' = [cpc EXCEPT ![c] = next] /\ UNCHANGED <<c2s, srvSide, cliSide>>
                   /\ Consume(c, buf)
          \/ /\ cpc' = [cpc EXCEPT ![c] = next] /\ UNCHANGED <<s2c, c2s, srvSide>>
             /\ RecvFails(s2c[c], cliSide[c])
             /\ cliSide' = [cliSide EXCEPT ![c] = "broken"]
    BY <1>6, PingTurnRead
  <2>2. cpc[c] = "pinging" /\ next \in LivePCs /\ cpc[c] \in LivePCs /\ cpc[c] \notin Departed
    BY <1>6 DEF PingTurn, LivePCs, Departed
  <2>3. CASE /\ cpc' = [cpc EXCEPT ![c] = next] /\ UNCHANGED <<s2c, c2s, srvSide>>
             /\ RecvFails(s2c[c], cliSide[c])
             /\ cliSide' = [cliSide EXCEPT ![c] = "broken"]
    BY <1>1, <1>same, <2>2, <2>3 DEF RecvFails, NetworkTypeOK, ClientTypeOK
  <2>4. ASSUME NEW buf \in Chunks(s2c[c], cliSide[c]),
               cpc' = [cpc EXCEPT ![c] = next], UNCHANGED <<c2s, srvSide, cliSide>>,
               Consume(c, buf)
        PROVE  StepOf(c)
    BY <1>1, <1>same, <2>2, <2>4 DEF ClientTypeOK
  <2>5. ASSUME NEW buf \in Chunks(s2c[c], cliSide[c]), classify(buf) = "PING",
               Writes(c, buf, After(s2c[c], buf), next)
        PROVE  StepOf(c)
    <3>2. /\ buf \in Seq(Msg) /\ After(s2c[c], buf) \in Seq(Msg)
          /\ ToSet(buf) \subseteq ToSet(s2c[c])
          /\ ToSet(After(s2c[c], buf)) \subseteq ToSet(s2c[c])
      BY <1>1, ChunkType, AfterType, ChunkWithin
    <3>4. \A m \in ToSet(buf) : Says(c, m)
      <4>1. RecvMax = 1 => \A m \in ToSet(buf) : m.type = "PING"
        <5> SUFFICES ASSUME RecvMax = 1 PROVE \A m \in ToSet(buf) : m.type = "PING"
          OBVIOUS
        <5>1. buf = <<Head(s2c[c])>> \/ buf = <<>>
          BY <1>1, ChunkAlone
        <5>2. buf = <<Head(s2c[c])>>
          BY <2>5, <5>1 DEF classify
        <5>3. Head(buf) = Head(s2c[c]) /\ ToSet(buf) = {Head(s2c[c])}
          BY <5>2 DEF ToSet
        <5>4. Head(buf).type = "PING"
          BY <2>5 DEF classify
        <5> QED BY <5>3, <5>4
      <4> QED BY <3>2, <4>1 DEF Says
    <3> QED BY <1>writes, <2>2, <2>5, <3>2, <3>4
  <2> QED BY <2>1, <2>3, <2>4, <2>5
<1>7. CASE Connect(c)
  <2>1. /\ c2s'[c] = <<hello_msg(Nick[c])>> /\ s2c' = s2c /\ cpc[c] = "off"
        /\ \A d \in Clients \ {c} : /\ c2s'[d] = c2s[d] /\ cpc'[d] = cpc[d]
                                    /\ srvSide'[d] = srvSide[d] /\ cliSide'[d] = cliSide[d]
    BY <1>1, <1>7 DEF Connect, NetworkTypeOK, ClientTypeOK
  <2> QED BY <1>2, <1>7, <2>1 DEF StepOf, Apart, Fate, Says, Departed
<1>8. CASE ConnectFails(c)
  <2>1. /\ cpc'[c] = "exited" /\ \A d \in Clients \ {c} : cpc'[d] = cpc[d]
        /\ UNCHANGED <<s2c, c2s, srvSide, cliSide>>
    BY <1>1, <1>8 DEF ConnectFails, netVars, ClientTypeOK
  <2> QED BY <2>1 DEF StepOf, Apart, Fate
<1>9. CASE StartTyping(c)
  <2>1. Writes(c, <<lock_msg(Nick[c])>>, s2c[c], "typing") /\ cpc[c] = "select"
    BY <1>9 DEF StartTyping
  <2> QED BY <1>1, <1>2, <1>writes, <2>1 DEF LivePCs, Departed, Says
<1>10. CASE FinishLine(c)
  <2>1. PICK line \in Script[c][typed[c] + 1] :
          \/ cpc' = [cpc EXCEPT ![c] = "select"] /\ UNCHANGED <<c2s, cliSide, s2c, srvSide>>
          \/ Writes(c, parse_cmdline(line, Nick[c]), s2c[c],
                    IF classify(parse_cmdline(line, Nick[c])) = "GOODBYE"
                    THEN "leaving" ELSE "select")
    BY <1>10 DEF FinishLine
  <2>2. parse_cmdline(line, Nick[c]) \in Seq(Msg)
    BY <1>10, LineType DEF FinishLine, IndTypeOK, LinesOwed
  <2>3. /\ cpc[c] = "typing" /\ cpc[c] \in LivePCs /\ cpc[c] \notin Departed
        /\ "leaving" \in LivePCs /\ "select" \in LivePCs
    BY <1>10 DEF FinishLine, LivePCs, Departed
  <2>4. CASE cpc' = [cpc EXCEPT ![c] = "select"] /\ UNCHANGED <<c2s, cliSide, s2c, srvSide>>
    BY <1>1, <1>same, <2>3, <2>4 DEF ClientTypeOK
  <2>5. CASE Writes(c, parse_cmdline(line, Nick[c]), s2c[c],
                    IF classify(parse_cmdline(line, Nick[c])) = "GOODBYE"
                    THEN "leaving" ELSE "select")
    <3> DEFINE next == IF classify(parse_cmdline(line, Nick[c])) = "GOODBYE"
                       THEN "leaving" ELSE "select"
    <3>1. ASSUME cpc'[c] = next, NEW m \in ToSet(parse_cmdline(line, Nick[c]))
          PROVE  Says(c, m)
      BY <2>3, <3>1, LineSays DEF Says
    <3> QED BY <1>1, <1>writes, <2>2, <2>3, <2>5, <3>1
  <2> QED BY <2>1, <2>4, <2>5
<1>11. CASE CloseInput(c)
  <2>1. /\ cpc'[c] = "deaf" /\ cpc[c] = "select" /\ \A d \in Clients \ {c} : cpc'[d] = cpc[d]
        /\ UNCHANGED <<s2c, c2s, srvSide, cliSide>>
    BY <1>1, <1>11 DEF CloseInput, netVars, ClientTypeOK
  <2> QED BY <1>same, <2>1 DEF LivePCs, Departed
<1>12. CASE LockAtEnd(c)
  <2>1. Writes(c, <<lock_msg(Nick[c])>>, s2c[c], "deaf") /\ cpc[c] = "deaf"
    BY <1>12 DEF LockAtEnd
  <2> QED BY <1>1, <1>2, <1>writes, <2>1 DEF LivePCs, Departed, Says
<1>13. CASE Killed(c)
  BY <1>13, <1>ends DEF Killed
<1> QED
  BY <1>3, <1>4, <1>5, <1>6, <1>7, <1>8, <1>9, <1>10, <1>11, <1>12, <1>13
     DEF ClientRuns, UserActs

-----------------------------------------------------------------------------
(* What a client is told first *)

\* The countdown's loops count within client_metas.
InLoop == spc \in {"ping", "pong", "order"} => j \in Indices

LEMMA ServerStaysInLoop ==
    ASSUME IndTypeOK, InLoop, ServerNext
    PROVE  InLoop'
<1>1. /\ client_metas \in Seq(Clients) /\ Len(client_metas) \in Nat
      /\ spc' \notin {"ping", "pong", "order"} => InLoop'
  BY LenProperties DEF IndTypeOK, TypeOK, ServerTypeOK, InLoop
<1>same. ASSUME UNCHANGED <<spc, client_metas, j>> PROVE InLoop'
  BY <1>same DEF InLoop, Indices
<1>writes. ASSUME NEW T, NEW buf, NEW pending, NEW next, WriteAll(T, buf, pending, next)
           PROVE  spc' \in {next, "crashed"}
  <2>1. PICK W, V \in SUBSET Metas(T) :
          \/ WriteSucceeds(T, V, buf, pending, next)
          \/ WriteKills(T, W, buf, pending)
    BY <1>writes, WriteAllCases
  <2> QED BY <2>1 DEF WriteSucceeds, WriteKills
<1>2. CASE Send
  <2>1. UNCHANGED <<client_metas, j>> /\ spc' \in {spc, "crashed"}
    BY <1>1, <1>2, SendCases DEF SendSucceeds, SendKills
  <2> QED BY <1>1, <1>same, <2>1
<1>3. ASSUME NEW k \in Indices, NEW buf, HandleCountdown(k, buf) PROVE InLoop'
  <2>1. 0 \in Indices /\ Indices' = Indices
    BY <1>1, <1>3 DEF Indices, HandleCountdown
  <2>2. CASE j' = 0
    BY <2>1, <2>2 DEF InLoop
  <2>3. CASE UNCHANGED <<spc, j>>
    BY <1>3, <1>same, <2>3 DEF HandleCountdown
  <2> QED BY <1>3, <2>2, <2>3 DEF HandleCountdown
<1>4. ASSUME NEW k \in Indices, Dispatch(k) PROVE InLoop'
  <2>1. PICK buf \in Chunks(c2s[Meta(k)], srvSide[Meta(k)]) :
          \/ HandleHello(k, buf) \/ HandleGoodbye(k, buf)
          \/ HandleLock(k, buf)  \/ HandleUnlock(k, buf)
          \/ HandleWrite(k, buf) \/ HandleCountdown(k, buf)
          \/ Discard(k, buf)
    BY <1>4 DEF Dispatch
  <2>2. CASE HandleHello(k, buf) \/ HandleGoodbye(k, buf) \/ HandleLock(k, buf)
             \/ HandleUnlock(k, buf) \/ HandleWrite(k, buf)
    <3>1. \E next \in {"scan", "unlock"} : Relay(k, buf, next)
      BY <2>2 DEF HandleHello, HandleGoodbye, HandleLock, HandleUnlock, HandleWrite
    <3>2. spc' \in {"scan", "unlock", "crashed"}
      BY <3>1, <1>writes DEF Relay, broadcast
    <3> QED BY <1>1, <3>2
  <2>3. CASE Discard(k, buf)
    BY <1>same, <2>3 DEF Discard
  <2> QED BY <1>3, <2>1, <2>2, <2>3
<1>5. CASE Ping
  <2>1. j \in Indices /\ UNCHANGED <<client_metas, j>>
    BY <1>5 DEF Ping, InLoop
  <2> QED BY <2>1 DEF InLoop, Indices
<1>6. CASE Pong \/ PongFails
  <2>1. j \in Indices
    BY <1>6 DEF Pong, PongFails, InLoop
  <2>2. 0 \in Indices
    BY <1>1, <2>1 DEF Indices
  <2>3. NextExchange /\ Indices' = Indices
    BY <1>6 DEF Pong, PongFails, Indices
  <2> QED BY <2>1, <2>2, <2>3 DEF NextExchange, InLoop
<1>7. CASE Order
  <2>1. /\ WriteOne(j, <<countdown_order_msg(n)>>,
                     IF j + 1 \in Indices THEN "order" ELSE "unlock")
        /\ j' = j + 1 /\ Indices' = Indices
    BY <1>7 DEF Order, Indices
  <2>2. spc' \in {IF j + 1 \in Indices THEN "order" ELSE "unlock", "crashed"}
    BY <2>1, <1>writes DEF WriteOne
  <2> QED BY <2>1, <2>2 DEF InLoop
<1>8. CASE OperatorQuits \/ Unlock
  <2>1. spc' \in {"closing", "scan", "crashed"}
    BY <1>8, <1>writes DEF OperatorQuits, Unlock, broadcast
  <2> QED BY <1>1, <2>1
<1>9. CASE Select \/ Accept \/ AcceptFails \/ OperatorMistypes \/ Exit \/ RecvThrows
           \/ OrderFaults \/ DispatchEnds \/ Erase
  <2>1. spc' \notin {"ping", "pong", "order"}
    BY <1>9 DEF Select, Phase, Accept, AcceptFails, OperatorMistypes, Exit, RecvThrows,
       OrderFaults, DispatchEnds, Erase
  <2> QED BY <1>1, <2>1
<1> QED BY <1>2, <1>4, <1>5, <1>6, <1>7, <1>8, <1>9 DEF ServerNext, ServerActs

Ended == {"exited", "crashed"}

\* Every PING_INIT carries the number of pings, and a client that has read none
\* has one to read before anything else, if the server has accepted it.
JoinOK ==
    /\ \A c \in Clients : \A m \in ToSet(s2c[c]) \cup ToSet(c2s[c]) :
            m.type = "PING_INIT" => m.n = PingN
    /\ \A c \in Live : srvSide[c] = "open" /\ (spc \notin Ended => cliSide[c] = "open")
    /\ \A c \in Clients : cpc[c] = "off" => s2c[c] = <<>>
    /\ \A c \in Clients : ping_n[c] \in {-1, PingN}
    /\ \A c \in Clients : cpc[c] = "pinging" => ping_n[c] # -1
    /\ PingN >= 1 => \A c \in Live : ping_n[c] = -1 =>
            IF s2c[c] = <<>> THEN c \notin ToSet(client_metas)
            ELSE Head(s2c[c]).type = "PING_INIT" /\ unsent[c] < Len(s2c[c])

\* The indices of client_metas and the clients there.
LEMMA MetaFacts ==
    ASSUME IndTypeOK
    PROVE  /\ Len(client_metas) \in Nat
           /\ ToSet(client_metas) \subseteq Clients
           /\ \A k \in Indices : /\ k \in Nat /\ Meta(k) \in Clients
                                 /\ Meta(k) \in ToSet(client_metas)
           /\ \A c \in ToSet(client_metas) : \E k \in Indices : c = Meta(k)
           /\ OnePlaceEach => \A k, m \in Indices : Meta(k) = Meta(m) => k = m
<1>1. /\ Len(client_metas) \in Nat /\ DOMAIN client_metas = 1..Len(client_metas)
      /\ client_metas \in [1..Len(client_metas) -> Clients]
  BY LenProperties DEF IndTypeOK, TypeOK, ServerTypeOK
<1>2. \A k \in Indices : k \in Nat /\ k + 1 \in 1..Len(client_metas)
  BY <1>1 DEF Indices
<1>3. \A k \in Indices : Meta(k) \in Clients /\ Meta(k) \in ToSet(client_metas)
  BY <1>1, <1>2 DEF Meta, ToSet
<1>4. ASSUME NEW c \in ToSet(client_metas) PROVE \E k \in Indices : c = Meta(k)
  <2>1. PICK l \in 1..Len(client_metas) : c = client_metas[l]
    BY <1>1 DEF ToSet
  <2>2. l - 1 \in Indices /\ (l - 1) + 1 = l
    BY <1>1 DEF Indices
  <2> QED BY <2>1, <2>2 DEF Meta
<1>5. ASSUME OnePlaceEach, NEW k \in Indices, NEW m \in Indices, Meta(k) = Meta(m)
      PROVE  k = m
  <2>1. k + 1 = m + 1
    BY <1>1, <1>2, <1>5 DEF OnePlaceEach, IsInjective, Meta
  <2> QED BY <1>2, <2>1
<1>6. ToSet(client_metas) \subseteq Clients
  BY <1>1 DEF ToSet
<1> QED BY <1>1, <1>2, <1>3, <1>4, <1>5, <1>6

\* The first message of a stream arrives first.
LEMMA ArrivedHead ==
    ASSUME NetworkTypeOK, NEW c \in Clients, NEW stream \in Seq(Msg)
    PROVE  /\ stream = <<>> => Arrived(c, stream) = <<>>
           /\ unsent[c] < Len(stream) =>
                Arrived(c, stream) # <<>> /\ Head(Arrived(c, stream)) = Head(stream)
<1> DEFINE m == Len(stream) - unsent[c]
           some == Arrived(c, stream)
<1>1. Len(stream) \in Nat /\ unsent[c] \in Nat /\ m \in Int /\ m <= Len(stream)
  BY LenProperties DEF NetworkTypeOK
<1>2. \A l \in 1..m : stream[l] \in Msg /\ 1 + l - 1 = l
  BY <1>1, LenProperties
<1>3. some = SubSeq(stream, 1, m)
  BY DEF Arrived
<1>4. stream = <<>> => m <= 0
  BY <1>1, EmptySeq
<1>5. unsent[c] < Len(stream) => m >= 1
  BY <1>1
<1> HIDE DEF m, some
<1>6. /\ some \in Seq(Msg)
      /\ Len(some) = IF 1 <= m THEN m ELSE 0
      /\ \A l \in 1..m : some[l] = stream[l]
  BY <1>1, <1>2, <1>3, SubSeqProperties
<1>7. stream = <<>> => some = <<>>
  BY <1>1, <1>4, <1>6, EmptySeq
<1>8. ASSUME m >= 1 PROVE some # <<>> /\ Head(some) = Head(stream)
  <2>1. Len(some) = m /\ some[1] = stream[1] /\ m # 0 /\ Len(stream) # 0
    BY <1>1, <1>6, <1>8
  <2>2. some # <<>> /\ stream # <<>>
    BY <1>1, <2>1, EmptySeq
  <2> QED BY <1>6, <2>1, <2>2, HeadTailProperties
<1> QED BY <1>5, <1>7, <1>8 DEF some

\* What a step of the server outside accept may do to a stream: it takes back
\* what it has not written, or writes to a client it has.
Extends(c) ==
    \/ s2c'[c] = s2c[c] /\ unsent'[c] \in {0, unsent[c]}
    \/ s2c'[c] = Arrived(c, s2c[c]) /\ unsent'[c] = 0
    \/ /\ c \in ToSet(client_metas)
       /\ srvSide[c] = "open" =>
            \E buf \in Seq(Msg) : s2c'[c] = s2c[c] \o buf /\ unsent'[c] \in {0, Len(buf)}

\* Only an accept adds to client_metas, and writes to a client not there.
LEMMA ServerAppends ==
    ASSUME IndTypeOK, OnePlaceEach, InLoop, ServerNext
    PROVE  \/ Accept
           \/ /\ ToSet(client_metas') \subseteq ToSet(client_metas)
              /\ \A c \in Clients : Extends(c)
<1>1. /\ client_metas \in Seq(Clients) /\ NetworkTypeOK
      /\ lock_owner \in Names \cup {NoName} /\ i \in Int /\ n \in Int
      /\ Metas(Indices) = ToSet(client_metas)
  BY IndicesMetas DEF IndTypeOK, TypeOK, ServerTypeOK
<1>2. CASE UNCHANGED <<client_metas, s2c, unsent>>
  BY <1>2 DEF Extends
<1>3. CASE Select \/ AcceptFails \/ OperatorMistypes \/ Exit \/ RecvThrows \/ Pong
           \/ PongFails \/ OrderFaults \/ DispatchEnds
  BY <1>2, <1>3 DEF Select, AcceptFails, OperatorMistypes, Exit, RecvThrows, Pong,
     PongFails, OrderFaults, DispatchEnds, netVars
<1>send. CASE Send
  <2>1. UNCHANGED client_metas
    BY <1>1, <1>send, SendCases
  <2>2. PICK Later : SendSucceeds(Later) \/ SendKills(Later)
    BY <1>1, <1>send, SendCases
  <2>3. \A c \in Clients : Extends(c)
    BY <2>2 DEF SendSucceeds, SendKills, Extends
  <2> QED BY <2>1, <2>3
<1>all. ASSUME Flowing, NEW T \in SUBSET Indices, NEW buf \in Seq(Msg), NEW pending,
               NEW next, WriteAll(T, buf, pending, next)
        PROVE  \A c \in Clients : Extends(c)
  <2>1. PICK W, V \in SUBSET Metas(T) :
          \/ WriteSucceeds(T, V, buf, pending, next)
          \/ WriteKills(T, W, buf, pending)
    BY <1>all, WriteAllCases
  <2>2. Metas(T) \subseteq ToSet(client_metas)
    BY <1>1 DEF Metas
  <2>3. CASE WriteSucceeds(T, V, buf, pending, next)
    <3> SUFFICES ASSUME NEW c \in Clients PROVE Extends(c)
      OBVIOUS
    <3>1. CASE c \in Metas(T)
      BY <2>2, <2>3, <3>1 DEF WriteSucceeds, Written, Extends
    <3>2. CASE c \notin Metas(T)
      BY <2>1, <2>3, <3>2 DEF WriteSucceeds, Written, Extends
    <3> QED BY <3>1, <3>2
  <2>4. CASE WriteKills(T, W, buf, pending)
    <3> SUFFICES ASSUME NEW c \in Clients PROVE Extends(c)
      OBVIOUS
    <3>1. CASE c \in W /\ srvSide[c] = "open"
      <4>1. s2c'[c] = s2c[c] \o buf /\ unsent' = unsent /\ c \in ToSet(client_metas)
        BY <2>1, <2>2, <2>4, <3>1 DEF WriteKills, Written
      <4>2. unsent'[c] = 0
        BY <1>all, <4>1 DEF Flowing
      <4> QED BY <4>1, <4>2 DEF Extends
    <3>2. CASE ~(c \in W /\ srvSide[c] = "open")
      BY <2>4, <3>2 DEF WriteKills, Written, Extends
    <3> QED BY <3>1, <3>2
  <2> QED BY <2>1, <2>3, <2>4
<1> HIDE DEF Extends
<1> SUFFICES ASSUME Flowing, ServerActs
             PROVE  \/ Accept
                    \/ /\ ToSet(client_metas') \subseteq ToSet(client_metas)
                       /\ \A c \in Clients : Extends(c)
  BY <1>send DEF ServerNext
<1>4. CASE OperatorQuits
  <2>1. <<shutdown_msg>> \in Seq(Msg) /\ Indices \ {-1} \in SUBSET Indices
    BY MessageTypes
  <2> QED BY <1>4, <1>all, <2>1 DEF OperatorQuits, broadcast
<1>5. ASSUME NEW k \in Indices, Dispatch(k)
      PROVE  UNCHANGED client_metas /\ \A c \in Clients : Extends(c)
  <2>1. PICK buf \in Chunks(c2s[Meta(k)], srvSide[Meta(k)]) :
          \/ HandleHello(k, buf) \/ HandleGoodbye(k, buf)
          \/ HandleLock(k, buf)  \/ HandleUnlock(k, buf)
          \/ HandleWrite(k, buf) \/ HandleCountdown(k, buf)
          \/ Discard(k, buf)
    BY <1>5 DEF Dispatch
  <2>2. buf \in Seq(Msg) /\ Indices \ {k} \in SUBSET Indices
    BY <1>1, MetaFacts, ChunkType DEF NetworkTypeOK
  <2>3. \/ \E next : WriteAll(Indices \ {k}, buf, Rest(k, buf), next)
        \/ UNCHANGED <<s2c, unsent>>
    BY <2>1 DEF HandleHello, HandleGoodbye, HandleLock, HandleUnlock, HandleWrite,
       HandleCountdown, Discard, Relay, broadcast
  <2>4. \A c \in Clients : Extends(c)
    <3>1. CASE UNCHANGED <<s2c, unsent>>
      BY <3>1 DEF Extends
    <3> QED BY <1>all, <2>2, <2>3, <3>1
  <2>5. UNCHANGED client_metas
    BY <2>1 DEF HandleHello, HandleGoodbye, HandleLock, HandleUnlock, HandleWrite,
       HandleCountdown, Discard
  <2> QED BY <2>4, <2>5
<1>6. CASE Ping
  <2>1. <<ping_msg(i)>> \in Seq(Msg) /\ {j} \in SUBSET Indices
    BY <1>1, <1>6, MessageTypes DEF Ping, InLoop
  <2> QED BY <1>6, <1>all, <2>1 DEF Ping, WriteOne
<1>7. CASE Order
  <2>1. <<countdown_order_msg(n)>> \in Seq(Msg) /\ {j} \in SUBSET Indices
    BY <1>1, <1>7, MessageTypes DEF Order, InLoop
  <2> QED BY <1>7, <1>all, <2>1 DEF Order, WriteOne
<1>8. CASE Unlock
  <2>1. <<unlock_msg(lock_owner)>> \in Seq(Msg) /\ Indices \ {-1} \in SUBSET Indices
    BY <1>1, MessageTypes
  <2> QED BY <1>8, <1>all, <2>1 DEF Unlock, broadcast
<1>9. CASE Erase
  <2>1. UNCHANGED <<s2c, unsent>>
    BY <1>9 DEF Erase, netVars
  <2>2. \A c \in Clients : Extends(c)
    BY <2>1 DEF Extends
  <2>3. CASE /\ Last(delete_idxs) \in Indices
             /\ client_metas' = RemoveAt(client_metas, Last(delete_idxs) + 1)
    <3>1. Last(delete_idxs) + 1 \in 1..Len(client_metas)
      BY <1>1, <2>3, LenProperties DEF Indices
    <3> QED BY <1>1, <2>2, <2>3, <3>1, RemoveAtDistinct DEF OnePlaceEach
  <2>4. CASE client_metas # <<>> /\ client_metas' = Front(client_metas)
    BY <1>1, <2>2, <2>4, FrontDistinct DEF OnePlaceEach
  <2>5. CASE client_metas' = client_metas
    BY <2>2, <2>5
  <2> QED BY <1>9, <2>3, <2>4, <2>5 DEF Erase
<1> QED
  BY <1>3, <1>4, <1>5, <1>6, <1>7, <1>8, <1>9 DEF ServerActs

\* What heads a stream stays there when more is written.
LEMMA HeadOfConcat ==
    ASSUME NEW s \in Seq(Msg), NEW t \in Seq(Msg)
    PROVE  /\ s # <<>> => s \o t # <<>> /\ Head(s \o t) = Head(s)
           /\ s = <<>> => s \o t = t
<1> DEFINE st == s \o t
<1>1. /\ Len(s) \in Nat /\ Len(t) \in Nat /\ st \in Seq(Msg)
      /\ Len(st) = Len(s) + Len(t)
      /\ \A k \in 1..(Len(s) + Len(t)) :
            st[k] = IF k <= Len(s) THEN s[k] ELSE t[k - Len(s)]
  BY ConcatProperties, LenProperties
<1>2. s = <<>> => st = t
  BY ConcatEmptySeq
<1> HIDE DEF st
<1>3. ASSUME s # <<>> PROVE st # <<>> /\ Head(st) = Head(s)
  <2>1. Len(s) # 0
    BY <1>3, EmptySeq
  <2>2. 1 \in 1..(Len(s) + Len(t)) /\ 1 <= Len(s) /\ Len(st) # 0
    BY <1>1, <2>1
  <2>3. st # <<>>
    BY <1>1, <2>2, EmptySeq
  <2> QED BY <1>1, <1>3, <2>2, <2>3, HeadTailProperties
<1> QED BY <1>2, <1>3 DEF st

LEMMA ServerKeepsJoin ==
    ASSUME IndTypeOK, OnePlaceEach, InLoop, JoinOK, ServerNext, UNCHANGED clientVars
    PROVE  JoinOK'
<1>1. UNCHANGED <<cpc, ping_n>> /\ Live' = Live /\ NetworkTypeOK
  BY DEF clientVars, Live, IndTypeOK, TypeOK
<1>2. \A c \in Clients : \A m \in ToSet(s2c'[c]) \cup ToSet(c2s'[c]) :
        m.type = "PING_INIT" => m.n = PingN
  <2>1. \A m : FromServer(m) /\ m.type = "PING_INIT" => m.n = PingN
    BY DEF FromServer, ping_init_msg, Numbered
  <2> QED BY <2>1, ServerTraffic DEF JoinOK
<1>3. \A c \in Live : srvSide'[c] = "open" /\ (spc' \notin Ended => cliSide'[c] = "open")
  BY ServerTraffic DEF JoinOK, Ended, Live
<1>flows. Accept => Flowing
  BY DEF ServerNext, ServerActs, Accept, Send
<1>4. CASE Accept
  <2> DEFINE a == Head(backlog)
             b == <<ping_init_msg(PingN)>>
  <2>1. /\ s2c' = Written(s2c, srvSide, {a}, b)
        /\ client_metas' = Append(client_metas, a)
        /\ backlog # <<>>
        /\ UNCHANGED unsent
    BY <1>4 DEF Accept
  <2>2. b \in Seq(Msg) /\ b # <<>> /\ Head(b).type = "PING_INIT"
    <3>1. b \in Seq(Msg)
      BY MessageTypes, ServerAssumption
    <3> QED BY <3>1 DEF ping_init_msg, Numbered
  <2>3. /\ a \in Clients /\ cpc[a] # "off"
        /\ ToSet(client_metas') = ToSet(client_metas) \cup {a}
    <3>1. backlog \in Seq(Clients) /\ client_metas \in Seq(Clients)
      BY DEF IndTypeOK, TypeOK, NetworkTypeOK, ServerTypeOK
    <3>2. a \in ToSet(backlog) /\ a \in Clients
      BY <2>1, <3>1, TailDistinct, HeadTailProperties DEF OnePlaceEach
    <3> QED BY <2>1, <3>1, <3>2, AppendDistinct DEF OnePlaceEach
  <2> HIDE DEF a, b
  <2>4. \A c \in Clients \ {a} : s2c'[c] = s2c[c]
    BY <2>1 DEF Written
  <2>5. a \in Live => s2c'[a] = s2c[a] \o b /\ s2c[a] \in Seq(Msg)
    BY <1>1, <2>1, <2>3 DEF Written, JoinOK, NetworkTypeOK
  <2>6. a \in Live =>
          /\ s2c'[a] # <<>>
          /\ Head(s2c'[a]) = IF s2c[a] = <<>> THEN Head(b) ELSE Head(s2c[a])
    BY <2>2, <2>5, HeadOfConcat
  <2>9. Flowing => \A c \in Clients : s2c'[c] # <<>> => unsent'[c] < Len(s2c'[c])
    <3> SUFFICES ASSUME Flowing, NEW c \in Clients, s2c'[c] # <<>>
                 PROVE  unsent'[c] < Len(s2c'[c])
      OBVIOUS
    <3>1. s2c'[c] \in Seq(Msg) /\ unsent'[c] = 0
      <4>1. s2c' \in [Clients -> Seq(Msg)]
        BY <1>1, <2>1, <2>2, WrittenType DEF NetworkTypeOK
      <4> QED BY <2>1, <4>1 DEF Flowing
    <3>2. Len(s2c'[c]) \in Nat \ {0}
      BY <3>1, EmptySeq, LenProperties
    <3> QED BY <3>1, <3>2
  <2>7. PingN >= 1 => \A c \in Live : ping_n[c] = -1 =>
            IF s2c'[c] = <<>> THEN c \notin ToSet(client_metas')
            ELSE Head(s2c'[c]).type = "PING_INIT" /\ unsent'[c] < Len(s2c'[c])
    <3> SUFFICES ASSUME PingN >= 1, NEW c \in Live, ping_n[c] = -1
                 PROVE  IF s2c'[c] = <<>> THEN c \notin ToSet(client_metas')
                        ELSE Head(s2c'[c]).type = "PING_INIT" /\ unsent'[c] < Len(s2c'[c])
      OBVIOUS
    <3>1. IF s2c[c] = <<>> THEN c \notin ToSet(client_metas)
          ELSE Head(s2c[c]).type = "PING_INIT" /\ unsent[c] < Len(s2c[c])
      BY DEF JoinOK
    <3>2. c \in Clients
      BY DEF Live
    <3>3. s2c'[c] # <<>> => unsent'[c] < Len(s2c'[c])
      BY <1>4, <1>flows, <2>9, <3>2
    <3> QED BY <2>2, <2>3, <2>4, <2>6, <3>1, <3>2, <3>3
  <2>8. \A c \in Clients : cpc[c] = "off" => s2c'[c] = <<>>
    BY <2>3, <2>4 DEF JoinOK
  <2> QED BY <1>1, <1>2, <1>3, <2>7, <2>8 DEF JoinOK
<1>5. CASE /\ ToSet(client_metas') \subseteq ToSet(client_metas)
           /\ \A c \in Clients : Extends(c)
  <2>1. ASSUME NEW c \in Clients, cpc[c] = "off" PROVE s2c'[c] = <<>>
    <3>1. s2c[c] = <<>> /\ c \notin ToSet(client_metas)
      BY <2>1 DEF JoinOK, OnePlaceEach
    <3>2. Arrived(c, s2c[c]) = <<>>
      BY <1>1, <3>1, ArrivedHead DEF NetworkTypeOK
    <3> QED BY <1>5, <3>1, <3>2 DEF Extends
  <2>2. ASSUME PingN >= 1, NEW c \in Live, ping_n[c] = -1
        PROVE  IF s2c'[c] = <<>> THEN c \notin ToSet(client_metas')
               ELSE Head(s2c'[c]).type = "PING_INIT" /\ unsent'[c] < Len(s2c'[c])
    <3>1. /\ IF s2c[c] = <<>> THEN c \notin ToSet(client_metas)
             ELSE Head(s2c[c]).type = "PING_INIT" /\ unsent[c] < Len(s2c[c])
          /\ c \in Clients /\ s2c[c] \in Seq(Msg) /\ srvSide[c] = "open"
          /\ unsent[c] \in Nat
      BY <1>1, <2>2 DEF JoinOK, Live, NetworkTypeOK
    <3>2. Len(s2c[c]) \in Nat /\ (s2c[c] # <<>> => Len(s2c[c]) > 0)
      BY <3>1, EmptySeq, LenProperties
    <3>3. CASE s2c'[c] = s2c[c] /\ unsent'[c] \in {0, unsent[c]}
      BY <1>5, <3>1, <3>2, <3>3
    <3>4. CASE s2c'[c] = Arrived(c, s2c[c]) /\ unsent'[c] = 0
      <4>1. CASE s2c[c] = <<>>
        BY <1>1, <1>5, <3>1, <3>4, <4>1, ArrivedHead
      <4>2. CASE s2c[c] # <<>>
        <5>1. s2c'[c] # <<>> /\ Head(s2c'[c]) = Head(s2c[c])
          BY <1>1, <3>1, <3>4, <4>2, ArrivedHead
        <5>2. s2c'[c] \in Seq(Msg)
          BY <1>1, <3>1, <3>4, ArrivedType
        <5>3. Len(s2c'[c]) \in Nat \ {0}
          BY <5>1, <5>2, EmptySeq, LenProperties
        <5> QED BY <3>1, <3>4, <4>2, <5>1, <5>3
      <4> QED BY <4>1, <4>2
    <3>5. ASSUME c \in ToSet(client_metas), NEW buf \in Seq(Msg),
                 s2c'[c] = s2c[c] \o buf, unsent'[c] \in {0, Len(buf)}
          PROVE  s2c'[c] # <<>> /\ Head(s2c'[c]).type = "PING_INIT"
                 /\ unsent'[c] < Len(s2c'[c])
      <4>1. s2c[c] # <<>> /\ Head(s2c[c]).type = "PING_INIT"
        BY <3>1, <3>5
      <4>2. s2c'[c] # <<>> /\ Head(s2c'[c]) = Head(s2c[c])
        BY <3>1, <3>5, <4>1, HeadOfConcat
      <4>3. Len(s2c'[c]) = Len(s2c[c]) + Len(buf) /\ Len(buf) \in Nat
        BY <3>1, <3>5, ConcatProperties, LenProperties
      <4> QED BY <3>2, <3>5, <4>1, <4>2, <4>3
    <3> QED BY <1>5, <3>1, <3>3, <3>4, <3>5 DEF Extends
  <2> QED BY <1>1, <1>2, <1>3, <2>1, <2>2 DEF JoinOK
<1> QED BY <1>4, <1>5, ServerAppends

LEMMA ClientKeepsJoin ==
    ASSUME IndTypeOK, OnePlaceEach, JoinOK, NEW c \in Clients,
           ClientRuns(c) \/ UserActs(c), UNCHANGED serverVars
    PROVE  JoinOK'
<1>1. /\ NetworkTypeOK /\ ClientTypeOK /\ s2c[c] \in Seq(Msg) /\ PingN \in Int
      /\ UNCHANGED <<spc, client_metas>>
  BY ServerAssumption DEF IndTypeOK, TypeOK, NetworkTypeOK, serverVars
<1>2. StepOf(c)
  BY ClientTraffic
<1>unsent. unsent' = unsent
  BY DEF ClientRuns, UserActs, LockAtEnd, Leave, ClientRecvThrows, OnMessage, OnShutdown,
     OnPing, OnPingInit, OnPeer, OnLock, OnOrder, OnOther, PingTurn, Connect, ConnectFails,
     StartTyping, FinishLine, CloseInput, Killed, netVars
<1>3. \A d \in Clients : \A m \in ToSet(s2c'[d]) \cup ToSet(c2s'[d]) :
        m.type = "PING_INIT" => m.n = PingN
  <2>1. \A m : Says(c, m) /\ m.type = "PING_INIT" => m \in ToSet(s2c[c])
    BY DEF Says
  <2> QED BY <1>2, <2>1 DEF JoinOK, StepOf, Apart
<1>4. \A d \in Clients : cpc'[d] \in LivePCs =>
        srvSide'[d] = "open" /\ (spc \notin Ended => cliSide'[d] = "open")
  <2>1. \A d \in Clients : cpc[d] \in LivePCs =>
          srvSide[d] = "open" /\ (spc \notin Ended => cliSide[d] = "open")
    BY DEF JoinOK, Live, LivePCs
  <2>2. CASE Connect(c)
    BY <1>1, <2>1, <2>2 DEF Connect, NetworkTypeOK, ClientTypeOK
  <2>3. CASE cpc'[c] \in {"exited", "crashed"}
    BY <1>2, <2>1, <2>3 DEF StepOf, Apart, LivePCs
  <2>4. CASE /\ cpc[c] \in LivePCs /\ srvSide' = srvSide
             /\ cliSide[c] = "open" => cliSide'[c] = "open"
    BY <1>2, <2>1, <2>4 DEF StepOf, Apart
  <2> QED BY <1>2, <2>2, <2>3, <2>4 DEF StepOf, Fate
<1>5. \A d \in Clients : cpc'[d] = "off" => s2c'[d] = <<>>
  <2>1. cpc'[c] # "off"
    BY <1>1, <1>2 DEF StepOf, Fate, Connect, LivePCs, ClientTypeOK
  <2> QED BY <1>2, <2>1 DEF StepOf, Apart, JoinOK
\* What the number of pings may become, and who is in the ping loop then.
<1> DEFINE Told(d) == IF s2c'[d] = <<>> THEN d \notin ToSet(client_metas)
                      ELSE Head(s2c'[d]).type = "PING_INIT" /\ unsent[d] < Len(s2c'[d])
           Knows == /\ \A d \in Clients \ {c} : ping_n'[d] = ping_n[d]
                    /\ ping_n'[c] \in {-1, PingN}
                    /\ cpc'[c] = "pinging" => ping_n'[c] # -1
                    /\ PingN >= 1 /\ cpc'[c] \in LivePCs /\ ping_n'[c] = -1 => Told(c)
<1>told. /\ ping_n[c] \in {-1, PingN}
         /\ cpc[c] = "pinging" => ping_n[c] # -1
         /\ PingN >= 1 /\ cpc[c] \in LivePCs /\ ping_n[c] = -1 =>
               IF s2c[c] = <<>> THEN c \notin ToSet(client_metas)
               ELSE Head(s2c[c]).type = "PING_INIT" /\ unsent[c] < Len(s2c[c])
         /\ cpc[c] = "off" => s2c[c] = <<>> /\ c \notin ToSet(client_metas)
  BY DEF JoinOK, Live, LivePCs, OnePlaceEach
<1>same. ASSUME UNCHANGED <<s2c, ping_n>>, cpc'[c] # "pinging", cpc[c] \in LivePCs \cup {"off"}
         PROVE  Knows
  BY <1>same, <1>told
<1>ends. ASSUME cpc'[c] \in {"exited", "crashed"}, UNCHANGED ping_n
         PROVE  Knows
  BY <1>ends, <1>told DEF LivePCs
<1>writes. ASSUME NEW buf, NEW next \in LivePCs \ {"pinging"}, Writes(c, buf, s2c[c], next),
                  UNCHANGED ping_n, cpc[c] \in LivePCs
           PROVE  Knows
  <2>1. CASE cpc' = [cpc EXCEPT ![c] = next] /\ s2c' = [s2c EXCEPT ![c] = s2c[c]]
    BY <1>1, <1>same, <1>writes, <2>1 DEF ClientTypeOK, NetworkTypeOK
  <2>2. CASE Ends(c, "crashed", s2c[c])
    BY <1>1, <1>ends, <1>writes, <2>2 DEF Ends, ClientTypeOK
  <2> QED BY <1>writes, <2>1, <2>2 DEF Writes
<1>6. ASSUME OnMessage(c) PROVE Knows
  <2>1. PICK buf \in Chunks(s2c[c], cliSide[c]) :
          \/ OnShutdown(c, buf) \/ OnPing(c, buf) \/ OnPingInit(c, buf)
          \/ OnPeer(c, buf) \/ OnLock(c, buf) \/ OnOrder(c, buf)
          \/ OnOther(c, buf)
    BY <1>6, OnMessageRead
  <2>2. /\ buf \in Seq(Msg) /\ cpc[c] = "select"
        /\ buf # <<>> => /\ s2c[c] # <<>> /\ Head(buf) = Head(s2c[c])
                         /\ Head(buf) \in Msg /\ Head(buf) \in ToSet(s2c[c])
        /\ buf = <<>> => s2c[c] = <<>> /\ After(s2c[c], buf) = <<>>
    <3>1. cpc[c] = "select"
      BY <2>1 DEF OnShutdown, OnPing, OnPingInit, OnPeer, OnLock, OnOrder, OnOther, Gets
    <3>2. buf \in Seq(Msg) /\ ToSet(buf) \subseteq ToSet(s2c[c])
      BY <1>1, ChunkType, ChunkWithin
    <3>3. buf # <<>> => s2c[c] # <<>> /\ Head(buf) = Head(s2c[c])
      BY <1>1, ChunkWithin
    <3>4. buf # <<>> => Head(buf) \in Msg /\ Head(buf) \in ToSet(buf)
      BY <3>2, HeadTailProperties, EmptySeq, LenProperties DEF ToSet
    <3>5. buf = <<>> => s2c[c] = <<>> /\ After(s2c[c], buf) = <<>>
      <4> SUFFICES ASSUME buf = <<>> PROVE s2c[c] = <<>> /\ After(s2c[c], buf) = <<>>
        OBVIOUS
      <4>1. s2c[c] = <<>>
        <5> SUFFICES ASSUME s2c[c] # <<>> PROVE FALSE
          OBVIOUS
        <5>1. PICK k \in 1..Len(s2c[c]) : buf = SubSeq(s2c[c], 1, k)
          BY DEF Chunks
        <5>2. \A m \in 1..k : s2c[c][m] \in Msg
          BY <1>1, ElementOfSeq, LenProperties
        <5>3. Len(buf) = k - 1 + 1
          BY <5>1, <5>2, SubSeqProperties
        <5> QED BY <5>3
      <4> QED BY <4>1 DEF After
    <3> QED BY <3>1, <3>2, <3>3, <3>4, <3>5
  <2>3. CASE OnShutdown(c, buf)
    BY <1>1, <1>ends, <2>3 DEF OnShutdown, Ends, ClientTypeOK
  \* One that does not know the number reads it now.
  <2>4. PingN >= 1 /\ ping_n[c] = -1 /\ buf # <<>> => classify(buf) = "PING_INIT"
    BY <1>told, <2>2 DEF classify, LivePCs
  <2>5. CASE OnPingInit(c, buf)
    <3>1. buf # <<>> /\ Head(buf).n = PingN
      BY <2>2, <2>5 DEF OnPingInit, classify, JoinOK
    <3>2. /\ ping_n' = [ping_n EXCEPT ![c] = IF PingN >= 1 THEN PingN ELSE @]
          /\ cpc' = cpc
      BY <2>5, <3>1 DEF OnPingInit, ValidPingN
    <3> QED BY <1>1, <1>told, <2>2, <3>2 DEF ClientTypeOK
  <2>6. ASSUME UNCHANGED ping_n, cpc'[c] = "select", s2c'[c] = After(s2c[c], buf),
               classify(buf) # "PING_INIT"
        PROVE  Knows
    <3>1. CASE buf = <<>>
      BY <1>told, <2>2, <2>6, <3>1 DEF LivePCs
    <3>2. CASE buf # <<>>
      BY <1>told, <2>2, <2>4, <2>6, <3>2
    <3> QED BY <3>1, <3>2
  <2>7. CASE OnPing(c, buf)
    <3>1. /\ ping_n' = ping_n /\ buf # <<>> /\ classify(buf) = "PING"
          /\ Writes(c, buf, After(s2c[c], buf), IF MorePings(c, 1) THEN "pinging" ELSE "select")
      BY <2>7 DEF OnPing, classify
    <3>2. CASE cliSide[c] = "broken"
      BY <1>1, <1>ends, <3>1, <3>2 DEF Writes, Ends, ClientTypeOK
    <3>3. CASE cliSide[c] # "broken"
      <4>1. /\ cpc' = [cpc EXCEPT ![c] = IF MorePings(c, 1) THEN "pinging" ELSE "select"]
            /\ s2c' = [s2c EXCEPT ![c] = After(s2c[c], buf)]
        BY <3>1, <3>3 DEF Writes
      <4>2. CASE MorePings(c, 1)
        <5>1. cpc'[c] = "pinging" /\ ping_n[c] # -1
          BY <1>1, <4>1, <4>2 DEF MorePings, ClientTypeOK
        <5> QED BY <1>told, <3>1, <5>1
      <4>3. CASE ~MorePings(c, 1)
        BY <1>1, <2>6, <3>1, <4>1, <4>3 DEF ClientTypeOK, NetworkTypeOK
      <4> QED BY <4>2, <4>3
    <3> QED BY <3>2, <3>3
  <2>8. CASE OnPeer(c, buf) \/ OnLock(c, buf) \/ OnOrder(c, buf) \/ OnOther(c, buf)
    <3>1. /\ cpc' = cpc /\ ping_n' = ping_n /\ classify(buf) # "PING_INIT"
          /\ Consume(c, buf)
      BY <2>8 DEF OnPeer, OnLock, OnOrder, OnOther, clientVars
    <3> QED BY <1>1, <2>2, <2>6, <3>1 DEF Consume, NetworkTypeOK
  <2> QED BY <2>1, <2>3, <2>5, <2>7, <2>8
<1>7. ASSUME PingTurn(c) PROVE Knows
  <2>1. ping_n' = ping_n /\ cpc[c] = "pinging"
    BY <1>7 DEF PingTurn
  <2> QED BY <1>told, <2>1
<1>8. ASSUME Connect(c) \/ ConnectFails(c) \/ CloseInput(c) PROVE Knows
  <2>1. /\ UNCHANGED <<s2c, ping_n>> /\ cpc'[c] # "pinging"
        /\ cpc[c] \in LivePCs \cup {"off"}
    BY <1>1, <1>8 DEF Connect, ConnectFails, CloseInput, netVars, ClientTypeOK, LivePCs
  <2> QED BY <1>same, <2>1
<1>9. ASSUME StartTyping(c) \/ LockAtEnd(c) PROVE Knows
  <2>1. /\ \E next \in LivePCs \ {"pinging"} : Writes(c, <<lock_msg(Nick[c])>>, s2c[c], next)
        /\ ping_n' = ping_n /\ cpc[c] \in LivePCs
    BY <1>9 DEF StartTyping, LockAtEnd, LivePCs
  <2> QED BY <1>writes, <2>1
<1>10. ASSUME FinishLine(c) PROVE Knows
  <2>1. PICK line \in Script[c][typed[c] + 1], next \in {"leaving", "select"} :
          \/ cpc' = [cpc EXCEPT ![c] = "select"] /\ s2c' = s2c
          \/ Writes(c, parse_cmdline(line, Nick[c]), s2c[c], next)
    BY <1>10 DEF FinishLine
  <2>2. ping_n' = ping_n /\ cpc[c] \in LivePCs /\ next \in LivePCs \ {"pinging"}
    BY <1>10 DEF FinishLine, LivePCs
  <2>3. CASE cpc' = [cpc EXCEPT ![c] = "select"] /\ s2c' = s2c
    BY <1>1, <1>same, <2>2, <2>3 DEF ClientTypeOK
  <2>4. CASE Writes(c, parse_cmdline(line, Nick[c]), s2c[c], next)
    BY <1>writes, <2>2, <2>4
  <2> QED BY <2>1, <2>3, <2>4
<1>11. ASSUME Leave(c) \/ ClientRecvThrows(c) \/ Killed(c) PROVE Knows
  BY <1>1, <1>ends, <1>11 DEF Leave, ClientRecvThrows, Killed, Ends, ClientTypeOK
<1>12. Knows
  BY <1>6, <1>7, <1>8, <1>9, <1>10, <1>11 DEF ClientRuns, UserActs
<1>13. ASSUME PingN >= 1, NEW d \in Clients, cpc'[d] \in LivePCs, ping_n'[d] = -1
       PROVE  Told(d)
  BY <1>2, <1>12, <1>13 DEF JoinOK, StepOf, Apart, Live, LivePCs
<1> HIDE DEF Told
<1>14. \A d \in Clients : /\ ping_n'[d] \in {-1, PingN}
                          /\ cpc'[d] = "pinging" => ping_n'[d] # -1
  BY <1>2, <1>12 DEF JoinOK, StepOf, Apart
<1> QED BY <1>1, <1>3, <1>4, <1>5, <1>13, <1>14, <1>unsent DEF JoinOK, Live, LivePCs, Told

\* The server's loops and the joining of clients.
LEMMA JoinInvariant == Spec => [](IndTypeOK /\ OnePlaceEach /\ InLoop /\ JoinOK)
<1>1. Init => InLoop /\ JoinOK
  BY Contents DEF Init, NetworkInit, ServerInit, ClientInit, InLoop, JoinOK, Live
<1>2. IndTypeOK /\ OnePlaceEach /\ InLoop /\ JoinOK /\ [Next]_vars => InLoop' /\ JoinOK'
  <2> SUFFICES ASSUME IndTypeOK, OnePlaceEach, InLoop, JoinOK, [Next]_vars
               PROVE  InLoop' /\ JoinOK'
    OBVIOUS
  <2>1. CASE ServerNext /\ UNCHANGED clientVars
    BY <2>1, ServerStaysInLoop, ServerKeepsJoin
  <2>2. CASE ClientNext /\ UNCHANGED serverVars
    <3>1. InLoop'
      BY <2>2 DEF InLoop, Indices, serverVars
    <3> QED BY <2>2, <3>1, ClientKeepsJoin DEF ClientNext
  <2>3. CASE UNCHANGED vars
    BY <2>3 DEF vars, netVars, serverVars, clientVars, InLoop, Indices, JoinOK, Live
  <2> QED BY <2>1, <2>2, <2>3 DEF Next
<1> QED
  BY <1>1, <1>2, InitIsTyped, NextKeepsTypes, ConnectionsDistinct, PTL DEF Spec

\* With at least one ping, their number reaches a client before anything else,
\* however the bytes arrive.
THEOREM PingInitFirst ==
    ASSUME PingN >= 1
    PROVE  Spec => []InitPingFirst
<1>1. JoinOK => InitPingFirst
  BY DEF JoinOK, InitPingFirst
<1> QED BY <1>1, JoinInvariant, PTL

-----------------------------------------------------------------------------
(* Whom the server forgets *)

\* Who says goodbye is about to go, and only such a client is to be erased.
LeftOK ==
    /\ \A c \in Clients : \A m \in ToSet(c2s[c]) :
            m.type = "GOODBYE" => cpc[c] \in Departed
    /\ \A a \in 1..Len(delete_idxs) : cpc[Meta(delete_idxs[a])] \in Departed

\* What erasing does: it takes the client at the last index, and the others to
\* be erased stay where they were.
LEMMA EraseTakes ==
    ASSUME IndTypeOK, OnePlaceEach, DispatchOK, Erase
    PROVE  LET L == Len(delete_idxs) IN
           /\ L \in Nat \ {0} /\ delete_idxs[L] \in Indices
           /\ ToSet(client_metas) \subseteq ToSet(client_metas') \cup {Meta(delete_idxs[L])}
           /\ Len(delete_idxs') = L - 1
           /\ \A a \in 1..(L - 1) : Meta(delete_idxs[a])' = Meta(delete_idxs[a])
           /\ UNCHANGED netVars
<1> DEFINE L == Len(delete_idxs)
           e == delete_idxs[L]
           N == Len(client_metas)
<1>1. /\ client_metas \in Seq(Clients) /\ delete_idxs \in Seq(Nat)
      /\ N \in Nat /\ DOMAIN client_metas = 1..N
  BY LenProperties DEF IndTypeOK, TypeOK, ServerTypeOK
<1>2. L \in Nat \ {0} /\ L \in 1..L /\ DOMAIN delete_idxs = 1..L
  BY <1>1, EmptySeq, LenProperties DEF Erase, DispatchOK
<1>3. /\ \A a \in 1..L : delete_idxs[a] \in 0..(N - 1)
      /\ \A a, b \in 1..L : a < b => delete_idxs[a] < delete_idxs[b]
  BY <1>2 DEF DispatchOK, ErasesBackwards, ToSet, Indices
<1>4. e \in Indices /\ Last(delete_idxs) = e
  BY <1>2, <1>3 DEF Indices, Last
<1>5. /\ client_metas' = RemoveAt(client_metas, e + 1)
      /\ delete_idxs' = Front(delete_idxs)
      /\ UNCHANGED netVars
  BY <1>4 DEF Erase
<1>6. /\ Len(delete_idxs') = L - 1
      /\ \A a \in 1..(L - 1) : delete_idxs'[a] = delete_idxs[a]
  <2>1. delete_idxs \in Seq(Nat) /\ Len(delete_idxs) # 0
    BY <1>1, <1>2
  <2>2. /\ Len(Front(delete_idxs)) = Len(delete_idxs) - 1
        /\ \A a \in 1..(Len(delete_idxs) - 1) : Front(delete_idxs)[a] = delete_idxs[a]
    BY <2>1, FrontElements
  <2> QED BY <1>5, <2>2
<1>7. e + 1 \in 1..N /\ e \in Nat
  BY <1>1, <1>2, <1>3
<1>8. /\ DOMAIN client_metas' = 1..(N - 1)
      /\ \A l \in 1..(N - 1) : client_metas'[l] = client_metas[IF l < e + 1 THEN l ELSE l + 1]
  BY <1>1, <1>5, <1>7, RemoveAtElements
<1>9. \A a \in 1..(L - 1) : Meta(delete_idxs[a])' = Meta(delete_idxs[a])
  <2> SUFFICES ASSUME NEW a \in 1..(L - 1)
               PROVE  client_metas'[delete_idxs'[a] + 1] = client_metas[delete_idxs[a] + 1]
    BY DEF Meta
  <2>1. a \in 1..L /\ a < L
    BY <1>2
  <2>2. delete_idxs[a] \in 0..(N - 1) /\ delete_idxs[a] < e
    BY <1>2, <1>3, <2>1
  <2>3. delete_idxs[a] + 1 \in 1..(N - 1) /\ delete_idxs[a] + 1 < e + 1
    <3>1. ASSUME NEW M \in Nat, NEW f \in Nat, NEW d \in 0..(M - 1), d < f, f + 1 \in 1..M
          PROVE  d + 1 \in 1..(M - 1) /\ d + 1 < f + 1
      BY <3>1
    <3>2. N \in Nat /\ e \in Nat /\ e + 1 \in 1..N
      BY <1>1, <1>7
    <3> HIDE DEF L, N, e
    <3> QED BY <3>1, <3>2, <2>2
  <2> HIDE DEF L, N, e
  <2> QED BY <1>6, <1>8, <2>3
<1>10. ASSUME NEW c \in ToSet(client_metas), c # Meta(e) PROVE c \in ToSet(client_metas')
  <2>1. PICK l \in 1..N : c = client_metas[l]
    BY <1>1 DEF ToSet
  <2>2. l # e + 1
    BY <1>10, <2>1 DEF Meta
  <2> HIDE DEF L, N, e
  <2>3. CASE l < e + 1
    <3>1. l \in 1..(N - 1)
      BY <1>1, <1>7, <2>1, <2>3
    <3> QED BY <1>8, <2>1, <2>3, <3>1 DEF ToSet
  <2>4. CASE l > e + 1
    <3>1. l - 1 \in 1..(N - 1) /\ ~(l - 1 < e + 1) /\ (l - 1) + 1 = l
      BY <1>1, <1>7, <2>1, <2>4
    <3> QED BY <1>8, <2>1, <3>1 DEF ToSet
  <2> QED BY <1>7, <2>1, <2>2, <2>3, <2>4
<1> QED BY <1>2, <1>4, <1>5, <1>6, <1>9, <1>10

LEMMA ServerKeepsLeft ==
    ASSUME IndTypeOK, OnePlaceEach, DispatchOK, LeftOK, ServerNext, UNCHANGED clientVars
    PROVE  LeftOK'
<1>1. /\ cpc' = cpc
      /\ \A c \in Clients : \A m \in ToSet(c2s'[c]) :
            m.type = "GOODBYE" => cpc[c] \in Departed
  BY ServerTraffic DEF LeftOK, clientVars
<1>2. CASE UNCHANGED <<client_metas, delete_idxs>>
  BY <1>1, <1>2 DEF LeftOK, Meta
<1>3. ASSUME NEW k \in Indices, NEW buf \in Chunks(c2s[Meta(k)], srvSide[Meta(k)]),
             HandleGoodbye(k, buf)
      PROVE  LeftOK'
  <2>1. classify(buf) = "GOODBYE" /\ delete_idxs' = Append(delete_idxs, k)
        /\ client_metas' = client_metas
    BY <1>3 DEF HandleGoodbye
  <2>2. cpc[Meta(k)] \in Departed
    <3>1. Meta(k) \in Clients /\ c2s[Meta(k)] \in Seq(Msg)
      BY MetaFacts DEF IndTypeOK, TypeOK, NetworkTypeOK
    <3>2. buf \in Seq(Msg) /\ ToSet(buf) \subseteq ToSet(c2s[Meta(k)])
      BY <3>1, ChunkType, ChunkWithin
    <3>3. buf # <<>> /\ Head(buf).type = "GOODBYE"
      BY <2>1 DEF classify
    <3>4. Head(buf) \in ToSet(buf)
      BY <3>2, <3>3, HeadTailProperties, EmptySeq, LenProperties DEF ToSet
    <3> QED BY <3>1, <3>2, <3>3, <3>4 DEF LeftOK
  <2>3. delete_idxs \in Seq(Nat) /\ k \in Nat
    BY MetaFacts DEF IndTypeOK, TypeOK, ServerTypeOK
  <2>4. /\ Len(delete_idxs) \in Nat
        /\ Len(delete_idxs') = Len(delete_idxs) + 1
        /\ \A a \in 1..Len(delete_idxs) : delete_idxs'[a] = delete_idxs[a]
        /\ delete_idxs'[Len(delete_idxs) + 1] = k
    BY <2>1, <2>3, AppendProperties, LenProperties
  <2>5. ASSUME NEW a \in 1..Len(delete_idxs') PROVE cpc[Meta(delete_idxs'[a])] \in Departed
    <3>1. a \in 1..Len(delete_idxs) \/ a = Len(delete_idxs) + 1
      BY <2>4
    <3> QED BY <2>2, <2>4, <3>1 DEF LeftOK
  <2> QED BY <1>1, <2>1, <2>5 DEF LeftOK, Meta
<1>4. ASSUME NEW k \in Indices, Dispatch(k) PROVE LeftOK'
  <2>1. PICK buf \in Chunks(c2s[Meta(k)], srvSide[Meta(k)]) :
          HandleGoodbye(k, buf) \/ UNCHANGED <<client_metas, delete_idxs>>
    BY <1>4 DEF Dispatch, HandleHello, HandleLock, HandleUnlock, HandleWrite,
       HandleCountdown, Discard
  <2> QED BY <1>2, <1>3, <2>1
<1>5. CASE Select
  <2>1. Len(delete_idxs') = 0
    BY <1>5, EmptySeq DEF Select
  <2> QED BY <1>1, <2>1 DEF LeftOK
<1>6. CASE Accept
  <2>1. /\ delete_idxs' = delete_idxs /\ delete_idxs = <<>>
    BY <1>6 DEF Accept, DispatchOK
  <2>2. Len(delete_idxs') = 0
    BY <2>1, EmptySeq
  <2> QED BY <1>1, <2>2 DEF LeftOK
<1>7. CASE Erase
  <2> DEFINE L == Len(delete_idxs)
  <2>1. /\ L \in Nat \ {0} /\ Len(delete_idxs') = L - 1
        /\ \A a \in 1..(L - 1) : Meta(delete_idxs[a])' = Meta(delete_idxs[a])
    BY <1>7, EraseTakes
  <2>2. \A a \in 1..(L - 1) : cpc[Meta(delete_idxs[a])] \in Departed
    BY <2>1 DEF LeftOK
  <2> QED BY <1>1, <2>1, <2>2 DEF LeftOK
<1>8. CASE Send \/ AcceptFails \/ OperatorQuits \/ OperatorMistypes \/ Exit
           \/ RecvThrows \/ Ping \/ Pong \/ PongFails \/ OrderFaults \/ Order
           \/ Unlock \/ DispatchEnds
  BY <1>2, <1>8 DEF Send, AcceptFails, OperatorQuits, OperatorMistypes, Exit, RecvThrows,
     Ping, Pong, PongFails, OrderFaults, Order, Unlock, DispatchEnds
<1> QED BY <1>4, <1>5, <1>6, <1>7, <1>8 DEF ServerNext, ServerActs

LEMMA ClientKeepsLeft ==
    ASSUME RecvMax = 1, IndTypeOK, DispatchOK, LeftOK, NEW c \in Clients,
           ClientRuns(c) \/ UserActs(c), UNCHANGED serverVars
    PROVE  LeftOK'
<1>1. StepOf(c)
  BY ClientTraffic
<1>2. \A d \in Clients : cpc[d] \in Departed => cpc'[d] \in Departed
  BY <1>1 DEF StepOf, Apart, Departed
<1>3. \A d \in Clients : \A m \in ToSet(c2s'[d]) :
        m.type = "GOODBYE" => cpc'[d] \in Departed
  <2>1. \A m : Says(c, m) /\ m.type = "GOODBYE" => cpc'[c] \in Departed
    BY DEF Says, Departed
  <2> QED BY <1>1, <1>2, <2>1 DEF StepOf, Apart, LeftOK
<1>4. ASSUME NEW a \in 1..Len(delete_idxs') PROVE cpc'[Meta(delete_idxs[a])'] \in Departed
  <2>1. /\ UNCHANGED <<client_metas, delete_idxs>> /\ a \in 1..Len(delete_idxs)
        /\ Meta(delete_idxs[a])' = Meta(delete_idxs[a])
    BY DEF serverVars, Meta
  <2>2. delete_idxs[a] \in Indices
    <3>1. DOMAIN delete_idxs = 1..Len(delete_idxs)
      BY LenProperties DEF IndTypeOK, TypeOK, ServerTypeOK
    <3> QED BY <2>1, <3>1 DEF DispatchOK, ErasesBackwards, ToSet
  <2> QED BY <1>2, <2>1, <2>2, MetaFacts DEF LeftOK
<1> QED BY <1>3, <1>4 DEF LeftOK

\* Whoever is to be erased has left.
LEMMA LeftInvariant ==
    ASSUME RecvMax = 1, FewClients
    PROVE  Spec => [](IndTypeOK /\ OnePlaceEach /\ DispatchOK /\ LeftOK)
<1>1. Init => LeftOK
  <2> SUFFICES ASSUME Init PROVE LeftOK
    OBVIOUS
  <2>1. Len(delete_idxs) = 0 /\ \A c \in Clients : ToSet(c2s[c]) = {}
    BY EmptySeq, Contents DEF Init, NetworkInit, ServerInit
  <2> QED BY <2>1 DEF LeftOK
<1>2. IndTypeOK /\ OnePlaceEach /\ DispatchOK /\ LeftOK /\ [Next]_vars => LeftOK'
  <2> SUFFICES ASSUME IndTypeOK, OnePlaceEach, DispatchOK, LeftOK, [Next]_vars
               PROVE  LeftOK'
    OBVIOUS
  <2>1. CASE ServerNext /\ UNCHANGED clientVars
    BY <2>1, ServerKeepsLeft
  <2>2. CASE ClientNext /\ UNCHANGED serverVars
    BY <2>2, ClientKeepsLeft DEF ClientNext
  <2>3. CASE UNCHANGED vars
    BY <2>3 DEF vars, netVars, serverVars, clientVars, LeftOK, Meta
  <2> QED BY <2>1, <2>2, <2>3 DEF Next
<1> QED BY <1>1, <1>2, DispatchInvariant, PTL DEF Spec

\* When every message arrives alone and there are at most PingN + 1 clients, the
\* server erases nobody who has not said goodbye or died.
THEOREM ForgetsOnlyGone ==
    ASSUME RecvMax = 1, FewClients
    PROVE  Spec => ForgetsOnlyTheDeparted
<1>1. IndTypeOK /\ OnePlaceEach /\ DispatchOK /\ LeftOK /\ [Next]_vars
        => [\A c \in ToSet(client_metas) \ ToSet(client_metas') :
                c \notin Live \/ cpc[c] = "leaving"]_vars
  <2> SUFFICES ASSUME IndTypeOK, OnePlaceEach, DispatchOK, LeftOK, Next,
                      NEW c \in ToSet(client_metas) \ ToSet(client_metas')
               PROVE  c \notin Live \/ cpc[c] = "leaving"
    OBVIOUS
  <2>1. ServerNext
    BY DEF Next, serverVars
  <2>2. CASE Erase
    <3> DEFINE L == Len(delete_idxs)
    <3>1. L \in Nat \ {0} /\ c = Meta(delete_idxs[L])
      BY <2>2, EraseTakes
    <3>2. cpc[c] \in Departed
      BY <3>1 DEF LeftOK
    <3> QED BY <3>2 DEF Departed, Live
  <2>3. CASE Accept
    <3>1. client_metas \in Seq(Clients) /\ backlog \in Seq(Clients) /\ backlog # <<>>
      BY <2>3 DEF Accept, IndTypeOK, TypeOK, ServerTypeOK, NetworkTypeOK
    <3>2. Head(backlog) \in Clients /\ Head(backlog) \notin ToSet(client_metas)
      BY <3>1, TailDistinct, HeadTailProperties DEF OnePlaceEach
    <3>3. ToSet(client_metas') = ToSet(client_metas) \cup {Head(backlog)}
      BY <2>3, <3>1, <3>2, AppendDistinct DEF Accept, OnePlaceEach
    <3> QED BY <3>3
  <2>4. CASE ~Erase /\ ~Accept
    <3>1. UNCHANGED client_metas
      BY <2>1, <2>4 DEF ServerNext, ServerActs, Send, Select, AcceptFails, OperatorQuits,
         OperatorMistypes, Exit, RecvThrows, Dispatch, HandleHello, HandleGoodbye,
         HandleLock, HandleUnlock, HandleWrite, HandleCountdown, Discard, Ping, Pong,
         PongFails, OrderFaults, Order, Unlock, DispatchEnds
    <3> QED BY <3>1
  <2> QED BY <2>2, <2>3, <2>4
<1> QED
  BY <1>1, LeftInvariant, PTL DEF Spec, ForgetsOnlyTheDeparted

-----------------------------------------------------------------------------
(* Why the server dies *)

LEMMA CrashExplained ==
    ASSUME IndTypeOK, OnePlaceEach, InLoop, JoinOK, DispatchOK, ServerNext,
           spc' = "crashed"
    PROVE  \E c \in ToSet(client_metas) :
              \/ cpc[c] \in {"exited", "crashed"} /\ srvSide[c] \in {"reset", "broken"}
              \/ spc = "order" /\ rtts[c] = 0
<1> DEFINE Cause == \E c \in ToSet(client_metas) :
              \/ cpc[c] \in {"exited", "crashed"} /\ srvSide[c] \in {"reset", "broken"}
              \/ spc = "order" /\ rtts[c] = 0
<1>1. /\ client_metas \in Seq(Clients) /\ cpc \in [Clients -> ClientPCs]
      /\ \A k \in Indices : Meta(k) \in ToSet(client_metas) /\ Meta(k) \in Clients
  BY MetaFacts DEF IndTypeOK, TypeOK, ServerTypeOK, ClientTypeOK
<1>shut. ASSUME NEW k \in Indices, srvSide[Meta(k)] \in {"reset", "broken"} PROVE Cause
  <2>1. cpc[Meta(k)] # "off" /\ Meta(k) \notin Live
    BY <1>1, <1>shut DEF OnePlaceEach, JoinOK
  <2>2. cpc[Meta(k)] \in {"exited", "crashed"}
    BY <1>1, <2>1 DEF Live, ClientPCs
  <2> QED BY <1>1, <1>shut, <2>2
<1>broken. ASSUME NEW T \in SUBSET Indices, Broken(T) # {} PROVE Cause
  BY <1>broken, <1>shut DEF Broken
<1>writes. ASSUME NEW T \in SUBSET Indices, NEW buf, NEW pending,
                  NEW next \in ServerPCs \ {"crashed"}, WriteAll(T, buf, pending, next)
           PROVE  Cause
  <2>1. \E W, V \in SUBSET Metas(T) : \/ WriteSucceeds(T, V, buf, pending, next)
                                     \/ WriteKills(T, W, buf, pending)
    BY <1>writes, WriteAllCases
  <2>2. Broken(T) # {}
    BY <2>1 DEF WriteSucceeds, WriteKills
  <2> QED BY <1>broken, <2>2
<1>2. CASE Send
  <2>1. PICK Later : SendSucceeds(Later) \/ SendKills(Later)
    BY <1>1, <1>2, SendCases
  <2>2. Broken(Indices) # {}
    BY <2>1, ServerLives DEF SendSucceeds, SendKills
  <2> QED BY <1>broken, <2>2
<1>3. CASE RecvThrows
  BY <1>3, <1>shut DEF RecvThrows, RecvFails
<1>4. ASSUME NEW k \in Indices, Dispatch(k) PROVE Cause
  <2>1. PICK buf : \/ HandleHello(k, buf) \/ HandleGoodbye(k, buf)
                   \/ HandleLock(k, buf)  \/ HandleUnlock(k, buf)
                   \/ HandleWrite(k, buf) \/ HandleCountdown(k, buf)
                   \/ Discard(k, buf)
    BY <1>4 DEF Dispatch
  <2>2. ~HandleCountdown(k, buf) /\ ~Discard(k, buf)
    BY DEF HandleCountdown, Discard, Received, NextIndex
  <2>3. \E next \in {"scan", "unlock"} :
          WriteAll(Indices \ {k}, buf, Rest(k, buf), next)
    BY <2>1, <2>2 DEF HandleHello, HandleGoodbye, HandleLock, HandleUnlock, HandleWrite,
       Relay, broadcast
  <2> QED BY <1>writes, <2>3 DEF ServerPCs
<1>5. CASE Ping \/ Order
  <2>1. j \in Indices
    BY <1>5 DEF Ping, Order, InLoop
  <2>2. \E buf : \E next \in {"pong", "order", "unlock"} : WriteAll({j}, buf, c2s, next)
    BY <1>5 DEF Ping, Order, WriteOne
  <2> QED BY <1>writes, <2>1, <2>2 DEF ServerPCs
<1>6. CASE OrderFaults
  BY <1>1, <1>6 DEF OrderFaults, InLoop
<1>7. CASE Unlock \/ OperatorQuits
  <2>1. \E buf : \E next \in {"scan", "closing"} : WriteAll(Indices \ {-1}, buf, c2s, next)
    BY <1>7 DEF Unlock, OperatorQuits, broadcast
  <2> QED BY <1>writes, <2>1 DEF ServerPCs
\* The index erased is one of client_metas.
<1>8. ~Erase
  <2> SUFFICES ASSUME Erase PROVE FALSE
    OBVIOUS
  <2>1. Last(delete_idxs) \in Indices
    BY EraseTakes DEF Last
  <2> QED BY <2>1 DEF Erase
<1>9. ~(Select \/ Accept \/ AcceptFails \/ OperatorMistypes \/ Exit \/ Pong
          \/ PongFails \/ DispatchEnds)
  BY DEF Select, Phase, Accept, AcceptFails, OperatorMistypes, Exit, Pong, PongFails,
     NextExchange, DispatchEnds
<1> QED
  BY <1>2, <1>3, <1>4, <1>5, <1>6, <1>7, <1>8, <1>9 DEF ServerNext, ServerActs

\* With at most PingN + 1 clients, whatever the users do and however the bytes
\* arrive, the server only dies while it still has a client that has ended
\* with its connection reset, or of an order to a client it has no round trip
\* of: not of clients that said goodbye and were erased, nor of an index.
THEOREM DeathExplained ==
    ASSUME FewClients
    PROVE  Spec => CrashHasACause
<1>1. /\ IndTypeOK /\ OnePlaceEach /\ DispatchOK /\ InLoop /\ JoinOK /\ [Next]_vars
      => [spc # "crashed" /\ spc' = "crashed" =>
            \E c \in ToSet(client_metas) :
                \/ cpc[c] \in {"exited", "crashed"} /\ srvSide[c] \in {"reset", "broken"}
                \/ spc = "order" /\ rtts[c] = 0]_vars
  <2> SUFFICES ASSUME IndTypeOK, OnePlaceEach, DispatchOK, InLoop, JoinOK, Next,
                      spc # "crashed", spc' = "crashed"
               PROVE  \E c \in ToSet(client_metas) :
                        \/ /\ cpc[c] \in {"exited", "crashed"}
                           /\ srvSide[c] \in {"reset", "broken"}
                        \/ spc = "order" /\ rtts[c] = 0
    OBVIOUS
  <2>1. ServerNext
    BY DEF Next, serverVars
  <2> QED BY <2>1, CrashExplained
<1> QED
  BY <1>1, DispatchInvariant, JoinInvariant, PTL DEF Spec, CrashHasACause
=============================================================================
