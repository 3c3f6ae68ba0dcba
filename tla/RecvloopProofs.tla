--------------------------- MODULE RecvloopProofs ---------------------------
(***************************************************************************)
(* recvloop neither loses nor reorders a byte, for every MAX_MSGLEN, every *)
(* number of messages and every way TCP cuts them.                         *)
(***************************************************************************)
EXTENDS Recvloop, SequenceTheorems, TLAPS

\* A second turn of the loop starts with a full buffer that ends no message.
Inv ==
    /\ TypeOK
    /\ rpc = "recv" => \/ buf = <<>>
                       \/ /\ Len(buf) = MAX_MSGLEN
                          /\ buf[MAX_MSGLEN] = "text"
                          /\ beyond = "other"
    /\ rpc = "test" => buf # <<>>
    /\ OverrunHasACause
    /\ BytesInOrder

\* A message is a sequence of bytes (validate_wrap: one newline, at the end).
LEMMA MessageBytes == ASSUME NEW n \in Nat PROVE Message(n) \in Seq(Bytes)
  BY SMT DEF Message, Bytes

\* Buffers can be joined in any order of grouping.
LEMMA Grouping ==
    ASSUME NEW s \in Seq(Bytes), NEW t \in Seq(Bytes), NEW u \in Seq(Bytes)
    PROVE  (s \o t) \o u = s \o (t \o u)
  BY SMT

\* What recv takes and what it leaves make up the stream.
LEMMA TakenAndLeft ==
    ASSUME NEW s \in Seq(Bytes), NEW m \in 0..Len(s)
    PROVE  SubSeq(s, 1, m) \o SubSeq(s, m + 1, Len(s)) = s
  <1>1. 1 \in 1..Len(s) + 1 /\ m \in (1 - 1)..Len(s) /\ Len(s) \in m..Len(s)
    BY LenProperties, SMT
  <1>2. SubSeq(s, 1, m) \o SubSeq(s, m + 1, Len(s)) = SubSeq(s, 1, Len(s))
    BY <1>1, ConcatAdjacentSubSeq, Zenon
  <1>3. QED
    BY <1>2, SubSeqFull

\* Nothing is sent or received before the first step.
LEMMA InitInv == Init => Inv
  <1> SUFFICES ASSUME Init PROVE Inv
    OBVIOUS
  <1>1. <<>> \in Seq(Bytes) /\ <<>> \o <<>> \o <<>> = <<>>
    BY EmptySeq, ConcatEmptySeq
  <1>2. TypeOK
    BY <1>1, RecvloopAssumption, SMT DEF Init, TypeOK
  <1>3. BytesInOrder
    BY <1>1, Zenon DEF Init, BytesInOrder, Held
  <1>4. QED
    BY <1>2, <1>3, Zenon DEF Init, Inv, OverrunHasACause

\* A message that is written goes to the end of the stream.
LEMMA SendInv == ASSUME Inv, Send PROVE Inv'
  <1>1. PICK n \in 2..MAX_MSGLEN : /\ stream' = stream \o Message(n)
                                   /\ sent' = sent \o Message(n)
    BY Zenon DEF Send
  <1>2. Message(n) \in Seq(Bytes)
    BY MessageBytes, RecvloopAssumption, SMT
  <1>3. /\ stream \in Seq(Bytes) /\ sent \in Seq(Bytes) /\ buf \in Seq(Bytes)
        /\ returned \in Seq(Bytes)
    BY DEF Inv, TypeOK
  <1>4. /\ stream' \in Seq(Bytes) /\ sent' \in Seq(Bytes)
        /\ Len(stream') = Len(stream) + Len(Message(n))
    BY <1>1, <1>2, <1>3, ConcatProperties
  <1>5. UNCHANGED <<arrived, rpc, buf, beyond, returned>> /\ unsent' = unsent - 1 /\ unsent > 0
    BY Zenon DEF Send
  <1>6. TypeOK'
    <2>1. Len(Message(n)) \in Nat /\ Len(stream) \in Nat
      BY <1>2, <1>3, LenProperties
    <2>2. arrived' \in 0..Len(stream')
      BY <1>4, <1>5, <2>1, SMT DEF Inv, TypeOK
    <2>3. unsent' \in 0..MaxMessages
      BY <1>5, RecvloopAssumption, SMT DEF Inv, TypeOK
    <2>4. QED
      BY <1>3, <1>4, <1>5, <2>2, <2>3, Zenon DEF Inv, TypeOK
  <1>7. BytesInOrder'
    <2>1. Held' = Held /\ Held \in Seq(Bytes)
      BY <1>3, <1>5, EmptySeq, Zenon DEF Held
    <2>2. returned \o Held \in Seq(Bytes)
      BY <1>3, <2>1, ConcatProperties
    <2>3. (returned \o Held \o stream) \o Message(n) = returned \o Held \o (stream \o Message(n))
      BY <1>2, <1>3, <2>2, Grouping
    <2>4. QED
      BY <1>1, <1>5, <2>1, <2>3, Zenon DEF Inv, BytesInOrder
  <1>8. QED
    BY <1>5, <1>6, <1>7, Zenon DEF Inv, OverrunHasACause

\* recv takes the next bytes of the stream and appends them to the buffer; a
\* buffer that was full is then too long.
LEMMA RecvInv == ASSUME Inv, Recv PROVE Inv'
  <1> DEFINE count == IF arrived < MAX_MSGLEN THEN arrived ELSE MAX_MSGLEN
             taken == SubSeq(stream, 1, count)
             left == SubSeq(stream, count + 1, Len(stream))
  <1>1. /\ rpc = "recv" /\ arrived > 0
        /\ buf' = buf \o taken /\ stream' = left /\ arrived' = arrived - count
        /\ rpc' = IF TooLong(Len(buf) + count) THEN "thrown" ELSE "test"
        /\ UNCHANGED <<unsent, beyond, sent, returned>>
    BY Zenon DEF Recv
  <1>2. /\ stream \in Seq(Bytes) /\ sent \in Seq(Bytes) /\ buf \in Seq(Bytes)
        /\ returned \in Seq(Bytes)
    BY DEF Inv, TypeOK
  <1>3. /\ Len(stream) \in Nat /\ Len(buf) \in Nat
        /\ arrived \in 0..Len(stream)
        /\ count \in 1..MAX_MSGLEN /\ count <= arrived /\ count <= Len(stream)
    BY <1>1, <1>2, LenProperties, RecvloopAssumption, SMT DEF Inv, TypeOK
  <1> HIDE DEF count
  <1>4. /\ taken \in Seq(Bytes) /\ left \in Seq(Bytes)
        /\ Len(taken) = count /\ Len(left) = Len(stream) - count
        /\ taken \o left = stream
    <2>1. \A i \in 1..Len(stream) : stream[i] \in Bytes
      BY <1>2, ElementOfSeq
    <2>2. taken \in Seq(Bytes) /\ Len(taken) = count
      BY <1>3, <2>1, SubSeqProperties, SMT
    <2>3. left \in Seq(Bytes) /\ Len(left) = Len(stream) - count
      BY <1>3, <2>1, SubSeqProperties, SMT
    <2>4. count \in 0..Len(stream)
      BY <1>3, SMT
    <2>5. taken \o left = stream
      BY <1>2, <2>4, TakenAndLeft, Zenon
    <2>6. QED
      BY <2>2, <2>3, <2>5
  <1> HIDE DEF taken, left
  <1>5. /\ buf' \in Seq(Bytes) /\ Len(buf') = Len(buf) + count
        /\ \A i \in 1..Len(buf) : buf'[i] = buf[i]
    <2>1. /\ buf \o taken \in Seq(Bytes)
          /\ Len(buf \o taken) = Len(buf) + Len(taken)
          /\ \A i \in 1..Len(buf) + Len(taken) :
                (buf \o taken)[i] = IF i <= Len(buf) THEN buf[i] ELSE taken[i - Len(buf)]
      BY <1>2, <1>4, ConcatProperties
    <2>2. QED
      BY <1>1, <1>3, <1>4, <2>1, SMT
  <1>6. TypeOK'
    <2>1. arrived' \in 0..Len(stream')
      BY <1>1, <1>3, <1>4, SMT
    <2>2. /\ rpc' \in {"idle", "recv", "test", "thrown"}
          /\ rpc' # "thrown" => Len(buf') <= MAX_MSGLEN
      BY <1>1, <1>3, <1>5, RecvloopAssumption, SMT DEF TooLong
    <2>3. QED
      BY <1>1, <1>2, <1>4, <1>5, <2>1, <2>2, Zenon DEF Inv, TypeOK
  <1>7. BytesInOrder'
    <2>1. Held = buf /\ Held' = buf'
      BY <1>1, SMT DEF Held
    <2>2. returned \o buf \in Seq(Bytes)
      BY <1>2, ConcatProperties
    <2>3. returned \o (buf \o taken) = (returned \o buf) \o taken
      <3>1. returned \in Seq(Bytes) /\ buf \in Seq(Bytes) /\ taken \in Seq(Bytes)
        BY <1>2, <1>4
      <3> QED BY ONLY <3>1, Grouping
    <2>4. ((returned \o buf) \o taken) \o left = (returned \o buf) \o (taken \o left)
      <3>1. taken \in Seq(Bytes) /\ left \in Seq(Bytes)
        BY <1>4
      <3> QED BY ONLY <2>2, <3>1, Grouping
    <2>5. QED
      BY <1>1, <1>4, <2>1, <2>3, <2>4, Zenon DEF Inv, BytesInOrder
  <1>8. OverrunHasACause'
    <2>1. SUFFICES ASSUME TooLong(Len(buf) + count)
                   PROVE  beyond' = "other" /\ buf'[MAX_MSGLEN] = "text"
      <3>1. rpc' = "thrown" => TooLong(Len(buf) + count)
        BY <1>1, Zenon
      <3>2. QED
        BY <3>1, Zenon DEF OverrunHasACause
    <2>2. buf # <<>>
      BY <1>3, <2>1, EmptySeq, RecvloopAssumption, SMT DEF TooLong
    <2>3. QED
      BY <1>1, <1>3, <1>5, <2>2, RecvloopAssumption, SMT DEF Inv
  <1>9. rpc' # "recv" /\ buf' # <<>>
    BY <1>1, <1>3, <1>5, EmptySeq, SMT
  <1>10. QED
    BY <1>6, <1>7, <1>8, <1>9 DEF Inv

\* The test hands the buffer out, or goes on with a full one.
LEMMA TestInv == ASSUME Inv, Test PROVE Inv'
  <1>1. /\ stream \in Seq(Bytes) /\ buf \in Seq(Bytes) /\ returned \in Seq(Bytes)
    BY DEF Inv, TypeOK
  <1>2. rpc = "test" /\ UNCHANGED <<unsent, stream, arrived, buf, beyond, sent>>
    BY Zenon DEF Test
  <1>3. CASE Again
    <2>1. rpc' = "recv" /\ returned' = returned
      BY <1>3, Zenon DEF Test
    <2>2. Len(buf) = MAX_MSGLEN /\ buf[MAX_MSGLEN] # "newline" /\ beyond = "other"
      BY <1>3 DEF Again, Last
    <2>3. buf[MAX_MSGLEN] = "text"
      <3>1. MAX_MSGLEN \in 1..Len(buf)
        BY <2>2, RecvloopAssumption, SMT
      <3>2. buf[MAX_MSGLEN] \in Bytes
        BY <1>1, <3>1, ElementOfSeq
      <3>3. QED
        BY <2>2, <3>2 DEF Bytes
    <2>4. TypeOK'
      BY <1>2, <2>1, SMT DEF Inv, TypeOK
    <2>5. Held' = Held
      BY <1>2, <2>1, SMT DEF Held
    <2>6. QED
      BY <1>2, <2>1, <2>2, <2>3, <2>4, <2>5, SMT DEF Inv, BytesInOrder, OverrunHasACause
  <1>4. CASE ~Again
    <2>1. rpc' = "idle" /\ returned' = returned \o buf
      BY <1>4, Zenon DEF Test
    <2>2. returned' \in Seq(Bytes)
      BY <1>1, <2>1, ConcatProperties
    <2>3. TypeOK'
      BY <1>2, <2>1, <2>2, SMT DEF Inv, TypeOK
    <2>4. Held = buf /\ Held' = <<>>
      BY <1>2, <2>1, SMT DEF Held
    <2>5. returned' \o <<>> = returned'
      BY <2>2, ConcatEmptySeq
    <2>6. BytesInOrder'
      BY <1>2, <2>1, <2>4, <2>5, Zenon DEF Inv, BytesInOrder
    <2>7. QED
      BY <2>1, <2>3, <2>6, SMT DEF Inv, OverrunHasACause
  <1>5. QED
    BY <1>3, <1>4

\* Every step keeps Inv.
LEMMA StepInv == ASSUME Inv, [Next]_vars PROVE Inv'
  <1>1. CASE Send
    BY <1>1, SendInv
  <1>2. CASE Arrive
    <2>1. TypeOK'
      BY <1>2, SMT DEF Arrive, Inv, TypeOK
    <2>2. QED
      BY <1>2, <2>1, Zenon DEF Arrive, Inv, BytesInOrder, Held, OverrunHasACause
  <1>3. CASE Call
    <2>1. /\ rpc = "idle" /\ rpc' = "recv" /\ buf' = <<>>
          /\ UNCHANGED <<unsent, stream, arrived, beyond, sent, returned>>
      BY <1>3, Zenon DEF Call, Cleared
    <2>2. TypeOK'
      <3>1. <<>> \in Seq(Bytes) /\ Len(<<>>) = 0
        BY EmptySeq
      <3>2. QED
        BY <2>1, <3>1, RecvloopAssumption, SMT DEF Inv, TypeOK
    <2>3. BytesInOrder'
      BY <2>1, SMT DEF Inv, BytesInOrder, Held
    <2>4. QED
      BY <2>1, <2>2, <2>3, SMT DEF Inv, OverrunHasACause
  <1>4. CASE Recv
    BY <1>4, RecvInv
  <1>5. CASE Test
    BY <1>5, TestInv
  <1>6. CASE UNCHANGED vars
    BY <1>6, Zenon DEF vars, Inv, TypeOK, BytesInOrder, Held, OverrunHasACause
  <1>7. QED
    BY <1>1, <1>2, <1>3, <1>4, <1>5, <1>6 DEF Next

\* While recvloop has not thrown it stays inside its buffer, and it never counts
\* more bytes as arrived than were sent (recvloop, the recv at buf + n).
THEOREM StaysInBuffer == Spec => []TypeOK
  <1>1. Inv => TypeOK
    BY DEF Inv
  <1>2. QED
    BY InitInv, StepInv, <1>1, PTL DEF Spec

\* What recvloop has returned and holds, and what is still under way, is what
\* was sent (recvloop, the while loop around recv).
THEOREM NoByteLost == Spec => []BytesInOrder
  <1>1. Inv => BytesInOrder
    BY DEF Inv
  <1>2. QED
    BY InitInv, StepInv, <1>1, PTL DEF Spec

\* The length_error of recvloop has one cause, a full buffer that ends in the
\* middle of a message with a byte other than 0 after it.
THEOREM OverrunOnlyFull == Spec => []OverrunHasACause
  <1>1. Inv => OverrunHasACause
    BY DEF Inv
  <1>2. QED
    BY InitInv, StepInv, <1>1, PTL DEF Spec
=============================================================================
