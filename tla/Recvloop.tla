------------------------------ MODULE Recvloop ------------------------------
(***************************************************************************)
(* recvloop at the grain of bytes: one reader of a socket on which whole   *)
(* messages arrive in whatever pieces TCP makes of them.  A byte is "text" *)
(* or the "newline" that ends a message.  The peer stays connected.        *)
(***************************************************************************)
EXTENDS Integers, Sequences, SequencesExt

CONSTANTS
    MAX_MSGLEN,
    MaxMessages    \* bound: how many messages are sent

ASSUME RecvloopAssumption == MAX_MSGLEN \in Nat \ {0, 1} /\ MaxMessages \in Nat

VARIABLES
    unsent,      \* messages still to be written by the peer
    stream,      \* bytes on their way
    arrived,     \* how many of them the kernel has
    rpc,         \* "idle", in "recv" or at the "test" of the loop, or "thrown"
    buf,         \* the bytes from buf[0] on; what follows is 0
    beyond,      \* whether the byte after the buffer happens to be 0
    sent,        \* history: every byte written
    returned     \* history: the bytes of all buffers returned

vars == <<unsent, stream, arrived, rpc, buf, beyond, sent, returned>>

\* validate_wrap lets a message of n bytes through.
ValidLength(n) == n <= MAX_MSGLEN

Bytes == {"text", "newline"}

Message(n) == [k \in 1..n |-> IF k = n THEN "newline" ELSE "text"]

Init ==
    /\ unsent = MaxMessages
    /\ stream = <<>> /\ arrived = 0
    /\ rpc = "idle"
    /\ buf = <<>>
    /\ beyond \in {"zero", "other"}
    /\ sent = <<>>
    /\ returned = <<>>

Send ==
    /\ unsent > 0
    /\ \E n \in 2..MAX_MSGLEN :
        /\ ValidLength(n)
        /\ stream' = stream \o Message(n)
        /\ sent' = sent \o Message(n)
    /\ unsent' = unsent - 1
    /\ UNCHANGED <<arrived, rpc, buf, beyond, returned>>

\* Any number of further bytes reaches the kernel at once.
Arrive ==
    /\ arrived < Len(stream)
    /\ arrived' \in arrived + 1..Len(stream)
    /\ UNCHANGED <<unsent, stream, rpc, buf, beyond, sent, returned>>

\* Mutant: the buffer is not emptied between two calls.
Cleared_Not == buf

\* "since the buffers may be reused, zero it out between"
Cleared == <<>>

\* select has reported the socket.
Call ==
    /\ rpc = "idle"
    /\ arrived > 0
    /\ buf' = Cleared
    /\ rpc' = "recv"
    /\ UNCHANGED <<unsent, stream, arrived, beyond, sent, returned>>

\* Mutant: the check is off by one.
TooLong_Late(n) == n > MAX_MSGLEN + 1

\* length_error
TooLong(n) == n > MAX_MSGLEN

\* recv(fd, buf + buf_ptr, MAX_MSGLEN, 0): it may write past the buffer, which
\* is looked at only afterwards.
Recv ==
    /\ rpc = "recv"
    /\ arrived > 0
    /\ LET count == IF arrived < MAX_MSGLEN THEN arrived ELSE MAX_MSGLEN IN
        /\ buf' = buf \o SubSeq(stream, 1, count)
        /\ stream' = SubSeq(stream, count + 1, Len(stream))
        /\ arrived' = arrived - count
        /\ rpc' = IF TooLong(Len(buf) + count) THEN "thrown" ELSE "test"
    /\ UNCHANGED <<unsent, beyond, sent, returned>>

\* Mutant: only a newline ends the loop.
Again_Newline == Last(buf) # "newline"

\* while (buf[buf_ptr-1] != '\n' && buf[buf_ptr] != '\0'): inside the buffer the
\* second byte is 0, and the loop ends after one turn.
Again == /\ Last(buf) # "newline"
         /\ Len(buf) = MAX_MSGLEN /\ beyond = "other"

Test ==
    /\ rpc = "test"
    /\ IF Again
       THEN rpc' = "recv" /\ returned' = returned
       ELSE rpc' = "idle" /\ returned' = returned \o buf
    /\ UNCHANGED <<unsent, stream, arrived, buf, beyond, sent>>

Next == Send \/ Arrive \/ Call \/ Recv \/ Test

Spec == Init /\ [][Next]_vars

-----------------------------------------------------------------------------
(* Properties *)

TypeOK ==
    /\ unsent \in 0..MaxMessages
    /\ arrived \in 0..Len(stream)
    /\ rpc \in {"idle", "recv", "test", "thrown"}
    /\ rpc # "thrown" => Len(buf) <= MAX_MSGLEN
    /\ \A b \in {stream, buf, sent, returned} : b \in Seq(Bytes)
    /\ beyond \in {"zero", "other"}

\* The buffers returned are the bytes that were sent, in order and without a
\* gap, wherever TCP cut them; what a call has received and not returned yet
\* comes next.
Held == IF rpc = "idle" THEN <<>> ELSE buf

BytesInOrder == sent = returned \o Held \o stream

\* Bytes are received past the end of the buffer only when the buffer was full,
\* did not end a message, and the byte after it was not 0.
OverrunHasACause ==
    rpc = "thrown" => beyond = "other" /\ buf[MAX_MSGLEN] = "text"
=============================================================================
