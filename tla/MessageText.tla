----------------------------- MODULE MessageText -----------------------------
(***************************************************************************)
(* What becomes of the words of a line on their way from one user's        *)
(* keyboard to the others' loudspeakers: the client parses the line and    *)
(* formats a message, the server parses that and relays it or formats an   *)
(* order, and each client makes a command for the speech program of it.    *)
(* The command goes through the shell, which is external: it is only known *)
(* to leave alone the words that mean nothing to it.                       *)
(* A text is the sequence of its words; a parser or formatter returns the  *)
(* set of its results, which is empty when it throws.                      *)
(***************************************************************************)
EXTENDS Integers, Sequences, SequencesExt, TLC

CONSTANTS
    Words,       \* the words a user may type
    Value,       \* Value[w]: the number that >> finds at the start of w
    Unfit,       \* words that contain a newline or fill a message up
    Special,     \* words that mean something to the shell, or to say: those with
                 \* an apostrophe, and those with a dash in front
    Nicknames,   \* texts given as nicknames
    MaxWords     \* bound: the length of a line

\* A number written out is a short word, in which the same number is found; and
\* so are the other words that the program itself puts into a message.
ASSUME MessageTextAssumption ==
    /\ DOMAIN Value \subseteq STRING /\ \A w \in DOMAIN Value : Value[w] \in Int
    /\ \A w \in DOMAIN Value : \A n \in {Value[w]} \cup 0..Value[w] :
          /\ ToString(n) \in DOMAIN Value \ Unfit
          /\ Value[ToString(n)] = n
          /\ n >= 0 => ToString(n) \notin Special
    /\ "play" \notin Special
    /\ Unfit \cap {"write", "countdown_n", "countdown_order", "delay"} = {}
    /\ Nicknames \subseteq Seq(STRING)
    /\ MaxWords \in Nat

DEFAULT_COUNTDOWN_N == 3

VARIABLES
    stage,       \* "typed", "sent", "served", "spoken" or "dropped"
    nickname,    \* of the client that sends
    line,        \* what its user typed
    msg,         \* the message under way
    command,     \* the words that the clients' command lines have say speak
    said         \* said[k]: what is spoken by the computers of kind k

vars == <<stage, nickname, line, msg, command, said>>

\* The computer of the client that sends, and the other clients'.
Computers == {"own", "others"}

Lines == UNION {[1..n -> Words] : n \in 0..MaxWords}

Init ==
    /\ stage = "typed"
    /\ nickname \in Nicknames
    /\ line \in Lines
    /\ msg = <<>>
    /\ command = <<>>
    /\ said = [k \in Computers |-> <<>>]

-----------------------------------------------------------------------------
(* Formatting *)

\* The code looks for one name after the other at the front of the text.  On the
\* way here the first word is never longer than the name it begins with
\* ("hello_ack" would be a HELLO), so that it alone decides.
Kinds == [hello |-> "HELLO", goodbye |-> "GOODBYE", lock |-> "PEER_LOCK",
          unlock |-> "PEER_UNLOCK", write |-> "WRITE_ARBITRARY",
          countdown_n |-> "COUNTDOWN_N", countdown_order |-> "COUNTDOWN_ORDER",
          countdown_interrupt |-> "COUNTDOWN_INTERRUPT", init_ping |-> "PING_INIT",
          ping |-> "PING", shutdown |-> "SHUTDOWN"]

classify(text) ==
    IF text # <<>> /\ Head(text) \in DOMAIN Kinds THEN Kinds[Head(text)] ELSE "MALFORMED"

\* Mutant: nothing is checked.
validate_wrap_Not(text) == {text}

\* A message has a known kind, one newline, at its end, and a bounded length.
validate_wrap(text) ==
    IF classify(text) = "MALFORMED" \/ ToSet(text) \cap Unfit # {} THEN {} ELSE {text}

goodbye_msg(nick) == validate_wrap(<<"goodbye">> \o nick)

write_msg(arg) == validate_wrap(<<"write">> \o arg)

countdown_n_msg(n) == validate_wrap(<<"countdown_n", ToString(n)>>)

countdown_order_msg(n) == validate_wrap(<<"countdown_order", ToString(n), "delay">>)

-----------------------------------------------------------------------------
(* Parsing *)

\* iss >> n: unchanged if nothing is left, and 0 if no number follows.
Extract(n, rest) ==
    IF rest = <<>> THEN n
    ELSE IF Head(rest) \in DOMAIN Value THEN Value[Head(rest)] ELSE 0

\* The first word is the only one that decides.
parse_cmdline ==
    IF line = <<>> THEN {}
    ELSE CASE Head(line) \in {"q", "quit", "exit"} -> goodbye_msg(nickname)
           [] Head(line) = "countdown" ->
                countdown_n_msg(Extract(DEFAULT_COUNTDOWN_N, Tail(line)))
           [] Head(line) \in {"write", "w"} -> write_msg(Tail(line))
           [] OTHER -> {}

\* "the negative is the way the error is detected"
NonNegative(n) == IF n < 0 THEN {} ELSE {n}

parse_unary_int(target, text) ==
    IF Head(text) # target THEN {} ELSE NonNegative(Extract(-1, Tail(text)))

\* Mutant: the words after the first are lost.
parse_write_msg_One(text) == IF Len(text) > 1 THEN <<text[2]>> ELSE <<>>

parse_write_msg(text) == Tail(text)

\* Mutant: it counts to 0.
format_say_countdown_ToZero(n) == [k \in 1..n + 1 |-> ToString(n + 1 - k)] \o <<"play">>

\* One number after the other, the sleeps left out.
format_say_countdown(n) == [k \in 1..n |-> ToString(n + 1 - k)] \o <<"play">>

\* What a client's command line has say speak: format_say_raw puts the text behind
\* "say" as it is.
Command(text) ==
    CASE classify(text) = "WRITE_ARBITRARY" -> parse_write_msg(text)
      [] classify(text) = "COUNTDOWN_ORDER" ->
            format_say_countdown(Extract(0, Tail(text)))
      [] classify(text) = "GOODBYE" -> <<>>

\* What std::system makes of a command: words that mean something may have all of
\* it refused, or something else said.
Shell(words) ==
    IF ToSet(words) \cap Special = {} THEN {words} ELSE {<<>>, <<"something else">>}

-----------------------------------------------------------------------------

\* The client writes what parse_cmdline made of the line, or nothing.
Send ==
    /\ stage = "typed"
    /\ \/ msg' \in parse_cmdline /\ stage' = "sent"
       \/ parse_cmdline = {} /\ stage' = "dropped" /\ msg' = msg
    /\ UNCHANGED <<nickname, line, command, said>>

\* The server: a write and a goodbye are relayed, a countdown becomes orders.
Serve ==
    /\ stage = "sent"
    /\ \/ /\ classify(msg) \in {"WRITE_ARBITRARY", "GOODBYE"}
          /\ stage' = "served" /\ msg' = msg
       \/ /\ classify(msg) = "COUNTDOWN_N"
          /\ LET n == parse_unary_int("countdown_n", msg) IN
             \/ \E k \in n : msg' \in countdown_order_msg(k) /\ stage' = "served"
             \/ n = {} /\ stage' = "dropped" /\ msg' = msg
    /\ UNCHANGED <<nickname, line, command, said>>

\* An order goes to all clients, what is relayed to all but the one it is from.
Speak ==
    /\ stage = "served"
    /\ command' = Command(msg)
    /\ \E heard \in Shell(command') :
        said' = [others |-> heard,
                 own |-> IF classify(msg) = "COUNTDOWN_ORDER" THEN heard ELSE <<>>]
    /\ stage' = "spoken"
    /\ UNCHANGED <<nickname, line, msg>>

Next == Send \/ Serve \/ Speak

Spec == Init /\ [][Next]_vars

-----------------------------------------------------------------------------
(* Properties *)

Writing == line # <<>> /\ Head(line) \in {"write", "w"}

\* A write reaches the others' command lines word for word, and is said word for
\* word unless one of the words means something to the shell; one that does not
\* fit into a message is dropped where it was typed, not cut short on the way.
WritesSaid ==
    Writing =>
        /\ stage = "spoken" =>
              /\ command = Tail(line)
              /\ ToSet(Tail(line)) \cap Special = {} => said["others"] = Tail(line)
        /\ stage = "dropped" => ToSet(Tail(line)) \cap Unfit # {} /\ msg = <<>>

\* A countdown counts from the number that was typed down to 1 and then plays, on
\* every computer; one from a negative number is refused by the server and nobody
\* speaks.
CountsAsAsked ==
    line # <<>> /\ Head(line) = "countdown" /\ Len(line) > 1 /\ line[2] \in DOMAIN Value =>
        LET n == Value[line[2]] IN
        /\ stage = "spoken" => n >= 0 /\ \A k \in Computers :
                /\ Len(said[k]) = n + 1
                /\ \A m \in 1..n : Value[said[k][m]] = n + 1 - m
        /\ stage = "dropped" => n < 0

\* What goes over the network was formatted from a command of the language and
\* is one message: no nickname and no text makes it into another kind or in two.
OneMessage ==
    msg # <<>> => /\ ToSet(msg) \cap Unfit = {}
                  /\ classify(msg) \in
                       (CASE Head(line) = "countdown" -> {"COUNTDOWN_N", "COUNTDOWN_ORDER"}
                          [] Head(line) \in {"write", "w"} -> {"WRITE_ARBITRARY"}
                          [] OTHER -> {"GOODBYE"})
=============================================================================
