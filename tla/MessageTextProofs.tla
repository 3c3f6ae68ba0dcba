------------------------- MODULE MessageTextProofs -------------------------
(***************************************************************************)
(* What is typed is what the speech program is given to say, whatever the  *)
(* words, the nicknames and the length of the line.                        *)
(***************************************************************************)
EXTENDS MessageText, SequenceTheorems, TLAPS

-----------------------------------------------------------------------------
(* Messages and their parts *)

\* A word in front of a text.
LEMMA InFront ==
    ASSUME NEW w, NEW S, NEW s \in Seq(S)
    PROVE  /\ Head(<<w>> \o s) = w /\ Tail(<<w>> \o s) = s /\ <<w>> \o s # <<>>
           /\ ToSet(<<w>> \o s) = {w} \cup ToSet(s)
<1> DEFINE t == <<w>> \o s
<1>1. <<w>> \in Seq(S \cup {w}) /\ s \in Seq(S \cup {w})
  OBVIOUS
<1>2. t \in Seq(S \cup {w}) /\ Len(t) = Len(s) + 1 /\ Len(s) \in Nat
  BY <1>1, LenProperties
<1>3. t[1] = w /\ \A k \in 1..Len(s) : t[k + 1] = s[k]
  BY <1>1, <1>2
<1>4. DOMAIN t = 1..Len(s) + 1 /\ DOMAIN s = 1..Len(s)
  BY <1>2, LenProperties
<1> HIDE DEF t
<1>5. t # <<>> /\ Head(t) = w
  BY <1>2, <1>3
<1>6. Tail(t) = s
  <2>1. Tail(t) \in Seq(S \cup {w}) /\ Len(Tail(t)) = Len(s)
    BY <1>2, <1>5
  <2>2. \A k \in 1..Len(s) : Tail(t)[k] = s[k]
    BY <1>2, <1>3, <1>5
  <2> QED BY <1>1, <1>2, <2>1, <2>2, SeqEqual
<1>7. ToSet(t) = {w} \cup ToSet(s)
  <2>1. \A k \in DOMAIN t : t[k] \in {w} \cup ToSet(s)
    <3> TAKE k \in DOMAIN t
    <3>1. k = 1 \/ (k - 1 \in 1..Len(s) /\ (k - 1) + 1 = k)
      BY <1>2, <1>4
    <3> QED BY <1>3, <1>4, <3>1 DEF ToSet
  <2>2. \A k \in DOMAIN s : s[k] \in ToSet(t)
    <3> TAKE k \in DOMAIN s
    <3>1. k + 1 \in DOMAIN t
      BY <1>2, <1>4
    <3> QED BY <1>3, <1>4, <3>1 DEF ToSet
  <2>3. w \in ToSet(t)
    <3>1. 1 \in DOMAIN t
      BY <1>2, <1>4
    <3> QED BY <1>3, <3>1 DEF ToSet
  <2>4. ToSet(t) \subseteq {w} \cup ToSet(s)
    BY <2>1 DEF ToSet
  <2>5. ToSet(s) \subseteq ToSet(t)
    BY <2>2, Zenon DEF ToSet
  <2> QED BY <2>3, <2>4, <2>5
<1> QED BY <1>5, <1>6, <1>7 DEF t

\* The kinds of message a line may become.
LEMMA KindsAre ==
    /\ Kinds["goodbye"] = "GOODBYE" /\ "goodbye" \in DOMAIN Kinds
    /\ Kinds["write"] = "WRITE_ARBITRARY" /\ "write" \in DOMAIN Kinds
    /\ Kinds["countdown_n"] = "COUNTDOWN_N" /\ "countdown_n" \in DOMAIN Kinds
    /\ Kinds["countdown_order"] = "COUNTDOWN_ORDER" /\ "countdown_order" \in DOMAIN Kinds
  BY DEF Kinds

\* A message is what begins with the name of a kind and has no unfit word.
LEMMA Wrapped ==
    ASSUME NEW w \in DOMAIN Kinds, Kinds[w] # "MALFORMED", NEW S, NEW s \in Seq(S)
    PROVE  /\ classify(<<w>> \o s) = Kinds[w]
           /\ validate_wrap(<<w>> \o s) =
                IF w \in Unfit \/ ToSet(s) \cap Unfit # {} THEN {} ELSE {<<w>> \o s}
<1>1. classify(<<w>> \o s) = Kinds[w]
  BY InFront DEF classify
<1>2. ToSet(<<w>> \o s) \cap Unfit # {} <=> w \in Unfit \/ ToSet(s) \cap Unfit # {}
  BY InFront
<1> QED BY <1>1, <1>2, Zenon DEF validate_wrap

\* One word behind another.
LEMMA Pair ==
    ASSUME NEW a, NEW b
    PROVE  /\ <<a, b>> = <<a>> \o <<b>> /\ <<b>> \in Seq({b}) /\ ToSet(<<b>>) = {b}
           /\ Tail(<<a, b>>) = <<b>> /\ Head(<<b>>) = b /\ <<b>> # <<>>
<1>1. ToSet(<<b>>) = {b}
  BY DEF ToSet
<1>2. <<a, b>> = <<a>> \o <<b>>
  <2>1. <<a>> \in Seq({a, b}) /\ <<b>> \in Seq({a, b}) /\ <<a, b>> \in Seq({a, b})
    OBVIOUS
  <2>2. Len(<<a>>) = 1 /\ Len(<<b>>) = 1 /\ Len(<<a, b>>) = 2
    OBVIOUS
  <2>3. <<a>> \o <<b>> \in Seq({a, b}) /\ Len(<<a>> \o <<b>>) = 2
    BY <2>1, <2>2
  <2>4. \A k \in 1..2 : <<a, b>>[k] = (<<a>> \o <<b>>)[k]
    <3>1. (<<a>> \o <<b>>)[1] = a /\ (<<a>> \o <<b>>)[2] = b
      BY <2>1, <2>2
    <3>2. \A k \in 1..2 : k = 1 \/ k = 2
      OBVIOUS
    <3> QED BY <3>1, <3>2
  <2> QED BY <2>1, <2>2, <2>3, <2>4, SeqEqual
<1>3. Tail(<<a, b>>) = <<b>>
  BY <1>2, InFront
<1>4. <<b>> \in Seq({b}) /\ Head(<<b>>) = b /\ <<b>> # <<>>
  OBVIOUS
<1> QED BY <1>1, <1>2, <1>3, <1>4

\* Two words behind another.
LEMMA Triple ==
    ASSUME NEW a, NEW b, NEW c
    PROVE  /\ <<a, b, c>> = <<a>> \o <<b, c>> /\ <<b, c>> \in Seq({b, c})
           /\ ToSet(<<b, c>>) = {b, c}
           /\ Tail(<<a, b, c>>) = <<b, c>> /\ Head(<<b, c>>) = b /\ <<b, c>> # <<>>
<1>1. ToSet(<<b, c>>) = {b, c}
  BY DEF ToSet
<1>2. <<a, b, c>> = <<a>> \o <<b, c>>
  OBVIOUS
<1>3. <<b, c>> \in Seq({b, c}) /\ Head(<<b, c>>) = b /\ <<b, c>> # <<>>
  OBVIOUS
<1>4. Tail(<<a, b, c>>) = <<b, c>>
  BY <1>2, <1>3, InFront
<1> QED BY <1>1, <1>2, <1>3, <1>4

-----------------------------------------------------------------------------
(* What becomes of a line *)

\* What a checked message is.
LEMMA Checked ==
    ASSUME NEW text, NEW m \in validate_wrap(text)
    PROVE  m = text /\ ToSet(m) \cap Unfit = {}
  BY Zenon DEF validate_wrap

\* A line of words, after its first.
LEMMA LinesAre ==
    ASSUME NEW text \in Lines
    PROVE  text \in Seq(Words)
<1>1. PICK n \in 0..MaxWords : text \in [1..n -> Words]
  BY Zenon DEF Lines
<1>2. n \in Nat
  BY <1>1, MessageTextAssumption
<1> QED BY <1>1, <1>2

\* A write becomes one message with the words that were typed, or none if one of
\* them does not fit.
LEMMA Written ==
    ASSUME line \in Seq(Words), line # <<>>, Head(line) \in {"write", "w"}
    PROVE  /\ parse_cmdline =
                IF ToSet(Tail(line)) \cap Unfit # {} THEN {} ELSE {<<"write">> \o Tail(line)}
           /\ classify(<<"write">> \o Tail(line)) = "WRITE_ARBITRARY"
           /\ Tail(<<"write">> \o Tail(line)) = Tail(line)
<1> DEFINE rest == Tail(line)
<1>1. rest \in Seq(Words)
  OBVIOUS
<1>2. parse_cmdline = write_msg(rest)
  BY Zenon DEF parse_cmdline
<1> HIDE DEF rest
<1>3. "write" \notin Unfit
  BY MessageTextAssumption
<1>4. Kinds["write"] # "MALFORMED"
  BY KindsAre
<1>5. /\ classify(<<"write">> \o rest) = "WRITE_ARBITRARY"
      /\ write_msg(rest) = IF ToSet(rest) \cap Unfit # {} THEN {} ELSE {<<"write">> \o rest}
  BY <1>1, <1>3, <1>4, KindsAre, Wrapped DEF write_msg
<1>6. Tail(<<"write">> \o rest) = rest
  BY <1>1, InFront
<1> QED BY <1>2, <1>5, <1>6 DEF rest

\* A countdown becomes one message with the number that was typed.
LEMMA Counted ==
    ASSUME line \in Seq(Words), line # <<>>, Head(line) = "countdown"
    PROVE  LET n == Extract(DEFAULT_COUNTDOWN_N, Tail(line))
               m == <<"countdown_n", ToString(n)>>
           IN  /\ parse_cmdline = IF ToString(n) \in Unfit THEN {} ELSE {m}
               /\ classify(m) = "COUNTDOWN_N"
               /\ Head(m) = "countdown_n" /\ Tail(m) = <<ToString(n)>> /\ m # <<>>
<1> DEFINE n == Extract(DEFAULT_COUNTDOWN_N, Tail(line))
           w == ToString(n)
           m == <<"countdown_n", w>>
<1>1. parse_cmdline = countdown_n_msg(n)
  BY Zenon DEF parse_cmdline
<1>2. countdown_n_msg(n) = validate_wrap(m)
  BY DEF countdown_n_msg
<1> HIDE DEF w, n
<1>3. m = <<"countdown_n">> \o <<w>> /\ <<w>> \in Seq({w}) /\ ToSet(<<w>>) = {w}
  BY Pair
<1>4. Tail(m) = <<w>>
  BY Pair
<1>5. "countdown_n" \notin Unfit
  BY MessageTextAssumption
<1>6. Head(m) = "countdown_n" /\ m # <<>>
  OBVIOUS
<1> HIDE DEF m
<1>7. Kinds["countdown_n"] = "COUNTDOWN_N" /\ "countdown_n" \in DOMAIN Kinds
  BY KindsAre
<1>8. classify(m) = "COUNTDOWN_N"
  BY <1>3, <1>7, Wrapped
<1>9. validate_wrap(m) =
        IF "countdown_n" \in Unfit \/ ToSet(<<w>>) \cap Unfit # {} THEN {} ELSE {m}
  BY <1>3, <1>7, Wrapped
<1>10. validate_wrap(m) = IF w \in Unfit THEN {} ELSE {m}
  BY <1>3, <1>5, <1>9
<1> QED BY <1>1, <1>2, <1>4, <1>6, <1>8, <1>10 DEF m, w, n

\* A goodbye becomes one message at most.
LEMMA Quitted ==
    ASSUME nickname \in Seq(STRING), line # <<>>, Head(line) \in {"q", "quit", "exit"},
           NEW m \in parse_cmdline
    PROVE  classify(m) = "GOODBYE" /\ m # <<>>
<1>1. parse_cmdline = goodbye_msg(nickname)
  BY Zenon DEF parse_cmdline
<1>2. m = <<"goodbye">> \o nickname
  BY <1>1, Checked DEF goodbye_msg
<1>3. Kinds["goodbye"] = "GOODBYE" /\ "goodbye" \in DOMAIN Kinds
  BY KindsAre
<1>4. classify(<<"goodbye">> \o nickname) = "GOODBYE"
  BY <1>3, Wrapped
<1>5. <<"goodbye">> \o nickname # <<>>
  BY InFront
<1> QED BY <1>2, <1>4, <1>5

\* Only these commands become a message, and it has no unfit word.
LEMMA Commanded ==
    ASSUME NEW m \in parse_cmdline
    PROVE  /\ line # <<>>
           /\ \/ Head(line) \in {"q", "quit", "exit"}
              \/ Head(line) = "countdown"
              \/ Head(line) \in {"write", "w"}
           /\ ToSet(m) \cap Unfit = {}
<1>1. line # <<>>
  BY Zenon DEF parse_cmdline
<1>2. CASE Head(line) \in {"q", "quit", "exit"}
  <2>1. parse_cmdline = goodbye_msg(nickname)
    BY <1>1, <1>2, Zenon DEF parse_cmdline
  <2> QED BY <1>1, <1>2, <2>1, Checked DEF goodbye_msg
<1>3. CASE Head(line) = "countdown"
  <2>1. parse_cmdline = countdown_n_msg(Extract(DEFAULT_COUNTDOWN_N, Tail(line)))
    BY <1>1, <1>3, Zenon DEF parse_cmdline
  <2> QED BY <1>1, <1>3, <2>1, Checked DEF countdown_n_msg
<1>4. CASE Head(line) \in {"write", "w"}
  <2>1. parse_cmdline = write_msg(Tail(line))
    BY <1>1, <1>4, Zenon DEF parse_cmdline
  <2> QED BY <1>1, <1>4, <2>1, Checked DEF write_msg
<1>5. CASE /\ Head(line) \notin {"q", "quit", "exit"}
           /\ Head(line) # "countdown"
           /\ Head(line) \notin {"write", "w"}
  <2>1. parse_cmdline = {}
    BY <1>1, <1>5, Zenon DEF parse_cmdline
  <2> QED BY <2>1
<1> QED BY <1>2, <1>3, <1>4, <1>5

\* An order is one message with the number it is made of.
LEMMA Ordered ==
    ASSUME NEW n, NEW m \in countdown_order_msg(n)
    PROVE  /\ classify(m) = "COUNTDOWN_ORDER" /\ ToSet(m) \cap Unfit = {} /\ m # <<>>
           /\ Tail(m) = <<ToString(n), "delay">>
<1> DEFINE w == ToString(n)
           t == <<"countdown_order", w, "delay">>
<1>1. m = t /\ ToSet(m) \cap Unfit = {}
  BY Checked DEF countdown_order_msg
<1> HIDE DEF w
<1>2. t = <<"countdown_order">> \o <<w, "delay">> /\ <<w, "delay">> \in Seq({w, "delay"})
  OBVIOUS
<1>3. Tail(t) = <<w, "delay">>
  BY ONLY Triple
<1> HIDE DEF t
<1>4. Kinds["countdown_order"] = "COUNTDOWN_ORDER" /\ "countdown_order" \in DOMAIN Kinds
  BY KindsAre
<1>5. classify(t) = "COUNTDOWN_ORDER"
  BY <1>2, <1>4, Wrapped
<1>6. t # <<>>
  BY <1>2, InFront
<1> QED BY <1>1, <1>3, <1>5, <1>6 DEF w

-----------------------------------------------------------------------------
(* The inductive invariant *)

\* A message the server refuses.
Refused(m) ==
    /\ m \in parse_cmdline /\ classify(m) = "COUNTDOWN_N"
    /\ parse_unary_int("countdown_n", m) = {}

\* A message the server passes on, and one it makes of a message.
Relayed(m) == m \in parse_cmdline /\ classify(m) \in {"WRITE_ARBITRARY", "GOODBYE"}

Answers(m) ==
    \E c \in parse_cmdline :
        /\ classify(c) = "COUNTDOWN_N"
        /\ \E k \in parse_unary_int("countdown_n", c) : m \in countdown_order_msg(k)

\* What is said on either computer is what the shell makes of the command.
Sounds ==
    /\ command = Command(msg)
    /\ said["others"] \in Shell(command)
    /\ classify(msg) = "COUNTDOWN_ORDER" => said["own"] = said["others"]

Typed == line \in Seq(Words) /\ nickname \in Seq(STRING)

\* At each stage the message under way is what the line makes it.
Inv ==
    /\ Typed
    /\ stage \in {"typed", "sent", "served", "spoken", "dropped"}
    /\ stage = "typed" => msg = <<>>
    /\ stage = "sent" => msg \in parse_cmdline
    /\ stage = "dropped" => (msg = <<>> /\ parse_cmdline = {}) \/ Refused(msg)
    /\ stage \in {"served", "spoken"} => Relayed(msg) \/ Answers(msg)
    /\ stage = "spoken" => Sounds

LEMMA InvInit == Init => Inv
<1> SUFFICES ASSUME Init PROVE Inv
  OBVIOUS
<1>1. line \in Seq(Words)
  BY LinesAre DEF Init
<1>2. nickname \in Seq(STRING)
  BY MessageTextAssumption DEF Init
<1> QED BY <1>1, <1>2 DEF Init, Inv, Typed

LEMMA InvSend == Inv /\ Send => Inv'
<1> SUFFICES ASSUME Inv, Send PROVE Inv'
  OBVIOUS
<1>1. parse_cmdline' = parse_cmdline /\ Typed'
  BY DEF Inv, Send, Typed, parse_cmdline
<1>2. CASE msg' \in parse_cmdline /\ stage' = "sent"
  BY <1>1, <1>2 DEF Inv
<1>3. CASE parse_cmdline = {} /\ stage' = "dropped" /\ msg' = msg
  <2>1. msg = <<>>
    BY DEF Inv, Send
  <2> QED BY <1>1, <1>3, <2>1 DEF Inv
<1> QED BY <1>2, <1>3 DEF Send

LEMMA InvServe == Inv /\ Serve => Inv'
<1> SUFFICES ASSUME Inv, Serve PROVE Inv'
  OBVIOUS
<1>1. parse_cmdline' = parse_cmdline /\ Typed'
  BY DEF Inv, Serve, Typed, parse_cmdline
<1>2. stage = "sent" /\ msg \in parse_cmdline
  BY DEF Inv, Serve
<1>3. CASE /\ classify(msg) \in {"WRITE_ARBITRARY", "GOODBYE"}
           /\ stage' = "served" /\ msg' = msg
  <2>1. Relayed(msg)'
    BY <1>1, <1>2, <1>3 DEF Relayed
  <2> QED BY <1>1, <1>3, <2>1 DEF Inv
<1>4. ASSUME classify(msg) = "COUNTDOWN_N", stage' = "served",
             NEW k \in parse_unary_int("countdown_n", msg), msg' \in countdown_order_msg(k)
      PROVE  Inv'
  <2>1. Answers(msg)'
    BY <1>1, <1>2, <1>4 DEF Answers
  <2> QED BY <1>1, <1>4, <2>1 DEF Inv
<1>5. CASE /\ classify(msg) = "COUNTDOWN_N" /\ parse_unary_int("countdown_n", msg) = {}
           /\ stage' = "dropped" /\ msg' = msg
  <2>1. Refused(msg)'
    BY <1>1, <1>2, <1>5 DEF Refused
  <2> QED BY <1>1, <1>5, <2>1 DEF Inv
<1> QED BY <1>3, <1>4, <1>5 DEF Serve

LEMMA InvSpeak == Inv /\ Speak => Inv'
<1> SUFFICES ASSUME Inv, Speak PROVE Inv'
  OBVIOUS
<1>1. parse_cmdline' = parse_cmdline /\ Typed' /\ msg' = msg
  BY DEF Inv, Speak, Typed, parse_cmdline
<1>2. stage' = "spoken" /\ command' = Command(msg)
  BY DEF Speak
<1>3. (Relayed(msg) \/ Answers(msg))'
  BY <1>1 DEF Inv, Speak, Relayed, Answers
<1>4. Sounds'
  <2>1. PICK heard \in Shell(command') :
            said' = [others |-> heard,
                     own |-> IF classify(msg) = "COUNTDOWN_ORDER" THEN heard ELSE <<>>]
    BY DEF Speak
  <2>2. /\ said'["others"] = heard
        /\ classify(msg) = "COUNTDOWN_ORDER" => said'["own"] = heard
    BY <2>1
  <2> QED BY <1>1, <1>2, <2>2 DEF Sounds
<1> QED BY <1>1, <1>2, <1>3, <1>4 DEF Inv

LEMMA InvHolds == Spec => []Inv
<1>1. Inv /\ UNCHANGED vars => Inv'
  <2> SUFFICES ASSUME Inv, UNCHANGED vars PROVE Inv'
    OBVIOUS
  <2>1. parse_cmdline' = parse_cmdline
    BY DEF vars, parse_cmdline
  <2> QED BY <2>1 DEF Inv, vars, Typed, Refused, Relayed, Answers, Sounds
<1>2. Inv /\ [Next]_vars => Inv'
  BY <1>1, InvSend, InvServe, InvSpeak DEF Next
<1> QED BY <1>2, InvInit, PTL DEF Spec

-----------------------------------------------------------------------------
(* What holds of every message *)

\* Whatever is under way comes from a command of the language.
LEMMA UnderWay ==
    ASSUME Inv, msg # <<>>
    PROVE  /\ line # <<>>
           /\ ToSet(msg) \cap Unfit = {}
           /\ \/ msg \in parse_cmdline
              \/ Head(line) = "countdown" /\ classify(msg) = "COUNTDOWN_ORDER"
<1>1. ASSUME NEW m \in parse_cmdline, classify(m) = "COUNTDOWN_N"
      PROVE  Head(line) = "countdown" /\ line # <<>>
  <2>1. line \in Seq(Words) /\ nickname \in Seq(STRING)
    BY DEF Inv, Typed
  <2>2. line # <<>>
    BY Commanded
  <2>3. Head(line) \notin {"q", "quit", "exit"}
    BY <1>1, <2>1, <2>2, Quitted
  <2>4. Head(line) \notin {"write", "w"}
    <3> SUFFICES ASSUME Head(line) \in {"write", "w"} PROVE FALSE
      OBVIOUS
    <3>1. m = <<"write">> \o Tail(line)
      BY <2>1, <2>2, Written
    <3>2. classify(m) = "WRITE_ARBITRARY"
      BY <2>1, <2>2, <3>1, Written
    <3> QED BY <1>1, <3>2
  <2> QED BY <2>2, <2>3, <2>4, Commanded
<1>2. CASE msg \in parse_cmdline
  BY <1>2, Commanded
<1>3. CASE Answers(msg)
  <2>1. PICK c \in parse_cmdline :
          /\ classify(c) = "COUNTDOWN_N"
          /\ \E k \in parse_unary_int("countdown_n", c) : msg \in countdown_order_msg(k)
    BY <1>3 DEF Answers
  <2>2. PICK k : msg \in countdown_order_msg(k)
    BY <2>1
  <2> QED BY <1>1, <2>1, <2>2, Ordered
<1> QED BY <1>2, <1>3 DEF Inv, Refused, Relayed

\* What goes over the network was formatted from a command of the language and is
\* one message: no nickname and no text, whatever words they are made of, makes it
\* into another kind or into two messages.
THEOREM OneMessageEach == Spec => []OneMessage
<1>1. Inv => OneMessage
  <2> SUFFICES ASSUME Inv, msg # <<>>
               PROVE  /\ ToSet(msg) \cap Unfit = {}
                      /\ classify(msg) \in
                           (CASE Head(line) = "countdown" -> {"COUNTDOWN_N", "COUNTDOWN_ORDER"}
                              [] Head(line) \in {"write", "w"} -> {"WRITE_ARBITRARY"}
                              [] OTHER -> {"GOODBYE"})
    BY DEF OneMessage
  <2>1. line \in Seq(Words) /\ nickname \in Seq(STRING) /\ line # <<>>
    BY UnderWay DEF Inv, Typed
  <2>2. ToSet(msg) \cap Unfit = {}
    BY UnderWay
  <2>3. CASE Head(line) = "countdown"
    <3>1. classify(msg) \in {"COUNTDOWN_N", "COUNTDOWN_ORDER"}
      <4>1. CASE msg \in parse_cmdline
        BY <2>1, <2>3, <4>1, Counted
      <4> QED BY <4>1, UnderWay
    <3> QED BY <2>2, <2>3, <3>1
  <2>4. CASE Head(line) \in {"write", "w"}
    <3>1. msg \in parse_cmdline
      BY <2>4, UnderWay
    <3>2. msg = <<"write">> \o Tail(line)
      BY <2>1, <2>4, <3>1, Written
    <3>3. classify(msg) = "WRITE_ARBITRARY"
      BY <2>1, <2>4, <3>2, Written
    <3> QED BY <2>2, <2>4, <3>3
  <2>5. CASE Head(line) \notin {"countdown", "write", "w"}
    <3>1. msg \in parse_cmdline
      BY <2>5, UnderWay
    <3>2. Head(line) \in {"q", "quit", "exit"}
      BY <2>5, <3>1, Commanded
    <3>3. classify(msg) = "GOODBYE"
      BY <2>1, <3>1, <3>2, Quitted
    <3> QED BY <2>2, <2>5, <3>3
  <2> QED BY <2>3, <2>4, <2>5
<1> QED BY <1>1, InvHolds, PTL

\* A write reaches the others' command lines word for word, whatever the words and
\* however many; it is said word for word if none of them means something to the
\* shell; and one that does not fit into a message is dropped where it was typed.
THEOREM WordForWord == Spec => []WritesSaid
<1>1. Inv => WritesSaid
  <2> SUFFICES ASSUME Inv, line # <<>>, Head(line) \in {"write", "w"}
               PROVE  /\ stage = "spoken" =>
                            /\ command = Tail(line)
                            /\ ToSet(Tail(line)) \cap Special = {} =>
                                    said["others"] = Tail(line)
                      /\ stage = "dropped" => ToSet(Tail(line)) \cap Unfit # {} /\ msg = <<>>
    BY DEF WritesSaid, Writing
  <2>1. line \in Seq(Words)
    BY DEF Inv, Typed
  <2>2. ASSUME NEW m \in parse_cmdline
        PROVE  /\ m = <<"write">> \o Tail(line)
               /\ classify(m) = "WRITE_ARBITRARY" /\ Tail(m) = Tail(line)
    BY <2>1, Written
  <2>3. ASSUME stage = "spoken"
        PROVE  /\ command = Tail(line)
               /\ ToSet(Tail(line)) \cap Special = {} => said["others"] = Tail(line)
    <3>1. ~Answers(msg)
      BY <2>2 DEF Answers
    <3>2. msg \in parse_cmdline /\ Sounds
      BY <2>3, <3>1 DEF Inv, Relayed
    <3>3. classify(msg) = "WRITE_ARBITRARY" /\ Tail(msg) = Tail(line)
      BY <2>2, <3>2
    <3>4. Command(msg) = parse_write_msg(msg)
      BY <3>3 DEF Command
    <3>5. command = Tail(line) /\ said["others"] \in Shell(command)
      BY <3>2, <3>3, <3>4 DEF parse_write_msg, Sounds
    <3> QED BY <3>5 DEF Shell
  <2>4. ASSUME stage = "dropped" PROVE ToSet(Tail(line)) \cap Unfit # {} /\ msg = <<>>
    <3>1. ~Refused(msg)
      BY <2>2 DEF Refused
    <3>2. msg = <<>> /\ parse_cmdline = {}
      BY <2>4, <3>1 DEF Inv
    <3> QED BY <2>1, <3>2, Written
  <2> QED BY <2>3, <2>4
<1> QED BY <1>1, InvHolds, PTL

-----------------------------------------------------------------------------
(* Countdowns *)

\* The number behind the name of a countdown is read as it was written.
LEMMA ReadBack ==
    ASSUME NEW w \in DOMAIN Value, NEW n, n = Value[w] \/ n \in 0..Value[w]
    PROVE  /\ ToString(n) \in DOMAIN Value \ Unfit /\ Value[ToString(n)] = n
           /\ Extract(-1, <<ToString(n)>>) = n
           /\ Extract(0, <<ToString(n), "delay">>) = n
<1>1. ToString(n) \in DOMAIN Value \ Unfit /\ Value[ToString(n)] = n
  BY MessageTextAssumption
<1> DEFINE t == ToString(n)
<1> HIDE DEF t
<1>2. /\ Head(<<t>>) = t /\ <<t>> # <<>>
      /\ Head(<<t, "delay">>) = t /\ <<t, "delay">> # <<>>
  OBVIOUS
<1>3. Extract(-1, <<t>>) = n /\ Extract(0, <<t, "delay">>) = n
  BY <1>1, <1>2 DEF Extract, t
<1> QED BY <1>1, <1>3 DEF t

\* A countdown from n is n numbers and then the music.
LEMMA Spoken ==
    ASSUME NEW n \in Nat
    PROVE  /\ Len(format_say_countdown(n)) = n + 1
           /\ DOMAIN format_say_countdown(n) = 1..n + 1
           /\ \A k \in 1..n : format_say_countdown(n)[k] = ToString(n + 1 - k)
           /\ format_say_countdown(n)[n + 1] = "play"
<1> DEFINE f == [k \in 1..n |-> ToString(n + 1 - k)]
           S == {ToString(n + 1 - k) : k \in 1..n} \cup {"play"}
<1>1. f \in [1..n -> S]
  OBVIOUS
<1>2. \A k \in 1..n : f[k] = ToString(n + 1 - k)
  OBVIOUS
<1>3. "play" \in S
  OBVIOUS
<1>4. format_say_countdown(n) = f \o <<"play">>
  BY DEF format_say_countdown
<1> HIDE DEF f, S
<1>5. f \in Seq(S) /\ Len(f) = n
  BY <1>1
<1>6. <<"play">> \in Seq(S) /\ Len(<<"play">>) = 1
  BY <1>3
<1>7. /\ Len(f \o <<"play">>) = n + 1 /\ \A k \in 1..n : (f \o <<"play">>)[k] = f[k]
      /\ DOMAIN (f \o <<"play">>) = 1..n + 1 /\ (f \o <<"play">>)[n + 1] = "play"
  BY <1>5, <1>6
<1> QED BY <1>2, <1>4, <1>7

\* A countdown counts from the number that was typed, whichever it is, down to 1 on
\* every computer; the server refuses it exactly if that number is negative.
THEOREM CountedDown == Spec => []CountsAsAsked
<1>1. Inv => CountsAsAsked
  <2> SUFFICES ASSUME Inv, line # <<>>, Head(line) = "countdown", Len(line) > 1,
                      line[2] \in DOMAIN Value
               PROVE  LET n == Value[line[2]] IN
                      /\ stage = "spoken" => n >= 0 /\ \A k \in Computers :
                            /\ Len(said[k]) = n + 1
                            /\ \A m \in 1..n : Value[said[k][m]] = n + 1 - m
                      /\ stage = "dropped" => n < 0
    BY Zenon DEF CountsAsAsked
  <2>1. line \in Seq(Words)
    BY DEF Inv, Typed
  <2>2. PICK n \in Int : n = Value[line[2]]
    BY MessageTextAssumption
  <2> DEFINE m == <<"countdown_n", ToString(n)>>
  <2>3. Tail(line) # <<>> /\ Head(Tail(line)) = line[2]
    <3>1. Len(line) \in Nat /\ Tail(line) \in Seq(Words)
      BY <2>1
    <3>2. Len(Tail(line)) = Len(line) - 1
      BY <2>1
    <3>3. 1 \in 1..Len(Tail(line)) /\ Len(Tail(line)) # 0
      BY <3>1, <3>2
    <3>4. Tail(line)[1] = line[2]
      BY <2>1, <3>3
    <3>5. Len(<<>>) = 0
      OBVIOUS
    <3>6. Tail(line) # <<>>
      BY <3>3, <3>5, Zenon
    <3> QED BY <3>1, <3>4, <3>6
  <2>4. Extract(DEFAULT_COUNTDOWN_N, Tail(line)) = n
    BY <2>2, <2>3 DEF Extract
  <2>5. ToString(n) \notin Unfit
    BY <2>2, ReadBack
  <2>6. /\ parse_cmdline = {m} /\ classify(m) = "COUNTDOWN_N"
        /\ Head(m) = "countdown_n" /\ Tail(m) = <<ToString(n)>>
    BY <2>1, <2>4, <2>5, Counted
  <2>7. Extract(-1, Tail(m)) = n
    BY <2>2, <2>6, ReadBack
  <2> HIDE DEF m
  <2>8. parse_unary_int("countdown_n", m) = IF n < 0 THEN {} ELSE {n}
    BY <2>6, <2>7 DEF parse_unary_int, NonNegative
  <2>9. ASSUME stage = "spoken"
        PROVE  n >= 0 /\ \A k \in Computers :
                    /\ Len(said[k]) = n + 1
                    /\ \A a \in 1..n : Value[said[k][a]] = n + 1 - a
    <3>1. ~Relayed(msg)
      BY <2>6 DEF Relayed
    <3>2. Answers(msg) /\ Sounds
      BY <2>9, <3>1 DEF Inv
    <3>3. PICK k \in parse_unary_int("countdown_n", m) : msg \in countdown_order_msg(k)
      BY <2>6, <3>2 DEF Answers
    <3>4. n \in Nat /\ k = n
      BY <2>8, <3>3
    <3>5. classify(msg) = "COUNTDOWN_ORDER" /\ Tail(msg) = <<ToString(n), "delay">>
      BY <3>3, <3>4, Ordered
    <3>6. Extract(0, Tail(msg)) = n
      BY <2>2, <3>5, ReadBack
    <3>7. command = format_say_countdown(n)
      BY <3>2, <3>5, <3>6 DEF Command, Sounds
    <3>8. \A a \in 1..n : /\ Value[ToString(n + 1 - a)] = n + 1 - a
                         /\ ToString(n + 1 - a) \notin Special
      <4> TAKE a \in 1..n
      <4>1. n + 1 - a \in 0..Value[line[2]] /\ n + 1 - a >= 0
        BY <2>2, <3>4
      <4> QED BY <4>1, MessageTextAssumption
    <3>9. ToSet(command) \cap Special = {}
      <4>1. \A a \in 1..n + 1 : command[a] \notin Special
        <5> TAKE a \in 1..n + 1
        <5>1. a \in 1..n \/ a = n + 1
          BY <3>4
        <5>2. command[n + 1] = "play" /\ "play" \notin Special
          BY <3>4, <3>7, Spoken, MessageTextAssumption
        <5> QED BY <3>4, <3>7, <3>8, <5>1, <5>2, Spoken
      <4>2. DOMAIN command = 1..n + 1
        BY <3>4, <3>7, Spoken
      <4> QED BY <4>1, <4>2 DEF ToSet
    <3>10. \A c \in Computers : said[c] = command
      <4>1. said["others"] = command
        BY <3>2, <3>9 DEF Sounds, Shell
      <4> QED BY <3>2, <3>5, <4>1 DEF Sounds, Computers
    <3> QED BY <3>4, <3>7, <3>8, <3>10, Spoken
  <2>10. ASSUME stage = "dropped" PROVE n < 0
    <3>1. parse_cmdline # {}
      BY <2>6
    <3>2. Refused(msg)
      BY <2>10, <3>1 DEF Inv
    <3>3. parse_unary_int("countdown_n", m) = {}
      BY <2>6, <3>2 DEF Refused
    <3> QED BY <2>2, <2>8, <3>3
  <2> QED BY <2>2, <2>9, <2>10
<1> QED BY <1>1, InvHolds, PTL
=============================================================================
