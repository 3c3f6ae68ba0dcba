--------------------------- MODULE MCEntryPoints ----------------------------
(***************************************************************************)
(* Command lines for the two programs, and ints of eight bits.             *)
(***************************************************************************)
EXTENDS EntryPoints

CONSTANTS MaxWords    \* how many words a command line has at most

Plain(text) == [form |-> "plain", names |-> <<>>, argument |-> <<>>, text |-> text]

Short(letters, spelling) ==
    [form |-> "short", names |-> letters, argument |-> <<>>, text |-> Name(spelling)]

Long(name, argument) ==
    [form |-> "long", names |-> <<name>>, argument |-> argument, text |-> Name("--" \o name)]

DashDash == [form |-> "stop", names |-> <<>>, argument |-> <<>>, text |-> Name("--")]

\* "-7" is a group of one letter, and a negative number where an argument is
\* expected.
Minus7 == [form |-> "short", names |-> <<"7">>, argument |-> <<>>,
           text |-> Text("number", TRUE, <<7>>, "neither")]

Common == {
    Plain(Name("amy")), Plain(Decimal(<<7>>)), Minus7, DashDash,
    Short(<<"p">>, "-p"), Short(<<"n">>, "-n"), Short(<<"p", "n">>, "-pn"),
    Long("help", <<>>), Long("zzz", <<>>),
    Long("port", <<>>), Long("port", <<Decimal(<<1, 2, 7>>)>>),
    Long("port", <<Text("number", TRUE, <<1, 2, 7>>, "neither")>>)}

OnlyClient == {
    Long("chatty", <<>>), Long("chatty", <<False>>), Long("help", <<Name("maybe")>>),
    Long("nickname", <<Name("")>>)}

\* Numbers at and beyond the ends of the type.
Extremes == {
    Long("port", <<Text("number", neg, digits, "neither")>>) :
        neg \in BOOLEAN, digits \in {<<1, 2, 8>>, <<3, 0, 0>>, <<2, 5, 6>>, <<9, 9, 9>>, <<1, 10>>, <<>>}}
    \cup {Long("port", <<[Decimal(<<7, 15>>) EXCEPT !.hex = TRUE]>>)}

OnlyServer == {Long("ping_n", <<Decimal(<<0>>)>>)}

BothPrograms == {ServerOptions, ClientOptions}

Lines == UNION {[1..n -> Common \cup Extremes \cup OnlyClient \cup OnlyServer] :
                    n \in 0..MaxWords}
=============================================================================
