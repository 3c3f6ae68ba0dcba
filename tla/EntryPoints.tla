---------------------------- MODULE EntryPoints -----------------------------
(***************************************************************************)
(* The two main functions: each declares its options, parses its command   *)
(* line and, unless it only has to help, calls interact.                   *)
(***************************************************************************)
EXTENDS OptionParser

VARIABLES
    outcome      \* how main ended, or that interact was called

vars == <<parserVars, outcome>>

-----------------------------------------------------------------------------
(* The declarations *)

Text(spelling, negative, digits, truth) ==
    [spelling |-> spelling, negative |-> negative, hex |-> FALSE,
     digits |-> digits, truth |-> truth]

Name(spelling) == Text(spelling, FALSE, <<>>, "neither")

Decimal(digits) == Text("number", FALSE, digits, "neither")

True == Text("true", FALSE, <<29, 27, 30, 14>>, "true")

False == Text("false", FALSE, <<15, 10, 21, 28, 14>>, "false")

\* operator() of the OptionAdder; a bool is implicitly true.
Declare(short, long, type, default) ==
    [short |-> short, long |-> long, type |-> type, default |-> default,
     implicit |-> IF type = "bool" THEN <<True>> ELSE <<>>]

\* Of DEFAULT_PORT only that it is a number counts.
ServerOptions == {
    Declare("p", "port", "int", <<Decimal(<<9, 5>>)>>),
    Declare("n", "ping_n", "int", <<Decimal(<<3>>)>>),
    Declare("s", "server", "string", <<Name("address")>>),
    Declare("", "help", "bool", <<False>>)}

ClientOptions == {
    Declare("n", "nickname", "string", <<>>),
    Declare("p", "port", "int", <<Decimal(<<9, 5>>)>>),
    Declare("s", "server", "string", <<Name("address")>>),
    Declare("", "chatty", "bool", <<False>>),
    Declare("", "help", "bool", <<False>>)}

-----------------------------------------------------------------------------

Given(long) == \E o \in Named(long) : results[o].count > 0

\* Mutant: the nickname is not asked for.
Missing_Never == FALSE

\* The client has no default for its nickname; the server has no such option.
Missing == Named("nickname") # {} /\ ~Given("nickname")

\* options.parse is called outside the try block.
Uncaught ==
    /\ phase = "thrown"
    /\ outcome' = "terminated"

\* "You must provide a nickname": this is looked at before the help.
Complain ==
    /\ phase = "parsed"
    /\ Missing
    /\ outcome' = "exit 1"

Help ==
    /\ phase = "parsed"
    /\ ~Missing
    /\ Given("help")
    /\ outcome' = "exit 0"

\* The values are taken out of the result and given to interact.
Interact ==
    /\ phase = "parsed"
    /\ ~Missing /\ ~Given("help")
    /\ outcome' = "interact"

Main ==
    /\ outcome = "running"
    /\ (Uncaught \/ Complain \/ Help \/ Interact)
    /\ UNCHANGED parserVars

MainInit == Init /\ outcome = "running"

Next == \/ Parse /\ UNCHANGED outcome
        \/ Main

Spec == MainInit /\ [][Next]_vars

-----------------------------------------------------------------------------
(* Properties *)

\* main takes the value of every option out of the result: as<T>() of one that
\* was neither given nor has a default would dereference a null pointer.
ValuesPresent ==
    outcome = "interact" => \A o \in declared : results[o].value # {}
=============================================================================
