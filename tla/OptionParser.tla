---------------------------- MODULE OptionParser ----------------------------
(***************************************************************************)
(* cxxopts::ParseResult::parse, as the server and the client use it: no    *)
(* positional options, no unrecognised ones, no containers.  The arguments *)
(* are read from left to right; those that are no option are moved to the  *)
(* front of the same array.                                                *)
(*                                                                         *)
(* A word of the command line has a form (what option_matcher makes of     *)
(* it), the names of the options in it, the text after its "=" if there is *)
(* one, and the text it is when it is read as an argument.  A text carries *)
(* what the parsers of values look at: the parts integer_pattern finds in  *)
(* it and what truthy_pattern and falsy_pattern make of it.                *)
(***************************************************************************)
EXTENDS Integers, Sequences, SequencesExt

CONSTANTS
    Programs,    \* the options each program declares
    CommandLines,\* what may be typed after the program's name
    IntMax       \* the largest int: 2^(w-1) - 1 for an int of w bits

Texts == [spelling : STRING, negative : BOOLEAN, hex : BOOLEAN,
          digits : Seq(0..35), truth : {"true", "false", "neither"}]

\* argument, default and implicit hold at most one text; option_matcher asks
\* for a letter at least in every name.
Words == {w \in [form : {"plain", "short", "long", "stop"}, names : Seq(STRING \ {""}),
                 argument : Seq(Texts), text : Texts] :
             w.form \in {"short", "long"} => w.names # <<>>}

OptionDetails == [short : STRING, long : STRING,
                  type : {"int", "bool", "string"},
                  default : Seq(Texts), implicit : Seq(Texts)]

\* add_one_option refuses a second option of one name, long or short.
ASSUME ProgramsAssumption ==
    /\ Programs \subseteq SUBSET OptionDetails
    /\ \A options \in Programs : \A o, p \in options :
          ({o.short, o.long} \cap {p.short, p.long}) \ {""} # {} => o = p

ASSUME CommandLinesAssumption == CommandLines \subseteq Seq(Words)

ASSUME IntMaxAssumption == IntMax \in Nat

VARIABLES
    declared,    \* the options of the program that is started
    phase,       \* where the parser is
    typed,       \* history: the command line as it was typed
    argv,        \* the arguments, overwritten from the front
    argc,        \* one more than how many of them count
    current,
    nextKeep,
    results,     \* m_results: how often an option was given and its value
    sequential   \* m_sequential: the options given, in order

parserVars == <<declared, phase, typed, argv, argc, current, nextKeep, results, sequential>>

\* m_options.find(name)
Named(name) == {o \in declared : name \in {o.short, o.long}}

Init ==
    /\ declared \in Programs
    /\ phase = "words"
    /\ typed \in CommandLines
    /\ argv = typed
    /\ argc = Len(argv) + 1
    /\ current = 1
    /\ nextKeep = 1
    /\ results = [o \in declared |-> [count |-> 0, value |-> {}]]
    /\ sequential = <<>>

-----------------------------------------------------------------------------
(* Values.  A parser returns the set of what it stores: empty when it      *)
(* throws.                                                                 *)

\* The largest unsigned int: one bit more.
UMax == 2 * IntMax + 1

\* What the loop of integer_parser holds after a digit: -1 once it has thrown.
\* The products and sums are those of an unsigned int.
NextDigit(base, result, digit) ==
    IF \/ result = -1
       \/ digit >= base
       \/ UMax - digit < (result * base) % (UMax + 1)
    THEN -1
    ELSE (result * base + digit) % (UMax + 1)

\* Mutant: the largest number is refused too.
InSignedRange_Strict(negative, n) == n < IntMax \/ (negative /\ n <= IntMax + 1)

\* check_signed_range
InSignedRange(negative, n) == n <= (IF negative THEN IntMax + 1 ELSE IntMax)

Base(text) == IF text.hex THEN 16 ELSE 10

\* result, after all digits
Magnitude(text) ==
    LET result[k \in 0..Len(text.digits)] ==
            IF k = 0 THEN 0
            ELSE NextDigit(Base(text), result[k - 1], text.digits[k])
    IN  result[Len(text.digits)]

integer_parser(text) ==
    LET n == Magnitude(text) IN
    IF text.digits = <<>> \/ n = -1 \/ ~InSignedRange(text.negative, n)
    THEN {}
    ELSE {IF text.negative THEN -n ELSE n}

parse_value(type, text) ==
    CASE type = "int"    -> integer_parser(text)
      [] type = "bool"   -> IF text.truth = "neither" THEN {} ELSE {text.truth = "true"}
      [] type = "string" -> {text.spelling}

-----------------------------------------------------------------------------
(* The words *)

Unread == phase = "words" /\ current # argc

Word == argv[current]

\* An option of the word (the last, if it is a group of letters).
Option(w, i) == CHOOSE o \in Named(w.names[i]) : TRUE

\* checked_parse_arg goes on to the next word for the argument of the last
\* option of a word.
TakesNext(w) == w.argument = <<>> /\ Option(w, Len(w.names)).implicit = <<>>

NoneLeft == current + 1 >= argc

\* What parse_option is given for the i-th option of w.
Argument(w, i) ==
    IF w.argument # <<>> THEN w.argument[1]
    ELSE IF Option(w, i).implicit # <<>> THEN Option(w, i).implicit[1]
    ELSE argv[current + 1].text

\* Every option of the word exists, none but the last needs an argument, the
\* argument of the last is there, and every argument is of its type.
Accepted(w) ==
    /\ \A i \in DOMAIN w.names : Named(w.names[i]) # {}
    /\ \A i \in 1..Len(w.names) - 1 : Option(w, i).implicit # <<>>
    /\ TakesNext(w) => ~NoneLeft
    /\ \A i \in DOMAIN w.names : parse_value(Option(w, i).type, Argument(w, i)) # {}

\* Mutant: an option keeps the first value it was given.
ParseOption_First(res, o, text) ==
    [res EXCEPT ![o] =
        [count |-> @.count + 1,
         value |-> IF @.count = 0 THEN parse_value(o.type, text) ELSE @.value]]

ParseOption(res, o, text) ==
    [res EXCEPT ![o] = [count |-> @.count + 1, value |-> parse_value(o.type, text)]]

\* The results once the options of w are parsed, one after the other.
Parsed(w) ==
    LET after[i \in 0..Len(w.names)] ==
            IF i = 0 THEN results
            ELSE ParseOption(after[i - 1], Option(w, i), Argument(w, i))
    IN  after[Len(w.names)]

ReadOption ==
    /\ Unread
    /\ Word.form \in {"short", "long"}
    /\ Accepted(Word)
    /\ results' = Parsed(Word)
    /\ sequential' = sequential \o
          [i \in DOMAIN Word.names |-> [long |-> Option(Word, i).long,
                                        text |-> Argument(Word, i)]]
    /\ current' = current + (IF TakesNext(Word) THEN 2 ELSE 1)
    /\ UNCHANGED <<declared, phase, typed, argv, argc, nextKeep>>

\* The exception leaves parse.
RefuseWord ==
    /\ Unread
    /\ Word.form \in {"short", "long"}
    /\ ~Accepted(Word)
    /\ phase' = "thrown"
    /\ UNCHANGED <<declared, typed, argv, argc, current, nextKeep, results, sequential>>

\* Mutant: argv[++nextKeep] = argv[current].
Keep_Before ==
    /\ argv' = [argv EXCEPT ![nextKeep + 1] = Word]
    /\ nextKeep' = nextKeep + 1
    /\ current' = current + 1

\* argv[nextKeep] = argv[current]
Keep ==
    /\ argv' = [argv EXCEPT ![nextKeep] = Word]
    /\ nextKeep' = nextKeep + 1
    /\ current' = current + 1

KeepPlain ==
    /\ Unread
    /\ Word.form = "plain"
    /\ Keep
    /\ UNCHANGED <<declared, phase, typed, argc, results, sequential>>

\* Mutant: the "--" is left to be kept with what follows it.
PastStop_Not == current' = current

\* ++current before the break
PastStop == current' = current + 1

Stop ==
    /\ Unread
    /\ Word.form = "stop"
    /\ PastStop
    /\ phase' = "defaults"
    /\ UNCHANGED <<declared, typed, argv, argc, nextKeep, results, sequential>>

NeedsDefault(o) == results[o].count = 0 /\ o.default # <<>>

\* An option keeps the count 0 when its default is stored.
Defaults ==
    /\ \/ phase = "words" /\ current = argc
       \/ phase = "defaults"
    /\ results' = [o \in declared |->
          IF NeedsDefault(o)
          THEN [results[o] EXCEPT !.value = parse_value(o.type, o.default[1])]
          ELSE results[o]]
    /\ phase' = "rest"
    /\ UNCHANGED <<declared, typed, argv, argc, current, nextKeep, sequential>>

\* What follows "--" is moved down as it is.
KeepRest ==
    /\ phase = "rest"
    /\ current # argc
    /\ Keep
    /\ UNCHANGED <<declared, phase, typed, argc, results, sequential>>

Shrink ==
    /\ phase = "rest"
    /\ current = argc
    /\ argc' = nextKeep
    /\ phase' = "parsed"
    /\ UNCHANGED <<declared, typed, argv, current, nextKeep, results, sequential>>

Parse == \/ ReadOption \/ RefuseWord \/ KeepPlain \/ Stop
         \/ Defaults \/ KeepRest \/ Shrink

-----------------------------------------------------------------------------
(* What a command line means, read from the line as it was typed           *)

\* The number a text stands for, however large.
Number(text) ==
    LET upTo[k \in 0..Len(text.digits)] ==
            IF k = 0 THEN 0 ELSE upTo[k - 1] * Base(text) + text.digits[k]
        n == upTo[Len(text.digits)]
    IN  IF text.negative THEN -n ELSE n

Fits(o, text) ==
    CASE o.type = "int" -> /\ text.digits # <<>>
                           /\ \A i \in DOMAIN text.digits : text.digits[i] < Base(text)
                           /\ Number(text) \in -IntMax - 1..IntMax
      [] o.type = "bool" -> text.truth # "neither"
      [] OTHER -> TRUE

Meaning(o, text) ==
    CASE o.type = "int"    -> Number(text)
      [] o.type = "bool"   -> text.truth = "true"
      [] o.type = "string" -> text.spelling

\* What each word is: a flag, the argument of the flag before it, the first
\* "--" that is not an argument, what follows it, or none of these.
Role[k \in 0..Len(typed)] ==
    CASE k = 0 -> "start"
      [] k > 0 /\ Role[k - 1] \in {"stop", "rest"} -> "rest"
      [] k > 0 /\ Role[k - 1] = "flag" /\ typed[k - 1].argument = <<>>
               /\ \E o \in Named(Last(typed[k - 1].names)) : o.implicit = <<>>
         -> "argument"
      [] OTHER -> IF typed[k].form \in {"short", "long"} THEN "flag" ELSE typed[k].form

\* The words left for the program, and how many of them there are up to the k-th.
KeptWords == {k \in DOMAIN typed : Role[k] \in {"plain", "rest"}}

KeptUpTo(k) == Cardinality({l \in KeptWords : l <= k})

\* The words that give o.
Givers(o) == {k \in DOMAIN typed : /\ Role[k] = "flag"
                                   /\ \E i \in DOMAIN typed[k].names : o \in Named(typed[k].names[i])}

\* The text the k-th word gives o: at most one.
TextOf(o, k) ==
    IF typed[k].argument # <<>> THEN typed[k].argument
    ELSE IF o.implicit # <<>> THEN o.implicit
    ELSE IF k < Len(typed) THEN <<typed[k + 1].text>>
    ELSE <<>>

\* A flag names no option, leaves one without its argument, or gives one an
\* argument that is not of its type.
BadFlag(k) ==
    /\ Role[k] = "flag"
    /\ \E i \in DOMAIN typed[k].names :
          \/ Named(typed[k].names[i]) = {}
          \/ \E o \in Named(typed[k].names[i]) :
                \/ TextOf(o, k) = <<>>
                \/ o.implicit = <<>> /\ i # Len(typed[k].names)
                \/ ~Fits(o, TextOf(o, k)[1])

-----------------------------------------------------------------------------
(* Properties *)

TypeOK ==
    /\ phase \in {"words", "defaults", "rest", "parsed", "thrown"}
    /\ typed \in CommandLines
    /\ Len(argv) = Len(typed)
    /\ argc \in 1..Len(argv) + 1
    /\ current \in 1..Len(argv) + 1
    /\ nextKeep \in 1..Len(argv) + 1
    /\ \A o \in declared : results[o].count \in Nat

\* The words that are kept are moved down in the array that is being read:
\* none lands on a word still to be read, and no step goes past the end, which
\* the loop would then miss, since it ends at current = argc exactly.
UnreadIntact ==
    /\ 1 <= nextKeep /\ nextKeep <= current /\ current <= Len(typed) + 1
    /\ Len(argv) = Len(typed)
    /\ \A k \in current..Len(typed) : argv[k] = typed[k]

\* What is left for the program are the words that are neither flags nor their
\* arguments nor the first "--", each at its place among them.
KeptExact ==
    phase = "parsed" =>
        /\ argc - 1 = KeptUpTo(Len(typed))
        /\ \A k \in KeptWords : argv[KeptUpTo(k)] = typed[k]

\* An option has the meaning of the last text it was given, whichever of its
\* names was used and whatever the text looks like, if its type can hold it,
\* and its default if it was never given.
ValueMeant ==
    phase = "parsed" => \A o \in declared :
        /\ (results[o].count > 0) <=> (Givers(o) # {})
        /\ IF Givers(o) = {}
           THEN results[o].value = {Meaning(o, o.default[i]) : i \in DOMAIN o.default}
           ELSE LET text == TextOf(o, Max(Givers(o)))[1] IN
                Fits(o, text) => results[o].value = {Meaning(o, text)}

\* A command line is refused only for a flag that is wrong.
RefusedForCause == phase = "thrown" => \E k \in DOMAIN typed : BadFlag(k)
=============================================================================
