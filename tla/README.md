# network_countdown in TLA+

A formal model of `network_countdown`: a server and the clients of several
people at different places, who want to start something (playing music, a film)
at the same instant. One of them types `countdown 3`; the server measures the
round trip to every client, sends every client an order with its own delay, and
every client speaks the count. Clients can also type `write <text>`, which every
other client speaks, and `quit`. While somebody types, the terminals of the
others turn red.

The reference is the source under `src/`. Documents, comments and tests say what
the program is *meant* to do; where the code does something else the model
follows the code, and the difference is a finding (below).

## 1. Inventory

| Component | Source | State | Operations | Modelled by |
|---|---|---|---|---|
| Server select loop and dispatch | `src/countdown_server.hpp:139-342` | `client_metas`, `read_fds`, the index `i`, `delete_idxs`, open sockets | select, accept (and its failure) + init_ping, operator's line, one handler per message type, erase of the departed | `Server` |
| Countdown coordination | `src/countdown_server.hpp:277-319` | `i` (again), `j`, `rtts`, `n` | ping, wait for the pong, order, unlock | `Coordination` (promise), `Server` (how) |
| Typing lock | `src/countdown_server.hpp:229-276,313-317`, `src/countdown_client.hpp:156-161,235-240` | `lock_owner`; each client's terminal colour | lock when a line begins, relay, unlock after a write or a countdown | `Server`, `Client` |
| Client select loop | `src/countdown_client.hpp:109-270` | `ping_n`, `i`, `peer_names`, colour | connect + hello, line typed, end of input, one handler per message type, the ping loop | `Client` |
| Messages, `classify`, `recvloop` | `src/countdown_common.hpp:27-233` | the buffer | classification by prefix, one recv | `Network`, `Recvloop` |
| Message text | `src/countdown_common.hpp`, both others | none | formatting, `validate_wrap`, parsing, the command line, `format_say_countdown` | `MessageText` (partly) |
| Delay estimate | `src/countdown_server.hpp:17-21,288-312`, `src/countdown_common.hpp:47-49` | `rtts` | `now`, the measurement, `estimate_send_t` | `Synchrony` |
| Entry points | `src/countdown_server.cpp`, `src/countdown_client.cpp` | | options declared, checked, taken; help; interact | `EntryPoints` |
| Option parser (third party) | `src/cxxopts.hpp` | `argv`, `argc`, `m_results` | the parse loop, values, defaults, help | `OptionParser` (partly) |
| Stale copy of the common code, tests | `src/countdown_common.cpp`, `src/tests.cpp` | | not part of either program | |

**How they interact.** Only by messages on one TCP connection per client. The
server is one thread. It selects over the listening socket, its standard input
and the clients' sockets, and serves everything that select reported in one pass.
Hello, goodbye, lock, unlock and write are relayed to all other clients. A
`countdown_n` is not relayed: it makes the server leave its select loop for
PingN rounds of *write a ping to a client, block until that client sends
something*, then the orders, then an unlock for everybody. A client echoes the
first ping from its select loop and the others from a blocking loop of its own.

**What is hard about it.**

* *Two nested loops with one index.* The ping loop counts with the `i` of the
  dispatch loop it runs inside. After a countdown the dispatch goes on from
  PingN + 1, over a `read_fds` that was filled before the ping loop read from
  the same sockets; and it may go *back*.
* *Blocking reads that take anything.* A lock or a goodbye which a client sent
  before it saw the ping is read as the answer, and shifts all later answers.
* *Streams, not messages.* `classify` looks at the front of a buffer only; a
  recv may return several messages, and all but the first vanish.
* *A process may go at any point*: with or without goodbye, with or without
  unread data (a FIN or a reset), and the next writes succeed, fail or raise
  SIGPIPE accordingly.
* *Iterating and erasing*: indices to erase are collected during the dispatch
  loop and erased after it, "backwards". The option parser moves the words it
  keeps to the front of the array it is still reading.
* *Writes that block half-way*: a broadcast and the orders go to one blocking socket
  after the other. A client that does not read stops the server with the clients before
  it written to and those behind it not.
* *What never comes back*: sockets of erased clients are not closed, and a client
  whose input has ended never reads again.
* *Rough clocks*: a round trip is a difference of two whole seconds, the mean of
  round trips is an integer, and the first measurement is half left out.

**What makes each component correct.**

* dispatch: it never blocks on a socket that has nothing to read; it erases the
  clients that left and no other;
* countdown: every client gets every order once, in the server's order; server
  and client never wait for each other; a countdown that begins completes; every
  order rests on a round trip;
* lock: it is released by the unlock that follows a write or a countdown;
* clients: the number of pings is known before the first ping; the roster is
  exact; a shutdown stops everybody who was accepted;
* recvloop: no byte is lost, repeated or overtaken; it stays inside its buffer;
* text: what is typed reaches the speech command word for word, and never turns into
  another message;
* delays: a measurement is about what it measures, and so is a delay;
* option parser: a word is neither overwritten before it is read nor lost, an
  option means the last text it was given, and what is refused is wrong.

`PROJECT.json` lists every hazard at its line, with the properties aimed at it.

## 2. Modules

```
Network                      messages, streams, what a socket knows of its peer
 |-- Server                  countdown_server::interact
 |-- Client                  countdown_client::interact, one per client
      NetworkCountdown       both over one network; fairness; the properties
       |-- NetworkCountdownProofs    types; the dispatch index and the erase list; why the
       |    |                        server dies, what a client is told first, whom the
       |    |                        server forgets; what a step does to the streams
       |    |-- DeliveryProofs        orders arrive, nobody waits for the other, the program
       |                             implements Coordination; what users who take turns get
       |-- CountdownRefinement       the mapping onto Coordination
            |-- DeliveryProofs, MCNetworkCountdown
Coordination                 what is promised about countdowns
 |-- CoordinationProofs      all who are present agree
OptionParser                 cxxopts' parse loop and values
 |-- EntryPoints             the two main functions
      |-- EntryPointsProofs  what a command line becomes
      |-- MCEntryPoints      command lines
Recvloop                     recvloop byte by byte
 |-- RecvloopProofs
MessageText                  a line, word by word, from keyboard to loudspeaker
 |-- MessageTextProofs, MCMessageText
Synchrony                    the clock, the measurements and the delays
 |-- SynchronyProofs
```

`MCNetworkCountdown` holds the instances of the program for TLC.

The last four zoom in on code that `NetworkCountdown` takes as one step: it reads whole
messages where `Recvloop` reads bytes, carries records where `MessageText` has words,
counts the measurements that `Synchrony` computes with, and is handed `PingN` and
`Nick` by `EntryPoints`.

### Network

A message is a record: type, nickname, number. A stream is the sequence of
messages written and not yet received. `Chunks` are the buffers one `recvloop`
may return: a non-empty prefix of at most `RecvMax` messages, or an empty buffer
at the end of the stream. `RecvMax = 1` says that every message arrives alone (which
is what the code is written for); larger values let messages
coalesce, as TCP may.

`srvSide[c]` and `cliSide[c]` are what the two sockets of a connection know of the
other end: `open`; `fin`, when the peer closed after reading everything; `reset`,
when it closed with unread data, whose error is still to be delivered (after the
data that arrived before it); `broken` after the delivery: reads return 0 and
writes raise SIGPIPE, which no code handles and so ends the process. This is the
behaviour of Linux sockets; it is marked external in the map.

`unsent[c]` is how many messages at the end of `s2c[c]` the server holds back because it
blocks in a write: it has written to the clients before the full socket and to none from it on.
`Arrived` is what a client can have of its stream, and `Flowing` says that no write blocks.

### Server

One action is one visible effect of the thread between two points where it may
block or where other processes may be heard of.

| Action | Code |
|---|---|
| `Select` | lines 163-175; also the reset of `i` and `delete_idxs` for the pass |
| `Accept` | 176-186: accept, `push_back`, init_ping in one step (no reads between) |
| `AcceptFails` | 57-70 and 176-186, when accept returns -1: no descriptor is left, or the socket does not listen; the connection stays in the queue and the pass goes on |
| `OperatorQuits`, `Exit`, `OperatorMistypes` | 187-204: the shutdown is broadcast, and once it is written the process ends |
| `HandleHello` ... `HandleWrite`, `Discard` | 212-266, 320-332 |
| `HandleCountdown` | 277-288 |
| `Ping`, `Pong`, `PongFails` | 288-306, one exchange with one client |
| `Order` | 307-312, one turn of the loop: the order of the client at index `j` |
| `OrderFaults` | 17-21, `estimate_send_t` on an empty vector |
| `Send` | 107-116: the server goes on in a broadcast it blocked in |
| `Unlock` | 267-271 and 313-317, and the `++i` that follows the `break` |
| `RecvThrows` | the uncaught exception of line 210 |
| `DispatchEnds`, `Erase` | 206, 336-340 |

`spc` is the place in the pass. `NextIndex(k)` is the loop head: `k` is the first
index from `i` on at which FD_ISSET holds. `rtts[c]` is the size of the vector, all
that the control depends on. A broadcast (`WriteAll`) is one step as far as it gets: each
client reads only its own stream, so the moment between two writes shows to nobody.
It is cut short at a broken socket, where SIGPIPE ends the process, or at a full one, where
it blocks: the clients before it have the message, for the others it is in `unsent`, and the
thread takes no step but `Send` until there is room (`ServerNext`). A broadcast to a client
that never reads again stays half done, with the server alive. Ping and order go to one client
each, `Ping` and `Order` being steps of their own, which are not enabled while the socket is full
(`WriteOne`): orders can be stuck half-way as well. `ordered`, `rtts0` (`rtts` when the last
countdown began) and `op_lines` are two histories and a bound, not code.
`n_countdowns` is left out: nothing reads it.

`Held` counts the sockets the process has: all it ever accepted, since erasing a
client does not close its socket. `MaxSocks` is how many it may have.

`Erase` of an index past the end is undefined behaviour; the two outcomes a build
produces are both there: the library moves nothing and drops the last element, or
the process faults.

### Client

`cpc[c]` is the place in the client's loop: `typing` is the blocking getline after
the lock went out, `pinging` the blocking ping loop, `leaving` the moment between
the goodbye and the exit. `deaf` is the loop once standard input is at its end
(`CloseInput`, for the clients in `Closing`): select reports it at every turn, so each
turn sends a lock, fails to parse nothing, and skips the socket (`LockAtEnd`). That is an
input whose last line had its newline. Without one getline leaves the line in `cmd` and it is parsed and sent at
every turn, which is what a `Script` with the same line many times does; no run has one. `Script[c][k]` is the set of lines the user may type as
the k-th; it bounds the model. `peer_names[c]` is the vector with duplicates
merged: the code only ever appends a name, removes all its copies and asks for
emptiness. `obeyed[c]` is the history of the orders carried out.

### NetworkCountdown

Composes the two (`Next` is one step of either), states fairness and every
property. `TurnSpec` restricts the *users*, not the program: they connect and begin
a line only while nothing is on its way, which is what the red colour asks for. A
connection that the server has no room for does not keep them waiting.

### Coordination and CountdownRefinement

`Coordination` knows no sockets: a number is asked for, and perhaps lost; it is called, and is
then under way to everyone present (`coming`); the call reaches them one after the other (`Reach`), and
nobody joins and nothing else is called before it has reached them all; each counts down what it is
owed, in order; clients come once and go at any time; the server ends at any time, perhaps having called some
only. Nothing is promised about *when* a call reaches somebody: with a client that
never reads again and whose socket is full, a countdown stays under way for ever, some
having been ordered and some not. `Coordination` has such behaviours because the program does. What it
excludes is that another countdown is called on top of it, or that the orders come in another order. `CountdownRefinement` says what of the program these are: `present` are the clients in
`client_metas` that still run, `owed` the orders in their streams, `done` their
`obeyed`, `coming` the order of those that the order loop has not come to, `asked` the countdown_n messages under way and the one the ping loop runs
for. Leaving the ping loop is `Call`, each `Order` is `Reach`; the pings, the locks and the swallowed answers are stuttering steps or `Lose`; a
server that dies between two writes of the orders is `Stop`. `CountdownsAgree` is the
agreement of `Coordination`, said of the program.

### Synchrony

Time in ticks, `Second` ticks to a second, `now` the whole seconds. A ping takes two
latencies, and the first of a countdown may wait for its client besides. `Measured`,
`accumulate`, `mean_rtt` and `estimate_send_t` are the code's integers; only the half second is
kept by counting in ticks. `spoken[c]` is when `c` begins to speak: order, latency,
then `sleep`.

### Recvloop

The peer sends messages that `validate_wrap` accepts; `arrived` bytes of the stream are in
the kernel, any number more at a time. `Recv` takes what there is, up to MAX_MSGLEN,
at the place in the buffer it has come to, and looks at the length afterwards. `Again` is the loop
condition: since the buffer was filled with zeros it only holds for a full buffer, and
then depends on the byte behind it, `beyond`, which may be anything.

### MessageText

A text is a sequence of words; an operator of a function that may throw returns the set
of its results. `Extract` is `>>` to an int: it leaves the variable alone at the end of
the text and stores 0 when no number follows. `Value` gives the number at the front of a
word (`4x` is 4), `Unfit` the words that make a message too long or hold a newline; the module's
assumption says that a number written out is a word in which the same number is found. The three
actions are the three processes a line passes. `command` is what the clients' command lines
have `say` speak, put together by the program; `said` is what is spoken, on the computer of the client
that wrote (`own`) and on the `others`. Between the two is the shell (`Shell`, external): it leaves alone a command
without words of `Special`, and with one of them it may refuse the command or have something else
said. `Special` are the words with a quote, an operator or an expansion of the shell's in them, and those with a dash in
front.

### OptionParser and EntryPoints

`argv`, `argc`, `current` and `nextKeep` are the parser's own (argv[0] left out). A word has
the form the regular expression finds in it, and a text for when it is read as an
argument. Parse functions return the set of what they store. `NextDigit` multiplies and
adds modulo `UMax` + 1, as the unsigned type does; `IntMax` is the largest int. Results are computed
digit by digit and option by option with recursive functions, as the code's loops do. `Role`, `Givers`, `TextOf`, `BadFlag` are
the reference: what a command line means, read from the line as typed. `EntryPoints` adds the
declarations of the two programs (`declared` is that of the one started) and what `main`
does with the outcome; `Uncaught` is `options.parse` throwing outside the try block.

## 3. Runs

Deadlock is not checked: a server that waits in select with every user gone or
silent is a correct final state, and the smaller models are of calls that return.

| Run | Model | What it shows |
|---|---|---|
| `join` | empty server, 2 clients, RecvMax 2 | typing; the ping count arrives first; the dispatch never blocks; the erase list increases, with two who leave in one pass |
| `implements` | one client idle, one to come; it may be killed, or lose its input; RecvMax 1, SockBuf 2 | the refinement of `Coordination`, with broadcasts and orders stuck half-way; orders delivered exactly once in order; no mutual wait, and every wait for an answer ends; the clients agree; only the departed are forgotten, two in one pass included; what the server dies of |
| `crowd` | 6 clients, 1 ping, RecvMax 1 | the index goes back, erase past the end: orders and exchange are still right |
| `turns` | empty server with room for 2 of 3, RecvMax 1 | with users who take turns: liveness and exactness, while accept fails at every turn |
| `delays` | 2 clients, 3 pings, 2 countdowns | how far a measurement and a delay can be off |
| `bytes` | 3 messages of up to 4 bytes | no byte lost, repeated or overtaken; the one cause of an overrun |
| `texts` | lines of up to 3 words, 4 nicknames | what is typed reaches the command lines word for word, and is no other message; countdowns are spoken as asked |
| `options` | both programs, command lines of up to 3 words | argv intact, the right words kept, each option as it was meant, refusals justified |
| `missed_pong`, `crowd_erase`, `delays_apart`, `coalesced` | 2 clients; 6; 2; 2 with RecvMax 2 | the findings |

**Start states.** `join` and `turns` begin at `Init`. `implements`, `missed_pong` and `coalesced` begin
where earlier joins have been handled and nothing is on its way (`Idle`):
`read_fds` and `i` have the values the last pass left. `CrowdInit` is such a state after a
countdown, `lock_owner` the first user who ever typed, with the
messages of six users on their way; the comment in the module tells the pass by
which it is reached. Starting there buys depth: six clients from `Init` are out of
reach.

**Bounds.** Two clients are the least with a relay, a conflict over the lock and a
ping loop over more than one socket, and enough for a roster in which one client
sees another join later and leave; the third of `turns` is there to be refused. `PingN` is
2 in `implements`, `turns`, `missed_pong` and `coalesced`, the least for the client's blocking loop
to exist at all, and 1 in the others, which makes the index leave the ping loop at its
smallest value and so reach back farthest. Six clients in `crowd` are the fewest for
which a lower index is collected after a higher one. One or two lines per user bring
about every pair of overlapping commands, and two countdowns of different users over each
other. `SockBuf` 2 in `implements` is soon filled by what is sent to a client that does not read, so that blocked
writes are reached: a relay or an unlock written to one client and not to the other, and orders of which the
first is out and the second is not; the other runs never fill it. `MaxSocks` 2 in `turns` makes accept fail.
`OpLines` is 1 where the operator takes part.

`IntMax` 127, an int of eight bits, has the same edges as one of 32 (the least int, the greatest, numbers that wrap
past the overflow check), and three words are a flag, its argument and a word to
keep, or an option given twice. Buffers of four bytes hold a message exactly, or two
short ones; three messages are enough for a buffer with the end of one, a whole one and
the start of another. Latencies of 0 to 9 ticks of a quarter second lie on both sides of
one and two seconds; a third ping is the least for a mean of two.

**Fairness.** `Fairness`, in `TurnSpec` and `implements`, assumes weak fairness of each
process: of the server (`ServerStep`) and of what each client does by itself (`ClientRuns`). Each
is an operating-system process that is scheduled when it can go on; a step of
theirs that is enabled stays so until it is taken, since only its owner reads a
stream. Nothing is assumed of users or the operator: they owe no line,
nor the end of a line begun. A kill is never fair, nor is the end of an input.

**What the passing runs say.** Under TCP that delivers messages one by one and
users who take turns, the program works: every countdown completes everywhere
(`CountdownCompletes`), on measured round trips (`AllRoundTrips`), the server stays
up, rosters and shutdown are right, and a client it cannot accept costs time but
nothing else (`Heard`). Without turns, orders still are delivered exactly once in one order,
and the exchange never waits on itself; without any timeout, the only thing that can hold
the wait for an answer is a line that a user keeps open (`PongWaitEnds`), as long as the end of a client is signalled.
What the clients see is what `Coordination` promises (`Implements`), whatever answers were lost on the
way and wherever a write got stuck. When both clients leave in one pass the walk
from the end of the list erases both; walked from its front it would run past the end of the vector. The server dies of two things only (`CrashHasACause`): a client it has not erased ended
with its connection reset, or a client it has no round trip of is to be ordered a countdown; clients that quit and were
erased, and indices, never cost its life.
`DispatchNeverBlocks` holds for a non-obvious reason: the ping loop can only leave the dispatch at
index PingN + 1 or beyond, and up to PingN + 1 clients there is nothing there.

### Findings

1. `missed_pong`: the ping loop takes a lock for an answer; no round trip is
   recorded for that client, and the estimate divides by zero or reads past the
   end.
2. `crowd_erase`: the list of indices is not increasing once the ping loop has
   moved `i` back, and reversing it does not make it decreasing.
3. `delays_apart`: the delay of a client is half its *own* round trip, so the one the order
   reaches last also sleeps longest.
4. `coalesced`: a ping that arrives in one buffer with a relayed lock is thrown away, although a
   newline is said to end a message; the server waits for its answer, the client for another
   message, and nobody is served any more.

Each is quoted with its lines in `PROJECT.json`.

### Other divergences

Seen while modelling; the models show them, but no run is kept for them.

* Nothing clears `lock_owner` after a write or a countdown (`countdown_server.hpp:268,314`); the
  first user who ever typed is named in every unlock.
* `PING_TIMEOUT` (`countdown_common.hpp:45`) is not used.
* "You are the last one here" (`countdown_client.hpp:199`) is told to clients that only know
  of later joiners.
* The sockets of clients that quit stay open (`countdown_server.hpp:339`); with `MaxSocks` 1 a client that
  waits is never accepted, even when nobody is left.
* A client without input never reads again (`countdown_client.hpp:172`); once its socket is full the
  server blocks in `broadcast` or in the orders, with the clients before it written to.
* From the second countdown on the first round trip of a countdown is summed
  (`countdown_server.hpp:18-19`), and the divisor counts one measurement more than the sum, so that
  the mean may lie below all it was made of.
* recvloop returns a part of a message like a whole one (`countdown_common.hpp:199`).
* `write <x>` is said by "every client's computer" in `README.md:24`; the server leaves out the one it is
  from (`countdown_server.hpp:264`), which does not speak it by itself. In `MessageText` that is `said["own"]`.
* The same text goes to the shell without quotes (`countdown_client.hpp:14-19,243-244`): of `write don't` the shell
  finds the quote unmatched, and nothing is said.
* `countdown abc` counts from 0 and not from the default (`countdown_client.hpp:91`).
* A nickname of two words comes out of `parse_greeting_common` as its first.
* `options.parse` throws outside the try block that reports option errors
  (`countdown_server.cpp:49`, `countdown_client.cpp:19`).
* `--ping_n=0` is taken by the server and refused by every client (`countdown_client.hpp:39`).
* The overflow check of `integer_parser` wraps itself (`cxxopts.hpp:577`), and `checked_negate`
  is given the least int although its comment excludes it (`cxxopts.hpp:514`).

## 4. Proofs

All theorems but three are about `Spec`: no fairness, any users, any kills; the three are about
`TurnSpec`, whose fairness they do not use. The constants are arbitrary but for the `ASSUME`s of
the modules, which say what kind of thing each is, and what a theorem names:

* `FewClients`, at most PingN + 1 clients: the ping loop's index then leaves no index for the
  dispatch loop to go on with;
* `RecvMax = 1`, every message arrives alone: with more, an order behind another message in
  one buffer is lost, and the theorems that name it are false;
* `PingN >= 1`: the option parser takes any number, and a client refuses one below;
* "turns": `TurnSpec`, `RecvMax = 1`, `PingN >= 1`, `Killable = {}` and `Closing = {}`. Each is needed: users
  who type over each other have a lock read as an answer (`missed_pong`), and so has a client without
  input, which sends one at every turn; two messages in one buffer
  lose the second, without pings there is no round trip to make a delay of, and a client that is killed
  breaks its socket, which ends the server (`CrashHasACause`). A name that two users chose is
  forgotten with the first of them (`NicksDiffer`);
* `DefaultsFit`: the defaults declared are of their option's type.

TLC finds every invariant below true on instances. Every invariant and action
property that a passing run checks is stated by a theorem.

| Theorem | States | Needs |
|---|---|---|
| `TypeCorrect` | `TypeOK` | |
| `ConnectionsDistinct` | a connection is in one place | |
| `DispatchSafe`, `EraseSafe` | `DispatchNeverBlocks`, `ErasesBackwards` | `FewClients` |
| `DeathExplained` | `CrashHasACause` | `FewClients` |
| `PingInitFirst` | `InitPingFirst` | `PingN >= 1` |
| `ForgetsOnlyGone` | `ForgetsOnlyTheDeparted` (an action property) | `RecvMax = 1`, `FewClients` |
| `OrdersReach`, `NobodyWaitsForTheOther` | `OrdersDelivered`, `NoMutualWait` | `RecvMax = 1` |
| `ProgramCoordinates` | `Implements` (the refinement) | `RecvMax = 1`, `FewClients` |
| `ProgramAgrees` | `CountdownsAgree` | `RecvMax = 1`, `FewClients` |
| `Survival`, `RoundTrips` | `ServerSurvives`, `AllRoundTrips` | turns |
| `RosterKnown` | `RosterExact` | turns, `NicksDiffer` |
| `AllAgree` | the same of `Coordination` | |
| `NoByteLost`, `OverrunOnlyFull`, `StaysInBuffer` | `Recvloop`'s `BytesInOrder`, `OverrunHasACause`, `TypeOK` | |
| `MeasuresWithin`, `DelaysTyped`, `DelaysBounded` | `Synchrony`'s `MeasuredWithin`, `TypeOK`, `DelayBounded` | |
| `NoWordOverwritten`, `WordsLeft`, `RefusalsCaused` | `UnreadIntact`, `KeptExact`, `RefusedForCause` | |
| `LastTextCounts` | `ValueMeant` | `DefaultsFit` |
| `NoValueMissing` | `ValuesPresent` | the two programs' own options, `IntMax >= 95` |
| `OneMessageEach`, `WordForWord`, `CountedDown` | `OneMessage`, `WritesSaid`, `CountsAsAsked` | |

**`TypeCorrect`** (`NetworkCountdownProofs`): `Spec => []TypeOK`. `TypeOK` alone is not
inductive: `FinishLine` takes the next set of lines of a script, which has a type only when
there is one. `IndTypeOK` adds the fact that sees to it, that a user in state `typing` has a
line left (`LinesOwed`), and what clients know of the server's end (`EndKnown`). One lemma per group of actions (`DispatchKeepsTypes`, `ServerKeepsTypes`,
`OnMessageKeepsTypes`, `ClientKeepsTypes`) rests on lemmas about the operators they
share (`ChunkType`, `AfterType`, `WriteAllType`, `WritesType`, ...).

**`ConnectionsDistinct`** (`NetworkCountdownProofs`): `Spec => []OnePlaceEach`. A connection is in
the backlog or in `client_metas`, once. A client connects only from `off` and never
returns to it (`ClientStepFacts`); accepting moves a head to an end (`TailDistinct`,
`AppendDistinct`) and erasing takes one element out (`RemoveAtDistinct`,
`FrontDistinct`). So different indices are different sockets, and `client_metas` is no
longer than there are clients (`DistinctLength`).

**`DispatchSafe`** and **`EraseSafe`** (`NetworkCountdownProofs`): under `FewClients`, at most
PingN + 1 clients, `Spec => []DispatchNeverBlocks` and `Spec => []ErasesBackwards`. The
inductive invariant is `DispatchOK`, on top of the two above: what `select` reported at
the indices still ahead is still to be read, and what is to be erased lies behind.
Three steps carry the argument.

* A handler reads only from its own socket, which is then behind (`<1>served`,
  `<1>relay`); the others keep what they hold, since a client never takes anything away
  from the server (`StaysReadable` in `ClientStepFacts`) and a write opens no socket
  again (`SidesStayShut`).
* A countdown reads from all sockets, and this is where the theorem could fail. Its ping
  loop ends with `i >= PingN`, the loop goes on at `i + 1`, and with at most PingN + 1
  clients no index is left (`<1>14`).
* `Erase` takes the last index of an increasing list: all the others are lower, and
  stay in range when the vector gets shorter (`<1>17`).

`FewClients` cannot be dropped: `crowd_erase` and the finding it carries have six clients
and one ping.

**The streams** (`NetworkCountdownProofs`). The theorems after this one all ask what a step does to the
messages under way, so that is proved once: `ServerTraffic` and `ClientTraffic` (which message a
step may take from which stream, which it may add, what becomes of the sockets),
`ServerAppends` (all that the server does to a client's stream is to put messages behind it),
`LineSays` (what a typed line becomes). `OrdersIn` picks the orders out of a stream by a
recursive function over its length. What it does to a stream that grows at its end
(`OrdersInAppend`) or loses its head (`OrdersInTail`) needs induction over that length
(see *Induction* below).

**`DeathExplained`** (`NetworkCountdownProofs`): a socket of the server is only broken or reset when its client has
ended (`JoinOK`), and the clients the server writes to or reads from are those in `client_metas`; so a write or a
read that ends it has its cause there (`CrashExplained`, which goes through the actions). That an index does not do it is
`InLoop` for the ping loop and `DispatchOK` for `Erase`, which is why `FewClients` is needed: past the end of the
vector, `erase` may fault with every client alive. An order to a client without a round trip is the cause that is left.

**`PingInitFirst`** (`NetworkCountdownProofs`): `JoinOK` says where the init_ping is. A client that has no
ping count yet has it at the head of its stream, or has an empty stream and is not in
`client_metas`: then nothing is written to it, and `Accept` writes the init_ping with the
`push_back`. Later writes go behind it.

**`ForgetsOnlyGone`** (`NetworkCountdownProofs`): `LeftOK`: a goodbye on its way to the server comes from a
client that is about to go, and what is to be erased are such clients. `EraseTakes` then says
that `Erase` takes that client and no other; this rests on `DispatchOK` (the list increases,
so the indices below stay right) and so on `FewClients`. With RecvMax above 1 a client may
send another's goodbye back behind a ping, and so seem to leave.

**`OrdersReach`** (`DeliveryProofs`): what a connected client has carried out, followed by the orders on
their way to it, is what the server ordered it (`ordered`). The danger is the client's blocking ping loop, which
takes whatever it reads for a ping. The invariant `DeliverOK` must therefore know that
no order ever meets that loop. It describes a stream from the reader's side: `Framed(x, s)` says
that a client waiting for ping x may read s, one message after the other, and
find ping x + 1 after ping x and nothing else between; `EndOf(x, s)` is what it waits for after that.
`InFrame` ties this to the server: in the ping loop, a client at index k has been sent the pings of
the rounds up to `Sent(k)`, and waits, when it has read them all, for exactly the
next. When `Order` or `Unlock` writes, all rounds are sent, so that every client waits for nothing. A server
that goes on to another countdown finds the same. Locks, relays and an accepted
newcomer need the same fact: `ServerKeepsDelivery` shows that each is written only
when its reader is outside the loop by the time it reads it. `FramedAppend`, `FramedTail` and
`AppendBehind` carry the sequence part. `FewClients` is not needed.

**`NobodyWaitsForTheOther`** (`DeliveryProofs`): `PongDue`, with `DeliverOK`: the client the server
waits for has written something, or has a ping still to read. `StaysSaid`: what a client has said
stays until the server reads it.

**`ProgramCoordinates`** (`DeliveryProofs`): every initial state is one of `Coordination` under the
mapping of `CountdownRefinement`, and every step is a step of it or leaves it alone. One lemma for each abstract
action says what it takes to be one (`Calling`, `Reaching`, `Joining`, `Stopping`, `Losing`, `Asking`,
`Counting`, `Leaving`); `ServerRefines`, `BusinessRefines` and `ClientRefines` go through the
program's: `Accept` is `Join`, the end of the ping loop is `Call` (`CallBegins`, `OrdersBegin`), `Order` is `Reach` (`OrderReaches`), a server that dies is
`Stop`, a read that does not begin a countdown is `Lose`; a line typed is `Ask`, an order read in the select loop is `Count`, an end, a kill
or a quit is `Leave`; all else stutters. A broadcast that blocks, or goes on, changes no order in a stream (`NoOrderWritten`, `HeldIsNoOrder`). Besides all invariants above it needs three facts. `AskedOK`:
what is asked for was typed by somebody, and the number the ping loop runs for is not negative.
`PlacedOK`: a client in business is in `client_metas` or in the backlog. `FreshOK`: one in the
backlog has never been ordered anything. `PlacedOK` is why `FewClients` appears: a client erased
by mistake would still count down what is on its way to it, and for `Coordination` it would have left.

**`ProgramAgrees`** (`DeliveryProofs`): instancing `CoordinationProofs` under the same mapping
makes `AllAgree` a fact about the program, by `ProgramCoordinates`.

**`Survival`** and **`RoundTrips`** (`DeliveryProofs`): what users who take turns rely on. The
users are restricted at one moment only, when a line or a connection begins; what the invariant `TurnOK` has to
say is how much of that is left at every later one. `Polite` says it. At most one client is `Busy`: it
is connecting, typing, or something it said other than an answer is still to be read; and nobody is
during a countdown or an unlock. So a member has at most one message besides locks on its way to the server,
the last (`SaysOne`, one disjunct for each kind, with who may send it and when); a ping is on
its way only to the client the server waits for, and only an answer with the expected number comes back (`HearsOne`,
`SaysOne`). From this every pong is counted (`RoundsOK`), no order goes out without round trips;
and since only a client that said goodbye has gone, whose goodbye is erased before anything is written to it again
(`EraseOK`), no write meets a broken socket. `ServerTurn` and `ClientTurn` go through the
actions; those that only read or only write share lemmas about what becomes of a stream. A write can block here as
well, at a client that has not yet read what it was sent: `WritesOn` says that whoever the
server holds something back from still listens, and that no socket it has still to write the shutdown to is broken;
`SendTurn` and `QuitTurn` that it gets through.
`RoundsOK` counts from `rtts0`, the round trips when this countdown began, so that those of an earlier one
cannot stand in for an answer that was missed.

**`RosterKnown`** (`DeliveryProofs`): on top of `TurnOK`, `Knowing`: what a client knows, corrected by the
names still on their way to it (`Told`), is who joined after it and has been introduced
(`Peers`). A hello and a goodbye are never under way together, which is what makes `Told` well defined
without an order; when all is quiet nothing is under way and `Told` is `peer_names`.

**`AllAgree`** (`CoordinationProofs`): of two clients that are present, what one has been
called to is an ending of what the other has. With the types it is inductive: a client
joins once, outside a call, and has heard nothing until then, which is an ending of everything; a call makes both sequences longer by the same number
(`LateViewAppend`); reaching a client and counting down move a number from `coming` to `owed` and from `owed` to `done`, which leaves
their concatenation (`Promised`) alone.

**`NoByteLost`**, **`OverrunOnlyFull`** and **`StaysInBuffer`** (`RecvloopProofs`): for any buffer size, any
number of messages and any pieces. The invariant says that a second turn of the loop
starts with a full buffer whose last byte is text, so that what is received then
comes after everything received before, and that what was sent is what was returned,
what is held and what is under way.

**`MeasuresWithin`**, **`DelaysTyped`** and **`DelaysBounded`** (`SynchronyProofs`): for any number of ticks in a
second. `NowBegun` brackets a time between two whole seconds, which makes the difference of two readings
off by less than one (`DifferenceOff`). The invariant adds the types of what a measurement is made of, and
`Paced`: how many measurements a client has in which round, and that over the first countdown the
first one only is of a first ping. So `Tail` takes exactly that one away, every measurement summed is below a bound, and
their sum below as many times that bound (by induction over the vector); dividing by one more than there are
only makes the delay smaller.

**`NoWordOverwritten`**, **`WordsLeft`** and **`RefusalsCaused`** (`EntryPointsProofs`): for any declared options
and any command line, `argv` from `current` on is what was typed, and `nextKeep <= current <= argc`. It needs that
`argc` is that of the line as typed until the very end, and that an option takes a
second word only when `NoneLeft` is false (`Inv`). The other two relate the loop to `Role`, the reference
that says from the line alone what each word is. `Placed` is the bridge: the word the loop has come to plays the role that
a first reading of it would give it. Then `nextKeep` counts the words kept so far (`KeptOK`),
and whatever makes the parser throw is at a word whose role makes it a bad flag.

**`LastTextCounts`** (`EntryPointsProofs`): `ResultsOK` says that each option holds the value of the last text
given before `current`, its default, or nothing, and that the count tells which. One
word may give several options, one after the other (`GivenInTurn`), and the same one twice. That a
stored value is the number meant is `ParsedMeans`: of a number that fits, no partial result is larger than the whole, so
the check that wraps never does, and what is computed modulo `UMax` + 1 is the number (`IntegersRead`).

**`NoValueMissing`** (`EntryPointsProofs`): with the declarations of the two programs (`ProgramsFit`) only the
nickname has no default, and `main` asks for that one. The port has two digits in the model; an int that
holds them is enough.

**`OneMessageEach`**, **`WordForWord`** and **`CountedDown`** (`MessageTextProofs`): for any words, numbers, nicknames and length of a
line. The invariant says of each stage what the message under way was made of: of the line (`Relayed`,
`Refused`) or of a message that was (`Answers`). `Written`, `Counted`, `Quitted` and `Ordered` say what each
formatter returns; `ReadBack`, that a number is read as it was written. What the shell does is not proved but assumed,
in the definition of `Shell`: `WordForWord` is unconditional as far as the command line, and says what is *spoken* only
of texts without `Special` words.

**Induction.** The library's induction theorem takes an operator and cannot be used here. For a *set* of
numbers the same follows from its theorem that a well-founded order has minimal elements
(`SetInduction`: the least number outside the set cannot exist), and that a function defined by recursion
exists (`UpToExists`, `RecursionExists`) is proved in that way. Each of the three modules that need it
(`NetworkCountdownProofs`, `SynchronyProofs`, `EntryPointsProofs`) proves it for itself.

## 5. Only model-checked

* Liveness (`CountdownCompletes`, `ShutdownReaches`, `Heard`, `PongWaitEnds`): the prover treats
  neither fairness nor ENABLED.
* `OrdersDelivered` and `NoMutualWait` are also checked in `crowd`, whose start state is not `Init`. The theorems are about
  behaviours from `Init`; the run about what happens after `i` went back.
* The findings: a counterexample is found, not proved.

## 6. Not modelled

* A host that vanishes without a FIN or a reset, the case a `PING_TIMEOUT` would be for: every end of a
  client reaches the server sooner or later.
* A client blocked in the write of a lock as its user begins to type: in the model the user begins when there is
  room. So a server and a client that block in writes to each other are not shown; it takes two full sockets.
* The shell and the speech program beyond what `Shell` says.
* A clock set back between two readings: the difference, an unsigned type in
  the code, would be huge.
* Descriptors beyond FD_SETSIZE, an accept that fails for other reasons, a connection that dies
  between connect and hello, the listen queue overflowing, a server whose socket never
  listened (nobody can connect to it).
* How much of a piped input one getline takes into the buffer of cin; the end of the server's own
  input.
* The date and the wording in a lock, a hello that parses to an empty name, and what the
  `say` commands run by `system()` do: they take time and change no state.
* Of the option parser: positional and unrecognised options, containers, groups, and the layout of the help. Neither
  program uses the former.
* `src/countdown_common.cpp` is an older copy that the Makefile does not compile; `src/tests.cpp`
  is read as documentation.

## 7. Where it stands

The two programs over their network, the promise they keep and the refinement, bytes, text, delays
and command lines are modelled; what the runs check of their safety is proved. What could be
added:

1. Of the hypotheses of section 4, `FewClients` in `ProgramCoordinates` is only needed because a client
   may be erased by mistake; an abstract specification that lets the server forget a client could do without.
2. `ServerSurvives` for users who do not take turns but whose lines do not overlap a countdown.
3. Reading several lines at once from a piped standard input, and a server that could not bind. The other hazards
   without a property are things the code always does, which the model shows and no property can forbid.
