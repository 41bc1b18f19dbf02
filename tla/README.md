# TLA+ specifications of the SOCKSv5 proxy

The program is a SOCKSv5 proxy in C: one thread runs an event loop over
non-blocking sockets, each connection is a small state machine, names are
resolved on threads of their own, and a text protocol on a second port manages
users and reports metrics. This directory models it in TLA+, checks the models
with TLC and proves some of what they promise with TLAPS. Paths below are
relative to `src/src/`.

To check a run: `tlc -config MCCopy.cfg MCCopy`. To check proofs:
`tlapm BufferProofs.tla`. `PROJECT.json` maps every definition to the lines it
models and lists the runs, the mutants that each property catches, the hazards
and the findings.

## 1. Inventory

| Component | Files | State | Operations | Hard because |
|---|---|---|---|---|
| buffer | `server/buffer.c` | array, `read`, `write` | `buffer_write_ptr`/`_adv`, `buffer_read_ptr`/`_adv`, single bytes, compaction | pointers move in any order; a gap in front of the content is not writable |
| copy | `server/copy.c` | two buffers, two EOF flags, interests | `copy_read`, `copy_write`, one calling the other | two directions, partial and refused sends, half-close, a stale snapshot |
| selector | `shared/selector.c` | table by descriptor, prototype `fd_set`s, `max_fd`, job list | register, unregister, set interest, select, notify | numbers are reused inside an iteration; a thread notifies by signal |
| stm | `server/stm.c` | current state | dispatch by event, `abort()` without a handler | an event no state expected |
| socks5 | `server/socks5.c` | a `client_data` per connection | accept, event entry points, `socksv5_done` | two registrations, one object, freed by the last close |
| negotiation, authentication, request | `server/negotiation.c`, `authentication.c`, `request.c` | parser, reply buffer, list of addresses | read, parse, reply; resolve; connect; retry | clients that pipeline, stop or leave; asynchronous `connect`; origin that speaks first |
| parsers | `server/*_parser.c` (three) | automaton state, 8-bit counters, one buffer for the three | one byte at a time | cuts anywhere, pipelined messages, lengths of zero, widths |
| users | `server/users.c` | array of accounts, `admins`, `max_users` | create, delete, change status or password, log in | counter kept by hand; array resized under it |
| accesses | `server/users.c`, `shared/logger.c`, `server/request.c` | a growing string per account | create, append, free | strings move with their accounts; a connection keeps a name, not an account; `malloc` and `realloc` fail |
| manager | `server/manager.c` | a session per connection | text commands | login in two commands; one `recv` is taken for one command; a session outlives its account |
| metrics | `server/metrics.c` | counters | add, read | signed results added to unsigned counters |
| start-up | `server/main.c`, `shared/args.c` | | options, sockets, loop, shutdown | shutdown frees what resolver threads use |
| netutils, generic parser, client, example, tests | | | | not part of the server's behaviour |

How they interact. `main.c` creates the users, then the two passive sockets in
the selector. The selector calls handlers by descriptor; `socks5.c` passes the
event to the stm, the stm to the handler of its state, and the state that
handler returns decides whether the connection is closed. A handler changes
interests, registers the origin's socket, and in COPY writes to the other
descriptor itself. A resolver thread writes the list of addresses into the
connection, pushes a job and signals the loop's thread; the loop runs
`request_resolve` for it. Authentication reads the users that the manager's
commands change; `request_write` appends to a user's access log. All of it but
the resolver threads runs on one thread, so interleaving means the order of
handlers, of the kernel's and the peers' steps, and of the threads'
notifications.

What makes each correct:

* buffer: bytes come out once and in order; draining gives the whole room back.
* copy: both streams arrive intact; no byte waits without the interest that
  will move it; the connection ends, and only for a reason.
* selector: `pselect` is asked about exactly what is registered and watched; no
  descriptor is out of its range; a finished job is handled; a handler runs for
  an event of its own registration.
* several connections: no descriptor is shared or leaked, the current ones are
  counted, a resolver finds the connection it works for, and none starves.
* connection: descriptors held and registered are the same; each phase is
  answered once, and truthfully; a waiting client is answered; a client that
  leaves is noticed; no event reaches `abort()`.
* users: the table is a map from names, within its limit, whose last
  administrator cannot be deleted.
* accesses: every string has one owner, fits its buffer, and holds only what
  was done in its account's name.
* manager: who enters is an administrator; a reply is true; a refusal changes
  nothing.
* parsers: what they take from the stream is a message of the grammar, the
  reply is the one the message calls for, and no byte is lost between them.

## 2. The modules

| Module | Models | Kind |
|---|---|---|
| `ByteFifo` | a bounded queue of bytes with a gap | abstract specification |
| `ByteQueue` | the value of a buffer for its users | operators |
| `Buffer` | `buffer.c` by pointers | detailed; implements `ByteFifo` |
| `Copy` | `copy.c` under the loop, between two peers | one connection in COPY |
| `Selector` | `selector.c` and the threads that notify it | component |
| `Socks5` | `socks5.c`, `stm.c` and the handshake's handlers | one connection |
| `Server` | several connections of `socks5.c` over one selector, its jobs, the counter of `metrics.c` | composition, over what is proved of `Selector` |
| `Accounts` | a map from names to accounts | abstract specification |
| `Parsers` | the three parsers over the buffer of a connection | component |
| `Users` | `users.c`, the command line, the manager's account commands | detailed; implements `Accounts` |
| `StringBuilder` | the growing strings of `logger.c` | operators |
| `Access` | the string of every account, and the connections that append to it; extends `Users` and `StringBuilder` | composition |
| `Manager` | the sessions of `manager.c`; extends `Users` | composition; its steps are steps of `Users` |
| `BufferProofs`, `CopyProofs`, `SelectorProofs`, `UsersProofs`, `ManagerProofs`, `ParsersProofs`, `Socks5Proofs` | | theorems |
| `AccessProofs` (extends `UsersProofs`) | | theorems |
| `MCBuffer`, `MCCopy`, `MCSelector`, `MCSocks5`, `MCServer`, `MCParsers`, `MCAccess`, `MCManager` | | bounds for TLC |

A definition whose comment begins with "Mutant" is not part of a model. It is
the next definition (the one it is named after) with a plausible bug; replacing
one by the other must break the property `PROJECT.json` pairs it with.

### Buffer

`data`, `read`, `write` are the struct's pointers, as offsets. The five actions
are the uses the server makes of it: `recv` into `buffer_write_ptr`,
`buffer_write`, `buffer_read`, `send` from `buffer_read_ptr` and
`buffer_compact`. Counts of -1 (a failed call) are included: both `_adv`
functions ignore them. `ImplementsFifo` maps the pointers to `ByteFifo`: the
content is what lies between them, the gap is `read`.

`Copy` and `Socks5` use `ByteQueue`, the value `Buffer` is shown to implement:
its `Extend`, `Consume` and `Compacted` are also what `ByteFifo`'s actions do.

### Copy

`buf`, `eof` and `state` are fields of `client_data`, indexed by side, since
`copy.c` treats both sides by the same code with different arguments. The
kernel's half of each socket is a receive queue, a send queue of `SndBuf` bytes
and flags. A byte is its number in its sender's stream, so that loss,
repetition and reordering show. `selector_select` takes the snapshot,
`handle_iteration` dispatches one entry of it, `pending`, in the order `Before`
gives (ascending descriptor, read before write), checking the interest again as
the code does; peers act in between. `copy_read_data` contains the call of
`stm_handler_write` on the other descriptor, in the same step, with the same
three outcomes as a write of its own. `first` says which descriptor has the
lower number: the origin's may, when another connection freed a lower one.

Two things a reader may not expect are the code's. The end of *either* stream
ends the connection: `EofAfter` marks the other side as ended too when nothing
is waiting for it. And an ended side that stays readable makes the loop spin
until the buffers drain; it does not wedge, which is what `NeverWedged` and
`EventuallyCloses` are about.

### Selector

`used` and `interest` are the slots of the table; `master_r/w`, `slave_r/w` the
prototype sets and the snapshot; `cursor` the position of the two checks per
slot in `handle_iteration`. A handler is anything that makes up to `MaxCalls`
calls of the interface. It closes what it unregisters and what it opens has
the lowest free number, as in POSIX. `notify_push` waits for
`resolution_mutex`, which the loop holds while it walks the jobs. The signal is
blocked except inside `pselect`, so a pending one interrupts the next `pselect`
before a descriptor is looked at. `Worker` threads run at most one job per
descriptor, as `handle_request` starts one and leaves the state. The shifts of
`next_capacity` are a recursive function, `power`, of which a proof can say what
it cannot say of an exponent.

The table has the size `selector_new` gives it when `main.c` asks for
`ITEMS_MAX_SIZE` elements (`fd_size`). `ensure_capacity` is not an action: with
that size it never grows the table, which is a theorem (`TableNeverGrows`) and
not a bound of the run.

### Socks5

One connection from `socks_v5_passive_accept` to the free. `slot` is the table
of `Selector` reduced to this connection's descriptors; `Return` is what
`socksv5_read`, `_write` and `_block` do with the state a handler returns, and
includes `socksv5_done`. A message is two pieces, the second naming its
outcome, so a `recv` may cut a message and may hold more than one; a reply is
two pieces, so a `send` may be partial. `initiate_origin_connection` is one
operator with its calls to `socket`, `connect`, register and set interest, and
its recursion over the addresses that fail at once, because it runs inside
one handler. Reads of a slot not in the table (COPY without an origin) make
`process` "wild", from where nothing is assumed.

The order in which ready descriptors are dispatched, which `Copy` and `Selector`
model, is left open here: every order is possible.

### Server

What the connections share: the numbers of descriptors, the snapshot of one
`pselect`, the jobs of the resolver threads and the counter of current
connections. A handler runs to its end before the loop does anything else, so
one run of a handler is one action, and its effect on the table is that on
`slot`: that the prototype sets say what the slots say and that no slot is
beyond `max_fd` is proved of `Selector` (`FdSetsMatch`, `MaxFdIsMax`), and the
snapshot is taken from the slots for that reason. `pending` is what the iteration
has not looked at, in the order of the table, reading before writing, and the
interest is checked again, but by number, as the code does. `accept` and
`socket` return the lowest free number.

It is simpler than its parts where they are modelled elsewhere: the handshake up
to the request is one state, which reads and writes in any order; bytes are not
counted; a `connect` is never answered at once (finding 4 of section 6); a
connection without an origin only ends in COPY. `process = "aborted"` is one of
the `abort()`s, and nothing is said of the server from there. `Return`,
`socksv5_done`, `initiate_origin_connection` and `request_connect` have all the
outcomes that release, replace or pass on a number.

### Parsers

`phase` is the state of the stm while it reads, `parser` the union `handshake`
of `client_data`: one parser at a time, initialised on entry to its state, over
the one buffer that outlives them. A byte has `Width` bits and the counters of
the code wrap with it; the sizes of addresses are constants, so that a model
with bytes of four bits has them smaller. A step is one `recv` of any number of
bytes and the run of the parser over them. The grammars (`IsNegotiation`,
`IsAuthentication`, `IsRequest`) are written without the automata, from what
the code takes a message to be: a count and as many methods, two strings
preceded by their lengths, an address by its type. `Parsed` is the loop of
`negotiation_parse` and its sisters: it stops when the parser has ended or the
buffer is empty. Where a length of 0 makes a
counter go round, the grammar says so too. `stream`, `taken` and `msg` are
history: what was sent, what the parsers have read, and the part of it this
phase has read.

### Users

`users` is the array, `cantUsers` its length; `admins` and `max_users` the other
two globals. Each function of `users.c` is an operator with its early returns;
`main_new_user` and the `handle_` actions are its callers. What is stored is
`Stored[w]`, the word cut to 255 bytes, while the lookup is by the whole word;
`WordsFit` says that no word is cut.

### Access

`access[i]` is the pointer of `users[i]`, `heap` the strings by address, NULL
included where `malloc` fails. The commands of `Users` are repeated with what
they do to the strings; `Record` is `sb_append` as `request_write` uses it,
through the name that `authentication_read` left in the connection, whether or
not the password was right. By then the account may be gone, or be another of
the same name. If it is gone, `create_access` writes to `users[-1]` and
`process` becomes "undefined": nothing is said of it from there.
`StringBuilder` keeps of a line its owner and its size, and the doubling of the
buffer. `request_write` makes a line with some fifteen calls of `sb_append`, each
with a `realloc` of its own whose failure nobody looks at; so when the line does
not fit, what is left of it is the whole, nothing, or any piece (`Pieces`).

### Manager

`session` is `manager_data` by connection: logged in or not, whether USER was
accepted, and the 50 bytes kept of the name. One action is one `recv`, taken
as one command and run to its reply (`manager_read`); it is refused, run
through `handle_auth_command` or through `handle_command`. A line is a record of
its command and its arguments; the arguments a command does not take are not
told apart. `last` is the reply with what it answers, for the properties only
(`VIEW` hides it from TLC). `Given` is the test for missing arguments at the
top of each handler, and the operations behind it are `Users`'. `granted` is the
answer of `realloc` in SET-MAX-USERS: without memory it is refused and the limit
stays.

## 3. The runs

Passing runs:

| Run | Bounds | Shows |
|---|---|---|
| `buffer` | 4 bytes, 2 values | pointer order, refinement of `ByteFifo` |
| `copy_safety` | buffers of 3, 1 byte of socket room, 4 and 3 bytes sent, 0, 1 or 3 of them early | stream integrity, nothing unwatched, nothing dropped, errors only on reset |
| `copy_liveness` | the same, 4 and 1 bytes, none early | data is forwarded, streams are delivered, connections end |
| `selector` | 3 descriptors, 2 threads, 1 call per handler | `fd_set`s and `max_fd` are right after any calls, and no wake-up is lost |
| `server` | 3 connections, 5 descriptors (one listens) | numbers have one owner, connections are counted, resolvers find their connection, a `connect` that was answered is seen to |
| `socks5_safety` | every way through the handshake, pipelining, 2 addresses | descriptors, replies and their truth |
| `socks5_polite` | clients that wait, 1 address, `connect` that succeeds at once too | answers, leavers, no `abort()` |
| `parsers` | bytes of 4 bits, addresses of 2 and 3 bytes, a buffer of 12, each field right and wrong in turn, any cut, pipelining | parsers take exactly what the grammars say, reply accordingly, and lose no byte |
| `access` | 3 names, a limit of 1, 2 or 3, 3 addresses, 2 connections, 2 lines per string | ownership of the strings, their room, whose lines they hold |
| `manager` | 3 names (one too long for a session), 2 passwords, 2 sessions, every line | refinement of `Accounts`, logins, replies |

Why these bounds. In `Copy`, three bytes of buffer are the
least that can hold two and still be read into: a stream may end while more
than one send is left to do (with two, a mutant that closes too early goes
unnoticed). One byte of socket room makes a send partial and the next refused;
a fourth byte needs the room of the first three to have been given back.
Capacity enters only through
"room or no room", and `BufferProofs` covers every capacity. In `Selector`,
three descriptors allow the handler of one to close the maximum and the handler
of the next to open its number again, before the loop has come to it; with one
call per handler, closing and opening fall in two handlers of one iteration. In
`Socks5`, a capacity of three pieces is one and a half messages: the buffer can
hold a message and the beginning of the next. Two addresses are one retry; two
origin numbers let the new socket differ from the old one or reuse its number.
In `Parsers`, four bits are the least that tell the type of an IPv6 address, the
reply codes and "no method" apart; names have 0, 1 and 2 bytes, so that a
counter is met at its first, at a later and at no value, and a buffer of 12
does not hold what a length of 0 makes it wait for (16 bytes). In `Access`, the
first line already outgrows a buffer of 1, a second one doubles it again, and
the lines of one user are of two pieces, one of which may be lost; with
3 names a deletion is of the first, the middle or the last account, and
2 connections can hold the same name or two. In `Manager`, the three names fill
the limit and leave one to refuse; "anabel" is kept as "ana", the name of
somebody else; two sessions are enough for one to act between two commands of
another; `UsersProofs` covers tables of any size. In `Server`, three connections
are one that closes in an iteration and two that then open descriptors in it;
five numbers are two short of what they want, so that `accept` and `socket` find
none left. With six numbers and four connections the same invariants hold.

`CHECK_DEADLOCK FALSE` is set for `Copy` and `Socks5`: a connection ends, and a
client that sends nothing more leaves its connection waiting for ever (the
server has no idle timeout); for `Parsers`, whose clients stop too; and for
`Access`, which ends with `close_users` and whose strings are bounded; and for
`Server`, which ends with an `abort()` and where nobody need connect. `Buffer`,
`Selector` and `Manager` never stop, and there deadlock is checked.

Runs that find a property violated (findings 1 and 2 of section 6):

| Run | Bounds | Violates |
|---|---|---|
| `socks5_abort` | an origin that may speak first | `NoAbort` |
| `socks5_retry` | 2 addresses | `ConnectIsWatched` |

Six more configurations each find a promise broken that section 6 lists. They are
kept to reproduce it and are not among the runs of `PROJECT.json`:

| Configuration | Module | Bounds | Violates |
|---|---|---|---|
| `MCSocks5Denied.cfg` | `MCSocks5` | a client whose password is refused | `DeniedMeansClosed` |
| `MCSocks5Immediate.cfg` | `MCSocks5` | 1 address, "ok" among the results of `connect` | `OneReplyPerPhase` |
| `MCSocks5Pipelined.cfg` | `MCSocks5` | a client that does not wait, a buffer of 8 pieces (all it sends) | `ClientAnswered` |
| `MCServerReuse.cfg` | `MCServer` | as `server` | `EstablishedIsConnected` |
| `MCManagerStatus.cfg` | `MCManager` | as `manager`, 1 session | `StatusRepliesTrue` |
| `MCManagerCut.cfg` | `MCManager` | as `manager`, one name stored as another | `UniqueNames` |

### Fairness

* `Copy`: the loop's own steps and each peer's reading are weakly fair. One
  thread runs the loop and never stops while a descriptor is ready (`main.c`'s
  loop has no other work). That the receiver keeps reading is the assumption
  under which forwarding can be promised at all. Sending, finishing and
  resetting are not fair.
* `Selector`: the loop's steps except `select_ready` are fair, handlers return,
  threads finish. Nothing need become ready and the timeout is not assumed to
  expire, so `JobsAreHandled` is owed to the signal alone.
* `Socks5`: the server's steps, `getaddrinfo` returning, `connect` being
  answered (or timing out, in the kernel), and a client sending what it has
  been allowed to. Leaving and an origin speaking are not fair. `MCSocks5Pipelined.cfg`
  has the same fairness: its client has sent all it has to send, and the server
  is not kept from going on by anybody.
* `Server`: an iteration goes on while something of its snapshot is due, and
  `pselect` returns when a descriptor is ready that needs nobody's doing (the
  socket of an answered `connect`). Clients, origins and resolver threads owe
  nothing, and a connection may be ready in every iteration.

## 4. What is proved

For every value of the constants:

* `PointersOrdered`, `DrainedReset`, `BufferImplementsFifo` (`BufferProofs`):
  `Spec => []TypeOK`, `[]DrainedIsReset` and the refinement of `ByteFifo`. The
  inductive invariant adds to `TypeOK` that equal pointers are at 0. Without
  it `DrainedIsReset` is not inductive: nothing else excludes pointers that
  meet in the middle. It is what the compaction inside `buffer_read_adv` buys.
  The refinement rests on lemmas about the content: a store appends
  (`StoreAppends`), an advance consumes (`AdvanceConsumes`), a compaction keeps
  it (`CompactKeeps`).
* `FdSetsAlwaysMatch`, `MaxFdAlwaysMax` (`SelectorProofs`): for every table size
  and every handler. `MaxFdIsMax` is needed for its own induction (unregistering
  searches only below the old maximum, which is enough because the old maximum
  was one), together with the types of the table. That the search's `CHOOSE`
  finds a maximum rests on a lemma (`BoundedHasMax`) from well-foundedness.
  Assumption: `SelectorAssumption`.
* `SelectorTypeCorrect`, and `TableNeverGrows`: the table `selector_new` makes
  when asked for `ITEMS_MAX_SIZE` elements covers every descriptor, whatever
  `next_capacity` rounds it to, so the test and the growth of `ensure_capacity`
  are never reached. It rests on `NextCapacity`, that the rounded size leaves
  room behind the number asked for, up to `MaxSize`.
* `AdminsAlwaysCounted`, `NamesAlwaysUnique`, `TableAlwaysFits` and the
  refinement `UsersImplementAccounts` (`UsersProofs`), for every limit, command
  line and set of names, from `UsersAssumption`. The counter and the room in the
  table (`CInv`) hold whether or not a name is cut: every operation works on the
  slot it found, and counts that slot, even if another one has the same name.
  That the counter stays in `Nat` when it is decremented follows only from what
  it counts. The uniqueness of names and the refinement have the premise
  `WordsFit`. `WithoutKeeps` is the lemma about the shift of a deletion, by a
  bijection between the slots before and after; in the refinement it becomes "the names lose one, the other accounts
  are the same", and the test `admins == 1` becomes "the administrators are not
  this one name alone".
* `ManagerProofs`, for any number of sessions and any lines, from
  `ManagerAssumption`. `ManagerImplementsUsers` is the step the others stand on:
  what a session makes the table do is a step of `Users` or leaves it alone, so
  everything `UsersProofs` says is inherited (`ManagedTableIsRight`).
  `OnlyAdministratorsEnter` needs the invariant `SInv`, that a session asked for
  a password has named an account, since PASS looks up whatever name it has.
  `RefusalsChangeNothing` is proved command by command, with no invariant at
  all: the reply and the change are decided by the same condition.
  None of these needs names to be unique, nor do the counter and the room of
  the table under the manager or its types (`ManagerTypeCorrect`).
  `RepliesAreTrue` combines the table's invariants (the account found is the
  only one of its name) with the fact that no command is answered before the
  loop begins; it and the refinement of `Accounts` have the premise `WordsFit`,
  without which two accounts may share a name.
* `Socks5Proofs`, for every buffer size, script, number of addresses and set of
  descriptors, from `Socks5Assumption`. `TypeCorrect` and `SlotsAlwaysMatch` rest
  on `Held`: a connection in a final state holds nothing and was freed once, any
  other holds the client and what it registered. It is kept because every
  handler ends in `Return`, and `ReturnHeld` says once what `Return` does with
  a table that registers what the connection holds; that a retry closes the
  old socket before it opens the new one is `ClosedRegisters` and
  `NewRegisters`. `PhasesAnsweredOnce` and `RepliesTellTheTruth` have the
  premise that no `connect` succeeds at once (with one that does they fail,
  section 6) and rest on `RInv`: how many pieces a state has been answered
  (`Stage`), what each may be (`Kind`), that something is queued exactly in the
  states that write, and which origin goes with which answer. That the client
  is not watched for writing in REQ_CONNECT is part of it: otherwise its
  readiness would be taken for the origin's.
  `NeverAborts` needs only that no origin speaks first: its invariant, `Silent`,
  is that every watched event has a handler in its state, except the reading of
  an origin that has said nothing. A handler that changes the state sets the
  client's interest too, and `ReturnMet` says what follows.
* `AccessProofs`, for any accounts, connections, lines and failures of `malloc`,
  from the assumptions of `Access`. `OneOwnerEach` does not need names to be
  unique, only that the array and the strings move together: one lemma each for
  the slot that is added, filled, or removed with a shift (`OwnedAppend`,
  `OwnedReplace`, `OwnedRemove`). `LogsAlwaysFollow` is an action property, of
  names, proved slot by slot: a step makes each slot new, or what one slot was,
  or that with one more line (`Slots`), and `SlotsFollow` turns this into what is
  said of names, which takes the uniqueness of names and so `WordsFit`. That a
  fresh or a freed string is no other slot's is `OneOwner` again.
  `AccountsUnderConnections` carries the refinement over. `StringsKeepToBuffers`
  is about `sb_append`: a buffer holds its lines and the terminating zero, for
  any capacity to begin with, any line and any piece of it. `DoubledIsEnough` says that some number
  of doublings, at most the bytes needed, is enough, so the `CHOOSE` of the
  first that is has one to find. `AccessTypeCorrect` needs the counter's meaning
  (`CInv`) too. Neither has the premise `WordsFit`.
* `CopyProofs`, for every capacity, room in the sockets, length of the streams
  and amount of early data, from `CopyAssumption`: `TypeCorrect` and
  `StreamsStayWhole`. `StreamIntegrity` says where every byte is, so it is nearly
  inductive; what it needs is the types, those of the sockets included, and that
  nothing is dispatched once the connection is closed. There is one lemma per
  outcome of a handler. That `copy_read` followed by the write it calls keeps
  both streams whole is proved by cutting the step at the state between them.
  The end of the phase, for the same constants: `WaitingIsWatched`, `NoWedge`,
  `ErrorsAreResets`, `AllForwardedAtDone`. None of the four is inductive, not
  even together. `Relaying` is what the handlers keep between them: only one
  direction ever has bytes waiting (`OneDirection`, since the reader of the
  other is not watched meanwhile), at most one side is marked as ended and what
  it sent has all been read (`OneEnded`, `ReadToEnd`), and after the origin's last bytes went out no
  read of the client can come before the read that ends the phase
  (`OriginEnded`). The last one is about the rest of the snapshot, `pending`, and
  is where the order of the dispatch and the second check of the interest
  matter. All of it has the premise `early = 0`: the first two properties carry
  it themselves, the other two theorems assume `Early \subseteq {0}`, while TLC
  checks those two with early data also (section 5).

* `ParsersProofs`, for every width of a byte that tells the constants of the
  protocol apart, every size of the addresses, capacity and script of the
  client, from `ParsersAssumption`: `ParsersTypeCorrect`,
  `MessagesParsedAsGrammar`, `ReadsUpToTheMessage`, `NoByteLost`. Automaton and
  grammar are two definitions of the same language, and what ties them is a
  relation between the state of a parser and the bytes it has read: `NegReads`,
  `AuthReads`, `ReqReads` while it goes on, `NegEnds`, `AuthEnds`, `ReqEnds` once
  it has ended. One byte keeps the relation (`NegByte`, `AuthByte`, `ReqByte`,
  the last in one lemma per field), and a parser in it that goes on has not read
  a message (`NegOpen`, `AuthOpen`, `ReqOpen`). `LoopReads` carries this over the
  loop of a `recv`: it stops at the end of the message and leaves the rest, or
  empties the buffer. The inductive invariant `PInv` has the relation for the
  phase in progress, `Follows`, and the properties for the last one to end;
  `NoByteLost` is tiling (`Tiles`): what a parser reads goes from the front of
  the buffer to the end of what was taken, across the change of phase too. The
  grammars' zero lengths are in it: a counter that starts at 0 comes round
  after `2^Width` bytes, whatever the width.

Induction. The lemmas above need facts about loops: that doubling reaches a
size, that a parser holds its relation after any number of bytes. Each is
proved by the set of the numbers for which it holds, which contains 0 and the
successor of each of its numbers, and so every number (`NaturalsIn`, from the
well-foundedness of `<`). A recursive function is first shown to be the
function its equation describes: one with that equation exists, being the
union of its finite beginnings (`Iterated`), and therefore `CHOOSE` finds it.

What is assumed. The named assumptions on constants are of types and of least
sizes. `2^Width \in Nat` is among them because the provers know nothing of
exponents; the other premises (`WordsFit`, no early data, no immediate
`connect`, no origin that speaks first) are written in the theorems that have them, and the runs or section 6 show what
happens without.

`DrainedIsReset`, `AdminsCounted`, `UniqueNames` and `TableFits` are proved and not
among the properties of a run: each is what a refinement needs at its own place,
and a bug that breaks one breaks `ImplementsFifo` or `ImplementsAccounts`. The
mutants of these two show it: a drained buffer left where it is, a counter that
misses a demotion, a name that is not looked up, a limit below the number of
users.

Only model-checked: all liveness (`EventuallyCloses`, `Forwarded`,
`StreamDelivered`, `JobsAreHandled`, `ClientAnswered`, `LeaverNoticed`,
`ConnectsAreServed`), which is beyond the proof system, and the invariants of
`Server`. Every other property that a passing run checks is stated by a theorem,
some of them under a premise.

## 5. What is not modelled, and caveats

* Early data. Bytes the client pipelines behind its request wait in
  `client_to_sv` until the client is readable again. If it then half-closes,
  they are never forwarded and the loop spins on a readable end of stream.
  `StreamIntegrity` and `NothingDroppedAtDone` are checked with early data; the
  liveness run and the guards `early = 0` of two properties exclude it.
* Pipelining. The parsers stop at the end of a message; what follows is parsed
  only after another `recv`. A client that pipelines and then waits is not
  answered (`MCSocks5Pipelined.cfg`), so `ClientAnswered` is otherwise checked for
  clients that wait for each reply.
* Failures of `malloc` (but for the strings and the sessions), `socket` (but for
  want of numbers), `getsockopt`, `getsockname`, `pthread_create`
  and `accept`; `selector_destroy`, the EBADF cleanup and the shutdown path.
* Several connections at once share the selector, the users and the metrics.
  `Server` has what the first and the last do to them, `Access` the second. The
  bytes and replies of a connection are looked at one connection at a time, with
  the effect of others in the numbers of descriptors (`first` in `Copy`,
  `OriginFd` in `Socks5`).
* The command line. `parse_args` is not modelled. `UsersAssumption` takes no more
  than `MAX_USERS` options: `args.c:91` means to refuse the others but `nusers` is
  never counted, so more of them are written past `args->users` (`args.c:124`);
  of that nothing is said.
* The manager's text: how a line is cut into words, the wording of the replies
  and what the commands that only look print. One `recv` is one line here as it
  is in the code, so halves of a command are lines of `Lines` like any other.
* The log of the server (`our_log`), which the build compiles out, and the
  conversions of `logger.c`; `netutils.c` and the generic `parser.c`, which the
  server does not use; the terminal client, the example and the tests.
* A length of 0 in a password or a domain name is modelled as what it is, a
  counter that goes round: `Parsers` says that 256 bytes are taken, and does not
  say that they should be.

## 6. Findings

In each of these TLC finds the quoted promise broken. The first two are runs of
`PROJECT.json`, the others configurations of section 3.

1. `socks5_abort`: an origin that speaks before the reply is out ends the
   process, since REQ_WRITE has no read handler (`server/stm.c:57`; the
   assertion is that of the line before).
2. `socks5_retry`: the retry of the next address clears the interest of its own
   new socket (`server/request.c:428`), which REQ_CONNECT is to watch
   (`headers/socks5.h:103`, "OP_WRITE sobre client_fd").
3. `MCSocks5Denied.cfg`: a refused client is led on to the request
   (`server/authentication.c:69`), where `headers/authentication_parser.h:33`
   says "it MUST close the" connection.
4. `MCSocks5Immediate.cfg`: a `connect` that succeeds at once is answered in
   `initiate_origin_connection` and again in `request_connect`
   (`server/request.c:353`); `headers/socks5.h:111` has REQ_WRITE alone answer,
   "Envía la respuesta de la conexión al cliente".
5. `MCSocks5Pipelined.cfg`: a client that sends its messages without waiting is
   never answered: what is in the buffer when a state is entered is parsed only
   after another `recv`, and none comes (`server/request.c:136`, and the reading
   state of every phase); `headers/socks5.h:54` says "AUTH_WRITE cuando está
   completo".
6. `MCServerReuse.cfg`: a number closed and used again inside one iteration is
   given the event of its predecessor (`shared/selector.c:471`). A handler closes
   a connection whose origin was ready to be written, two others of the iteration
   open their origins; the second has the number by then, so its `connect` is
   taken to be done and the client is told of a success, where
   `headers/socks5.h:106` says "cuando la conexión fue establecida".
7. `MCManagerStatus.cfg`: CHANGE-STATUS says that the role was updated of a user
   that does not exist (`server/manager.c:364` and `:366`, "El rol del usuario %s
   fue actualizado a %s.").
8. `MCManagerCut.cfg`: a name longer than 255 bytes is looked up whole and stored
   cut, so two accounts have one name (`server/users.c:53`), which ADD-USER is to
   refuse (`server/manager.c:315`); elsewhere the premise `WordsFit`.

Met while modelling, and in the models, without a configuration of their own:

* A connection refused asynchronously is closed without the failure reply: it
  is asked for with the key of the origin, unregistered two lines above
  (`server/request.c:426`). In `Socks5`, `req_generate_response_error` with a
  descriptor that is not in the table.
* "admin" takes one of the ten places that the usage message of `args.c`
  promises to `-u`, so the tenth is refused (`server/users.c:38`).
* `copy_write` adds `send`'s -1 to the byte counter (`server/copy.c:182`).
* The retry after a refused connect tries the same address again: the next one
  is looked at and never made current (`server/request.c:421`;
  `AddrsAfterFailure`).
* A session keeps only 49 bytes of a name (`server/manager.c:83`; `Kept`).
* CHANGE-STATUS may demote the last administrator, whom DELETE-USER refuses to
  delete.
* PASS without an argument, and a line of blanks, get no reply
  (`server/manager.c:113`); the "none" replies of `Manager`.
* A session stays an administrator when its account is deleted or demoted
  (`server/manager.c:143`).
* The line of an access goes to whoever has the name by then, and to `users[-1]`
  if nobody has (`server/request.c:184`, `server/users.c`); `LosesItself`.
* A password or domain name of length 0 takes 256 bytes of the stream
  (`server/authentication_parser.c:33`, `server/request_parser.c:69`).
* USER-LOGS copies accesses into 2048 bytes without a check
  (`server/manager.c:413`); the limit of SET-MAX-USERS is a `long` compared as
  an `unsigned int` (`server/manager.c:473`); `args.c:124` never counts its
  users (section 5). `ensure_capacity` tests `ufd > fd_size` where it means `>=`
  (`shared/selector.c:349`), out of reach with the table `main.c` asks for
  (`TableNeverGrows`). Met in reading, not modelled.

Properties that these break are checked in the passing runs with the cause
excluded: `OneReplyPerPhase` without the immediate `connect`, `NoAbort` with an
origin that waits, `ClientAnswered` with clients that wait, `ImplementsAccounts` with
names that fit, `RepliesTrue` of CHANGE-STATUS with users that exist.

## 7. Plan

What would come next, in order:

1. `Session`: an abstract connection (negotiate, authenticate, request, relay,
   end) that `Socks5` implements, and `Socks5` composed with `Copy` in place of
   the outline of COPY it has now.
2. `Server` with theorems of its own, `SlotsOwned` first; failures of `accept`, and
   the shutdown path with the resolver threads that outlive it.
