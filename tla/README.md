# A TLA+ model of the swifties web server

The repository is a small HTTP server in C++ (Boost.Asio, Boost.Beast): one
thread, Basic authentication with a timeout, a table of request handlers filled
from an nginx-like configuration, and a CRUD API that keeps objects in files.
This directory holds TLA+ models of it, TLC runs on small instances, and TLAPS
proofs of the main safety properties for every instance. `PROJECT.json` maps
each definition to the lines it models and lists runs, mutants, findings,
hazards and theorems.

## 1. Inventory

| Component | State | Operations | Hard because |
|---|---|---|---|
| `session` (`session.cc`) | `socket_`, `buffer_`, `response_`, `last_auth_time_`, outstanding operations | `start`, `handle_read`, `handle_write`, the two callbacks, `is_session_expired`, `authenticate` | callbacks run in the order operations complete; `response_` is shared with writes under way; `buffer_` is never consumed; fragments, half-close, reset |
| `server` (`server.cc`) | the session that waits in `async_accept` | `start_accept`, `handle_accept` | the loop must survive every error; a session is older than its connection |
| dispatcher (`request_handler_dispatcher.cc`) | `handlers_` | `initRequestHandlers`, `registerPath`, `getRequestHandler` | normalisation at length one, shadowing, longest prefix |
| API handler, `CRUDHandler`, `FileStorage` | the file system | POST, GET (object and list), PUT, DELETE | a process that dies inside a write, exceptions in a `noexcept` function, names of files and directories, id reuse |
| static file handler, MIME types | none (the file system) | `handleRequest`, `extension_to_type` | prefix and root are joined as text |
| echo, health, sleep, 404 handlers | none | `handleRequest` | they change `response_` in place; sleep blocks the only thread |
| configuration parser (`config_parser.cc`) | the statement tree, the stack of open blocks | `ParseToken`, `Parse`, the three queries | characters looked at and put back, early ends, nesting, the first match of a query |
| `main` (`server_main.cc`) | port, timeout, credentials | start-up, signal handler | narrowing of `int` to `short`, unchecked pointers into the tree, exit at any moment |
| base64, Basic credentials (`session.cc`) | the bits not written yet | `base64_decode`, `authenticate` | an `int` that overflows, a bit count around -8, a text cut in two places |
| logger, `http/request_parser` | – | output only; unused | – |

Interaction: `main` parses the configuration, builds the `server` and runs
`io_service::run()` on one thread. The server builds a session and waits;
`handle_accept` starts the session and builds the next one. A session's read
callback parses, checks expiry and credentials, asks the dispatcher for a
handler, lets it fill `response_`, and starts a write; the write callback shuts
the socket down. A session is destroyed when its last outstanding operation has
run its callback (each holds a `shared_ptr`).

What makes the components correct:

* server and sessions: the accept loop never dies or forks; a session never has
  two reads; each completed read leads to exactly one continuation; no client is
  left without an answer; nothing but a valid request gets a 200; a request is
  dispatched at most once; answered sessions go away.
* dispatcher: longest prefix; the table is exactly what the configuration says,
  the first of several locations with one path counting; handlers can cut their
  prefix.
* API: acknowledged data survives; creation never overwrites; what was created
  can be read; no exception escapes unless the kernel refuses a call; it
  implements an object store.
* configuration and start-up: the tree says what the file says; a file is
  accepted exactly if its tokens are a configuration; the port and the timeout
  of the file are those the server uses; no good file crashes the program.
* log-in: exactly the accounts of the configuration are let in.
* static files: a file below the root is found under its location; its type is
  that of its own name.

## 2. Modules

| Module | Models | Used by |
|---|---|---|
| `Session` | a connection: both asynchronous operations and every way out of their callbacks | `Server` |
| `Server` | the accept loop around the sessions, clients, clock; properties and inductive invariant | `MCServer`, `ServerProofs` |
| `ServerProofs` | theorems about `Server` | – |
| `Dispatcher` | the table and the lookup, loops as steps | `StaticFiles`, `DispatcherProofs` |
| `DispatcherProofs` | theorems about `Dispatcher` | `StaticProofs` |
| `StaticFiles` | the static handler and the MIME lookup behind the dispatcher | `MCDispatcher`, `StaticProofs` |
| `StaticProofs` | theorems about `StaticFiles` | – |
| `ObjectStore` | what the API's storage promises (abstract) | `ApiStorage` |
| `ApiStorage` | the API over the file system, with death and restart | `MCApi`, `ApiProofs` |
| `ApiProofs` | theorems about `ApiStorage` | – |
| `ConfigParser` | `ParseToken` and `Parse` | `Startup` |
| `Startup` | `main` up to `io_service::run()`, the queries, the choice of the `server` block | `Login` |
| `Base64` | `base64_decode` | `Login` |
| `Login` | `authenticate` with the credentials of the configuration: `Startup` and `Base64` composed | `MCLogin`, `ParserProofs` |
| `ParserProofs`, `StartupProofs`, `LoginProofs` | theorems about `ConfigParser`, `Startup` and `Base64` with `Login`, each extending the one before | – |
| `DataLemmas` | facts about numbers, sequences and recursive functions | all proofs but `ServerProofs` and `DispatcherProofs` |
| `MCServer`, `MCDispatcher`, `MCApi`, `MCLogin` | constants for TLC | the runs |

Operators named "Mutant" in comments are plausible bugs of the definition that
follows them; nothing uses them but the mutation runs.

### Session and Server

An action is one callback, which is atomic because one thread runs them all.
`reads[s]` counts outstanding `async_read_some` operations, `writes[s]` is the
set of outstanding `async_write` operations with the message each was started
with. `handle_read` and `handle_write` are the operators that start one.
`handle_read_callback` is split by its exits: `BadRequest` (put failed),
`ContinueReading` (not done), `Expired`, `Unauthorized`, `Dispatch`, `Throw`
(the catch block) and `ReadError`. `Expired` includes what `is_session_expired`
does besides answering: it restarts the timeout and starts a read.

Data is abstracted: bytes to units, a request to the record `Request` (header
length, well-formed or not, with a body or not, its credentials and the kind of
handler it reaches), a response to status, body kind and whether it carries a
challenge. Kept because properties tell them apart:

* Beast's parser as the code uses it (`Put`): not eager and built anew for each
  callback, so that an incomplete header is an *error*, and a request with a body
  is never done.
* `response_` is one object. A handler changes it in place; a write whose
  message was replaced meanwhile may send any mixture (`Torn`).
* `last_auth_time_` is set when the session is constructed, before it has a
  client.
* `issued`, `expired`, `dispatched`, `dropped`, `thrown`, `received`, `openedAt`
  are history variables for the properties; no guard reads one, except that
  writes are numbered by `issued` and `MaxThrow` bounds `thrown`.

`handle_read_callback` has no return statement after `handle_read()`
(session.cc:139). The build sets no optimisation level, and nobody uses the value; the model
takes the outcome of such a build, an unspecified return value.

The log calls and allocations of the callback may throw. `Throw` is an exception
when no operation has been started: the catch block answers 500, and by then
`is_session_expired` or `authenticate` may have set `last_auth_time_`, or a
handler have run. An exception out of the log call that ends `handle_read` or
`handle_write` comes too late: the operation is under way and the catch block
starts a write beside it (`async_write_caught`, and the second alternative of
`ContinueReading`). `thrown` counts these, and `MaxThrow` bounds them. An expiry
can lose its 401 to a 500 the same way.

### Dispatcher

Paths are sequences of characters. Dropping one trailing slash, registering one
location and visiting one entry of `handlers_` are steps. The model does not fix
the order of the visits (`std::map` does); the result does not rest on it. `config` is
the sequence of location statements of the first `server` block; `Startup`
models how that block is found.

### StaticFiles

`handleRequest` runs on the handler the lookup returned, so prefix, root and
target come from a registration and a search and are not chosen freely.
`FilePath` is the two `replace` calls; `Regular` and `Readable` are the files
there are. `StaticFilesFound` says which files a client can count on. Its
condition for the location `/` is needed: there the prefix takes the target's
slash with it, and a root without a slash at the end is joined to the name
directly (`/b.a` and `b` give `../b.ab`, a file the instance has).

### ConfigParser

A file is a sequence of symbols. The characters the parser tells apart are
symbols of their own, and a word is one symbol, because every state of
`ParseToken` treats its characters alike. Each character is a step, with the
state kept in `state` and the text in `value`; the two kinds of quote share a
state, the first character of `value` says which it is. Each token is a step of
`Parse`. The condition on the last token, which the code writes out in every
branch, is the table `After`. Blocks are numbered in the order of `new`.
`tokens` is a history variable. `Serialized` is `ToString` without its layout,
the way to say that the tree is the file.

### Startup

The queries are recursive functions on block numbers. `FindSetting` is the body
`get_config_port` and `get_auth_time` share. What goes wrong in C++ is kept: a
`credentials` or `server` statement without a block is a null dereference
(`Crash`); a `location` with fewer than three words reads beyond `tokens_`,
which may crash or not. `Short` is the conversion main makes, twice.

### Base64 and Login

`DecodeChar` is one turn of the loop: six bits in, a byte out when there are
eight. `val` is never masked and overflows; the shift wraps, as the compilers
the project uses do. `DecodesRFC` compares with the bytes of RFC 4648 computed by
position, without any shifting register. `Word` is the number of values of an
`int`; TLC computes in 32 bits, so the run has 2^16, and the decoder overflows
after the third character instead of the sixth. Only the lowest fourteen bits of
`val` are ever used (`WordAssumption`).

`Login` continues `Startup`: when the server runs, clients send headers, and
`AccountsOpen` and `OnlyAccountsOpen` relate the verdict to the texts of the
file. `Session` uses the verdict only.

### ApiStorage and ObjectStore

A path is a sequence of names from `"root"`; repeated slashes collapse, as the
kernel does. `FileStorage::write` is three steps (directories, truncation, data) because the
process may die between them; everything else is one step. `Terminate` is
`std::terminate` for an exception that leaves the `noexcept` handler because of
what the requests did: a file where a directory has to be, or a directory that
is not empty. `Refuse` and `RefuseDirectory` are the same for what the kernel may
refuse at any time (a name that is too long, a permission, no space, an I/O
error), because `exists`, `create_directories` and `remove` are called in their throwing
forms; a refused `create_directories` leaves the directories above the refused
one. The model tells the two ends apart (`"terminated"`, `"refused"`), since only
the first is the handler's to avoid. Targets are
the handler's prefix continued by `/name` segments. The targets of POST (`Creates`) and of
the other methods (`Targets`) are separate constants, so that a run can keep
entity names apart from ids as the comment at request_handler_api.cc:53 assumes.
`MaxId` bounds the ids; POST is not taken when none is free.

`ObjectStore` has Create (only under a new key), Update, Finish, Abort (the
process died) and Remove. The mapping takes the regular files as the objects and
the write in progress as the store's.

## 3. Runs

| Run | Result | Shows |
|---|---|---|
| `server_one` | holds, 1.6 M states, symmetric in sessions | all safety properties of one connection in full detail, with late exceptions |
| `server_live` | holds | `Answered`, `AnsweredIsReleased` under fairness |
| `server_expired` | violated | the request an expiry refused is dispatched after all |
| `server_first` | violated | the first request after an idle time is refused as expired |
| `server_body` | violated | a request with a body is never answered |
| `dispatcher` | holds, 1.7 M states | lookup, registration, static files |
| `api` | holds, 0.8 M states | durability, readability, no termination but by a refused call, only DELETE hides objects from a list, refinement of `ObjectStore` |
| `api_mixed` | holds, 0.1 M states | files and directories compete for names; what was acknowledged is kept unless its id is a directory, creation is fresh |
| `api_throws` | violated | an exception leaves the handler though no call was refused |
| `startup` | holds, 1.7 M states | from the file to the client that is let in |
| `startup_time` | violated | a valid timer becomes a negative timeout or the error value |
| `startup_port` | violated | a port out of range hides a valid one |

With `RootSlash = FALSE` in `api.cfg` (a root such as `/api_root`, as in
request_handler_dispatcher_test.cc:57) `CreatedIsReadable` fails: POST writes
`/api_rootShoes/1` and GET reads `/api_root/Shoes/1`.

The violated properties say what a comment, a test or the README says; the
quotations are under "findings" in `PROJECT.json`.

Five smaller disagreements between comments or tests and code show in the models
and have no run of their own:

* session.cc:138 says "Not done reading, continue to read more", and a header
  that arrives in two reads is answered 400 (`BadRequest` with an incomplete
  header).
* request_handler_test.cc:598 tests the list of an entity, and after a DELETE
  the list stops at the gap (`Listed`). `OnlyDeleteHides` says that nothing else
  has this effect.
* session.cc:236 says "Construct unauthorized response for invalid credentials
  case", but a request that is dispatched after an expiry (`server_expired`) finds
  the 401 in `response_`: a handler that sets only the status, as the API's PUT
  does, answers 200 with the challenge and the text of the 401 (`Updated`).
* crud_handler_test.cc:57-60 expects that data is read back after an update that
  returned true. A PUT on an id that is the directory of an entity returns true,
  and the stream cannot be opened (`Open`, `Flush`). `AckedOrDirectory` says that
  this is the only such case.
* config_parser.h:36 says Parse "Returns true iff the input config file is
  valid", and the end of the file cuts off a last word without a trace
  (`EndOfFile`): `port 80;x` is accepted. `TextKept` says that no more is lost.

`Promised` is the rule of the comments at config_parser.cc:276 and 299, "the
first outer-most valid one": the first setting in range with none in range in
the blocks around it. `startup_port` shows that a bad setting before a
valid one breaks it; `SettingsArrive` says that nothing else does.

Bounds. `MaxSend` (units per connection) is twice the header's length in
`server_one`, so a header arrives whole, in fragments, and with bytes behind it
that wake the read an expiry left. `ReadMax` 2 lets one read return less or more than
a fragment. `MaxTime` leaves room for two expiries; the clock stops there, which
only removes later behaviours of the same kind. `MaxThrow` is 1 in `server_one`:
one late exception meets every exit of the callback and every expiry; the other
server runs have none. Two sessions are one client and
the session that waits; sessions share only the thread and the clock, and the
proofs cover any number. Three locations are enough to shadow, normalise and extend each other at
once. `startup` has all files of up to five symbols over nine kinds, which is
every state of the lexer before and after every kind of character; all of up to
seven over words, semicolons and braces, enough for blocks beside and inside each
other; and up to four pieces (settings good and bad, credentials, locations,
blocks) in every order, with server blocks of four. Two ids are enough for a gap and for reuse; two data values to tell old from
new.

Deadlock is checked in all runs but those of `MCLogin`: the server always
waits for events, and `main` may end.

Fairness. `WF(ReadCallback)` and `WF(WriteCallback)` per session: `io_service::run()`
runs every handler whose operation is complete, queued in order, and no handler
blocks for ever (the longest sleeps five seconds). For writes this assumes a client whose
kernel takes what is written; the code has no write timeout. Nothing is assumed
of clients, accepts or the clock.

## 4. Proofs

`ServerProofs` proves `Spec => []Inv` for any set of sessions, requests (subject
to `RequestsAssumption`), timeout that fits a short, read size and bounds, and
from it the nine safety properties of `server_one`. `Inv` adds to them what they
need to be inductive:

* `Untouched`: a session without a client has no operations, so the balance
  starts right when it is accepted;
* `WriteIds`: writes are numbered, and only the last one sends what `response_`
  holds; with `CallbackBalance` this gives `OverlapOnlyAfterExpiry` (without an
  expiry or a late exception at most one write was ever started);
* `WritesPending` and `EndsForAReason`: until the socket is dead the last write
  is outstanding, and a read ends only with a reason; with the balance this
  gives `NoClientAbandoned`;
* `HandlerLast`: after a dispatch no read is outstanding, which is
  `DispatchIsFinal`;
* `AllDeserved` extends `SuccessIsAuthenticated` to what is not sent yet, so it
  also holds for mixtures;
* `ClockOK`: stamps are not in the future, for the arithmetic of `ExpiryRate`.

There is one lemma per part of `Inv` and in it one step per action.

`DispatcherProofs` proves the lookup's properties for every table, configuration
and target. The heart is `BestSoFar`: the match is the longest among the entries already
visited, and no entry was visited before all slashes were dropped. `UriOK` (the
uri is a non-empty prefix of the target) with `RootKnown` gives `AlwaysAnswered`,
with `TableOK` it gives `PrefixOfTarget`. `TableFromConfig` needs its own
invariant, `TableInv`: what the loop over the locations has seen so far is in the
table (`AllSeen`, `FirstSeen`), nothing else is (`OnlySeen`), and the path being
trimmed is a form of the location's (`Trimmed`).

`StaticProofs` continues it for the files: `StaticInv` says that a status is that
of the file the joined path names. `MimeByName` rests on what `rfind` returns
(`LastDot`). `StaticFilesFound` follows path by path, through trimming, lookup,
the two `replace` calls and the kernel's collapsing of slashes; it is proved
under `AbsoluteRoots`, since a relative root loses its first character.

`ApiProofs` has two invariants. `Inv` (the files and directories form a tree, and
the write under way is where its state says) needs no hypothesis, holds also when
`create_directories` is refused half way, and gives `CreateIsFresh`,
`AckedOrDirectory` and, with one lemma per action, the refinement of `ObjectStore`. `SeparateInv` adds what was acknowledged, the gap a creation
fills and the shape of a reply. It is inductive only under `Separate` (no
object's path is the directory of an entity), the assumption of the comment at
request_handler_api.cc:53; `api_throws` shows what happens without
it. `NoThrow` says of the exceptions that then only refused calls end the process:
what exists never makes `create_directories` or `remove` throw (`NothingThrows`).
`CreatedIsReadable` also needs a root with a slash at the end and entities
directly under the prefix. `MCApi` checks that its constants satisfy these
hypotheses (`EntitiesSeparate`), `MCDispatcher` that its roots are absolute.

`ParserProofs` proves, for files of any length, `StackOK` from `StackInv` (open
blocks are numbered upwards, so that what is done to the top leaves the others
alone), `AcceptsConfigs` from `GrammarInv` (the tokens so far begin a
configuration, and the depth of the stack is the number of braces still open)
and `TextKept` from `TextInv` (the tokens and the text in hand are what was
read).

`StartupProofs` is about the tree. `InOrder` says that blocks are numbered as
they come in the text; in terms of links (statement i of block b has block c):
every block but the first has one link, the first link of b leads to b + 1,
siblings are in order, and for a link from b to d, every block between them
hangs at b or later. New blocks keep it because what follows an open block lies in it
(`OpenAround`). From this, the blocks in a block form an interval (`Under`), and
induction from parent to child (`ParentInduction`) and from the last block to
the first give: the queries end; `get_config_port` and `get_auth_time` find the
setting of the first block whose first setting is in range and around which no
block has any (`FoundBest`), which is what the comments promise where no valid setting is hidden
(`PromiseMet`), so `SettingsArrive`; `get_credentials` goes
through blocks 1, 2, 3 and so on until it stops (`GoesDown`). `NoCrash` follows
from where they stop.

The same module proves `TreeIsTokens`. `WrittenInv` says, in the middle of a file
too, how the tokens and the tree belong together: some f writes out every block
that is closed, and the tokens are, from the bottom of the stack to the top, the
complete statements of each open block, the words of the statement under way and
the brace after them. Of open blocks f says nothing, so only the end of a block
touches it, and by `OneLink` nothing else that is closed depends on that block.
`Serialized` is such an f, and there is only one (`WritesAgree`).

`LoginProofs` proves `CredentialsComeFirst` from that, and about `base64_decode`:
`DecodeInv` says that `valb` tells how many bits are pending and that the low
bits of `val` are those of the last characters, whatever the overflow lost (a
multiple of 2^14, by `WordAssumption`). `OnlyAccountsOpen` then follows from the
last verdict; `AccountsOpen` needs that decoding undoes `Encode` (`RoundTrip`).

Assumptions on the constants, all named and evaluated by TLC: non-empty sets of
sessions and requests, and what fits their types (`Session`, `Server`); "/" is a
character and tokens and targets are not empty (`Dispatcher`); ids have
different names, which the parsing of names undoes (`NamesAssumption`); files
consist of known symbols and symbols of bytes (`SymbolsAssumption`); headers
consist of bytes; an `int` has at least 14 bits (`WordAssumption`).

Recursion. The models define functions by recursion on numbers, not by RECURSIVE
operators. `DataLemmas` shows for each form that such a function exists
(`CopyExists`, `WalkExists`, `ClimbExists`, `JoinExists`, in `StartupProofs`
`FindExists`; for `Serialized` it follows from `WrittenInv`), by induction stated
for a *set* of numbers (`SetInduction`, from the well-foundedness of the
naturals), which the provers can use where they cannot use induction over a
formula.

Only model-checked: liveness (`Answered`, `AnsweredIsReleased`), out of TLAPS's
reach. Every invariant of the passing runs is stated by a theorem.

## 5. Not modelled

* The text of responses (the echo handler's `requestToString` among it) and of
  log lines. The logger only writes; no decision of the server reads what it
  wrote.
* `http/request_parser`, which the server does not use.
* An exception that leaves a callback (out of the catch block itself, the read
  error branch, `handle_write_callback`, or `handle_accept` when the log call
  that ends `handle_read` (session.cc:38) throws, before `start_accept` is called
  again): it ends `io_service::run()` and `main`.
* The exceptions of the static handler: `exists` and `is_regular_file`
  (request_handler_static.cc:39) throw when the kernel refuses them, in a
  `noexcept` function, and the process terminates. The handler changes no file,
  so this ends a behaviour and leaves nothing behind.
* Reads and writes without a timeout: the code has none.
* Of the API: a write to an open file that the kernel refuses (a full disk: the
  stream's state is never looked at), targets with `..`, negative ids, a
  handler registered for `/` itself, and partially written data (contents are
  empty or whole).
* Of the parser: `atoi` beyond the range of an `int`, and a stream that fails in
  the middle of the file.

## 6. Plan

Done: session, accept loop, dispatcher, static files, API storage,
configuration, start-up, log-in; proofs about all of them.

Left: a composition of session, dispatcher and API: since bodies never arrive,
what is stored through the server.
