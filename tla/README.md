# webserv in TLA+

webserv is an HTTP server in C++: one thread per listening port, each with its
own `poll` loop, CGI programs as child processes, a configuration file in the
manner of nginx, and one process-wide singleton that holds the flag a signal
raises. This directory models its control: what the loop does with descriptors
and events, what happens to a request between its arrival and its answer, how
the threads start and stop, how the text of a request becomes its fields, what
CGI programs do with the pipes they are given, and how the configuration becomes
the objects all work from. TLC checks the models on small instances; TLAPS proves
their safety properties for every instance.

`PROJECT.json` lists the components, runs, hazards, findings, theorems, the
lines of the source each definition stands for, and for every property a
mutation of the code that it detects.

## Inventory

| part | state it keeps | operations | how it meets the others |
|---|---|---|---|
| event loop (`Poller.cpp`) | `m_pfds`, `m_clients`, `m_dropped_fds`, `m_new_connection` | poll, one handler per ready entry, erase, add | one thread per port; owns the connections; reads the shared flag |
| connection (`Connection.cpp`) | socket, request, route, CGI | read, parse, check, search, answer | called by the loop; sets the request's status |
| CGI (`CGI.cpp`) | pipes, pid, output read so far | init, exec, read, reset | its pipe is an entry of the loop's `m_pfds`; `waitpid` in the loop's thread; a child inherits the descriptors of every port |
| sockets (`Socket`, `ServerSocket`, `ClientSocket`) | a descriptor | init, accept, recv, send, close | the destructor closes |
| request (`request/`) | text, headers, body, status | append, parse, validate, decode chunks | its status steers the loop and the connection |
| server blocks and routes (`PortConfig`, `ServerConfig`, `Route`) | names, limits, routes | match Host, match base URL | built by the parser, read by the connections of one port |
| handlers (`handler/`) | files on disk | upload, delete | all ports share the document tree |
| response (`response/`) | status, body, head | build | reads the file again that the connection found |
| threads, signals, flag (`main.cpp`, `Signals.cpp`, `ConfigUtil.cpp`) | thread ids, singleton, mutex, `m_signal` | create, join, getHandle, setSignalled, isSignalled | handlers run on any thread |
| configuration (`FileParser.cpp`, `Option.cpp`) | level, last block and route, stack of blocks | one per keyword and brace, grouping | makes the PortConfigs the threads take |
| not modelled | | entries of a listing, headers, string utilities, default pages | pure conversions, or file input that affects no control |

What makes it hard: revents used after other handlers have closed and opened
descriptors; connections dropped while their program runs; short reads taken for
ends; reads and sends that block the only thread of a port; descriptors that run
out, or that a child keeps; pipes that fill up; requests that are parsed before
they have come; document files opened, closed and opened again while other ports remove or
truncate them; handlers that interrupt the holder of a mutex; a singleton made
on first use by whoever comes first; braces and blocks that the parser does not
tie together. Each is a hazard in `PROJECT.json`, at its line, with the
properties that would catch it.

For each part, what makes it correct:

* event loop: every open descriptor is polled exactly once and no closed one; an
  entry means one socket for as long as it is there; a client is answered once,
  from its own request, and let go of;
* request text: a whole request is understood as it was meant, one that was cut
  has only lost its end, parsing ends;
* request: no effect on files without the checks of its route; uploads whole,
  deletions counted, pages not empty without a cause that is known; every parsed
  request comes to its answer or its program; what ends the process is known;
* CGI: no output lost or made up, a thread waits for its own children only, who
  is answered sees the connection end, and nobody waits for ever without a cause
  that is known;
* threads: main is last to leave, but for one path that is named; the flag is
  guarded and has a cause; a signal ends the process, if no pass blocks for ever;
* configuration: one socket per port, every block served once, nothing used
  unset and nothing deleted twice.

## Modules

| module | models | with |
|---|---|---|
| `Poller` | the loop of one port, its clients, pipes, children and the descriptor table | `PollerProperties`, `PollerInvariant`, `PollerProofs`, `PollerAccountProofs`, `MCPoller` |
| `Exchange` | what the loop promises a client, with none of the machinery | `ImplementsExchange` in `PollerProperties`, `PollerAccountProofs` |
| `Responder` | one request from arrival to answer, for clients of several ports on one document tree | `ResponderProperties`, `ResponderProofs`, `MCResponder` |
| `Request` | the parser of one request: start line, headers, checks, chunked body | `RequestProperties`, `RequestInvariant`, `TextProofs`, `RequestProofs`, `MCRequest` |
| `CGI` | programs of all ports as processes: pipes, inherited descriptors, body, reads, `waitpid` | `CGIProperties`, `CGIProofs`, `MCCGI` |
| `Program` | what the loop takes a CGI program for | `ImplementsProgram` in `CGIProperties` |
| `Shutdown` | main, the port threads, signal handlers, the singleton and its mutex | `ShutdownProperties`, `ShutdownProofs` |
| `Configuration` | reading and grouping a configuration file | `ConfigurationProperties`, `ConfigurationProofs`, `MCConfiguration` |

Definitions that start with "A mutant of" are changed forms of the definition
below them. No specification uses them.

### Poller

`pc` is where the thread is: in `poll`, scanning, in a `send` or a `waitpid` that
waits, in the decoder of a body that was cut (`ParseEndless`, which nothing
leaves), erasing, adding, stopped or dead (an exception that nobody catches, a
null pointer, SIGPIPE). `m_pfds`, `m_clients`, `m_dropped_fds` and
`m_new_connection` are the fields of those names; `revents` says which branch of
the chain POLLHUP, POLLIN, POLLOUT an entry was given by the last `poll`.
`fdTable` is the process's descriptor table, and new descriptors are the lowest
free ones, so numbers are reused as they are by the system. `sock`, `inbox` and
`backlog` are the clients' TCP connections. `cgi` is a child process and its
pipe.

Each handler is one step, with every call it makes; a send or a `waitpid` that
has to wait is two, and everything outside the thread may come between any two
steps. `_deletePollFds` and `_addPollFds` take one step per descriptor. What a
request asks for is revealed when it is parsed.

### Responder

One client's way through `_matchRoute` is a sequence of stages: parsed, matched and
checked, searched or handled, responded.
`Turn` gives a port's thread to one client at a time, as the loop does, and a
client may be handled again on a later pass when its program is still running.
Clients of other ports act between any two steps. `files` maps a path to the
clients whose bytes it holds, in order, so that a mixture of two uploads can be
told from either. An upload is an open that truncates, then a write; a deletion
is an open that looks, then a removal.

`spare` counts the descriptors that are left beside the sockets, which all ports
share. A page that is found leaves one open for ever (`SearchFile`), a program four
ends of pipes of which one is closed (`SearchProgram`, `FinishCGI`), an upload or a
deletion borrows one. With none left a page that is there is not found, one that
was found cannot be opened again to be sent, and a program cannot be given its
pipes, which ends the process.

A Content-Length that `std::stoi` cannot return, a word or a number beyond an int
(`Readable`), ends the process too, and so does a start line without a target.
The argument of `client_max_body_size` is an integer that is stored unsigned and
multiplied (`Limit`), and the length of the body is the one the client declares;
both wrap at `Word`. `WithinLimit` states the limit as the file means it, and
what is left out of it is what the comparison gets wrong.

### Request

A text is a sequence of characters; a word that the parser only compares is one
character. `Find`, `Take` and `Erase` are `find`, `substr` and `erase`, with what
they do when nothing is found. A client sends the text of a `Message`, and
`Receive` takes any part of it: what the loop then parses may end anywhere.
`pc` goes through the calls of `Request::parse`; the header loop and the chunk
loop take one step per turn, so a loop that does not end is a behaviour that
does not. `RequestText` is the client's side, and the properties compare what
was parsed with the `Message`, not with the text.

The requests are well-formed (`StartLineFormed`, `TargetFormed`, `HeadersFormed`,
`ChunksFormed`): no part holds what ends it, a directory has no dot in its name,
a file has one, and a chunk size is written without a leading zero. This leaves out
requests of which the properties are false: of a size such as `010` a cut leaves a 0,
which is taken for the last chunk; a size with an extension that is cut before its
line feed is itself taken for data; and a query that ends in a slash loses it.

### CGI and Program

`holds` is the set of write ends and sockets that each process holds: `fork`
copies the server's, `exit` empties it, and the server never closes an end of a
pipe. A pipe ends when nobody holds its write end, and so does a connection
when nobody holds its socket. Sizes are counts of units. A program is a
`Behaviour`: what it reads of its input, what it writes, at once or in parts,
its exit code, and whether `execve` finds it. `thread` is the request whose
child the thread of a port waits for; a port does nothing else meanwhile.
`Program` is the same without input, descriptors, ports or causes of failure,
and is what `Poller` has for its children.

### Shutdown

`pc` and `hand` are what each thread and the handler on top of it are doing. The
mutex belongs to an instance (`lock[m_handle]`): when `getHandle` runs twice at
once there are two instances, and one flag is lost. A signal may interrupt a
thread at any step, also between its lock and its unlock. `SelfLocked` is the
thread whose handler waits for the mutex that the thread itself holds;
`FlagLost` is the flag of an instance that has been replaced. main leaves by the
joins ("exited") or by a catch ("caught"); the second may happen at the `new` for a
later port, when the pollers of the earlier ones run. A pass throws or blocks
(`Pass`, `Unblock`) as it does in `Poller`, `CGI` and `Request`, where the causes are.

### Configuration

Tokens are chosen as they are read, so a run covers every file within its
bounds. The parser ties a brace to nothing but a count: `parse_level` chooses
what closes, and `server_block` and `route` are the objects of the last
keywords. The ghosts `keyword` and `stray`, which the code does not have, note
whether a brace opened what no keyword announced, or the last line is cut short;
the properties that need well-placed braces say `~stray`. What C++ leaves
undefined is the stage "undefined". A listen argument is a record of
what `_parseArg` looks at: the number of colons, the text, and whether a number
is read from it.

## Runs

The passing runs, with the bounds that matter:

| run | shows | bounds |
|---|---|---|
| `poller_safety` | tables in step (`Inv`, `PolledOnce`), entries that keep their meaning, a program reaped once, by its own poller and after its exit, with the answer its exit calls for, `Poller` implements `Exchange` | 2 clients, every kind of request, output of 3 with reads of 2 and a pipe of 2 (a second read, a full pipe), 11 descriptors |
| `poller_live` | own answers and no lost socket when descriptors run out; every connection that stays open is let go of; a signal stops the loop; unless the thread is blocked for ever, or the client's own program is never collected | 7 descriptors for 2 clients, requests of 2 segments, a `poll` that refuses 5 entries; a page that a socket does not take at once, a body in chunks, programs that write 0, 2 or 3 with reads of 2 and a pipe of 1; half-closes and a signal; fairness |
| `responder_files` | deletions, uploads and pages between ports, while descriptors run out; every parsed request comes to its answer or its program | 2 clients of one port, 1 of another, one path, 5 descriptors beside the sockets; fairness |
| `responder_refused` | no effect without permission, and what ends the process | three blocks, two of them with limits that wrap; one request for each way to be refused or fatal, lengths at both ends of an int and just beyond; 5 descriptors, enough for one program and not for two |
| `request_parse` | the inductive invariant; whole requests understood, cut ones only shorter, chunks whole or not at all, when parsing ends | 15 requests, cut at every character; the characters of these; fairness |
| `cgi_children` | the inductive invariant, output whole, `CGI` implements `Program`; who is answered, and whose connection ends | 2 requests on 1 or 2 ports, 11 kinds of program, reads of 2, pipes of 3, `fork` and `read` that fail; fairness |
| `shutdown_signals` | main last but for one path, flag guarded, the inductive invariant, with a cause for every stop; when a signal ends the process | 2 ports, 2 signals, every failure of `AllFaults`; fairness |
| `config_read` | one socket per port, every block served once, nothing unset | 3 blocks, 3 locations, 9 listen arguments, 7 braces anywhere |

Two clients are enough for the loop because its hazards are pairwise: one
descriptor handled in a pass in which another was closed, one number reused by
one other. Eleven descriptors are the listener, two sockets, and the pipes and
leaked files of both, so that the limit is met only in `poller_live`, which
means to meet it. In `responder_files` two clients share a port and a third does
not, which is the smallest case with both kinds of neighbour. Three blocks
suffice for grouping: two with one port and one with another, in every order.
A pipe of 3 and reads of 2 are the
smallest sizes with an output that is read whole, one that fills its reads, one
that takes two and one that overflows; in `poller_live` a pipe of 1 is smaller than a
read, so that a program is taken to have ended while it still writes. Two requests are one child that may hang
and one that may be kept waiting by it. The requests of `request_parse` have
each feature of the parser once, and data that looks like line ends and sizes.
The invariants `Vetted` of `Responder` and `Inv` of `Poller`, `Request`, `CGI` and
`Shutdown` are there because they are what is proved: TLC checks the same formula.

Every cfg says `CHECK_DEADLOCK FALSE`: clients connect once, signals and files
are bounded, and a server that has stopped or died takes no step.

The runs named `doc_...` each refute one statement of a comment or a test; the
findings quote it.

* `doc_outlives`: a client that half-closes while its program runs loses its
  Connection; the pipe that is left behind then leads to a null pointer.
* `doc_parse`: a body in chunks that was cut before its last chunk is decoded for
  ever, and its port is lost.
* `doc_pipe`: a body larger than a pipe is written to the child's own pipe, not
  to a file, and the child waits for itself.
* `doc_signal`: a handler waits for a mutex that its own thread holds.

Other disagreements between the code and its documentation that the models
contain, with no run of their own:

* `ServerSocket.cpp:62` speaks of a `send` that does not block; accepted sockets
  block on Linux (`pc = "send"`).
* `test_request.cpp:213` expects status 400 of a request without Host; the
  answer then uses the route that was not set, and the process ends (`KnownDeaths`).
* `CGI.hpp:53` has the parent collect every child; after a program whose output
  is a multiple of the read size the pipe is never readable again, nor does it
  hang up, for the server holds a write end, and the child is never collected.
* `test_statuscodes.py:36-40` expects 200 for a page that exists; the file search
  leaves a descriptor open for each page it finds (`Connection.cpp:250`, 268), and
  when none is left the page is not found. When the one it leaves open was the last,
  the page is found and sent without its text (`PageHasText`).
* `FileParser.cpp:164-166` says that brackets in the wrong order are refused; a
  brace that no keyword announced is accepted, and the last block is listed,
  served and deleted twice (`stray` in `Configuration`).
* `Request.hpp:40-42` says to call parse when all the data has been appended; the
  loop calls it when the socket can be written to (`CutIsPrefix`).
* `ErrorHandling.cpp:53` looks for the type in an empty string, so that a media
  type with a subtype is accepted and one without is not.
* `default.conf:28` promises a listing when a file is not found; the 404 that the
  search sets replaces it. `default.conf:13` limits a body; only the
  Content-Length is compared.
* `PortConfig.cpp:83` matches the Host; a Host with a port matches no name.
* `Option.cpp:200-208`: the default port is 8080 or 0, not 80; an address alone
  that starts with a digit is a port; of two blocks with one port and two
  addresses only one address is used.
* `default.conf:1` allows one http block; a second is accepted.
* `ConfigUtil.cpp:30` may make a second singleton, which loses a raised flag
  (`FlagLost`).

## Fairness

* `Poller`: the thread's steps are weakly fair, because `poll` has a timeout
  and the thread is scheduled; so are the steps of a CGI program, which is a
  process of its own. Clients are never fair: a client need not read what is sent to
  it, and then `FinishSend` is never enabled. `Blocked` names the three waits that
  nothing ends: a `send` to a client that does not read, `waitpid` for a child whose
  pipe is full, the decoder of a body that was cut. `EveryoneLetGo` and
  `SignalStops` except a thread that is `Blocked` from some point on, whichever
  client it is that blocks it, and `EveryoneLetGo` a client whose own program is never
  collected (`Uncollected`), since its output does not end in a short read.
* `Responder`: the stages from the match to the answer are weakly fair. Nothing is
  assumed of `Parse`, which need not end, of `Respond`, which may block, or of
  `FinishCGI`, because a program need not be collected; `Decided` promises no more.
* `Request`: the thread that parses is weakly fair.
* `CGI`: weak fairness of each port's thread and of each child; a child that
  waits for a pipe is not enabled. `Hangs`, `FillsReads` and `Overflows` name the
  requests that are not answered, and `cgi_children` contains each of them.
* `Shutdown`: weak fairness of each thread; strong fairness of taking the mutex,
  which every holder releases. A pass that blocks has no fair way back (`Unblock`).
  `SignalEndsServer` names the two states in which a signal is lost, and a pass that
  is blocked for ever; `doc_signal` shows that a signal is lost.

## Proofs

`PollerProofs`: `Inv` (in `PollerInvariant`) is inductive. `OwnAnswer` is not by
itself: that a reply is made from its client's bytes needs that the connection
stored under a descriptor is the one of the socket's owner, that a pipe belongs
to one connection, that a descriptor on the stack is still an entry or already
closed by nobody else, and that a descriptor about to be added is not one. These
are the conjuncts of `Inv`, and there is one lemma per action. `EntryKeepsOwner`
follows from the same invariant: what frees or takes a descriptor in a step is
never an entry before and after it. The assumptions are only that descriptors
are positive, that the sizes are natural numbers and that the kinds are known.

`PollerAccountProofs`: `Accounts` (in `PollerInvariant`) is inductive relative to
`Inv`, and the other safety invariants of the loop follow from the two. It says
that an accepted connection has a socket until it is closed (`Owned`); that the
listener stays the first entry and only sockets and pipes are dropped
(`ListenerFirst`); that every connection has an entry, and its pipe too once it was
added (`Listed`); that a pipe is dropped after its connection
(`ClientBeforePipe`), without which `_deletePollFds`, which pops the stack, would
remove an entry of the pipe while the connection still names it; and that a loop
that has stopped had nothing left to drop (`Quiet`). `SocketAccounted` and
`AnsweredIsDropped` are read off; `PolledOnce` adds that entries are distinct, which
`Inv` says. `CGIReplyAfterExit` needs `Reaping` as well: a client that has not been
accepted has no child, a child is that of a connection which waits for it or which
is dropped in this pass, and then no event of its pipe is left; so `waitpid` finds
the connection's own child, and finds it once.

`Implementation`, in the same module: each step of the loop is a step of `Exchange`
under the mapping `phaseBar`, `answersBar`, or leaves both alone. Two cases are not
immediate. An answer is the client's first and made from its own bytes, which `Inv`
says of a connection that is asked. And a deleted connection closes an exchange that
was not over yet, which is `Owned`.

`ResponderProofs`: `Vetted` says what each stage has established of the request
and is inductive; no other client's step touches it. `EffectPermitted`, of one
step, then follows from `Vetted`. That the comparison of unsigned numbers keeps
the limit is `LimitKept`, which rests on the request and the block having their
types.

The module has two more invariants, over `Vetted`. `Outcomes` says what each
stage implies of status and route: past the checks the route is the first that
matches, a status of 200 and the right method; on the way to the answer a refusal
without a route has 404 or the parser's code, one with a route a code of the map or
the redirect's. `KnownDeaths` follows from the steps that end the process, of which there are
five kinds, `CGIKept`
from a second match finding the same route and the same checks. `Handling` says that
one client of a port at a time is between request and answer, and that what a
client has open is its `Upload`. From it a file that one port alone stores to is
either empty and being written, or whole (`Stored`); the deletions that succeeded
and the file that is there are no more than the uploads and the file there was at
first (`Counted`, the only place where clients must be finitely many). These give
`StoredWhole` and `DeletionsCounted`. For `PageHasText`: a page that was found is
still there or another port has removed it (`Located`), and a file that is there and
empty is open for an upload or was left so by an empty body (`Blank`); what is left is
that no descriptor was free.

`CGIProofs`: `Inv` is inductive. That an answer holds the whole output
(`WholeIfAtOnce`) needs that a short read finds nothing left to write, which
follows from the output being conserved and written at once. `Implementation` maps
each step to one of `Program` or to none; a thread that waits, waits for a child
that has been forked (`WaitsForOwn`).

`ShutdownProofs`: `Inv` adds to the three properties who holds the mutex
(`Guarded`), which threads exist (`Started`), how far the joins are (`Joined`) and
why a flag is raised (`Caused`). `TypeOK` is one of its parts. `ExitsLast` holds of
the joins by `Joined`; of the catches because before the first thread nothing is
created, and after it only `new` can fail, which is the exception it states.

`ConfigurationProofs`: `TypeOK` is inductive and says that what is on the stack
was made; `PortsDistinct` is inductive over it. `NothingUnset` proves
`WellDefined`; its invariant `Nested` says which pointers each level implies as
long as every brace has followed a keyword. `ServedRouted` proves
`ServedHaveRoutes` from `AllRouted`: what is on the stack or in a PortConfig has a
route, and no step takes a route away.

`OwnedOnce` and `EveryBlockServed` hold of files whose braces follow their keywords,
by an invariant in two parts. `RoutesOwned`: while a location is open, `route` is the
newest Route and listed nowhere, so closing the brace lists it once. `BlocksOwned`:
a block with a route is the one that is open, or on the stack, or served by a
PortConfig of its port; the stack has the order of the file, and all that is on it
comes before all that is served, so taking the top never meets a block twice and
leaves each port's blocks in reverse order.

`RequestProofs`, on the lemmas of `TextProofs`: `Inv` (in `RequestInvariant`) is
inductive, for any set of characters, any words, and any number of headers and
chunks. It describes the text as `a \o w`: `a` is what the parser has and `w`, the
variable `wire`, is what has not come. Before a part is read, `a \o w` is
what follows it in the text of the request, so taking the next part off either
yields the part as it was sent, or uses up `a` before its end: the cut.

* Start line: either every word is as it was sent, or the request was cut in it.
  Then the method or what was taken for the version is none that is supported
  (`Refused`), or what is left is no header that the server asks for, and the Host
  is missing (`NoHost`): the request is never answered 200. At a cut before the first character of the target the
  URL is empty, which is the only way to "dead": `DeadWithoutTarget` says that the
  target has not come, and not how much of the method has.
* Headers: `OnHeader(n)` says that the first n headers are stored, the first of
  each name, and that `a \o w` is what follows header n. When the line of header
  n + 1 is cut, `CutHeader(n)` holds from then on: what is left of a line has no
  line feed and a CR at most as its last character, so it may make entries of
  its own, but none that replaces one that was sent, for `insert` keeps the first.
  This is why `CutIsPrefix` speaks of the headers whose name has come, and not of
  all that the parser stores.
* Chunks: `OnChunk(n)` says that n chunks are decoded and that the next size has
  been read, of which at least the first character has come. A size that is cut, or
  data, or the line end behind it, leave an empty body and the last size, which is
  positive: `Stuck`, which nothing leaves. Only the size 0 ends the loop, and no
  size begins with a 0 but the last, so the data is then whole (`ChunksWholeOrNone`).

`WholeIsUnderstood`, `CutsArePrefixes`, `ChunksAreWhole` and `DeathNeedsNoTarget`
are read off `Inv`. The assumptions are that the characters the parser looks for
are characters, and that the requests are well-formed.

`TextProofs` says what `Find`, `Take`, `Erase`, `Before`, `After` and `HexNumber`
return, of a text and of one that is cut. What is inductive there, the
concatenation of any number of texts and the value of any number of digits, is
proved with `Induction`: a set of numbers that has 0, and n + 1 with n, is all of
them, which follows from the order of the numbers being well founded. The rule is
about a set and names no operator; the recursive functions it is used for are
shown to exist and to agree (`SumsExist`, `SumsAgree`, `ValuesExist`).
Equalities of concatenations are kept folded in `Same`.

Only model-checked: all liveness, which the prover cannot treat (fairness and
ENABLED are out of its reach). These are `EveryoneLetGo`, `SignalStops`,
`Decided`, `EveryProgramAnswered`, `ConnectionsEnd`, `SignalEndsServer` and
`ParseEnds`; of the last, `Inv` has the safety part, that a decoder which reads an
empty line has been cut off from the rest of its body. Every invariant and action
property of a passing run is proved. No module declares a recursive operator.

## What is left out, and assumed

* Linux: an accepted socket does not inherit O_NONBLOCK. A CGI program's output
  fits the send buffer.
* A CGI program reads, then writes, then exits (`Behaviour`); one that writes before
  it reads, or never exits of its own accord, is left out.
* `poller_live` has no reset and no fork that fails; `poller_safety` has both, and
  every kind of request.
* In `Responder` the descriptors of the connections are set aside and only what is
  left is counted; `Poller` has those of the connections. The write of an upload is
  one step. Files that two ports store to are excepted from `StoredWhole`, and lengths
  and limits that wrap from the limit in `EffectsPermitted`: both are what the code does.
* In `CGI` sizes are counts, a client does not leave (it does in `Poller`), and the
  strings of the environment are left out.
* In `Poller` the other ports appear only as descriptors that are not available
  (`Fd`), and as a signal. A client connects once. A child's input and what it
  inherits are in `CGI`.
* In `Poller` a request leaves nothing unread behind after it has been parsed; a
  POST with a body does, and its half-close is then not noticed.
* `Shutdown` does not nest handlers on one thread.
* Paths are a directory and a name; that the code joins them without a slash is
  not seen. Texts, headers, dates and error pages are left out.
* `Configuration` leaves out the arguments of options nothing here depends on.
* `WholeUnderstood` excepts a request that is refused with 400, and `m_port`, which
  is read from the Host and which nothing but a printout uses.
* In `Request` the requests are well-formed: chunk sizes with a leading zero or an
  extension, sizes that do not fit an int, queries that end in a slash,
  directories with a dot in their name or two slashes at their end, and headers that
  say chunked of a body that is not, are left out. What the parser makes of bytes
  that are no request is left out, but for the text that a cut leaves.

## Plan

1. A composition of `Poller` and `Responder`, in which what a request asks for is
   what `Responder` makes of it, and refinement between them; the children of
   `Poller` as an instance of `Program`.
2. POST bodies in `Poller`, whose unread rest hides a half-close.
3. Requests with chunk sizes the client writes otherwise, in a run of their own
   that shows what the decoder makes of them.
