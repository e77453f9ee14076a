# async_server in TLA+

`async_server` is a single-threaded epoll server. It accepts HTTP clients on several
ports, reads one request from each, hands the requests over Unix sockets to worker
processes in a small framed protocol, and writes each worker's answer back to the client
the request came from. This directory holds TLA+ models of it, the TLC runs that check
them and TLAPS proofs. Paths below are relative to the repository root.

## 1. Inventory

| part | code | state | operations | module |
|---|---|---|---|---|
| event loop | `src/async_server.c` 718-839 | `id_rbtree`, `timer_rbtree`, task and worker queues, `alive_comm`, the batch of events | expire, wait, dispatch an event, tear an app down, wake workers | `AsyncServer` |
| HTTP clients | `src/async_server.c` 171-369 | an `app_t` per client: handler, status, buffer, parser, timer | `accept_http_cb`, `recv_http_cb`, `send_http_cb` | `AsyncServer`, `HttpRequest` |
| workers | `src/async_server.c` 373-668 | two `app_t` on one socket: one receives answers, one sends tasks | `accept_local_cb`, `recv_local_cb`, `send_local_cb` | `AsyncServer`, `LocalLink` |
| local protocol | `src/async_server.c` 973-1015 | parser state, length | init, execute, is_done | `LocalLink`, `FrameChannel` |
| echo worker | `src/echo.c` | receive buffer, parser | receive, answer | `LocalLink`, `FrameChannel` |
| HTTP parser | `src/http_parser.c` | state, header state, flags, content length | execute, should_keep_alive, request_is_done | `HttpRequest` |
| red-black tree | `src/rbtree.c` | nodes with pointers and colours, sentinel | insert, delete, search, min, next | `RBTree` |
| queue | `include/queue.h` | nodes with two pointers | insert, remove, split, add | `Queue` |
| process and id file | `src/server.c`, `src/async_server.c` 671-716, 842-970 | `server->id`, `id_file`, setjmp buffer, descriptors | create, add_sockets, signal, destroy | `Lifetime`, `Descriptors` |
| descriptor reserve | `src/async_server.c` 123-149, 287-331, 538-634 | `dummyfd`, the process's descriptor table, the epoll set | `accept_socket`, the failing exits of the accept handlers | `Lifetime`, `Descriptors` |
| URL parser, logging | `http_parser.c` 2240-2560, `async_server.c` 74-118 | | | not modelled |

How the parts interact. There is one thread; parts call one another, and everything that
is concurrent comes from outside: the kernel's ready list changes while a batch of events
is handled, clients and workers send, close and die at any step, timers fall due, and
signals arrive anywhere. An app moves `read -> wait -> write -> close`; its handler
pointer and its epoll mask change with its status. A client's request goes from the
client's buffer into the task queue, from there into a worker's socket, and comes back as
a frame whose id is looked up in the id tree.

What is hard about it:

* the wake-up: workers stop watching for writes when there is nothing to do, and are armed
  again at the end of an iteration only;
* events of one batch that act on the same objects (a client that hangs up in the batch in
  which its answer arrives), and freed apps that a tree, a queue or a later event might
  still name;
* the two halves of a worker connection, which end separately and share one descriptor;
* partial sends, EAGAIN, and calls that fail half-way through a handler;
* streams cut anywhere, in both protocols, against buffers that fill up;
* ids that must stay unique across restarts and kills;
* a descriptor table that fills up in the middle of an accept handler, two descriptors of
  one open file, and the one descriptor kept in reserve.

What makes each part correct: the loop never follows a reference to a freed app, counts
its connections right, never sleeps on a task a worker could take, and releases every
client that has a timer; a request is given to one worker once, in order, and its client
gets at most one answer, which is an answer; frames arrive whole, in order, however they
are cut; a request is handed on exactly when it is whole; the tree stays a search tree of
the members it was given; a list operation touches its own list only; ids are
not reused; every descriptor has one owner (one that a signal tore from a local variable has
none) and every epoll registration a live app.

## 2. Plan

Done in this order, the most important behaviour first:

1. `Dispatcher`, `AsyncServer`, `AsyncServerInv`, `AsyncServerProofs`: the core, its
   abstract specification, its inductive invariant, its proofs.
2. `LocalLink`: the bytes of the worker connection, which `AsyncServer` treats as frames.
3. `Queue`, `RBTree`: the data structures `AsyncServer` treats as sequences and sets.
4. `Lifetime`: what one run of the loop cannot show: signals, kills, the id file.
5. `HttpRequest`: the decision that `AsyncServer` leaves open ("the request is complete").
6. `FrameChannel`: the queue of frames that `LocalLink` implements, which ties the frames of
   `AsyncServer` to the bytes.
7. `Descriptors`, and `Lifetime` over it: `accept_socket`, `dummyfd`, the failing exits of the
   accept handlers, and what `server_destroy` closes.
8. The methods and targets of `HttpRequest`, character by character.
9. Proofs of every safety property of `AsyncServer`, `LocalLink`, `Queue` and `Lifetime`, of the
   properties of `HttpRequest` that speak of the bytes alone, of every property of `RBTree`, and
   of both refinements (section 5).

What is left: the properties of `HttpRequest` that compare the parser with what the stream was
built from.

## 3. Modules and how they correspond to the code

### AsyncServer (with Dispatcher, AsyncServerInv, the three AsyncServer...Proofs, MCAsyncServer)

An app is named by its id, which the server hands out in sequence and never reuses in one
run, so a dangling pointer is an id whose `handler` is `"none"` and that is still
somewhere. The fields of `app_t` are functions of the id (`handler`, `status`, `interest`
for the epoll mask, `ttl` for the key in the timer tree, `buf` for what the buffer holds).
`idTree`, `task`, `worker`, `aliveComm` and `nextId` are the fields of `async_server_t`.

`pc` says where the loop is: `top` (expiry, lines 735-763), `wait` (in `epoll_wait`),
`events` (between two events of the batch), `settle` (after the handler, before the code
at 790-821 looks at hang-ups and the status). Handlers are one action each, with every
exit of the handler as a disjunct: `RecvHttp` is `RecvMore`, `RecvDone`, `SetClose` or
nothing; `SendLocal` is `WorkerIdle`, `TasksSent` or `TasksLost`. Clients, workers and the
clock act between any two steps. The two halves of a worker have consecutive ids and share
the socket of the first (`Sock`), as `dup` makes them do; `CloseFd` releases it with the
last of them.

What a failing allocation does is a step of the handler it happens in, switched by
`AllocFails`. In particular a lost answer buffer (`buf = "null"`) stays lost. A frame that
fits no buffer is `OversizeAnswers`. Sequence numbers, clocks, log text and payloads are
left out; a payload is `request`, `answer`, `empty` or `null`.

`Dispatcher` is what the server promises: every client is connected, queued, dispatched,
answered, responded and released in this order, with shortcuts to release; requests are
dispatched in the order they were queued. `AsyncServer!RefinesDispatcher` is the
refinement, with `Stage` as the mapping.

### LocalLink (with FrameChannel, LocalLinkProofs, MCLocalLink)

Both directions of one worker connection, byte by byte: `wire[e]` is the socket buffer
towards `e`, `kept[e]` the part of an unfinished frame at the front of `app_buf`,
`arrived[e]` what `recv` returned and the parser has not seen, `parser[e]` the local protocol
parser. `Recv` is the call of `recv`, `Parse` one round of the loop of `recv_local_cb` (391-429),
which `echo.c` repeats: a worker is blocked in `send` between two rounds, and the server goes on
to its next handler only when nothing of `arrived` is left (`Idle`). A byte has `Base` values, so the two bytes of a length count to
`Base^2 - 1` and the interesting sizes are small; `ServerCap`/`WorkerCap` are the two values of `LOCAL_MAX_RMEM`, scaled in the same way.

`FrameChannel` is what the connection promises and what `AsyncServer` uses of it: a queue of
frames each way, and one answer for each request, under its own id. `LocalLink!Channel` maps
the bytes to frames by their lengths alone (`Split`, over what is in the buffer and under
way), and each round that completes a frame to one step, so `RefinesChannel` says that no cut of the stream, and no state of a parser, shows.

### HttpRequest (with HttpRequestProofs, MCHttpRequest)

`recv_http_cb` and the parser it drives. One operator per state of `http_parser_execute`,
taking one symbol: a word, a mark, a digit, CR, LF, SP or a body byte. A method is read letter
by letter, with the guess and the jump table of `s_req_method` (`FirstGuess`, `Jumps`), and a
target by `parse_url_char` with a few characters of each class. `Spelling` is the table of names,
`HTTP_METHOD_MAP`. `Take` is one round of the loop over a piece, with what ends it early (an
error, an upgrade); `Feed(p, piece)` is a function of how many symbols have been taken, and
`Execute` its last value. `Recv(n)` is the
whole handler for a recv of `n` symbols (`Received`), with the buffer growth before it and the
verdict after it. `MaxLength` stands for `ULLONG_MAX`, with the overflow tests against it.
`MCHttpRequest` builds streams from requests and says where each request ends, which words are
methods and which targets have a form (`GoodTarget`, a grammar) without parsing; `WholeRequest`,
`NotHeldBack`, `BodyCounted` and `GoodNotRefused` compare the two. `CutsInvisible` compares the
parser with one that gets the same bytes in one piece, `MethodAgrees` its guess with the letters
in the buffer, and `DeclaredLength`, a part of `TypeOK`, says that no digits give the value that
stands for no length.

### Queue, RBTree (with QueueProofs, RBTreeProofs, MCQueue, MCRBTree)

The pointer structures of `queue.h` and `rbtree.c`, one operator per function. What `rbtree.c`
says twice, for left and right, is said once of a side. A loop is a round, an operator of its
own, that `Repeat` applies as often as there are cells; a round of a loop that has ended changes
nothing. `RBTree!Expire` is the walk of the event loop that deletes every due node while it goes.
`Bypass`, `TakePlace`, `Detach` and `DeleteFixup` are the parts of `rbtree_delete`.

### Lifetime (with Descriptors, LifetimeProofs)

Runs of the program one after another: `server_create` opens the reserve and reads the id
file, `add_sockets` hands out the first ids, the loop the others, a signal jumps to
`server_destroy`, which frees the apps, closes everything and writes the file. `Kill` is any
end without that. Each process has a descriptor table of `MaxFds` entries (`Descriptors`,
which is the kernel's part: lowest free number, `dup`, and epoll entries that last as long as
the open file they were made for). The accept handlers are modelled call by call: `pc` is
`accept` before the `accept` of `accept_socket`; `spare` after the reserve was closed, `turned`
with the connection to be turned away, `reopen` after its close, `reopened` before
`server->dummyfd` is assigned; `made` with a new descriptor, `dup` and `copied` around the `dup`
of a worker; `closing` between the end of an app and the close of its descriptor. A descriptor
that only a local variable knows is `call.fd`. Every exit on a failing call is an action
(`AcceptFails`, `SpareFails`, `Refused`, `LocalHalf`). `accept` looks for
a descriptor before it looks for a connection, as Linux does. What the apps then do is in
`AsyncServer`; here they only end (`Teardown`).

`Signal` may come at every `pc`, and between any two calls of `server_destroy`, which then
starts again; what was in `call.fd` becomes a `stray`, a descriptor nobody will close. Two
places have fewer steps than the code, and a signal there leads to no other state of the
descriptors: epoll_ctl(ADD), the next id and the entry of `id_rbtree` are one step (`Adopt`: in
between, the descriptor would be a stray just as it is before, its registration would end with
`epfd`, and an id would be skipped), and so are the last closes and the write of
`server_destroy` (`SaveId`: they close descriptors the server knows, and closing one again does
nothing, as nothing is opened any more). A signal in the middle of an update of a tree or a
queue, of `malloc` or of stdio, before `setjmp` or after `free`, has no defined outcome
(`SignalLost`).

## 4. Runs

| run | instance | what it shows |
|---|---|---|
| `safety` | 2 workers, 1 client at a time and up to 3 in all, everybody may close | `NoDanglingReference`, `SendsOnlyAnswers`, `DuplexWorkers`, `NoLostWakeup`, `DispatchedOnce`, the inductive invariant `ConnInv`, `RequestDispatched` (liveness) |
| `faults` | 3 ids beyond the listeners, timers, failing allocations, oversize frames, batches of 2, accepts of 2 | the inductive invariant `IInv` (`TypeOK` is its first part), `AliveCommCounts`, `ClientReleased` (liveness) |
| `requests` | 2 clients at a time, a worker that stays, 2 tasks per send | `NoRequestLost`, `ConnInv` with a worker that stays, `RefinesDispatcher` |
| `framing` | three frames of different sizes, all cuts | `TypeOK`, `FramesIntact`, `BufferMatchesParser`, `StaysOpen`, `AllAnswered` (liveness), `RefinesChannel` (refinement) |
| `http_streams` | 6423 streams, all cuts | `TypeOK`, `WholeRequest`, `NotHeldBack`, `BodyCounted`, `CutsInvisible`, `MethodAgrees`, `GoodNotRefused` |
| `queue` | 3 heads, 4 nodes, all operations | `RingsLinked`, `OthersAlone` |
| `tree` | 8 nodes, some with equal keys, all orders of insertion, deletion and expiry | `TypeOK`, `WalkVisitsAll`, `SearchExact`, `Balanced`, `Linked` |
| `lifetime` | runs of a process with 7 descriptors until 5 ids are used, signals between any two calls, kills and failing calls anywhere | `TypeOK`, `FileAhead`, `IdsUnique`, `DescriptorsOwned`, `RegistrationsLive`, `ClosesAllKnown`, `ReturnsWithRoom` (liveness) |

The violations each refute a sentence of the repository, quoted in `PROJECT.json`:

| run | property | what the code does |
|---|---|---|
| `truncation` | `NeverTruncated` | a partial send ends the exchange |
| `partial_send` | `FramesIntact` | a partial send of a frame puts the stream out of step |
| `http_blank_line` | `WholeRequest` | a line end before the request is dispatched as a request |
| `accept_full` | `HandlerReturns` | with the last descriptor used by a connection, `accept_socket` never returns |

Other behaviour that the models contain and that a maintainer may want to know of, without a
run of its own:

* `send_http_cb` (189) reads `errno` after a `send` that returned 0 for an empty answer: an
  old EAGAIN keeps the client in the write state and the loop busy, until a timer ends it
  (`AnswerRetry`).
* A frame of length 65535 fills the 65536 bytes of `app_buf` before it is complete, and
  a request of more than about a kilobyte fills the 1024 bytes of `echo.c` (its comment says
  128K): `recv` is then asked for 0 bytes, and its 0 is taken for the end of the stream
  (`SeesEnd` of `LocalLink`, `ReceiveEnds` of `AsyncServer` under `OversizeAnswers`).
* `signal_handler` is installed before `setjmp` is called and jumps out of any instruction.
  Before `setjmp`, in the middle of an update of a tree or a queue, of `malloc` or of stdio, or
  after `free` this is undefined behaviour (`Lifetime`, stage `lost`), and the id of that run is
  not saved.
* A signal that jumps out while only a local variable knows a descriptor leaves it open after
  `server_destroy`, which knows the apps and its own descriptors: from the return of `accept` to
  the entry in `id_rbtree` (`async_server.c` 126-148 and the handler after it), around the `accept` and
  `open` of the reserve (135-139), from `dup` on (610), and between the end of an app and its close
  (810-814). `async_server.h` 31 says that it closes all fds. `ClosesAllKnown` says what does
  hold: one descriptor at most for each signal, and none for a signal in the wait. The reserve has a second
  such window: when the signal comes before 139, `server->dummyfd` is still the number that was closed.
* `send_local_cb` moves a worker it has served to the tail of the worker queue "to balance the
  load" (523), but nothing takes a worker from the head: `Wake` arms every worker and the order
  of events decides who is sent the tasks (`SendLocal`).
* A worker that is accepted with the last free descriptor gets a receiving half only, since
  `dup` fails (610): the connection stays, and is never sent a task (`LocalHalf`).
* A header whose name only begins with `Transfer-Encoding` sets `F_TRANSFER_ENCODING`
  (`http_parser.c` 1344), so a request with it and no `chunked`, or with a Content-Length, is
  refused (`SetsTE`).
* After a kill the next run hands out the ids of the killed one again (`Lifetime`, `clean`).

Every checked property also has a mutant in its module, a definition changed the way a
plausible bug would change it, for which TLC finds the property violated.

### Bounds, and why they are enough

* `AsyncServer`. Ids are not reused, so `MaxApps` bounds the connections of a behaviour:
  two clients are needed for order and mix-up of answers, two workers for double dispatch,
  and no property relates more than two of either; `requests` has the former, `safety` the
  latter. A worker costs two ids. `MaxPending = 1`
  gives the accept loop at most one connection per event; `faults` uses 2, with a
  `MaxEvents` of 2, so that a batch may leave ready apps behind. `ChanCap = 1` makes a
  worker's socket buffer full as soon as one task is in it. `MaxSend = 2` in `requests`
  makes the loop over tasks stop in its middle. The state constraints `OneClient` and
  `TwoClients` of `MCAsyncServer` limit how many clients there are at a time, and `OneClient`
  also how many peers have hung up. They forbid steps of the environment only, never one of
  the loop, so the fairness of the liveness checks is not cut off by them.
* `LocalLink`. Frames of a header alone, of half a buffer, of exactly the buffer and one byte
  more, which is the largest a length can say.
* `HttpRequest`. The buffer doubles twice before it is full (8, 16, 32 symbols, for 256 to
  32768 bytes); that the largest size is the smallest doubled some number of times is
  `BufAssumption`. Streams are shorter, as long and longer. All 34 methods, and the words got
  by going on as another method from some letter on, by dropping the last letter and by adding
  one; all targets of up to three characters of eleven classes, and all of up to two after
  `x://`: each pair of neighbours that `parse_url_char` tells apart. 25 headers alone, and in any two
  on an HTTP/1.1 line: the parser's decisions relate at most two headers. `MaxLength = 255`
  lets three decimal digits reach it and overflow it.
* `RBTree`. Eight nodes give deletions in which the fix-up climbs two levels; some of them
  have equal keys, which only the timer tree may have.
* `Queue`. Three heads are the two queues and the target of a split.
* `Lifetime`. Two listeners and five ids allow three starts: one to leave a file, one to
  spoil it, one to suffer from it, and in one run a worker with both halves, or three clients.
  Seven descriptors are the server's own five and two more: one connection fills the table
  half, a second or a worker's second half fills it, a third finds it full. `Backlog = 2` lets
  the accept loop of `accept_http_cb` go round; the waiting connections are one per listener
  at a time. `Connect` keeps the bound on ids, so that no handler stops at it. `accept_full`
  has six descriptors, so that one client fills the table.

### Fairness

`FairSpec` of `AsyncServer` assumes that the one thread runs (`WF(Loop)`), that time passes
(`WF(Tick)`) and that a worker reads what it was sent (`WF(WorkerTake)`); without the last a
full socket buffer rightly blocks the queue. Nobody is assumed to connect, to send, to
answer or to close. `FairSpec` of `LocalLink` assumes that both ends go on receiving and
that the server sends what it has queued. `FairSpec` of `Lifetime` assumes that an accept
handler which was called runs on; that calls fail, connections come or the system runs out
of files is nothing it may rely on.

Deadlock is not checked where the system may rightly stop: a server with nothing to do is
in `epoll_wait` for good, the scripted streams of `LocalLink` and `HttpRequest` end, and so
does the last run of `Lifetime`.

## 5. Proofs

Every safety property that the runs of `AsyncServer`, `LocalLink`, `Queue` and `Lifetime` check is
also a theorem, for every value of the constants, and so are `TypeOK`,
`CutsInvisible` and `MethodAgrees` of `HttpRequest` and both refinements: of `Dispatcher` by
`AsyncServer`, of `FrameChannel` by `LocalLink`. The only assumptions are the named `ASSUME`s of the modules, which say of which kind a constant is
and the few relations the code itself fixes; three theorems have a hypothesis more, given below.

### The event loop

| theorem | states | module |
|---|---|---|
| `Invariance`, `TypeCorrect` | `[]IInv`, `[]TypeOK` | `AsyncServerProofs` |
| `NoDangling`, `AnswersOnly`, `WakeupKept` | `[]NoDanglingReference`, `[]SendsOnlyAnswers`, `[]NoLostWakeup` | `AsyncServerProofs` |
| `ConnInvariance` | `[]ConnInv` | `AsyncServerConnProofs` |
| `WorkersHeard` | `[]DuplexWorkers`, if no answer is too large (`~OversizeAnswers`) | `AsyncServerConnProofs` |
| `CommCounted` | `[]AliveCommCounts` | `AsyncServerConnProofs` |
| `OneDispatch`, `RequestsKept` | `[]DispatchedOnce`, `[]NoRequestLost` | `AsyncServerRequestProofs` |
| `Refinement` | `Spec => RefinesDispatcher` | `AsyncServerRequestProofs` |

None of the safety properties is inductive. The invariant `IInv` (`AsyncServerInv`)
adds what the code relies on without saying so:

* `Registered`: an id is in the id tree exactly when its app exists, and is below `nextId`;
* `Shape`: what handler, status, epoll mask and buffer may be together, and that a sending
  half directly follows its receiving half, whose timers never run;
* `QueueShape`: the task queue holds clients that wait with their request in the buffer, the
  worker queue holds sending halves, each at most once; a client whose request is queued
  watches for hang-ups only;
* `BatchShape`: an event in the batch is one its app watches, for an app in the tree; the
  app in `cur` has not been handled again;
* `ChannelShape`: what workers hold and answer are ids that were handed out;
* `Armed`: between iterations with tasks queued, every worker watches for writing.

The step from an event collected earlier to the handler it reaches is where these meet:
`BatchShape` and `QueueShape` give `SendsOnlyAnswers`, since a queued client has no read or
write event in any batch. The proof has one step per action of `Next`; steps that change
no server state share the lemmas about unchanged parts. Helper lemmas state what `Unlink`,
`SubSeq` and `Append` keep of a sequence without duplicates.

`ConnInv` is about how connections begin and end, and inductive next to `IInv` (the runs
`safety`, with workers that close, and `requests`, with one that stays, check it: the first has
`HeardWorkers` to show, the second `StayingWorkers`): `ListenersKept` (nothing ever tears a
listener down, so the count of the others is right), `Halves` (only clients have timers; the id
below a sending half is its receiving half, or is free), `StayingWorkers` (a worker that does
not go away keeps its sending half, which alone fills its channel), `HeardWorkers` (a receiving
half ends only after its worker closed the connection) and `Responses` (a client with a response
is on its way out and is not queued). With an answer that fits no buffer the receiving half ends
while its worker goes on, which is what `recv_local_cb` does, and why `WorkersHeard` needs its
hypothesis; the runs that check `DuplexWorkers` have no such answers either.

`DispatchedOnce` follows from `Once`, where a request is counted in sockets and in workers
(`With`), and from the part of `IInv` that keeps queued requests apart. `NoRequestLost` follows
from `Waiting`: a client that waits is queued or with a worker. Both go through the loop
over tasks of `send_local_cb`, whose outcome is described once (`Written`, `Forwarded`): a
prefix of the queue is in the socket, the rest is still queued. For the refinement,
`StageValues` ties the stage of an app to its handler, status and buffer, and each
action moves one stage by one arrow of `Dispatcher`, or none; `SendLocal` moves a prefix of the
queue, in order.

### The worker connection

`LocalLinkProofs`: `TypeCorrect` (`[]TypeOK`), `BufferAgrees` (`[]BufferMatchesParser`),
`OnlyLargeFramesEnd` (`[]StaysOpen`), and `FramesKept` (`[]FramesIntact`) for a `send` that takes
frames whole, `~PartialSends`: the `partial_send` run shows that the hypothesis is needed. The
base of a length, the capacities of both buffers and of the sockets, the requests, the answers
and every cut of the stream are arbitrary.

`SizeAssumption` asks for buffers that hold more than a head, and for frames whose length fits
its two bytes. The server's requests are below `HTTP_MAX_RMEM`, so theirs does; that an answer's
does is the worker's part (`htons` of `sendLen` in `echo.c`).

The invariant is `Agrees(parser[e], kept[e])` at both ends: the parser's state is the one that the
buffered bytes lead to. `ExecuteReads` proves that one call of
`local_protocol_parser_execute` on any bytes either completes a frame that is as long as its head
says, or uses them all and agrees again; the rest is arithmetic of two-byte lengths (`TwoBytes`,
`LengthLeft`). For `FramesKept` a stream is related to frames without recursion: `Spells(s, f)` says
that there are cuts `at` of `s` with the frames `f` between them, and `SpellsFirst` that a read
which is as long as its head says is the first of them. `Streams` then says that what is on its
way to each end (buffer, bytes not parsed, socket, and what the worker has not sent) spells the
frames it has not taken yet.

The last part proves `ChannelKept` (`Spec => RefinesChannel`), under the same hypothesis.
The mapping takes the frames out of a stream with a recursive function, `Split`. That such a
function exists is proved first: if some length had no solution of the equation, so would a
smaller one (`LeastNat`, the least number principle; `Solvable`), and two solutions agree
(`SolvedOnce`), so `Split` obeys its equation (`SplitIs`). `SplitFirst` and
`SplitLast` say what a frame at either end of a stream adds, by the same kind of least
counterexample, and the lemmas on `Contents` what that is in terms of requests and answers.
`SplitSpelled` joins this to `Streams`: `Split` finds
the frames the stream spells. Then a round that completes a frame takes the oldest one from
its queue (`WorkerServes`, `ServerCollects`), queued tasks that are written make a new one, and
everything else moves bytes within one stream (`MovesStutter`).

### How a request is read

`HttpRequestProofs`: `Types` (`[]TypeOK`), `NeverUndeclared` (`[]DeclaredLength`), `NoTraceOfCuts`
(`[]CutsInvisible`) and `GuessesRight` (`[]MethodAgrees`), for all streams of strings, all cuts, every
size of the buffer and every largest length. `BufAssumption` says what the code's constants
fix: `REMOTE_MAX_BUF` is `REMOTE_MIN_BUF` times a power of two (without that the buffer would
grow past it), and the largest length is beyond one digit.

The invariant (`Inv`) ties the parser to the bytes: as long as the connection is read, the
parser is what `Feed` makes of the stream in one piece, at the point where the buffer ends. Three
lines of argument make it inductive.

* `Sound(p)`: which header state and which length go with which state of the parser. A declared
  length is below the largest one, a length that is counted down is not zero, and while a
  method is read its guess is a method with as many letters. There is one lemma per parser
  operator; `StepSound` collects them, and says that a symbol leaves the method as it is refused,
  as it begins, or as one more letter that the guess has.
* `FeedCut` and `FeedPrefix`: feeding a piece and then another is feeding both at once, and what
  has become of a prefix does not depend on what follows it. `Feed` is a recursive function, so
  these too start from a proof that it exists (`Runnable`, `FeedIs`), by induction on a set of
  numbers (`Upward`).
* `GuessesAgree` and `JumpsAgree`: each first guess begins with its letter, and each of the 19
  jumps leads to a method that has the same letters before the jump and the new letter at it,
  over the whole table of words. `StepAgrees` and `AllFed` carry this along a stream.

The sizes of the buffer are a matter of their own: a divisor of a power of two that is not 1
is even (`HalfDoubling`), so a buffer smaller than the largest one may be doubled (`SizedDoubles`).

### The data structures and the process

`QueueProofs`: `QueueInvariance`, `ListsLinked` (`[]RingsLinked`) and `NodesAlone` (`[]OthersAlone`), for
any heads and nodes. A list is described as a function on `0 .. n` with the head at 0, so that
the head needs no case of its own; `LinkedAt` says that `next` and `prev` lead around it, `Apart`
that no cell is in two lists, and each operation of `queue.h` has a lemma on the ring it makes
(`TailRing` and those after it), also for the two that cut and join lists.

`RBTreeProofs`: `Types` (`[]TypeOK`), `SearchesExactly` (`[]SearchExact`), `WalksAll`
(`[]WalkVisitsAll`), `StaysBalanced` (`[]Balanced`) and `StaysLinked` (`[]Linked`), for any nodes and
any keys. What a tree is must be said without paths or
subtrees, which would need an induction in every step. `Kin` says that the pointers of
neighbours agree. `Placed` gives each member a number, its place in the walk, and two more between
which the places of all that is below it lie (`Lim`): a child's limits are its parent's and its
parent's place, and nothing lies between a member and its limit on a side where it has no child.
`Shaped` is both; the invariant `IInv` is that the members make a `Shaped` tree, that it is
`Coloured` (below), and that the sentinel is its own parent again. What each operation does to the numbers:

* A rotation, in either direction, changes two limits and no place (`RotateShaped`).
* An insertion doubles all numbers and puts the new node on the odd one next to its parent
  (`Made`); that the room there is right for its key is the invariant of the way down (`DescendIs`).
* A deletion of a node with at most one child widens the limits of that child (`SkipShaped`).
  A node with two children is replaced by its successor: the same tree comes from skipping the
  successor and giving its name to the node (`Renamed`, `TakePlaceShaped`).

The fix-ups of both operations are rotations and paint, so they keep the shape and the order
whatever they do (`FixupsShaped`). Loops end because each round goes to a smaller set of members,
those within the limits (`RepeatEnds`, `Size`). The walk that deletes what is due keeps the order
of what is left (`OrderKept`), so the node that was looked up before the deletion is still the
first of them (`DueStep`).

The balance is said without paths too. `Heights` is a number for each node, the black nodes from it
down, that is right for both children; `Coloured` says that there are such numbers, that no red node
has a red child, and that the root and the sentinel are black. Half way through a fix-up one of
these is broken in one place, and the invariant of the loop says in which:

* After an insertion (`Rising`) only the node the loop is at may be red below a red parent, or be a
  red root. A round moves that two nodes up or ends it (`RisingRound`, `InsertFixupColoured`).
* After a deletion (`Sunk`) only one slot, the one in which `temp` hangs, is short of a black node
  (`Owed`). So the sibling's height is one more than `temp`'s, and it is never the sentinel
  (`ActiveIs`). A round moves the slot up or ends it (`SunkRound`, `DeleteFixupColoured`).

That taking a node out leaves a `Sunk` tree if it was black, and a `Coloured` one if it was red, is
`SkipSinks`; `RenamedSinks` carries it over to the tree in which the successor has taken the node's
place and colour. `Balanced` counts from the sentinel up, and finds the same numbers
(`BlackHeightsIs`).

`LifetimeProofs`: `LifetimeInvariance`, `TypeCorrect` (`[]TypeOK`), `FileStaysAhead`
(`[]FileAhead`), `IdsAreUnique` (`Spec => IdsUnique`), `DescriptorsKnown`
(`[]DescriptorsOwned`), `RegistrationsStayLive` (`[]RegistrationsLive`) and `DestroyCloses`
(`[]ClosesAllKnown`), for any number of descriptors, ids and connections, and a signal between
any two calls. The invariant has six parts: `Types`; `Phases`, what is open and pending at each
`pc` of the accept handlers; `IdsKept`, which relates the next id, the file and the ids that
were given; `Owned`, which names the owner of every descriptor that is not a stray; `Strays`,
that each of these took a signal, which stays blocked; `Registered`, the epoll set as a function
of the apps. That a new open file exists whenever a descriptor does (`FreshFile`) is the
pigeonhole principle on the table.

### What is only model-checked

* Liveness, which TLAPS does not reach: `ClientReleased`, `RequestDispatched`, `AllAnswered`,
  `ReturnsWithRoom`.
* `WholeRequest`, `NotHeldBack`, `BodyCounted` and `GoodNotRefused` of `HttpRequest`: they compare the
  parser with what comes with a stream (`ends`, `dataEnds`, `good`), which `MCHttpRequest` gets by
  building the stream. For arbitrary streams these fields mean nothing, and a statement for all
  that a grammar builds is an induction over the grammar.

## 6. Not modelled, and why

* The addresses of peers: `accept_socket` passes `&addr` of a pointer parameter to `accept`
  (126), which may write a whole `sockaddr` over the 8 bytes of the pointer. That is
  undefined behaviour; the models have the outcome in which nothing else is hit, where only the
  address in the log is wrong. No decision depends on it.
* `http_parser_parse_url`, `http_parse_host` and the other functions of `http_parser.c` from
  2229 on that nothing calls, and the states that read responses (729-923): every parser is
  an `HTTP_REQUEST` one. Callbacks, pausing and the header size limit are not used or, with
  32768 bytes, not reached. This, and letters of header names and values that the model takes
  as one symbol, is why the HTTP parser is listed as partly modelled.
* The clock only advances. `gettimeofday` may be set back, which delays timers and may overflow
  the `int timeout` of 769; the code says nothing of it.
* Logging and time formatting.
* Two pipelined requests that arrive together: `HttpRequest` shows that they are handed on
  as one task once both are complete; no text of the repository says what should happen, so
  no property does either.
* Repeated `Transfer-Encoding` headers follow the parser, which looks for `chunked` in each.
