# remote_dict in TLA+

A verification of the dictionary server in this repository: TLA+ modules
translated from the C++ sources, TLC configurations that check them on small
instances, and TLAPS proofs of what holds for every instance. Source paths
below are relative to the repository.

## The system

A client connects, sends one length-prefixed protobuf request (GET, SET or
STAT), reads the reply and closes. The test client does this for every line of
a file, from several threads, and saves the replies. The server is one process:

    main ── start ──> workers 0..n-1, then the listener   (ServiceThread each)
    listener: accept ── round robin ──> addFdToEvLoop(worker)
                         'c' on the worker's socket pair, fd on its queue
    worker: onEvent drains the queue ──> TcpFlow per connection
            TcpFlow::data ── parse ── handler ──> Dictionary, Stats
    main ── SIGINT/SIGTERM ──> stop(listener), stop(worker) one by one
                               ('e' on the socket pair, wait on a condvar)

| component | state | operations | what makes it correct |
|---|---|---|---|
| Dictionary (`server/src/Dictionary.cpp`) | map, flag, filter, mutex | set, get, enableBloomFilter | linearizable; bounded size; the filter has no false negatives; mutex always given back; no null filter |
| bloom filter (`util/include/bloom_filter.hpp`) | bit table | insert, contains | what was inserted is contained |
| Stats (`server/src/Stats.cpp`) | three counters | three increments, three getters | nothing lost; a STAT reply close to one moment |
| request handlers (`server/src/TcpFlow.cpp` 114-186) | the payload | GET, SET, STAT | reason only on a miss; outcomes add up |
| TcpFlow framing (`TcpFlow.cpp` 41-109) | buffer, lengths | data, parse | chunks land in place; a request is performed whole, once |
| ServiceThread (`server/src/ServiceThread.cpp`) | socket pair, queue, flags, condvar | start, run, onEvent, addFdToEvLoop, stop | no descriptor left behind; no lost notification; stop returns |
| ServiceWorker, WorkerManager, Listener, TcpServer, main | session tables, round-robin index, the connections | accept, dispatch, serve, delete, shutdown | one owner per descriptor; balance; nobody dropped; orderly end |
| TestClient (`client/src/TestClient.cpp`) | input, client threads, results | read and parse, divide, join, merge, save | every message sent once, by one thread; every result saved, in order; ends |
| Client (`client/src/Client.cpp`) | chunk, index, descriptor, results, latency | run, startClient, sendData | one result or one reason per message; no descriptor lost on the way |

The hard parts are the interleavings of main, listener and workers at start and
at shutdown; the two-step wake protocol (byte, then queue); the condition
variable shared by all threads; reads and writes outside a mutex (size check,
filter flag, STAT getters); TCP's freedom to split a request or a reply
anywhere; and, in the client, what a failing call leaves behind.
`PROJECT.json` lists each hazard at its line with the properties aimed at it.

## The modules

| module | models | how |
|---|---|---|
| `KeyValueStore` | the promise of the dictionary | atomic SET, refusal and GET between call and return |
| `BloomFilter` | insert, contains, addressing | the table is the set of bits that are 1; `hash_ap` is any function of key and salt |
| `Dictionary` | set, get, enableBloomFilter | one action per statement that another thread can see; `pc` per worker; composed with `BloomFilter`; maps to `KeyValueStore` (`ImplementsStore`) |
| `Stats`, `RequestHandler` | counters and handlers | `Dictionary` and `Stats` composed; the STAT getters are three steps |
| `ServiceThread` | one event-loop thread and its two callers | any number of threads; a callback is atomic except where it takes a lock or blocks |
| `TcpServer` | the server around its threads | extends `ServiceThread`; every step is one of its steps (`IsServiceThreads`) |
| `TcpFlow` | framing of one connection | `data` read by read, against every segmentation |
| `InputFile` | the parsing of the input file | lines as token sequences to messages; every value an unset `type` may have |
| `Client` | the client threads | `run`, `startClient` and `sendData` with each early return; sockets are named by the message they were opened for |
| `TestClient` | `start`, `saveResults` | extends `Client`; division, join, merge, batches; maps to `WorkList` (`ImplementsWorkList`) |
| `WorkList` | the promise of the test client | a message is taken, then answered or given up, once; one report of the answered |
| `DictionaryProofs`, `StoreProofs`, `RequestHandlerProofs`, `ServiceThreadProofs`, `TcpServerProofs`, `TcpFlowProofs`, `TestClientProofs` | | theorems and their proofs |
| `MC...` | | constants for TLC |

Variables carry the names of the C++ members (`m_dict`, `m_mtx`,
`m_tcpSessions`, `m_lenTillnow`, ...). Those without a counterpart are program
counters (`pc`, `hpc`, `cpc`, `mainPc`, `evPc`, `phase`, `stop`) and the outside
world (`peer`, `conn`, `arrived`, `fds`, `clock`).

Operators named `X_Something` with a comment "faulty variant" are not part of
any specification. They are plausible bugs in operator `X`; put in place of `X`,
the property they are listed with in `PROJECT.json` (`mutants`) must fail, which
shows that the property depends on that code.

Abstractions. In `Dictionary` the test of the flag is part of taking the lock:
only main writes it, without the lock, and a test later in the critical section
sees the same interleavings as a later lock. Two plain reads that race with a
write (`m_dict.size()` in set, the flag) are read as whole old or new values; a
size is one word on the platforms the Makefiles build for. In `ServiceThread`
the timer of `exitLoop` fires at any time after it was armed, so nothing is
assumed about its two seconds. In `TcpServer` a request is read and answered as
a whole, its content is `RequestHandler`'s and its framing `TcpFlow`'s business;
a connection is used for one request, as `Client` does. In `TcpFlow` byte j of
the payload is the number j, so that a wrong place shows; `misframed` is where
undefined behaviour begins, and the model stops there.

In `InputFile` a token is a word without its surrounding blanks, `" "` (blanks
only) or `""` (two commas in a row). In `Client` the reply is `whole`, its
`front` with the requesttype, or `nothing` that parses; `write` sends all or
fails; the generated `set_requesttype` asserts that its argument is valid, which
the Makefiles leave switched on. A timestamp is its rank: two results of one
thread differ, since a connection was made in between, those of two threads
need not. The sort is the choice of a least result, ties in any order. Each
request takes one of `Durations`; sums of latencies do not reach 2^32, as they
might if `m_averageLatency` began near it.

## What the runs show

| run | instance | shows |
|---|---|---|
| `dict_bloom` | 2 workers, 3 keys, 2 values, limit 2, 16 bits, 2 hashes | filter on from the first request: no false negative, and GET (read from its out parameter) and SET are linearizable, overrun and false positives included. The hashes make `k3` a false positive once `k1` and `k2` are in |
| `dict_startup` | the same, limit 1, requests while main is in `enableBloomFilter` | the size limit is overrun by at most workers - 1; a null filter is met only in that window; the mutex is given back on every path |
| `handler_stats` | 2 workers, 2 keys, 2 values, limit 1, filter off, INT_MAX = 3, 5 GETs | requests = successes + failures + GETs in progress; the counts behind a STAT reply, before and after the fields overflow: requests exceed outcomes by the GETs of the other workers at most, outcomes exceed requests by GETs begun since only; value and reason are not confused; the dictionary is still the atomic store in this composition |
| `thread_stop` | 2 threads, 2 descriptors, pipe of 2, initialization may fail | no stranded descriptor, no missed notification, no early stop; queues are served; stop returns |
| `server_faults` | 2 workers, 3 connections (symmetric), pipe of 2, all faults, early signals and clients | one owner and balance survive every failing call; a leaked descriptor is never that of an answered client, and only a worker being stopped leaks one it was given |
| `server_live` | 2 workers, 2 connections, pipe of 3, clients and signals come after initialization, clients read | nobody dropped, clean workers, no free of a running thread; no dispatch to a stopped worker; refinement of `ServiceThread`; clients are served; shutdown completes |
| `flow_split` | payload of 12 bytes, reads of 6, 3 tries, 15 of 16 split points, resets | once the header was read in one piece: assembled in place, answered, the last performed request whole; a request performed too early misses at most 4 bytes, and the request is performed at most five times. At this length a flow is deleted unanswered only after a reset or without a header (`RefusesOnlyShort`) |
| `client_once` | 0 to 3 threads; a file of 5 operations, one with an empty value; one with a line too short and a final newline; no file; 3 descriptors; connect, write and read may fail; batches of 2 | every message is one thread's, once; open descriptors belong to messages in progress or lost; the file is complete, in order and without repetition; the client dies of bad input only, and else comes to an end |

Four more runs state what a comment or the README says and end in a
counterexample (`findings` in `PROJECT.json`):

- `dict_success`: with the filter on `Dictionary::get` returns false even for a
  hit (line 80), so the handler sends the value as `reason` and counts a failure.
- `server_earlysignal`: a signal ends `sleep(2)` in main; `stop()` fails on
  threads without sockets, and their objects are destroyed under them.
- `flow_premature`: `m_lenTillnow >= m_payloadLen` compares a count with the
  header to one without; a pause in the last four bytes has the request
  performed with zeros at its end.
- `client_latency`: `m_averageLatency` has no initializer (`Client.h:72`), so
  `sendData` averages the first duration with whatever was there. One request is
  enough for the line at the end of the result file to be no latency.

Other behaviours the models contain, to be seen by changing constants:

- `PipeCap = 2` in `server_earlysignal` with `StartupRace = FALSE`
  and two connections: a full socket pair makes `stop()` fail, and the worker is
  freed while it runs.
- `StartupRace = TRUE` in `dict_bloom`: `TcpServer::start` enables the filter
  last, so a key stored before that is hidden by the empty filter
  (`NoFalseNegative`, and `GetFindsStored` for the GET that misses it).
- Two threads, two lines, `Faults = {"connect"}` and `UninitLatency = {0}` in
  `client_latency`: a last thread without results still counts in `saveResults`, and
  halves the average of the threads before it (`LatencyInRange` fails again).
- A line that is no operation makes a message all the same, and its `type` is
  what the stack held: `client_once` has it sent as another request, or dying
  in the assertion (`DiesOfBadInput`). The empty line after a final newline is
  one; `client/data/input_data.csv` ends so, and the files in `client/results`
  have 11 results for its 10 lines.
- `MayCut`: a reply of more than 80 bytes, or in two segments, is saved as far as
  the one `read` got it. The file does not show which lines those are.
- The chunks are not equal, although `src/README:32-33` has the data "divided into
  equal parts" to distribute it equally: five messages over three threads are 1, 1
  and 3, two over three are 0, 0 and 2.
- `Unread = {f1}` in `server_live`: `socketWriteData` spins, and
  `ShutdownCompletes` fails.
- `Faults = {"stray"}` in `thread_stop`: a wake byte that goes to a descriptor
  the uninitialized `m_sockets` happen to name strands the connection.
- `StartupRace = TRUE` in `server_live`: a connection accepted before its
  worker is ready is closed unanswered (`NoneDropped`).
- `Cuts` with 4 in `flow_split`: `m_currlen` is uninitialized after a first read
  of exactly the header (`Assembled`). With 1 to 3, which the run has, the flow
  ends up `misframed` or deleted without an answer: the code says "Unhandled
  case".
- `PayloadLen = 2` (a STAT request) with `Cuts = {5, 6}`: a first read of five bytes
  passes the check without a type, and the flow is deleted unanswered. A payload
  of 5 (a GET of one byte) can meet the same. `RefusesOnlyShort` names these
  lengths, and `AnsweredOrEnded` promises no more than an end.

### Bounds

Two workers show every race between two holders of the same resource; a third
only adds its share to `SizeBounded` and `StatReportSound`, and `SizeBounded` is
proved for any number. Three connections make the round robin wrap. In
`server_live` a pipe of 3 holds a byte for each of 2 connections and the exit
byte, so it is never full, as in practice, and its safety properties are proved
for any number of both; `server_faults` and `thread_stop` have it full. Limit 1
with three keys lets two SETs pass the check together, and an off-by-one would
show; INT_MAX = 3 puts the overflow after three GETs, and MaxGets = 5 goes past
it. In `TcpFlow` the payload takes several reads, `NUM_READ_TRY` reads do not
always reach its end, and the split points cover the header, the middle and the
last four bytes. Three client threads and five messages give no remainder, a
remainder, and (with the two lines and the newline of the other file) as many
threads as messages; three descriptors run out after three failures, with
messages left; batches of 2 end before, at and after the last line. `client_once`
has one duration and no unset latency, since nothing it checks looks at them.

### Deadlock

It is checked in `dict_bloom`, `dict_success` and `handler_stats`: workers can
always take another request. Elsewhere the system may stop: the process has
exited or died, threads are gone, or every connection is over.

### Fairness

Running threads are only preempted, so their steps are weakly fair. Nothing is
assumed about who gets a contended mutex, and nobody has to connect, hang up or
signal. libevent runs all active events of an iteration before it polls again,
and a due timer: in `ServiceThread`, where callbacks can recur for ever, reading
the socket pair and leaving are strongly fair. In `TcpServer` a client asks
once, so weak fairness is enough. In `TcpFlow` TCP delivers what was sent, and
the read event is persistent. In `TestClient` a `read` returns: the server
answers or ends the connection, as `ClientsServed` and `AnsweredOrEnded` show of it;
there is no timeout, so with a server that does neither `Finishes` is false.

## What is proved

The theorems hold for all values of the constants that satisfy the named
ASSUMEs of the modules: any number of workers, threads, keys, connections, any
hash, buffer and request length. What more a theorem assumes is written in it,
and is one of these:

| hypothesis | meaning | where it is false |
|---|---|---|
| `~StartupRace` | clients and signals come after all threads have initialized (`sleep(2)` in main is there for that) | `dict_startup`, `server_earlysignal`, `server_faults` |
| `"stray" \notin Faults` | a write through the uninitialized `m_sockets` fails | `server_faults` |
| `PipeFits` | a socket pair has room for a byte per connection and one more | `server_faults` |
| `"init"`, `"fcntl" \notin Faults` | libevent, socketpair and fcntl succeed | `server_faults`, `thread_stop` |
| `~bloomRequested` | the server runs without the filter | `dict_bloom`, `dict_startup`, `dict_success` |
| `Header \notin Cuts` | no segment ends right after the length header | |

### Dictionary (`DictionaryProofs`, `StoreProofs`)

- `DictTypeCorrect`: types.
- `SizeCorrect`: `SizeBounded`. Not inductive alone: a worker between the
  unlocked check and the store has the right to one more key. The invariant
  counts them: the size plus the workers past the check is at most
  MAX_DICT_SIZE + workers - 1 while some worker is past it, from cardinality
  facts of `FiniteSetTheorems`.
- `CrashCorrect`: `CrashOnlyInStartup`, with what `mainPc` says of flag and filter.
- `FilterCorrect` (`~StartupRace`): the filter contains every stored key, for any
  hash functions and table size. The strengthening: a worker about to store has
  its key in the filter already, and holds the mutex, and the filter is only
  made while the map is empty. `GetFindsStored` follows and is not among the runs.
- `GetTellsSuccessCorrect` (`~bloomRequested`): the result of `get` is what its
  comment says, so the finding of `dict_success` is the filter path alone.
- `StoreCorrect` (`~StartupRace`): `ImplementsStore`. Under `StoreInv` (types, size,
  filter, mutex) each step maps to one of `KeyValueStore` or a stutter: a refused
  SET at its unlocked check, SET and GET at their access to the map. That the
  filter answers a GET for the map is `FilterCorrect`; that a SET past the check
  stays within the slack of the abstract limit is `SizeInv`.

### Request handlers (`RequestHandlerProofs`)

- `HandlersUseDictionary`: each step of a handler is a step of `Dictionary` or
  leaves it alone. With it `HandlersUseStore` carries `StoreCorrect` over.
- `GetsAccountedCorrect`: inductive with the types of the counters; each action
  moves one worker into or out of the set of GETs in progress.
- `StatReportCorrect`, for any width of the fields and past their overflow: the
  invariant says, at each of the three reads, that the fields hold narrowed counts
  below the counters, and what these owe to the counters now, which only grow: the
  requests exceed the outcomes by the other workers at most. In the other direction
  there is no bound but the GETs begun since the first read.
- `ReasonCorrect` (`~bloomRequested`).

### Threads (`ServiceThreadProofs`)

- `STTypeCorrect`: types; `StopMeansExitedCorrect`: the predicate is looked at
  after every wake, and a thread does not enter its loop again.
- `NoStrandedCorrect` (no stray write): between the byte and the push the lock is
  `addFdToEvLoop`'s, so the drain cannot end in between; `WillDrain` is carried
  over every append and tail of the pipe.
- `NoMissedNotifyCorrect` (the same): the mutex is held from the predicate to
  the block, and `Notify` needs it.

### The server (`TcpServerProofs`)

Without any hypothesis, `ServerInv` is inductive: types; the threads are started
in order; only onAccept, in its callback, calls `addFdToEvLoop`; who owns a
descriptor. From it:

- `ServerUsesThreads`: each step is one of `ServiceThread` (`IsServiceThreads`),
  so the theorems above hold of the workers and the listener.
- `ServerTypeCorrect`, `OneOwnerCorrect`, whatever fails and wherever a stop comes.
- `LeaksAreUnservedCorrect`: a client is answered only through a flow that `data()`
  has made active (`ServedInv`), and what is leaked never was; a worker reads an
  `'e'` only when it is marked (`MarkedInv`, with `AskedInv` of the threads).
- `RoundRobinCorrect`: the workers up to `m_index` are one connection ahead of the
  others (`BalanceInv`).

With `~StartupRace`, `ShutdownInv`: threads are stopped in the order of
`Rank`; when a worker is marked, `stop()` has returned for the listener; that it
returns false only for a listener that failed, since nobody writes to its pipe;
and an `'e'` is in a pipe, or its thread past it, only for a `stop()` under way.

- `NoDispatchCorrect`: a worker is marked only when the listener is out of its
  loop, so no call of `addFdToEvLoop` is under way and none comes.
- `WorkerLeavesNothingCorrect` (no stray write): hence the `'e'` is the last byte
  in the pipe; reading it the worker has no `'c'` outstanding, and by the
  invariant of `NoStrandedCorrect` its queue is empty.
- `ExitBeforeFreeCorrect` (`PipeFits`): a worker is sent at most a byte for each
  connection it is given (`CapInv`), so `stop()` fails only for threads that have
  not initialized, and main clears the objects after `stop()` of all of them.
- `NoneDroppedCorrect` (`PipeFits`, and "init" and "fcntl" do not fail): before a
  signal nobody is marked or reads an `'e'`, and `addFdToEvLoop` succeeds.

### Framing (`TcpFlowProofs`)

- `FlowTypeCorrect`: for any header, buffer, tries and length; the arithmetic of
  `m_currlen`, `m_lenTillnow` and the bytes read so far, which `StreamInv`,
  `CallInv`, `BufferInv` and `HandledInv` hold together.
- `AssembledCorrect`, `WholeIsHandledCorrect`, `MissesAtMostHeaderCorrect`
  (`Header \notin Cuts`): the buffer is the front of the request as far as read
  (`AssemblyInv`); each check of `data()` comes after a read of at least one byte, so
  it can hold too early at most `Header` times (`CountInv`), and what was performed
  last is what was there then (`PerformedInv`).
- `RefusesOnlyShortCorrect` (the same): when the check holds, all but `Header` bytes
  of the payload are in place, and if the type is among them the request is
  answered rather than refused (`RefusalInv`).

### Test client (`TestClientProofs`)

For any file of token sequences, number of threads, faults, limit of descriptors
and batch size. Everything rests on the division: thread i has the messages from
`Lo(i) + 1` to `Hi(i)`; these intervals follow one another without a gap and end
with the input, whatever the remainder. `Division` draws from it what the rest
needs (`IdsInv`): ids go up within a share, no two shares have one in common, each
message is in one.

- `ClientTypeCorrect`, `LeaksCorrect`: a step of a thread passes its message over,
  takes it, drops it, or has its reply (`RunSees`). As messages are not shared,
  `Over` and `Doing` change by that message only. `ResultInv`: results are of
  messages that are over, in their order, with timestamps that go up.
  `ClientTypeCorrect` bounds `clock` by the results and the descriptors by `MaxFds`.
- `FileCorrect`: `SaveInv`, what is written and what waits in `data` are together the
  results taken out so far, each once, none later than one still in `results`.
  That one thread's results keep their order then follows from `ResultInv`.
- `WorkListCorrect`: `ImplementsWorkList`. The steps above map to taking, answering
  and giving up; at the end nothing is pending or in progress, because every
  thread is joined (`JoinedOver`), and the file has the answered ones by `SaveInv`.
- `DeathCorrect`: the client dies in the assertion only with a message whose type
  no branch of the parser has set, and a line that is an operation always has
  one (`OperationIsRecognized`).

### Only model-checked

All liveness (out of the prover's reach): `MutexReleased`, `QueueIsServed`,
`StopReturns`, `ClientsServed`, `ShutdownCompletes`, `AnsweredOrEnded`, `Finishes`. All other
properties of the passing runs are theorems.

## Not modelled

Option parsing of both programs (a negative `-t` for the client sends nothing);
logging; the formatting of result lines and the name of the file;
`DIST_LESS_LOADED_WORKER` and `EventImpl::addSignal` (unused); the parts of
`bloom_filter.hpp` that the dictionary never calls; how protobuf encodes (a
payload is its request type and its bytes). `m_clientFd` reuse after a leak, and
SIGPIPE in `socketWriteData`, are outside the models.

## Plan

1. One connection end to end: `TcpFlow` with `RequestHandler`, a request
   performed early or twice against the dictionary and the counters.
2. Proofs: the theorems of that composition, from `MissesAtMostHeader` and
   `GetsAccounted` of its parts.
