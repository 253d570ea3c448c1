# Formal models of mod_http3

TLA+ models of `mod_http3` (`src/mod_http3`): its threads, connections, streams
and buffers, and the configuration they run under, with TLC
configurations that check them on small instances and TLAPS proofs of the
safety properties that matter most for every value of the constants.
`PROJECT.json` maps each definition to the lines it models, and lists runs,
mutants, hazards, findings and theorems.

    tlc -workers 4 -config H3Response.cfg H3Response     # any run of PROJECT.json
    tlapm H3ResponseProofs.tla                           # any *Proofs module

## The system

Each httpd child may own one *listener* (`h3_io_t`): a UDP socket, an OpenSSL
QUIC engine, one *event thread* and a pool of *workers*. The event thread does
all QUIC and nearly all nghttp3 work: it polls, pumps datagrams into OpenSSL,
accepts connections, turns finished handshakes into *sessions* and gives every
session a pass. A pass accepts streams, reads them into nghttp3, dispatches
complete requests to workers, and flushes what nghttp3 wants to send. A worker
runs the httpd handler; the output filter appends the body to a bounded queue
of chunks from which nghttp3 reads without copying. `session->lock` protects
nghttp3 and the streams, a condition variable holds back a producer whose
queue is full, and a socket pair wakes the event thread out of `poll`.

| Component | State | Operations | What makes it hard |
|---|---|---|---|
| Response queue (`h3_session.c`, `h3_filter.c`, `h3_request.c`, `h3q_stream.c`) | chunks, submit pointer, `response_buffered`, flags, nghttp3's vectors | append, wait, complete, cancel, read_data, write, ack, cleanup | two threads and a peer, zero-copy vectors, partial writes, three kinds of sleepers |
| Session (`h3_session.c`, `h3_stream.c`, `h3_callbacks.c`, `h3_request.c`) | hash of streams, flags of each, `active_tasks`, `blocked_streams`, `pending_free` | accept, drain, callbacks, dispatch, flush, reclaim, abort, destroy | who may still reach a stream when it is freed; retries after failed dispatch |
| Event loop (`h3_io.c`, `h3_threads.c`) | arrays of handshakes and sessions, counters, flags of the listener | accept, progress, spawn, service, reap, teardown | arrays changed while walked, many failure paths, stopping while busy |
| Children and port (`h3_server.c`, `h3_socket.c`) | descriptor, `child_h3_io`, `child_stopping`, acquirer thread | child_init, acquire, listen_start, child_stopping | two threads per child, several children, failure half way |
| Peer address (`quic/detail/h3q_addr.c`, `quic/h3q.c`) | datagram queue, `current_peer_addr`, ex_data | recvmmsg, new-connection callback, pump | the sender is known only by the order of calls |
| Reading and waking (`h3_threads.c`, `h3_stream.c`, `h3_socket.c`) | order of the hash, drain cursor, unread bytes, datagrams of the wakeup pair | poll, pump, accept, drain, signal | budgets, a cursor into a hash that changes, signals that are dropped |
| Request body and capture (`h3_callbacks.c`, `h3_request.c`, `h3_filter.c`, `h3_hooks.c`) | two growing buffers, their limits, offset of the reader, status of the answer | receive, dispatch, check, read in each mode, write, answer | growth at a limit, truncation found on one thread and answered on another |
| Configuration (`h3_config.c`, `h3_server.c`) | a record for each server | directives, merge, defaults, choice of the server | which record is completed and which one is used |

## Modules

**`H3Response`** follows one response. Variables are the fields of `h3_stream`
and the parts of `h3_session` it depends on; `chunks` remembers every chunk
ever allocated, `live` those not freed. `ng_*` is nghttp3 as the code uses it
(the vectors it holds, whether it waits for data, whether it saw EOF), `wire`
and `fin_sent` what QUIC took. The worker (`wpc`) and the event thread (`epc`)
are program counters over the functions of the same names as the actions. A
locked section of the worker is one step, enabled only while the event thread
does not hold the lock; the signal after the unlock is a step of its own. A
byte is its position in the body. Streaming and buffered responses are both
initial states. Streams disturbed before dispatch (stop-sending, reset, early
close) are initial states as well, since after dispatch the FIN has been fed
and the stream is never read again.

**`ResponseStream`** is the abstract specification: a bounded byte pipe that
may be cut and whose peer may be lost. `ImplementsPipe` instantiates it with a
refinement mapping.

**`StreamLife`** is the protocol of the flags of one request stream, between the
event thread, nghttp3 and the worker: how it is read, handed over, answered,
closed and reclaimed. `H3Session` implements it for each of its streams
(`StreamsImplementLife`), `H3Response` for the stream it follows, from
`Handover` on (`ImplementsStream`). So `Handover` is what `H3Session` guarantees
when it dispatches a request, and covers the initial states of `H3Response`.

**`SessionLife`** is a session as the listener sees it: tasks, an abort, one
destruction after the last task. `H3Session` implements it (`ImplementsLife`),
and `H3Io` keeps to it for every session in its table (`SessionsImplementLife`).

**`H3Session`** follows all request streams of a session (a flag is the set of
streams that have it), with the order of callbacks, drain, reclaim, flush and
dispatch of the code, workers as `wpc[s]`, and failure of each allocation or
push up to `MaxFailures`. The bytes of responses are left to `H3Response`.
**`MCH3Session`** adds symmetry.

**`H3Io`** has the two arrays as sequences, changed by the code's
swap-with-last while an index walks them, and the stopping thread's teardown.
A session here has tasks and may be aborted; its inside is `H3Session`.
**`MCH3Io`** adds symmetry.

**`H3Server`** has the children, the port, the acquirer thread and the stop
hook; a listener is one flag whose inside is `H3Io`. The port has at most one
owner: `h3_socket_open` sets neither SO_REUSEADDR nor SO_REUSEPORT, so the
kernel refuses a second bind (see findings). No property claims that this is
how it should be.

**`H3PeerAddr`** has the datagrams in the kernel, the filter BIO's queue, the
message OpenSSL reads and the address attached to each connection. The BIO is
read inside the pump and inside any other call into OpenSSL (`ssl_call`), which
may leave datagrams in the queue when the thread goes on to `poll`.

**`H3Loop`** is the event thread as a reader, with several streams and the
budgets of a pass: `order` is the hash, which a new or reclaimed stream
rearranges under `stream_drain_cursor`; `unread` what OpenSSL holds for each
stream, which grows in the middle of a pass as well; `queued` the datagrams in
the wakeup pair, whose socket is finite and whose drain is bounded. It makes
explicit what `H3Session` and `H3Response` take for granted of the loop.

**`H3Config`** has one record of fields per server (0 for unset), every
directive with its range, the merge into virtual hosts, `h3_post_config` and
`find_h3_server`. **`H3Body`** extends it by one request that runs under the
resulting limits: the event thread collects the body, the worker and the access
checker accept or refuse it, the handler reads it through the input filter in
every mode and writes an answer that is captured or streamed. A bucket of a
captured answer may be unreadable, or an error bucket; `dropped` remembers
either. Buffers are
functions on their allocated positions and bytes are numbered, so a byte lost,
repeated or written outside the allocation shows. **`MCH3Body`** gives the
limits their values.

**`*Proofs`** hold the theorems. The components compose by these interfaces:
`H3Response` refines `ResponseStream`; `H3Session` and `H3Response` both refine
`StreamLife`, `H3Session` and `H3Io` both `SessionLife`, so the two models on
either side of an interface allow no step the interface does not;
`H3Server` sees a listener as a flag;
`H3Loop` provides the turns that `H3Session` assumes; `H3Body` ends where a
streamed answer enters `H3Response`.

External, modelled from use: OpenSSL (which bytes are accepted, when a
connection is closed, that `SSL_handle_events` reads from the BIO once and then
processes what it read, and always passes a buffer for the sender; that other
calls may do the same, as the module does not turn implicit event handling
off), nghttp3
(round of `writev_stream`, callbacks, blocking and resuming of streams), the
MPM and the kernel.

## Runs

| Run | Bounds | States | Shows |
|---|---|---|---|
| `H3Response` | limit 3, chunks of 2, 2 vectors, body of 4 bytes, both modes | 4.8 M | memory safety of chunks (`NoDanglingChunk`), `BufferAccounted`, `FinMeansWhole`, the three sleepers (`SleepHasReason`, `ReaderIsResumed`, `NoLostWakeup`), the byte pipe `ImplementsPipe` (bytes arrive in order, none twice), the stream protocol `ImplementsStream` |
| `H3ResponseLive` | limit, chunk and vector count 1, body of 2 | 221 k | `ResponseArrives` (which needs every wait of the producer to end), `AbortEndsSession` |
| `MCH3Session` | 2 streams, 1 failure | 1.7 M | `ReclaimIsSafe`, `TasksCounted`, `BlockedCounted`, `FreedOnce`, `HandledOnce`, the session's protocol `ImplementsLife`, the protocol of each stream `StreamsImplementLife` |
| `H3SessionLive` | 1 stream, 2 failures | 34 k | `RequestIsHandled`, `ClosedIsReclaimed`, `BlockedIsServed`, `AbortEndsSession` |
| `MCH3Io` | 4 connections, limit 3, 1 task each | 654 k | `WithinLimit`, `OwnedOrFreed`, `NotesBalanced`, `RoundVisitsAll`, `TeardownIsLast` |
| `H3IoLive` | 2 connections, limit 2 | 12 k | `StopTerminates`, `HandshakeSettles` |
| `H3Server` | 3 children | 34 k | `ListenerKeepsSocket`, `PortIsUsed`, `StoppedIsClean`, `StopReturns` |
| `H3ServerClose` | 1 child | | violation, see findings |
| `H3PeerAddr` | 2 connections, 2 addresses, batches of 3, 4 datagrams | 99 k | `ClientIsSender`, `PumpReturns` |
| `H3Loop` | 3 streams, 1 worker, 2 reads or bytes a pass, a socket of 2 datagrams, drain of 1 | 335 k | `SleepsOnlyWhenIdle`, `EveryStreamIsRead` |
| `MCH3Body` | 2 servers, 2 directives, initial capacity 1, limits up to 4, bodies of 5 bytes in chunks of 3 | 3.4 M | `OwnerIsConfigured`, `RequestBodyKept`, `HandlerReadsBody`, `CaptureOrError` |
| `H3BodyRead` | as `MCH3Body`, request bodies of at most 1 byte | | violation, see findings |

Why the bounds are enough. `H3Response`: a limit that is no multiple of the
chunk size and a body longer than the limit give full and partial chunks, a
producer that waits and is woken more than once, writes that end inside a
vector and across two, and acknowledgements inside a chunk; the proofs remove
the bounds for safety. `MCH3Session`: two streams give a stream that is
reclaimed, blocked or retried while another is being served. `MCH3Io`: three
entries are the least for which the entry swapped in is neither the removed one
nor its neighbour, and the fourth connection meets the limit. `H3Server`: one
child that owns, one that waits, one that is stopped. `H3PeerAddr`: a batch
that mixes both clients and leaves two datagrams queued, by the pump or by
another call. `H3Loop`: two busy
streams spend the budget of a pass, so the third one is read only if the cursor
moves; the socket is smaller than the number of signals sent and larger than a
drain, so signals are dropped and left over. `MCH3Body`: from a capacity of 1 a
buffer doubles, is clamped to a limit that is no power of two and is exceeded,
by one chunk or by several; the main server and the virtual host are given
different numbers, below, at and above the maximum, so each record that could be
used by mistake has another limit; a newline at byte 2 splits a line in a chunk.

Every property of a passing run has a mutant: an operator next to the one it
replaces, marked "Mutant" in the module, with a plausible bug that TLC must
find under the same configuration.

### Fairness

The event thread is scheduled (weak fairness). Workers compete with it for the
lock, so they get strong fairness; the event thread sleeps in `poll` without
the lock, which justifies it. A handler finally returns. The worker's timed
wait is an ordinary step, that it *fails* is under no fairness, and neither are
failures of allocation. A connection whose shutdown is repeated is finally shut
down, a handshake's timeout and the GOAWAY grace period run out. Where a
property is about progress towards the peer (`PeerSpec`, `BlockedIsServed`),
the peer reads. `H3SessionLive` assumes that the drain cursor passes over no
stream for ever, which `EveryStreamIsRead` shows of the cursor itself. `H3Loop`
has a running event thread and strong fairness of the start of a drain: the
allocation of its scratch pool fails, but not every time. `H3PeerAddr`
has strong fairness of the pump: a round of the loop begins with it and makes
finitely many other calls. In `H3Server` a child's
threads run, but that opening the socket fails, or that the child is stopped,
need never happen.

Deadlock is checked in the runs; the final states loop explicitly.

## Findings

* `h3_filter.h:70` says that the output filter returns "an APR error if
  pool/brigade access fails". With `H3MaxResponseBodySize`, a bucket that cannot
  be read is passed over and the filter returns APR_SUCCESS
  (`h3_filter.c:145-148`): the handler goes on, and the request is answered with
  status 200 and a body with a hole (run `H3BodyRead`). A streaming response
  does return the error (`h3_filter.c:238-253`).
* `h3_os.h:66-67` says that a descriptor to close is "already known to be
  valid". When `h3_io_listen_start` fails after its engine was attempted, its
  teardown closes the socket and its callers close it again
  (`h3_server.c:73`, `h3_server.c:136`; run `H3ServerClose`).

Noted and not checked:

* `h3_socket.h:29-30` says that SO_REUSEPORT is set "so multiple children can
  share the port". `h3_socket_open` sets no such option; children that find the
  port taken wait for it in the acquirer thread (`h3_server.c:48-90`), which is
  what `H3Server` models. `ListenerKeepsSocket` and `PortIsUsed` are about the
  code's scheme and say nothing for or against sharing; with shared ports
  `PortIsUsed` would have no subject.
* `h3.h:29` defines a maximum of 1000 concurrent streams; the setter does not
  use it and accepts up to UINT16_MAX (`h3_config.c:150`). `OwnerIsConfigured`
  is about the range the setters accept.
* `h3_config.c:463` gives the default of `H3Port` as "same as main server";
  `h3_post_config` takes the port of the server that owns the listener, which
  may be a virtual host. `OwnerIsConfigured` states the latter.
* A virtual host that does not own the listener keeps unset fields at 0, so its
  Alt-Svc header has `ma=0` (`h3_hooks.c:92`) where `h3_config.c:469` speaks of
  a default of 86400. `OwnerIsConfigured` claims nothing of such servers.
* `h3_session.h:146-148` says that a queued QUIC stream is freed "when the
  session lock is next released". `flush_nghttp3` returns at once when nghttp3
  is dead (`h3_stream.c:81`), so a stream queued in the same pass survives the
  unlock until `h3_session_destroy`. It is freed exactly once all the same
  (`FreedOnce`).
* `h3_server.h:29-31` says that later children skip the socket while they retry
  in a thread; `h3_io.h:71-78` documents APR_EAGAIN, which `h3_io_listen_start`
  never returns.
* `h3_socket.h:74` promises to discard everything queued in the wakeup pair
  where the drain is bounded; what is left over causes one more round
  (`SleepsOnlyWhenIdle`).

Behaviour the models made explicit:

* A cancelled response ends with a FIN too. `FinMeansWhole` states exactly this
  much, and compares with the bytes that were *appended*: a handler that gives
  up after a bucket it cannot read, or a wait for room that failed, and is
  completed all the same, ends a shorter response with a FIN.
* Bytes that arrive for a stream the pass has already left wait for the next
  datagram or for the timeout of `poll` (`late` in `H3Loop`). The same holds of
  datagrams another call left in the BIO's queue; the next pump takes them
  (`PumpReturns`).
* After an error bucket the page of `ap_send_error_response` is appended to
  what is captured already, and the status in the bucket is not looked at
  (`h3_filter.c:193-198`).
* After an internal redirect the handler sees an empty body (`h3_filter.c:281`).
* The end of a task wakes nobody (`h3_request.c:402-407`); the next pass of the
  session sees it.

## Proofs

**Response queue** (`H3ResponseQueueProofs`, and `H3ResponseProofs`
which extends it), for every
buffer limit, chunk size and vector count greater than zero and every body
length (`ResponseAssumption`). None of the properties is inductive alone: that
no chunk dangles needs to know that nghttp3's vectors are the *last chunks lent,
in order*, that what was written and not acknowledged is exactly what the flush
at hand still has to acknowledge, and that live chunks are consecutive.
`ResponseInv` joins `TypeOK`, `ControlInv` (where the threads can be, and what
they may rely on), `QueueInv` and `VectorInv` (the queue, and the vectors
against it) and `BufferAccounted`; `ResponseInvariant` proves it, and
`ResponseTypeOK`, `BufferAccountedAlways` and `NoDanglingChunkAlways` follow.
`FullInv` adds `EndInv` (nothing is lent after EOF, nothing left after FIN),
`WakeInv` (why nobody sleeps for good) and `WireIsPrefix`. From it come
`WireIsPrefixAlways`, `FinMeansWholeAlways`, `NothingAfterFinAlways`,
`SleepHasReasonAlways`, `ReaderIsResumedAlways`, `NoLostWakeupAlways` and
`ResponseImplementsPipe`: the initial states map to initial states of the pipe,
and each action to a step of it or a stutter. `ResponseKeepsToLife` shows the
same of `StreamLife`; it needs only `ControlInv` and that nghttp3 knows a stream
as long as it has its QUIC object (`StreamInv`).

**Children** (`H3ListenerProofs`), for any set of children: `ServerInv` ties the
open descriptor to the port and the places of the two threads to each other;
`ListenerKeepsSocketAlways`, `PortIsUsedAlways` and `StoppedIsCleanAlways` follow.

**Peer address** (`H3ListenerProofs`), for any batch size and any number of
clients and datagrams: `SenderInv` says that the remembered address is that of
the message being processed; `ClientIsSenderAlways` follows.

**Sessions** (`H3SessionProofs`), for any finite set of streams and any number
of failures (`SessionAssumption`). That a pool is destroyed safely is not
inductive: it holds because a task's stream is dispatched, complete and tracked
until `worker_done` (`TaskInv`), because the event thread's lists hold tracked
streams only (`ListInv`), and because whatever nghttp3 may call back for has its
QUIC object (`ObjectInv`). `SessionInv` adds the ownership of those objects
(`FreeInv`) and the two counters (`CountInv`, `BlockInv`), where the exact count
of tasks is the cardinality of the set of busy streams plus the tasks that are
leaving. `SafeReclaim`, `TaskCountIsExact`, `TasksAreWaitedFor`,
`BlockedAreCounted`, `ObjectsAreFreedOnce`, `RequestsHandledOnce` and
`WritableStreamsExist` follow.

**Lives of sessions and streams** (`H3SessionLifeProofs`, which extends it).
`ReclaimedIsUntouched` says more than that a destroyed stream is out of reach:
no step writes one of its fields. Two refinements rest on `SessionInv`.
`SessionImplementsLife` adds `EndInv` (when the event thread sees the abort).
`StreamsKeepToLife` adds `HandInv`, which ties a stream's flags to the place of
its task: what is dispatched was read to its end, a stream without QUIC object
is cancelled, a cancelled one is done unless its worker runs, and nghttp3 knows
a stream with headers as long as it has its object. From this follows that a
request comes to its worker in a state from which `H3Response` starts.

**Listener** (`H3IoProofs`), for any finite set of connections, any limit and
any number of tasks. The array lemmas come first: what swap-with-last leaves of
a sequence without repetitions, and what an index has passed after it.
`IoInv` joins `OwnInv` (one owner or freed once), `CountInv`, `WalkInv` (what
the walk at hand has passed, also between the service of a session and its
removal) and `TearInv` (the event thread is gone before the teardown goes on).
`LimitHolds`, `NotesAreBalanced`, `ConnectionsAreOwned`, `WalksAreComplete` and
`TeardownComesLast` follow, and `SessionsKeepToLife`: what the listener does with
a session, through every walk and the teardown, is a step of `SessionLife`.

**Reading and waking** (`H3LoopProofs`), for any finite sets of streams and
workers, any budgets, socket size and drain bound. That the thread sleeps only
when idle depends on the whole pass before: `LoopInv` has where the visit stands
in the hash (`VisitInv`) and, of the streams it has passed, that each was left
empty, done or late, or that the pass made progress and so asks for another
round (`PassedInv`). The visit takes its places modulo the length of the hash
from the cursor on; `AllMet` shows that as many steps as there are streams meet
every one. `ThreadSleepsOnlyWhenIdle` follows.

**Configuration and bodies** (`H3BodyProofs`), for any number of servers, any
defaults and maxima, any capacity and bodies of every length. `ConfigInv` ties
each record to what the directives gave; `ConfiguredOwner` follows. `BodyInv`
has the contents of the request buffer during and between growths
(`RequestInv`), what the handler has read of it (`ReadInv`) and the capture
(`CaptureInv`), from which come `KeptRequestBody`, `BodyIsReadInOrder` and
`CapturedOrError`. The last one is about the buckets the capture could read; an
unreadable one changes nothing it speaks of.

`SessionInv`, `HandInv`, `IoInv` and `LoopInv` were first checked by TLC within
the bounds of `MCH3Session`, `MCH3Io` and `H3Loop`.

Every safety property of a passing run is proved. Only model-checked are the
liveness properties, since fairness and `ENABLED` are beyond the prover:
`ResponseArrives`, `AbortEndsSession`, `RequestIsHandled`, `ClosedIsReclaimed`,
`BlockedIsServed`, `StopTerminates`, `HandshakeSettles`, `StopReturns`,
`PumpReturns` and `EveryStreamIsRead`. `SessionsImplementLife`,
`ReclaimedUntouched`, `NothingAfterFin`, `WireIsPrefix` and the invariants behind
the proofs are proved and have no run of their own.

## Not modelled

* Contents of headers, the translation to `request_rec` and back, log texts.
* Control streams: created once with the session, never reclaimed.
* Streams with a negative id, and the abort of the process on a corrupt hash.
* Process-wide abort on lack of memory: httpd's allocator normally ends the
  child; the models take the code's failure branches instead.
* `apr_socket` cleanup of the descriptor at the exit of a child.
* Streams still holding a QUIC stream when the session is destroyed: OpenSSL
  frees them with the connection.
* Hooks that return a constant (scheme, port, protocol), the registration of
  hooks and the table of commands.
* TLS and ALPN setup: a straight line of OpenSSL calls before any thread runs.
* The status handler's read of `child_h3_io`, set and cleared by other threads
  without a lock (`h3_io.c:147`, `h3_io.c:153`, `h3_io.c:167`): a model needs
  the lifetime of httpd's own request threads while a child stops. It is a
  hazard without a property.
* The programs under `examples/`, which are not part of the module.

## What could follow

* `H3Server` composed with `H3Io`, with the status handler as a reader.
* Control streams, should the code ever close or replace one.
