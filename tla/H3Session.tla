----------------------------- MODULE H3Session -----------------------------
(***************************************************************************)
(* One HTTP/3 session: the life of its request streams from the moment the *)
(* event thread accepts them to the moment it reclaims them, the Apache    *)
(* workers that handle the requests, and the end of the session.           *)
(*                                                                         *)
(* The event thread is a program counter over service_session_pass and the *)
(* session loop of h3_event_thread.  It holds session->lock from the drain *)
(* to the end of a flush; a worker's locked section is one step and waits  *)
(* for it.  A flag of h3_stream is the set of the streams that have it.    *)
(* The bytes of a response are the business of H3Response.                 *)
(***************************************************************************)
EXTENDS Integers, Sequences, FiniteSets

CONSTANTS
    Streams,      \* client-initiated bidirectional streams of the session
    MaxFailures   \* bound: failed allocations, pushes and request creations

\* No stream: the event thread is at none.
None == "none"

ASSUME SessionAssumption ==
    /\ IsFiniteSet(Streams) /\ None \notin Streams
    /\ MaxFailures \in Nat

VARIABLES
    \* h3_session
    streams,            \* the hash of tracked streams
    pending_free,       \* QUIC stream objects to be freed
    blocked_streams, active_tasks, aborted, ngh3_dead,
    \* h3_stream, a set per flag
    qstream,            \* qstream is not NULL
    done, write_blocked, headers_complete, body_complete,
    dispatched, worker_done,
    response_submitted, response_complete, response_cancelled,
    reclaimed,          \* h3_stream.pool was destroyed
    frees,              \* how often a stream's QUIC object was freed
    \* nghttp3 (external)
    ng_open,            \* streams whose h3_stream it holds (stream_user_data)
    ng_blocked,         \* streams it was told to skip
    \* QUIC (external)
    peer,               \* "unseen", "open", "fin" (the request has ended),
                        \* "cut" (reset by the peer, or connection closed)
    wclosed,            \* streams whose sending side is finished
    \* the workers
    wpc,                \* where the task of a stream is
    leaving,            \* tasks that gave up and have only to decrement
    handled,            \* how often a stream's request went to httpd
    failures,
    \* the event thread
    epc, eret, todo, completed, cur

sessVars   == <<streams, pending_free, blocked_streams, active_tasks, aborted,
                ngh3_dead>>
readVars   == <<headers_complete, body_complete>>
respVars   == <<response_submitted, response_complete, response_cancelled>>
objVars    == <<qstream, done, reclaimed, frees>>
taskVars   == <<dispatched, worker_done, wpc, leaving, handled, failures>>
quicVars   == <<peer, wclosed>>
ngVars     == <<ng_open, ng_blocked, write_blocked>>
eventVars  == <<epc, eret, todo, completed, cur>>
vars == <<sessVars, readVars, respVars, objVars, taskVars, quicVars, ngVars,
          eventVars>>

EventHoldsLock == epc \in {"drain", "read", "finished", "close", "check",
                           "reclaim", "unblock", "flush"}
LockFree == ~EventHoldsLock

Init ==
    /\ streams = {} /\ pending_free = <<>>
    /\ blocked_streams = 0 /\ active_tasks = 0
    /\ aborted = FALSE /\ ngh3_dead = FALSE
    /\ qstream = {} /\ done = {} /\ write_blocked = {}
    /\ headers_complete = {} /\ body_complete = {}
    /\ dispatched = {} /\ worker_done = {}
    /\ response_submitted = {} /\ response_complete = {}
    /\ response_cancelled = {}
    /\ reclaimed = {} /\ frees = [s \in Streams |-> 0]
    /\ ng_open = {} /\ ng_blocked = {}
    /\ peer = [s \in Streams |-> "unseen"] /\ wclosed = {}
    /\ wpc = [s \in Streams |-> "idle"]
    /\ leaving = 0 /\ handled = [s \in Streams |-> 0] /\ failures = 0
    /\ epc = "poll" /\ eret = "poll"
    /\ todo = {} /\ completed = {} /\ cur = None

-----------------------------------------------------------------------------
(***************************************************************************)
(* The peer.                                                               *)
(***************************************************************************)
peer_acts(s) ==
    /\ \E p \in CASE peer[s] = "unseen" -> {"open"}
                  [] peer[s] = "open" -> {"fin", "cut"}
                  [] peer[s] = "fin" -> {"cut"}
                  [] OTHER -> {} :
          peer' = [peer EXCEPT ![s] = p]
    /\ UNCHANGED <<wclosed, sessVars, readVars, respVars, objVars, taskVars,
                   ngVars, eventVars>>

-----------------------------------------------------------------------------
(***************************************************************************)
(* The event thread.                                                       *)
(***************************************************************************)

\* service_session_pass is entered.  An aborted session is not serviced; a
\* closed connection aborts it.  While the child is stopping, a pass first
\* flushes the GOAWAY.
service_session_pass ==
    /\ epc = "poll"
    /\ \/ aborted' = TRUE /\ epc' = "reap" /\ UNCHANGED eret
       \/ ~aborted /\ epc' = "accept" /\ UNCHANGED <<aborted, eret>>
       \/ ~aborted /\ epc' = "unblock" /\ eret' = "goaway" /\ UNCHANGED aborted
    /\ UNCHANGED <<streams, pending_free, blocked_streams, active_tasks,
                   ngh3_dead, readVars, respVars, objVars, taskVars, quicVars,
                   ngVars, todo, completed, cur>>

\* The connection is drained or its grace period is over: a last flush, then
\* the session is aborted.  Otherwise the pass goes on, unless QUIC closed.
goaway_sent ==
    /\ \/ epc = "goaway" /\ epc' = "accept" /\ UNCHANGED <<aborted, eret>>
       \/ epc = "goaway" /\ epc' = "unblock" /\ eret' = "abort"
          /\ UNCHANGED aborted
       \/ epc \in {"goaway", "abort"} /\ epc' = "reap" /\ aborted' = TRUE
          /\ UNCHANGED eret
    /\ UNCHANGED <<streams, pending_free, blocked_streams, active_tasks,
                   ngh3_dead, readVars, respVars, objVars, taskVars, quicVars,
                   ngVars, todo, completed, cur>>

\* A pass that gets no scratch pool ends before it accepts streams.
pass_skipped ==
    /\ epc \in {"poll", "goaway"} /\ ~aborted /\ failures < MaxFailures
    /\ failures' = failures + 1 /\ epc' = "poll"
    /\ UNCHANGED <<sessVars, readVars, respVars, objVars, dispatched,
                   worker_done, wpc, leaving, handled, quicVars, ngVars, eret,
                   todo, completed, cur>>

\* A new QUIC stream is tracked; if that fails its object is freed at once.
track_stream(s) ==
    /\ epc = "accept" /\ peer[s] # "unseen"
    /\ s \notin streams /\ s \notin reclaimed /\ frees[s] = 0
    /\ \/ /\ streams' = streams \cup {s} /\ qstream' = qstream \cup {s}
          /\ UNCHANGED <<frees, failures>>
       \/ /\ failures < MaxFailures /\ failures' = failures + 1
          /\ frees' = [frees EXCEPT ![s] = @ + 1]
          /\ UNCHANGED <<streams, qstream>>
    /\ UNCHANGED <<pending_free, blocked_streams, active_tasks, aborted,
                   ngh3_dead, readVars, respVars, done, reclaimed, dispatched,
                   worker_done, wpc, leaving, handled, quicVars, ngVars,
                   eventVars>>

\* No stream is left to accept; the drain takes the lock and a snapshot.
accept_end ==
    /\ epc = "accept"
    /\ epc' = "drain" /\ todo' = streams /\ completed' = {}
    /\ UNCHANGED <<sessVars, readVars, respVars, objVars, taskVars, quicVars,
                   ngVars, eret, cur>>

(***************************************************************************)
(* Draining.  A stream is read, or found finished; then it may be closed,  *)
(* and it is checked for a complete request.                               *)
(***************************************************************************)
drainFrame == UNCHANGED <<streams, blocked_streams, active_tasks, aborted,
                          response_submitted, reclaimed, frees, taskVars,
                          quicVars, ng_blocked, write_blocked, eret>>

\* Streams that are done, or have no QUIC object, are passed over.
drain_one_stream(s) ==
    /\ epc = "drain" /\ s \in todo /\ ~ngh3_dead
    /\ todo' = todo \ {s}
    /\ IF s \in done \/ s \notin qstream
       THEN UNCHANGED <<epc, cur>>
       ELSE /\ cur' = s
            /\ \/ peer[s] \in {"fin", "cut"} /\ epc' = "finished"
               \/ peer[s] # "cut" /\ s \notin body_complete /\ epc' = "read"
    /\ UNCHANGED <<pending_free, ngh3_dead, readVars, response_complete,
                   response_cancelled, qstream, done, ng_open, completed>>
    /\ drainFrame

\* h3_session_queue_free of the stream's QUIC object.
\* Mutant: the stream keeps its pointer to the object.
queue_free_keep(s) ==
    /\ pending_free' = IF s \in qstream THEN Append(pending_free, s)
                       ELSE pending_free
    /\ UNCHANGED qstream
queue_free(s) ==
    /\ pending_free' = IF s \in qstream THEN Append(pending_free, s)
                       ELSE pending_free
    /\ qstream' = qstream \ {s}

\* h3_stream_response_cancel_locked.
cancel_locked(S) ==
    /\ response_cancelled' = response_cancelled \cup S
    /\ response_complete' = response_complete \cup S

\* What nghttp3 tells the stream while it reads: the headers begin, which is
\* when it learns of the h3_stream, and the headers end.
headers_arrive(s) ==
    /\ ng_open' \in {ng_open, ng_open \cup {s}}
    /\ headers_complete' \in {headers_complete,
                              headers_complete \cup ({s} \cap ng_open')}

\* nghttp3_conn_read_stream is quiet, calls on_stop_sending, calls
\* on_reset_stream, or fails.  feed_stream_fin completes the body in any case.
read_quietly(s) ==
    /\ headers_arrive(s)
    /\ UNCHANGED <<done, qstream, pending_free, ngh3_dead, response_cancelled,
                   response_complete>>

on_stop_sending(s) ==
    /\ headers_arrive(s) /\ s \in ng_open'
    /\ cancel_locked({s}) /\ queue_free(s) /\ done' = done \cup {s}
    /\ UNCHANGED ngh3_dead

on_reset_stream(s) ==
    /\ headers_arrive(s) /\ s \in ng_open'
    /\ cancel_locked({s}) /\ done' = done \cup {s}
    /\ UNCHANGED <<qstream, pending_free, ngh3_dead>>

mark_ngh3_dead(s, fin) ==
    /\ ngh3_dead' = TRUE
    /\ done' = IF fin THEN done ELSE done \cup {s}
    /\ UNCHANGED <<headers_complete, ng_open, qstream, pending_free,
                   response_cancelled, response_complete>>

nghttp3_conn_read_stream(s, fin) ==
    \/ /\ read_quietly(s) \/ on_reset_stream(s) \/ mark_ngh3_dead(s, fin)
       /\ body_complete' = IF fin THEN body_complete \cup {s} ELSE body_complete
    \/ on_stop_sending(s) /\ body_complete' = body_complete \cup {s}

\* Data: the loop goes on unless the stream is done.
read_data ==
    /\ epc = "read"
    /\ nghttp3_conn_read_stream(cur, FALSE)
    /\ epc' = IF cur \in done' THEN "check" ELSE "read"
    /\ UNCHANGED <<todo, completed, cur>> /\ drainFrame

\* The FIN, read in the loop or found by h3q_stream_is_read_finished.
feed_stream_fin ==
    /\ \/ epc = "read" /\ peer[cur] = "fin" /\ epc' = "check"
       \/ epc = "finished" /\ cur \notin body_complete /\ epc' = "close"
    /\ nghttp3_conn_read_stream(cur, TRUE)
    /\ UNCHANGED <<todo, completed, cur>> /\ drainFrame

\* Nothing more to read now, or the budget is spent; the FIN was fed before.
drain_goes_on ==
    /\ \/ epc = "read" /\ epc' = "check"
       \/ epc = "finished" /\ cur \in body_complete /\ epc' = "close"
    /\ UNCHANGED <<pending_free, ngh3_dead, readVars, response_complete,
                   response_cancelled, qstream, done, ng_open, todo, completed,
                   cur>>
    /\ drainFrame

write_finished(s) == s \in wclosed \/ peer[s] = "cut"

\* nghttp3_conn_close_stream and its callback on_stream_close.
on_stream_close ==
    /\ epc = "close" /\ epc' = "check"
    /\ IF cur \in qstream /\ write_finished(cur) /\ cur \in ng_open
       THEN /\ cancel_locked({cur}) /\ queue_free(cur)
            /\ done' = done \cup {cur} /\ ng_open' = ng_open \ {cur}
       ELSE UNCHANGED <<response_cancelled, response_complete, pending_free,
                        qstream, done, ng_open>>
    /\ UNCHANGED <<ngh3_dead, readVars, todo, completed, cur>> /\ drainFrame

\* Mutant: a request is complete with its headers.
Ready_headers(s) == s \in headers_complete \ dispatched
Ready(s) == s \in (headers_complete \cap body_complete) \ dispatched

drain_check ==
    /\ epc = "check" /\ epc' = "drain" /\ cur' = None
    /\ completed' = IF Ready(cur) /\ ~ngh3_dead THEN completed \cup {cur}
                    ELSE completed
    /\ UNCHANGED <<pending_free, ngh3_dead, readVars, response_complete,
                   response_cancelled, qstream, done, ng_open, todo>>
    /\ drainFrame

\* Every stream was visited, or the budget is spent, or nghttp3 is dead.
drain_end ==
    /\ epc = "drain" /\ epc' = "reclaim" /\ todo' = {}
    /\ UNCHANGED <<pending_free, ngh3_dead, readVars, response_complete,
                   response_cancelled, qstream, done, ng_open, completed, cur>>
    /\ drainFrame

\* The reclaim loop.  Mutant: the worker is not waited for.
Reclaimable_hasty == {s \in streams : /\ s \in done \cap dispatched
                                      /\ s \notin qstream}
Reclaimable == {s \in streams : /\ s \in done \cap dispatched \cap worker_done
                                /\ s \notin qstream}

\* Mutant: reclaiming a blocked stream leaves the count alone.
StillBlocked_stale(R) == blocked_streams
StillBlocked(R) == blocked_streams - Cardinality(R \cap write_blocked)

reclaim_streams ==
    /\ epc = "reclaim" /\ epc' = "unblock" /\ eret' = "dispatch"
    /\ streams' = streams \ Reclaimable
    /\ reclaimed' = reclaimed \cup Reclaimable
    /\ write_blocked' = write_blocked \ Reclaimable
    /\ blocked_streams' = StillBlocked(Reclaimable)
    /\ UNCHANGED <<pending_free, active_tasks, aborted, ngh3_dead, readVars,
                   respVars, qstream, done, frees, taskVars, quicVars, ng_open,
                   ng_blocked, todo, completed, cur>>

-----------------------------------------------------------------------------
(***************************************************************************)
(* flush_nghttp3.                                                          *)
(***************************************************************************)

\* Nothing is flushed on a dead connection.  Else the streams whose QUIC
\* buffer has room again, or whose QUIC object is gone, are unblocked; the
\* loop is skipped when the count says that none is blocked.
unblock_writable_streams ==
    /\ epc = "unblock"
    /\ IF ngh3_dead
       THEN /\ epc' = eret
            /\ UNCHANGED <<write_blocked, ng_blocked, blocked_streams>>
       ELSE /\ epc' = "flush"
            /\ \E U \in SUBSET (streams \cap write_blocked) :
                  /\ IF blocked_streams <= 0 THEN U = {}
                     ELSE (streams \cap write_blocked) \ qstream \subseteq U
                  /\ write_blocked' = write_blocked \ U
                  /\ ng_blocked' = ng_blocked \ U
                  /\ blocked_streams' = blocked_streams - Cardinality(U)
    /\ UNCHANGED <<streams, pending_free, active_tasks, aborted, ngh3_dead,
                   readVars, respVars, objVars, taskVars, quicVars, ng_open,
                   eret, todo, completed, cur>>

\* nghttp3 hands out data of stream s.
Writable(s) == /\ s \in (response_submitted \cap ng_open) \ ng_blocked
               /\ s \notin wclosed

\* Mutant: a blocked stream is not counted.
NowBlocked_uncounted(s) == blocked_streams
NowBlocked(s) == IF s \in write_blocked THEN blocked_streams
                 ELSE blocked_streams + 1

\* QUIC takes everything with the FIN, is full, or finds the stream broken.
\* Data without a FIN that is taken or swallowed changes nothing here.
write_stream(s) ==
    /\ epc = "flush" /\ Writable(s) /\ s \in streams \cap qstream
    /\ \/ /\ s \in response_complete
          /\ wclosed' = wclosed \cup {s}
          /\ UNCHANGED <<write_blocked, ng_blocked, blocked_streams>>
       \/ /\ write_blocked' = write_blocked \cup {s}
          /\ ng_blocked' = ng_blocked \cup {s}
          /\ blocked_streams' = NowBlocked(s)
          /\ UNCHANGED wclosed
    /\ UNCHANGED <<streams, pending_free, active_tasks, aborted, ngh3_dead,
                   readVars, respVars, objVars, taskVars, peer, ng_open,
                   eventVars>>

\* How often a stream's QUIC object is in pending_free.
Queued(s) == Cardinality({i \in 1..Len(pending_free) : pending_free[i] = s})

\* The loop ends, or nghttp3_conn_writev_stream fails; then the QUIC objects
\* in pending_free are freed.
flush_nghttp3 ==
    /\ epc = "flush" /\ epc' = eret
    /\ ngh3_dead' \in BOOLEAN
    /\ pending_free' = <<>>
    /\ frees' = [s \in Streams |-> frees[s] + Queued(s)]
    /\ UNCHANGED <<streams, blocked_streams, active_tasks, aborted, readVars,
                   respVars, qstream, done, reclaimed, taskVars, quicVars,
                   ngVars, eret, todo, completed, cur>>

-----------------------------------------------------------------------------
(***************************************************************************)
(* Dispatch, between the two flushes of a pass and without the lock.       *)
(***************************************************************************)
dispatch_begin ==
    /\ epc = "dispatch"
    /\ IF ngh3_dead THEN aborted' = TRUE /\ epc' = "reap"
       ELSE epc' = "process" /\ UNCHANGED aborted
    /\ UNCHANGED <<streams, pending_free, blocked_streams, active_tasks,
                   ngh3_dead, readVars, respVars, objVars, taskVars, quicVars,
                   ngVars, eret, todo, completed, cur>>

\* h3_process_request reserves the stream in a locked section.
h3_process_request(s) ==
    /\ epc = "process" /\ s \in completed
    /\ completed' = completed \ {s}
    /\ IF s \in dispatched THEN UNCHANGED <<dispatched, epc, cur>>
       ELSE dispatched' = dispatched \cup {s} /\ epc' = "count" /\ cur' = s
    /\ UNCHANGED <<sessVars, readVars, respVars, objVars, worker_done, wpc,
                   leaving, handled, failures, quicVars, ngVars, eret, todo>>

\* set_stream_dispatched(0).  Mutant: the reservation is kept.
GivenBack_never(s) == dispatched
GivenBack(s) == dispatched \ {s}

\* No pool for the connection: the reservation is given back.
process_nopool ==
    /\ epc = "count" /\ failures < MaxFailures
    /\ failures' = failures + 1 /\ dispatched' = GivenBack(cur)
    /\ epc' = "process" /\ cur' = None
    /\ UNCHANGED <<sessVars, readVars, respVars, objVars, worker_done, wpc,
                   leaving, handled, quicVars, ngVars, eret, todo, completed>>

\* The task is counted before it is pushed.  Mutant: it is not counted.
Counted_late == active_tasks
Counted == active_tasks + 1

process_count ==
    /\ epc = "count" /\ epc' = "push"
    /\ active_tasks' = Counted
    /\ UNCHANGED <<streams, pending_free, blocked_streams, aborted, ngh3_dead,
                   readVars, respVars, objVars, taskVars, quicVars, ngVars,
                   eret, todo, completed, cur>>

\* apr_thread_pool_push succeeds, or fails and everything is given back: the
\* reservation under the lock, then the count.
process_push ==
    /\ epc = "push" /\ epc' = "process" /\ cur' = None
    /\ \/ /\ wpc' = [wpc EXCEPT ![cur] = "queued"]
          /\ UNCHANGED <<active_tasks, dispatched, failures>>
       \/ /\ failures < MaxFailures /\ failures' = failures + 1
          /\ dispatched' = GivenBack(cur)
          /\ active_tasks' = active_tasks - 1
          /\ UNCHANGED wpc
    /\ UNCHANGED <<streams, pending_free, blocked_streams, aborted, ngh3_dead,
                   readVars, respVars, objVars, worker_done, leaving, handled,
                   quicVars, ngVars, eret, todo, completed>>

dispatch_end ==
    /\ epc = "process" /\ completed = {}
    /\ epc' = "unblock" /\ eret' = "poll"
    /\ UNCHANGED <<sessVars, readVars, respVars, objVars, taskVars, quicVars,
                   ngVars, todo, completed, cur>>

-----------------------------------------------------------------------------
(***************************************************************************)
(* The end of an aborted session: it is kept while h3q_conn_shutdown is    *)
(* not done or a task is left, else destroyed.                             *)
(***************************************************************************)
session_keep ==
    /\ epc = "reap" /\ epc' = "poll"
    /\ UNCHANGED <<sessVars, readVars, respVars, objVars, taskVars, quicVars,
                   ngVars, eret, todo, completed, cur>>

h3_session_destroy ==
    /\ epc = "reap" /\ active_tasks = 0
    /\ epc' = "gone"
    /\ ng_open' = {}
    /\ cancel_locked(streams)
    /\ pending_free' = <<>>
    /\ frees' = [s \in Streams |-> frees[s] + Queued(s)]
    /\ UNCHANGED <<streams, blocked_streams, active_tasks, aborted, ngh3_dead,
                   readVars, response_submitted, qstream, done, reclaimed,
                   taskVars, quicVars, ng_blocked, write_blocked, eret, todo,
                   completed, cur>>

-----------------------------------------------------------------------------
(***************************************************************************)
(* stream_worker.                                                          *)
(***************************************************************************)
workFrame == UNCHANGED <<streams, pending_free, blocked_streams, aborted,
                         ngh3_dead, readVars, objVars, quicVars, ngVars,
                         eventVars>>

\* The request cannot be created: the reservation is given back under the
\* lock, and the task has only to decrement the count.
worker_gives_up(s) ==
    /\ wpc[s] = "queued" /\ LockFree /\ failures < MaxFailures
    /\ failures' = failures + 1
    /\ dispatched' = GivenBack(s)
    /\ wpc' = [wpc EXCEPT ![s] = "idle"] /\ leaving' = leaving + 1
    /\ UNCHANGED <<active_tasks, worker_done, handled, respVars>> /\ workFrame

\* Mutant: the way out of a failure forgets the count.
LeftCount_kept == active_tasks
LeftCount == active_tasks - 1

worker_leaves ==
    /\ leaving > 0 /\ leaving' = leaving - 1
    /\ active_tasks' = LeftCount
    /\ UNCHANGED <<dispatched, worker_done, wpc, handled, failures, respVars>>
    /\ workFrame

\* The request goes to ap_process_request.
worker_starts(s) ==
    /\ wpc[s] = "queued"
    /\ wpc' = [wpc EXCEPT ![s] = "run"]
    /\ handled' = [handled EXCEPT ![s] = @ + 1]
    /\ UNCHANGED <<active_tasks, dispatched, worker_done, leaving, failures,
                   respVars>> /\ workFrame

\* Why a response is not submitted.  Mutant: a cancelled one is.
Refused_blind(s) == aborted \/ ngh3_dead
Refused(s) == s \in response_cancelled \/ aborted \/ ngh3_dead

\* submit_response_nva: success, a refusal (no change), or a failure that
\* cancels the response.
submit_response_nva(s) ==
    /\ wpc[s] = "run" /\ LockFree
    /\ s \notin response_submitted /\ ~Refused(s)
    /\ \/ /\ s \in ng_open
          /\ response_submitted' = response_submitted \cup {s}
          /\ UNCHANGED <<response_complete, response_cancelled>>
       \/ cancel_locked({s}) /\ UNCHANGED response_submitted
    /\ UNCHANGED <<active_tasks, taskVars>> /\ workFrame

\* The handler is through: h3_stream_response_complete.
h3_stream_response_complete(s) ==
    /\ wpc[s] = "run" /\ LockFree
    /\ wpc' = [wpc EXCEPT ![s] = "exit"]
    /\ response_complete' = response_complete \cup {s}
    /\ UNCHANGED <<active_tasks, dispatched, worker_done, leaving, handled,
                   failures, response_submitted, response_cancelled>>
    /\ workFrame

\* Mutant: the last section of the worker does not set worker_done.
WithDone_forgotten(s) == worker_done
WithDone(s) == worker_done \cup {s}

\* worker_done is set under the lock, and only then the count is decremented.
worker_sets_done(s) ==
    /\ wpc[s] = "exit" /\ LockFree
    /\ wpc' = [wpc EXCEPT ![s] = "dec"] /\ worker_done' = WithDone(s)
    /\ UNCHANGED <<active_tasks, dispatched, leaving, handled, failures,
                   respVars>> /\ workFrame

worker_returns(s) ==
    /\ wpc[s] = "dec"
    /\ wpc' = [wpc EXCEPT ![s] = "gone"]
    /\ active_tasks' = active_tasks - 1
    /\ UNCHANGED <<dispatched, worker_done, leaving, handled, failures,
                   respVars>> /\ workFrame

\* The session is gone, and so are its workers.
Terminated == epc = "gone" /\ UNCHANGED vars

-----------------------------------------------------------------------------
EventNext ==
    \/ service_session_pass \/ goaway_sent \/ pass_skipped \/ accept_end
    \/ \E s \in Streams : track_stream(s) \/ drain_one_stream(s)
                            \/ write_stream(s) \/ h3_process_request(s)
    \/ read_data \/ feed_stream_fin \/ drain_goes_on \/ on_stream_close
    \/ drain_check \/ drain_end \/ reclaim_streams
    \/ unblock_writable_streams \/ flush_nghttp3
    \/ dispatch_begin \/ process_nopool \/ process_count \/ process_push
    \/ dispatch_end
    \/ session_keep \/ h3_session_destroy

WorkerNext(s) ==
    \/ worker_gives_up(s) \/ worker_starts(s) \/ submit_response_nva(s)
    \/ h3_stream_response_complete(s)
    \/ worker_sets_done(s) \/ worker_returns(s)

Next == \/ EventNext \/ worker_leaves \/ Terminated
        \/ \E s \in Streams : peer_acts(s) \/ WorkerNext(s)

Spec == Init /\ [][Next]_vars

-----------------------------------------------------------------------------
(***************************************************************************)
(* Properties.                                                             *)
(***************************************************************************)
Flags == SUBSET Streams

\* Every variable has its type; active_tasks, an unsigned counter in the code,
\* never drops below zero.
TypeOK ==
    /\ streams \in Flags /\ pending_free \in Seq(Streams)
    /\ blocked_streams \in Int /\ active_tasks \in Nat
    /\ aborted \in BOOLEAN /\ ngh3_dead \in BOOLEAN
    /\ qstream \in Flags /\ done \in Flags /\ write_blocked \in Flags
    /\ headers_complete \in Flags /\ body_complete \in Flags
    /\ dispatched \in Flags /\ worker_done \in Flags
    /\ response_submitted \in Flags /\ response_complete \in Flags
    /\ response_cancelled \in Flags /\ reclaimed \in Flags
    /\ ng_open \in Flags /\ ng_blocked \in Flags /\ wclosed \in Flags
    /\ todo \in Flags /\ completed \in Flags
    /\ frees \in [Streams -> Nat] /\ handled \in [Streams -> Nat]
    /\ peer \in [Streams -> {"unseen", "open", "fin", "cut"}]
    /\ wpc \in [Streams -> {"idle", "queued", "run", "exit", "dec", "gone"}]
    /\ leaving \in Nat /\ failures \in 0..MaxFailures
    /\ epc \in {"poll", "goaway", "abort", "accept", "drain", "read",
                "finished", "close", "check", "reclaim", "unblock", "flush",
                "dispatch", "process", "count", "push", "reap", "gone"}
    /\ eret \in {"poll", "goaway", "abort", "dispatch"}
    /\ cur \in Streams \cup {None}

\* The streams some thread may still touch: a task that has not set
\* worker_done, the event thread's lists, and nghttp3's callbacks.
Reachable == {s \in Streams : \/ wpc[s] \in {"queued", "run", "exit"}
                              \/ s \in todo \cup completed \cup {cur}
                              \/ s \in ng_open \cap response_submitted}

\* A stream's pool is destroyed only when no thread and no callback can reach
\* the stream again, as the comment on the reclaim branch says.
ReclaimIsSafe == reclaimed \cap Reachable = {}

\* The session is destroyed only after the last access of the last task.
SessionOutlivesTasks ==
    epc = "gone" => /\ leaving = 0
                    /\ \A s \in Streams : wpc[s] \in {"idle", "gone"}

\* The streams whose task has not decremented the count.
Busy == {s \in Streams : wpc[s] \notin {"idle", "gone"}}

\* active_tasks is the number of tasks that have not decremented it, plus the
\* one the event thread has counted and not pushed yet.
TasksCounted ==
    active_tasks = leaving + (IF epc = "push" THEN 1 ELSE 0) + Cardinality(Busy)

\* blocked_streams is the number of tracked streams that are write-blocked, so
\* that the shortcut in unblock_writable_streams never skips one; and nghttp3
\* skips no stream it should serve.
BlockedCounted ==
    /\ write_blocked \subseteq streams
    /\ blocked_streams = Cardinality(write_blocked)
    /\ ng_blocked \cap ng_open \subseteq write_blocked

\* A QUIC stream object is owned by its h3_stream or by pending_free, never by
\* both, and it is freed at most once.
FreedOnce ==
    \A s \in Streams :
        frees[s] + Queued(s) + (IF s \in qstream THEN 1 ELSE 0) <= 1

\* However often a dispatch fails and is retried, a request goes to httpd at
\* most once, and only when its headers and its body are complete.
HandledOnce ==
    \A s \in Streams :
        /\ handled[s] <= 1
        /\ handled[s] = 1 => s \in headers_complete \cap body_complete

\* nghttp3 offers data only of streams that can be written: the branch of
\* flush_nghttp3 that swallows the bytes of a vanished stream is defensive.
WritableHasStream ==
    \A s \in Streams : Writable(s) => s \in streams \cap qstream

\* What the loop over the sessions relies on: tasks are added only until the
\* session is aborted, and it is destroyed once, aborted and without tasks.
Life == INSTANCE SessionLife WITH tasks <- active_tasks, gone <- (epc = "gone")
ImplementsLife == Life!Spec

\* The fields of an h3_stream that a thread may change.
Fields(s) == <<s \in streams, s \in qstream, s \in done, s \in write_blocked,
               s \in headers_complete, s \in body_complete, s \in dispatched,
               s \in worker_done, s \in response_submitted,
               s \in response_complete, s \in response_cancelled>>

\* Nothing is written to a stream whose pool was destroyed: no worker, no
\* callback and no step of the event thread touches it again, and a reclaimed
\* stream does not come back to the hash.
ReclaimedUntouched == [][\A s \in reclaimed : Fields(s)' = Fields(s)]_vars

\* Every stream keeps to the protocol of StreamLife, whatever its peer, its
\* worker and the callbacks of nghttp3 do: in particular it comes to a worker
\* in a state from which H3Response starts, and is not read from then on.
Stage(s) == CASE s \in reclaimed -> "reclaimed"
              [] s \in streams   -> "held"
              [] OTHER           -> "new"
Stream(s) == INSTANCE StreamLife WITH
    stage <- Stage(s), quic <- (s \in qstream), known <- (s \in ng_open),
    given <- (s \in dispatched), submitted <- (s \in response_submitted),
    complete <- (s \in response_complete),
    cancelled <- (s \in response_cancelled),
    returned <- (s \in worker_done), done <- (s \in done)
StreamsImplementLife ==
    /\ \A s \in Streams : Stream(s)!Init
    /\ [][\A s \in Streams : [Stream(s)!Next]_(Stream(s)!vars)]_vars

-----------------------------------------------------------------------------
(***************************************************************************)
(* Fairness.  The event thread and the workers are scheduled, a worker     *)
(* strongly because it competes for the lock.  The drain's cursor lets no  *)
(* stream be passed over for ever.  A connection that is shut down in pass *)
(* after pass finally is.  The peer reads, so that a full send buffer does *)
(* not stay full for ever.                                                 *)
(***************************************************************************)
Fairness ==
    /\ WF_vars(EventNext) /\ WF_vars(worker_leaves)
    /\ SF_vars(h3_session_destroy)
    /\ \A s \in Streams :
          /\ SF_vars(WorkerNext(s)) /\ SF_vars(h3_stream_response_complete(s))
          /\ SF_vars(drain_one_stream(s))
          /\ SF_vars(unblock_writable_streams
                        /\ s \in write_blocked \ write_blocked')

FairSpec == Spec /\ Fairness

Ended == aborted \/ ngh3_dead

\* A complete request is handled, however often its dispatch fails at first,
\* unless its stream is closed or the session ends.
RequestIsHandled ==
    \A s \in Streams :
        (s \in streams \cap (qstream \ done) /\ Ready(s))
            ~> (handled[s] = 1 \/ s \in done \/ Ended)

\* A closed stream is reclaimed once its worker has returned.
ClosedIsReclaimed ==
    \A s \in Streams :
        (wpc[s] = "gone" /\ s \in done \ qstream) ~> (s \in reclaimed \/ Ended)

\* A stream skipped because its send buffer was full is served again.
BlockedIsServed ==
    \A s \in Streams : s \in write_blocked ~> (s \notin write_blocked \/ Ended)

\* An aborted session is eventually destroyed: the count of its tasks returns
\* to zero on every path of stream_worker.
AbortEndsSession == aborted ~> epc = "gone"
=============================================================================
