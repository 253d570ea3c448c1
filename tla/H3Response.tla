----------------------------- MODULE H3Response -----------------------------
(***************************************************************************)
(* The response queue of one HTTP/3 request stream and the two threads     *)
(* that share it under session->lock:                                      *)
(*                                                                         *)
(*   - the Apache worker, which runs the request handler; its output       *)
(*     reaches the queue through h3_filter_out_proto, h3_response_start,   *)
(*     h3_stream_response_append and h3_stream_response_complete;          *)
(*   - the event thread, which in every pass drains the stream (where it   *)
(*     may be closed), reclaims it, and flushes nghttp3: read_data hands   *)
(*     chunks out by reference, h3q_stream_write copies them to QUIC, and  *)
(*     h3_stream_response_ack_locked frees them.                           *)
(*                                                                         *)
(* Every section that runs under the lock is atomic for the worker.  The   *)
(* event thread keeps the lock over the loops of a flush; each iteration   *)
(* is a step and no worker step is possible until it releases the lock.    *)
(* A chunk's address is its index in chunks; 0 is NULL.                    *)
(***************************************************************************)
EXTENDS Integers, Sequences

CONSTANTS
    BufferLimit,  \* h3_stream.response_buffer_limit
    ChunkBytes,   \* STREAM_CHUNK_BYTES
    VecCount,     \* veccnt, the vectors nghttp3 offers to read_data
    BodyBytes,    \* bound: bytes one handler produces
    Modes         \* may a response be streamed (TRUE), captured (FALSE)

ASSUME ResponseAssumption ==
    /\ BufferLimit \in Nat \ {0}
    /\ ChunkBytes \in Nat \ {0}
    /\ VecCount \in Nat \ {0}
    /\ BodyBytes \in Nat
    /\ Modes \subseteq BOOLEAN

VARIABLES
    \* the queue of h3_stream
    chunks,                 \* every chunk allocated: [at, len, acked, next]
    live,                   \* the chunks malloc'd and not yet freed
    response_head, response_tail, response_submit_chunk,
    response_buffered, response_len,
    response_submitted, response_complete, response_cancelled,
    \* the rest of h3_stream and of h3_session that the queue depends on
    qstream,                \* h3_stream.qstream is not NULL
    done, worker_done,
    tracked,                \* the stream is in session->streams
    aborted, ngh3_dead,
    \* nghttp3's stream (external)
    ng_open,                \* nghttp3 knows the stream
    ng_waiting,             \* read_data said WOULDBLOCK and nobody resumed it
    ng_blocked,             \* nghttp3_conn_block_stream; equals write_blocked
                            \* while the stream is tracked
    ng_fin,                 \* "no", "read" (EOF flagged), "done" (FIN handed out)
    ng_outq, ng_off,        \* vectors handed out, bytes of the first one written
    \* the QUIC stream (external)
    wire,                   \* the response bytes QUIC accepted
    fin_sent,               \* SSL_stream_conclude took effect
    broken,                 \* writes fail: the stream was reset
    \* the worker
    wpc, wop, wlen, produced, streaming, eos, sig,
    \* the event thread
    epc, eret, count, accepted, wake

queueVars  == <<chunks, live, response_head, response_tail,
                response_submit_chunk, response_buffered, response_len>>
flagVars   == <<response_submitted, response_complete, response_cancelled>>
streamVars == <<qstream, done, worker_done, tracked>>
sessVars   == <<aborted, ngh3_dead>>
ngVars     == <<ng_open, ng_waiting, ng_blocked, ng_fin, ng_outq, ng_off>>
quicVars   == <<wire, fin_sent, broken>>
workVars   == <<wpc, wop, wlen, produced, streaming, eos, sig>>
eventVars  == <<epc, eret, count, accepted, wake>>
vars == <<queueVars, flagVars, streamVars, sessVars, ngVars, quicVars,
          workVars, eventVars>>

NULL == 0
MinOf(a, b) == IF a < b THEN a ELSE b

(***************************************************************************)
(* Locking and the condition variable.  The event thread holds the lock    *)
(* from drain_ready_streams to the end of a flush.  A broadcast on         *)
(* response_cond takes a sleeping worker back to the loop condition.       *)
(***************************************************************************)
EventHoldsLock == epc \in {"drain", "reclaim", "unblock", "flush", "read",
                           "write", "swallow", "ack"}
Running(pc) == wpc = pc /\ ~sig
WorkerAt(pc) == Running(pc) /\ ~EventHoldsLock

\* Mutant: the broadcast is forgotten.
Woken_silent(pc) == pc
Woken(pc) == IF pc = "wait" THEN "append" ELSE pc

\* The section just left ends with a call of wake_event_thread.
\* Mutant: it does not.
ThenSignal_never == UNCHANGED sig
ThenSignal == sig' = TRUE

\* Why append and submit refuse to go on.
\* Mutant: a cancelled response is not noticed.
Refused_blind == aborted \/ ngh3_dead
Refused == response_cancelled \/ aborted \/ ngh3_dead

\* nghttp3_conn_writev_stream would hand out something for this stream.
CanRead  == /\ ng_open /\ response_submitted
            /\ ~ng_blocked /\ ~ng_waiting /\ ng_fin = "no"
CanWrite == /\ ng_open /\ response_submitted
            /\ ~ng_blocked
            /\ ng_outq # <<>> \/ ng_fin = "read"
HasWork  == CanRead \/ CanWrite

\* How the request reached its worker.  The FIN that completed the request may
\* have made nghttp3 ask for STOP_SENDING or for a reset, or, when the peer
\* itself had reset the stream, have closed it.  The request is dispatched all
\* the same; after that the stream is not read again.
Reached(cancelled, has_qstream, known, reset) ==
    /\ response_cancelled = cancelled /\ response_complete = cancelled
    /\ done = cancelled /\ qstream = has_qstream
    /\ ng_open = known /\ broken = reset
undisturbed     == Reached(FALSE, TRUE, TRUE, FALSE)
on_stop_sending == Reached(TRUE, FALSE, TRUE, FALSE)
on_reset_stream == Reached(TRUE, TRUE, TRUE, TRUE)
closed_early    == Reached(TRUE, FALSE, FALSE, FALSE)

Init ==
    /\ chunks = <<>> /\ live = {}
    /\ response_head = NULL /\ response_tail = NULL
    /\ response_submit_chunk = NULL
    /\ response_buffered = 0 /\ response_len = 0
    /\ response_submitted = FALSE
    /\ undisturbed \/ on_stop_sending \/ on_reset_stream \/ closed_early
    /\ worker_done = FALSE /\ tracked = TRUE
    /\ aborted = FALSE /\ ngh3_dead = FALSE
    /\ ng_waiting = FALSE /\ ng_blocked = FALSE
    /\ ng_fin = "no" /\ ng_outq = <<>> /\ ng_off = 0
    /\ wire = <<>> /\ fin_sent = FALSE
    /\ wpc = "handler" /\ wop = "none" /\ wlen = 0 /\ produced = 0
    /\ streaming \in Modes /\ eos = FALSE /\ sig = FALSE
    /\ epc = "poll" /\ eret = "poll" /\ count = 0 /\ accepted = 0
    /\ wake = FALSE

-----------------------------------------------------------------------------
(***************************************************************************)
(* The worker.  wop says which bucket the filter is handling; "final" is   *)
(* the code of stream_worker after ap_process_request.                     *)
(***************************************************************************)

\* A data, FLUSH or EOS bucket reaches the output filter of a streaming
\* response.  httpd sends nothing after EOS.  An error bucket drops the rest of
\* its brigade, which so is never produced, and its page comes as buckets of
\* these kinds.  A bucket that cannot be read does what FLUSH does: it starts
\* the response and appends nothing.
h3_filter_out_proto ==
    /\ Running("handler") /\ streaming /\ ~eos
    /\ \/ \E n \in 1..(BodyBytes - produced) :
              /\ wop' = "data" /\ wlen' = n /\ produced' = produced + n
              /\ UNCHANGED eos
       \/ /\ wop' = "flush"
          /\ UNCHANGED <<wlen, produced, eos>>
       \/ /\ wop' = "eos" /\ eos' = TRUE
          /\ UNCHANGED <<wlen, produced>>
    /\ wpc' = "start"
    /\ UNCHANGED <<streaming, sig, queueVars, flagVars, streamVars, sessVars,
                   ngVars, quicVars, eventVars>>

\* ap_process_request returned.  A response that is not streamed is appended
\* now, in one call: the captured body, or the message of the 500.
handler_returns ==
    /\ Running("handler")
    /\ wop' = "final" /\ wpc' = "start"
    /\ \/ streaming /\ UNCHANGED <<wlen, produced>>
       \/ /\ ~streaming
          /\ \E n \in 0..BodyBytes : wlen' = n /\ produced' = n
    /\ UNCHANGED <<streaming, eos, sig, queueVars, flagVars, streamVars,
                   sessVars, ngVars, quicVars, eventVars>>

\* Where the worker goes when h3_response_start or an append has succeeded
\* with n bytes still to append, and when it has failed.
AfterSuccess(n) ==
    CASE n > 0 -> "append"
      [] n = 0 /\ wop \in {"eos", "final"} -> "complete"
      [] OTHER -> "handler"
AfterFailure == IF wop = "final" THEN "complete" ELSE "handler"

\* h3_stream_response_cancel_locked: the flags, and the broadcast's effect on
\* a worker that is at pc.
cancel_locked(pc) ==
    /\ response_cancelled' = TRUE /\ response_complete' = TRUE
    /\ wpc' = Woken(pc)

\* submit_response_nva is entered again by every bucket: a response is
\* submitted at most once.
submit_response_nva ==
    /\ WorkerAt("start")
    /\ \/ /\ response_submitted
          /\ wpc' = AfterSuccess(wlen)
          /\ UNCHANGED <<wlen, sig, flagVars>>
       \/ /\ ~response_submitted /\ Refused
          /\ wpc' = AfterFailure /\ wlen' = 0
          /\ UNCHANGED <<sig, flagVars>>
       \/ /\ ~response_submitted /\ ~Refused
          /\ response_submitted' = TRUE
          /\ wpc' = AfterSuccess(wlen) /\ ThenSignal
          /\ UNCHANGED <<wlen, response_complete, response_cancelled>>
       \/ /\ ~response_submitted /\ ~Refused  \* nghttp3_conn_submit_response fails
          /\ cancel_locked(AfterFailure) /\ wlen' = 0
          /\ UNCHANGED <<response_submitted, sig>>
    /\ UNCHANGED <<wop, produced, streaming, eos, queueVars, streamVars,
                   sessVars, ngVars, quicVars, eventVars>>

\* The loop condition of h3_stream_response_append holds: sleep at most 100ms.
response_append_wait ==
    /\ WorkerAt("append")
    /\ response_buffered >= BufferLimit /\ ~Refused
    /\ wpc' = "wait"
    /\ UNCHANGED <<wop, wlen, produced, streaming, eos, sig, queueVars,
                   flagVars, streamVars, sessVars, ngVars, quicVars, eventVars>>

\* The timed wait ends by itself; the loop condition is tested again.
\* Mutant: the wait has no timeout.
response_append_untimed == FALSE
response_append_timeup ==
    /\ WorkerAt("wait")
    /\ wpc' = "append"
    /\ UNCHANGED <<wop, wlen, produced, streaming, eos, sig, queueVars,
                   flagVars, streamVars, sessVars, ngVars, quicVars, eventVars>>

\* append returns an error that leaves the response as it is: the stream or
\* the session is gone (ECONNABORTED), or the wait itself fails.
response_append_refused ==
    /\ WorkerAt("append") /\ Refused
    /\ wpc' = AfterFailure /\ wlen' = 0
    /\ UNCHANGED <<wop, produced, streaming, eos, sig, queueVars, flagVars,
                   streamVars, sessVars, ngVars, quicVars, eventVars>>

response_append_wait_fails ==
    /\ WorkerAt("wait")
    /\ wpc' = AfterFailure /\ wlen' = 0
    /\ UNCHANGED <<wop, produced, streaming, eos, sig, queueVars, flagVars,
                   streamVars, sessVars, ngVars, quicVars, eventVars>>

\* malloc fails: the response is cancelled.
response_append_nomem ==
    /\ WorkerAt("append")
    /\ ~Refused /\ response_buffered < BufferLimit
    /\ cancel_locked(AfterFailure) /\ wlen' = 0
    /\ UNCHANGED <<response_submitted, wop, produced, streaming, eos, sig,
                   queueVars, streamVars, sessVars, ngVars, quicVars, eventVars>>

\* The length of the next chunk; at least 1 when there is room.
\* Mutant: the room left in the queue is ignored.
ChunkLen_roomless == MinOf(wlen, ChunkBytes)
ChunkLen == MinOf(MinOf(wlen, BufferLimit - response_buffered), ChunkBytes)

\* nghttp3_conn_resume_stream, called when the response was submitted.
\* Mutant: it is not called.
Resume_never == UNCHANGED ng_waiting
Resume == ng_waiting' = (ng_waiting /\ ~response_submitted)

\* The submit pointer after chunk was linked in.
\* Mutant: it always moves to the new chunk.
SubmitFrom_newest(chunk) == chunk
SubmitFrom(chunk) == IF response_submit_chunk = NULL THEN chunk
                     ELSE response_submit_chunk

response_append_chunk ==
    /\ WorkerAt("append")
    /\ ~Refused /\ response_buffered < BufferLimit
    /\ LET n     == ChunkLen
           chunk == Len(chunks) + 1
           new   == [at |-> response_len, len |-> n, acked |-> 0, next |-> NULL]
           linked == IF response_tail = NULL THEN chunks
                     ELSE [chunks EXCEPT ![response_tail].next = chunk]
       IN /\ chunks' = Append(linked, new)
          /\ live' = live \cup {chunk}
          /\ response_head' = IF response_tail = NULL THEN chunk
                              ELSE response_head
          /\ response_tail' = chunk
          /\ response_submit_chunk' = SubmitFrom(chunk)
          /\ response_buffered' = response_buffered + n
          /\ response_len' = response_len + n
          /\ wlen' = wlen - n
          /\ wpc' = AfterSuccess(wlen - n)
    /\ Resume
    /\ ThenSignal
    /\ UNCHANGED <<wop, produced, streaming, eos, flagVars, streamVars,
                   sessVars, ng_open, ng_blocked, ng_fin, ng_outq, ng_off,
                   quicVars, eventVars>>

\* h3_stream_response_complete, for the EOS bucket and at the worker's end.
h3_stream_response_complete ==
    /\ WorkerAt("complete")
    /\ response_complete' = TRUE
    /\ IF ngh3_dead THEN UNCHANGED ng_waiting ELSE Resume
    /\ wpc' = IF wop = "final" THEN "exit" ELSE "handler"
    /\ ThenSignal
    /\ UNCHANGED <<response_submitted, response_cancelled, wop, wlen, produced,
                   streaming, eos, queueVars, streamVars, sessVars, ng_open,
                   ng_blocked, ng_fin, ng_outq, ng_off, quicVars, eventVars>>

\* wake_event_thread runs after the lock is released.
wake_event_thread ==
    /\ sig
    /\ sig' = FALSE /\ wake' = TRUE
    /\ UNCHANGED <<wpc, wop, wlen, produced, streaming, eos, queueVars,
                   flagVars, streamVars, sessVars, ngVars, quicVars, epc, eret,
                   count, accepted>>

\* The last lines of stream_worker: worker_done under the lock, then the
\* atomic decrement of session->active_tasks.
stream_worker_done ==
    /\ WorkerAt("exit")
    /\ worker_done' = TRUE /\ wpc' = "dec"
    /\ UNCHANGED <<wop, wlen, produced, streaming, eos, sig, queueVars,
                   flagVars, qstream, done, tracked, sessVars, ngVars, quicVars,
                   eventVars>>

stream_worker_return ==
    /\ wpc = "dec"
    /\ wpc' = "gone"
    /\ UNCHANGED <<wop, wlen, produced, streaming, eos, sig, queueVars,
                   flagVars, streamVars, sessVars, ngVars, quicVars, eventVars>>

active_tasks == IF wpc = "gone" THEN 0 ELSE 1

-----------------------------------------------------------------------------
(***************************************************************************)
(* The event thread, outside the lock.                                     *)
(***************************************************************************)

\* poll returns on a datagram, on its timeout or on the wakeup socket, which
\* is then drained; a failed poll leaves the socket alone.
wait_for_event ==
    /\ epc = "poll"
    /\ epc' = "pass"
    /\ wake' \in {FALSE, wake} /\ eret' = "poll"
    /\ UNCHANGED <<count, accepted, queueVars, flagVars, streamVars, sessVars,
                   ngVars, quicVars, workVars>>

\* service_session_pass up to the drain.  While the child stops, the pass first
\* flushes (the GOAWAY, and the final one) and then goes on.  session->aborted
\* is set without the lock when the connection is found closed or drained or
\* its grace period is over.
service_session_pass ==
    /\ epc = "pass"
    /\ \/ aborted /\ epc' = "reap" /\ UNCHANGED <<aborted, eret>>
       \/ ~aborted /\ epc' = "unblock" /\ eret' = "pass" /\ UNCHANGED aborted
       \/ ~aborted /\ epc' = "reap" /\ aborted' = TRUE /\ UNCHANGED eret
       \/ ~aborted /\ epc' = "drain" /\ UNCHANGED <<aborted, eret>>
    /\ UNCHANGED <<ngh3_dead, count, accepted, wake, queueVars, flagVars,
                   streamVars, ngVars, quicVars, workVars>>

\* poll returns, but the pass gets no scratch pool and ends before the drain.
\* eret, otherwise where a flush returns to, remembers it until the next pass.
pass_skipped ==
    /\ epc = "poll" /\ ~aborted
    /\ wake' \in {FALSE, wake} /\ eret' = "skip"
    /\ UNCHANGED <<epc, count, accepted, queueVars, flagVars, streamVars,
                   sessVars, ngVars, quicVars, workVars>>

\* Between the two flushes of a pass the lock is free; a session whose
\* nghttp3 connection died is aborted, else completed requests are dispatched
\* and the second flush follows.
pass_after_first_flush ==
    /\ epc = "dispatch"
    /\ IF ngh3_dead
       THEN aborted' = TRUE /\ epc' = "reap" /\ UNCHANGED eret
       ELSE epc' = "unblock" /\ eret' = "poll" /\ UNCHANGED aborted
    /\ UNCHANGED <<ngh3_dead, count, accepted, wake, queueVars, flagVars,
                   streamVars, ngVars, quicVars, workVars>>

\* h3_stream_response_cleanup_locked.
cleanup_locked ==
    /\ live' = {}
    /\ response_head' = NULL /\ response_tail' = NULL
    /\ response_submit_chunk' = NULL /\ response_buffered' = 0
    /\ UNCHANGED <<chunks, response_len>>

\* The event loop's handling of an aborted session: h3q_conn_shutdown may need
\* several passes, and the session is destroyed only when no task is left.
reap_keep ==
    /\ epc = "reap"
    /\ epc' = "poll"
    /\ UNCHANGED <<eret, count, accepted, wake, queueVars, flagVars, streamVars,
                   sessVars, ngVars, quicVars, workVars>>

h3_session_destroy ==
    /\ epc = "reap" /\ active_tasks = 0
    /\ ng_open' = FALSE
    /\ IF tracked THEN cancel_locked(wpc) /\ cleanup_locked
       ELSE UNCHANGED <<queueVars, response_complete, response_cancelled, wpc>>
    /\ epc' = "gone"
    /\ UNCHANGED <<response_submitted, streamVars, sessVars, ng_waiting,
                   ng_blocked, ng_fin, ng_outq, ng_off, quicVars, wop, wlen,
                   produced, streaming, eos, sig, eret, count, accepted, wake>>

-----------------------------------------------------------------------------
(***************************************************************************)
(* The event thread under the lock: drain, reclaim and flush.              *)
(***************************************************************************)

\* Draining may close the stream, when both its directions are finished or the
\* connection is closed.  A failed read of any stream of the session kills the
\* nghttp3 connection.
on_stream_close ==
    /\ cancel_locked(wpc)
    /\ done' = TRUE /\ qstream' = FALSE /\ ng_open' = FALSE

drain_ready_streams ==
    /\ epc = "drain"
    /\ \/ tracked /\ ~done /\ qstream /\ ~ngh3_dead /\ on_stream_close
       \/ UNCHANGED <<response_cancelled, response_complete, wpc, done, qstream,
                      ng_open>>
    /\ ngh3_dead' \in {ngh3_dead, TRUE}
    /\ epc' = "reclaim"
    /\ UNCHANGED <<eret, count, accepted, wake, queueVars, response_submitted,
                   worker_done, tracked, aborted, ng_waiting, ng_blocked,
                   ng_fin, ng_outq, ng_off, quicVars, wop, wlen, produced,
                   streaming, eos, sig>>

Reclaimable == tracked /\ done /\ ~qstream /\ worker_done

\* The reclaim loop at the end of drain_ready_streams.  nghttp3 is not told.
reclaim_stream ==
    /\ epc = "reclaim"
    /\ IF Reclaimable THEN tracked' = FALSE /\ cleanup_locked
       ELSE UNCHANGED <<tracked, queueVars>>
    /\ epc' = "unblock" /\ eret' = "dispatch"
    /\ UNCHANGED <<count, accepted, wake, flagVars, qstream, done, worker_done,
                   sessVars, ngVars, quicVars, workVars>>

\* flush_nghttp3 does nothing on a dead connection; else it first unblocks
\* the stream if its QUIC send buffer has room again.
unblock_writable_streams ==
    /\ epc = "unblock"
    /\ \/ ngh3_dead /\ epc' = eret /\ UNCHANGED ng_blocked
       \/ /\ ~ngh3_dead /\ epc' = "flush"
          /\ \/ ~(tracked /\ ng_blocked /\ ~qstream) /\ UNCHANGED ng_blocked
             \/ tracked /\ ng_blocked /\ ng_blocked' = FALSE
    /\ UNCHANGED <<eret, count, accepted, wake, queueVars, flagVars, streamVars,
                   sessVars, ng_open, ng_waiting, ng_fin, ng_outq, ng_off,
                   quicVars, workVars>>

\* The head of the flush loop: nghttp3_conn_writev_stream fails, has nothing,
\* pulls more data, or hands out what it holds.
flush_nghttp3 ==
    /\ epc = "flush"
    /\ \/ ngh3_dead' = TRUE /\ epc' = eret /\ UNCHANGED <<count, accepted>>
       \/ /\ ~HasWork /\ epc' = eret
          /\ UNCHANGED <<ngh3_dead, count, accepted>>
       \/ /\ CanRead /\ epc' = "read" /\ count' = 0
          /\ UNCHANGED <<ngh3_dead, accepted>>
       \/ /\ CanWrite /\ accepted' = 0
          /\ epc' = IF tracked /\ qstream THEN "write" ELSE "swallow"
          /\ UNCHANGED <<ngh3_dead, count>>
    /\ UNCHANGED <<eret, wake, queueVars, flagVars, streamVars, aborted, ngVars,
                   quicVars, workVars>>

VecLeft == count < VecCount

\* An iteration of read_data's loop: the chunk's memory is lent to nghttp3.
read_data_chunk ==
    /\ epc = "read" /\ ~response_cancelled
    /\ response_submit_chunk # NULL /\ VecLeft
    /\ ng_outq' = Append(ng_outq, response_submit_chunk)
    /\ response_submit_chunk' = chunks[response_submit_chunk].next
    /\ count' = count + 1
    /\ UNCHANGED <<chunks, live, response_head, response_tail,
                   response_buffered, response_len, flagVars, streamVars,
                   sessVars, ng_open, ng_waiting, ng_blocked, ng_fin, ng_off,
                   quicVars, workVars, epc, eret, accepted, wake>>

\* read_data returns: EOF, some vectors, or WOULDBLOCK.
\* Mutant: EOF as soon as the response is complete.
ReadEof_early == response_complete
ReadEof == \/ response_cancelled
           \/ response_submit_chunk = NULL /\ response_complete

h3_session_read_data ==
    /\ epc = "read"
    /\ response_cancelled \/ response_submit_chunk = NULL \/ ~VecLeft
    /\ ng_fin' = IF ReadEof THEN "read" ELSE ng_fin
    /\ ng_waiting' = (count = 0 /\ ~ReadEof)
    /\ epc' = "flush" /\ count' = 0
    /\ UNCHANGED <<eret, accepted, wake, queueVars, flagVars, streamVars,
                   sessVars, ng_open, ng_blocked, ng_outq, ng_off, quicVars,
                   workVars>>

\* The unwritten bytes of the first vector, and their positions in the body.
VecLen == chunks[Head(ng_outq)].len - ng_off
VecBytes(n) == [i \in 1..n |-> chunks[Head(ng_outq)].at + ng_off + i]
PopVec == ng_outq' = Tail(ng_outq) /\ ng_off' = 0

\* The FIN is concluded only when every vector was accepted; a reset stream
\* ignores it.
Concludes(all) == all /\ ng_fin = "read" /\ ~broken

\* h3q_stream_write, a vector at a time: QUIC takes it all, takes w bytes and
\* is full, or the stream turns out to be broken.
write_vec ==
    /\ epc = "write" /\ ng_outq # <<>>
    /\ \/ /\ ~broken /\ PopVec
          /\ wire' = wire \o VecBytes(VecLen)
          /\ accepted' = accepted + VecLen
          /\ UNCHANGED <<broken, ng_blocked, fin_sent, epc>>
       \/ /\ ~broken
          /\ \E w \in 0..(VecLen - 1) :
                /\ wire' = wire \o VecBytes(w)
                /\ accepted' = accepted + w
                /\ ng_off' = ng_off + w
          /\ ng_blocked' = TRUE /\ epc' = "ack"
          /\ fin_sent' = (fin_sent \/ Concludes(FALSE))
          /\ UNCHANGED <<broken, ng_outq>>
       \/ /\ broken' = TRUE /\ epc' = "swallow"
          /\ UNCHANGED <<wire, accepted, ng_outq, ng_off, ng_blocked, fin_sent>>
    /\ UNCHANGED <<eret, count, wake, queueVars, flagVars, streamVars, sessVars,
                   ng_open, ng_waiting, ng_fin, workVars>>

\* All vectors are written.
write_end ==
    /\ epc = "write" /\ ng_outq = <<>>
    /\ ng_fin' = IF ng_fin = "read" THEN "done" ELSE ng_fin
    /\ fin_sent' = (fin_sent \/ Concludes(TRUE))
    /\ epc' = "ack"
    /\ UNCHANGED <<eret, count, accepted, wake, queueVars, flagVars, streamVars,
                   sessVars, ng_open, ng_waiting, ng_blocked, ng_outq, ng_off,
                   wire, broken, workVars>>

\* A broken or missing stream: what is queued counts as written and acked.
swallow_vec ==
    /\ epc = "swallow" /\ ng_outq # <<>>
    /\ accepted' = accepted + VecLen /\ PopVec
    /\ UNCHANGED <<epc, eret, count, wake, queueVars, flagVars, streamVars,
                   sessVars, ng_open, ng_waiting, ng_blocked, ng_fin, quicVars,
                   workVars>>

swallow_end ==
    /\ epc = "swallow" /\ ng_outq = <<>>
    /\ ng_fin' = IF ng_fin = "read" THEN "done" ELSE ng_fin
    /\ epc' = "ack"
    /\ UNCHANGED <<eret, count, accepted, wake, queueVars, flagVars, streamVars,
                   sessVars, ng_open, ng_waiting, ng_blocked, ng_outq, ng_off,
                   quicVars, workVars>>

\* The head chunk goes when it is acked to its end.
\* Mutant: it goes with its first acked byte.
FullyAcked_early(chunk, consumed) == consumed > 0
FullyAcked(chunk, consumed) == chunk.acked + consumed = chunk.len

\* An iteration of h3_stream_response_ack_locked; accepted is its datalen.
\* The broadcast after the loop is sent by the iteration that frees room.
response_ack_chunk ==
    /\ epc = "ack" /\ accepted > 0 /\ response_head # NULL
    /\ LET chunk    == chunks[response_head]
           consumed == MinOf(accepted, chunk.len - chunk.acked)
           freed    == FullyAcked(chunk, consumed)
       IN /\ chunks' = [chunks EXCEPT ![response_head].acked = @ + consumed]
          /\ response_buffered' = response_buffered - consumed
          /\ accepted' = accepted - consumed
          /\ live' = IF freed THEN live \ {response_head} ELSE live
          /\ response_head' = IF freed THEN chunk.next ELSE response_head
          /\ response_tail' = IF freed /\ chunk.next = NULL THEN NULL
                              ELSE response_tail
    /\ wpc' = Woken(wpc)
    /\ UNCHANGED <<response_submit_chunk, response_len, flagVars, streamVars,
                   sessVars, ngVars, quicVars, wop, wlen, produced, streaming,
                   eos, sig, epc, eret, count, wake>>

response_ack_end ==
    /\ epc = "ack"
    /\ accepted = 0 \/ response_head = NULL
    /\ accepted' = 0 /\ epc' = "flush"
    /\ UNCHANGED <<eret, count, wake, queueVars, flagVars, streamVars, sessVars,
                   ngVars, quicVars, workVars>>

\* The session is destroyed and nothing is left to do.
Terminated == epc = "gone" /\ wpc = "gone" /\ UNCHANGED vars

-----------------------------------------------------------------------------
HandlerNext == h3_filter_out_proto \/ handler_returns

WorkerNext ==
    \/ submit_response_nva
    \/ response_append_wait \/ response_append_timeup
    \/ response_append_refused \/ response_append_nomem
    \/ response_append_chunk
    \/ h3_stream_response_complete
    \/ wake_event_thread
    \/ stream_worker_done \/ stream_worker_return

EventNext ==
    \/ wait_for_event \/ service_session_pass \/ pass_after_first_flush
    \/ reap_keep \/ h3_session_destroy
    \/ drain_ready_streams \/ reclaim_stream
    \/ unblock_writable_streams \/ flush_nghttp3
    \/ read_data_chunk \/ h3_session_read_data
    \/ write_vec \/ write_end \/ swallow_vec \/ swallow_end
    \/ response_ack_chunk \/ response_ack_end

Next == \/ HandlerNext \/ WorkerNext \/ EventNext
        \/ response_append_wait_fails \/ pass_skipped \/ Terminated

Spec == Init /\ [][Next]_vars

-----------------------------------------------------------------------------
(***************************************************************************)
(* Properties.                                                             *)
(***************************************************************************)

Chunk == [at : Nat, len : Nat \ {0}, acked : Nat, next : Nat]
Ptr == 0..Len(chunks)

\* Every variable has its type; the pointers of h3_stream are NULL or name a
\* chunk that was allocated.
TypeOK ==
    /\ chunks \in Seq(Chunk) /\ live \subseteq 1..Len(chunks)
    /\ response_head \in Ptr /\ response_tail \in Ptr
    /\ response_submit_chunk \in Ptr
    /\ response_buffered \in Nat /\ response_len \in Nat
    /\ response_submitted \in BOOLEAN /\ response_complete \in BOOLEAN
    /\ response_cancelled \in BOOLEAN
    /\ qstream \in BOOLEAN /\ done \in BOOLEAN /\ worker_done \in BOOLEAN
    /\ tracked \in BOOLEAN /\ aborted \in BOOLEAN /\ ngh3_dead \in BOOLEAN
    /\ ng_open \in BOOLEAN /\ ng_waiting \in BOOLEAN /\ ng_blocked \in BOOLEAN
    /\ ng_fin \in {"no", "read", "done"}
    /\ ng_outq \in Seq(1..Len(chunks)) /\ ng_off \in Nat
    /\ wire \in Seq(Nat) /\ fin_sent \in BOOLEAN /\ broken \in BOOLEAN
    /\ wpc \in {"handler", "start", "append", "wait", "complete", "exit",
                "dec", "gone"}
    /\ wop \in {"none", "data", "flush", "eos", "final"}
    /\ wlen \in Nat /\ produced \in 0..BodyBytes
    /\ streaming \in BOOLEAN /\ eos \in BOOLEAN /\ sig \in BOOLEAN
    /\ epc \in {"poll", "pass", "drain", "reclaim", "unblock", "flush", "read",
                "write", "swallow", "ack", "dispatch", "reap", "gone"}
    /\ eret \in {"poll", "pass", "dispatch", "skip"}
    /\ count \in 0..VecCount /\ accepted \in Nat /\ wake \in BOOLEAN

\* No pointer that either thread will follow dangles: the queue's pointers
\* name allocated chunks, and so does every vector nghttp3 holds while the
\* stream still has a QUIC stream the vectors can be written to.  Acks free
\* chunks, and reclaim and destroy free them all, while vectors are out.
NoDanglingChunk ==
    /\ {response_head, response_tail, response_submit_chunk}
            \subseteq live \cup {NULL}
    /\ (tracked /\ qstream /\ ng_open) =>
            \A i \in 1..Len(ng_outq) : ng_outq[i] \in live

\* The first byte of the body that is not acked yet.
AckPos == IF response_head = NULL THEN response_len
          ELSE chunks[response_head].at + chunks[response_head].acked

\* response_buffered counts exactly the bytes appended and not acked, and it
\* never exceeds the stream's limit: back-pressure works and nothing leaks.
BufferAccounted ==
    /\ response_buffered = response_len - AckPos
    /\ response_buffered <= BufferLimit

\* What QUIC accepted is a prefix of what the handler appended: no byte is
\* lost, doubled or reordered by partial writes, acks and chunk boundaries.
WireIsPrefix ==
    /\ \A i \in 1..Len(wire) : wire[i] = i
    /\ Len(wire) <= response_len

\* A FIN follows the last byte appended, unless the response was cancelled.
\* A cancelled response (malloc failure, for one) also ends with a FIN.
FinMeansWhole ==
    fin_sent => response_cancelled
                \/ (response_complete /\ Len(wire) = response_len)

\* A worker that sleeps on response_cond has a reason to: the queue is full
\* and the response is not cancelled.  Acks and cancellations wake it; abort
\* and a dead nghttp3 connection do not, the 100ms timeout does.
SleepHasReason ==
    wpc = "wait" => response_buffered >= BufferLimit /\ ~response_cancelled

\* nghttp3 stops asking for data only while there is none: a reader that was
\* told WOULDBLOCK is resumed by the append or completion that ends the
\* drought.  Cancellation resumes nobody; the worker's completion does.
ReaderIsResumed ==
    (ng_waiting /\ ~ngh3_dead /\ ~response_cancelled)
        => response_submit_chunk = NULL /\ ~response_complete

\* The event thread never goes to sleep in poll on work it could do: a signal
\* is pending or about to be sent.  Only a pass that had no scratch pool leaves
\* work behind; poll's timeout then brings the next one.
NoLostWakeup ==
    (epc = "poll" /\ HasWork /\ ~ngh3_dead /\ ~aborted)
        => wake \/ sig \/ eret = "skip"

\* Nothing follows the FIN on the wire.
NothingAfterFin == [][fin_sent => wire' = wire]_vars

\* The queue, its two threads, nghttp3 and QUIC together implement the bounded
\* byte pipe of ResponseStream.
Pipe == INSTANCE ResponseStream WITH
            Limit <- BufferLimit, len <- response_len, delivered <- wire,
            closed <- response_complete, cut <- response_cancelled,
            lost <- broken \/ ~qstream, fin <- fin_sent
ImplementsPipe == Pipe!Spec

\* The stream keeps to the protocol of StreamLife, as H3Session's streams do.
Stream == INSTANCE StreamLife WITH
              stage <- (IF tracked THEN "held" ELSE "reclaimed"),
              quic <- qstream, known <- ng_open, given <- TRUE,
              submitted <- response_submitted, complete <- response_complete,
              cancelled <- response_cancelled, returned <- worker_done
ImplementsStream == Stream!Spec

-----------------------------------------------------------------------------
(***************************************************************************)
(* The inductive invariant behind the safety properties.                   *)
(***************************************************************************)

\* The queue still belongs to the stream.
Linked == tracked /\ epc # "gone"

\* Where the threads can be, and what of the stream they then can rely on.
ControlInv ==
    /\ wpc \in {"append", "wait"} => wlen > 0
    /\ wpc \notin {"start", "append", "wait"} => wlen = 0
    /\ worker_done <=> wpc \in {"dec", "gone"}
    /\ ~tracked => ~qstream /\ worker_done
    /\ ~qstream => response_cancelled /\ ~(ng_open /\ response_submitted)
    /\ epc = "gone" => wpc = "gone" /\ response_cancelled /\ ~ng_open
    /\ epc \in {"read", "write", "swallow", "ack"} =>
           tracked /\ qstream /\ ng_open /\ response_submitted
    /\ epc = "swallow" => broken
    /\ epc \notin {"write", "swallow", "ack"} => accepted = 0
    /\ epc \in {"unblock", "flush", "read", "write", "swallow", "ack"} =>
           eret # "skip"

\* The live chunks are the last ones allocated; they are linked in order, and
\* each begins where the one before it ends.  Only the head is partly acked.
QueueInv ==
    /\ response_head = NULL =>
           /\ live = {} /\ response_tail = NULL /\ response_submit_chunk = NULL
    /\ response_head # NULL =>
           /\ response_tail = Len(chunks) /\ live = response_head..Len(chunks)
           /\ response_submit_chunk \in live \cup {NULL}
    /\ \A k \in live :
           /\ chunks[k].next = IF k = Len(chunks) THEN NULL ELSE k + 1
           /\ chunks[k].at + chunks[k].len =
                  IF k = Len(chunks) THEN response_len ELSE chunks[k + 1].at
           /\ chunks[k].at + chunks[k].len <= response_len
           /\ chunks[k].acked < chunks[k].len
           /\ k # response_head => chunks[k].acked = 0
    /\ ~Linked => response_head = NULL

\* The last chunk lent to nghttp3, and the positions in the body up to which
\* bytes were lent to it and accepted by QUIC (or swallowed).
LastLent == IF response_submit_chunk = NULL THEN Len(chunks)
            ELSE response_submit_chunk - 1
LentPos == IF response_submit_chunk = NULL THEN response_len
           ELSE chunks[response_submit_chunk].at
WritePos == IF ng_outq = <<>> THEN LentPos
            ELSE chunks[ng_outq[1]].at + ng_off

\* While the queue is linked, the vectors are the last chunks lent, in order,
\* and what was written and not acked is exactly what the flush at hand still
\* has to ack.
VectorInv ==
    Linked =>
        /\ ng_outq # <<>> => response_head # NULL
        /\ response_head # NULL => response_head + Len(ng_outq) <= LastLent + 1
        /\ \A k \in 1..Len(ng_outq) : ng_outq[k] = LastLent - Len(ng_outq) + k
        /\ IF ng_outq = <<>> THEN ng_off = 0 ELSE ng_off < chunks[ng_outq[1]].len
        /\ AckPos + accepted = WritePos
        /\ ~broken => Len(wire) = WritePos

\* The end of the body: after EOF was flagged nothing is lent, after the FIN
\* nothing is left to write, and a response that is complete stays as it is.
EndInv ==
    /\ wop \in {"data", "flush", "eos"} => streaming
    /\ wop = "eos" => eos
    /\ wpc = "complete" => wop \in {"eos", "final"}
    /\ eos => wlen = 0 /\ streaming /\ wop \in {"eos", "final"}
    /\ response_cancelled => response_complete
    /\ response_complete /\ ~response_cancelled =>
           wlen = 0 /\ (eos \/ wpc \in {"exit", "dec", "gone"})
    /\ epc = "read" => ng_fin = "no"
    /\ ng_fin # "no" => \/ response_cancelled
                        \/ response_complete /\ response_submit_chunk = NULL
    /\ ng_fin = "done" => ng_outq = <<>>
    /\ fin_sent => ng_fin = "done" /\ ~broken

\* Why nobody sleeps for good: the properties of the three sleepers, and what
\* they rest on.
WakeInv ==
    /\ SleepHasReason /\ ReaderIsResumed /\ NoLostWakeup
    /\ ng_waiting => response_submitted
    /\ epc = "reap" => aborted

-----------------------------------------------------------------------------
(***************************************************************************)
(* Fairness.  A handler finally returns.  Both threads are scheduled; the  *)
(* worker needs strong fairness because the event thread takes the lock in *)
(* every pass, and has it because that thread sleeps in poll without it.   *)
(* The timed wait is a step of the worker; that it fails is not.  Not      *)
(* every pass lacks memory for its scratch pool.  A QUIC connection that   *)
(* is shut down again and again finally is.                                *)
(***************************************************************************)
Fairness ==
    /\ SF_vars(handler_returns)
    /\ SF_vars(WorkerNext)
    /\ WF_vars(EventNext)
    /\ SF_vars(h3_session_destroy)

FairSpec == Spec /\ Fairness

\* The peer reads: a full send buffer drains, and QUIC then takes some byte.
PeerReads ==
    /\ SF_vars(unblock_writable_streams /\ ng_blocked /\ ~ng_blocked')
    /\ SF_vars(write_vec /\ wire' # wire)

PeerSpec == FairSpec /\ PeerReads

\* An aborted session is eventually destroyed: no worker stays asleep in
\* append although nobody broadcasts when aborted is set.
AbortEndsSession == aborted ~> epc = "gone"

Interrupted == response_cancelled \/ broken \/ aborted \/ ngh3_dead

\* Towards a peer that reads, every response that was submitted and completed
\* is delivered to its FIN, unless the stream or the session is interrupted.
ResponseArrives ==
    (response_submitted /\ response_complete) ~> (fin_sent \/ Interrupted)
=============================================================================
