------------------------------- MODULE H3Loop -------------------------------
(***************************************************************************)
(* The event thread as a reader: when it sleeps in poll, what wakes it,    *)
(* and which streams of a session a pass reads before its budget is spent. *)
(*                                                                         *)
(* drain_ready_streams (h3_stream.c) visits the tracked streams in the     *)
(* order of an APR hash, starting at a cursor that it moves when a pass    *)
(* stops for its read or byte budget.  The thread (h3_threads.c) polls     *)
(* only when the last round read nothing.  Workers wake it by a datagram   *)
(* on a loopback socket pair (h3_socket.c): a send to a full socket is     *)
(* dropped, and one wakeup reads a bounded number of datagrams.            *)
(*                                                                         *)
(* OpenSSL takes datagrams in during any call made on a connection, not    *)
(* only in SSL_handle_events, so data arrives in the middle of a pass too. *)
(* A stream is its count of unread bytes.  What nghttp3 makes of them is   *)
(* in H3Session, how the queue of one response uses the signals is in      *)
(* H3Response.                                                             *)
(***************************************************************************)
EXTENDS Integers, Sequences, FiniteSets, SequencesExt

CONSTANTS
    Streams,      \* streams the client opens, each one once
    Workers,      \* threads of the worker pool
    READ_BUDGET,  \* H3_STREAM_DRAIN_READ_BUDGET
    BYTE_BUDGET,  \* H3_STREAM_DRAIN_BYTE_BUDGET
    BufSize,      \* h3_stream_buffer_size
    Window,       \* unread bytes the QUIC flow control lets a stream hold
    SocketCap,    \* datagrams the reader socket of the wakeup pair holds
    DrainMax      \* datagrams h3_wakeup_drain reads at most

ASSUME LoopAssumption ==
    {READ_BUDGET, BYTE_BUDGET, BufSize, Window, SocketCap, DrainMax} \subseteq Nat \ {0}

VARIABLES
    order,            \* the tracked streams in the order of the hash
    stream_drain_cursor,
    done,             \* streams with h3s->done set
    aborted,          \* session->aborted
    unread,           \* bytes OpenSSL holds for each stream
    late,             \* streams that got data after the pass had left them
    epc, data_read,
    start, offset,    \* the visit of drain_ready_streams
    reads_remaining, bytes_remaining,
    turn,             \* stream read from last in this round, or "none"
    skipped,          \* the pass of this round had no scratch pool
    queued,           \* datagrams in the reader of the wakeup pair
    posted,           \* work a worker has left for the next flush
    wpc               \* workers: "run", "signal"

session == <<order, stream_drain_cursor, done, aborted>>
visit == <<start, offset, reads_remaining, bytes_remaining, data_read, turn>>
vars == <<session, unread, late, epc, visit, skipped,
          queued, posted, wpc>>

Tracked == ToSet(order)

TypeOK ==
    /\ order \in Seq(Streams) /\ IsInjective(order)
    /\ stream_drain_cursor \in Nat
    /\ done \subseteq Streams
    /\ aborted \in BOOLEAN
    /\ unread \in [Streams -> 0..Window]
    /\ late \subseteq Streams
    /\ epc \in {"poll", "pump", "accept", "read"}
    /\ {data_read, skipped, posted} \subseteq BOOLEAN
    /\ start \in Nat /\ offset \in Nat
    /\ reads_remaining \in 0..READ_BUDGET
    /\ bytes_remaining \in 0..BYTE_BUDGET
    /\ turn \in Streams \cup {"none"}
    /\ queued \in 0..SocketCap
    /\ wpc \in [Workers -> {"run", "signal"}]

\* Two connected non-blocking sockets, nothing queued.
h3_wakeup_create == queued = 0

Init ==
    /\ order = <<>>
    /\ stream_drain_cursor = 0 /\ done = {} /\ aborted = FALSE
    /\ unread = [s \in Streams |-> 0] /\ late = {}
    /\ epc = "poll" /\ data_read = FALSE
    /\ start = 0 /\ offset = 0 /\ turn = "none"
    /\ reads_remaining = READ_BUDGET /\ bytes_remaining = BYTE_BUDGET
    /\ skipped = FALSE
    /\ h3_wakeup_create
    /\ posted = FALSE /\ wpc = [w \in Workers |-> "run"]

-----------------------------------------------------------------------------
(* The peer, through OpenSSL: bytes become readable during a call the      *)
(* event thread makes, before the visit or in the course of it.  Those of  *)
(* a stream the pass has yet to empty are not late: leave_stream takes it  *)
(* off again.                                                              *)
data_arrives(s) ==
    /\ epc \in {"pump", "read"}
    /\ s \in Tracked \ done /\ unread[s] < Window
    /\ unread' = [unread EXCEPT ![s] = @ + 1]
    /\ late' = IF epc = "read" THEN late \cup {s} ELSE late
    /\ UNCHANGED <<session, epc, visit, skipped,
                   queued, posted, wpc>>

(* A worker leaves something for the event thread (a response to submit, a *)
(* chunk) under the session's lock, which the event thread holds while it  *)
(* reads ...  The end of a task is not signalled: the next pass sees it.   *)
worker_posts(w) ==
    /\ wpc[w] = "run" /\ epc # "read"
    /\ posted' = TRUE
    /\ wpc' = [wpc EXCEPT ![w] = "signal"]
    /\ UNCHANGED <<session, unread, late, epc, visit, skipped, queued>>

(* ... and signals it.  The result of the send is ignored.                 *)
h3_wakeup_signal(w) ==
    /\ wpc[w] = "signal"
    /\ queued' = IF queued < SocketCap THEN queued + 1 ELSE queued
    /\ wpc' = [wpc EXCEPT ![w] = "run"]
    /\ UNCHANGED <<session, unread, late, epc, visit, skipped, posted>>

-----------------------------------------------------------------------------
(* h3_event_thread and wait_for_event *)

loopFrame == <<session, unread, visit, posted, wpc>>

(* One wakeup reads a bounded number of the queued signals.  Those that    *)
(* come while it reads are as if they had come before.                     *)
h3_wakeup_drain == IF queued > DrainMax THEN queued - DrainMax ELSE 0

\* poll reports the reader of the wakeup pair.
wait_for_event ==
    /\ epc = "poll" /\ queued > 0
    /\ queued' = h3_wakeup_drain
    /\ epc' = "pump"
    /\ UNCHANGED <<loopFrame, late, skipped>>

(* poll reports a datagram on the UDP socket only, fails, or reaches the   *)
(* timeout, which h3q_engine_want keeps between 1 and 1000 ms whatever     *)
(* OpenSSL asks for.  A failing poll leaves the reader as it is.           *)
poll_times_out ==
    /\ epc = "poll"
    /\ epc' = "pump"
    /\ UNCHANGED <<loopFrame, late, skipped, queued>>

(* After a round, h3_event_thread polls unless work is pending: the pass   *)
(* made progress, or h3q_engine_pump reported datagrams left queued in the *)
(* address filter.  It may report that in any round; a failure, -1, counts *)
(* as no work.                                                             *)
AfterRound(progress) == {IF progress \/ pumped = 1 THEN "pump" ELSE "poll" : pumped \in {-1, 0, 1}}

h3q_engine_pump ==
    /\ epc = "pump"
    /\ epc' \in IF aborted THEN AfterRound(FALSE) ELSE {"accept"}
    /\ late' = {} /\ skipped' = FALSE
    /\ UNCHANGED <<loopFrame, queued>>

-----------------------------------------------------------------------------
(* service_session_pass and drain_ready_streams *)

passFrame == <<queued, posted, wpc>>

pass_skipped ==
    /\ epc = "accept"
    /\ skipped' = TRUE
    /\ epc' \in AfterRound(FALSE)
    /\ UNCHANGED <<passFrame, session, unread, late, visit>>

(* A new stream goes to whatever place of the hash its id selects, and a   *)
(* table that grows places the others anew.  It may come with data.        *)
track_stream(s) ==
    /\ epc = "accept"
    /\ s \notin Tracked \cup done
    /\ order' \in SetToSeqs(Tracked \cup {s})
    /\ \E n \in 0..Window : unread' = [unread EXCEPT ![s] = n]
    /\ UNCHANGED <<passFrame, stream_drain_cursor, done, aborted, late,
                   epc, visit, skipped>>

\* The snapshot is order itself: it changes only after the visit.
StartAt == IF order = <<>> THEN 0 ELSE stream_drain_cursor % Len(order)

drain_ready_streams ==
    /\ epc = "accept"
    /\ start' = StartAt
    /\ epc' = "read"
    /\ UNCHANGED <<passFrame, session, unread, late, skipped,
                   offset, reads_remaining, bytes_remaining, data_read, turn>>

AtStream == epc = "read" /\ offset < Len(order)
Index == (start + offset) % Len(order)
Current == order[Index + 1]
BudgetSpent == reads_remaining = 0 \/ bytes_remaining = 0

readFrame == <<passFrame, order, start, skipped>>

(* Done, or one of the server's own streams, which are in the hash too and *)
(* are passed over in the same way.                                        *)
skip_stream ==
    /\ AtStream
    /\ Current \in done /\ turn # Current
    /\ offset' = offset + 1
    /\ UNCHANGED <<readFrame, stream_drain_cursor, done, aborted, unread, late,
                   epc, data_read, turn, reads_remaining, bytes_remaining>>

ReadSize == IF BufSize < bytes_remaining THEN BufSize ELSE bytes_remaining

(* One turn of the loop of drain_one_stream.  The callbacks nghttp3 makes  *)
(* may set h3s->done; a failing nghttp3 sets it and ends the session.      *)
drain_one_stream ==
    /\ AtStream /\ ~aborted
    /\ Current \notin done
    /\ ~BudgetSpent
    /\ \E nread \in 1..ReadSize :
         /\ nread <= unread[Current]
         /\ unread' = [unread EXCEPT ![Current] = @ - nread]
         /\ bytes_remaining' = bytes_remaining - nread
    /\ reads_remaining' = reads_remaining - 1
    /\ data_read' = TRUE
    /\ turn' = Current
    /\ \/ UNCHANGED <<done, aborted>>
       \/ done' = done \cup {Current} /\ aborted' \in BOOLEAN
    /\ UNCHANGED <<readFrame, stream_drain_cursor, late, epc, offset>>

\* Mutant: the next pass starts at the stream that spent the budget.
NextCursor_same == Index

\* Budget spent: the next pass starts at the stream after this one.
NextCursor == (Index + 1) % Len(order)

(* drain_one_stream returns: nothing is left to read (nghttp3 may close    *)
(* the stream on its FIN), the stream is done, or the budget is spent.     *)
leave_stream ==
    /\ AtStream /\ ~aborted
    /\ turn = Current \/ Current \notin done
    /\ BudgetSpent \/ Current \in done \/ unread[Current] = 0
    /\ IF unread[Current] = 0
       THEN late' = late \ {Current} /\ done' \in {done, done \cup {Current}}
       ELSE UNCHANGED <<late, done>>
    /\ IF BudgetSpent
       THEN stream_drain_cursor' = NextCursor /\ offset' = Len(order)
       ELSE offset' = offset + 1 /\ UNCHANGED stream_drain_cursor
    /\ UNCHANGED <<readFrame, aborted, unread, epc, data_read, turn,
                   reads_remaining, bytes_remaining>>

\* Mutant: a pass cut short by its budget asks for no further round.
Progress_complete == data_read /\ ~BudgetSpent /\ ~aborted

\* What service_session_pass returns.
Progress == data_read /\ ~aborted

visitEnds ==
    /\ start' = 0 /\ offset' = 0 /\ turn' = "none" /\ data_read' = FALSE
    /\ reads_remaining' = READ_BUDGET /\ bytes_remaining' = BYTE_BUDGET
    /\ epc' \in AfterRound(Progress)

\* Streams that leave the hash do not move the others.
KeepsOrder(q) ==
    \A j, k \in DOMAIN q : j < k =>
        \E m, n \in DOMAIN order : m < n /\ order[m] = q[j] /\ order[n] = q[k]

(* The visit is over.  Some of the streams that are done have no QUIC      *)
(* stream and a worker that has returned: they leave the hash.  The flush  *)
(* sees whatever workers have posted, and the pass asks for another round  *)
(* when it read something.  The locals of the visit are fresh in the next  *)
(* call.                                                                   *)
service_session_pass ==
    /\ epc = "read" /\ ~aborted
    /\ offset = Len(order)
    /\ \E gone \in SUBSET (done \cap Tracked) :
         order' \in {q \in SetToSeqs(Tracked \ gone) : KeepsOrder(q)}
    /\ posted' = FALSE
    /\ visitEnds
    /\ UNCHANGED <<stream_drain_cursor, done, aborted, unread, late, skipped, queued, wpc>>

(* nghttp3 has failed: no pass reads this session again, and what it holds *)
(* goes with it (H3Session, H3Io).                                         *)
session_aborts ==
    /\ epc = "read" /\ aborted
    /\ order' = <<>> /\ stream_drain_cursor' = 0 /\ done' = Streams
    /\ unread' = [s \in Streams |-> 0] /\ late' = {}
    /\ visitEnds
    /\ UNCHANGED <<aborted, skipped, queued, posted, wpc>>

-----------------------------------------------------------------------------
EventThread ==
    \/ wait_for_event \/ poll_times_out \/ h3q_engine_pump
    \/ pass_skipped \/ \E s \in Streams : track_stream(s)
    \/ drain_ready_streams \/ skip_stream \/ drain_one_stream \/ leave_stream
    \/ service_session_pass \/ session_aborts

Next ==
    \/ EventThread
    \/ \E s \in Streams : data_arrives(s)
    \/ \E w \in Workers : worker_posts(w) \/ h3_wakeup_signal(w)

Spec == Init /\ [][Next]_vars
(* The thread runs, and the allocation of a scratch pool does not fail     *)
(* every time.                                                             *)
FairSpec == Spec /\ WF_vars(EventThread) /\ SF_vars(drain_ready_streams)

-----------------------------------------------------------------------------
(* The event thread sleeps only when there is nothing for it to do: every  *)
(* byte a stream still holds came in after the pass had emptied that       *)
(* stream, never because the pass ran out of budget; and work a worker has *)
(* posted has its signal in the socket or on the way, although signals to  *)
(* a full socket are dropped and a wakeup reads a bounded number of them.  *)
(* A pass without a scratch pool, and an ended session, are excepted.      *)
(* h3_threads.c:44-101, h3_stream.c:305-336, h3_socket.c:163-190.          *)
SleepsOnlyWhenIdle ==
    epc = "poll" /\ ~skipped /\ ~aborted =>
        /\ \A s \in Tracked \ done : unread[s] > 0 => s \in late
        /\ posted => queued > 0 \/ \E w \in Workers : wpc[w] = "signal"

(* A stream with unread bytes gets its turn, however much the other        *)
(* streams always have to read: "so one busy stream cannot starve the      *)
(* others" (h3_stream.c:42).  This is the cursor's work, while the hash    *)
(* changes under it as streams come and go.                                *)
EveryStreamIsRead ==
    \A s \in Streams :
        s \in Tracked /\ unread[s] > 0 ~> turn = s \/ s \in done \/ aborted

=============================================================================
