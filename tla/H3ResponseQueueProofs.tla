----------------------- MODULE H3ResponseQueueProofs -----------------------
(***************************************************************************)
(* Lemmas about H3Response: what the operations on the sequence of chunks  *)
(* return, that every step keeps the types and the control state, and that *)
(* the queue survives an append, a cleanup and a read.                     *)
(***************************************************************************)
EXTENDS H3Response, SequenceTheorems, TLAPS

\* TypeOK in three parts: the data of the queue, the flags, and the rest.
QueueType ==
    /\ chunks \in Seq(Chunk) /\ live \subseteq 1..Len(chunks)
    /\ response_head \in Ptr /\ response_tail \in Ptr
    /\ response_submit_chunk \in Ptr
    /\ response_buffered \in Nat /\ response_len \in Nat
    /\ ng_outq \in Seq(1..Len(chunks)) /\ ng_off \in Nat
    /\ wire \in Seq(Nat) /\ accepted \in Nat

FlagType ==
    /\ response_submitted \in BOOLEAN /\ response_complete \in BOOLEAN
    /\ response_cancelled \in BOOLEAN
    /\ qstream \in BOOLEAN /\ done \in BOOLEAN /\ worker_done \in BOOLEAN
    /\ tracked \in BOOLEAN /\ aborted \in BOOLEAN /\ ngh3_dead \in BOOLEAN
    /\ ng_open \in BOOLEAN /\ ng_waiting \in BOOLEAN /\ ng_blocked \in BOOLEAN
    /\ fin_sent \in BOOLEAN /\ broken \in BOOLEAN
    /\ streaming \in BOOLEAN /\ eos \in BOOLEAN /\ sig \in BOOLEAN
    /\ wake \in BOOLEAN

PcType ==
    /\ ng_fin \in {"no", "read", "done"}
    /\ wpc \in {"handler", "start", "append", "wait", "complete", "exit",
                "dec", "gone"}
    /\ wop \in {"none", "data", "flush", "eos", "final"}
    /\ wlen \in Nat /\ produced \in 0..BodyBytes
    /\ epc \in {"poll", "pass", "drain", "reclaim", "unblock", "flush", "read",
                "write", "swallow", "ack", "dispatch", "reap", "gone"}
    /\ eret \in {"poll", "pass", "dispatch", "skip"}
    /\ count \in 0..VecCount

\* The three parts are TypeOK.
LEMMA TypeParts == TypeOK <=> QueueType /\ FlagType /\ PcType
  BY DEF TypeOK, QueueType, FlagType, PcType

dataVars == <<queueVars, ng_outq, ng_off, accepted, wire, broken>>

-----------------------------------------------------------------------------
(***************************************************************************)
(* What the two changes of a chunk do to the sequence of chunks.           *)
(***************************************************************************)

\* A sequence that is not empty has a first element.
LEMMA NonEmptySeq ==
    ASSUME NEW S, NEW s \in Seq(S), s # <<>>
    PROVE  Len(s) \in Nat \ {0} /\ s[1] \in S /\ Head(s) = s[1]
  OBVIOUS

\* Removing the first of several elements.
LEMMA TailFacts ==
    ASSUME NEW S, NEW s \in Seq(S), s # <<>>
    PROVE  /\ Tail(s) \in Seq(S) /\ Len(Tail(s)) = Len(s) - 1
           /\ \A k \in 1..(Len(s) - 1) : Tail(s)[k] = s[k + 1]
           /\ Tail(s) = <<>> <=> Len(s) = 1
<1>1. /\ Tail(s) \in Seq(S) /\ Len(Tail(s)) = Len(s) - 1
      /\ \A k \in 1..(Len(s) - 1) : Tail(s)[k] = s[k + 1]
      /\ Len(s) \in Nat \ {0}
  BY HeadTailProperties, EmptySeq
<1>2. Tail(s) = <<>> <=> Len(Tail(s)) = 0
  BY <1>1, EmptySeq
<1> QED
  BY <1>1, <1>2

\* A chunk has at least one byte, and fits what is to be appended and the
\* room left in the queue.
LEMMA ChunkLenFacts ==
    ASSUME TypeOK, wlen > 0, response_buffered < BufferLimit
    PROVE  /\ ChunkLen \in Nat \ {0}
           /\ ChunkLen <= wlen
           /\ ChunkLen <= BufferLimit - response_buffered
  BY ResponseAssumption DEF TypeOK, ChunkLen, MinOf

\* The fields of an allocated h3_response_chunk.
LEMMA ChunkTypes ==
    ASSUME NEW c \in Chunk
    PROVE  /\ c.at \in Nat /\ c.len \in Nat \ {0} /\ c.acked \in Nat
           /\ c.next \in Nat
  BY DEF Chunk

\* A record with the fields of an h3_response_chunk is one.
LEMMA ChunkFields ==
    ASSUME NEW c \in Chunk, NEW v \in Nat
    PROVE  /\ [c EXCEPT !.next = v] \in Chunk
           /\ [c EXCEPT !.next = v].at = c.at
           /\ [c EXCEPT !.next = v].len = c.len
           /\ [c EXCEPT !.next = v].acked = c.acked
           /\ [c EXCEPT !.next = v].next = v
           /\ [c EXCEPT !.acked = v] \in Chunk
           /\ [c EXCEPT !.acked = v].at = c.at
           /\ [c EXCEPT !.acked = v].len = c.len
           /\ [c EXCEPT !.acked = v].acked = v
           /\ [c EXCEPT !.acked = v].next = c.next
  BY DEF Chunk

\* Replacing one chunk keeps a sequence of chunks one.
LEMMA ReplaceChunk ==
    ASSUME NEW s \in Seq(Chunk), NEW t \in 1..Len(s), NEW d \in Chunk
    PROVE  /\ [s EXCEPT ![t] = d] \in Seq(Chunk)
           /\ Len([s EXCEPT ![t] = d]) = Len(s)
           /\ \A k \in 1..Len(s) : [s EXCEPT ![t] = d][k] =
                                      IF k = t THEN d ELSE s[k]
  OBVIOUS

\* So does adding a chunk at the end.
LEMMA AppendChunk ==
    ASSUME NEW s \in Seq(Chunk), NEW d \in Chunk
    PROVE  /\ Append(s, d) \in Seq(Chunk)
           /\ Len(Append(s, d)) = Len(s) + 1
           /\ Append(s, d)[Len(s) + 1] = d
           /\ \A k \in 1..Len(s) : Append(s, d)[k] = s[k]
  OBVIOUS

\* Linking a new chunk in changes nothing in the old ones but the next pointer
\* of the tail.
LEMMA AppendFacts ==
    ASSUME TypeOK, NEW n \in Nat \ {0},
           chunks' = Append(IF response_tail = NULL THEN chunks
                            ELSE [chunks EXCEPT ![response_tail].next =
                                                    Len(chunks) + 1],
                            [at |-> response_len, len |-> n, acked |-> 0,
                             next |-> NULL])
    PROVE  /\ chunks' \in Seq(Chunk)
           /\ Len(chunks') = Len(chunks) + 1
           /\ chunks'[Len(chunks) + 1].at = response_len
           /\ chunks'[Len(chunks) + 1].len = n
           /\ chunks'[Len(chunks) + 1].acked = 0
           /\ chunks'[Len(chunks) + 1].next = NULL
           /\ \A k \in 1..Len(chunks) :
                 /\ chunks'[k].at = chunks[k].at
                 /\ chunks'[k].len = chunks[k].len
                 /\ chunks'[k].acked = chunks[k].acked
                 /\ chunks'[k].next = IF k = response_tail THEN Len(chunks) + 1
                                      ELSE chunks[k].next
<1> DEFINE new == [at |-> response_len, len |-> n, acked |-> 0, next |-> NULL]
           linked == IF response_tail = NULL THEN chunks
                     ELSE [chunks EXCEPT ![response_tail].next = Len(chunks) + 1]
<1>1. new \in Chunk
  BY DEF TypeOK, Chunk, NULL
<1> DEFINE changed == [chunks[response_tail] EXCEPT !.next = Len(chunks) + 1]
<1>2. ASSUME response_tail # NULL
      PROVE  /\ linked \in Seq(Chunk) /\ Len(linked) = Len(chunks)
             /\ \A k \in 1..Len(chunks) :
                  /\ linked[k].at = chunks[k].at
                  /\ linked[k].len = chunks[k].len
                  /\ linked[k].acked = chunks[k].acked
                  /\ linked[k].next = IF k = response_tail
                                      THEN Len(chunks) + 1 ELSE chunks[k].next
  <2>1. response_tail \in 1..Len(chunks) /\ chunks \in Seq(Chunk)
    BY <1>2 DEF TypeOK, Ptr, NULL
  <2>2. chunks[response_tail] \in Chunk /\ Len(chunks) + 1 \in Nat
    BY <2>1
  <2>3. /\ changed \in Chunk
        /\ changed.at = chunks[response_tail].at
        /\ changed.len = chunks[response_tail].len
        /\ changed.acked = chunks[response_tail].acked
        /\ changed.next = Len(chunks) + 1
    BY <2>2, ChunkFields
  <2>4. linked = [chunks EXCEPT ![response_tail] = changed]
    BY <1>2
  <2> HIDE DEF changed, linked
  <2>5. /\ linked \in Seq(Chunk) /\ Len(linked) = Len(chunks)
        /\ \A k \in 1..Len(chunks) : linked[k] = IF k = response_tail THEN changed
                                                 ELSE chunks[k]
    BY <2>1, <2>3, <2>4, ReplaceChunk
  <2> QED
    BY <2>3, <2>5
<1>3. /\ linked \in Seq(Chunk) /\ Len(linked) = Len(chunks)
      /\ \A k \in 1..Len(chunks) :
           /\ linked[k].at = chunks[k].at
           /\ linked[k].len = chunks[k].len
           /\ linked[k].acked = chunks[k].acked
           /\ linked[k].next = IF k = response_tail THEN Len(chunks) + 1
                               ELSE chunks[k].next
  BY SMTT(30), <1>2 DEF TypeOK, NULL
<1>4. chunks' = Append(linked, new)
  OBVIOUS
<1> HIDE DEF new, linked
<1>5. /\ chunks' \in Seq(Chunk) /\ Len(chunks') = Len(chunks) + 1
      /\ chunks'[Len(chunks) + 1] = new
      /\ \A k \in 1..Len(chunks) : chunks'[k] = linked[k]
  <2> DEFINE longer == Append(linked, new)
  <2>1. /\ longer \in Seq(Chunk) /\ Len(longer) = Len(linked) + 1
        /\ longer[Len(linked) + 1] = new
        /\ \A k \in 1..Len(linked) : longer[k] = linked[k]
    BY <1>1, <1>3, AppendChunk
  <2> HIDE DEF longer
  <2> QED
    BY <1>3, <1>4, <2>1 DEF longer
<1>6. /\ new.at = response_len /\ new.len = n /\ new.acked = 0
      /\ new.next = NULL
  BY DEF new
<1> QED
  BY <1>3, <1>5, <1>6

\* Acking bytes of the head chunk changes its acked count and no more.
LEMMA AckFacts ==
    ASSUME TypeOK, response_head # NULL, NEW n \in Nat,
           chunks' = [chunks EXCEPT ![response_head].acked = @ + n]
    PROVE  /\ chunks' \in Seq(Chunk)
           /\ Len(chunks') = Len(chunks)
           /\ \A k \in 1..Len(chunks) :
                 /\ chunks'[k].at = chunks[k].at
                 /\ chunks'[k].len = chunks[k].len
                 /\ chunks'[k].next = chunks[k].next
                 /\ chunks'[k].acked = IF k = response_head
                                       THEN chunks[k].acked + n
                                       ELSE chunks[k].acked
<1> DEFINE head == chunks[response_head]
           changed == [head EXCEPT !.acked = @ + n]
<1>1. response_head \in 1..Len(chunks) /\ chunks \in Seq(Chunk)
  BY DEF TypeOK, Ptr, NULL
<1>2. head \in Chunk
  BY <1>1
<1>3. head.acked + n \in Nat
  BY <1>2, ChunkTypes
<1>4. /\ changed \in Chunk /\ changed.at = head.at /\ changed.len = head.len
      /\ changed.next = head.next /\ changed.acked = head.acked + n
  BY <1>2, <1>3, ChunkFields
<1>5. chunks' = [chunks EXCEPT ![response_head] = changed]
  OBVIOUS
<1> HIDE DEF changed
<1>6. /\ [chunks EXCEPT ![response_head] = changed] \in Seq(Chunk)
      /\ Len([chunks EXCEPT ![response_head] = changed]) = Len(chunks)
      /\ \A k \in 1..Len(chunks) :
           [chunks EXCEPT ![response_head] = changed][k] =
              IF k = response_head THEN changed ELSE chunks[k]
  <2> HIDE DEF head
  <2> QED
    BY <1>1, <1>4, ReplaceChunk
<1>7. /\ chunks' \in Seq(Chunk) /\ Len(chunks') = Len(chunks)
      /\ \A k \in 1..Len(chunks) : chunks'[k] = IF k = response_head THEN changed
                                               ELSE chunks[k]
  BY <1>5, <1>6, Zenon
<1> QED
  BY <1>4, <1>7
-----------------------------------------------------------------------------
(***************************************************************************)
(* The control state.                                                      *)
(***************************************************************************)

\* ControlInv is inductive, given the types.
LEMMA ControlStep == TypeOK /\ ControlInv /\ [Next]_vars => ControlInv'
<1> SUFFICES ASSUME TypeOK, ControlInv, [Next]_vars PROVE ControlInv'
  OBVIOUS
<1> USE ResponseAssumption DEF TypeOK, ControlInv, queueVars, flagVars,
        streamVars, sessVars, ngVars, quicVars, workVars, eventVars
<1>1. CASE h3_filter_out_proto
  BY <1>1 DEF h3_filter_out_proto, Running
<1>2. CASE handler_returns
  BY <1>2 DEF handler_returns, Running
<1>3. CASE submit_response_nva
  BY SMTT(30), <1>3 DEF submit_response_nva, AfterSuccess, AfterFailure, cancel_locked,
     Woken, ThenSignal, Refused, WorkerAt, Running, EventHoldsLock
<1>4. CASE response_append_wait
  BY <1>4 DEF response_append_wait, WorkerAt, Running, EventHoldsLock
<1>5. CASE response_append_timeup
  BY <1>5 DEF response_append_timeup, WorkerAt, Running, EventHoldsLock
<1>6. CASE response_append_refused
  BY <1>6 DEF response_append_refused, WorkerAt, Running, EventHoldsLock,
     AfterFailure
<1>7. CASE response_append_nomem
  BY <1>7 DEF response_append_nomem, WorkerAt, Running, EventHoldsLock,
     AfterFailure, cancel_locked, Woken
<1>8. CASE response_append_chunk
  <2>1. wlen > 0 /\ response_buffered < BufferLimit
    BY <1>8 DEF response_append_chunk, WorkerAt, Running
  <2>2. ChunkLen \in Nat \ {0} /\ ChunkLen <= wlen
    BY <2>1, ChunkLenFacts DEF TypeOK
  <2>3. wlen' = wlen - ChunkLen /\ wpc' = AfterSuccess(wlen - ChunkLen)
    BY <1>8 DEF response_append_chunk
  <2>4. wpc' \in {"append", "complete", "handler"} /\ (wpc' = "append" <=> wlen' > 0)
    BY SMTT(30), <2>2, <2>3 DEF AfterSuccess
  <2> QED
    BY <1>8, <2>2, <2>3, <2>4 DEF response_append_chunk, WorkerAt, Running,
       EventHoldsLock
<1>9. CASE h3_stream_response_complete
  BY <1>9 DEF h3_stream_response_complete, WorkerAt, Running, EventHoldsLock
<1>10. CASE wake_event_thread
  BY <1>10 DEF wake_event_thread
<1>11. CASE stream_worker_done
  BY <1>11 DEF stream_worker_done, WorkerAt, Running, EventHoldsLock
<1>12. CASE stream_worker_return
  BY <1>12 DEF stream_worker_return
<1>13. CASE response_append_wait_fails
  BY <1>13 DEF response_append_wait_fails, WorkerAt, Running, EventHoldsLock,
     AfterFailure
<1>14. CASE pass_skipped
  BY <1>14 DEF pass_skipped
<1>15. CASE wait_for_event
  BY <1>15 DEF wait_for_event
<1>16. CASE service_session_pass
  BY <1>16 DEF service_session_pass
<1>17. CASE pass_after_first_flush
  BY <1>17 DEF pass_after_first_flush
<1>18. CASE reap_keep
  BY <1>18 DEF reap_keep
<1>19. CASE h3_session_destroy
  BY <1>19 DEF h3_session_destroy, active_tasks, cancel_locked, Woken
<1>20. CASE drain_ready_streams
  BY <1>20 DEF drain_ready_streams, on_stream_close, cancel_locked, Woken
<1>21. CASE reclaim_stream
  BY <1>21 DEF reclaim_stream, Reclaimable
<1>22. CASE unblock_writable_streams
  BY <1>22 DEF unblock_writable_streams
<1>23. CASE flush_nghttp3
  BY <1>23 DEF flush_nghttp3, CanRead, CanWrite, HasWork
<1>24. CASE read_data_chunk
  BY <1>24 DEF read_data_chunk
<1>25. CASE h3_session_read_data
  BY <1>25 DEF h3_session_read_data
<1>26. CASE write_vec
  BY <1>26 DEF write_vec
<1>27. CASE write_end
  BY <1>27 DEF write_end
<1>28. CASE swallow_vec
  BY <1>28 DEF swallow_vec
<1>29. CASE swallow_end
  BY <1>29 DEF swallow_end
<1>30. CASE response_ack_chunk
  BY <1>30 DEF response_ack_chunk, Woken
<1>31. CASE response_ack_end
  BY <1>31 DEF response_ack_end
<1>32. CASE UNCHANGED vars
  BY <1>32 DEF vars
<1> QED
  BY <1>1, <1>2, <1>3, <1>4, <1>5, <1>6, <1>7, <1>8, <1>9, <1>10, <1>11,
     <1>12, <1>13, <1>14, <1>15, <1>16, <1>17, <1>18, <1>19, <1>20, <1>21,
     <1>22, <1>23, <1>24, <1>25, <1>26, <1>27, <1>28, <1>29, <1>30, <1>31,
     <1>32 DEF Next, HandlerNext, WorkerNext, EventNext, Terminated

\* The steps that change the queue, the vectors or what was written; every
\* other step leaves them as they are.
LEMMA DataSteps ==
    ASSUME TypeOK, ControlInv, [Next]_vars
    PROVE  \/ response_append_chunk \/ h3_session_destroy \/ reclaim_stream
           \/ read_data_chunk \/ write_vec \/ swallow_vec
           \/ response_ack_chunk \/ response_ack_end
           \/ UNCHANGED dataVars /\ (Linked' <=> Linked)
<1> USE DEF TypeOK, ControlInv, dataVars, Linked, queueVars, flagVars,
        streamVars, sessVars, ngVars, quicVars, workVars, eventVars
<1>1. CASE h3_filter_out_proto
  BY <1>1 DEF h3_filter_out_proto
<1>2. CASE handler_returns
  BY <1>2 DEF handler_returns
<1>3. CASE submit_response_nva
  BY <1>3 DEF submit_response_nva
<1>4. CASE response_append_wait
  BY <1>4 DEF response_append_wait
<1>5. CASE response_append_timeup
  BY <1>5 DEF response_append_timeup
<1>6. CASE response_append_refused
  BY <1>6 DEF response_append_refused
<1>7. CASE response_append_nomem
  BY <1>7 DEF response_append_nomem
<1>8. CASE h3_stream_response_complete
  BY <1>8 DEF h3_stream_response_complete
<1>9. CASE wake_event_thread
  BY <1>9 DEF wake_event_thread
<1>10. CASE stream_worker_done
  BY <1>10 DEF stream_worker_done
<1>11. CASE stream_worker_return
  BY <1>11 DEF stream_worker_return
<1>12. CASE response_append_wait_fails
  BY <1>12 DEF response_append_wait_fails
<1>13. CASE pass_skipped
  BY <1>13 DEF pass_skipped
<1>14. CASE wait_for_event
  BY <1>14 DEF wait_for_event
<1>15. CASE service_session_pass
  BY <1>15 DEF service_session_pass
<1>16. CASE pass_after_first_flush
  BY <1>16 DEF pass_after_first_flush
<1>17. CASE reap_keep
  BY <1>17 DEF reap_keep
<1>18. CASE drain_ready_streams
  BY <1>18 DEF drain_ready_streams
<1>19. CASE unblock_writable_streams
  BY <1>19 DEF unblock_writable_streams
<1>20. CASE flush_nghttp3
  BY <1>20 DEF flush_nghttp3
<1>21. CASE h3_session_read_data
  BY <1>21 DEF h3_session_read_data
<1>22. CASE write_end
  BY <1>22 DEF write_end
<1>23. CASE swallow_end
  BY <1>23 DEF swallow_end
<1>24. CASE UNCHANGED vars
  BY <1>24 DEF vars
<1> QED
  BY <1>1, <1>2, <1>3, <1>4, <1>5, <1>6, <1>7, <1>8, <1>9, <1>10, <1>11,
     <1>12, <1>13, <1>14, <1>15, <1>16, <1>17, <1>18, <1>19, <1>20, <1>21,
     <1>22, <1>23, <1>24 DEF Next, HandlerNext, WorkerNext, EventNext,
     Terminated

\* The program counters and the counters keep their types.
LEMMA PcStep == TypeOK /\ ControlInv /\ [Next]_vars => PcType'
<1> SUFFICES ASSUME TypeOK, ControlInv, [Next]_vars PROVE PcType'
  OBVIOUS
<1>0. PcType
  BY TypeParts
<1> USE <1>0, ResponseAssumption DEF PcType, queueVars, flagVars,
        streamVars, sessVars, ngVars, quicVars, workVars, eventVars
<1>1. CASE h3_filter_out_proto
  BY <1>1 DEF h3_filter_out_proto
<1>2. CASE handler_returns
  BY <1>2 DEF handler_returns
<1>3. CASE submit_response_nva
  BY <1>3 DEF submit_response_nva, AfterSuccess, AfterFailure, cancel_locked,
     Woken
<1>4. CASE response_append_wait
  BY <1>4 DEF response_append_wait
<1>5. CASE response_append_timeup
  BY <1>5 DEF response_append_timeup
<1>6. CASE response_append_refused
  BY <1>6 DEF response_append_refused, AfterFailure
<1>7. CASE response_append_nomem
  BY <1>7 DEF response_append_nomem, AfterFailure, cancel_locked, Woken
<1>8. CASE response_append_chunk
  <2>1. wlen > 0 /\ response_buffered < BufferLimit
    BY <1>8 DEF response_append_chunk, WorkerAt, Running, ControlInv
  <2>2. ChunkLen \in Nat /\ ChunkLen <= wlen
    BY <2>1, ChunkLenFacts
  <2>3. wlen' = wlen - ChunkLen /\ wpc' = AfterSuccess(wlen - ChunkLen)
    BY <1>8 DEF response_append_chunk
  <2>4. wpc' \in {"append", "complete", "handler"} /\ wlen' \in Nat
    BY <2>2, <2>3 DEF AfterSuccess
  <2> QED
    BY <1>8, <2>4 DEF response_append_chunk
<1>9. CASE h3_stream_response_complete
  BY <1>9 DEF h3_stream_response_complete
<1>10. CASE wake_event_thread
  BY <1>10 DEF wake_event_thread
<1>11. CASE stream_worker_done
  BY <1>11 DEF stream_worker_done
<1>12. CASE stream_worker_return
  BY <1>12 DEF stream_worker_return
<1>13. CASE response_append_wait_fails
  BY <1>13 DEF response_append_wait_fails, AfterFailure
<1>14. CASE pass_skipped
  BY <1>14 DEF pass_skipped
<1>15. CASE wait_for_event
  BY <1>15 DEF wait_for_event
<1>16. CASE service_session_pass
  BY <1>16 DEF service_session_pass
<1>17. CASE pass_after_first_flush
  BY <1>17 DEF pass_after_first_flush
<1>18. CASE reap_keep
  BY <1>18 DEF reap_keep
<1>19. CASE h3_session_destroy
  BY <1>19 DEF h3_session_destroy, cancel_locked, Woken
<1>20. CASE drain_ready_streams
  BY <1>20 DEF drain_ready_streams, on_stream_close, cancel_locked, Woken
<1>21. CASE reclaim_stream
  BY <1>21 DEF reclaim_stream
<1>22. CASE unblock_writable_streams
  BY <1>22 DEF unblock_writable_streams, ControlInv
<1>23. CASE flush_nghttp3
  BY <1>23 DEF flush_nghttp3, ControlInv
<1>24. CASE read_data_chunk
  BY <1>24 DEF read_data_chunk, VecLeft
<1>25. CASE h3_session_read_data
  BY <1>25 DEF h3_session_read_data
<1>26. CASE write_vec
  BY <1>26 DEF write_vec
<1>27. CASE write_end
  BY <1>27 DEF write_end
<1>28. CASE swallow_vec
  BY <1>28 DEF swallow_vec
<1>29. CASE swallow_end
  BY <1>29 DEF swallow_end
<1>30. CASE response_ack_chunk
  BY <1>30 DEF response_ack_chunk, Woken
<1>31. CASE response_ack_end
  BY <1>31 DEF response_ack_end
<1>32. CASE UNCHANGED vars
  BY <1>32 DEF vars
<1> QED
  BY <1>1, <1>2, <1>3, <1>4, <1>5, <1>6, <1>7, <1>8, <1>9, <1>10, <1>11,
     <1>12, <1>13, <1>14, <1>15, <1>16, <1>17, <1>18, <1>19, <1>20, <1>21,
     <1>22, <1>23, <1>24, <1>25, <1>26, <1>27, <1>28, <1>29, <1>30, <1>31,
     <1>32 DEF Next, HandlerNext, WorkerNext, EventNext, Terminated

\* The flags stay Boolean.
LEMMA FlagStep == TypeOK /\ [Next]_vars => FlagType'
<1> SUFFICES ASSUME FlagType, [Next]_vars PROVE FlagType'
  BY TypeParts
<1> USE DEF FlagType, queueVars, flagVars,
        streamVars, sessVars, ngVars, quicVars, workVars, eventVars
<1>1. CASE h3_filter_out_proto
  <2>1. eos' \in {eos, TRUE}
    BY <1>1 DEF h3_filter_out_proto
  <2>2. eos' \in BOOLEAN
    BY <2>1
  <2> QED
    BY <1>1, <2>2 DEF h3_filter_out_proto
<1>2. CASE handler_returns
  BY <1>2 DEF handler_returns
<1>3. CASE submit_response_nva
  <2>1. /\ response_submitted' \in {response_submitted, TRUE}
        /\ response_complete' \in {response_complete, TRUE}
        /\ response_cancelled' \in {response_cancelled, TRUE}
        /\ sig' \in {sig, TRUE}
    BY <1>3 DEF submit_response_nva, cancel_locked, ThenSignal
  <2>2. /\ response_submitted' \in BOOLEAN
        /\ response_complete' \in BOOLEAN
        /\ response_cancelled' \in BOOLEAN
        /\ sig' \in BOOLEAN
    BY <2>1
  <2> QED
    BY <1>3, <2>2 DEF submit_response_nva
<1>4. CASE response_append_wait
  BY <1>4 DEF response_append_wait
<1>5. CASE response_append_timeup
  BY <1>5 DEF response_append_timeup
<1>6. CASE response_append_refused
  BY <1>6 DEF response_append_refused
<1>7. CASE response_append_nomem
  BY <1>7 DEF response_append_nomem, cancel_locked
<1>8. CASE response_append_chunk
  BY <1>8 DEF response_append_chunk, Resume, ThenSignal
<1>9. CASE h3_stream_response_complete
  BY <1>9 DEF h3_stream_response_complete, Resume, ThenSignal
<1>10. CASE wake_event_thread
  <2>1. /\ sig' \in {sig, FALSE}
        /\ wake' \in {wake, TRUE}
    BY <1>10 DEF wake_event_thread
  <2>2. /\ sig' \in BOOLEAN
        /\ wake' \in BOOLEAN
    BY <2>1
  <2> QED
    BY <1>10, <2>2 DEF wake_event_thread
<1>11. CASE stream_worker_done
  BY <1>11 DEF stream_worker_done
<1>12. CASE stream_worker_return
  BY <1>12 DEF stream_worker_return
<1>13. CASE response_append_wait_fails
  BY <1>13 DEF response_append_wait_fails
<1>14. CASE pass_skipped
  <2>1. wake' \in {wake, FALSE}
    BY <1>14 DEF pass_skipped
  <2>2. wake' \in BOOLEAN
    BY <2>1
  <2> QED
    BY <1>14, <2>2 DEF pass_skipped
<1>15. CASE wait_for_event
  <2>1. wake' \in {wake, FALSE}
    BY <1>15 DEF wait_for_event
  <2>2. wake' \in BOOLEAN
    BY <2>1
  <2> QED
    BY <1>15, <2>2 DEF wait_for_event
<1>16. CASE service_session_pass
  <2>1. aborted' \in {aborted, TRUE}
    BY <1>16 DEF service_session_pass
  <2>2. aborted' \in BOOLEAN
    BY <2>1
  <2> QED
    BY <1>16, <2>2 DEF service_session_pass
<1>17. CASE pass_after_first_flush
  <2>1. aborted' \in {aborted, TRUE}
    BY <1>17 DEF pass_after_first_flush
  <2>2. aborted' \in BOOLEAN
    BY <2>1
  <2> QED
    BY <1>17, <2>2 DEF pass_after_first_flush
<1>18. CASE reap_keep
  BY <1>18 DEF reap_keep
<1>19. CASE h3_session_destroy
  <2>1. /\ response_complete' \in {response_complete, TRUE}
        /\ response_cancelled' \in {response_cancelled, TRUE}
        /\ ng_open' \in {ng_open, FALSE}
    BY <1>19 DEF h3_session_destroy, cancel_locked
  <2>2. /\ response_complete' \in BOOLEAN
        /\ response_cancelled' \in BOOLEAN
        /\ ng_open' \in BOOLEAN
    BY <2>1
  <2> QED
    BY <1>19, <2>2 DEF h3_session_destroy
<1>20. CASE drain_ready_streams
  <2>1. /\ response_complete' \in {response_complete, TRUE}
        /\ response_cancelled' \in {response_cancelled, TRUE}
        /\ done' \in {done, TRUE}
        /\ qstream' \in {qstream, FALSE}
        /\ ng_open' \in {ng_open, FALSE}
        /\ ngh3_dead' \in {ngh3_dead, TRUE}
    BY <1>20 DEF drain_ready_streams, on_stream_close, cancel_locked
  <2>2. /\ response_complete' \in BOOLEAN
        /\ response_cancelled' \in BOOLEAN
        /\ done' \in BOOLEAN
        /\ qstream' \in BOOLEAN
        /\ ng_open' \in BOOLEAN
        /\ ngh3_dead' \in BOOLEAN
    BY <2>1
  <2> QED
    BY <1>20, <2>2 DEF drain_ready_streams
<1>21. CASE reclaim_stream
  <2>1. tracked' \in {tracked, FALSE}
    BY <1>21 DEF reclaim_stream
  <2>2. tracked' \in BOOLEAN
    BY <2>1
  <2> QED
    BY <1>21, <2>2 DEF reclaim_stream
<1>22. CASE unblock_writable_streams
  <2>1. ng_blocked' \in {ng_blocked, FALSE}
    BY <1>22 DEF unblock_writable_streams
  <2>2. ng_blocked' \in BOOLEAN
    BY <2>1
  <2> QED
    BY <1>22, <2>2 DEF unblock_writable_streams
<1>23. CASE flush_nghttp3
  <2>1. ngh3_dead' \in {ngh3_dead, TRUE}
    BY <1>23 DEF flush_nghttp3
  <2>2. ngh3_dead' \in BOOLEAN
    BY <2>1
  <2> QED
    BY <1>23, <2>2 DEF flush_nghttp3
<1>24. CASE read_data_chunk
  BY <1>24 DEF read_data_chunk
<1>25. CASE h3_session_read_data
  BY <1>25 DEF h3_session_read_data
<1>26. CASE write_vec
  <2>1. /\ broken' \in {broken, TRUE}
        /\ ng_blocked' \in {ng_blocked, TRUE}
    BY <1>26 DEF write_vec
  <2>2. fin_sent' = fin_sent \/ fin_sent' = (fin_sent \/ Concludes(FALSE))
    BY <1>26 DEF write_vec
  <2>3. fin_sent' \in BOOLEAN
    BY <2>2 DEF Concludes
  <2>4. /\ broken' \in BOOLEAN
        /\ ng_blocked' \in BOOLEAN
    BY <2>1
  <2> QED
    BY <1>26, <2>4, <2>3 DEF write_vec
<1>27. CASE write_end
  BY <1>27 DEF write_end
<1>28. CASE swallow_vec
  BY <1>28 DEF swallow_vec
<1>29. CASE swallow_end
  BY <1>29 DEF swallow_end
<1>30. CASE response_ack_chunk
  BY <1>30 DEF response_ack_chunk
<1>31. CASE response_ack_end
  BY <1>31 DEF response_ack_end
<1>32. CASE UNCHANGED vars
  BY <1>32 DEF vars
<1> QED
  BY <1>1, <1>2, <1>3, <1>4, <1>5, <1>6, <1>7, <1>8, <1>9, <1>10, <1>11,
     <1>12, <1>13, <1>14, <1>15, <1>16, <1>17, <1>18, <1>19, <1>20, <1>21,
     <1>22, <1>23, <1>24, <1>25, <1>26, <1>27, <1>28, <1>29, <1>30, <1>31,
     <1>32 DEF Next, HandlerNext, WorkerNext, EventNext, Terminated

-----------------------------------------------------------------------------
(***************************************************************************)
(* The queue, one lemma per step that changes it.                          *)
(***************************************************************************)

\* The inductive invariant of the queue and the vectors lent from it.
ResponseInv == /\ TypeOK /\ ControlInv /\ QueueInv /\ VectorInv
               /\ BufferAccounted

\* h3_stream_response_append links a chunk in.
LEMMA AppendStep ==
    ASSUME ResponseInv, response_append_chunk
    PROVE  QueueType' /\ QueueInv' /\ VectorInv' /\ BufferAccounted'
<1> DEFINE n == ChunkLen
           N == Len(chunks)
<1>1. /\ wpc = "append" /\ wlen > 0 /\ response_buffered < BufferLimit
      /\ chunks \in Seq(Chunk) /\ N \in Nat
      /\ response_len \in Nat /\ response_buffered \in Nat
  BY SMTT(30)
  DEF ResponseInv, TypeOK, ControlInv, response_append_chunk, WorkerAt,
         Running
<1>2. /\ n \in Nat \ {0} /\ n <= wlen /\ n <= BufferLimit - response_buffered
  BY <1>1, ChunkLenFacts DEF ResponseInv
<1>3. /\ live' = live \cup {N + 1}
      /\ response_head' = IF response_tail = NULL THEN N + 1 ELSE response_head
      /\ response_tail' = N + 1
      /\ response_submit_chunk' = IF response_submit_chunk = NULL THEN N + 1
                                  ELSE response_submit_chunk
      /\ response_buffered' = response_buffered + n
      /\ response_len' = response_len + n
      /\ UNCHANGED <<ng_outq, ng_off, accepted, wire, broken, tracked, epc>>
  BY DEF response_append_chunk, SubmitFrom, streamVars, quicVars, eventVars
<1> HIDE DEF n
<1>4. /\ chunks' \in Seq(Chunk) /\ Len(chunks') = N + 1
      /\ chunks'[N + 1].at = response_len /\ chunks'[N + 1].len = n
      /\ chunks'[N + 1].acked = 0 /\ chunks'[N + 1].next = NULL
      /\ \A k \in 1..N :
            /\ chunks'[k].at = chunks[k].at
            /\ chunks'[k].len = chunks[k].len
            /\ chunks'[k].acked = chunks[k].acked
            /\ chunks'[k].next = IF k = response_tail THEN N + 1
                                 ELSE chunks[k].next
  <2>1. chunks' = Append(IF response_tail = NULL THEN chunks
                         ELSE [chunks EXCEPT ![response_tail].next = N + 1],
                         [at |-> response_len, len |-> n, acked |-> 0,
                          next |-> NULL])
    BY DEF response_append_chunk, n
  <2>2. TypeOK
    BY DEF ResponseInv
  <2> QED
    BY <1>2, <2>1, <2>2, AppendFacts
<1>5. \A k \in 1..N : /\ chunks[k].at \in Nat /\ chunks[k].len \in Nat
                      /\ chunks[k].acked \in Nat
  BY <1>1, ChunkTypes
<1> HIDE DEF N
<1>6. /\ live \subseteq 1..N /\ response_head \in 0..N /\ response_tail \in 0..N
      /\ response_submit_chunk \in 0..N
      /\ ng_outq \in Seq(1..N)
  BY DEF ResponseInv, TypeOK, Ptr, N
<1>7. QueueType'
  <2>1. /\ live' \subseteq 1..Len(chunks') /\ response_head' \in Ptr'
        /\ response_tail' \in Ptr' /\ response_submit_chunk' \in Ptr'
    <3>1. N \in Nat /\ Len(chunks') = N + 1
      BY <1>1, <1>4
    <3>2. live' \subseteq 1..(N + 1)
      BY <1>3, <1>6, <3>1
    <3>3. /\ response_head' \in 0..(N + 1) /\ response_tail' \in 0..(N + 1)
          /\ response_submit_chunk' \in 0..(N + 1)
      BY <1>3, <1>6, <3>1
    <3> QED
      BY <3>1, <3>2, <3>3 DEF Ptr
  <2>2. ng_outq' \in Seq(1..Len(chunks'))
    BY <1>1, <1>3, <1>4, <1>6
  <2>3. response_buffered' \in Nat /\ response_len' \in Nat
    BY <1>1, <1>2, <1>3
  <2> QED
    BY <1>3, <1>4, <2>1, <2>2, <2>3 DEF ResponseInv, TypeOK, QueueType
<1>8. /\ N \in Nat /\ Len(chunks') = N + 1 /\ Linked /\ Linked'
      /\ response_head = 0 => /\ live = {} /\ response_tail = 0
                              /\ response_submit_chunk = 0
      /\ response_head # 0 => /\ response_tail = N /\ live = response_head..N
                              /\ response_submit_chunk \in live \cup {0}
  BY <1>1, <1>3, <1>4 DEF ResponseInv, ControlInv, QueueInv, Linked, N, NULL
<1>9. \A k \in live :
         /\ chunks[k].next = IF k = N THEN 0 ELSE k + 1
         /\ chunks[k].at + chunks[k].len =
                IF k = N THEN response_len ELSE chunks[k + 1].at
         /\ chunks[k].at + chunks[k].len <= response_len
         /\ chunks[k].acked < chunks[k].len
         /\ k # response_head => chunks[k].acked = 0
  BY DEF ResponseInv, QueueInv, N, NULL
<1>10. QueueInv'
  <2>1. /\ response_head' # 0 /\ response_tail' = N + 1
        /\ live' = response_head'..(N + 1)
        /\ response_submit_chunk' \in live' \cup {0}
        /\ response_head' \in {response_head, N + 1}
    <3>1. CASE response_head = 0
      BY <3>1, <1>3, <1>8 DEF NULL
    <3>2. CASE response_head # 0
      BY <3>2, <1>3, <1>6, <1>8 DEF NULL
    <3> QED
      BY <3>1, <3>2
  <2>2. ASSUME NEW k \in live'
        PROVE  /\ chunks'[k].next = IF k = N + 1 THEN 0 ELSE k + 1
               /\ chunks'[k].at + chunks'[k].len =
                      IF k = N + 1 THEN response_len' ELSE chunks'[k + 1].at
               /\ chunks'[k].at + chunks'[k].len <= response_len'
               /\ chunks'[k].acked < chunks'[k].len
               /\ k # response_head' => chunks'[k].acked = 0
    <3>1. CASE k = N + 1
      BY SMTT(30), <3>1, <1>1, <1>2, <1>3, <1>4 DEF NULL
    <3>2. CASE k \in live
      <4>1. /\ k \in 1..N /\ response_head # 0 /\ response_tail = N
            /\ response_head' = response_head /\ N \in Nat
        BY <3>2, <1>3, <1>6, <1>8 DEF NULL
      <4>2. /\ chunks'[k].at = chunks[k].at /\ chunks'[k].len = chunks[k].len
            /\ chunks'[k].acked = chunks[k].acked
            /\ chunks'[k].next = IF k = N THEN N + 1 ELSE chunks[k].next
        BY <1>4, <4>1
      <4>3. k # N => chunks'[k + 1].at = chunks[k + 1].at
        BY <1>4, <4>1
      <4>4. /\ response_len' = response_len + n /\ response_len \in Nat
            /\ chunks'[N + 1].at = response_len
            /\ chunks[k].at \in Nat /\ chunks[k].len \in Nat
            /\ chunks[k].acked \in Nat
        BY <1>1, <1>3, <1>4, <1>5, <4>1
      <4> QED
        BY SMTT(30), <1>2, <1>9, <3>2, <4>1, <4>2, <4>3, <4>4
    <3> QED
      BY <1>3, <3>1, <3>2
  <2> QED
    BY <1>8, <2>1, <2>2 DEF QueueInv, NULL
<1>11. AckPos' = AckPos /\ AckPos \in Int
  <2>1. CASE response_head = 0
    BY SMTT(30), <2>1, <1>1, <1>3, <1>4, <1>8 DEF AckPos, NULL
  <2>2. CASE response_head # 0
    <3>1. response_head \in 1..N /\ response_head' = response_head
      BY <2>2, <1>3, <1>6, <1>8 DEF NULL
    <3> QED
      BY SMTT(30), <2>2, <3>1, <1>4, <1>5 DEF AckPos, NULL
  <2> QED
    BY <2>1, <2>2
<1>12. BufferAccounted'
  <2>1. response_buffered = response_len - AckPos
    BY DEF ResponseInv, BufferAccounted
  <2>2. BufferLimit \in Nat
    BY ResponseAssumption
  <2> QED
    BY <1>1, <1>2, <1>3, <1>11, <2>1, <2>2 DEF BufferAccounted
<1>13. VectorInv'
  <2>1. LastLent' = LastLent /\ LastLent \in Int
    BY <1>3, <1>6, <1>8 DEF LastLent, N, NULL
  <2>2. ng_outq # <<>> => ng_outq[1] \in 1..N
    BY <1>6, NonEmptySeq
  <2>3. LentPos' = LentPos
    BY <1>3, <1>4, <1>6, <1>8 DEF LentPos, NULL
  <2>4. WritePos' = WritePos
    BY <1>3, <1>4, <2>2, <2>3 DEF WritePos
  <2>5. response_head' + Len(ng_outq) <= LastLent + 1
    BY <1>3, <1>6, <1>8 DEF ResponseInv, VectorInv, LastLent, N, NULL
  <2>6. /\ ng_outq # <<>> => chunks'[ng_outq[1]].len = chunks[ng_outq[1]].len
        /\ response_head' # 0
    BY SMTT(30), <1>3, <1>4, <1>6, <1>8, <2>2 DEF NULL
  <2> QED
    BY <1>3, <1>8, <1>11, <2>1, <2>4, <2>5, <2>6
       DEF ResponseInv, VectorInv, NULL
<1> QED
  BY <1>7, <1>10, <1>12, <1>13

\* h3_stream_response_cleanup_locked empties the queue of a stream that has
\* lost its links: the stream is reclaimed, or the session destroyed.
LEMMA CleanupFacts ==
    ASSUME ResponseInv, cleanup_locked, ~Linked'
    PROVE  /\ QueueInv' /\ VectorInv' /\ BufferAccounted'
           /\ (UNCHANGED <<ng_outq, ng_off, wire, accepted>> => QueueType')
<1>1. QueueInv'
  BY DEF cleanup_locked, QueueInv, NULL
<1>2. VectorInv'
  BY DEF VectorInv
<1>3. BufferAccounted'
  BY ResponseAssumption DEF ResponseInv, TypeOK, cleanup_locked,
     BufferAccounted, AckPos, NULL
<1>4. UNCHANGED <<ng_outq, ng_off, wire, accepted>> => QueueType'
  BY DEF ResponseInv, TypeOK, QueueType, Ptr, cleanup_locked, NULL
<1> QED
  BY <1>1, <1>2, <1>3, <1>4

\* A step that leaves the queue, the vectors and the wire alone keeps what
\* is said of them.
LEMMA QueueUnchanged ==
    ASSUME ResponseInv, UNCHANGED dataVars, Linked' <=> Linked
    PROVE  QueueType' /\ QueueInv' /\ VectorInv' /\ BufferAccounted'
<1>1. QueueInv'
  BY DEF ResponseInv, QueueInv, dataVars, queueVars
<1>2. AckPos' = AckPos /\ WritePos' = WritePos /\ LastLent' = LastLent
  BY DEF AckPos, WritePos, LentPos, LastLent, dataVars, queueVars
<1>3. VectorInv'
  BY <1>2 DEF ResponseInv, VectorInv, dataVars, queueVars
<1>4. BufferAccounted'
  BY <1>2 DEF ResponseInv, BufferAccounted, dataVars, queueVars
<1>5. QueueType'
  BY DEF ResponseInv, TypeOK, QueueType, Ptr, dataVars, queueVars
<1> QED
  BY <1>1, <1>3, <1>4, <1>5

\* h3_session_destroy.
LEMMA DestroyStep ==
    ASSUME ResponseInv, h3_session_destroy
    PROVE  QueueType' /\ QueueInv' /\ VectorInv' /\ BufferAccounted'
<1>1. UNCHANGED <<ng_outq, ng_off, wire, accepted, broken>> /\ ~Linked'
  BY DEF h3_session_destroy, Linked, quicVars
<1>2. CASE tracked
  BY <1>1, <1>2, CleanupFacts DEF h3_session_destroy
<1>3. CASE ~tracked
  BY <1>1, <1>3, QueueUnchanged DEF h3_session_destroy, Linked, dataVars
<1> QED
  BY <1>2, <1>3 DEF ResponseInv, TypeOK

\* The reclaim loop of drain_ready_streams.
LEMMA ReclaimStep ==
    ASSUME ResponseInv, reclaim_stream
    PROVE  QueueType' /\ QueueInv' /\ VectorInv' /\ BufferAccounted'
<1>1. UNCHANGED <<ng_outq, ng_off, wire, accepted, broken>>
  BY DEF reclaim_stream, ngVars, quicVars
<1>2. CASE Reclaimable
  BY <1>1, <1>2, CleanupFacts DEF reclaim_stream, Linked
<1>3. CASE ~Reclaimable
  BY <1>1, <1>3, QueueUnchanged DEF reclaim_stream, Linked, dataVars
<1> QED
  BY <1>2, <1>3

\* ResponseInv as the lemmas below use it.
LEMMA LinkedFacts ==
    ASSUME ResponseInv, Linked
    PROVE  /\ Len(chunks) \in Nat /\ response_len \in Nat /\ ng_off \in Nat
           /\ accepted \in Nat /\ ng_outq \in Seq(1..Len(chunks))
           /\ response_head \in 0..Len(chunks)
           /\ response_submit_chunk \in 0..Len(chunks)
           /\ response_head = 0 => /\ live = {} /\ response_tail = 0
                                   /\ response_submit_chunk = 0
                                   /\ ng_outq = <<>>
           /\ response_head # 0 => /\ response_tail = Len(chunks)
                                   /\ live = response_head..Len(chunks)
                                   /\ response_submit_chunk \in live \cup {0}
           /\ LastLent \in Int
           /\ response_head # 0 =>
                  response_head + Len(ng_outq) <= LastLent + 1
           /\ AckPos + accepted = WritePos
<1>1. /\ Len(chunks) \in Nat /\ response_len \in Nat /\ ng_off \in Nat
      /\ accepted \in Nat /\ ng_outq \in Seq(1..Len(chunks))
      /\ response_head \in 0..Len(chunks)
      /\ response_submit_chunk \in 0..Len(chunks)
  BY DEF ResponseInv, TypeOK, Ptr, NULL
<1>2. QueueInv /\ VectorInv
  BY DEF ResponseInv
<1>3. response_head = 0 => /\ live = {} /\ response_tail = 0
                           /\ response_submit_chunk = 0
                           /\ ng_outq = <<>>
  BY <1>1, <1>2, SMTT(30) DEF QueueInv, VectorInv, NULL
<1>4. response_head # 0 => /\ response_tail = Len(chunks)
                           /\ live = response_head..Len(chunks)
                           /\ response_submit_chunk \in live \cup {0}
  BY <1>1, <1>2, SMTT(30) DEF QueueInv, NULL
<1>5. LastLent \in Int
  BY <1>1 DEF LastLent, NULL
<1>6. response_head # 0 => response_head + Len(ng_outq) <= LastLent + 1
  BY <1>1, <1>2, <1>5, SMTT(30) DEF VectorInv, NULL
<1>7. AckPos + accepted = WritePos
  BY <1>1, <1>2, SMTT(30) DEF VectorInv, NULL
<1> QED
  BY <1>1, <1>3, <1>4, <1>5, <1>6, <1>7

\* ResponseInv for one live chunk.
LEMMA ChunkFacts ==
    ASSUME ResponseInv, NEW k \in live
    PROVE  /\ k \in 1..Len(chunks)
           /\ chunks[k].at \in Nat /\ chunks[k].len \in Nat \ {0}
           /\ chunks[k].acked \in Nat
           /\ chunks[k].next = IF k = Len(chunks) THEN 0 ELSE k + 1
           /\ chunks[k].at + chunks[k].len =
                  IF k = Len(chunks) THEN response_len ELSE chunks[k + 1].at
           /\ chunks[k].at + chunks[k].len <= response_len
           /\ chunks[k].acked < chunks[k].len
           /\ k # response_head => chunks[k].acked = 0
<1>1. k \in 1..Len(chunks) /\ chunks[k] \in Chunk
  BY DEF ResponseInv, TypeOK
<1>2. /\ chunks[k].at \in Nat /\ chunks[k].len \in Nat \ {0}
      /\ chunks[k].acked \in Nat
  BY <1>1, ChunkTypes
<1> QED
  BY <1>1, <1>2 DEF ResponseInv, QueueInv, NULL

\* The first vector is a live chunk of which a byte is left to write.
LEMMA FirstVec ==
    ASSUME ResponseInv, Linked, ng_outq # <<>>
    PROVE  /\ Len(ng_outq) \in Nat \ {0}
           /\ ng_outq[1] \in live /\ response_head # 0
           /\ ng_outq[1] = LastLent - Len(ng_outq) + 1
           /\ Head(ng_outq) = ng_outq[1]
           /\ WritePos = chunks[ng_outq[1]].at + ng_off
           /\ VecLen = chunks[ng_outq[1]].len - ng_off
           /\ VecLen \in Nat \ {0}
<1>1. /\ Len(ng_outq) \in Nat \ {0} /\ Head(ng_outq) = ng_outq[1]
      /\ ng_outq[1] \in 1..Len(chunks)
  BY LinkedFacts, NonEmptySeq
<1>2. /\ ng_outq[1] = LastLent - Len(ng_outq) + 1
      /\ ng_off < chunks[ng_outq[1]].len /\ response_head # 0
  BY <1>1 DEF ResponseInv, VectorInv, NULL
<1>3. ng_outq[1] \in live
  BY <1>1, <1>2, LinkedFacts
<1>4. chunks[ng_outq[1]].len \in Nat /\ ng_off \in Nat
  BY <1>3, ChunkFacts, LinkedFacts
<1>5. VecLen = chunks[ng_outq[1]].len - ng_off
  BY <1>1 DEF VecLen
<1> QED
  BY <1>1, <1>2, <1>3, <1>4, <1>5 DEF WritePos

\* The first byte not acked is a position in the body.
LEMMA AckPosType == ASSUME ResponseInv PROVE AckPos \in Nat
<1>1. CASE response_head = 0
  BY <1>1 DEF AckPos, NULL, ResponseInv, TypeOK
<1>2. CASE response_head # 0
  <2>1. response_head \in live
    BY SMTT(30), <1>2 DEF ResponseInv, QueueInv, TypeOK, Ptr, NULL
  <2> QED
    BY SMTT(30), <1>2, <2>1, ChunkFacts DEF AckPos, NULL
<1> QED
  BY <1>1, <1>2

\* read_data lends a chunk to nghttp3.
LEMMA ReadStep ==
    ASSUME ResponseInv, read_data_chunk
    PROVE  QueueType' /\ QueueInv' /\ VectorInv' /\ BufferAccounted'
<1> DEFINE s == response_submit_chunk
           N == Len(chunks)
           q == ng_outq
<1>1. /\ Linked /\ Linked' /\ s # 0
      /\ ng_outq' = Append(ng_outq, s)
      /\ response_submit_chunk' = chunks[s].next
      /\ UNCHANGED <<chunks, live, response_head, response_tail,
                     response_buffered, response_len, ng_off, accepted, wire,
                     broken>>
  BY DEF read_data_chunk, ResponseInv, ControlInv, Linked, NULL, quicVars,
         streamVars
<1>2. /\ s \in live /\ s \in 1..N /\ N \in Nat /\ response_head # 0
      /\ response_head \in 1..N
  BY <1>1, LinkedFacts
<1>3. /\ chunks[s].next = IF s = N THEN 0 ELSE s + 1
      /\ chunks[s].at \in Nat /\ chunks[s].len \in Nat \ {0}
  BY <1>2, ChunkFacts
<1>4. /\ q \in Seq(1..N) /\ Len(q) \in Nat
      /\ ng_outq' \in Seq(1..N) /\ Len(ng_outq') = Len(q) + 1
      /\ ng_outq'[Len(q) + 1] = s
      /\ \A k \in 1..Len(q) : ng_outq'[k] = q[k]
      /\ ng_outq' # <<>>
  <2> DEFINE S == 1..N
  <2>1. q \in Seq(S) /\ Len(q) \in Nat
    BY <1>1, LinkedFacts
  <2>2. s \in S
    BY <1>2
  <2> HIDE DEF q, S, s
  <2>3. /\ Append(q, s) \in Seq(S) /\ Append(q, s) # <<>>
        /\ Len(Append(q, s)) = Len(q) + 1
        /\ Append(q, s)[Len(q) + 1] = s
        /\ \A k \in 1..Len(q) : Append(q, s)[k] = q[k]
    BY <2>1, <2>2, AppendProperties
  <2> QED
    BY <1>1, <2>1, <2>3 DEF q, S
<1>5. QueueType'
  BY SMTT(30), <1>1, <1>2, <1>3, <1>4 DEF ResponseInv, TypeOK, QueueType, Ptr
<1>6. QueueInv'
  <2>1. response_submit_chunk' \in live \cup {0}
    BY <1>1, <1>2, <1>3, LinkedFacts
  <2> QED
    BY <1>1, <1>2, <2>1 DEF ResponseInv, QueueInv, NULL
<1>7. AckPos' = AckPos
  BY <1>1 DEF AckPos
<1>8. BufferAccounted'
  BY <1>1, <1>7 DEF ResponseInv, BufferAccounted
<1>9. LastLent = s - 1 /\ LastLent' = s
  BY <1>1, <1>2, <1>3 DEF LastLent, NULL
<1>10. \A k \in 1..Len(ng_outq') : ng_outq'[k] = s - Len(ng_outq') + k
  <2>1. \A k \in 1..Len(q) : q[k] = s - 1 - Len(q) + k
    BY <1>1, <1>9 DEF ResponseInv, VectorInv
  <2>2. ASSUME NEW k \in 1..(Len(q) + 1)
        PROVE  ng_outq'[k] = s - (Len(q) + 1) + k
    <3>1. CASE k \in 1..Len(q)
      BY <1>2, <1>4, <2>1, <3>1
    <3>2. CASE k = Len(q) + 1
      BY <1>2, <1>4, <3>2
    <3> QED
      BY <1>4, <3>1, <3>2
  <2> QED
    BY <1>4, <2>2
<1>11. response_head + Len(ng_outq') <= s + 1
  BY <1>2, <1>4, <1>9, LinkedFacts, <1>1
<1>12. WritePos' = WritePos /\ ng_off' < chunks'[ng_outq'[1]].len
  <2>1. CASE q = <<>>
    <3>1. ng_off = 0 /\ ng_outq'[1] = s
      BY SMTT(30), <1>1, <1>4, <2>1 DEF ResponseInv, VectorInv
    <3> QED
      BY SMTT(30), <1>1, <1>3, <1>4, <2>1, <3>1 DEF WritePos, LentPos, NULL
  <2>2. CASE q # <<>>
    <3>1. ng_outq'[1] = q[1]
      BY <1>4, <2>2, NonEmptySeq
    <3> QED
      BY <1>1, <1>4, <2>2, <3>1 DEF WritePos, ResponseInv, VectorInv
  <2> QED
    BY <2>1, <2>2
<1>13. VectorInv'
  BY <1>1, <1>2, <1>4, <1>7, <1>9, <1>10, <1>11, <1>12
     DEF ResponseInv, VectorInv, NULL
<1> QED
  BY <1>5, <1>6, <1>8, <1>13

\* The first vector is written or swallowed to its end.
LEMMA PopFacts ==
    ASSUME ResponseInv, Linked, ng_outq # <<>>, PopVec, UNCHANGED queueVars
    PROVE  /\ ng_outq' \in Seq(1..Len(chunks')) /\ ng_off' \in Nat
           /\ ng_outq' # <<>> => response_head' # 0
           /\ response_head' # 0 =>
                  response_head' + Len(ng_outq') <= LastLent' + 1
           /\ \A k \in 1..Len(ng_outq') :
                  ng_outq'[k] = LastLent' - Len(ng_outq') + k
           /\ IF ng_outq' = <<>> THEN ng_off' = 0
              ELSE ng_off' < chunks'[ng_outq'[1]].len
           /\ WritePos' = WritePos + VecLen
<1> DEFINE q == ng_outq
           N == Len(chunks)
           f == ng_outq[1]
<1>1. /\ Len(q) \in Nat \ {0} /\ f \in live /\ f = LastLent - Len(q) + 1
      /\ response_head # 0 /\ WritePos = chunks[f].at + ng_off
      /\ VecLen = chunks[f].len - ng_off /\ VecLen \in Nat \ {0}
  BY FirstVec
<1>2. /\ UNCHANGED <<chunks, live, response_head, response_submit_chunk,
                     response_len>>
      /\ ng_outq' = Tail(q) /\ ng_off' = 0
  BY DEF PopVec, queueVars
<1>3. /\ ng_outq' \in Seq(1..N) /\ Len(ng_outq') = Len(q) - 1
      /\ \A k \in 1..(Len(q) - 1) : ng_outq'[k] = q[k + 1]
      /\ ng_outq' = <<>> <=> Len(q) = 1
  <2> DEFINE S == 1..N
  <2>1. q \in Seq(S)
    BY LinkedFacts
  <2> HIDE DEF S, q
  <2>2. /\ Tail(q) \in Seq(S) /\ Len(Tail(q)) = Len(q) - 1
        /\ \A k \in 1..(Len(q) - 1) : Tail(q)[k] = q[k + 1]
        /\ Tail(q) = <<>> <=> Len(q) = 1
    BY <2>1, TailFacts DEF q
  <2> QED
    BY <1>2, <2>2 DEF S
<1>4. LastLent' = LastLent /\ LastLent \in Int /\ LastLent <= N
  BY <1>2, LinkedFacts DEF LastLent, NULL
<1>10. /\ response_head \in 1..N /\ live = response_head..N
       /\ response_head + Len(q) <= LastLent + 1
  BY <1>1, LinkedFacts
<1>11. response_head' # 0 /\ response_head' + Len(ng_outq') <= LastLent' + 1
  BY <1>1, <1>2, <1>3, <1>4, <1>10
<1>5. \A k \in 1..Len(q) : q[k] = LastLent - Len(q) + k
  BY DEF ResponseInv, VectorInv
<1>6. \A k \in 1..Len(ng_outq') : ng_outq'[k] = LastLent' - Len(ng_outq') + k
  <2>1. ASSUME NEW k \in 1..(Len(q) - 1)
        PROVE  ng_outq'[k] = LastLent - (Len(q) - 1) + k
    <3>1. k + 1 \in 1..Len(q) /\ Len(q) \in Nat
      BY <1>1
    <3>2. q[k + 1] = LastLent - Len(q) + (k + 1)
      BY <1>5, <3>1
    <3> QED
      BY <1>3, <1>4, <3>1, <3>2
  <2> QED
    BY <1>3, <1>4, <2>1
<1>7. /\ N \in Nat /\ f \in 1..N /\ chunks[f].at \in Nat /\ ng_off \in Nat
      /\ chunks[f].len \in Nat \ {0}
      /\ chunks[f].at + chunks[f].len =
             IF f = N THEN response_len ELSE chunks[f + 1].at
  BY <1>1, ChunkFacts, LinkedFacts
<1>8. CASE Len(q) = 1
  <2>1. ng_outq' = <<>> /\ f = LastLent /\ Len(ng_outq') = 0
    BY <1>1, <1>3, <1>4, <1>8
  <2>2. LentPos' = chunks[f].at + chunks[f].len
    <3>1. CASE response_submit_chunk = 0
      BY <1>2, <1>7, <2>1, <3>1 DEF LentPos, LastLent, NULL
    <3>2. CASE response_submit_chunk # 0
      <4>1. f + 1 = response_submit_chunk /\ response_submit_chunk \in 1..N
        BY <1>7, <2>1, <3>2, LinkedFacts DEF LastLent, NULL
      <4> QED
        BY <1>2, <1>7, <3>2, <4>1 DEF LentPos, NULL
    <3> QED
      BY <3>1, <3>2
  <2>3. WritePos' = WritePos + VecLen
    BY SMTT(30), <1>1, <1>7, <2>1, <2>2 DEF WritePos
  <2> QED
    BY <1>2, <1>3, <1>6, <1>11, <2>1, <2>3
<1>9. CASE Len(q) # 1
  <2>1. /\ ng_outq' # <<>> /\ 1 \in 1..(Len(q) - 1) /\ Len(q) \in Nat
        /\ Len(q) >= 2
    BY <1>1, <1>3, <1>9
  <2>2. ng_outq'[1] = f + 1 /\ f + 1 <= LastLent
    BY SMTT(30), <1>1, <1>3, <1>4, <1>5, <2>1
  <2>3. f + 1 \in live /\ f # N
    <3>1. f = LastLent - Len(q) + 1 /\ Len(q) \in Nat
      BY <1>1
    <3>2. /\ response_head \in Nat /\ N \in Nat /\ f \in Nat
          /\ live = response_head..N
      BY <1>7, <1>10
    <3> HIDE DEF f, N, q
    <3>3. f >= response_head /\ f + 1 <= N
      BY <1>4, <1>10, <2>2, <3>1, <3>2
    <3> QED
      BY <3>2, <3>3
  <2>4. chunks[f + 1].at = chunks[f].at + chunks[f].len
    BY <1>7, <2>3
  <2>5. chunks[f + 1].len \in Nat \ {0} /\ chunks[f + 1].at \in Nat
    BY <2>3, ChunkFacts
  <2>6. WritePos' = WritePos + VecLen
    <3>1. WritePos' = chunks[f + 1].at + 0
      BY <1>2, <2>1, <2>2 DEF WritePos
    <3>2. /\ WritePos = chunks[f].at + ng_off
          /\ VecLen = chunks[f].len - ng_off
      BY <1>1
    <3> HIDE DEF f, N
    <3> QED
      BY SMTT(30), <1>7, <2>4, <2>5, <3>1, <3>2
  <2> QED
    BY SMTT(30), <1>1, <1>2, <1>3, <1>6, <1>11, <2>1, <2>2, <2>5, <2>6
<1> QED
  BY <1>8, <1>9
=============================================================================
