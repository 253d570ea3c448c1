-------------------------- MODULE H3SessionProofs --------------------------
(***************************************************************************)
(* Proofs about H3Session for any finite set of streams and any number of  *)
(* failures.  SessionInv is the inductive invariant.  Its parts:           *)
(*   ListInv    what the event thread's lists may hold,                    *)
(*   ObjectInv  that a stream nghttp3 may call back for is tracked,        *)
(*   FreeInv    the ownership of the QUIC stream objects,                  *)
(*   TaskInv    that a task's stream is dispatched, complete and tracked,  *)
(*   CountInv, BlockInv  the two counters.                                 *)
(* Each is shown to be preserved by a lemma of its own, an action a step.  *)
(***************************************************************************)
EXTENDS H3Session, FiniteSetTheorems, TLAPS

\* The positions of the event thread at which it works on the stream cur.
AtStream == {"read", "finished", "close", "check", "count", "push"}

\* The lists of the event thread: tracked streams only, and completed ones
\* that no worker was given.
ListInv ==
    /\ todo \subseteq streams /\ completed \subseteq streams
    /\ epc \notin {"drain", "read", "finished", "close", "check"} => todo = {}
    /\ IF epc \in AtStream THEN cur \in streams ELSE cur = None
    /\ completed \subseteq (headers_complete \cap body_complete) \ dispatched
    /\ epc \in {"read", "finished"} => cur \in qstream
    /\ epc = "read" => cur \notin body_complete

\* Who holds a stream: what nghttp3 may still call back for has a QUIC object
\* and is tracked.
ObjectInv ==
    /\ streams \cap reclaimed = {} /\ qstream \subseteq streams
    /\ ng_open \subseteq qstream \cup response_cancelled
    /\ ng_open \cap response_submitted \subseteq qstream
    /\ response_submitted \subseteq body_complete

\* A QUIC object that waits to be freed belonged to a stream that was tracked.
FreeInv ==
    /\ \A k \in 1..Len(pending_free) : pending_free[k] \in streams \cup reclaimed
    /\ FreedOnce

\* A task belongs to a dispatched stream with a complete request, which stays
\* tracked until the task has set worker_done.
TaskOf(s) ==
    /\ wpc[s] # "idle" =>
          s \in dispatched \cap headers_complete \cap body_complete
    /\ wpc[s] \in {"queued", "run", "exit"} => s \in streams
    /\ s \in worker_done => wpc[s] \in {"dec", "gone"}
    /\ handled[s] = IF wpc[s] \in {"idle", "queued"} THEN 0 ELSE 1

\* So it is with every stream, and the one to be pushed has no task yet.
TaskInv ==
    /\ epc \in {"count", "push"} =>
          /\ wpc[cur] = "idle"
          /\ cur \in dispatched \cap headers_complete \cap body_complete
    /\ \A s \in Streams : TaskOf(s)

\* The count of tasks is exact, and zero once the session is gone.
CountInv == TasksCounted /\ (epc = "gone" => active_tasks = 0)

\* The count of blocked streams is exact, and only a stream with a response is
\* blocked.
BlockInv == BlockedCounted /\ ng_blocked \subseteq response_submitted

\* The inductive invariant.
SessionInv == /\ TypeOK /\ ListInv /\ ObjectInv /\ FreeInv /\ TaskInv
              /\ CountInv /\ BlockInv

\* Sets of streams have a cardinality.
LEMMA StreamSets ==
    \A S \in SUBSET Streams : IsFiniteSet(S) /\ Cardinality(S) \in Nat
BY SessionAssumption, FS_Subset, FS_CardinalityType

\* A task that is on its way keeps the count above zero.
LEMMA CountPositive ==
    ASSUME TypeOK, TasksCounted
    PROVE  /\ leaving > 0 \/ epc = "push" => active_tasks > 0
           /\ \A s \in Busy : active_tasks > 0
<1>1. IsFiniteSet(Busy) /\ Cardinality(Busy) \in Nat
  BY StreamSets DEF Busy
<1>2. ASSUME NEW s \in Busy PROVE Cardinality(Busy) # 0
  BY <1>1, <1>2, FS_EmptySet
<1> QED
  BY <1>1, <1>2 DEF TypeOK, TasksCounted

\* What pending_free holds of a stream is counted.
LEMMA QueuedType == ASSUME TypeOK PROVE \A s \in Streams : Queued(s) \in Nat
<1> TAKE s \in Streams
<1>1. IsFiniteSet(1..Len(pending_free))
  BY FS_Interval DEF TypeOK
<1>2. {k \in 1..Len(pending_free) : pending_free[k] = s}
          \in SUBSET (1..Len(pending_free))
  OBVIOUS
<1> QED
  BY <1>1, <1>2, FS_Subset, FS_CardinalityType DEF Queued

\* What nghttp3's callbacks leave of the types while a stream is read.
LEMMA ReadTypes ==
    ASSUME TypeOK, cur \in Streams, NEW fin, nghttp3_conn_read_stream(cur, fin)
    PROVE  /\ pending_free' \in Seq(Streams)
           /\ ng_open' \in Flags /\ headers_complete' \in Flags
           /\ body_complete' \in Flags /\ done' \in Flags
           /\ qstream' \in Flags /\ ngh3_dead' \in BOOLEAN
           /\ response_cancelled' \in Flags /\ response_complete' \in Flags
<1> USE DEF Flags, nghttp3_conn_read_stream, read_quietly, on_reset_stream,
            mark_ngh3_dead, on_stop_sending, headers_arrive, cancel_locked,
            queue_free
<1>1. Append(pending_free, cur) \in Seq(Streams)
  BY DEF TypeOK
<1>2. pending_free' \in Seq(Streams)
  <2>1. pending_free' \in {pending_free, Append(pending_free, cur)}
    BY Zenon
  <2> QED
    BY <1>1, <2>1, Zenon DEF TypeOK
<1>3. ng_open' \in Flags /\ headers_complete' \in Flags
  BY DEF TypeOK
<1>4. body_complete' \in Flags /\ done' \in Flags /\ qstream' \in Flags
  BY DEF TypeOK
<1>5. response_cancelled' \in Flags /\ response_complete' \in Flags
  BY DEF TypeOK
<1>6. ngh3_dead' \in BOOLEAN
  BY Zenon DEF TypeOK
<1> QED
  BY <1>2, <1>3, <1>4, <1>5, <1>6

\* The variables keep their types.
LEMMA SessionTypeStep ==
    ASSUME TypeOK, TasksCounted, ListInv, [Next]_vars
    PROVE  TypeOK'
<1> USE SessionAssumption DEF TypeOK, Flags, None, sessVars, readVars,
            respVars, objVars, taskVars, quicVars, ngVars, eventVars,
            drainFrame, workFrame
<1>1. CASE UNCHANGED vars
  BY <1>1 DEF vars
<1>2. CASE service_session_pass
  BY <1>2, Zenon DEF service_session_pass
<1>3. CASE goaway_sent
  BY <1>3, Zenon DEF goaway_sent
<1>4. CASE pass_skipped
  BY <1>4 DEF pass_skipped
<1>5. CASE accept_end
  BY <1>5 DEF accept_end
<1>6. ASSUME NEW s \in Streams, track_stream(s) PROVE TypeOK'
  <2>1. [frees EXCEPT ![s] = @ + 1] \in [Streams -> Nat]
    OBVIOUS
  <2>2. frees' \in [Streams -> Nat]
    BY <1>6, <2>1, Zenon DEF track_stream
  <2>3. failures' \in 0..MaxFailures
    BY <1>6 DEF track_stream
  <2>4. streams' \in Flags /\ qstream' \in Flags
    BY <1>6 DEF track_stream
  <2> QED
    BY <1>6, <2>1, <2>2, <2>3, <2>4 DEF track_stream
<1>7. ASSUME NEW s \in Streams, drain_one_stream(s) PROVE TypeOK'
  BY <1>7 DEF drain_one_stream
<1>8. ASSUME NEW s \in Streams, write_stream(s) PROVE TypeOK'
  <2>1. blocked_streams' \in Int
    BY <1>8 DEF write_stream, NowBlocked
  <2>2. write_blocked' \in Flags /\ ng_blocked' \in Flags /\ wclosed' \in Flags
    BY <1>8 DEF write_stream
  <2> QED
    BY <1>8, <2>1, <2>2 DEF write_stream, Writable
<1>9. ASSUME NEW s \in Streams, h3_process_request(s) PROVE TypeOK'
  BY <1>9 DEF h3_process_request
<1>10. CASE read_data
  <2>1. cur \in Streams
    BY <1>10 DEF read_data, ListInv, AtStream
  <2>2. PICK fin : nghttp3_conn_read_stream(cur, fin)
    BY <1>10, Zenon DEF read_data
  <2> HIDE DEF Flags
  <2> QED
    BY <1>10, <2>1, <2>2, ReadTypes DEF read_data
<1>11. CASE feed_stream_fin
  <2>1. cur \in Streams
    BY <1>11 DEF feed_stream_fin, ListInv, AtStream
  <2>2. PICK fin : nghttp3_conn_read_stream(cur, fin)
    BY <1>11, Zenon DEF feed_stream_fin
  <2> HIDE DEF Flags
  <2> QED
    BY <1>11, <2>1, <2>2, ReadTypes DEF feed_stream_fin
<1>12. CASE drain_goes_on
  BY <1>12 DEF drain_goes_on
<1>13. CASE on_stream_close
  <2>1. cur \in Streams
    BY <1>13 DEF on_stream_close, ListInv, AtStream
  <2>2. Append(pending_free, cur) \in Seq(Streams)
    BY <2>1
  <2>3. pending_free' \in Seq(Streams)
    BY <1>13, <2>2, Zenon DEF on_stream_close, queue_free
  <2> QED
    BY <1>13, <2>1, <2>2, <2>3 DEF on_stream_close, cancel_locked, queue_free
<1>14. CASE drain_check
  BY <1>14 DEF drain_check, Ready
<1>15. CASE drain_end
  BY <1>15 DEF drain_end
<1>16. CASE reclaim_streams
  <2>1. Cardinality(Reclaimable \cap write_blocked) \in Nat
    BY <1>16, StreamSets DEF reclaim_streams, Reclaimable
  <2>2. blocked_streams' \in Int
    BY <1>16, <2>1 DEF reclaim_streams, StillBlocked
  <2> QED
    BY <1>16, <2>1, <2>2 DEF reclaim_streams, Reclaimable
<1>17. CASE unblock_writable_streams
  <2>1. CASE ngh3_dead
    BY <1>17, <2>1 DEF unblock_writable_streams
  <2>2. CASE ~ngh3_dead
    <3>1. PICK U \in SUBSET (streams \cap write_blocked) :
             /\ write_blocked' = write_blocked \ U
             /\ ng_blocked' = ng_blocked \ U
             /\ blocked_streams' = blocked_streams - Cardinality(U)
      BY <1>17, <2>2, Zenon DEF unblock_writable_streams
    <3>2. Cardinality(U) \in Nat
      BY StreamSets
    <3>3. blocked_streams' \in Int
      BY <3>1, <3>2
    <3> QED
      BY <1>17, <2>2, <3>1, <3>3 DEF unblock_writable_streams
  <2> QED
    BY <2>1, <2>2, Zenon
<1>18. CASE flush_nghttp3
  <2>1. frees' \in [Streams -> Nat]
    BY <1>18, QueuedType DEF flush_nghttp3
  <2>2. pending_free' \in Seq(Streams)
    BY <1>18 DEF flush_nghttp3
  <2> QED
    BY <1>18, <2>1, <2>2 DEF flush_nghttp3
<1>19. CASE dispatch_begin
  BY <1>19, Zenon DEF dispatch_begin
<1>20. CASE process_nopool
  BY <1>20 DEF process_nopool, GivenBack
<1>21. CASE process_count
  BY <1>21 DEF process_count, Counted
<1>22. CASE process_push
  <2>1. cur \in Streams
    BY <1>22 DEF process_push, ListInv, AtStream
  <2>2. active_tasks' \in Nat
    BY <1>22, CountPositive DEF process_push
  <2>3. failures' \in 0..MaxFailures
    BY <1>22 DEF process_push
  <2>4. wpc' \in [Streams -> {"idle", "queued", "run", "exit", "dec", "gone"}]
    BY <1>22, <2>1, Zenon DEF process_push
  <2> QED
    BY <1>22, <2>1, <2>2, <2>3, <2>4 DEF process_push, GivenBack
<1>23. CASE dispatch_end
  BY <1>23 DEF dispatch_end
<1>24. CASE session_keep
  BY <1>24 DEF session_keep
<1>25. CASE h3_session_destroy
  <2>1. frees' \in [Streams -> Nat]
    BY <1>25, QueuedType DEF h3_session_destroy
  <2>2. pending_free' \in Seq(Streams)
    BY <1>25 DEF h3_session_destroy
  <2> QED
    BY <1>25, <2>1, <2>2 DEF h3_session_destroy, cancel_locked
<1>26. CASE worker_leaves
  <2>1. active_tasks' \in Nat /\ leaving' \in Nat
    BY <1>26, CountPositive DEF worker_leaves, LeftCount
  <2> QED
    BY <1>26, <2>1 DEF worker_leaves, LeftCount
<1>27. ASSUME NEW s \in Streams, peer_acts(s) PROVE TypeOK'
  <2>1. PICK p \in {"open", "fin", "cut"} : peer' = [peer EXCEPT ![s] = p]
    BY <1>27, Zenon DEF peer_acts
  <2>2. peer' \in [Streams -> {"unseen", "open", "fin", "cut"}]
    BY <2>1
  <2> QED
    BY <1>27, <2>2, Zenon DEF peer_acts
<1>28. ASSUME NEW s \in Streams, worker_gives_up(s) PROVE TypeOK'
  BY <1>28 DEF worker_gives_up, GivenBack
<1>29. ASSUME NEW s \in Streams, worker_starts(s) PROVE TypeOK'
  BY <1>29 DEF worker_starts
<1>30. ASSUME NEW s \in Streams, submit_response_nva(s) PROVE TypeOK'
  BY <1>30 DEF submit_response_nva, Refused, cancel_locked
<1>31. ASSUME NEW s \in Streams, h3_stream_response_complete(s) PROVE TypeOK'
  BY <1>31 DEF h3_stream_response_complete
<1>32. ASSUME NEW s \in Streams, worker_sets_done(s) PROVE TypeOK'
  BY <1>32 DEF worker_sets_done, WithDone
<1>33. ASSUME NEW s \in Streams, worker_returns(s) PROVE TypeOK'
  <2>1. s \in Busy
    BY <1>33 DEF worker_returns, Busy
  <2>2. active_tasks' \in Nat
    BY <1>33, <2>1, CountPositive DEF worker_returns
  <2> QED
    BY <1>33, <2>1, <2>2 DEF worker_returns
<1> QED
  BY <1>1, <1>2, <1>3, <1>4, <1>5, <1>6, <1>7, <1>8, <1>9, <1>10, <1>11,
     <1>12, <1>13, <1>14, <1>15, <1>16, <1>17, <1>18, <1>19, <1>20, <1>21,
     <1>22, <1>23, <1>24, <1>25, <1>26, <1>27, <1>28, <1>29, <1>30, <1>31,
     <1>32, <1>33, Zenon
     DEF Next, EventNext, WorkerNext, Terminated

\* The count stays exact while no task starts, leaves or is pushed.
LEMMA CountKept ==
    ASSUME TypeOK, CountInv, wpc' = wpc, leaving' = leaving,
           active_tasks' = active_tasks, epc' = "push" <=> epc = "push",
           epc' = "gone" => epc = "gone" \/ active_tasks = 0
    PROVE  CountInv'
<1>1. Busy' = Busy
  BY DEF Busy
<1> QED
  BY <1>1 DEF CountInv, TasksCounted

\* After the session is gone there is no task.
LEMMA GoneIsIdle ==
    ASSUME TypeOK, CountInv, epc = "gone"
    PROVE  leaving = 0 /\ Busy = {}
<1>1. IsFiniteSet(Busy) /\ Cardinality(Busy) \in Nat
  BY StreamSets DEF Busy
<1>2. leaving = 0 /\ Cardinality(Busy) = 0
  BY <1>1 DEF CountInv, TasksCounted, TypeOK
<1> QED
  BY <1>1, <1>2, FS_EmptySet

\* The count of tasks stays exact.
LEMMA CountStep ==
    ASSUME TypeOK, ListInv, TaskInv, CountInv, [Next]_vars
    PROVE  CountInv'
<1> USE DEF sessVars, readVars, respVars, objVars, taskVars, quicVars, ngVars,
            eventVars, drainFrame, workFrame
<1>1. CASE UNCHANGED vars
  BY <1>1, CountKept DEF vars
<1>2. CASE service_session_pass
  BY <1>2, CountKept DEF service_session_pass, TypeOK
<1>3. CASE goaway_sent
  BY <1>3, CountKept DEF goaway_sent, TypeOK
<1>4. CASE pass_skipped
  BY <1>4, CountKept DEF pass_skipped, TypeOK
<1>5. CASE accept_end
  BY <1>5, CountKept DEF accept_end, TypeOK
<1>6. ASSUME NEW s \in Streams, track_stream(s) PROVE CountInv'
  BY <1>6, CountKept DEF track_stream, TypeOK
<1>7. ASSUME NEW s \in Streams, drain_one_stream(s) PROVE CountInv'
  BY <1>7, CountKept DEF drain_one_stream, TypeOK
<1>8. ASSUME NEW s \in Streams, write_stream(s) PROVE CountInv'
  BY <1>8, CountKept DEF write_stream, Writable, TypeOK
<1>9. ASSUME NEW s \in Streams, h3_process_request(s) PROVE CountInv'
  BY <1>9, CountKept DEF h3_process_request, TypeOK
<1>10. CASE read_data
  BY <1>10, CountKept DEF read_data, nghttp3_conn_read_stream, read_quietly,
                      on_reset_stream, mark_ngh3_dead, on_stop_sending,
                      headers_arrive, cancel_locked, queue_free, TypeOK
<1>11. CASE feed_stream_fin
  BY <1>11, CountKept DEF feed_stream_fin, nghttp3_conn_read_stream,
     read_quietly,
                      on_reset_stream, mark_ngh3_dead, on_stop_sending,
                      headers_arrive, cancel_locked, queue_free, TypeOK
<1>12. CASE drain_goes_on
  BY <1>12, CountKept DEF drain_goes_on,
                      TypeOK
<1>13. CASE on_stream_close
  BY <1>13, CountKept DEF on_stream_close, cancel_locked, queue_free, TypeOK
<1>14. CASE drain_check
  BY <1>14, CountKept DEF drain_check, Ready, TypeOK
<1>15. CASE drain_end
  BY <1>15, CountKept DEF drain_end,
                      TypeOK
<1>16. CASE reclaim_streams
  BY <1>16, CountKept DEF reclaim_streams, Reclaimable, TypeOK
<1>17. CASE unblock_writable_streams
  BY <1>17, CountKept DEF unblock_writable_streams, TypeOK
<1>18. CASE flush_nghttp3
  BY <1>18, CountKept DEF flush_nghttp3, TypeOK
<1>19. CASE dispatch_begin
  BY <1>19, CountKept DEF dispatch_begin, TypeOK
<1>20. CASE process_nopool
  BY <1>20, CountKept DEF process_nopool, GivenBack, TypeOK
<1>21. CASE process_count
  <2>1. Busy' = Busy
    BY <1>21 DEF process_count, Busy
  <2>2. Cardinality(Busy) \in Nat
    BY StreamSets DEF Busy
  <2> QED
    BY <1>21, <2>1, <2>2 DEF process_count, Counted, CountInv, TasksCounted,
                         TypeOK
<1>22. CASE process_push
  <2>1. cur \in Streams /\ wpc[cur] = "idle"
    BY <1>22 DEF process_push, ListInv, TaskInv, AtStream, TypeOK, Flags
  <2>2. IsFiniteSet(Busy) /\ Cardinality(Busy) \in Nat
    BY StreamSets DEF Busy
  <2>3. CASE /\ wpc' = [wpc EXCEPT ![cur] = "queued"]
             /\ active_tasks' = active_tasks
    <3>1. cur \notin Busy /\ Busy' = Busy \cup {cur}
      BY <2>1, <2>3 DEF Busy, TypeOK
    <3>2. Cardinality(Busy') = Cardinality(Busy) + 1
      BY <2>2, <3>1, FS_AddElement
    <3> QED
      BY <1>22, <2>2, <2>3, <3>2 DEF process_push, CountInv, TasksCounted,
         TypeOK
  <2>4. CASE wpc' = wpc /\ active_tasks' = active_tasks - 1
    <3>1. Busy' = Busy
      BY <2>4 DEF Busy
    <3> QED
      BY <1>22, <2>2, <2>4, <3>1 DEF process_push, CountInv, TasksCounted,
         TypeOK
  <2> QED
    BY <1>22, <2>3, <2>4 DEF process_push
<1>23. CASE dispatch_end
  BY <1>23, CountKept DEF dispatch_end, TypeOK
<1>24. CASE session_keep
  BY <1>24, CountKept DEF session_keep, TypeOK
<1>25. CASE h3_session_destroy
  BY <1>25, CountKept DEF h3_session_destroy, cancel_locked, TypeOK
<1>26. CASE worker_leaves
  <2>1. epc # "gone"
    BY <1>26, GoneIsIdle DEF worker_leaves, Busy, TypeOK
  <2>2. Busy' = Busy
    BY <1>26 DEF worker_leaves, Busy, TypeOK
  <2>3. IsFiniteSet(Busy) /\ Cardinality(Busy) \in Nat
    BY StreamSets DEF Busy
  <2>4. active_tasks \in Nat /\ leaving \in Nat
    BY DEF TypeOK
  <2> QED
    BY <1>26, <2>1, <2>2, <2>3, <2>4 DEF worker_leaves, LeftCount, CountInv,
       TasksCounted
<1>27. ASSUME NEW s \in Streams, peer_acts(s) PROVE CountInv'
  BY <1>27, CountKept DEF peer_acts, TypeOK
<1>28. ASSUME NEW s \in Streams, worker_gives_up(s) PROVE CountInv'
  <2>1. epc # "gone"
    BY <1>28, GoneIsIdle DEF worker_gives_up, Busy, TypeOK
  <2>2. s \in Busy /\ Busy' = Busy \ {s}
    BY <1>28 DEF worker_gives_up, Busy, TypeOK
  <2>3. IsFiniteSet(Busy) /\ Cardinality(Busy) \in Nat
    BY StreamSets DEF Busy
  <2>4. Cardinality(Busy') = Cardinality(Busy) - 1
    BY <2>2, <2>3, FS_RemoveElement
  <2>5. active_tasks \in Nat /\ leaving \in Nat
    BY DEF TypeOK
  <2>6. /\ epc' = epc /\ active_tasks' = active_tasks
        /\ leaving' = leaving + 1
    BY <1>28 DEF worker_gives_up
  <2>7. TasksCounted'
    BY <2>3, <2>4, <2>5, <2>6 DEF CountInv, TasksCounted
  <2> QED
    BY <2>1, <2>6, <2>7 DEF CountInv
<1>29. ASSUME NEW s \in Streams, worker_starts(s) PROVE CountInv'
  <2>1. epc # "gone"
    BY <1>29, GoneIsIdle DEF worker_starts, Busy, TypeOK
  <2>2. Busy' = Busy
    BY <1>29 DEF worker_starts, Busy, TypeOK
  <2>3. IsFiniteSet(Busy) /\ Cardinality(Busy) \in Nat
    BY StreamSets DEF Busy
  <2>4. active_tasks \in Nat /\ leaving \in Nat
    BY DEF TypeOK
  <2> QED
    BY <1>29, <2>1, <2>2, <2>3, <2>4 DEF worker_starts, CountInv, TasksCounted
<1>30. ASSUME NEW s \in Streams, submit_response_nva(s) PROVE CountInv'
  BY <1>30, CountKept DEF submit_response_nva, Refused, cancel_locked, TypeOK
<1>31. ASSUME NEW s \in Streams, h3_stream_response_complete(s) PROVE CountInv'
  <2>1. epc # "gone"
    BY <1>31, GoneIsIdle DEF h3_stream_response_complete, Busy, TypeOK
  <2>2. Busy' = Busy
    BY <1>31 DEF h3_stream_response_complete, Busy, TypeOK
  <2>3. IsFiniteSet(Busy) /\ Cardinality(Busy) \in Nat
    BY StreamSets DEF Busy
  <2>4. active_tasks \in Nat /\ leaving \in Nat
    BY DEF TypeOK
  <2> QED
    BY <1>31, <2>1, <2>2, <2>3, <2>4 DEF h3_stream_response_complete,
       CountInv, TasksCounted
<1>32. ASSUME NEW s \in Streams, worker_sets_done(s) PROVE CountInv'
  <2>1. epc # "gone"
    BY <1>32, GoneIsIdle DEF worker_sets_done, Busy, TypeOK
  <2>2. Busy' = Busy
    BY <1>32 DEF worker_sets_done, Busy, TypeOK
  <2>3. IsFiniteSet(Busy) /\ Cardinality(Busy) \in Nat
    BY StreamSets DEF Busy
  <2>4. active_tasks \in Nat /\ leaving \in Nat
    BY DEF TypeOK
  <2> QED
    BY <1>32, <2>1, <2>2, <2>3, <2>4 DEF worker_sets_done, WithDone, CountInv,
       TasksCounted
<1>33. ASSUME NEW s \in Streams, worker_returns(s) PROVE CountInv'
  <2>1. epc # "gone"
    BY <1>33, GoneIsIdle DEF worker_returns, Busy, TypeOK
  <2>2. s \in Busy /\ Busy' = Busy \ {s}
    BY <1>33 DEF worker_returns, Busy, TypeOK
  <2>3. IsFiniteSet(Busy) /\ Cardinality(Busy) \in Nat
    BY StreamSets DEF Busy
  <2>4. Cardinality(Busy') = Cardinality(Busy) - 1
    BY <2>2, <2>3, FS_RemoveElement
  <2>5. active_tasks \in Nat /\ leaving \in Nat
    BY DEF TypeOK
  <2> QED
    BY <1>33, <2>1, <2>2, <2>3, <2>4, <2>5 DEF worker_returns, CountInv,
           TasksCounted
<1> QED
  BY <1>1, <1>2, <1>3, <1>4, <1>5, <1>6, <1>7, <1>8, <1>9, <1>10, <1>11,
     <1>12, <1>13, <1>14, <1>15, <1>16, <1>17, <1>18, <1>19, <1>20, <1>21,
     <1>22, <1>23, <1>24, <1>25, <1>26, <1>27, <1>28, <1>29, <1>30, <1>31,
     <1>32, <1>33
     DEF Next, EventNext, WorkerNext, Terminated

\* The count of the blocked streams stays exact while none is blocked,
\* unblocked or reclaimed, and nghttp3 learns of no blocked stream.
LEMMA BlockKept ==
    ASSUME BlockInv, write_blocked' = write_blocked, ng_blocked' = ng_blocked,
           blocked_streams' = blocked_streams, streams \subseteq streams',
           ng_open' \cap ng_blocked \subseteq ng_open,
           response_submitted \subseteq response_submitted'
    PROVE  BlockInv'
BY DEF BlockInv, BlockedCounted

\* The count of blocked streams stays exact.
LEMMA BlockStep ==
    ASSUME TypeOK, ListInv, ObjectInv, BlockInv, [Next]_vars
    PROVE  BlockInv'
<1> USE DEF sessVars, readVars, respVars, objVars, taskVars, quicVars, ngVars,
            eventVars, drainFrame, workFrame
<1>1. CASE UNCHANGED vars
  BY <1>1, BlockKept DEF vars
<1>2. CASE service_session_pass
  BY <1>2, BlockKept DEF service_session_pass
<1>3. CASE goaway_sent
  BY <1>3, BlockKept DEF goaway_sent
<1>4. CASE pass_skipped
  BY <1>4, BlockKept DEF pass_skipped
<1>5. CASE accept_end
  BY <1>5, BlockKept DEF accept_end
<1>6. ASSUME NEW s \in Streams, track_stream(s) PROVE BlockInv'
  BY <1>6, BlockKept DEF track_stream
<1>7. ASSUME NEW s \in Streams, drain_one_stream(s) PROVE BlockInv'
  BY <1>7, BlockKept DEF drain_one_stream
<1>8. ASSUME NEW s \in Streams, write_stream(s) PROVE BlockInv'
  <2>1. CASE UNCHANGED <<write_blocked, ng_blocked, blocked_streams>>
    BY <1>8, <2>1, BlockKept DEF write_stream
  <2>2. CASE /\ write_blocked' = write_blocked \cup {s}
             /\ ng_blocked' = ng_blocked \cup {s}
             /\ blocked_streams' = NowBlocked(s)
    <3>1. Cardinality(write_blocked') = NowBlocked(s)
      BY <2>2, StreamSets, FS_AddElement DEF TypeOK, Flags, NowBlocked,
         BlockInv,
                                             BlockedCounted
    <3> QED
      BY <1>8, <2>2, <3>1 DEF write_stream, Writable, BlockInv,
                           BlockedCounted
  <2> QED
    BY <1>8, <2>1, <2>2 DEF write_stream
<1>9. ASSUME NEW s \in Streams, h3_process_request(s) PROVE BlockInv'
  BY <1>9, BlockKept DEF h3_process_request
<1>10. CASE read_data
  BY <1>10, BlockKept DEF read_data, nghttp3_conn_read_stream, read_quietly,
                      on_reset_stream, mark_ngh3_dead, on_stop_sending,
                      headers_arrive, cancel_locked, queue_free, BlockInv, ObjectInv, ListInv
<1>11. CASE feed_stream_fin
  BY <1>11, BlockKept DEF feed_stream_fin, nghttp3_conn_read_stream,
     read_quietly,
                      on_reset_stream, mark_ngh3_dead, on_stop_sending,
                      headers_arrive, cancel_locked, queue_free, BlockInv, ObjectInv, ListInv
<1>12. CASE drain_goes_on
  BY <1>12, BlockKept DEF drain_goes_on
<1>13. CASE on_stream_close
  BY <1>13, BlockKept DEF on_stream_close, cancel_locked, queue_free
<1>14. CASE drain_check
  BY <1>14, BlockKept DEF drain_check, Ready
<1>15. CASE drain_end
  BY <1>15, BlockKept DEF drain_end
<1>16. CASE reclaim_streams
  <2>0. write_blocked' = write_blocked \ Reclaimable
    BY <1>16 DEF reclaim_streams
  <2>1. IsFiniteSet(write_blocked)
    BY StreamSets DEF TypeOK, Flags
  <2>2. Cardinality(write_blocked') =
            Cardinality(write_blocked) - Cardinality(Reclaimable \cap write_blocked)
    <3>1. write_blocked \cap Reclaimable = Reclaimable \cap write_blocked
      OBVIOUS
    <3>2. Cardinality(write_blocked \ Reclaimable) = Cardinality(write_blocked)
              - Cardinality(write_blocked \cap Reclaimable)
      BY <2>1, FS_Difference
    <3> QED
      BY <2>0, <3>1, <3>2
  <2>3. ng_blocked \cap ng_open \cap Reclaimable = {}
    BY DEF BlockInv, ObjectInv, Reclaimable
  <2> QED
    BY <1>16, <2>2, <2>3 DEF reclaim_streams, StillBlocked, BlockInv,
                         BlockedCounted
<1>17. CASE unblock_writable_streams
  <2>1. CASE ngh3_dead
    BY <1>17, <2>1, BlockKept DEF unblock_writable_streams
  <2>2. CASE ~ngh3_dead
    <3>1. PICK U \in SUBSET (streams \cap write_blocked) :
             /\ write_blocked' = write_blocked \ U
             /\ ng_blocked' = ng_blocked \ U
             /\ blocked_streams' = blocked_streams - Cardinality(U)
      BY <1>17, <2>2 DEF unblock_writable_streams
    <3>2. IsFiniteSet(write_blocked) /\ write_blocked \cap U = U
      BY StreamSets DEF TypeOK, Flags
    <3>3. Cardinality(write_blocked') = Cardinality(write_blocked) - Cardinality(U)
      BY <3>1, <3>2, FS_Difference
    <3> QED
      BY <1>17, <3>1, <3>3 DEF unblock_writable_streams, BlockInv,
                           BlockedCounted
  <2> QED
    BY <2>1, <2>2
<1>18. CASE flush_nghttp3
  BY <1>18, BlockKept DEF flush_nghttp3
<1>19. CASE dispatch_begin
  BY <1>19, BlockKept DEF dispatch_begin
<1>20. CASE process_nopool
  BY <1>20, BlockKept DEF process_nopool, GivenBack
<1>21. CASE process_count
  BY <1>21, BlockKept DEF process_count, Counted
<1>22. CASE process_push
  BY <1>22, BlockKept DEF process_push, GivenBack
<1>23. CASE dispatch_end
  BY <1>23, BlockKept DEF dispatch_end
<1>24. CASE session_keep
  BY <1>24, BlockKept DEF session_keep
<1>25. CASE h3_session_destroy
  BY <1>25, BlockKept DEF h3_session_destroy, cancel_locked
<1>26. CASE worker_leaves
  BY <1>26, BlockKept DEF worker_leaves, LeftCount
<1>27. ASSUME NEW s \in Streams, peer_acts(s) PROVE BlockInv'
  BY <1>27, BlockKept DEF peer_acts
<1>28. ASSUME NEW s \in Streams, worker_gives_up(s) PROVE BlockInv'
  BY <1>28, BlockKept DEF worker_gives_up, GivenBack
<1>29. ASSUME NEW s \in Streams, worker_starts(s) PROVE BlockInv'
  BY <1>29, BlockKept DEF worker_starts
<1>30. ASSUME NEW s \in Streams, submit_response_nva(s) PROVE BlockInv'
  BY <1>30, BlockKept DEF submit_response_nva, Refused, cancel_locked
<1>31. ASSUME NEW s \in Streams, h3_stream_response_complete(s) PROVE BlockInv'
  BY <1>31, BlockKept DEF h3_stream_response_complete
<1>32. ASSUME NEW s \in Streams, worker_sets_done(s) PROVE BlockInv'
  BY <1>32, BlockKept DEF worker_sets_done, WithDone
<1>33. ASSUME NEW s \in Streams, worker_returns(s) PROVE BlockInv'
  BY <1>33, BlockKept DEF worker_returns
<1> QED
  BY <1>1, <1>2, <1>3, <1>4, <1>5, <1>6, <1>7, <1>8, <1>9, <1>10, <1>11,
     <1>12, <1>13, <1>14, <1>15, <1>16, <1>17, <1>18, <1>19, <1>20, <1>21,
     <1>22, <1>23, <1>24, <1>25, <1>26, <1>27, <1>28, <1>29, <1>30, <1>31,
     <1>32, <1>33
     DEF Next, EventNext, WorkerNext, Terminated

\* The QUIC objects stay accounted for while none is queued, freed or tracked.
LEMMA FreeKept ==
    ASSUME FreeInv, pending_free' = pending_free, frees' = frees,
           qstream' = qstream, streams \cup reclaimed \subseteq streams' \cup reclaimed'
    PROVE  FreeInv'
<1>1. \A s \in Streams : Queued(s)' = Queued(s)
  BY DEF Queued
<1> QED
  BY <1>1 DEF FreeInv, FreedOnce

\* An appended stream is queued once more, the others as often as before.
LEMMA QueuedAppend ==
    ASSUME TypeOK, NEW q \in Streams, pending_free' = Append(pending_free, q)
    PROVE  /\ Queued(q)' = Queued(q) + 1
           /\ \A s \in Streams \ {q} : Queued(s)' = Queued(s)
<1> DEFINE At(s) == {k \in 1..Len(pending_free) : pending_free[k] = s}
           n == Len(pending_free) + 1
<1>1. /\ Len(pending_free) \in Nat /\ Len(pending_free') = n
      /\ pending_free'[n] = q
      /\ \A k \in 1..Len(pending_free) : pending_free'[k] = pending_free[k]
  <2>1. pending_free \in Seq(Streams)
    BY DEF TypeOK
  <2> QED
    BY <2>1
<1>2. At(q)' = At(q) \cup {n} /\ n \notin At(q)
  BY <1>1
<1>3. IsFiniteSet(At(q)) /\ Cardinality(At(q)) \in Nat
  <2>1. /\ IsFiniteSet(1..Len(pending_free))
        /\ At(q) \in SUBSET (1..Len(pending_free))
    BY <1>1, FS_Interval
  <2> QED
    BY <2>1, FS_Subset, FS_CardinalityType
<1>4. Cardinality(At(q)') = Cardinality(At(q)) + 1
  BY <1>2, <1>3, FS_AddElement
<1>5. \A s \in Streams \ {q} : At(s)' = At(s)
  BY <1>1
<1> QED
  BY <1>4, <1>5 DEF Queued

\* h3_session_queue_free moves the object from the stream to pending_free.
LEMMA FreeQueued ==
    ASSUME TypeOK, ObjectInv, FreeInv, NEW q \in Streams, queue_free(q),
           frees' = frees, streams' = streams, reclaimed' = reclaimed
    PROVE  FreeInv'
<1>1. CASE q \in qstream
  <2>1. pending_free' = Append(pending_free, q) /\ qstream' = qstream \ {q}
    BY <1>1 DEF queue_free
  <2>2. FreedOnce'
    <3> SUFFICES ASSUME NEW s \in Streams
                 PROVE  (frees[s] + Queued(s) + (IF s \in qstream THEN 1 ELSE 0) <= 1)'
      BY DEF FreedOnce
    <3>1. /\ frees[s] \in Nat /\ Queued(s) \in Nat
          /\ frees[s] + Queued(s) + (IF s \in qstream THEN 1 ELSE 0) <= 1
      BY QueuedType DEF TypeOK, FreeInv, FreedOnce
    <3>2. CASE s = q
      BY <1>1, <2>1, <3>1, <3>2, QueuedAppend
    <3>3. CASE s # q
      <4>1. Queued(s)' = Queued(s) /\ (s \in qstream)' = (s \in qstream)
        BY <2>1, <3>3, QueuedAppend
      <4> QED
        BY <3>1, <4>1
    <3> QED
      BY <3>2, <3>3
  <2>3. \A k \in 1..Len(pending_free') : pending_free'[k] \in streams \cup reclaimed
    <3>1. pending_free \in Seq(Streams) /\ q \in streams
      BY <1>1 DEF TypeOK, ObjectInv
    <3>2. \A k \in 1..Len(pending_free) : pending_free[k] \in streams \cup reclaimed
      BY DEF FreeInv
    <3> QED
      BY <2>1, <3>1, <3>2
  <2> QED
    BY <2>2, <2>3 DEF FreeInv
<1>2. CASE q \notin qstream
  BY <1>2, FreeKept DEF queue_free
<1> QED
  BY <1>1, <1>2

\* Whatever pending_free holds is freed at once, each object in it.
LEMMA FreeAll ==
    ASSUME TypeOK, FreeInv, pending_free' = <<>>, qstream' = qstream,
           frees' = [s \in Streams |-> frees[s] + Queued(s)]
    PROVE  FreeInv'
<1>1. ASSUME NEW s \in Streams PROVE Queued(s)' = 0
  <2>1. {k \in 1..Len(pending_free') : pending_free'[k] = s} = {}
    OBVIOUS
  <2> QED
    BY <2>1, FS_EmptySet DEF Queued
<1>2. FreedOnce'
  <2> SUFFICES ASSUME NEW s \in Streams
               PROVE  (frees[s] + Queued(s) + (IF s \in qstream THEN 1 ELSE 0) <= 1)'
    BY DEF FreedOnce
  <2>1. /\ frees[s] \in Nat /\ Queued(s) \in Nat
        /\ frees[s] + Queued(s) + (IF s \in qstream THEN 1 ELSE 0) <= 1
    BY QueuedType DEF TypeOK, FreeInv, FreedOnce
  <2> QED
    BY <1>1, <2>1
<1>3. 1..Len(pending_free') = {}
  OBVIOUS
<1> QED
  BY <1>2, <1>3 DEF FreeInv

\* The QUIC objects stay accounted for.
LEMMA FreeStep ==
    ASSUME TypeOK, ListInv, ObjectInv, FreeInv, [Next]_vars
    PROVE  FreeInv'
<1> USE DEF sessVars, readVars, respVars, objVars, taskVars, quicVars, ngVars,
            eventVars, drainFrame, workFrame
<1>1. CASE UNCHANGED vars
  BY <1>1, FreeKept DEF vars
<1>2. CASE service_session_pass
  BY <1>2, FreeKept DEF service_session_pass
<1>3. CASE goaway_sent
  BY <1>3, FreeKept DEF goaway_sent
<1>4. CASE pass_skipped
  BY <1>4, FreeKept DEF pass_skipped
<1>5. CASE accept_end
  BY <1>5, FreeKept DEF accept_end
<1>6. ASSUME NEW s \in Streams, track_stream(s) PROVE FreeInv'
  <2>1. \A x \in Streams : Queued(x)' = Queued(x)
    BY <1>6 DEF track_stream, Queued
  <2>2. Queued(s) = 0
    <3>1. {k \in 1..Len(pending_free) : pending_free[k] = s} = {}
      BY <1>6 DEF track_stream, FreeInv
    <3> QED
      BY <3>1, FS_EmptySet DEF Queued
  <2>3. s \notin qstream
    BY <1>6 DEF track_stream, ObjectInv
  <2>4. FreedOnce'
    <3> SUFFICES ASSUME NEW x \in Streams
                 PROVE  (frees[x] + Queued(x) + (IF x \in qstream THEN 1 ELSE 0) <= 1)'
      BY DEF FreedOnce
    <3>1. /\ frees[x] \in Nat /\ Queued(x) \in Nat
          /\ frees[x] + Queued(x) + (IF x \in qstream THEN 1 ELSE 0) <= 1
      BY QueuedType DEF TypeOK, FreeInv, FreedOnce
    <3>2. frees \in [Streams -> Nat] /\ frees[s] = 0
      BY <1>6 DEF track_stream, TypeOK
    <3>3. \/ frees' = frees /\ qstream' = qstream \cup {s}
          \/ frees' = [frees EXCEPT ![s] = @ + 1] /\ qstream' = qstream
      BY <1>6 DEF track_stream
    <3>4. CASE x = s
      BY <2>1, <2>2, <2>3, <3>1, <3>2, <3>3, <3>4
    <3>5. CASE x # s
      BY <2>1, <3>1, <3>2, <3>3, <3>5
    <3> QED
      BY <3>4, <3>5
  <2> QED
    BY <1>6, <2>4 DEF track_stream, FreeInv
<1>7. ASSUME NEW s \in Streams, drain_one_stream(s) PROVE FreeInv'
  BY <1>7, FreeKept DEF drain_one_stream
<1>8. ASSUME NEW s \in Streams, write_stream(s) PROVE FreeInv'
  BY <1>8, FreeKept DEF write_stream, Writable
<1>9. ASSUME NEW s \in Streams, h3_process_request(s) PROVE FreeInv'
  BY <1>9, FreeKept DEF h3_process_request
<1>10. CASE read_data
  <2>1. CASE queue_free(cur)
    <3>1. cur \in Streams
      BY <1>10 DEF read_data, ListInv, AtStream, TypeOK, Flags
    <3> QED
      BY <1>10, <2>1, <3>1, FreeQueued DEF read_data
  <2>2. CASE UNCHANGED <<pending_free, qstream>>
    BY <1>10, <2>2, FreeKept DEF read_data
  <2> QED
    BY <1>10, <2>1, <2>2 DEF read_data, nghttp3_conn_read_stream, read_quietly,
                         on_reset_stream, mark_ngh3_dead, on_stop_sending
<1>11. CASE feed_stream_fin
  <2>1. CASE queue_free(cur)
    <3>1. cur \in Streams
      BY <1>11 DEF feed_stream_fin, ListInv, AtStream, TypeOK, Flags
    <3> QED
      BY <1>11, <2>1, <3>1, FreeQueued DEF feed_stream_fin
  <2>2. CASE UNCHANGED <<pending_free, qstream>>
    BY <1>11, <2>2, FreeKept DEF feed_stream_fin
  <2> QED
    BY <1>11, <2>1, <2>2 DEF feed_stream_fin, nghttp3_conn_read_stream,
                         read_quietly, on_reset_stream, mark_ngh3_dead,
                         on_stop_sending
<1>12. CASE drain_goes_on
  BY <1>12, FreeKept DEF drain_goes_on
<1>13. CASE on_stream_close
  <2>1. CASE queue_free(cur)
    <3>1. cur \in Streams
      BY <1>13 DEF on_stream_close, ListInv, AtStream, TypeOK, Flags
    <3> QED
      BY <1>13, <2>1, <3>1, FreeQueued DEF on_stream_close
  <2>2. CASE UNCHANGED <<pending_free, qstream>>
    BY <1>13, <2>2, FreeKept DEF on_stream_close
  <2> QED
    BY <1>13, <2>1, <2>2 DEF on_stream_close
<1>14. CASE drain_check
  BY <1>14, FreeKept DEF drain_check, Ready
<1>15. CASE drain_end
  BY <1>15, FreeKept DEF drain_end
<1>16. CASE reclaim_streams
  BY <1>16, FreeKept DEF reclaim_streams, Reclaimable
<1>17. CASE unblock_writable_streams
  BY <1>17, FreeKept DEF unblock_writable_streams
<1>18. CASE flush_nghttp3
  BY <1>18, FreeAll DEF flush_nghttp3
<1>19. CASE dispatch_begin
  BY <1>19, FreeKept DEF dispatch_begin
<1>20. CASE process_nopool
  BY <1>20, FreeKept DEF process_nopool, GivenBack
<1>21. CASE process_count
  BY <1>21, FreeKept DEF process_count, Counted
<1>22. CASE process_push
  BY <1>22, FreeKept DEF process_push, GivenBack
<1>23. CASE dispatch_end
  BY <1>23, FreeKept DEF dispatch_end
<1>24. CASE session_keep
  BY <1>24, FreeKept DEF session_keep
<1>25. CASE h3_session_destroy
  BY <1>25, FreeAll DEF h3_session_destroy
<1>26. CASE worker_leaves
  BY <1>26, FreeKept DEF worker_leaves, LeftCount
<1>27. ASSUME NEW s \in Streams, peer_acts(s) PROVE FreeInv'
  BY <1>27, FreeKept DEF peer_acts
<1>28. ASSUME NEW s \in Streams, worker_gives_up(s) PROVE FreeInv'
  BY <1>28, FreeKept DEF worker_gives_up, GivenBack
<1>29. ASSUME NEW s \in Streams, worker_starts(s) PROVE FreeInv'
  BY <1>29, FreeKept DEF worker_starts
<1>30. ASSUME NEW s \in Streams, submit_response_nva(s) PROVE FreeInv'
  BY <1>30, FreeKept DEF submit_response_nva, Refused, cancel_locked
<1>31. ASSUME NEW s \in Streams, h3_stream_response_complete(s) PROVE FreeInv'
  BY <1>31, FreeKept DEF h3_stream_response_complete
<1>32. ASSUME NEW s \in Streams, worker_sets_done(s) PROVE FreeInv'
  BY <1>32, FreeKept DEF worker_sets_done, WithDone
<1>33. ASSUME NEW s \in Streams, worker_returns(s) PROVE FreeInv'
  BY <1>33, FreeKept DEF worker_returns
<1> QED
  BY <1>1, <1>2, <1>3, <1>4, <1>5, <1>6, <1>7, <1>8, <1>9, <1>10, <1>11,
     <1>12, <1>13, <1>14, <1>15, <1>16, <1>17, <1>18, <1>19, <1>20, <1>21,
     <1>22, <1>23, <1>24, <1>25, <1>26, <1>27, <1>28, <1>29, <1>30, <1>31,
     <1>32, <1>33
     DEF Next, EventNext, WorkerNext, Terminated

-----------------------------------------------------------------------------
\* The positions of the event thread between the drain and its end.
Draining == {"drain", "read", "finished", "close", "check"}

\* The lists stay right when the event thread does not move.
LEMMA ListKept ==
    ASSUME ListInv, epc' = epc, cur' = cur, todo' = todo, completed' = completed,
           qstream \subseteq qstream', body_complete' = body_complete,
           headers_complete' = headers_complete, streams \subseteq streams',
           dispatched' \subseteq dispatched
    PROVE  ListInv'
BY DEF ListInv, AtStream

\* They stay right when it moves outside the drain and the dispatch.
LEMMA ListMoved ==
    ASSUME ListInv, epc \notin Draining \cup AtStream,
           epc' \notin Draining \cup AtStream, cur' = cur, todo' = todo,
           completed' = completed, completed \subseteq streams',
           body_complete' = body_complete, headers_complete' = headers_complete,
           dispatched' = dispatched
    PROVE  ListInv'
BY DEF ListInv, AtStream, Draining

\* ObjectInv needs nothing but growing flags when no object changes hands.
LEMMA ObjectKept ==
    ASSUME ObjectInv, streams' = streams, reclaimed' = reclaimed,
           qstream' = qstream, ng_open' = ng_open,
           response_submitted' = response_submitted,
           response_cancelled \subseteq response_cancelled',
           body_complete \subseteq body_complete'
    PROVE  ObjectInv'
BY DEF ObjectInv

\* TaskInv stays true when no task moves.
LEMMA TaskKept ==
    ASSUME TaskInv, wpc' = wpc, handled' = handled, worker_done' = worker_done,
           dispatched' = dispatched,
           headers_complete \subseteq headers_complete',
           body_complete \subseteq body_complete',
           streams \ streams' \subseteq worker_done,
           epc' \in {"count", "push"} => epc \in {"count", "push"} /\ cur' = cur
    PROVE  TaskInv'
BY DEF TaskInv, TaskOf

\* The lists of the event thread stay right.
LEMMA ListStep ==
    ASSUME TypeOK, ListInv, [Next]_vars
    PROVE  ListInv'
<1> USE DEF sessVars, readVars, respVars, objVars, taskVars, quicVars, ngVars,
            eventVars, drainFrame, workFrame
<1>1. CASE UNCHANGED vars
  BY <1>1, ListKept DEF vars
<1>2. CASE service_session_pass
  BY <1>2, ListMoved DEF service_session_pass, TypeOK, ListInv, AtStream,
                      Draining
<1>3. CASE goaway_sent
  BY <1>3, ListMoved DEF goaway_sent, TypeOK, ListInv, AtStream, Draining
<1>4. CASE pass_skipped
  BY <1>4, ListMoved DEF pass_skipped, TypeOK, ListInv, AtStream, Draining
<1>5. CASE accept_end
  BY <1>5 DEF accept_end, ListInv, AtStream
<1>6. ASSUME NEW s \in Streams, track_stream(s) PROVE ListInv'
  BY <1>6, ListKept DEF track_stream
<1>7. ASSUME NEW s \in Streams, drain_one_stream(s) PROVE ListInv'
  BY <1>7 DEF drain_one_stream,
           ListInv, AtStream
<1>8. ASSUME NEW s \in Streams, write_stream(s) PROVE ListInv'
  BY <1>8, ListKept DEF write_stream, Writable
<1>9. ASSUME NEW s \in Streams, h3_process_request(s) PROVE ListInv'
  <2>1. s \in streams /\ completed' \subseteq streams
    BY <1>9 DEF h3_process_request, ListInv
  <2>2. completed' \subseteq (headers_complete \cap body_complete) \ dispatched'
    BY <1>9 DEF h3_process_request, ListInv
  <2> QED
    BY <1>9, <2>1, <2>2 DEF h3_process_request, ListInv,
                         AtStream
<1>10. CASE read_data
  BY <1>10 DEF read_data, nghttp3_conn_read_stream, read_quietly,
     on_reset_stream,
           mark_ngh3_dead, on_stop_sending, headers_arrive, cancel_locked,
           queue_free, ListInv, AtStream
<1>11. CASE feed_stream_fin
  BY <1>11 DEF feed_stream_fin, nghttp3_conn_read_stream, read_quietly,
           on_reset_stream, mark_ngh3_dead, on_stop_sending, headers_arrive,
           cancel_locked, queue_free, ListInv,
           AtStream
<1>12. CASE drain_goes_on
  BY <1>12 DEF drain_goes_on, ListInv,
           AtStream
<1>13. CASE on_stream_close
  BY <1>13 DEF on_stream_close, cancel_locked, queue_free, ListInv, AtStream
<1>14. CASE drain_check
  <2>1. completed' \subseteq streams
    BY <1>14 DEF drain_check, ListInv, AtStream
  <2>2. completed' \subseteq (headers_complete \cap body_complete) \ dispatched
    BY <1>14 DEF drain_check, Ready, ListInv
  <2> QED
    BY <1>14, <2>1, <2>2 DEF drain_check, ListInv, AtStream
<1>15. CASE drain_end
  BY <1>15 DEF drain_end, ListInv,
           AtStream
<1>16. CASE reclaim_streams
  <2>1. completed \subseteq streams'
    BY <1>16 DEF reclaim_streams, Reclaimable, ListInv
  <2> QED
    BY <1>16, <2>1, ListMoved DEF reclaim_streams, AtStream, Draining
<1>17. CASE unblock_writable_streams
  BY <1>17, ListMoved DEF unblock_writable_streams, TypeOK, ListInv, AtStream,
     Draining
<1>18. CASE flush_nghttp3
  BY <1>18, ListMoved DEF flush_nghttp3, TypeOK, ListInv, AtStream, Draining
<1>19. CASE dispatch_begin
  BY <1>19, ListMoved DEF dispatch_begin, TypeOK, ListInv, AtStream, Draining
<1>20. CASE process_nopool
  BY <1>20 DEF process_nopool, GivenBack, ListInv, AtStream
<1>21. CASE process_count
  BY <1>21 DEF process_count, Counted, ListInv, AtStream
<1>22. CASE process_push
  BY <1>22 DEF process_push, GivenBack, ListInv, AtStream
<1>23. CASE dispatch_end
  BY <1>23, ListMoved DEF dispatch_end, TypeOK, ListInv, AtStream,
                      Draining
<1>24. CASE session_keep
  BY <1>24, ListMoved DEF session_keep, TypeOK, ListInv, AtStream,
                      Draining
<1>25. CASE h3_session_destroy
  BY <1>25, ListMoved DEF h3_session_destroy, cancel_locked, TypeOK, ListInv,
     AtStream, Draining
<1>26. CASE worker_leaves
  BY <1>26, ListKept DEF worker_leaves, LeftCount
<1>27. ASSUME NEW s \in Streams, peer_acts(s) PROVE ListInv'
  BY <1>27, ListKept DEF peer_acts
<1>28. ASSUME NEW s \in Streams, worker_gives_up(s) PROVE ListInv'
  BY <1>28, ListKept DEF worker_gives_up, GivenBack
<1>29. ASSUME NEW s \in Streams, worker_starts(s) PROVE ListInv'
  BY <1>29, ListKept DEF worker_starts
<1>30. ASSUME NEW s \in Streams, submit_response_nva(s) PROVE ListInv'
  BY <1>30, ListKept DEF submit_response_nva, Refused, cancel_locked
<1>31. ASSUME NEW s \in Streams, h3_stream_response_complete(s) PROVE ListInv'
  BY <1>31, ListKept DEF h3_stream_response_complete
<1>32. ASSUME NEW s \in Streams, worker_sets_done(s) PROVE ListInv'
  BY <1>32, ListKept DEF worker_sets_done, WithDone
<1>33. ASSUME NEW s \in Streams, worker_returns(s) PROVE ListInv'
  BY <1>33, ListKept DEF worker_returns
<1> QED
  BY <1>1, <1>2, <1>3, <1>4, <1>5, <1>6, <1>7, <1>8, <1>9, <1>10, <1>11,
     <1>12, <1>13, <1>14, <1>15, <1>16, <1>17, <1>18, <1>19, <1>20, <1>21,
     <1>22, <1>23, <1>24, <1>25, <1>26, <1>27, <1>28, <1>29, <1>30, <1>31,
     <1>32, <1>33
     DEF Next, EventNext, WorkerNext, Terminated

\* Streams that nghttp3 may call back for stay tracked.
LEMMA ObjectStep ==
    ASSUME TypeOK, ListInv, ObjectInv, TaskInv, [Next]_vars
    PROVE  ObjectInv'
<1> USE DEF sessVars, readVars, respVars, objVars, taskVars, quicVars, ngVars,
            eventVars, drainFrame, workFrame
<1>1. CASE UNCHANGED vars
  BY <1>1, ObjectKept DEF vars
<1>2. CASE service_session_pass
  BY <1>2, ObjectKept DEF service_session_pass
<1>3. CASE goaway_sent
  BY <1>3, ObjectKept DEF goaway_sent
<1>4. CASE pass_skipped
  BY <1>4, ObjectKept DEF pass_skipped
<1>5. CASE accept_end
  BY <1>5, ObjectKept DEF accept_end
<1>6. ASSUME NEW s \in Streams, track_stream(s) PROVE ObjectInv'
  <2>1. \/ streams' = streams \cup {s} /\ qstream' = qstream \cup {s}
        \/ streams' = streams /\ qstream' = qstream
    BY <1>6 DEF track_stream
  <2>2. /\ s \notin reclaimed /\ reclaimed' = reclaimed /\ ng_open' = ng_open
        /\ response_submitted' = response_submitted
        /\ response_cancelled' = response_cancelled
        /\ body_complete' = body_complete
    BY <1>6 DEF track_stream
  <2> QED
    BY <2>1, <2>2 DEF ObjectInv
<1>7. ASSUME NEW s \in Streams, drain_one_stream(s) PROVE ObjectInv'
  BY <1>7, ObjectKept DEF drain_one_stream
<1>8. ASSUME NEW s \in Streams, write_stream(s) PROVE ObjectInv'
  BY <1>8, ObjectKept DEF write_stream, Writable
<1>9. ASSUME NEW s \in Streams, h3_process_request(s) PROVE ObjectInv'
  BY <1>9, ObjectKept DEF h3_process_request
<1>10. CASE read_data
  <2>1. /\ cur \in qstream /\ cur \notin response_submitted
        /\ nghttp3_conn_read_stream(cur, FALSE)
    BY <1>10 DEF read_data, ListInv, ObjectInv
  <2>2. /\ streams' = streams /\ reclaimed' = reclaimed
        /\ response_submitted' = response_submitted
    BY <1>10 DEF read_data
  <2>3. /\ body_complete \subseteq body_complete'
        /\ response_cancelled \subseteq response_cancelled'
        /\ ng_open' \subseteq ng_open \cup {cur}
    BY <2>1 DEF nghttp3_conn_read_stream, read_quietly, on_reset_stream,
                mark_ngh3_dead, on_stop_sending, headers_arrive, cancel_locked
  <2>4. \/ qstream' = qstream
        \/ qstream' = qstream \ {cur} /\ cur \in response_cancelled'
    BY <2>1 DEF nghttp3_conn_read_stream, read_quietly, on_reset_stream,
                mark_ngh3_dead, on_stop_sending, queue_free, cancel_locked
  <2> QED
    BY <2>1, <2>2, <2>3, <2>4 DEF ObjectInv
<1>11. CASE feed_stream_fin
  <2>1. /\ cur \in qstream /\ cur \notin response_submitted
        /\ nghttp3_conn_read_stream(cur, TRUE)
    BY <1>11 DEF feed_stream_fin, ListInv, ObjectInv
  <2>2. /\ streams' = streams /\ reclaimed' = reclaimed
        /\ response_submitted' = response_submitted
    BY <1>11 DEF feed_stream_fin
  <2>3. /\ body_complete \subseteq body_complete'
        /\ response_cancelled \subseteq response_cancelled'
        /\ ng_open' \subseteq ng_open \cup {cur}
    BY <2>1 DEF nghttp3_conn_read_stream, read_quietly, on_reset_stream,
                mark_ngh3_dead, on_stop_sending, headers_arrive, cancel_locked
  <2>4. \/ qstream' = qstream
        \/ qstream' = qstream \ {cur} /\ cur \in response_cancelled'
    BY <2>1 DEF nghttp3_conn_read_stream, read_quietly, on_reset_stream,
                mark_ngh3_dead, on_stop_sending, queue_free, cancel_locked
  <2> QED
    BY <2>1, <2>2, <2>3, <2>4 DEF ObjectInv
<1>12. CASE drain_goes_on
  BY <1>12, ObjectKept DEF drain_goes_on
<1>13. CASE on_stream_close
  BY <1>13 DEF on_stream_close, cancel_locked, queue_free, ObjectInv
<1>14. CASE drain_check
  BY <1>14, ObjectKept DEF drain_check, Ready
<1>15. CASE drain_end
  BY <1>15, ObjectKept DEF drain_end
<1>16. CASE reclaim_streams
  BY <1>16 DEF reclaim_streams, Reclaimable, ObjectInv
<1>17. CASE unblock_writable_streams
  BY <1>17, ObjectKept DEF unblock_writable_streams
<1>18. CASE flush_nghttp3
  BY <1>18, ObjectKept DEF flush_nghttp3
<1>19. CASE dispatch_begin
  BY <1>19, ObjectKept DEF dispatch_begin
<1>20. CASE process_nopool
  BY <1>20, ObjectKept DEF process_nopool, GivenBack
<1>21. CASE process_count
  BY <1>21, ObjectKept DEF process_count, Counted
<1>22. CASE process_push
  BY <1>22, ObjectKept DEF process_push, GivenBack
<1>23. CASE dispatch_end
  BY <1>23, ObjectKept DEF dispatch_end
<1>24. CASE session_keep
  BY <1>24, ObjectKept DEF session_keep
<1>25. CASE h3_session_destroy
  BY <1>25 DEF h3_session_destroy, cancel_locked,
           ObjectInv
<1>26. CASE worker_leaves
  BY <1>26, ObjectKept DEF worker_leaves, LeftCount
<1>27. ASSUME NEW s \in Streams, peer_acts(s) PROVE ObjectInv'
  BY <1>27, ObjectKept DEF peer_acts
<1>28. ASSUME NEW s \in Streams, worker_gives_up(s) PROVE ObjectInv'
  BY <1>28, ObjectKept DEF worker_gives_up, GivenBack
<1>29. ASSUME NEW s \in Streams, worker_starts(s) PROVE ObjectInv'
  BY <1>29, ObjectKept DEF worker_starts
<1>30. ASSUME NEW s \in Streams, submit_response_nva(s) PROVE ObjectInv'
  BY <1>30 DEF submit_response_nva, Refused, cancel_locked, ObjectInv, TaskInv,
           TaskOf
<1>31. ASSUME NEW s \in Streams, h3_stream_response_complete(s) PROVE ObjectInv'
  BY <1>31, ObjectKept DEF h3_stream_response_complete
<1>32. ASSUME NEW s \in Streams, worker_sets_done(s) PROVE ObjectInv'
  BY <1>32, ObjectKept DEF worker_sets_done, WithDone
<1>33. ASSUME NEW s \in Streams, worker_returns(s) PROVE ObjectInv'
  BY <1>33, ObjectKept DEF worker_returns
<1> QED
  BY <1>1, <1>2, <1>3, <1>4, <1>5, <1>6, <1>7, <1>8, <1>9, <1>10, <1>11,
     <1>12, <1>13, <1>14, <1>15, <1>16, <1>17, <1>18, <1>19, <1>20, <1>21,
     <1>22, <1>23, <1>24, <1>25, <1>26, <1>27, <1>28, <1>29, <1>30, <1>31,
     <1>32, <1>33
     DEF Next, EventNext, WorkerNext, Terminated

\* Tasks stay with dispatched, tracked streams.
LEMMA TaskStep ==
    ASSUME TypeOK, ListInv, ObjectInv, TaskInv, [Next]_vars
    PROVE  TaskInv'
<1> USE DEF sessVars, readVars, respVars, objVars, taskVars, quicVars, ngVars,
            eventVars, drainFrame, workFrame
<1>0. /\ wpc \in [Streams -> {"idle", "queued", "run", "exit", "dec", "gone"}]
      /\ handled \in [Streams -> Nat] /\ dispatched \subseteq Streams
  BY DEF TypeOK, Flags
<1>1. CASE UNCHANGED vars
  BY <1>1, TaskKept DEF vars
<1>2. CASE service_session_pass
  BY <1>2, TaskKept DEF service_session_pass
<1>3. CASE goaway_sent
  BY <1>3, TaskKept DEF goaway_sent
<1>4. CASE pass_skipped
  BY <1>4, TaskKept DEF pass_skipped
<1>5. CASE accept_end
  BY <1>5, TaskKept DEF accept_end
<1>6. ASSUME NEW s \in Streams, track_stream(s) PROVE TaskInv'
  BY <1>6, TaskKept DEF track_stream
<1>7. ASSUME NEW s \in Streams, drain_one_stream(s) PROVE TaskInv'
  BY <1>7, TaskKept DEF drain_one_stream
<1>8. ASSUME NEW s \in Streams, write_stream(s) PROVE TaskInv'
  BY <1>8, TaskKept DEF write_stream, Writable
<1>9. ASSUME NEW s \in Streams, h3_process_request(s) PROVE TaskInv'
  <2>1. CASE s \in dispatched
    BY <1>9, <2>1, TaskKept DEF h3_process_request
  <2>2. /\ headers_complete' = headers_complete /\ worker_done' = worker_done
        /\ body_complete' = body_complete /\ streams' = streams
        /\ handled' = handled
    BY <1>9 DEF h3_process_request
  <2>3. CASE s \notin dispatched
    <3>1. /\ dispatched' = dispatched \cup {s} /\ cur' = s /\ wpc' = wpc
          /\ s \in headers_complete \cap body_complete
      BY <1>9, <2>3 DEF h3_process_request, ListInv
    <3>2. wpc[s] = "idle"
      BY <2>3 DEF TaskInv, TaskOf
    <3> QED
      BY <2>2, <3>1, <3>2 DEF TaskInv, TaskOf
  <2> QED
    BY <2>1, <2>3
<1>10. CASE read_data
  BY <1>10, TaskKept DEF read_data, nghttp3_conn_read_stream, read_quietly,
                     on_reset_stream, mark_ngh3_dead, on_stop_sending,
                     headers_arrive, cancel_locked, queue_free
<1>11. CASE feed_stream_fin
  BY <1>11, TaskKept DEF feed_stream_fin, nghttp3_conn_read_stream,
     read_quietly,
                     on_reset_stream, mark_ngh3_dead, on_stop_sending,
                     headers_arrive, cancel_locked, queue_free
<1>12. CASE drain_goes_on
  BY <1>12, TaskKept DEF drain_goes_on
<1>13. CASE on_stream_close
  BY <1>13, TaskKept DEF on_stream_close, cancel_locked, queue_free
<1>14. CASE drain_check
  BY <1>14, TaskKept DEF drain_check, Ready
<1>15. CASE drain_end
  BY <1>15, TaskKept DEF drain_end
<1>16. CASE reclaim_streams
  <2>1. streams \ streams' \subseteq worker_done
    BY <1>16 DEF reclaim_streams, Reclaimable
  <2> QED
    BY <1>16, <2>1, TaskKept DEF reclaim_streams
<1>17. CASE unblock_writable_streams
  BY <1>17, TaskKept DEF unblock_writable_streams, TypeOK
<1>18. CASE flush_nghttp3
  BY <1>18, TaskKept DEF flush_nghttp3, TypeOK
<1>19. CASE dispatch_begin
  BY <1>19, TaskKept DEF dispatch_begin
<1>20. CASE process_nopool
  <2>1. /\ cur \in streams /\ cur \in Streams /\ wpc[cur] = "idle"
        /\ cur \in dispatched \cap headers_complete \cap body_complete
    BY <1>20 DEF process_nopool, ListInv, AtStream, TypeOK, Flags, TaskInv
  <2>2. /\ headers_complete' = headers_complete /\ worker_done' = worker_done
        /\ body_complete' = body_complete /\ streams' = streams
        /\ handled' = handled
    BY <1>20 DEF process_nopool
  <2>3. dispatched' = dispatched \ {cur} /\ wpc' = wpc /\ epc' = "process"
    BY <1>20 DEF process_nopool, GivenBack
  <2> QED
    BY <2>1, <2>2, <2>3 DEF TaskInv, TaskOf
<1>21. CASE process_count
  BY <1>21, TaskKept DEF process_count, Counted
<1>22. CASE process_push
  <2>1. /\ cur \in streams /\ cur \in Streams /\ wpc[cur] = "idle"
        /\ cur \in dispatched \cap headers_complete \cap body_complete
    BY <1>22 DEF process_push, ListInv, AtStream, TypeOK, Flags, TaskInv
  <2>2. /\ headers_complete' = headers_complete /\ worker_done' = worker_done
        /\ body_complete' = body_complete /\ streams' = streams
        /\ handled' = handled
    BY <1>22 DEF process_push
  <2>3. epc' = "process"
    BY <1>22 DEF process_push
  <2>4. CASE wpc' = [wpc EXCEPT ![cur] = "queued"] /\ dispatched' = dispatched
    <3>1. ASSUME NEW x \in Streams PROVE TaskOf(x)'
      BY <2>1, <2>2, <2>4, <1>0 DEF TaskInv, TaskOf
    <3> QED
      BY <2>3, <3>1 DEF TaskInv
  <2>5. CASE wpc' = wpc /\ dispatched' = dispatched \ {cur}
    BY <2>1, <2>2, <2>3, <2>5 DEF TaskInv, TaskOf
  <2> QED
    BY <1>22, <2>4, <2>5 DEF process_push, GivenBack
<1>23. CASE dispatch_end
  BY <1>23, TaskKept DEF dispatch_end
<1>24. CASE session_keep
  BY <1>24, TaskKept DEF session_keep
<1>25. CASE h3_session_destroy
  BY <1>25, TaskKept DEF h3_session_destroy, cancel_locked
<1>26. CASE worker_leaves
  BY <1>26, TaskKept DEF worker_leaves, LeftCount
<1>27. ASSUME NEW s \in Streams, peer_acts(s) PROVE TaskInv'
  BY <1>27, TaskKept DEF peer_acts
<1>28. ASSUME NEW s \in Streams, worker_gives_up(s) PROVE TaskInv'
  <2>1. /\ wpc[s] = "queued" /\ wpc' = [wpc EXCEPT ![s] = "idle"]
        /\ handled' = handled
        /\ worker_done' = worker_done /\ dispatched' = dispatched \ {s}
    BY <1>28 DEF worker_gives_up, GivenBack
  <2>2. /\ headers_complete' = headers_complete /\ epc' = epc /\ cur' = cur
        /\ body_complete' = body_complete /\ streams' = streams
    BY <1>28 DEF worker_gives_up
  <2>3. ASSUME NEW x \in Streams PROVE TaskOf(x)'
    <3>1. TaskOf(x)
      BY DEF TaskInv
    <3>2. CASE x = s
      <4>1. wpc'[x] = "idle" /\ handled'[x] = 0
        BY <2>1, <3>1, <3>2, <1>0 DEF TaskOf
      <4> QED
        BY <2>1, <2>2, <3>1, <3>2, <4>1 DEF TaskOf
    <3>3. CASE x # s
      BY <2>1, <2>2, <3>1, <3>3, <1>0 DEF TaskOf
    <3> QED
      BY <3>2, <3>3
  <2>4. ASSUME epc \in {"count", "push"}
        PROVE  wpc'[cur] = "idle" /\ cur \in dispatched'
    <3>1. wpc[cur] = "idle" /\ cur \in dispatched /\ cur \in Streams
      BY <2>4, <1>0 DEF TaskInv
    <3>2. cur # s
      BY <2>1, <3>1
    <3> QED
      BY <2>1, <3>1, <3>2, <1>0
  <2> QED
    BY <2>2, <2>3, <2>4 DEF TaskInv
<1>29. ASSUME NEW s \in Streams, worker_starts(s) PROVE TaskInv'
  <2>1. /\ wpc[s] = "queued" /\ wpc' = [wpc EXCEPT ![s] = "run"]
        /\ handled' = [handled EXCEPT ![s] = @ + 1]
        /\ worker_done' = worker_done /\ dispatched' = dispatched
    BY <1>29 DEF worker_starts
  <2>2. /\ headers_complete' = headers_complete /\ epc' = epc /\ cur' = cur
        /\ body_complete' = body_complete /\ streams' = streams
    BY <1>29 DEF worker_starts
  <2>3. ASSUME NEW x \in Streams PROVE TaskOf(x)'
    <3>1. TaskOf(x)
      BY DEF TaskInv
    <3>2. CASE x = s
      <4>1. wpc'[x] = "run" /\ handled'[x] = 1
        BY <2>1, <3>1, <3>2, <1>0 DEF TaskOf
      <4> QED
        BY <2>1, <2>2, <3>1, <3>2, <4>1 DEF TaskOf
    <3>3. CASE x # s
      BY <2>1, <2>2, <3>1, <3>3, <1>0 DEF TaskOf
    <3> QED
      BY <3>2, <3>3
  <2>4. ASSUME epc \in {"count", "push"}
        PROVE  wpc'[cur] = "idle" /\ cur \in dispatched'
    <3>1. wpc[cur] = "idle" /\ cur \in dispatched /\ cur \in Streams
      BY <2>4, <1>0 DEF TaskInv
    <3>2. cur # s
      BY <2>1, <3>1
    <3> QED
      BY <2>1, <3>1, <3>2, <1>0
  <2> QED
    BY <2>2, <2>3, <2>4 DEF TaskInv
<1>30. ASSUME NEW s \in Streams, submit_response_nva(s) PROVE TaskInv'
  BY <1>30, TaskKept DEF submit_response_nva, Refused, cancel_locked
<1>31. ASSUME NEW s \in Streams, h3_stream_response_complete(s) PROVE TaskInv'
  <2>1. /\ wpc[s] = "run" /\ wpc' = [wpc EXCEPT ![s] = "exit"]
        /\ handled' = handled
        /\ worker_done' = worker_done /\ dispatched' = dispatched
    BY <1>31 DEF h3_stream_response_complete
  <2>2. /\ headers_complete' = headers_complete /\ epc' = epc /\ cur' = cur
        /\ body_complete' = body_complete /\ streams' = streams
    BY <1>31 DEF h3_stream_response_complete
  <2>3. ASSUME NEW x \in Streams PROVE TaskOf(x)'
    <3>1. TaskOf(x)
      BY DEF TaskInv
    <3>2. CASE x = s
      <4>1. wpc'[x] = "exit" /\ handled'[x] = 1
        BY <2>1, <3>1, <3>2, <1>0 DEF TaskOf
      <4> QED
        BY <2>1, <2>2, <3>1, <3>2, <4>1 DEF TaskOf
    <3>3. CASE x # s
      BY <2>1, <2>2, <3>1, <3>3, <1>0 DEF TaskOf
    <3> QED
      BY <3>2, <3>3
  <2>4. ASSUME epc \in {"count", "push"}
        PROVE  wpc'[cur] = "idle" /\ cur \in dispatched'
    <3>1. wpc[cur] = "idle" /\ cur \in dispatched /\ cur \in Streams
      BY <2>4, <1>0 DEF TaskInv
    <3>2. cur # s
      BY <2>1, <3>1
    <3> QED
      BY <2>1, <3>1, <3>2, <1>0
  <2> QED
    BY <2>2, <2>3, <2>4 DEF TaskInv
<1>32. ASSUME NEW s \in Streams, worker_sets_done(s) PROVE TaskInv'
  <2>1. /\ wpc[s] = "exit" /\ wpc' = [wpc EXCEPT ![s] = "dec"]
        /\ handled' = handled
        /\ worker_done' = worker_done \cup {s} /\ dispatched' = dispatched
    BY <1>32 DEF worker_sets_done, WithDone
  <2>2. /\ headers_complete' = headers_complete /\ epc' = epc /\ cur' = cur
        /\ body_complete' = body_complete /\ streams' = streams
    BY <1>32 DEF worker_sets_done
  <2>3. ASSUME NEW x \in Streams PROVE TaskOf(x)'
    <3>1. TaskOf(x)
      BY DEF TaskInv
    <3>2. CASE x = s
      <4>1. wpc'[x] = "dec" /\ handled'[x] = 1
        BY <2>1, <3>1, <3>2, <1>0 DEF TaskOf
      <4> QED
        BY <2>1, <2>2, <3>1, <3>2, <4>1 DEF TaskOf
    <3>3. CASE x # s
      BY <2>1, <2>2, <3>1, <3>3, <1>0 DEF TaskOf
    <3> QED
      BY <3>2, <3>3
  <2>4. ASSUME epc \in {"count", "push"}
        PROVE  wpc'[cur] = "idle" /\ cur \in dispatched'
    <3>1. wpc[cur] = "idle" /\ cur \in dispatched /\ cur \in Streams
      BY <2>4, <1>0 DEF TaskInv
    <3>2. cur # s
      BY <2>1, <3>1
    <3> QED
      BY <2>1, <3>1, <3>2, <1>0
  <2> QED
    BY <2>2, <2>3, <2>4 DEF TaskInv
<1>33. ASSUME NEW s \in Streams, worker_returns(s) PROVE TaskInv'
  <2>1. /\ wpc[s] = "dec" /\ wpc' = [wpc EXCEPT ![s] = "gone"]
        /\ handled' = handled
        /\ worker_done' = worker_done /\ dispatched' = dispatched
    BY <1>33 DEF worker_returns
  <2>2. /\ headers_complete' = headers_complete /\ epc' = epc /\ cur' = cur
        /\ body_complete' = body_complete /\ streams' = streams
    BY <1>33 DEF worker_returns
  <2>3. ASSUME NEW x \in Streams PROVE TaskOf(x)'
    <3>1. TaskOf(x)
      BY DEF TaskInv
    <3>2. CASE x = s
      <4>1. wpc'[x] = "gone" /\ handled'[x] = 1
        BY <2>1, <3>1, <3>2, <1>0 DEF TaskOf
      <4> QED
        BY <2>1, <2>2, <3>1, <3>2, <4>1 DEF TaskOf
    <3>3. CASE x # s
      BY <2>1, <2>2, <3>1, <3>3, <1>0 DEF TaskOf
    <3> QED
      BY <3>2, <3>3
  <2>4. ASSUME epc \in {"count", "push"}
        PROVE  wpc'[cur] = "idle" /\ cur \in dispatched'
    <3>1. wpc[cur] = "idle" /\ cur \in dispatched /\ cur \in Streams
      BY <2>4, <1>0 DEF TaskInv
    <3>2. cur # s
      BY <2>1, <3>1
    <3> QED
      BY <2>1, <3>1, <3>2, <1>0
  <2> QED
    BY <2>2, <2>3, <2>4 DEF TaskInv
<1> QED
  BY <1>1, <1>2, <1>3, <1>4, <1>5, <1>6, <1>7, <1>8, <1>9, <1>10, <1>11,
     <1>12, <1>13, <1>14, <1>15, <1>16, <1>17, <1>18, <1>19, <1>20, <1>21,
     <1>22, <1>23, <1>24, <1>25, <1>26, <1>27, <1>28, <1>29, <1>30, <1>31,
     <1>32, <1>33
     DEF Next, EventNext, WorkerNext, Terminated

\* SessionInv is inductive.
THEOREM SessionInvariant == Spec => []SessionInv
<1>1. Init => SessionInv
  <2> SUFFICES ASSUME Init PROVE SessionInv
    OBVIOUS
  <2>1. Busy = {} /\ Cardinality({}) = 0
    BY FS_EmptySet DEF Init, Busy
  <2>2. \A s \in Streams : Queued(s) = 0
    <3> TAKE s \in Streams
    <3>1. pending_free = <<>>
      BY DEF Init
    <3>2. {k \in 1..Len(pending_free) : pending_free[k] = s} = {}
      BY <3>1
    <3> QED
      BY <3>2, FS_EmptySet DEF Queued
  <2>3. TypeOK
    <3>1. /\ pending_free \in Seq(Streams)
          /\ frees \in [Streams -> Nat] /\ handled \in [Streams -> Nat]
      BY DEF Init
    <3>2. /\ peer \in [Streams -> {"unseen", "open", "fin", "cut"}]
          /\ wpc \in [Streams -> {"idle", "queued", "run", "exit", "dec", "gone"}]
      BY DEF Init
    <3>3. /\ failures \in 0..MaxFailures /\ leaving \in Nat
          /\ active_tasks \in Nat /\ blocked_streams \in Int
      BY SessionAssumption DEF Init
    <3> QED
      BY <3>1, <3>2, <3>3 DEF Init, TypeOK, Flags
  <2>4. ListInv /\ ObjectInv /\ TaskInv
    BY DEF Init, ListInv, ObjectInv, TaskInv, TaskOf, AtStream
  <2>5. FreeInv
    BY <2>2 DEF Init, FreeInv, FreedOnce
  <2>6. CountInv
    <3>1. active_tasks = 0 /\ leaving = 0 /\ epc = "poll"
      BY DEF Init
    <3> QED
      BY <2>1, <3>1 DEF CountInv, TasksCounted
  <2>7. BlockInv
    BY <2>1 DEF Init, BlockInv, BlockedCounted
  <2> QED
    BY <2>3, <2>4, <2>5, <2>6, <2>7 DEF SessionInv
<1>2. SessionInv /\ [Next]_vars => SessionInv'
  <2> SUFFICES ASSUME SessionInv, [Next]_vars PROVE SessionInv'
    OBVIOUS
  <2> USE DEF SessionInv
  <2>1. TypeOK'
    BY SessionTypeStep DEF CountInv
  <2>2. ListInv' /\ ObjectInv' /\ TaskInv'
    BY ListStep, ObjectStep, TaskStep
  <2>3. FreeInv' /\ CountInv' /\ BlockInv'
    BY FreeStep, CountStep, BlockStep
  <2> QED
    BY <2>1, <2>2, <2>3
<1> QED
  BY <1>1, <1>2, PTL DEF Spec

\* h3_session_drain_streams destroys the pool of a stream only when neither a
\* worker nor the event thread nor a callback of nghttp3 can reach it again,
\* for any number of streams and any number of failures.
THEOREM SafeReclaim == Spec => []ReclaimIsSafe
<1>1. SessionInv => ReclaimIsSafe
  <2> SUFFICES ASSUME SessionInv, NEW s \in reclaimed, s \in Reachable
               PROVE  FALSE
    BY DEF ReclaimIsSafe
  <2>1. s \in Streams /\ s \notin streams /\ s # None
    BY SessionAssumption DEF SessionInv, TypeOK, Flags, ObjectInv
  <2>2. wpc[s] \notin {"queued", "run", "exit"}
    BY <2>1 DEF SessionInv, TaskInv, TaskOf
  <2>3. s \notin todo \cup completed \cup {cur}
    BY <2>1 DEF SessionInv, ListInv
  <2>4. s \notin ng_open \cap response_submitted
    BY <2>1 DEF SessionInv, ObjectInv
  <2> QED
    BY <2>2, <2>3, <2>4 DEF Reachable
<1> QED
  BY <1>1, SessionInvariant, PTL

\* active_tasks is exact: on every path of dispatch and of stream_worker each
\* task is counted once and uncounted once.
THEOREM TaskCountIsExact == Spec => []TasksCounted
<1>1. SessionInv => TasksCounted
  BY DEF SessionInv, CountInv
<1> QED
  BY <1>1, SessionInvariant, PTL

\* The session is destroyed only after the last access of the last task.
THEOREM TasksAreWaitedFor == Spec => []SessionOutlivesTasks
<1>1. SessionInv => SessionOutlivesTasks
  <2> SUFFICES ASSUME SessionInv PROVE SessionOutlivesTasks
    OBVIOUS
  <2>1. epc = "gone" => leaving = 0 /\ Busy = {}
    BY GoneIsIdle DEF SessionInv
  <2> QED
    BY <2>1 DEF SessionOutlivesTasks, Busy
<1> QED
  BY <1>1, SessionInvariant, PTL

\* blocked_streams, the shortcut of unblock_writable_streams, is exact, and
\* nghttp3 skips no stream but those it counts.
THEOREM BlockedAreCounted == Spec => []BlockedCounted
<1>1. SessionInv => BlockedCounted
  BY DEF SessionInv, BlockInv
<1> QED
  BY <1>1, SessionInvariant, PTL

\* A QUIC stream object has one owner and is freed at most once, on whichever
\* of the ways that lead to h3q_stream_free.
THEOREM ObjectsAreFreedOnce == Spec => []FreedOnce
<1>1. SessionInv => FreedOnce
  BY DEF SessionInv, FreeInv
<1> QED
  BY <1>1, SessionInvariant, PTL

\* However dispatches fail and are retried, a request goes to httpd at most
\* once, and complete.
THEOREM RequestsHandledOnce == Spec => []HandledOnce
<1>1. SessionInv => HandledOnce
  <2> SUFFICES ASSUME SessionInv, NEW s \in Streams
               PROVE  /\ handled[s] <= 1
                      /\ handled[s] = 1 => s \in headers_complete \cap body_complete
    BY DEF HandledOnce
  <2>1. TaskOf(s)
    BY DEF SessionInv, TaskInv
  <2> QED
    BY <2>1 DEF TaskOf
<1> QED
  BY <1>1, SessionInvariant, PTL

\* What nghttp3 offers for writing is tracked and has its QUIC stream, whatever
\* the order in which a response is submitted and its stream closed.
THEOREM WritableStreamsExist == Spec => []WritableHasStream
<1>1. SessionInv => WritableHasStream
  BY DEF SessionInv, ObjectInv, WritableHasStream, Writable
<1> QED
  BY <1>1, SessionInvariant, PTL
=============================================================================
