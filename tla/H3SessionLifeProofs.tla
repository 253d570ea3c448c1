------------------------ MODULE H3SessionLifeProofs ------------------------
(***************************************************************************)
(* That sessions and streams of H3Session live the lives the abstract      *)
(* modules describe, for any finite set of streams: a session's is that of *)
(* SessionLife, a stream's that of StreamLife, and a reclaimed stream is   *)
(* never touched again.  The proofs rest on SessionInv (H3SessionProofs)   *)
(* and on HandInv, which says who holds a stream.                          *)
(***************************************************************************)
EXTENDS H3SessionProofs

-----------------------------------------------------------------------------
(***************************************************************************)
(* Streams whose pool was destroyed.                                       *)
(***************************************************************************)
\* What the invariant says of a reclaimed stream.
LEMMA ReclaimedApart ==
    ASSUME SessionInv, NEW r \in reclaimed
    PROVE  /\ r \in Streams /\ r \notin streams \cup qstream \cup write_blocked
           /\ r \notin todo \cup completed \cup {cur}
           /\ wpc[r] \notin {"queued", "run", "exit"}
<1>1. r \in Streams /\ r \notin streams /\ r # None
  BY SessionAssumption DEF SessionInv, TypeOK, Flags, ObjectInv
<1>2. wpc[r] \notin {"queued", "run", "exit"}
  BY <1>1 DEF SessionInv, TaskInv, TaskOf
<1>3. r \notin todo \cup completed \cup {cur}
  BY <1>1 DEF SessionInv, ListInv
<1>4. r \notin qstream \cup write_blocked
  BY <1>1 DEF SessionInv, ObjectInv, BlockInv, BlockedCounted
<1> QED
  BY <1>1, <1>2, <1>3, <1>4

\* The fields of a stream, one by one.
Same(r) ==
    /\ r \in streams' <=> r \in streams
    /\ r \in qstream' <=> r \in qstream
    /\ r \in done' <=> r \in done
    /\ r \in write_blocked' <=> r \in write_blocked
    /\ r \in headers_complete' <=> r \in headers_complete
    /\ r \in body_complete' <=> r \in body_complete
    /\ r \in dispatched' <=> r \in dispatched
    /\ r \in worker_done' <=> r \in worker_done
    /\ r \in response_submitted' <=> r \in response_submitted
    /\ r \in response_complete' <=> r \in response_complete
    /\ r \in response_cancelled' <=> r \in response_cancelled

LEMMA UntouchedStep ==
    ASSUME SessionInv, [Next]_vars, NEW r \in reclaimed
    PROVE  Same(r)
<1>0. /\ r \notin streams \cup qstream \cup write_blocked
      /\ r \notin todo \cup completed \cup {cur}
      /\ wpc[r] \notin {"queued", "run", "exit"}
  BY ReclaimedApart
<1> USE <1>0 DEF Same, sessVars, readVars, respVars, objVars, taskVars, ngVars,
            eventVars, drainFrame, workFrame
<1>1. CASE UNCHANGED vars
  BY <1>1 DEF vars
<1>2. CASE service_session_pass
  BY <1>2 DEF service_session_pass
<1>3. CASE goaway_sent
  BY <1>3 DEF goaway_sent
<1>4. CASE pass_skipped
  BY <1>4 DEF pass_skipped
<1>5. CASE accept_end
  BY <1>5 DEF accept_end
<1>6. ASSUME NEW s \in Streams, track_stream(s) PROVE Same(r)
  BY <1>6 DEF track_stream
<1>7. ASSUME NEW s \in Streams, drain_one_stream(s) PROVE Same(r)
  BY <1>7 DEF drain_one_stream
<1>8. ASSUME NEW s \in Streams, write_stream(s) PROVE Same(r)
  BY <1>8 DEF write_stream
<1>9. ASSUME NEW s \in Streams, h3_process_request(s) PROVE Same(r)
  <2>1. r # s
    BY <1>9 DEF h3_process_request
  <2> QED
    BY <1>9, <2>1 DEF h3_process_request
<1>10. CASE read_data
  BY <1>10 DEF read_data, nghttp3_conn_read_stream, read_quietly,
         on_reset_stream, mark_ngh3_dead, on_stop_sending, headers_arrive,
         cancel_locked, queue_free
<1>11. CASE feed_stream_fin
  BY <1>11 DEF feed_stream_fin, nghttp3_conn_read_stream, read_quietly,
         on_reset_stream, mark_ngh3_dead, on_stop_sending, headers_arrive,
         cancel_locked, queue_free
<1>12. CASE drain_goes_on
  BY <1>12 DEF drain_goes_on
<1>13. CASE on_stream_close
  BY <1>13 DEF on_stream_close, cancel_locked, queue_free
<1>14. CASE drain_check
  BY <1>14 DEF drain_check
<1>15. CASE drain_end
  BY <1>15 DEF drain_end
<1>16. CASE reclaim_streams
  BY <1>16 DEF reclaim_streams, Reclaimable
<1>17. CASE unblock_writable_streams
  BY <1>17 DEF unblock_writable_streams
<1>18. CASE flush_nghttp3
  BY <1>18 DEF flush_nghttp3
<1>19. CASE dispatch_begin
  BY <1>19 DEF dispatch_begin
<1>20. CASE process_nopool
  <2>1. cur # r
    OBVIOUS
  <2> QED
    BY <1>20, <2>1 DEF process_nopool, GivenBack
<1>21. CASE process_count
  BY <1>21 DEF process_count
<1>22. CASE process_push
  BY <1>22 DEF process_push, GivenBack
<1>23. CASE dispatch_end
  BY <1>23 DEF dispatch_end
<1>24. CASE session_keep
  BY <1>24 DEF session_keep
<1>25. CASE h3_session_destroy
  BY <1>25 DEF h3_session_destroy, cancel_locked
<1>26. CASE worker_leaves
  BY <1>26 DEF worker_leaves
<1>27. ASSUME NEW s \in Streams, peer_acts(s) PROVE Same(r)
  BY <1>27 DEF peer_acts
<1>28. ASSUME NEW s \in Streams, worker_gives_up(s) PROVE Same(r)
  BY <1>28 DEF worker_gives_up, GivenBack
<1>29. ASSUME NEW s \in Streams, worker_starts(s) PROVE Same(r)
  BY <1>29 DEF worker_starts
<1>30. ASSUME NEW s \in Streams, submit_response_nva(s) PROVE Same(r)
  BY <1>30 DEF submit_response_nva, cancel_locked
<1>31. ASSUME NEW s \in Streams, h3_stream_response_complete(s) PROVE Same(r)
  BY <1>31 DEF h3_stream_response_complete
<1>32. ASSUME NEW s \in Streams, worker_sets_done(s) PROVE Same(r)
  BY <1>32 DEF worker_sets_done, WithDone
<1>33. ASSUME NEW s \in Streams, worker_returns(s) PROVE Same(r)
  BY <1>33 DEF worker_returns
<1> QED
  BY <1>1, <1>2, <1>3, <1>4, <1>5, <1>6, <1>7, <1>8, <1>9, <1>10, <1>11,
     <1>12, <1>13, <1>14, <1>15, <1>16, <1>17, <1>18, <1>19, <1>20,
     <1>21, <1>22, <1>23, <1>24, <1>25, <1>26, <1>27, <1>28, <1>29,
     <1>30, <1>31, <1>32, <1>33
     DEF Next, EventNext, WorkerNext, Terminated

\* No thread writes to a stream after its pool was destroyed, for any streams
\* and any failures: workers, callbacks of nghttp3 and the event thread's own
\* lists have all let go of it (h3_stream.c:347-359).
THEOREM ReclaimedIsUntouched == Spec => ReclaimedUntouched
<1>1. SessionInv /\ [Next]_vars
          => [\A s \in reclaimed : Fields(s)' = Fields(s)]_vars
  <2> SUFFICES ASSUME SessionInv, [Next]_vars, NEW s \in reclaimed
               PROVE  Fields(s)' = Fields(s)
    OBVIOUS
  <2>1. Same(s)
    BY UntouchedStep
  <2> QED
    BY <2>1 DEF Same, Fields
<1> QED
  BY <1>1, SessionInvariant, PTL DEF Spec, ReclaimedUntouched

-----------------------------------------------------------------------------
(***************************************************************************)
(* The session as the loop over the sessions sees it.                      *)
(***************************************************************************)
\* Only the pass that aborts the session, and those that find it aborted, see
\* the flag; and only an aborted session is reaped.
EndInv ==
    /\ aborted => epc \in {"poll", "reap", "gone"}
    /\ epc \in {"reap", "gone"} => aborted

\* A step of the session is one of SessionLife, or none.
LEMMA LifeStep ==
    ASSUME SessionInv, EndInv, [Next]_vars
    PROVE  EndInv' /\ [Life!Next]_(Life!vars)
<1>0. TypeOK /\ TasksCounted
  BY DEF SessionInv, CountInv
<1>a. /\ active_tasks \in Nat /\ aborted \in BOOLEAN
      /\ eret \in {"poll", "goaway", "abort", "dispatch"}
      /\ epc = "gone" => active_tasks = 0
  BY DEF SessionInv, CountInv, TypeOK
<1> USE <1>a DEF EndInv, sessVars, eventVars, drainFrame, workFrame, Life!vars
<1>1. CASE UNCHANGED vars
  BY <1>1 DEF vars
<1>2. CASE service_session_pass
  <2>2. CASE aborted
    BY <1>2, <2>2 DEF service_session_pass
  <2>3. CASE ~aborted
    BY <1>2, <2>3 DEF service_session_pass, Life!Next, Life!Abort
  <2> QED
    BY <2>2, <2>3
<1>3. CASE goaway_sent
  BY <1>3 DEF goaway_sent, Life!Next, Life!Abort
<1>4. CASE pass_skipped
  BY <1>4 DEF pass_skipped
<1>5. CASE accept_end
  BY <1>5 DEF accept_end
<1>6. ASSUME NEW s \in Streams, track_stream(s)
      PROVE  EndInv' /\ [Life!Next]_(Life!vars)
  BY <1>6 DEF track_stream
<1>7. ASSUME NEW s \in Streams, drain_one_stream(s)
      PROVE  EndInv' /\ [Life!Next]_(Life!vars)
  BY <1>7 DEF drain_one_stream
<1>8. ASSUME NEW s \in Streams, write_stream(s)
      PROVE  EndInv' /\ [Life!Next]_(Life!vars)
  BY <1>8 DEF write_stream
<1>9. ASSUME NEW s \in Streams, h3_process_request(s)
      PROVE  EndInv' /\ [Life!Next]_(Life!vars)
  BY <1>9 DEF h3_process_request
<1>10. CASE read_data
  BY <1>10 DEF read_data
<1>11. CASE feed_stream_fin
  BY <1>11 DEF feed_stream_fin
<1>12. CASE drain_goes_on
  BY <1>12 DEF drain_goes_on
<1>13. CASE on_stream_close
  BY <1>13 DEF on_stream_close
<1>14. CASE drain_check
  BY <1>14 DEF drain_check
<1>15. CASE drain_end
  BY <1>15 DEF drain_end
<1>16. CASE reclaim_streams
  BY <1>16 DEF reclaim_streams
<1>17. CASE unblock_writable_streams
  BY <1>17 DEF unblock_writable_streams
<1>18. CASE flush_nghttp3
  BY <1>18 DEF flush_nghttp3
<1>19. CASE dispatch_begin
  BY <1>19 DEF dispatch_begin, Life!Next, Life!Abort
<1>20. CASE process_nopool
  BY <1>20 DEF process_nopool
<1>21. CASE process_count
  <2>1. ~aborted /\ epc # "gone"
    BY <1>21 DEF process_count
  <2> QED
    BY <1>21, <2>1 DEF process_count, Counted, Life!Next, Life!Dispatch
<1>22. CASE process_push
  <2>1. active_tasks > 0
    BY <1>22, <1>0, CountPositive DEF process_push
  <2> QED
    BY <1>22, <2>1 DEF process_push, Life!Next, Life!Return
<1>23. CASE dispatch_end
  BY <1>23 DEF dispatch_end
<1>24. CASE session_keep
  BY <1>24 DEF session_keep
<1>25. CASE h3_session_destroy
  BY <1>25 DEF h3_session_destroy, Life!Next, Life!Destroy
<1>26. CASE worker_leaves
  <2>1. active_tasks > 0
    BY <1>26, <1>0, CountPositive DEF worker_leaves
  <2> QED
    BY <1>26, <2>1 DEF worker_leaves, LeftCount, Life!Next, Life!Return
<1>27. ASSUME NEW s \in Streams, peer_acts(s)
       PROVE  EndInv' /\ [Life!Next]_(Life!vars)
  BY <1>27 DEF peer_acts
<1>28. ASSUME NEW s \in Streams, worker_gives_up(s)
       PROVE  EndInv' /\ [Life!Next]_(Life!vars)
  BY <1>28 DEF worker_gives_up
<1>29. ASSUME NEW s \in Streams, worker_starts(s)
       PROVE  EndInv' /\ [Life!Next]_(Life!vars)
  BY <1>29 DEF worker_starts
<1>30. ASSUME NEW s \in Streams, submit_response_nva(s)
       PROVE  EndInv' /\ [Life!Next]_(Life!vars)
  BY <1>30 DEF submit_response_nva
<1>31. ASSUME NEW s \in Streams, h3_stream_response_complete(s)
       PROVE  EndInv' /\ [Life!Next]_(Life!vars)
  BY <1>31 DEF h3_stream_response_complete
<1>32. ASSUME NEW s \in Streams, worker_sets_done(s)
       PROVE  EndInv' /\ [Life!Next]_(Life!vars)
  BY <1>32 DEF worker_sets_done
<1>33. ASSUME NEW s \in Streams, worker_returns(s)
       PROVE  EndInv' /\ [Life!Next]_(Life!vars)
  <2>1. active_tasks > 0
    BY <1>33, <1>0, CountPositive DEF worker_returns, Busy
  <2> QED
    BY <1>33, <2>1 DEF worker_returns, Life!Next, Life!Return
<1> QED
  BY <1>1, <1>2, <1>3, <1>4, <1>5, <1>6, <1>7, <1>8, <1>9, <1>10, <1>11,
     <1>12, <1>13, <1>14, <1>15, <1>16, <1>17, <1>18, <1>19, <1>20,
     <1>21, <1>22, <1>23, <1>24, <1>25, <1>26, <1>27, <1>28, <1>29,
     <1>30, <1>31, <1>32, <1>33
     DEF Next, EventNext, WorkerNext, Terminated

\* For any streams and any failures, the session keeps to SessionLife: its
\* passes add tasks only while it is not aborted, and h3_session_destroy comes
\* once, when it is aborted and every task has decremented active_tasks.
THEOREM SessionImplementsLife == Spec => ImplementsLife
<1>1. Init => Life!Init /\ EndInv
  BY DEF Init, Life!Init, EndInv
<1>2. SessionInv /\ EndInv /\ [Next]_vars => EndInv' /\ [Life!Next]_(Life!vars)
  BY LifeStep
<1> QED
  BY <1>1, <1>2, SessionInvariant, PTL DEF Spec, ImplementsLife, Life!Spec

-----------------------------------------------------------------------------
(***************************************************************************)
(* The protocol of a stream's flags.                                       *)
(***************************************************************************)
\* What the flags of a stream say about its task.
HandOf(s) ==
    /\ s \in response_submitted => wpc[s] \in {"run", "exit", "dec", "gone"}
    /\ s \in response_complete =>
          s \in response_cancelled \/ wpc[s] \in {"exit", "dec", "gone"}
    /\ wpc[s] \in {"exit", "dec", "gone"} => s \in response_complete
    /\ wpc[s] \in {"dec", "gone"} => s \in worker_done
    /\ s \in dispatched /\ wpc[s] = "idle" => epc \in {"count", "push"} /\ cur = s
    /\ s \in response_cancelled =>
          s \in done \/ wpc[s] \in {"run", "exit", "dec", "gone"} \/ epc = "gone"

\* A stream is cancelled when it loses its QUIC object, and when it is done
\* unless nghttp3 has failed; nghttp3 knows of it as long as it has its object.
HandInv ==
    /\ dispatched \subseteq body_complete
    /\ response_cancelled \subseteq response_complete
    /\ headers_complete \subseteq streams \cup reclaimed
    /\ streams \ qstream \subseteq response_cancelled
    /\ epc # "gone" => headers_complete \cap qstream \subseteq ng_open
    /\ epc \in {"flush", "process", "count", "push"} => ~ngh3_dead
    /\ ~ngh3_dead => done \subseteq response_cancelled
    /\ \A s \in Streams : HandOf(s)

\* Reading keeps them so: the stream was not dispatched.
LEMMA HandRead ==
    ASSUME TypeOK, ListInv, ObjectInv, TaskInv, HandInv, NEW fin \in BOOLEAN,
           cur \in streams \cap qstream, cur \notin body_complete,
           nghttp3_conn_read_stream(cur, fin), drainFrame,
           epc \in {"read", "finished"}, epc' \in {"read", "check", "close"}
    PROVE  HandInv'
<1>1. /\ cur \notin dispatched
      /\ wpc[cur] = "idle" /\ cur \notin response_submitted
  BY DEF HandInv, HandOf, TaskInv, TaskOf, TypeOK, Flags
<1>2. UNCHANGED <<streams, response_submitted, reclaimed, dispatched, worker_done,
                  wpc>>
  BY DEF drainFrame, taskVars
<1> USE <1>1, <1>2 DEF HandInv, HandOf
<1>3. CASE /\ read_quietly(cur) \/ on_reset_stream(cur) \/ mark_ngh3_dead(cur, fin)
           /\ body_complete \subseteq body_complete'
  <2>1. CASE read_quietly(cur)
    BY <1>3, <2>1 DEF read_quietly, headers_arrive
  <2>2. CASE on_reset_stream(cur)
    BY <1>3, <2>2 DEF on_reset_stream, headers_arrive, cancel_locked
  <2>3. CASE mark_ngh3_dead(cur, fin)
    BY <1>3, <2>3 DEF mark_ngh3_dead
  <2> QED
    BY <1>3, <2>1, <2>2, <2>3
<1>4. CASE on_stop_sending(cur) /\ body_complete \subseteq body_complete'
  BY <1>4 DEF on_stop_sending, headers_arrive, cancel_locked, queue_free
<1> QED
  BY <1>3, <1>4 DEF nghttp3_conn_read_stream

\* The flags of a stream and its task stay in step.
LEMMA HandStep ==
    ASSUME SessionInv, HandInv, [Next]_vars
    PROVE  HandInv'
<1>0. TypeOK /\ ListInv /\ ObjectInv /\ TaskInv
  BY DEF SessionInv
<1> USE <1>0 DEF HandInv, HandOf, sessVars, readVars, respVars, objVars, taskVars,
            ngVars, eventVars, drainFrame, workFrame
<1>1. CASE UNCHANGED vars
  BY <1>1 DEF vars
<1>2. CASE service_session_pass
  BY <1>2 DEF service_session_pass
<1>3. CASE goaway_sent
  BY <1>3 DEF goaway_sent
<1>4. CASE pass_skipped
  BY <1>4 DEF pass_skipped
<1>5. CASE accept_end
  BY <1>5 DEF accept_end
<1>6. ASSUME NEW s \in Streams, track_stream(s) PROVE HandInv'
  BY <1>6 DEF track_stream
<1>7. ASSUME NEW s \in Streams, drain_one_stream(s) PROVE HandInv'
  BY <1>7 DEF drain_one_stream
<1>8. ASSUME NEW s \in Streams, write_stream(s) PROVE HandInv'
  BY <1>8 DEF write_stream
<1>9. ASSUME NEW s \in Streams, h3_process_request(s) PROVE HandInv'
  BY <1>9 DEF h3_process_request, ListInv, TaskInv, TaskOf
<1>10. CASE read_data
  <2>1. cur \in streams \cap qstream /\ cur \notin body_complete
    BY <1>10 DEF read_data, ListInv, AtStream
  <2> QED
    BY <1>10, <2>1, HandRead DEF read_data
<1>11. CASE feed_stream_fin
  <2>1. cur \in streams \cap qstream /\ cur \notin body_complete
    BY <1>11 DEF feed_stream_fin, ListInv, AtStream
  <2> QED
    BY <1>11, <2>1, HandRead DEF feed_stream_fin
<1>12. CASE drain_goes_on
  BY <1>12 DEF drain_goes_on
<1>13. CASE on_stream_close
  BY <1>13 DEF on_stream_close, cancel_locked, queue_free
<1>14. CASE drain_check
  BY <1>14 DEF drain_check
<1>15. CASE drain_end
  BY <1>15 DEF drain_end
<1>16. CASE reclaim_streams
  BY <1>16 DEF reclaim_streams
<1>17. CASE unblock_writable_streams
  BY <1>17 DEF unblock_writable_streams, TypeOK
<1>18. CASE flush_nghttp3
  BY <1>18 DEF flush_nghttp3, TypeOK
<1>19. CASE dispatch_begin
  BY <1>19 DEF dispatch_begin
<1>20. CASE process_nopool
  BY <1>20 DEF process_nopool, GivenBack, TaskInv
<1>21. CASE process_count
  BY <1>21 DEF process_count
<1>22. CASE process_push
  <2>1. cur \in Streams
    BY <1>22 DEF process_push, ListInv, AtStream, TypeOK, Flags
  <2> QED
    BY <1>22, <2>1 DEF process_push, GivenBack, TaskInv, TypeOK
<1>23. CASE dispatch_end
  BY <1>23 DEF dispatch_end
<1>24. CASE session_keep
  BY <1>24 DEF session_keep
<1>25. CASE h3_session_destroy
  BY <1>25 DEF h3_session_destroy, cancel_locked
<1>26. CASE worker_leaves
  BY <1>26 DEF worker_leaves
<1>27. ASSUME NEW s \in Streams, peer_acts(s) PROVE HandInv'
  BY <1>27 DEF peer_acts
<1>28. ASSUME NEW s \in Streams, worker_gives_up(s) PROVE HandInv'
  BY <1>28 DEF worker_gives_up, GivenBack, TypeOK
<1>29. ASSUME NEW s \in Streams, worker_starts(s) PROVE HandInv'
  BY <1>29 DEF worker_starts
<1>30. ASSUME NEW s \in Streams, submit_response_nva(s) PROVE HandInv'
  BY <1>30 DEF submit_response_nva, cancel_locked
<1>31. ASSUME NEW s \in Streams, h3_stream_response_complete(s) PROVE HandInv'
  BY <1>31 DEF h3_stream_response_complete, TypeOK
<1>32. ASSUME NEW s \in Streams, worker_sets_done(s) PROVE HandInv'
  BY <1>32 DEF worker_sets_done, WithDone, TypeOK
<1>33. ASSUME NEW s \in Streams, worker_returns(s) PROVE HandInv'
  BY <1>33 DEF worker_returns
<1> QED
  BY <1>1, <1>2, <1>3, <1>4, <1>5, <1>6, <1>7, <1>8, <1>9, <1>10, <1>11,
     <1>12, <1>13, <1>14, <1>15, <1>16, <1>17, <1>18, <1>19, <1>20,
     <1>21, <1>22, <1>23, <1>24, <1>25, <1>26, <1>27, <1>28, <1>29,
     <1>30, <1>31, <1>32, <1>33
     DEF Next, EventNext, WorkerNext, Terminated

\* The step leaves alone what StreamLife sees of stream r.
Stays(r) == /\ r \in streams' <=> r \in streams
            /\ r \in reclaimed' <=> r \in reclaimed
            /\ r \in qstream' <=> r \in qstream
            /\ r \in ng_open' <=> r \in ng_open
            /\ r \in dispatched' <=> r \in dispatched
            /\ r \in response_submitted' <=> r \in response_submitted
            /\ r \in response_complete' <=> r \in response_complete
            /\ r \in response_cancelled' <=> r \in response_cancelled
            /\ r \in worker_done' <=> r \in worker_done
            /\ r \in done' <=> r \in done

LEMMA StaysIsStutter ==
    ASSUME NEW r \in Streams, Stays(r)
    PROVE  UNCHANGED Stream(r)!vars
BY DEF Stays, Stage, Stream!vars, Stream!response

\* Feeding the stream the event thread is at is a Read, and touches no other.
LEMMA StreamRead ==
    ASSUME SessionInv, HandInv, NEW r \in Streams, NEW fin \in BOOLEAN,
           cur \in streams \cap qstream, cur \notin body_complete,
           nghttp3_conn_read_stream(cur, fin), drainFrame
    PROVE  [Stream(r)!Next]_(Stream(r)!vars)
<1>1. UNCHANGED <<streams, reclaimed, dispatched, response_submitted, worker_done>>
  BY DEF drainFrame, taskVars
<1>2. CASE r # cur
  <2>1. Stays(r)
    BY <1>1, <1>2 DEF Stays, nghttp3_conn_read_stream, read_quietly,
       on_reset_stream, mark_ngh3_dead, on_stop_sending, headers_arrive,
       cancel_locked, queue_free
  <2> QED
    BY <2>1, StaysIsStutter
<1>3. CASE r = cur
  <2>1. /\ r \in streams
        /\ r \notin reclaimed /\ r \in qstream /\ r \notin dispatched
    BY <1>3 DEF SessionInv, ObjectInv, HandInv
  <2>2. Stage(r) = "held" /\ Stage(r)' = "held"
    BY <1>1, <2>1 DEF Stage
  <2>3. r \notin dispatched' /\ (r \in response_submitted' <=> r \in response_submitted)
        /\ (r \in worker_done' <=> r \in worker_done)
    BY <1>1, <2>1
  <2>4. CASE read_quietly(cur)
    <3>1. r \in ng_open => r \in ng_open'
      BY <1>3, <2>4 DEF read_quietly, headers_arrive
    <3> QED
      BY <2>1, <2>2, <2>3, <2>4, <3>1 DEF read_quietly, Stream!Read, Stream!Next
  <2>5. CASE on_reset_stream(cur)
    <3>1. /\ r \in ng_open' /\ r \in response_complete'
          /\ r \in response_cancelled' /\ r \in done' /\ r \in qstream'
      BY <1>3, <2>1, <2>5 DEF on_reset_stream, cancel_locked
    <3> QED
      BY <2>1, <2>2, <2>3, <3>1 DEF Stream!Read, Stream!Next
  <2>6. CASE mark_ngh3_dead(cur, fin)
    BY <1>3, <2>1, <2>2, <2>3, <2>6 DEF mark_ngh3_dead, Stream!Read, Stream!Next
  <2>7. CASE on_stop_sending(cur)
    <3>1. /\ r \in ng_open' /\ r \in response_complete'
          /\ r \in response_cancelled' /\ r \in done' /\ r \notin qstream'
      BY <1>3, <2>1, <2>7 DEF on_stop_sending, cancel_locked, queue_free
    <3> QED
      BY <2>1, <2>2, <2>3, <3>1 DEF Stream!Read, Stream!Next
  <2> QED
    BY <2>4, <2>5, <2>6, <2>7 DEF nghttp3_conn_read_stream
<1> QED
  BY <1>2, <1>3

\* A step of the session is for every stream one of StreamLife, or none.
LEMMA StreamStep ==
    ASSUME SessionInv, HandInv, [Next]_vars, NEW r \in Streams
    PROVE  [Stream(r)!Next]_(Stream(r)!vars)
<1>0. TypeOK /\ ListInv /\ ObjectInv /\ TaskInv /\ TasksCounted
  BY DEF SessionInv, CountInv
<1> USE <1>0 DEF Stays, sessVars, readVars, respVars, objVars, taskVars, ngVars,
            eventVars, drainFrame, workFrame
<1>1. CASE UNCHANGED vars
  BY <1>1, StaysIsStutter DEF vars
<1>2. CASE service_session_pass
  BY <1>2, StaysIsStutter DEF service_session_pass
<1>3. CASE goaway_sent
  BY <1>3, StaysIsStutter DEF goaway_sent
<1>4. CASE pass_skipped
  BY <1>4, StaysIsStutter DEF pass_skipped
<1>5. CASE accept_end
  BY <1>5, StaysIsStutter DEF accept_end
<1>6. ASSUME NEW s \in Streams, track_stream(s)
      PROVE  [Stream(r)!Next]_(Stream(r)!vars)
  <2>1. CASE r \in streams' <=> r \in streams
    <3>1. Stays(r)
      BY <1>6, <2>1 DEF track_stream, TypeOK, ObjectInv
    <3> QED
      BY <3>1, StaysIsStutter
  <2>2. CASE ~(r \in streams' <=> r \in streams)
    <3>1. r = s /\ r \notin streams \cup reclaimed /\ r \in qstream'
      BY <1>6, <2>2 DEF track_stream
    <3> QED
      BY <1>6, <2>2, <3>1 DEF track_stream, Stage, Stream!Next, Stream!Track,
         Stream!response
  <2> QED
    BY <2>1, <2>2
<1>7. ASSUME NEW s \in Streams, drain_one_stream(s)
      PROVE  [Stream(r)!Next]_(Stream(r)!vars)
  BY <1>7, StaysIsStutter DEF drain_one_stream
<1>8. ASSUME NEW s \in Streams, write_stream(s)
      PROVE  [Stream(r)!Next]_(Stream(r)!vars)
  BY <1>8, StaysIsStutter DEF write_stream
<1>9. ASSUME NEW s \in Streams, h3_process_request(s)
      PROVE  [Stream(r)!Next]_(Stream(r)!vars)
  <2>1. CASE r # s
    BY <1>9, <2>1, StaysIsStutter DEF h3_process_request
  <2>2. CASE r = s
    <3>1. /\ r \in streams /\ r \notin reclaimed /\ r \in headers_complete
          /\ r \notin dispatched
      BY <1>9, <2>2 DEF h3_process_request, ListInv, ObjectInv
    <3>2. wpc[r] = "idle" /\ r \notin worker_done /\ r \notin response_submitted
      BY <3>1 DEF TaskInv, TaskOf, HandInv, HandOf
    <3>3. /\ r \in response_complete <=> r \in response_cancelled
          /\ r \in done <=> r \in response_cancelled
          /\ r \notin response_cancelled => r \in qstream
          /\ r \in qstream => r \in ng_open
      BY <1>9, <3>1, <3>2 DEF h3_process_request, HandInv, HandOf
    <3>4. Stream(r)!Handover
      BY <3>1, <3>2, <3>3 DEF Stage, Stream!Handover
    <3> QED
      BY <1>9, <2>2, <3>1, <3>4 DEF h3_process_request, Stage, Stream!Next,
         Stream!Dispatch, Stream!response
  <2> QED
    BY <2>1, <2>2
<1>10. CASE read_data
  <2>1. cur \in streams \cap qstream /\ cur \notin body_complete
    BY <1>10 DEF read_data, ListInv, AtStream
  <2> QED
    BY <1>10, <2>1, StreamRead DEF read_data
<1>11. CASE feed_stream_fin
  <2>1. cur \in streams \cap qstream /\ cur \notin body_complete
    BY <1>11 DEF feed_stream_fin, ListInv, AtStream
  <2> QED
    BY <1>11, <2>1, StreamRead DEF feed_stream_fin
<1>12. CASE drain_goes_on
  BY <1>12, StaysIsStutter DEF drain_goes_on
<1>13. CASE on_stream_close
  <2>1. CASE r # cur
    BY <1>13, <2>1, StaysIsStutter DEF on_stream_close, cancel_locked,
       queue_free
  <2>2. CASE r = cur
    <3>1. r \in streams /\ r \notin reclaimed
      BY <1>13, <2>2 DEF on_stream_close, ListInv, AtStream, ObjectInv
    <3>2. CASE r \in qstream /\ write_finished(r) /\ r \in ng_open
      BY <1>13, <2>2, <3>1, <3>2 DEF on_stream_close, cancel_locked, queue_free,
         Stage, Stream!Next, Stream!Close
    <3>3. CASE ~(r \in qstream /\ write_finished(r) /\ r \in ng_open)
      BY <1>13, <2>2, <3>3, StaysIsStutter DEF on_stream_close
    <3> QED
      BY <3>2, <3>3
  <2> QED
    BY <2>1, <2>2
<1>14. CASE drain_check
  BY <1>14, StaysIsStutter DEF drain_check
<1>15. CASE drain_end
  BY <1>15, StaysIsStutter DEF drain_end
<1>16. CASE reclaim_streams
  <2>1. CASE r \notin Reclaimable
    BY <1>16, <2>1, StaysIsStutter DEF reclaim_streams
  <2>2. CASE r \in Reclaimable
    <3>1. /\ r \in streams /\ r \notin reclaimed /\ r \notin qstream
          /\ r \in done /\ r \in dispatched /\ r \in worker_done
      BY <2>2 DEF Reclaimable, ObjectInv
    <3> QED
      BY <1>16, <2>2, <3>1 DEF reclaim_streams, Stage, Stream!Next,
         Stream!Reclaim,
         Stream!response
  <2> QED
    BY <2>1, <2>2
<1>17. CASE unblock_writable_streams
  BY <1>17, StaysIsStutter DEF unblock_writable_streams
<1>18. CASE flush_nghttp3
  BY <1>18, StaysIsStutter DEF flush_nghttp3
<1>19. CASE dispatch_begin
  BY <1>19, StaysIsStutter DEF dispatch_begin
<1>20. CASE process_nopool
  <2>1. CASE r # cur
    BY <1>20, <2>1, StaysIsStutter DEF process_nopool, GivenBack
  <2>2. CASE r = cur
    <3>1. /\ r \in streams /\ r \notin reclaimed /\ r \in dispatched
          /\ r \notin worker_done /\ r \notin response_submitted
      BY <1>20, <2>2 DEF process_nopool, ListInv, AtStream, ObjectInv,
         TaskInv, TaskOf,
         HandInv, HandOf
    <3> QED
      BY <1>20, <2>2, <3>1 DEF process_nopool, GivenBack, Stage, Stream!Next,
         Stream!GiveBack, Stream!response
  <2> QED
    BY <2>1, <2>2
<1>21. CASE process_count
  BY <1>21, StaysIsStutter DEF process_count
<1>22. CASE process_push
  <2>1. CASE UNCHANGED dispatched
    BY <1>22, <2>1, StaysIsStutter DEF process_push
  <2>2. CASE r # cur /\ dispatched' = GivenBack(cur)
    BY <1>22, <2>2, StaysIsStutter DEF process_push, GivenBack
  <2>3. CASE r = cur /\ dispatched' = GivenBack(cur)
    <3>1. /\ r \in streams /\ r \notin reclaimed /\ r \in dispatched
          /\ r \notin worker_done /\ r \notin response_submitted
      BY <1>22, <2>3 DEF process_push, ListInv, AtStream, ObjectInv, TaskInv,
         TaskOf,
         HandInv, HandOf
    <3> QED
      BY <1>22, <2>3, <3>1 DEF process_push, GivenBack, Stage, Stream!Next,
         Stream!GiveBack, Stream!response
  <2> QED
    BY <1>22, <2>1, <2>2, <2>3 DEF process_push
<1>23. CASE dispatch_end
  BY <1>23, StaysIsStutter DEF dispatch_end
<1>24. CASE session_keep
  BY <1>24, StaysIsStutter DEF session_keep
<1>25. CASE h3_session_destroy
  <2>1. r \notin Busy
    BY <1>25, CountPositive DEF h3_session_destroy, TypeOK
  <2>2. r \in dispatched => r \in worker_done
    BY <1>25, <2>1 DEF h3_session_destroy, Busy, HandInv, HandOf, TypeOK
  <2>3. UNCHANGED Stage(r)
    BY <1>25 DEF h3_session_destroy, Stage
  <2>4. Stage(r) = "held" <=> r \in streams
    BY DEF Stage, ObjectInv
  <2> QED
    BY <1>25, <2>2, <2>3, <2>4 DEF h3_session_destroy, cancel_locked,
       Stream!Next, Stream!End
<1>26. CASE worker_leaves
  BY <1>26, StaysIsStutter DEF worker_leaves
<1>27. ASSUME NEW s \in Streams, peer_acts(s)
       PROVE  [Stream(r)!Next]_(Stream(r)!vars)
  BY <1>27, StaysIsStutter DEF peer_acts
<1>28. ASSUME NEW s \in Streams, worker_gives_up(s)
       PROVE  [Stream(r)!Next]_(Stream(r)!vars)
  <2>1. CASE r # s
    BY <1>28, <2>1, StaysIsStutter DEF worker_gives_up, GivenBack
  <2>2. CASE r = s
    <3>1. /\ r \in streams /\ r \notin reclaimed /\ r \in dispatched
          /\ r \notin worker_done /\ r \notin response_submitted
      BY <1>28, <2>2 DEF worker_gives_up, ObjectInv, TaskInv, TaskOf, HandInv,
         HandOf
    <3> QED
      BY <1>28, <2>2, <3>1 DEF worker_gives_up, GivenBack, Stage, Stream!Next,
         Stream!GiveBack, Stream!response
  <2> QED
    BY <2>1, <2>2
<1>29. ASSUME NEW s \in Streams, worker_starts(s)
       PROVE  [Stream(r)!Next]_(Stream(r)!vars)
  BY <1>29, StaysIsStutter DEF worker_starts
<1>30. ASSUME NEW s \in Streams, submit_response_nva(s)
       PROVE  [Stream(r)!Next]_(Stream(r)!vars)
  <2>1. CASE r # s
    BY <1>30, <2>1, StaysIsStutter DEF submit_response_nva, cancel_locked
  <2>2. CASE r = s
    <3>1. /\ r \in streams /\ r \notin reclaimed /\ r \in dispatched
          /\ r \notin worker_done
      BY <1>30, <2>2 DEF submit_response_nva, ObjectInv, TaskInv, TaskOf
    <3>2. /\ r \in qstream
          /\ r \notin response_cancelled /\ r \notin response_submitted
      BY <1>30, <2>2, <3>1 DEF submit_response_nva, Refused, HandInv
    <3>3. CASE /\ r \in ng_open
               /\ r \in response_submitted' /\ UNCHANGED <<response_complete, response_cancelled>>
      BY <1>30, <2>2, <3>1, <3>2, <3>3 DEF submit_response_nva, Stage,
         Stream!Next,
         Stream!Submit, Stream!Working
    <3>4. CASE cancel_locked({r}) /\ UNCHANGED response_submitted
      BY <1>30, <2>2, <3>1, <3>4 DEF submit_response_nva, cancel_locked, Stage,
         Stream!Next, Stream!Cancel, Stream!Working
    <3> QED
      BY <1>30, <2>2, <3>3, <3>4 DEF submit_response_nva
  <2> QED
    BY <2>1, <2>2
<1>31. ASSUME NEW s \in Streams, h3_stream_response_complete(s)
       PROVE  [Stream(r)!Next]_(Stream(r)!vars)
  <2>1. CASE r # s
    BY <1>31, <2>1, StaysIsStutter DEF h3_stream_response_complete
  <2>2. CASE r = s
    <3>1. /\ r \in streams /\ r \notin reclaimed /\ r \in dispatched
          /\ r \notin worker_done
      BY <1>31, <2>2 DEF h3_stream_response_complete, ObjectInv, TaskInv, TaskOf
    <3> QED
      BY <1>31, <2>2, <3>1 DEF h3_stream_response_complete, Stage, Stream!Next,
         Stream!Complete, Stream!Working
  <2> QED
    BY <2>1, <2>2
<1>32. ASSUME NEW s \in Streams, worker_sets_done(s)
       PROVE  [Stream(r)!Next]_(Stream(r)!vars)
  <2>1. CASE r # s
    BY <1>32, <2>1, StaysIsStutter DEF worker_sets_done, WithDone
  <2>2. CASE r = s
    <3>1. /\ r \in streams /\ r \notin reclaimed /\ r \in dispatched
          /\ r \notin worker_done /\ r \in response_complete
      BY <1>32, <2>2 DEF worker_sets_done, ObjectInv, TaskInv, TaskOf,
         HandInv, HandOf
    <3> QED
      BY <1>32, <2>2, <3>1 DEF worker_sets_done, WithDone, Stage, Stream!Next,
         Stream!Return, Stream!Working, Stream!response
  <2> QED
    BY <2>1, <2>2
<1>33. ASSUME NEW s \in Streams, worker_returns(s)
       PROVE  [Stream(r)!Next]_(Stream(r)!vars)
  BY <1>33, StaysIsStutter DEF worker_returns
<1> QED
  BY <1>1, <1>2, <1>3, <1>4, <1>5, <1>6, <1>7, <1>8, <1>9, <1>10, <1>11,
     <1>12, <1>13, <1>14, <1>15, <1>16, <1>17, <1>18, <1>19, <1>20,
     <1>21, <1>22, <1>23, <1>24, <1>25, <1>26, <1>27, <1>28, <1>29,
     <1>30, <1>31, <1>32, <1>33
     DEF Next, EventNext, WorkerNext, Terminated

\* Every stream of a session keeps to the protocol of StreamLife: it is read
\* only before it is dispatched, comes to a worker unanswered and known to QUIC
\* and nghttp3 unless cancelled, is answered only while both have it, is
\* reclaimed only after its worker has set worker_done, and the session's end
\* finds no worker with it.
THEOREM StreamsKeepToLife == Spec => StreamsImplementLife
<1>1. Init => HandInv /\ \A s \in Streams : Stream(s)!Init
  <2> SUFFICES ASSUME Init PROVE HandInv /\ \A s \in Streams : Stream(s)!Init
    OBVIOUS
  <2>1. HandInv
    BY DEF Init, HandInv, HandOf
  <2>2. ASSUME NEW s \in Streams PROVE Stream(s)!New
    BY DEF Init, Stage, Stream!New
  <2> QED
    BY <2>1, <2>2 DEF Stream!Init
<1>2. SessionInv /\ HandInv /\ [Next]_vars =>
          HandInv' /\ [\A s \in Streams : [Stream(s)!Next]_(Stream(s)!vars)]_vars
  BY HandStep, StreamStep
<1> QED
  BY <1>1, <1>2, SessionInvariant, PTL DEF Spec, StreamsImplementLife
=============================================================================
