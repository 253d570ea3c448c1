----------------------------- MODULE StreamLife -----------------------------
(***************************************************************************)
(* The protocol of the flags of one request stream (h3_stream), between    *)
(* the event thread, nghttp3 and the worker that is given the request.     *)
(* H3Session keeps to it for every stream and all the time, H3Response for *)
(* the one stream it looks at, from the moment it is given to its worker:  *)
(* Handover is what the one guarantees then and the other starts from.     *)
(***************************************************************************)
VARIABLES stage,      \* "new", "held" (in session->streams), "reclaimed"
          quic,       \* there is a QUIC stream object
          known,      \* nghttp3 knows the stream
          given,      \* reserved for a worker
          submitted, complete, cancelled,   \* the response
          returned,   \* worker_done
          done

response == <<submitted, complete, cancelled>>
vars == <<stage, quic, known, given, response, returned, done>>

New == /\ stage = "new" /\ ~quic /\ ~known /\ ~given /\ ~submitted
       /\ ~complete /\ ~cancelled /\ ~returned /\ ~done

\* A request may be cancelled before a worker is given it, but it has not been
\* answered; and while QUIC and nghttp3 have the stream, so does the other.
Handover == /\ stage = "held" /\ ~submitted /\ ~returned
            /\ complete <=> cancelled
            /\ done <=> cancelled
            /\ ~cancelled => quic
            /\ quic => known

Init == New \/ (given /\ Handover)

Track == /\ stage = "new" /\ stage' = "held" /\ quic' = TRUE
         /\ UNCHANGED <<known, given, response, returned, done>>

\* The event thread feeds nghttp3, only before the request is given away.  It
\* may ask for a stop, which drops the QUIC object, or a reset, or fail.
Read == /\ stage = "held" /\ quic /\ ~given
        /\ \/ /\ known' = TRUE \/ UNCHANGED known
              /\ UNCHANGED <<complete, cancelled, quic, done>>
           \/ /\ known' = TRUE /\ complete' = TRUE /\ cancelled' = TRUE
              /\ done' = TRUE
              /\ quic' = FALSE \/ UNCHANGED quic
           \/ done' = TRUE /\ UNCHANGED <<known, complete, cancelled, quic>>
        /\ UNCHANGED <<stage, given, submitted, returned>>

Dispatch == /\ ~given /\ Handover /\ given' = TRUE
            /\ UNCHANGED <<stage, quic, known, response, returned, done>>

\* No task could be made of the request: it is given back.
GiveBack == /\ given /\ stage = "held" /\ ~submitted /\ ~returned
            /\ given' = FALSE
            /\ UNCHANGED <<stage, quic, known, response, returned, done>>

Working == stage = "held" /\ given /\ ~returned

Submit == /\ Working /\ known /\ quic /\ ~submitted /\ ~cancelled
          /\ submitted' = TRUE
          /\ UNCHANGED <<stage, quic, known, given, complete, cancelled, returned,
                         done>>

Complete == /\ Working /\ complete' = TRUE
            /\ UNCHANGED <<stage, quic, known, given, submitted, cancelled,
                           returned, done>>

\* The response cannot be submitted, or memory runs out.
Cancel == /\ Working /\ complete' = TRUE /\ cancelled' = TRUE
          /\ UNCHANGED <<stage, quic, known, given, submitted, returned, done>>

Return == /\ Working /\ complete /\ returned' = TRUE
          /\ UNCHANGED <<stage, quic, known, given, response, done>>

\* Both directions are finished: nghttp3 closes the stream.
Close == /\ stage = "held" /\ quic /\ known
         /\ complete' = TRUE /\ cancelled' = TRUE /\ done' = TRUE
         /\ quic' = FALSE /\ known' = FALSE
         /\ UNCHANGED <<stage, given, submitted, returned>>

Reclaim == /\ stage = "held" /\ done /\ ~quic /\ given /\ returned
           /\ stage' = "reclaimed"
           /\ UNCHANGED <<quic, known, given, response, returned, done>>

\* The session is destroyed, without a task of this stream in flight.  What was
\* reclaimed is not touched; nghttp3 forgets it now.
End == /\ given => returned
       /\ known' = FALSE
       /\ IF stage = "held" THEN complete' = TRUE /\ cancelled' = TRUE
          ELSE UNCHANGED <<complete, cancelled>>
       /\ UNCHANGED <<stage, quic, given, submitted, returned, done>>

Next == \/ Track \/ Read \/ Dispatch \/ GiveBack \/ Submit \/ Complete
        \/ Cancel \/ Return \/ Close \/ Reclaim \/ End

Spec == Init /\ [][Next]_vars
=============================================================================
