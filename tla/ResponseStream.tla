--------------------------- MODULE ResponseStream ---------------------------
(***************************************************************************)
(* What the response path of one stream promises: a bounded byte pipe from *)
(* the request handler to the peer.  Bytes come out in the order they went *)
(* in; at most Limit of them are in the pipe; the pipe is finished when it *)
(* is closed and empty.  It may be cut at any time, after which nothing    *)
(* more goes in and what is inside may be dropped; and the peer may be     *)
(* lost, after which nothing more comes out.                               *)
(***************************************************************************)
EXTENDS Integers, Sequences

CONSTANT Limit

VARIABLES len,        \* bytes that went in
          delivered,  \* the bytes that came out, each named by its position
          closed, cut, lost, fin

vars == <<len, delivered, closed, cut, lost, fin>>

\* A pipe may be cut before it is used, and then its peer lost too.
Init == /\ len = 0 /\ delivered = <<>> /\ fin = FALSE
        /\ cut \in BOOLEAN /\ closed = cut
        /\ lost \in {FALSE, cut}

\* Once the peer is lost the pipe swallows what goes in.
Accept == /\ ~closed
          /\ \E n \in 1..Limit : /\ lost \/ len + n <= Len(delivered) + Limit
                                 /\ len' = len + n
          /\ UNCHANGED <<delivered, closed, cut, lost, fin>>

Close == /\ ~closed /\ closed' = TRUE
         /\ UNCHANGED <<len, delivered, cut, lost, fin>>

Cut == /\ ~cut /\ cut' = TRUE /\ closed' = TRUE
       /\ lost' \in {lost, TRUE}
       /\ UNCHANGED <<len, delivered, fin>>

Lose == /\ ~lost /\ lost' = TRUE
        /\ UNCHANGED <<len, delivered, closed, cut, fin>>

Deliver == /\ ~lost /\ ~fin
           /\ \E n \in 1..(len - Len(delivered)) :
                 delivered' = delivered \o [i \in 1..n |-> Len(delivered) + i]
           /\ UNCHANGED <<len, closed, cut, lost, fin>>

Finish == /\ ~lost /\ ~fin
          /\ cut \/ (closed /\ Len(delivered) = len)
          /\ fin' = TRUE
          /\ UNCHANGED <<len, delivered, closed, cut, lost>>

Next == Accept \/ Close \/ Cut \/ Lose \/ Deliver \/ Finish

Spec == Init /\ [][Next]_vars
=============================================================================
