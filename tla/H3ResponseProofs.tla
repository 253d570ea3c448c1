-------------------------- MODULE H3ResponseProofs --------------------------
(***************************************************************************)
(* Proofs about H3Response, for any buffer limit, chunk size, vector count *)
(* and body length.  ResponseInv is the inductive invariant of the queue and*)
(* of the vectors lent from it.  FullInv adds what is on the wire, how the *)
(* body ends and that no sleeper is forgotten; from it the queue implements*)
(* the byte pipe of ResponseStream.                                        *)
(***************************************************************************)
EXTENDS H3ResponseQueueProofs

-----------------------------------------------------------------------------
(***************************************************************************)
(* The vectors, one lemma per step that changes them.                      *)
(***************************************************************************)

\* A broken stream swallows a vector.
LEMMA SwallowStep ==
    ASSUME ResponseInv, swallow_vec
    PROVE  QueueType' /\ QueueInv' /\ VectorInv' /\ BufferAccounted'
<1>1. /\ Linked /\ Linked' /\ ng_outq # <<>> /\ PopVec /\ UNCHANGED queueVars
      /\ accepted' = accepted + VecLen /\ wire' = wire /\ broken' = broken
  BY DEF swallow_vec, ResponseInv, ControlInv, Linked, quicVars, streamVars
<1>2. broken
  BY DEF swallow_vec, ResponseInv, ControlInv
<1>3. VecLen \in Nat \ {0}
  BY <1>1, FirstVec
<1>4. AckPos' = AckPos /\ AckPos \in Int
  BY <1>1, AckPosType DEF AckPos, queueVars
<1>5. AckPos + accepted = WritePos /\ accepted \in Nat
  BY <1>1, LinkedFacts
<1>6. AckPos' + accepted' = WritePos' /\ accepted' \in Nat
  BY <1>1, <1>3, <1>4, <1>5, PopFacts
<1>7. QueueType'
  BY <1>1, <1>6, PopFacts DEF ResponseInv, TypeOK, QueueType, queueVars, Ptr
<1>8. QueueInv'
  BY <1>1 DEF ResponseInv, QueueInv, queueVars
<1>9. BufferAccounted'
  BY <1>1, <1>4 DEF ResponseInv, BufferAccounted, queueVars
<1>10. VectorInv'
  BY <1>1, <1>2, <1>6, PopFacts DEF VectorInv, NULL
<1> QED
  BY <1>7, <1>8, <1>9, <1>10

\* The bytes of a vector, n of them, as they go to the wire.
LEMMA WireFacts ==
    ASSUME ResponseInv, Linked, ng_outq # <<>>, NEW n \in Nat,
           wire' = wire \o VecBytes(n)
    PROVE  /\ wire' \in Seq(Nat) /\ Len(wire') = Len(wire) + n
           /\ \A k \in 1..Len(wire) : wire'[k] = wire[k]
           /\ \A k \in (Len(wire) + 1)..(Len(wire) + n) :
                 wire'[k] = WritePos + (k - Len(wire))
<1> DEFINE b == VecBytes(n)
<1>1. /\ WritePos = chunks[ng_outq[1]].at + ng_off
      /\ Head(ng_outq) = ng_outq[1] /\ ng_outq[1] \in live
  BY FirstVec
<1>2. WritePos \in Nat
  BY SMTT(30), LinkedFacts, AckPosType
<1>3. b = [k \in 1..n |-> WritePos + k]
  BY <1>1 DEF VecBytes
<1> HIDE DEF b
<1>4. b \in Seq(Nat) /\ Len(b) = n /\ \A k \in 1..n : b[k] = WritePos + k
  BY <1>2, <1>3
<1>5. wire \in Seq(Nat) /\ wire' = wire \o b /\ Len(wire) \in Nat
  BY DEF ResponseInv, TypeOK, b
<1>6. /\ wire \o b \in Seq(Nat) /\ Len(wire \o b) = Len(wire) + Len(b)
      /\ \A k \in 1..(Len(wire) + Len(b)) :
            (wire \o b)[k] = IF k <= Len(wire) THEN wire[k]
                             ELSE b[k - Len(wire)]
  BY <1>4, <1>5, ConcatProperties
<1> QED
  BY <1>2, <1>4, <1>5, <1>6

\* h3q_stream_write on one vector.
LEMMA WriteStep ==
    ASSUME ResponseInv, write_vec
    PROVE  QueueType' /\ QueueInv' /\ VectorInv' /\ BufferAccounted'
<1>1. /\ Linked /\ ng_outq # <<>> /\ UNCHANGED queueVars /\ tracked' = tracked
      /\ epc = "write"
  BY DEF write_vec, ResponseInv, ControlInv, Linked, streamVars
<1>2. Linked'
  BY <1>1 DEF write_vec, Linked
<1>3. /\ VecLen \in Nat \ {0} /\ WritePos = chunks[ng_outq[1]].at + ng_off
      /\ VecLen = chunks[ng_outq[1]].len - ng_off /\ ng_outq[1] \in live
  BY <1>1, FirstVec
<1>4. /\ AckPos' = AckPos /\ AckPos \in Nat /\ AckPos + accepted = WritePos
      /\ accepted \in Nat /\ ng_off \in Nat
  BY <1>1, LinkedFacts, AckPosType DEF AckPos, queueVars
<1>5. QueueInv' /\ BufferAccounted'
  BY <1>1, <1>2, <1>4 DEF ResponseInv, QueueInv, BufferAccounted, queueVars
<1>6. ~broken => Len(wire) = WritePos
  BY <1>1 DEF ResponseInv, VectorInv
<1>7. CASE /\ ~broken /\ PopVec /\ wire' = wire \o VecBytes(VecLen)
           /\ accepted' = accepted + VecLen
  <2>1. /\ wire' \in Seq(Nat) /\ Len(wire') = Len(wire) + VecLen
    BY <1>1, <1>3, <1>7, WireFacts
  <2>2. WritePos' = WritePos + VecLen
    BY <1>1, <1>7, PopFacts
  <2>3. AckPos' + accepted' = WritePos' /\ accepted' \in Nat
        /\ Len(wire') = WritePos'
    <3>1. /\ accepted' = accepted + VecLen /\ Len(wire) = WritePos
          /\ VecLen \in Nat
      BY <1>3, <1>6, <1>7
    <3> QED
      BY <1>4, <2>1, <2>2, <3>1
  <2>4. QueueType'
    BY <1>1, <1>7, <2>1, <2>3, PopFacts DEF ResponseInv, TypeOK, QueueType,
       queueVars, Ptr
  <2>5. VectorInv'
    BY <1>1, <1>7, <2>3, PopFacts DEF VectorInv, NULL
  <2> QED
    BY <1>5, <2>4, <2>5
<1>8. ASSUME ~broken, ng_outq' = ng_outq,
             NEW w \in 0..(VecLen - 1), wire' = wire \o VecBytes(w),
             accepted' = accepted + w, ng_off' = ng_off + w
      PROVE  QueueType' /\ QueueInv' /\ VectorInv' /\ BufferAccounted'
  <2>1. w \in Nat /\ w < VecLen
    BY <1>3
  <2>2. wire' \in Seq(Nat) /\ Len(wire') = Len(wire) + w
    BY <1>1, <1>8, <2>1, WireFacts
  <2>3. chunks[ng_outq[1]].at \in Nat /\ chunks[ng_outq[1]].len \in Nat
    BY <1>3, ChunkFacts
  <2>4. /\ WritePos' = WritePos + w /\ ng_off' \in Nat
        /\ ng_off' < chunks[ng_outq[1]].len
    <3>1. ng_off' = ng_off + w /\ chunks' = chunks /\ ng_outq' # <<>>
      BY <1>1, <1>8 DEF queueVars
    <3>2. WritePos' = chunks[ng_outq[1]].at + (ng_off + w)
      BY <1>8, <3>1 DEF WritePos
    <3>3. /\ WritePos = chunks[ng_outq[1]].at + ng_off
          /\ w < chunks[ng_outq[1]].len - ng_off
      BY <1>3, <2>1
    <3> QED
      BY SMTT(30), <1>4, <2>1, <2>3, <3>1, <3>2, <3>3
  <2>5. AckPos' + accepted' = WritePos' /\ accepted' \in Nat
        /\ Len(wire') = WritePos'
    <3>1. accepted' = accepted + w /\ Len(wire) = WritePos
      BY <1>6, <1>8
    <3> QED
      BY <1>4, <2>1, <2>2, <2>4, <3>1
  <2>6. QueueType'
    BY <1>1, <1>8, <2>2, <2>4, <2>5 DEF ResponseInv, TypeOK, QueueType,
       queueVars, Ptr
  <2>7. LastLent' = LastLent
    BY <1>1 DEF LastLent, queueVars
  <2>8. VectorInv'
    BY <1>1, <1>8, <2>4, <2>5, <2>7 DEF ResponseInv, VectorInv, queueVars
  <2> QED
    BY <1>5, <2>6, <2>8
<1>9. CASE broken' = TRUE /\ UNCHANGED <<wire, accepted, ng_outq, ng_off>>
  <2>1. QueueType'
    BY <1>1, <1>9 DEF ResponseInv, TypeOK, QueueType, queueVars, Ptr
  <2>2. LastLent' = LastLent /\ WritePos' = WritePos
    BY <1>1, <1>9 DEF LastLent, WritePos, LentPos, queueVars
  <2>3. VectorInv'
    BY <1>1, <1>4, <1>9, <2>2 DEF ResponseInv, VectorInv, queueVars
  <2> QED
    BY <1>5, <2>1, <2>3
<1> QED
  BY <1>7, <1>8, <1>9 DEF write_vec

\* The smaller of two positive numbers.
LEMMA MinFacts ==
    ASSUME NEW a \in Nat, NEW b \in Nat, a > 0, b > 0
    PROVE  MinOf(a, b) \in Nat \ {0} /\ MinOf(a, b) <= a /\ MinOf(a, b) <= b
  BY DEF MinOf

\* h3_stream_response_ack_locked acks bytes of the head chunk.
LEMMA AckStep ==
    ASSUME ResponseInv, response_ack_chunk
    PROVE  QueueType' /\ QueueInv' /\ VectorInv' /\ BufferAccounted'
<1> DEFINE h == response_head
           N == Len(chunks)
           c == MinOf(accepted, chunks[h].len - chunks[h].acked)
           freed == chunks[h].acked + c = chunks[h].len
<1>1. /\ Linked /\ Linked' /\ accepted > 0 /\ h # 0
      /\ chunks' = [chunks EXCEPT ![h].acked = @ + c]
      /\ response_buffered' = response_buffered - c
      /\ accepted' = accepted - c
      /\ live' = IF freed THEN live \ {h} ELSE live
      /\ response_head' = IF freed THEN chunks[h].next ELSE h
      /\ response_tail' = IF freed /\ chunks[h].next = 0 THEN 0
                          ELSE response_tail
      /\ UNCHANGED <<response_submit_chunk, response_len, ng_outq, ng_off,
                     wire, broken>>
  BY DEF response_ack_chunk, FullyAcked, ResponseInv, ControlInv, Linked, NULL,
         ngVars, quicVars, streamVars
<1>2. /\ h \in live /\ h \in 1..N /\ N \in Nat /\ live = h..N
      /\ response_tail = N /\ response_submit_chunk \in live \cup {0}
      /\ accepted \in Nat /\ response_len \in Nat /\ ng_outq \in Seq(1..N)
      /\ LastLent \in Int /\ h + Len(ng_outq) <= LastLent + 1
      /\ AckPos + accepted = WritePos
  BY <1>1, LinkedFacts
<1>3. /\ chunks[h].at \in Nat /\ chunks[h].len \in Nat \ {0}
      /\ chunks[h].acked \in Nat /\ chunks[h].acked < chunks[h].len
      /\ chunks[h].next = IF h = N THEN 0 ELSE h + 1
      /\ chunks[h].at + chunks[h].len =
             IF h = N THEN response_len ELSE chunks[h + 1].at
      /\ chunks[h].at + chunks[h].len <= response_len
  BY <1>2, ChunkFacts
<1>4. /\ c \in Nat \ {0} /\ c <= accepted /\ chunks[h].acked + c <= chunks[h].len
  <2>1. /\ accepted \in Nat /\ accepted > 0
        /\ chunks[h].len - chunks[h].acked \in Nat \ {0}
    BY SMTT(30), <1>1, <1>2, <1>3
  <2>2. /\ c \in Nat \ {0} /\ c <= accepted
        /\ c <= chunks[h].len - chunks[h].acked
    BY SMTT(30), <2>1, MinFacts
  <2> HIDE DEF c
  <2> QED
    BY SMTT(30), <1>3, <2>2
<1>5. /\ chunks' \in Seq(Chunk) /\ Len(chunks') = N
      /\ \A k \in 1..N :
            /\ chunks'[k].at = chunks[k].at
            /\ chunks'[k].len = chunks[k].len
            /\ chunks'[k].next = chunks[k].next
            /\ chunks'[k].acked = IF k = h THEN chunks[k].acked + c
                                  ELSE chunks[k].acked
  <2>1. TypeOK /\ response_head # NULL /\ c \in Nat
    BY <1>1, <1>4 DEF ResponseInv, NULL
  <2>2. chunks' = [chunks EXCEPT ![response_head].acked = @ + c]
    BY <1>1
  <2> HIDE DEF c
  <2> QED
    BY <2>1, <2>2, AckFacts
<1> HIDE DEF c
<1>6. /\ AckPos = chunks[h].at + chunks[h].acked
      /\ response_buffered = response_len - AckPos
      /\ response_buffered <= BufferLimit /\ BufferLimit \in Nat
  BY <1>1, ResponseAssumption DEF AckPos, ResponseInv, BufferAccounted, NULL
<1>7. ASSUME freed
      PROVE  /\ AckPos + c = chunks[h].at + chunks[h].len
             /\ chunks[h].at + chunks[h].len <= WritePos
  <2>1. /\ chunks[h].at \in Nat /\ chunks[h].len \in Nat
        /\ chunks[h].acked \in Nat
    BY <1>3
  <2>2. AckPos + accepted = WritePos /\ accepted \in Nat
    BY <1>2
  <2>3. AckPos = chunks[h].at + chunks[h].acked
    BY <1>6
  <2>4. chunks[h].acked + c = chunks[h].len
    BY <1>7
  <2> HIDE DEF h
  <2> QED
    BY SMTT(30), <1>4, <2>1, <2>2, <2>3, <2>4
\* A chunk that is freed was handed out and written to its end.
<1>8. ASSUME freed, ng_outq # <<>>
      PROVE  ng_outq[1] # h /\ h + 1 + Len(ng_outq) <= LastLent + 1
  <2>1. /\ ng_outq[1] = LastLent - Len(ng_outq) + 1 /\ Len(ng_outq) \in Nat
        /\ WritePos = chunks[ng_outq[1]].at + ng_off
        /\ chunks[ng_outq[1]].len - ng_off \in Nat \ {0}
    BY <1>1, <1>8, FirstVec
  <2>2. ng_outq[1] # h
    <3>1. SUFFICES ASSUME ng_outq[1] = h PROVE FALSE
      OBVIOUS
    <3>2. /\ WritePos = chunks[h].at + ng_off /\ ng_off \in Nat
          /\ chunks[h].len - ng_off \in Nat \ {0}
      BY <1>1, <2>1, <3>1, LinkedFacts
    <3> QED
      BY SMTT(30), <1>3, <1>7, <1>8, <3>2
  <2> QED
    BY SMTT(30), <1>2, <2>1, <2>2
<1>9. ASSUME freed, response_submit_chunk = h PROVE FALSE
  <2>1. LastLent = h - 1
    BY <1>1, <1>9 DEF LastLent, NULL
  <2>2. ng_outq = <<>>
    BY SMTT(30), <1>2, <1>8, <1>9, <2>1, NonEmptySeq
  <2>3. WritePos = chunks[h].at
    BY <1>1, <1>9, <2>2 DEF WritePos, LentPos, NULL
  <2> QED
    BY SMTT(30), <1>3, <1>7, <1>9, <2>3
<1>10. response_buffered' \in Nat
  <2>1. /\ chunks[h].at \in Nat /\ chunks[h].len \in Nat
        /\ chunks[h].acked \in Nat /\ response_len \in Nat
        /\ chunks[h].at + chunks[h].len <= response_len
    BY <1>2, <1>3
  <2>2. response_buffered' = response_len - (chunks[h].at + chunks[h].acked) - c
    BY <1>1, <1>6
  <2> HIDE DEF h
  <2> QED
    BY SMTT(30), <1>4, <2>1, <2>2
<1>11. accepted' \in Nat
  BY <1>1, <1>2, <1>4
<1>12. /\ AckPos' = AckPos + c
       /\ response_head' \in 0..N /\ response_tail' \in 0..N
  <2>1. CASE ~freed
    <3>1. /\ response_head' = h /\ response_tail' = N
          /\ chunks'[h].at = chunks[h].at
          /\ chunks'[h].acked = chunks[h].acked + c
      BY <1>1, <1>2, <1>5, <2>1
    <3>2. AckPos' = chunks[h].at + (chunks[h].acked + c)
      BY <1>1, <3>1 DEF AckPos, NULL
    <3>3. AckPos' = AckPos + c
      BY SMTT(30), <1>3, <1>4, <1>6, <3>2
    <3> QED
      BY <1>2, <3>1, <3>3
  <2>2. CASE freed /\ h = N
    BY <1>1, <1>2, <1>3, <1>4, <1>5, <1>6, <1>7, <2>2 DEF AckPos, NULL
  <2>3. CASE freed /\ h # N
    <3>1. h + 1 \in live /\ h + 1 \in 1..N /\ h + 1 # response_head
      BY SMTT(30), <1>2, <2>3
    <3>2. chunks[h + 1].acked = 0 /\ chunks[h + 1].at \in Nat
      BY <3>1, ChunkFacts
    <3>3. /\ response_head' = h + 1 /\ response_tail' = N
          /\ chunks'[h + 1].at = chunks[h + 1].at /\ chunks'[h + 1].acked = 0
      BY <1>1, <1>2, <1>3, <1>5, <2>3, <3>1, <3>2
    <3>4. AckPos' = chunks[h + 1].at
      BY <1>2, <3>2, <3>3 DEF AckPos, NULL
    <3>5. AckPos + c = chunks[h + 1].at
      BY <1>3, <1>7, <2>3
    <3> QED
      BY <1>2, <3>1, <3>3, <3>4, <3>5
  <2> QED
    BY <2>1, <2>2, <2>3
<1>13. QueueType'
  <2>1. /\ live' \subseteq 1..N /\ ng_outq' \in Seq(1..N)
        /\ response_submit_chunk' \in 0..N
    BY <1>1, <1>2
  <2> QED
    BY <1>1, <1>5, <1>10, <1>11, <1>12, <2>1
       DEF ResponseInv, TypeOK, QueueType, Ptr
<1>14. BufferAccounted'
  <2>1. /\ response_buffered' = response_buffered - c
        /\ response_len' = response_len /\ response_len \in Nat
    BY <1>1, <1>2
  <2>2. AckPos \in Nat
    BY AckPosType
  <2> QED
    BY SMTT(30), <1>4, <1>6, <1>12, <2>1, <2>2 DEF BufferAccounted
<1>15. /\ response_head' = 0 => /\ live' = {} /\ response_tail' = 0
                                /\ response_submit_chunk' = 0
       /\ response_head' # 0 => /\ response_tail' = N
                                /\ live' = response_head'..N
                                /\ response_submit_chunk' \in live' \cup {0}
  <2>1. CASE ~freed
    BY <1>1, <1>2, <2>1
  <2>2. CASE freed /\ h = N
    BY <1>1, <1>2, <1>3, <1>9, <2>2
  <2>3. CASE freed /\ h # N
    BY <1>1, <1>2, <1>3, <1>9, <2>3
  <2> QED
    BY <2>1, <2>2, <2>3
<1>16. ASSUME NEW k \in live'
       PROVE  /\ chunks'[k].next = IF k = N THEN 0 ELSE k + 1
              /\ chunks'[k].at + chunks'[k].len =
                     IF k = N THEN response_len' ELSE chunks'[k + 1].at
              /\ chunks'[k].at + chunks'[k].len <= response_len'
              /\ chunks'[k].acked < chunks'[k].len
              /\ k # response_head' => chunks'[k].acked = 0
  <2>1. k \in live /\ k \in 1..N /\ response_len' = response_len /\ N \in Nat
    BY <1>1, <1>2
  <2>2. /\ chunks[k].next = IF k = N THEN 0 ELSE k + 1
        /\ chunks[k].at + chunks[k].len =
               IF k = N THEN response_len ELSE chunks[k + 1].at
        /\ chunks[k].at + chunks[k].len <= response_len
        /\ chunks[k].acked < chunks[k].len
        /\ k # h => chunks[k].acked = 0
    BY <2>1, ChunkFacts
  <2>3. k # N => chunks'[k + 1].at = chunks[k + 1].at
    BY SMTT(30), <1>5, <2>1
  <2>4. /\ chunks'[k].at = chunks[k].at /\ chunks'[k].len = chunks[k].len
        /\ chunks'[k].next = chunks[k].next
    BY <1>5, <2>1
  <2>5. CASE k = h
    <3>1. ~freed /\ response_head' = h
      BY <1>1, <2>5
    <3>2. chunks'[k].acked < chunks'[k].len
      <4>1. /\ chunks'[k].acked = chunks[h].acked + c
            /\ chunks'[k].len = chunks[h].len
        BY <1>5, <2>1, <2>4, <2>5
      <4>2. /\ chunks[h].acked \in Nat /\ chunks[h].len \in Nat
            /\ chunks[h].acked + c # chunks[h].len
        BY <1>3, <3>1
      <4> QED
        BY SMTT(30), <1>4, <4>1, <4>2
    <3> QED
      BY <2>1, <2>2, <2>3, <2>4, <2>5, <3>1, <3>2
  <2>6. CASE k # h
    <3>1. chunks'[k].acked = 0 /\ chunks[k].acked = 0
      BY <1>5, <2>1, <2>2, <2>6
    <3> QED
      BY <2>1, <2>2, <2>3, <2>4, <3>1
  <2> QED
    BY <2>5, <2>6
<1>17. QueueInv'
  BY <1>1, <1>5, <1>15, <1>16 DEF QueueInv, NULL
<1>18. LastLent' = LastLent
  BY <1>1, <1>5 DEF LastLent
<1>19. /\ WritePos' = WritePos
       /\ ng_outq # <<>> => chunks'[ng_outq[1]].len = chunks[ng_outq[1]].len
  <2>1. ng_outq # <<>> => ng_outq[1] \in 1..N
    BY <1>2, NonEmptySeq
  <2>2. response_submit_chunk # 0 => response_submit_chunk \in 1..N
    BY <1>1, LinkedFacts
  <2>3. LentPos' = LentPos
    BY <1>1, <1>5, <2>2 DEF LentPos, NULL
  <2> QED
    BY <1>1, <1>5, <2>1, <2>3 DEF WritePos
<1>20. AckPos' + accepted' = WritePos'
  <2>1. AckPos \in Nat /\ accepted \in Nat /\ accepted' = accepted - c
    BY <1>1, <1>2, AckPosType
  <2> QED
    BY SMTT(30), <1>2, <1>4, <1>12, <1>19, <2>1
<1>21. /\ ng_outq # <<>> => response_head' # 0
       /\ response_head' # 0 =>
              response_head' + Len(ng_outq) <= LastLent + 1
  <2>1. CASE ~freed
    BY <1>1, <1>2, <2>1
  <2>2. CASE freed /\ ng_outq # <<>>
    <3>1. h + 1 + Len(ng_outq) <= LastLent + 1 /\ Len(ng_outq) \in Nat \ {0}
      BY <1>2, <1>8, <2>2, NonEmptySeq
    <3>2. LastLent <= N
      BY <1>1, LinkedFacts DEF LastLent, NULL
    <3>3. h # N /\ response_head' = h + 1
      BY <1>1, <1>2, <1>3, <2>2, <3>1, <3>2
    <3> QED
      BY <1>2, <3>1, <3>3
  <2>3. CASE freed /\ ng_outq = <<>>
    <3>1. Len(ng_outq) = 0
      BY <2>3
    <3>2. response_head' # 0 => response_head' = h + 1 /\ h # N
      BY <1>1, <1>3, <2>3
    <3>3. response_head' # 0 => LastLent >= h + 0
      BY <1>1, <1>2, <1>9, <2>3, <3>2 DEF LastLent, NULL
    <3> QED
      BY SMTT(30), <1>2, <2>3, <3>1, <3>2, <3>3
  <2> QED
    BY <2>1, <2>2, <2>3
<1>22. VectorInv'
  BY <1>1, <1>18, <1>19, <1>20, <1>21 DEF ResponseInv, VectorInv, NULL
<1> QED
  BY <1>13, <1>14, <1>17, <1>22

\* The loop of h3_stream_response_ack_locked ends: nothing is left to ack.
LEMMA AckEndStep ==
    ASSUME ResponseInv, response_ack_end
    PROVE  QueueType' /\ QueueInv' /\ VectorInv' /\ BufferAccounted'
<1>1. /\ Linked /\ Linked' /\ (accepted = 0 \/ response_head = 0)
      /\ accepted' = 0
      /\ UNCHANGED <<queueVars, ng_outq, ng_off, wire, broken>>
  BY DEF response_ack_end, ResponseInv, ControlInv, Linked, NULL, ngVars,
         quicVars, streamVars
<1>2. CASE response_head = 0
  <2>1. AckPos = response_len
    BY <1>2 DEF AckPos, NULL
  <2>2. WritePos = response_len
    BY <1>1, <1>2, LinkedFacts DEF WritePos, LentPos, NULL
  <2>3. AckPos + accepted = WritePos /\ accepted \in Nat /\ response_len \in Nat
    BY <1>1, LinkedFacts
  <2>4. accepted = 0
    BY <2>1, <2>2, <2>3
  <2> QED
    BY <1>1, <2>4, QueueUnchanged DEF dataVars
<1>3. CASE accepted = 0
  BY <1>1, <1>3, QueueUnchanged DEF dataVars
<1> QED
  BY <1>1, <1>2, <1>3

-----------------------------------------------------------------------------
(***************************************************************************)
(* The invariant and the theorems.                                         *)
(***************************************************************************)

\* Every step of either thread preserves the invariant.
LEMMA ResponseInvStep == ResponseInv /\ [Next]_vars => ResponseInv'
<1> SUFFICES ASSUME ResponseInv, [Next]_vars PROVE ResponseInv'
  OBVIOUS
<1>1. TypeOK /\ ControlInv
  BY DEF ResponseInv
<1>2. ControlInv' /\ PcType' /\ FlagType'
  BY <1>1, ControlStep, PcStep, FlagStep
<1>3. QueueType' /\ QueueInv' /\ VectorInv' /\ BufferAccounted'
  BY <1>1, DataSteps, AppendStep, DestroyStep, ReclaimStep, ReadStep,
     WriteStep, SwallowStep, AckStep, AckEndStep, QueueUnchanged
<1>4. TypeOK'
  <2>1. QueueType' /\ FlagType' /\ PcType'
    BY <1>2, <1>3
  <2> HIDE DEF ResponseInv
  <2> QED
    BY <2>1 DEF TypeOK, QueueType, FlagType, PcType, Ptr
<1> QED
  BY <1>2, <1>3, <1>4 DEF ResponseInv

\* A request that has just been dispatched, however it ended on the way.
LEMMA ResponseInit == Init => ResponseInv
<1> SUFFICES ASSUME Init PROVE ResponseInv
  OBVIOUS
<1> USE ResponseAssumption
<1>1. QueueType
  BY DEF Init, QueueType, Chunk, Ptr, NULL
<1>2. FlagType
  BY DEF Init, FlagType, Reached, undisturbed, on_stop_sending,
         on_reset_stream, closed_early
<1>3. PcType
  BY DEF Init, PcType
<1>4. ControlInv
  BY DEF Init, ControlInv, Reached, undisturbed, on_stop_sending,
         on_reset_stream, closed_early
<1>5. QueueInv /\ BufferAccounted
  BY SMTT(30) DEF Init, QueueInv, BufferAccounted, AckPos, NULL
<1>6. VectorInv
  BY SMTT(30) DEF Init, VectorInv, AckPos, WritePos, LentPos, LastLent, NULL
<1> QED
  BY <1>1, <1>2, <1>3, <1>4, <1>5, <1>6, TypeParts DEF ResponseInv

\* The response queue keeps its shape whatever the two threads do: types,
\* thread positions, the list of chunks, the vectors nghttp3 holds, and the
\* byte count.
THEOREM ResponseInvariant == Spec => []ResponseInv
<1>1. ResponseInv /\ UNCHANGED vars => ResponseInv'
  BY ResponseInvStep
<1> QED
  BY ResponseInit, ResponseInvStep, PTL DEF Spec

\* Type correctness: every pointer of h3_stream is NULL or was allocated.
THEOREM ResponseTypeOK == Spec => []TypeOK
<1>1. ResponseInv => TypeOK
  BY DEF ResponseInv
<1> QED
  BY <1>1, ResponseInvariant, PTL

\* Back-pressure: response_buffered is exactly what was appended and not acked
\* and never exceeds the limit.
THEOREM BufferAccountedAlways == Spec => []BufferAccounted
<1>1. ResponseInv => BufferAccounted
  BY DEF ResponseInv
<1> QED
  BY <1>1, ResponseInvariant, PTL

\* No pointer of the queue and no vector lent to nghttp3 names a freed chunk.
LEMMA LiveVectors == ResponseInv => NoDanglingChunk
<1> SUFFICES ASSUME ResponseInv PROVE NoDanglingChunk
  OBVIOUS
<1>1. {response_head, response_tail, response_submit_chunk}
          \subseteq live \cup {NULL}
  BY SMTT(30) DEF ResponseInv, TypeOK, Ptr, QueueInv, NULL
<1>2. ASSUME tracked, qstream, ng_open, NEW i \in 1..Len(ng_outq)
      PROVE  ng_outq[i] \in live
  <2>1. Linked
    BY <1>2 DEF Linked, ResponseInv, ControlInv
  <2>2. ng_outq # <<>> /\ i \in 1..Len(ng_outq) /\ Len(ng_outq) \in Nat
    BY <2>1, LinkedFacts
  <2>3. /\ response_head # 0 /\ ng_outq[i] = LastLent - Len(ng_outq) + i
        /\ response_head + Len(ng_outq) <= LastLent + 1
    BY <2>1, <2>2 DEF ResponseInv, VectorInv, NULL
  <2>4. /\ live = response_head..Len(chunks) /\ Len(chunks) \in Nat
        /\ response_head \in Nat /\ LastLent \in Int
    BY <2>1, <2>3, LinkedFacts
  <2>5. LastLent <= Len(chunks)
    BY <2>1, <2>4, LinkedFacts DEF LastLent, NULL
  <2> QED
    BY <2>2, <2>3, <2>4, <2>5
<1> QED
  BY <1>1, <1>2 DEF NoDanglingChunk

\* Acks, reclaim and destroy free chunks while vectors are out, but never one
\* that either thread can still reach.
THEOREM NoDanglingChunkAlways == Spec => []NoDanglingChunk
<1> QED
  BY LiveVectors, ResponseInvariant, PTL

-----------------------------------------------------------------------------
(***************************************************************************)
(* The end of the body, and the sleepers.                                  *)
(***************************************************************************)

\* EndInv is inductive, given the types and the control state.
LEMMA EndStep == TypeOK /\ ControlInv /\ EndInv /\ [Next]_vars => EndInv'
<1> SUFFICES ASSUME TypeOK, ControlInv, EndInv, [Next]_vars PROVE EndInv'
  OBVIOUS
<1> USE DEF TypeOK, ControlInv, EndInv, NULL, queueVars, flagVars,
        streamVars, sessVars, ngVars, quicVars, workVars, eventVars
<1>1. CASE h3_filter_out_proto
  BY <1>1 DEF h3_filter_out_proto, Running
<1>2. CASE handler_returns
  BY <1>2 DEF handler_returns, Running
<1>3. CASE submit_response_nva
  BY <1>3 DEF submit_response_nva, AfterSuccess, AfterFailure, cancel_locked,
     Woken, WorkerAt, Running
<1>4. CASE response_append_wait
  BY <1>4 DEF response_append_wait, WorkerAt, Running
<1>5. CASE response_append_timeup
  BY <1>5 DEF response_append_timeup, WorkerAt, Running
<1>6. CASE response_append_refused
  BY <1>6 DEF response_append_refused, WorkerAt, Running, AfterFailure
<1>7. CASE response_append_nomem
  BY <1>7 DEF response_append_nomem, WorkerAt, Running, AfterFailure,
     cancel_locked, Woken
<1>8. CASE response_append_chunk
  <2>1. wlen > 0 /\ response_buffered < BufferLimit
    BY <1>8 DEF response_append_chunk, WorkerAt, Running
  <2>2. ChunkLen \in Nat \ {0} /\ ChunkLen <= wlen
    BY <2>1, ChunkLenFacts DEF TypeOK
  <2>3. ~eos /\ ~(response_complete /\ ~response_cancelled)
    BY <2>1
  <2>4. UNCHANGED <<wop, streaming, eos, flagVars, epc, ng_fin, ng_outq,
                    fin_sent, broken>>
    BY <1>8 DEF response_append_chunk
  <2>5. ~response_cancelled
    BY <1>8 DEF response_append_chunk, Refused
  <2>6. wpc' = AfterSuccess(wlen - ChunkLen)
    BY <1>8 DEF response_append_chunk
  <2>7. wpc' = "complete" => wop \in {"eos", "final"}
    BY <2>6 DEF AfterSuccess
  <2> QED
    BY <2>3, <2>4, <2>5, <2>7
<1>9. CASE h3_stream_response_complete
  BY <1>9 DEF h3_stream_response_complete, WorkerAt, Running
<1>10. CASE wake_event_thread
  BY <1>10 DEF wake_event_thread
<1>11. CASE stream_worker_done
  BY <1>11 DEF stream_worker_done, WorkerAt, Running
<1>12. CASE stream_worker_return
  BY <1>12 DEF stream_worker_return
<1>13. CASE response_append_wait_fails
  BY <1>13 DEF response_append_wait_fails, WorkerAt, Running, AfterFailure
<1>14. CASE pass_skipped
  BY <1>14 DEF pass_skipped
<1>15. CASE wait_for_event
  BY <1>15 DEF wait_for_event
<1>16. CASE service_session_pass
  BY <1>16 DEF service_session_pass
<1>17. CASE pass_after_first_flush
  BY <1>17 DEF pass_after_first_flush
<1>18. CASE reap_keep
  BY <1>18 DEF reap_keep
<1>19. CASE h3_session_destroy
  BY <1>19 DEF h3_session_destroy, active_tasks, cancel_locked, Woken,
     cleanup_locked
<1>20. CASE drain_ready_streams
  BY <1>20 DEF drain_ready_streams, on_stream_close, cancel_locked, Woken
<1>21. CASE reclaim_stream
  BY <1>21 DEF reclaim_stream, Reclaimable, cleanup_locked
<1>22. CASE unblock_writable_streams
  BY <1>22 DEF unblock_writable_streams
<1>23. CASE flush_nghttp3
  BY <1>23 DEF flush_nghttp3, CanRead, CanWrite, HasWork
<1>24. CASE read_data_chunk
  BY <1>24 DEF read_data_chunk
<1>25. CASE h3_session_read_data
  BY <1>25 DEF h3_session_read_data, ReadEof
<1>26. CASE write_vec
  BY <1>26 DEF write_vec, Concludes, PopVec
<1>27. CASE write_end
  BY <1>27 DEF write_end, Concludes
<1>28. CASE swallow_vec
  BY <1>28 DEF swallow_vec, PopVec
<1>29. CASE swallow_end
  BY <1>29 DEF swallow_end
<1>30. CASE response_ack_chunk
  BY <1>30 DEF response_ack_chunk, Woken
<1>31. CASE response_ack_end
  BY <1>31 DEF response_ack_end
<1>32. CASE UNCHANGED vars
  BY <1>32 DEF vars
<1> QED
  BY <1>1, <1>2, <1>3, <1>4, <1>5, <1>6, <1>7, <1>8, <1>9, <1>10, <1>11,
     <1>12, <1>13, <1>14, <1>15, <1>16, <1>17, <1>18, <1>19, <1>20, <1>21,
     <1>22, <1>23, <1>24, <1>25, <1>26, <1>27, <1>28, <1>29, <1>30, <1>31,
     <1>32 DEF Next, HandlerNext, WorkerNext, EventNext, Terminated

\* WakeInv is inductive, given the types and the control state.
LEMMA WakeStep == TypeOK /\ ControlInv /\ WakeInv /\ [Next]_vars => WakeInv'
<1> SUFFICES ASSUME TypeOK, ControlInv, WakeInv, [Next]_vars PROVE WakeInv'
  OBVIOUS
<1> USE ResponseAssumption
    DEF TypeOK, ControlInv, WakeInv, SleepHasReason, ReaderIsResumed,
        NoLostWakeup, HasWork, CanRead, CanWrite, NULL, queueVars, flagVars,
        streamVars, sessVars, ngVars, quicVars, workVars, eventVars
<1>1. CASE h3_filter_out_proto
  BY <1>1 DEF h3_filter_out_proto, Running
<1>2. CASE handler_returns
  BY <1>2 DEF handler_returns, Running
<1>3. CASE submit_response_nva
  BY <1>3 DEF submit_response_nva, AfterSuccess, AfterFailure, cancel_locked,
     Woken, ThenSignal, WorkerAt, Running
<1>4. CASE response_append_wait
  BY <1>4 DEF response_append_wait, WorkerAt, Running, Refused
<1>5. CASE response_append_timeup
  BY <1>5 DEF response_append_timeup, WorkerAt, Running
<1>6. CASE response_append_refused
  BY <1>6 DEF response_append_refused, WorkerAt, Running, AfterFailure
<1>7. CASE response_append_nomem
  BY <1>7 DEF response_append_nomem, WorkerAt, Running, AfterFailure,
     cancel_locked, Woken
<1>8. CASE response_append_chunk
  BY <1>8 DEF response_append_chunk, WorkerAt, Running, Resume, ThenSignal,
     AfterSuccess
<1>9. CASE h3_stream_response_complete
  BY <1>9 DEF h3_stream_response_complete, WorkerAt, Running, Resume,
     ThenSignal
<1>10. CASE wake_event_thread
  BY <1>10 DEF wake_event_thread
<1>11. CASE stream_worker_done
  BY <1>11 DEF stream_worker_done, WorkerAt, Running
<1>12. CASE stream_worker_return
  BY <1>12 DEF stream_worker_return
<1>13. CASE response_append_wait_fails
  BY <1>13 DEF response_append_wait_fails, WorkerAt, Running, AfterFailure
<1>14. CASE pass_skipped
  BY <1>14 DEF pass_skipped
<1>15. CASE wait_for_event
  BY <1>15 DEF wait_for_event
<1>16. CASE service_session_pass
  BY <1>16 DEF service_session_pass
<1>17. CASE pass_after_first_flush
  BY <1>17 DEF pass_after_first_flush
<1>18. CASE reap_keep
  BY <1>18 DEF reap_keep
<1>19. CASE h3_session_destroy
  BY <1>19 DEF h3_session_destroy, active_tasks, cancel_locked, Woken,
     cleanup_locked
<1>20. CASE drain_ready_streams
  <2>1. /\ epc = "drain" /\ epc' = "reclaim" /\ ngh3_dead' \in {ngh3_dead, TRUE}
        /\ UNCHANGED <<queueVars, response_submitted, aborted, ng_waiting>>
    BY <1>20 DEF drain_ready_streams
  <2>2. \/ response_cancelled' = TRUE /\ wpc' = Woken(wpc)
        \/ UNCHANGED <<response_cancelled, response_complete, wpc>>
    BY <1>20 DEF drain_ready_streams, on_stream_close, cancel_locked
  <2>3. SleepHasReason'
    BY <2>1, <2>2 DEF Woken
  <2>4. ReaderIsResumed'
    BY <2>1, <2>2
  <2> QED
    BY <2>1, <2>3, <2>4
<1>21. CASE reclaim_stream
  BY <1>21 DEF reclaim_stream, Reclaimable, cleanup_locked
<1>22. CASE unblock_writable_streams
  BY <1>22 DEF unblock_writable_streams
<1>23. CASE flush_nghttp3
  BY <1>23 DEF flush_nghttp3
<1>24. CASE read_data_chunk
  BY <1>24 DEF read_data_chunk
<1>25. CASE h3_session_read_data
  BY <1>25 DEF h3_session_read_data, ReadEof, VecLeft
<1>26. CASE write_vec
  BY <1>26 DEF write_vec
<1>27. CASE write_end
  BY <1>27 DEF write_end
<1>28. CASE swallow_vec
  BY <1>28 DEF swallow_vec
<1>29. CASE swallow_end
  BY <1>29 DEF swallow_end
<1>30. CASE response_ack_chunk
  BY <1>30 DEF response_ack_chunk, Woken
<1>31. CASE response_ack_end
  BY <1>31 DEF response_ack_end
<1>32. CASE UNCHANGED vars
  BY <1>32 DEF vars
<1> QED
  BY <1>1, <1>2, <1>3, <1>4, <1>5, <1>6, <1>7, <1>8, <1>9, <1>10, <1>11,
     <1>12, <1>13, <1>14, <1>15, <1>16, <1>17, <1>18, <1>19, <1>20, <1>21,
     <1>22, <1>23, <1>24, <1>25, <1>26, <1>27, <1>28, <1>29, <1>30, <1>31,
     <1>32 DEF Next, HandlerNext, WorkerNext, EventNext, Terminated

-----------------------------------------------------------------------------
(***************************************************************************)
(* The wire.                                                               *)
(***************************************************************************)

\* h3q_stream_write puts the next bytes of the body on the wire, or finds the
\* stream broken.
LEMMA WriteWire ==
    ASSUME ResponseInv, write_vec
    PROVE  \/ /\ ~broken /\ qstream /\ broken' = broken
              /\ \E n \in 0..(response_len - Len(wire)) :
                    wire' = wire \o [i \in 1..n |-> Len(wire) + i]
           \/ broken' = TRUE /\ wire' = wire
<1>1. Linked /\ ng_outq # <<>> /\ qstream
  BY DEF write_vec, ResponseInv, ControlInv, Linked
<1>2. /\ VecLen \in Nat \ {0} /\ WritePos = chunks[ng_outq[1]].at + ng_off
      /\ VecLen = chunks[ng_outq[1]].len - ng_off /\ ng_outq[1] \in live
      /\ Head(ng_outq) = ng_outq[1]
  BY <1>1, FirstVec
<1>3. /\ chunks[ng_outq[1]].at \in Nat /\ chunks[ng_outq[1]].len \in Nat
      /\ chunks[ng_outq[1]].at + chunks[ng_outq[1]].len <= response_len
      /\ ng_off \in Nat /\ response_len \in Nat
  BY <1>1, <1>2, ChunkFacts, LinkedFacts
<1>4. WritePos + VecLen <= response_len /\ WritePos \in Nat
  BY <1>2, <1>3
<1>5. ASSUME ~broken, NEW n \in 0..VecLen, wire' = wire \o VecBytes(n)
      PROVE  \E m \in 0..(response_len - Len(wire)) :
                    wire' = wire \o [i \in 1..m |-> Len(wire) + i]
  <2>1. Len(wire) = WritePos
    BY <1>1, <1>5 DEF ResponseInv, VectorInv
  <2>2. VecBytes(n) = [i \in 1..n |-> Len(wire) + i]
    BY <1>2, <2>1 DEF VecBytes
  <2>3. n \in 0..(response_len - Len(wire))
    BY SMTT(30), <1>2, <1>3, <1>4, <2>1
  <2> QED
    BY <1>5, <2>2, <2>3
<1>6. CASE ~broken /\ broken' = broken /\ wire' = wire \o VecBytes(VecLen)
  <2>1. VecLen \in 0..VecLen
    BY <1>2
  <2> QED
    BY <1>1, <1>5, <1>6, <2>1
<1>7. ASSUME ~broken, broken' = broken, NEW w \in 0..(VecLen - 1),
             wire' = wire \o VecBytes(w)
      PROVE  \E m \in 0..(response_len - Len(wire)) :
                    wire' = wire \o [i \in 1..m |-> Len(wire) + i]
  <2>1. w \in 0..VecLen
    BY <1>2
  <2> QED
    BY <1>5, <1>7, <2>1
<1> QED
  BY <1>1, <1>6, <1>7 DEF write_vec

\* Appending the next n positions to a sequence of positions.
LEMMA NextBytes ==
    ASSUME NEW s \in Seq(Nat), NEW n \in Nat,
           NEW t, t = s \o [i \in 1..n |-> Len(s) + i]
    PROVE  /\ Len(t) = Len(s) + n
           /\ \A k \in 1..Len(s) : t[k] = s[k]
           /\ \A k \in (Len(s) + 1)..(Len(s) + n) : t[k] = k
<1> DEFINE b == [i \in 1..n |-> Len(s) + i]
<1>1. Len(s) \in Nat
  OBVIOUS
<1>2. b \in Seq(Nat) /\ Len(b) = n
  BY <1>1
<1>3. \A i \in 1..n : b[i] = Len(s) + i
  OBVIOUS
<1> HIDE DEF b
<1>4. t = s \o b
  BY DEF b
<1>5. /\ Len(t) = Len(s) + Len(b)
      /\ \A k \in 1..(Len(s) + Len(b)) :
            t[k] = IF k <= Len(s) THEN s[k] ELSE b[k - Len(s)]
  BY <1>2, <1>4, ConcatProperties
<1>6. ASSUME NEW k \in (Len(s) + 1)..(Len(s) + n) PROVE t[k] = k
  <2>1. k - Len(s) \in 1..n /\ k \in 1..(Len(s) + Len(b)) /\ ~(k <= Len(s))
    BY <1>1, <1>2
  <2>2. t[k] = b[k - Len(s)]
    BY <1>5, <2>1
  <2>3. b[k - Len(s)] = Len(s) + (k - Len(s))
    BY <1>3, <2>1
  <2> QED
    BY <1>1, <2>2, <2>3
<1> QED
  BY <1>1, <1>2, <1>5, <1>6

\* Only a write changes the wire; only an append changes the body's length.
LEMMA WireSteps ==
    ASSUME TypeOK, ControlInv, [Next]_vars
    PROVE  \/ write_vec /\ response_len' = response_len
           \/ response_append_chunk /\ wire' = wire
           \/ wire' = wire /\ response_len' = response_len
  BY DataSteps DEF write_vec, response_append_chunk, h3_session_destroy,
     reclaim_stream, read_data_chunk, swallow_vec, response_ack_chunk,
     response_ack_end, cleanup_locked, queueVars, quicVars, dataVars

\* What is on the wire stays a prefix of the body.
LEMMA WireStep ==
    ResponseInv /\ WireIsPrefix /\ [Next]_vars => WireIsPrefix'
<1> SUFFICES ASSUME ResponseInv, WireIsPrefix, [Next]_vars
             PROVE  WireIsPrefix'
  OBVIOUS
<1>1. /\ TypeOK /\ ControlInv /\ wire \in Seq(Nat) /\ response_len \in Nat
      /\ Len(wire) \in Nat
  BY DEF ResponseInv, TypeOK
<1>2. CASE wire' = wire /\ response_len' = response_len
  BY <1>2 DEF WireIsPrefix
<1>3. CASE response_append_chunk /\ wire' = wire
  <2>1. ChunkLen \in Nat
    BY <1>1, <1>3, ChunkLenFacts DEF response_append_chunk, ControlInv,
       WorkerAt, Running
  <2>2. response_len' = response_len + ChunkLen
    BY <1>3 DEF response_append_chunk
  <2> QED
    BY <1>1, <1>3, <2>1, <2>2 DEF WireIsPrefix
<1>4. CASE write_vec /\ response_len' = response_len
  <2>1. CASE wire' = wire
    BY <1>4, <2>1 DEF WireIsPrefix
  <2>2. ASSUME NEW n \in 0..(response_len - Len(wire)),
               wire' = wire \o [i \in 1..n |-> Len(wire) + i]
        PROVE  WireIsPrefix'
    <3>1. n \in Nat /\ Len(wire) + n <= response_len
      BY <1>1
    <3>2. /\ Len(wire') = Len(wire) + n
          /\ \A k \in 1..Len(wire) : wire'[k] = wire[k]
          /\ \A k \in (Len(wire) + 1)..(Len(wire) + n) : wire'[k] = k
      BY <1>1, <2>2, <3>1, NextBytes
    <3>3. \A k \in 1..Len(wire) : wire'[k] = k
      BY <3>2 DEF WireIsPrefix
    <3> QED
      BY <1>1, <1>4, <3>1, <3>2, <3>3 DEF WireIsPrefix
  <2> QED
    BY <1>4, <2>1, <2>2, WriteWire
<1> QED
  BY <1>1, <1>2, <1>3, <1>4, WireSteps

-----------------------------------------------------------------------------
(***************************************************************************)
(* The theorems.                                                           *)
(***************************************************************************)

FullInv == ResponseInv /\ EndInv /\ WakeInv /\ WireIsPrefix

\* Every step of either thread preserves the whole invariant.
LEMMA FullInvStep == FullInv /\ [Next]_vars => FullInv'
<1>1. ResponseInv => TypeOK /\ ControlInv
  BY DEF ResponseInv
<1> QED
  BY <1>1, ResponseInvStep, EndStep, WakeStep, WireStep DEF FullInv

\* It holds when the request is dispatched.
LEMMA FullInit == Init => FullInv
<1>1. Init => EndInv
  BY DEF Init, EndInv, NULL, Reached, undisturbed, on_stop_sending,
         on_reset_stream, closed_early
<1>2. Init => WakeInv
  BY DEF Init, WakeInv, SleepHasReason, ReaderIsResumed, NoLostWakeup,
         HasWork, CanRead, CanWrite
<1>3. Init => WireIsPrefix
  BY DEF Init, WireIsPrefix
<1> QED
  BY <1>1, <1>2, <1>3, ResponseInit DEF FullInv

\* The whole invariant.
THEOREM FullInvariant == Spec => []FullInv
<1> QED
  BY FullInit, FullInvStep, PTL DEF Spec

\* What QUIC accepted is a prefix of what the handler appended, whatever the
\* chunk size, the vector count and the places where QUIC blocks.
THEOREM WireIsPrefixAlways == Spec => []WireIsPrefix
<1>1. FullInv => WireIsPrefix
  BY DEF FullInv
<1> QED
  BY <1>1, FullInvariant, PTL

\* With the FIN handed out and the stream whole, the body is on the wire.
LEMMA WholeBody ==
    ASSUME FullInv, ~broken, ng_outq = <<>>, response_submit_chunk = NULL,
           ~response_cancelled
    PROVE  Len(wire) = response_len
<1>1. Linked
  BY DEF FullInv, ResponseInv, ControlInv, Linked, TypeOK
<1>2. WritePos = response_len
  BY DEF WritePos, LentPos
<1> QED
  BY <1>1, <1>2 DEF FullInv, ResponseInv, VectorInv

\* A FIN that was sent follows the whole body, or the response was cancelled.
THEOREM FinMeansWholeAlways == Spec => []FinMeansWhole
<1>1. FullInv => FinMeansWhole
  BY WholeBody DEF FullInv, EndInv, FinMeansWhole
<1> QED
  BY <1>1, FullInvariant, PTL

\* Nothing follows the FIN on the wire.
THEOREM NothingAfterFinAlways == Spec => NothingAfterFin
<1>1. FullInv /\ [Next]_vars => [fin_sent => wire' = wire]_vars
  BY WireSteps DEF FullInv, ResponseInv, EndInv, write_vec
<1> QED
  BY <1>1, FullInvariant, PTL DEF Spec, NothingAfterFin

\* A worker asleep in append is asleep because the queue is full.
THEOREM SleepHasReasonAlways == Spec => []SleepHasReason
<1>1. FullInv => SleepHasReason
  BY DEF FullInv, WakeInv
<1> QED
  BY <1>1, FullInvariant, PTL

\* nghttp3 is never left waiting for data that is there.
THEOREM ReaderIsResumedAlways == Spec => []ReaderIsResumed
<1>1. FullInv => ReaderIsResumed
  BY DEF FullInv, WakeInv
<1> QED
  BY <1>1, FullInvariant, PTL

\* The event thread never sleeps in poll, unsignalled, on work it could do.
THEOREM NoLostWakeupAlways == Spec => []NoLostWakeup
<1>1. FullInv => NoLostWakeup
  BY DEF FullInv, WakeInv
<1> QED
  BY <1>1, FullInvariant, PTL

-----------------------------------------------------------------------------
(***************************************************************************)
(* The queue implements the byte pipe of ResponseStream.                   *)
(***************************************************************************)

pipeVars == <<response_len, wire, response_complete, response_cancelled,
              broken, qstream, fin_sent>>

\* The steps that the pipe can see.
LEMMA PipeSteps ==
    ASSUME TypeOK, [Next]_vars
    PROVE  \/ submit_response_nva \/ response_append_nomem
           \/ response_append_chunk \/ h3_stream_response_complete
           \/ h3_session_destroy \/ drain_ready_streams \/ write_vec \/ write_end
           \/ UNCHANGED pipeVars
<1> USE DEF pipeVars, queueVars, flagVars, streamVars, quicVars
<1>1. CASE h3_filter_out_proto
  BY <1>1 DEF h3_filter_out_proto
<1>2. CASE handler_returns
  BY <1>2 DEF handler_returns
<1>3. CASE submit_response_nva
  BY <1>3
<1>4. CASE response_append_wait
  BY <1>4 DEF response_append_wait
<1>5. CASE response_append_timeup
  BY <1>5 DEF response_append_timeup
<1>6. CASE response_append_refused
  BY <1>6 DEF response_append_refused
<1>7. CASE response_append_nomem
  BY <1>7
<1>8. CASE response_append_chunk
  BY <1>8
<1>9. CASE h3_stream_response_complete
  BY <1>9
<1>10. CASE wake_event_thread
  BY <1>10 DEF wake_event_thread
<1>11. CASE stream_worker_done
  BY <1>11 DEF stream_worker_done
<1>12. CASE stream_worker_return
  BY <1>12 DEF stream_worker_return
<1>13. CASE response_append_wait_fails
  BY <1>13 DEF response_append_wait_fails
<1>14. CASE pass_skipped
  BY <1>14 DEF pass_skipped
<1>15. CASE wait_for_event
  BY <1>15 DEF wait_for_event
<1>16. CASE service_session_pass
  BY <1>16 DEF service_session_pass
<1>17. CASE pass_after_first_flush
  BY <1>17 DEF pass_after_first_flush
<1>18. CASE reap_keep
  BY <1>18 DEF reap_keep
<1>19. CASE h3_session_destroy
  BY <1>19
<1>20. CASE drain_ready_streams
  BY <1>20
<1>21. CASE reclaim_stream
  BY <1>21 DEF reclaim_stream, cleanup_locked
<1>22. CASE unblock_writable_streams
  BY <1>22 DEF unblock_writable_streams
<1>23. CASE flush_nghttp3
  BY <1>23 DEF flush_nghttp3
<1>24. CASE read_data_chunk
  BY <1>24 DEF read_data_chunk
<1>25. CASE h3_session_read_data
  BY <1>25 DEF h3_session_read_data
<1>26. CASE write_vec
  BY <1>26
<1>27. CASE write_end
  BY <1>27
<1>28. CASE swallow_vec
  BY <1>28 DEF swallow_vec
<1>29. CASE swallow_end
  BY <1>29 DEF swallow_end
<1>30. CASE response_ack_chunk
  BY <1>30 DEF response_ack_chunk
<1>31. CASE response_ack_end
  BY <1>31 DEF response_ack_end
<1>32. CASE UNCHANGED vars
  BY <1>32 DEF vars
<1> QED
  BY <1>1, <1>2, <1>3, <1>4, <1>5, <1>6, <1>7, <1>8, <1>9, <1>10, <1>11,
     <1>12, <1>13, <1>14, <1>15, <1>16, <1>17, <1>18, <1>19, <1>20, <1>21,
     <1>22, <1>23, <1>24, <1>25, <1>26, <1>27, <1>28, <1>29, <1>30, <1>31,
     <1>32 DEF Next, HandlerNext, WorkerNext, EventNext, Terminated

\* A cancellation is the pipe's Cut, or nothing when it already is cut.
LEMMA CancelIsCut ==
    ASSUME FullInv, response_cancelled' = TRUE, response_complete' = TRUE,
           UNCHANGED <<response_len, wire, broken, qstream, fin_sent>>
    PROVE  [Pipe!Next]_Pipe!vars
<1>1. CASE response_cancelled
  <2>1. response_complete = TRUE /\ response_cancelled = TRUE
    BY <1>1 DEF FullInv, ResponseInv, TypeOK, EndInv
  <2> QED
    BY <2>1 DEF Pipe!vars
<1>2. CASE ~response_cancelled
  BY <1>2 DEF Pipe!Next, Pipe!Cut
<1> QED
  BY <1>1, <1>2

\* An append is the pipe's Accept: there is room for the chunk.
LEMMA AppendIsAccept ==
    ASSUME FullInv, response_append_chunk
    PROVE  Pipe!Accept
<1>1. /\ wpc = "append" /\ wlen > 0 /\ response_buffered < BufferLimit
      /\ ~response_cancelled /\ accepted = 0 /\ epc # "gone"
  BY DEF FullInv, ResponseInv, ControlInv, response_append_chunk, WorkerAt,
         Running, Refused, EventHoldsLock
<1>2. ~response_complete
  BY <1>1 DEF FullInv, EndInv
<1>3. /\ ChunkLen \in Nat \ {0} /\ ChunkLen <= BufferLimit - response_buffered
      /\ response_buffered \in Nat /\ response_len \in Nat
  BY <1>1, ChunkLenFacts DEF FullInv, ResponseInv, TypeOK
<1>4. ChunkLen \in 1..BufferLimit
  BY <1>3, ResponseAssumption
<1>5. ASSUME ~(broken \/ ~qstream)
      PROVE  response_len + ChunkLen <= Len(wire) + BufferLimit
  <2>1. Linked
    BY <1>1, <1>5 DEF Linked, FullInv, ResponseInv, ControlInv
  <2>2. AckPos + accepted = WritePos /\ Len(wire) = WritePos
    BY <1>5, <2>1 DEF FullInv, ResponseInv, VectorInv
  <2>3. response_buffered = response_len - AckPos /\ AckPos \in Nat
    BY AckPosType DEF FullInv, ResponseInv, BufferAccounted
  <2> QED
    BY <1>1, <1>3, <2>2, <2>3, ResponseAssumption
<1>6. /\ response_len' = response_len + ChunkLen
      /\ UNCHANGED <<wire, response_complete, response_cancelled, broken,
                     qstream, fin_sent>>
  BY DEF response_append_chunk, flagVars, streamVars, quicVars
<1> QED
  BY <1>2, <1>4, <1>5, <1>6 DEF Pipe!Accept

\* Closing a stream cuts the pipe and loses the peer.
LEMMA DrainIsCut ==
    ASSUME FullInv, drain_ready_streams
    PROVE  [Pipe!Next]_Pipe!vars
<1>1. UNCHANGED <<response_len, wire, broken, fin_sent>>
  BY DEF drain_ready_streams, queueVars, quicVars
<1>2. CASE UNCHANGED <<response_cancelled, response_complete, qstream>>
  BY <1>1, <1>2 DEF Pipe!vars
<1>3. CASE /\ response_cancelled' = TRUE /\ response_complete' = TRUE
           /\ qstream /\ qstream' = FALSE
  <2>1. CASE ~response_cancelled
    BY <1>1, <1>3, <2>1 DEF Pipe!Next, Pipe!Cut
  <2>2. CASE response_cancelled
    <3>1. response_complete' = response_complete
          /\ response_cancelled' = response_cancelled
      BY <1>3, <2>2 DEF FullInv, ResponseInv, TypeOK, EndInv
    <3>2. CASE broken
      BY <1>1, <3>1, <3>2 DEF Pipe!vars
    <3>3. CASE ~broken
      BY <1>1, <1>3, <3>1, <3>3 DEF Pipe!Next, Pipe!Lose
    <3> QED
      BY <3>2, <3>3
  <2> QED
    BY <2>1, <2>2
<1> QED
  BY <1>2, <1>3 DEF drain_ready_streams, on_stream_close, cancel_locked

\* A write delivers bytes, or loses the peer.
LEMMA WriteIsDeliver ==
    ASSUME FullInv, write_vec
    PROVE  [Pipe!Next]_Pipe!vars
<1>1. ~fin_sent /\ qstream
  BY DEF FullInv, EndInv, ResponseInv, ControlInv, write_vec
<1>2. /\ UNCHANGED <<response_len, response_complete, response_cancelled,
                     qstream>>
      /\ fin_sent' = fin_sent
  BY <1>1 DEF write_vec, queueVars, flagVars, streamVars, Concludes, FullInv,
     ResponseInv, TypeOK
<1>3. wire \in Seq(Nat) /\ broken \in BOOLEAN /\ Len(wire) \in Nat
      /\ response_len \in Nat
  BY DEF FullInv, ResponseInv, TypeOK
<1>4. CASE wire' = wire /\ broken' = broken
  BY <1>2, <1>4 DEF Pipe!vars
<1>5. CASE wire' = wire /\ broken' = TRUE /\ ~broken
  BY <1>1, <1>2, <1>5 DEF Pipe!Next, Pipe!Lose
<1>6. ASSUME ~broken, broken' = broken,
             NEW n \in 0..(response_len - Len(wire)),
             wire' = wire \o [i \in 1..n |-> Len(wire) + i]
      PROVE  [Pipe!Next]_Pipe!vars
  <2>1. CASE n = 0
    <3>1. [i \in 1..n |-> Len(wire) + i] = <<>>
      BY <2>1
    <3>2. wire' = wire
      BY SMTT(30), <1>3, <1>6, <3>1
    <3> QED
      BY <1>4, <1>6, <3>2
  <2>2. CASE n # 0
    <3>1. n \in 1..(response_len - Len(wire))
      BY <1>3, <2>2
    <3> QED
      BY <1>1, <1>2, <1>6, <3>1 DEF Pipe!Next, Pipe!Deliver
  <2> QED
    BY <2>1, <2>2
<1> QED
  BY <1>3, <1>4, <1>5, <1>6, WriteWire DEF FullInv

\* The FIN is the pipe's Finish.
LEMMA EndIsFinish ==
    ASSUME FullInv, write_end
    PROVE  [Pipe!Next]_Pipe!vars
<1>1. /\ UNCHANGED <<response_len, response_complete, response_cancelled,
                     qstream, wire, broken>>
      /\ qstream /\ ng_outq = <<>>
  BY DEF write_end, queueVars, flagVars, streamVars, FullInv, ResponseInv,
     ControlInv
<1>2. fin_sent \in BOOLEAN /\ fin_sent' = (fin_sent \/ Concludes(TRUE))
  BY DEF write_end, FullInv, ResponseInv, TypeOK
<1>3. CASE fin_sent \/ ~Concludes(TRUE)
  <2>1. fin_sent' = fin_sent
    BY <1>2, <1>3 DEF Concludes
  <2> QED
    BY <1>1, <2>1 DEF Pipe!vars
<1>4. CASE ~fin_sent /\ Concludes(TRUE)
  <2>1. ~broken /\ ng_fin = "read" /\ fin_sent' = TRUE
    BY <1>2, <1>4 DEF Concludes
  <2>2. response_cancelled \/ (response_complete /\ Len(wire) = response_len)
    BY <1>1, <2>1, WholeBody DEF FullInv, EndInv
  <2> QED
    BY <1>1, <1>4, <2>1, <2>2 DEF Pipe!Next, Pipe!Finish
<1> QED
  BY <1>3, <1>4

\* Every step of the two threads is a step of the pipe, or the pipe stutters.
LEMMA PipeStep == FullInv /\ [Next]_vars => [Pipe!Next]_Pipe!vars
<1> SUFFICES ASSUME FullInv, [Next]_vars PROVE [Pipe!Next]_Pipe!vars
  OBVIOUS
<1>0. TypeOK
  BY DEF FullInv, ResponseInv
<1>1. CASE submit_response_nva
  <2>1. UNCHANGED <<response_len, wire, broken, qstream, fin_sent>>
    BY <1>1 DEF submit_response_nva, queueVars, streamVars, quicVars
  <2>2. \/ UNCHANGED <<response_complete, response_cancelled>>
        \/ response_complete' = TRUE /\ response_cancelled' = TRUE
    BY <1>1 DEF submit_response_nva, flagVars, cancel_locked
  <2> QED
    BY <2>1, <2>2, CancelIsCut DEF Pipe!vars
<1>2. CASE response_append_nomem
  BY <1>2, CancelIsCut DEF response_append_nomem, cancel_locked, queueVars,
     streamVars, quicVars
<1>3. CASE response_append_chunk
  BY <1>3, AppendIsAccept DEF Pipe!Next
<1>4. CASE h3_stream_response_complete
  <2>1. /\ UNCHANGED <<response_len, wire, broken, qstream, fin_sent,
                       response_cancelled>>
        /\ response_complete' = TRUE
    BY <1>4 DEF h3_stream_response_complete, queueVars, streamVars, quicVars
  <2>2. CASE ~response_complete
    BY <2>1, <2>2 DEF Pipe!Next, Pipe!Close
  <2>3. CASE response_complete
    <3>1. response_complete' = response_complete
      BY <1>0, <2>1, <2>3 DEF TypeOK
    <3> QED
      BY <2>1, <3>1 DEF Pipe!vars
  <2> QED
    BY <2>2, <2>3
<1>5. CASE h3_session_destroy
  <2>1. UNCHANGED <<response_len, wire, broken, qstream, fin_sent>>
    BY <1>5 DEF h3_session_destroy, cleanup_locked, queueVars, streamVars,
       quicVars
  <2>2. \/ UNCHANGED <<response_complete, response_cancelled>>
        \/ response_complete' = TRUE /\ response_cancelled' = TRUE
    BY <1>5 DEF h3_session_destroy, cancel_locked
  <2> QED
    BY <2>1, <2>2, CancelIsCut DEF Pipe!vars
<1>6. CASE drain_ready_streams
  BY <1>6, DrainIsCut
<1>7. CASE write_vec
  BY <1>7, WriteIsDeliver
<1>8. CASE write_end
  BY <1>8, EndIsFinish
<1>9. CASE UNCHANGED pipeVars
  BY <1>9 DEF pipeVars, Pipe!vars
<1> QED
  BY <1>0, <1>1, <1>2, <1>3, <1>4, <1>5, <1>6, <1>7, <1>8, <1>9, PipeSteps

\* The response queue, its two threads, nghttp3 and QUIC implement a bounded
\* byte pipe: what goes in comes out in order, at most the buffer limit is in
\* flight, and the FIN comes last.
THEOREM ResponseImplementsPipe == Spec => ImplementsPipe
<1>1. Init => Pipe!Init
  BY DEF Init, Pipe!Init, Reached, undisturbed, on_stop_sending,
         on_reset_stream, closed_early
<1> QED
  BY <1>1, FullInvariant, PipeStep, PTL DEF Spec, ImplementsPipe, Pipe!Spec

-----------------------------------------------------------------------------
(***************************************************************************)
(* The protocol of the stream's flags.                                     *)
(***************************************************************************)
\* nghttp3 knows of a stream that has its QUIC object, and a worker that leaves
\* has completed its response.
StreamInv == /\ qstream => ng_open \/ epc = "gone"
             /\ wpc = "exit" => response_complete

\* Every step keeps them.
LEMMA StreamInvStep ==
    ASSUME TypeOK, ControlInv, StreamInv, [Next]_vars
    PROVE  StreamInv'
<1> USE DEF StreamInv, flagVars, streamVars, ngVars, workVars, eventVars
<1>1. CASE h3_filter_out_proto
  BY <1>1 DEF h3_filter_out_proto
<1>2. CASE handler_returns
  BY <1>2 DEF handler_returns
<1>3. CASE submit_response_nva
  BY <1>3 DEF submit_response_nva, AfterSuccess, AfterFailure, cancel_locked,
     Woken
<1>4. CASE response_append_wait
  BY <1>4 DEF response_append_wait
<1>5. CASE response_append_timeup
  BY <1>5 DEF response_append_timeup
<1>6. CASE response_append_refused
  BY <1>6 DEF response_append_refused, AfterFailure
<1>7. CASE response_append_nomem
  BY <1>7 DEF response_append_nomem, AfterFailure, cancel_locked, Woken
<1>8. CASE response_append_chunk
  BY <1>8 DEF response_append_chunk, AfterSuccess
<1>9. CASE h3_stream_response_complete
  BY <1>9 DEF h3_stream_response_complete
<1>10. CASE wake_event_thread
  BY <1>10 DEF wake_event_thread
<1>11. CASE stream_worker_done
  BY <1>11 DEF stream_worker_done
<1>12. CASE stream_worker_return
  BY <1>12 DEF stream_worker_return
<1>13. CASE response_append_wait_fails
  BY <1>13 DEF response_append_wait_fails, AfterFailure
<1>14. CASE pass_skipped
  BY <1>14 DEF pass_skipped
<1>15. CASE wait_for_event
  BY <1>15 DEF wait_for_event
<1>16. CASE service_session_pass
  BY <1>16 DEF service_session_pass
<1>17. CASE pass_after_first_flush
  BY <1>17 DEF pass_after_first_flush
<1>18. CASE reap_keep
  BY <1>18 DEF reap_keep
<1>19. CASE h3_session_destroy
  BY <1>19 DEF h3_session_destroy, cancel_locked, Woken
<1>20. CASE drain_ready_streams
  BY <1>20 DEF drain_ready_streams, on_stream_close, cancel_locked, Woken
<1>21. CASE reclaim_stream
  BY <1>21 DEF reclaim_stream
<1>22. CASE unblock_writable_streams
  BY <1>22 DEF unblock_writable_streams, TypeOK
<1>23. CASE flush_nghttp3
  BY <1>23 DEF flush_nghttp3, TypeOK
<1>24. CASE read_data_chunk
  BY <1>24 DEF read_data_chunk
<1>25. CASE h3_session_read_data
  BY <1>25 DEF h3_session_read_data
<1>26. CASE write_vec
  BY <1>26 DEF write_vec
<1>27. CASE write_end
  BY <1>27 DEF write_end
<1>28. CASE swallow_vec
  BY <1>28 DEF swallow_vec
<1>29. CASE swallow_end
  BY <1>29 DEF swallow_end
<1>30. CASE response_ack_chunk
  BY <1>30 DEF response_ack_chunk, Woken
<1>31. CASE response_ack_end
  BY <1>31 DEF response_ack_end
<1>32. CASE UNCHANGED vars
  BY <1>32 DEF vars
<1> QED
  BY <1>1, <1>2, <1>3, <1>4, <1>5, <1>6, <1>7, <1>8, <1>9, <1>10, <1>11,
     <1>12, <1>13, <1>14, <1>15, <1>16, <1>17, <1>18, <1>19, <1>20,
     <1>21, <1>22, <1>23, <1>24, <1>25, <1>26, <1>27, <1>28, <1>29,
     <1>30, <1>31, <1>32
     DEF Next, HandlerNext, WorkerNext, EventNext, Terminated

\* A step of the response is one of StreamLife, or none.
LEMMA StreamStep ==
    ASSUME TypeOK, ControlInv, StreamInv, [Next]_vars
    PROVE  [Stream!Next]_(Stream!vars)
<1>0. epc = "gone" => wpc = "gone"
  BY DEF ControlInv
<1> USE DEF StreamInv, flagVars, streamVars, ngVars, workVars, Stream!vars,
            Stream!response
<1>1. CASE h3_filter_out_proto
  BY <1>1 DEF h3_filter_out_proto
<1>2. CASE handler_returns
  BY <1>2 DEF handler_returns
<1>3. CASE submit_response_nva
  <2>1. CASE UNCHANGED flagVars
    BY <1>3, <2>1 DEF submit_response_nva
  <2>2. CASE ~response_submitted /\ ~response_cancelled
    <3>1. tracked /\ qstream /\ ng_open /\ ~worker_done
      BY <1>3, <2>2, <1>0 DEF submit_response_nva, WorkerAt, Running, ControlInv
    <3>2. CASE /\ response_submitted' = TRUE
               /\ UNCHANGED <<response_complete, response_cancelled>>
      BY <1>3, <2>2, <3>1, <3>2 DEF submit_response_nva, Stream!Next,
         Stream!Submit,
         Stream!Working
    <3>3. CASE /\ response_complete' = TRUE /\ response_cancelled' = TRUE
               /\ UNCHANGED response_submitted
      BY <1>3, <3>1, <3>3 DEF submit_response_nva, Stream!Next, Stream!Cancel,
         Stream!Working
    <3> QED
      BY <1>3, <2>2, <3>2, <3>3 DEF submit_response_nva, cancel_locked
  <2> QED
    BY <1>3, <2>1, <2>2 DEF submit_response_nva, Refused
<1>4. CASE response_append_wait
  BY <1>4 DEF response_append_wait
<1>5. CASE response_append_timeup
  BY <1>5 DEF response_append_timeup
<1>6. CASE response_append_refused
  BY <1>6 DEF response_append_refused
<1>7. CASE response_append_nomem
  <2>1. tracked /\ ~worker_done
    BY <1>7, <1>0 DEF response_append_nomem, WorkerAt, Running, ControlInv
  <2> QED
    BY <1>7, <2>1 DEF response_append_nomem, cancel_locked, Stream!Next,
       Stream!Cancel,
       Stream!Working
<1>8. CASE response_append_chunk
  BY <1>8 DEF response_append_chunk
<1>9. CASE h3_stream_response_complete
  <2>1. tracked /\ ~worker_done
    BY <1>9, <1>0 DEF h3_stream_response_complete, WorkerAt, Running, ControlInv
  <2> QED
    BY <1>9, <2>1 DEF h3_stream_response_complete, Stream!Next, Stream!Complete,
       Stream!Working
<1>10. CASE wake_event_thread
  BY <1>10 DEF wake_event_thread
<1>11. CASE stream_worker_done
  <2>1. tracked /\ ~worker_done /\ response_complete
    BY <1>11, <1>0 DEF stream_worker_done, WorkerAt, Running, ControlInv
  <2> QED
    BY <1>11, <2>1 DEF stream_worker_done, Stream!Next, Stream!Return,
       Stream!Working
<1>12. CASE stream_worker_return
  BY <1>12 DEF stream_worker_return
<1>13. CASE response_append_wait_fails
  BY <1>13 DEF response_append_wait_fails
<1>14. CASE pass_skipped
  BY <1>14 DEF pass_skipped
<1>15. CASE wait_for_event
  BY <1>15 DEF wait_for_event
<1>16. CASE service_session_pass
  BY <1>16 DEF service_session_pass
<1>17. CASE pass_after_first_flush
  BY <1>17 DEF pass_after_first_flush
<1>18. CASE reap_keep
  BY <1>18 DEF reap_keep
<1>19. CASE h3_session_destroy
  <2>1. worker_done
    BY <1>19, <1>0 DEF h3_session_destroy, active_tasks, ControlInv
  <2>2. CASE tracked
    BY <1>19, <2>1, <2>2 DEF h3_session_destroy, cancel_locked, Stream!Next,
       Stream!End
  <2>3. CASE ~tracked
    BY <1>19, <2>1, <2>3 DEF h3_session_destroy, Stream!Next, Stream!End
  <2> QED
    BY <2>2, <2>3
<1>20. CASE drain_ready_streams
  <2>1. CASE UNCHANGED <<response_cancelled, response_complete, wpc, done,
                         qstream, ng_open>>
    BY <1>20, <2>1 DEF drain_ready_streams
  <2>2. CASE tracked /\ qstream /\ on_stream_close
    <3>1. ng_open
      BY <1>20, <2>2 DEF drain_ready_streams
    <3> QED
      BY <1>20, <2>2, <3>1 DEF drain_ready_streams, on_stream_close,
         cancel_locked, Stream!Next,
         Stream!Close
  <2> QED
    BY <1>20, <2>1, <2>2 DEF drain_ready_streams
<1>21. CASE reclaim_stream
  <2>1. CASE Reclaimable
    BY <1>21, <2>1 DEF reclaim_stream, Reclaimable, Stream!Next, Stream!Reclaim
  <2>2. CASE ~Reclaimable
    BY <1>21, <2>2 DEF reclaim_stream
  <2> QED
    BY <2>1, <2>2
<1>22. CASE unblock_writable_streams
  BY <1>22 DEF unblock_writable_streams
<1>23. CASE flush_nghttp3
  BY <1>23 DEF flush_nghttp3
<1>24. CASE read_data_chunk
  BY <1>24 DEF read_data_chunk
<1>25. CASE h3_session_read_data
  BY <1>25 DEF h3_session_read_data
<1>26. CASE write_vec
  BY <1>26 DEF write_vec
<1>27. CASE write_end
  BY <1>27 DEF write_end
<1>28. CASE swallow_vec
  BY <1>28 DEF swallow_vec
<1>29. CASE swallow_end
  BY <1>29 DEF swallow_end
<1>30. CASE response_ack_chunk
  BY <1>30 DEF response_ack_chunk
<1>31. CASE response_ack_end
  BY <1>31 DEF response_ack_end
<1>32. CASE UNCHANGED vars
  BY <1>32 DEF vars
<1> QED
  BY <1>1, <1>2, <1>3, <1>4, <1>5, <1>6, <1>7, <1>8, <1>9, <1>10, <1>11,
     <1>12, <1>13, <1>14, <1>15, <1>16, <1>17, <1>18, <1>19, <1>20,
     <1>21, <1>22, <1>23, <1>24, <1>25, <1>26, <1>27, <1>28, <1>29,
     <1>30, <1>31, <1>32
     DEF Next, HandlerNext, WorkerNext, EventNext, Terminated

\* The response keeps to the protocol of StreamLife, from the handover on which
\* H3Session guarantees for every stream it dispatches.
THEOREM ResponseKeepsToLife == Spec => ImplementsStream
<1>1. Init => StreamInv /\ Stream!Init
  <2> SUFFICES ASSUME Init PROVE StreamInv /\ Stream!Init
    OBVIOUS
  <2>1. /\ response_complete <=> response_cancelled
        /\ done <=> response_cancelled
        /\ ~response_cancelled => qstream
        /\ qstream => ng_open
    BY DEF Init, undisturbed, on_stop_sending, on_reset_stream, closed_early,
       Reached
  <2>2. tracked /\ ~response_submitted /\ ~worker_done /\ wpc = "handler"
    BY DEF Init
  <2> QED
    BY <2>1, <2>2 DEF StreamInv, Stream!Init, Stream!Handover
<1>2. FullInv /\ StreamInv /\ [Next]_vars
          => StreamInv' /\ [Stream!Next]_(Stream!vars)
  BY StreamInvStep, StreamStep DEF FullInv, ResponseInv
<1> QED
  BY <1>1, <1>2, FullInvariant, PTL DEF Spec, ImplementsStream, Stream!Spec
=============================================================================
