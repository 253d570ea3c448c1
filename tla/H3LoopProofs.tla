---------------------------- MODULE H3LoopProofs ----------------------------
(***************************************************************************)
(* Proofs about H3Loop for any set of streams and workers, any budgets,    *)
(* buffer, window, socket and drain.  LoopInv is the inductive invariant.  *)
(* It says of a visit that has read nothing so far that every stream it    *)
(* has passed is done, empty, or got its data after it was passed.         *)
(***************************************************************************)
EXTENDS H3Loop, FiniteSetTheorems, TLAPS

\* The stream the visit meets after k others.
Met(k) == order[((start + k) % Len(order)) + 1]

\* Why the thread need not read stream s before it sleeps.
Settled(s) == s \in done \/ unread[s] = 0 \/ s \in late

\* A visit starts at an entry of the snapshot and goes round it once.
VisitInv ==
    /\ epc = "read" => offset <= Len(order) /\ (order # <<>> => start < Len(order))
    /\ epc # "read" => offset = 0 /\ ~data_read
    /\ ~data_read => reads_remaining = READ_BUDGET /\ bytes_remaining = BYTE_BUDGET

\* While nothing is read, all that was passed is settled.
PassedInv ==
    epc = "read" /\ ~aborted /\ ~data_read =>
        \A k \in 0..(offset - 1) : Settled(Met(k))

\* The inductive invariant.
LoopInv == TypeOK /\ VisitInv /\ PassedInv /\ SleepsOnlyWhenIdle

-----------------------------------------------------------------------------
(***************************************************************************)
(* The hash and the index that goes round it.                              *)
(***************************************************************************)
\* The tracked streams are finitely many.
LEMMA TrackedFinite ==
    ASSUME order \in Seq(Streams)
    PROVE  Tracked \subseteq Streams /\ IsFiniteSet(Tracked)
<1>1. Len(order) \in Nat /\ DOMAIN order = 1..Len(order)
  OBVIOUS
<1>2. Tracked = {order[k] : k \in 1..Len(order)}
  BY <1>1 DEF Tracked, ToSet
<1>3. order \in Surjection(1..Len(order), Tracked)
  BY <1>1, <1>2 DEF Surjection
<1>4. IsFiniteSet(1..Len(order))
  BY <1>1, FS_Interval
<1> QED
  BY <1>2, <1>3, <1>4, FS_Surjection

\* What SetToSeqs returns.
LEMMA SeqsOfSet ==
    ASSUME NEW S, S \subseteq Streams, IsFiniteSet(S), NEW q \in SetToSeqs(S)
    PROVE  /\ q \in Seq(Streams) /\ IsInjective(q)
           /\ ToSet(q) \subseteq S
<1>1. Cardinality(S) \in Nat
  BY FS_CardinalityType
<1>2. /\ q \in [1..Cardinality(S) -> S]
      /\ \A j, k \in 1..Cardinality(S) : j # k => q[j] # q[k]
  BY DEF SetToSeqs
<1>3. q \in Seq(Streams)
  BY <1>1, <1>2
<1> QED
  BY <1>2, <1>3 DEF IsInjective, ToSet

\* One round of the index.
LEMMA ModOnce ==
    ASSUME NEW L \in Nat \ {0}, NEW j \in 0..(L - 1)
    PROVE  j % L = j /\ (j + L) % L = j
  OBVIOUS

LEMMA ModRange ==
    ASSUME NEW L \in Nat \ {0}, NEW n \in Nat
    PROVE  n % L \in 0..(L - 1)
  OBVIOUS

\* A visit that has gone round has met every tracked stream.
LEMMA AllMet ==
    ASSUME TypeOK, order # <<>>, start < Len(order),
           NEW s \in Tracked
    PROVE  \E k \in 0..(Len(order) - 1) : s = Met(k)
<1> DEFINE L == Len(order)
<1>1. L \in Nat \ {0} /\ start \in 0..(L - 1) /\ DOMAIN order = 1..L
  BY DEF TypeOK
<1>2. PICK n \in 1..L : s = order[n]
  BY <1>1 DEF Tracked, ToSet
<1> DEFINE j == n - 1
           k == IF start <= j THEN j - start ELSE j + L - start
<1>3. j \in 0..(L - 1) /\ k \in 0..(L - 1)
  BY <1>1, <1>2
<1>4. start + k = j \/ start + k = j + L
  BY <1>1, <1>3
<1>5. (start + k) % L = j
  <2> HIDE DEF j, k, L
  <2> QED
    BY <1>1, <1>3, <1>4, ModOnce
<1>6. s = Met(k)
  BY <1>2, <1>5 DEF Met
<1> QED
  BY <1>3, <1>6

-----------------------------------------------------------------------------
(***************************************************************************)
(* The steps.                                                              *)
(***************************************************************************)
\* The constants.
LEMMA Constants ==
    /\ READ_BUDGET \in Nat \ {0} /\ BYTE_BUDGET \in Nat \ {0}
    /\ BufSize \in Nat \ {0} /\ Window \in Nat \ {0}
    /\ SocketCap \in Nat \ {0} /\ DrainMax \in Nat \ {0}
  BY LoopAssumption

\* The stream at hand is a tracked one.
LEMMA CurrentIsTracked ==
    ASSUME TypeOK, VisitInv, AtStream
    PROVE  /\ Len(order) \in Nat \ {0} /\ Index \in 0..(Len(order) - 1)
           /\ Current \in Tracked /\ Current \in Streams /\ Current = Met(offset)
<1>1. Len(order) \in Nat \ {0} /\ start + offset \in Nat /\ DOMAIN order = 1..Len(order)
  BY DEF TypeOK, AtStream
<1>2. Index \in 0..(Len(order) - 1)
  BY <1>1, ModRange DEF Index
<1>3. Current \in Tracked
  BY <1>1, <1>2 DEF Current, Tracked, ToSet
<1>4. Current = Met(offset)
  BY DEF Current, Index, Met
<1> QED
  BY <1>1, <1>2, <1>3, <1>4, TrackedFinite DEF TypeOK

\* What the end of a visit leaves behind.
LEMMA VisitEndTypes ==
    ASSUME visitEnds
    PROVE  /\ epc' \in {"poll", "pump"}
           /\ start' \in Nat /\ offset' \in Nat /\ data_read' \in BOOLEAN
           /\ reads_remaining' \in 0..READ_BUDGET
           /\ bytes_remaining' \in 0..BYTE_BUDGET
           /\ turn' \in Streams \cup {"none"}
<1>1. epc' \in {"poll", "pump"}
  BY DEF visitEnds, AfterRound
<1>2. start' \in Nat /\ offset' \in Nat /\ data_read' \in BOOLEAN
  BY DEF visitEnds
<1>3. /\ reads_remaining' \in 0..READ_BUDGET
      /\ bytes_remaining' \in 0..BYTE_BUDGET
  BY Constants DEF visitEnds
<1>4. turn' \in Streams \cup {"none"}
  BY DEF visitEnds
<1> QED
  BY <1>1, <1>2, <1>3, <1>4

\* The variables keep their types.
LEMMA LoopTypeStep ==
    ASSUME TypeOK, VisitInv, [Next]_vars
    PROVE  TypeOK'
<1> USE Constants DEF TypeOK, session, visit, loopFrame, passFrame, readFrame,
        AfterRound
<1>1. CASE wait_for_event
  BY <1>1 DEF wait_for_event, h3_wakeup_drain
<1>2. CASE poll_times_out
  BY <1>2 DEF poll_times_out
<1>3. CASE h3q_engine_pump
  BY <1>3 DEF h3q_engine_pump
<1>4. CASE pass_skipped
  BY <1>4 DEF pass_skipped
<1>5. ASSUME NEW s \in Streams, track_stream(s) PROVE TypeOK'
  <2>1. order' \in Seq(Streams) /\ IsInjective(order')
    <3>1. Tracked \cup {s} \subseteq Streams /\ IsFiniteSet(Tracked \cup {s})
      BY TrackedFinite, FS_AddElement
    <3> QED
      BY <1>5, <3>1, SeqsOfSet DEF track_stream
  <2>2. unread' \in [Streams -> 0..Window]
    BY <1>5 DEF track_stream
  <2> QED
    BY <1>5, <2>1, <2>2 DEF track_stream
<1>6. CASE drain_ready_streams
  <2>1. start' \in Nat
    <3>1. CASE order = <<>>
      BY <1>6, <3>1 DEF drain_ready_streams, StartAt
    <3>2. CASE order # <<>>
      <4>1. Len(order) \in Nat \ {0}
        BY <3>2
      <4> QED
        BY <1>6, <3>2, <4>1, ModRange DEF drain_ready_streams, StartAt
    <3> QED
      BY <3>1, <3>2
  <2> QED
    BY <1>6, <2>1 DEF drain_ready_streams
<1>7. CASE skip_stream
  BY <1>7 DEF skip_stream
<1>8. CASE drain_one_stream
  <2>1. Current \in Streams
    BY <1>8, CurrentIsTracked DEF drain_one_stream
  <2>2. PICK nread \in 1..ReadSize :
           /\ nread <= unread[Current]
           /\ unread' = [unread EXCEPT ![Current] = @ - nread]
           /\ bytes_remaining' = bytes_remaining - nread
    BY <1>8 DEF drain_one_stream
  <2>3. nread \in Nat /\ nread <= bytes_remaining
    BY <2>2 DEF ReadSize
  <2>4. unread' \in [Streams -> 0..Window] /\ bytes_remaining' \in 0..BYTE_BUDGET
    BY <2>1, <2>2, <2>3
  <2>5. reads_remaining' \in 0..READ_BUDGET
    BY <1>8 DEF drain_one_stream, BudgetSpent
  <2> QED
    BY <1>8, <2>1, <2>4, <2>5 DEF drain_one_stream
<1>9. CASE leave_stream
  <2>1. Current \in Streams /\ Index \in 0..(Len(order) - 1)
    BY <1>9, CurrentIsTracked DEF leave_stream
  <2>2. NextCursor \in Nat
    <3>1. Len(order) \in Nat \ {0} /\ Index + 1 \in Nat
      BY <2>1
    <3> DEFINE L == Len(order)
               n == Index + 1
    <3>2. n % L \in 0..(L - 1) /\ L \in Nat
      <4> HIDE DEF L, n
      <4> QED
        BY <3>1, ModRange DEF L, n
    <3> QED
      BY <3>2 DEF NextCursor
  <2>3. stream_drain_cursor' \in Nat /\ offset' \in Nat
    BY <1>9, <2>2 DEF leave_stream
  <2>4. late' \subseteq Streams /\ done' \subseteq Streams
    BY <1>9, <2>1 DEF leave_stream
  <2> QED
    BY <1>9, <2>3, <2>4 DEF leave_stream
<1>10. CASE service_session_pass
  <2>1. PICK gone \in SUBSET (done \cap Tracked) :
           order' \in {q \in SetToSeqs(Tracked \ gone) : KeepsOrder(q)}
    BY <1>10 DEF service_session_pass
  <2>2. Tracked \ gone \subseteq Streams /\ IsFiniteSet(Tracked \ gone)
    BY TrackedFinite, FS_Subset
  <2>3. order' \in Seq(Streams) /\ IsInjective(order')
    BY <2>1, <2>2, SeqsOfSet
  <2> QED
    BY <1>10, <2>3, VisitEndTypes DEF service_session_pass
<1>11. CASE session_aborts
  <2>1. order' \in Seq(Streams) /\ IsInjective(order')
    BY <1>11 DEF session_aborts, IsInjective
  <2> QED
    BY <1>11, <2>1, VisitEndTypes DEF session_aborts
<1>12. ASSUME NEW s \in Streams, data_arrives(s) PROVE TypeOK'
  BY <1>12 DEF data_arrives
<1>13. ASSUME NEW w \in Workers, worker_posts(w) PROVE TypeOK'
  BY <1>13 DEF worker_posts
<1>14. ASSUME NEW w \in Workers, h3_wakeup_signal(w) PROVE TypeOK'
  BY <1>14 DEF h3_wakeup_signal
<1>15. CASE UNCHANGED vars
  BY <1>15 DEF vars
<1> QED
  BY <1>1, <1>2, <1>3, <1>4, <1>5, <1>6, <1>7, <1>8, <1>9, <1>10, <1>11,
     <1>12, <1>13, <1>14, <1>15
     DEF Next, EventThread

\* After a visit the thread polls or pumps.
LEMMA RoundGoesOn ==
    ASSUME NEW b \in BOOLEAN, epc' \in AfterRound(b)
    PROVE  epc' \in {"poll", "pump"} /\ (b => epc' = "pump")
  BY DEF AfterRound

\* A visit stays within the snapshot and starts with its whole budget.
LEMMA VisitStep ==
    ASSUME TypeOK, VisitInv, [Next]_vars
    PROVE  VisitInv'
<1> USE DEF VisitInv, session, visit, loopFrame, passFrame, readFrame
<1>1. CASE wait_for_event
  BY <1>1 DEF wait_for_event
<1>2. CASE poll_times_out
  BY <1>2 DEF poll_times_out
<1>3. CASE h3q_engine_pump
  BY <1>3, RoundGoesOn DEF h3q_engine_pump
<1>4. CASE pass_skipped
  BY <1>4, RoundGoesOn DEF pass_skipped
<1>5. ASSUME NEW s \in Streams, track_stream(s) PROVE VisitInv'
  BY <1>5 DEF track_stream
<1>6. CASE drain_ready_streams
  <2>1. order # <<>> => start' < Len(order)
    <3> SUFFICES ASSUME order # <<>> PROVE start' < Len(order)
      OBVIOUS
    <3> DEFINE L == Len(order)
    <3>1. L \in Nat \ {0} /\ stream_drain_cursor \in Nat
      BY DEF TypeOK
    <3>2. stream_drain_cursor % L \in 0..(L - 1)
      <4> HIDE DEF L
      <4> QED
        BY <3>1, ModRange
    <3> QED
      BY <1>6, <3>1, <3>2 DEF drain_ready_streams, StartAt
  <2>2. Len(order) \in Nat
    BY DEF TypeOK
  <2> QED
    BY <1>6, <2>1, <2>2 DEF drain_ready_streams
<1>7. CASE skip_stream
  <2>1. offset \in Nat /\ Len(order) \in Nat
    BY DEF TypeOK
  <2> QED
    BY <1>7, <2>1 DEF skip_stream, AtStream
<1>8. CASE drain_one_stream
  BY <1>8 DEF drain_one_stream, AtStream
<1>9. CASE leave_stream
  <2>1. offset \in Nat /\ Len(order) \in Nat
    BY DEF TypeOK
  <2> QED
    BY <1>9, <2>1 DEF leave_stream, AtStream
<1>10. CASE service_session_pass
  <2>1. epc' \in {"poll", "pump"}
    BY <1>10, VisitEndTypes DEF service_session_pass
  <2> QED
    BY <1>10, <2>1 DEF service_session_pass, visitEnds
<1>11. CASE session_aborts
  <2>1. epc' \in {"poll", "pump"}
    BY <1>11, VisitEndTypes DEF session_aborts
  <2> QED
    BY <1>11, <2>1 DEF session_aborts, visitEnds
<1>12. ASSUME NEW s \in Streams, data_arrives(s) PROVE VisitInv'
  BY <1>12 DEF data_arrives
<1>13. ASSUME NEW w \in Workers, worker_posts(w) PROVE VisitInv'
  BY <1>13 DEF worker_posts
<1>14. ASSUME NEW w \in Workers, h3_wakeup_signal(w) PROVE VisitInv'
  BY <1>14 DEF h3_wakeup_signal
<1>15. CASE UNCHANGED vars
  BY <1>15 DEF vars
<1> QED
  BY <1>1, <1>2, <1>3, <1>4, <1>5, <1>6, <1>7, <1>8, <1>9, <1>10, <1>11,
     <1>12, <1>13, <1>14, <1>15
     DEF Next, EventThread

\* While a visit has read nothing, the streams it has passed stay settled.
LEMMA PassedStep ==
    ASSUME TypeOK, VisitInv, PassedInv, [Next]_vars
    PROVE  PassedInv'
<1> USE DEF PassedInv, session, visit, loopFrame, passFrame, readFrame
<1>1. CASE wait_for_event
  BY <1>1 DEF wait_for_event
<1>2. CASE poll_times_out
  BY <1>2 DEF poll_times_out
<1>3. CASE h3q_engine_pump
  BY <1>3, RoundGoesOn DEF h3q_engine_pump
<1>4. CASE pass_skipped
  BY <1>4, RoundGoesOn DEF pass_skipped
<1>5. ASSUME NEW s \in Streams, track_stream(s) PROVE PassedInv'
  BY <1>5 DEF track_stream
<1>6. CASE drain_ready_streams
  BY <1>6 DEF drain_ready_streams, VisitInv
<1>7. CASE skip_stream
  <2> SUFFICES ASSUME ~aborted, ~data_read, NEW k \in 0..(offset' - 1)
               PROVE  Settled(Met(k))'
    BY <1>7 DEF skip_stream
  <2>1. Met(k)' = Met(k) /\ (Settled(Met(k)) => Settled(Met(k))')
    BY <1>7 DEF skip_stream, Met, Settled
  <2>2. k \in 0..(offset - 1) \/ k = offset
    BY <1>7 DEF skip_stream, TypeOK
  <2>3. Settled(Met(offset))
    BY <1>7, CurrentIsTracked DEF skip_stream, Settled
  <2> QED
    BY <1>7, <2>1, <2>2, <2>3 DEF skip_stream, AtStream
<1>8. CASE drain_one_stream
  BY <1>8 DEF drain_one_stream, AtStream
<1>9. CASE leave_stream
  <2> SUFFICES ASSUME ~aborted, ~data_read, NEW k \in 0..(offset' - 1)
               PROVE  Settled(Met(k))'
    BY <1>9 DEF leave_stream
  <2>1. ~BudgetSpent
    BY Constants DEF VisitInv, BudgetSpent
  <2>2. Met(k)' = Met(k)
    BY <1>9 DEF leave_stream, Met
  <2>3. Settled(Met(k)) => Settled(Met(k))'
    BY <1>9, <2>2 DEF leave_stream, Settled
  <2>4. k \in 0..(offset - 1) \/ k = offset
    BY <1>9, <2>1 DEF leave_stream, TypeOK
  <2>5. Settled(Met(offset))
    BY <1>9, <2>1, CurrentIsTracked DEF leave_stream, Settled
  <2> QED
    BY <1>9, <2>2, <2>3, <2>4, <2>5 DEF leave_stream, AtStream
<1>10. CASE service_session_pass
  <2>1. epc' \in {"poll", "pump"}
    BY <1>10, VisitEndTypes DEF service_session_pass
  <2> QED
    BY <2>1
<1>11. CASE session_aborts
  <2>1. epc' \in {"poll", "pump"}
    BY <1>11, VisitEndTypes DEF session_aborts
  <2> QED
    BY <2>1
<1>12. ASSUME NEW s \in Streams, data_arrives(s) PROVE PassedInv'
  <2> SUFFICES ASSUME epc = "read", ~aborted, ~data_read, NEW k \in 0..(offset' - 1)
               PROVE  Settled(Met(k))'
    BY <1>12 DEF data_arrives
  <2>1. Met(k)' = Met(k) /\ Settled(Met(k))
    BY <1>12 DEF data_arrives, Met
  <2>2. s \in late' /\ late \subseteq late' /\ done' = done
    BY <1>12 DEF data_arrives
  <2>3. Met(k) # s => unread'[Met(k)] = unread[Met(k)]
    BY <1>12 DEF data_arrives, TypeOK
  <2> QED
    BY <2>1, <2>2, <2>3 DEF Settled
<1>13. ASSUME NEW w \in Workers, worker_posts(w) PROVE PassedInv'
  BY <1>13 DEF worker_posts, Met, Settled
<1>14. ASSUME NEW w \in Workers, h3_wakeup_signal(w) PROVE PassedInv'
  BY <1>14 DEF h3_wakeup_signal, Met, Settled
<1>15. CASE UNCHANGED vars
  BY <1>15 DEF vars, Met, Settled
<1> QED
  BY <1>1, <1>2, <1>3, <1>4, <1>5, <1>6, <1>7, <1>8, <1>9, <1>10, <1>11,
     <1>12, <1>13, <1>14, <1>15
     DEF Next, EventThread

\* A pass that read nothing leaves every stream it still tracks settled.
LEMMA PassLeavesSettled ==
    ASSUME TypeOK, VisitInv, PassedInv, service_session_pass, epc' = "poll",
           NEW s \in Tracked'
    PROVE  Settled(s)
<1>1. PICK gone \in SUBSET (done \cap Tracked) : order' \in SetToSeqs(Tracked \ gone)
  BY DEF service_session_pass
<1>2. Tracked \ gone \subseteq Streams /\ IsFiniteSet(Tracked \ gone)
  BY TrackedFinite, FS_Subset DEF TypeOK
<1>3. s \in Tracked
  BY <1>1, <1>2, SeqsOfSet DEF Tracked
<1>4. ~aborted /\ epc = "read" /\ offset = Len(order) /\ epc' \in AfterRound(Progress)
  BY DEF service_session_pass, visitEnds
<1>5. ~data_read
  <2>1. Progress \in BOOLEAN
    BY DEF Progress
  <2> QED
    BY <1>4, <2>1, RoundGoesOn DEF Progress
<1>6. order # <<>> /\ start < Len(order)
  BY <1>3, <1>4 DEF Tracked, ToSet, VisitInv
<1>7. PICK k \in 0..(Len(order) - 1) : s = Met(k)
  BY <1>3, <1>6, AllMet
<1> QED
  BY <1>4, <1>5, <1>7 DEF PassedInv

\* The thread goes to sleep, and sleeps on, only when there is nothing to do.
LEMMA SleepStep ==
    ASSUME TypeOK, VisitInv, PassedInv, SleepsOnlyWhenIdle, [Next]_vars
    PROVE  SleepsOnlyWhenIdle'
<1> USE DEF SleepsOnlyWhenIdle, session, visit, loopFrame, passFrame, readFrame, Tracked
<1>1. CASE wait_for_event
  BY <1>1 DEF wait_for_event
<1>2. CASE poll_times_out
  BY <1>2 DEF poll_times_out
<1>3. CASE h3q_engine_pump
  <2>1. epc' = "poll" => aborted
    BY <1>3 DEF h3q_engine_pump
  <2> QED
    BY <1>3, <2>1 DEF h3q_engine_pump
<1>4. CASE pass_skipped
  BY <1>4 DEF pass_skipped
<1>5. ASSUME NEW s \in Streams, track_stream(s) PROVE SleepsOnlyWhenIdle'
  BY <1>5 DEF track_stream
<1>6. CASE drain_ready_streams
  BY <1>6 DEF drain_ready_streams
<1>7. CASE skip_stream
  BY <1>7 DEF skip_stream, AtStream
<1>8. CASE drain_one_stream
  BY <1>8 DEF drain_one_stream, AtStream
<1>9. CASE leave_stream
  BY <1>9 DEF leave_stream, AtStream
<1>10. CASE service_session_pass
  <2> SUFFICES ASSUME epc' = "poll", NEW s \in Tracked' \ done', unread'[s] > 0
               PROVE  s \in late'
    BY <1>10 DEF service_session_pass
  <2>1. Settled(s)
    BY <1>10, PassLeavesSettled
  <2> QED
    BY <1>10, <2>1 DEF service_session_pass, Settled
<1>11. CASE session_aborts
  BY <1>11 DEF session_aborts
<1>12. ASSUME NEW s \in Streams, data_arrives(s) PROVE SleepsOnlyWhenIdle'
  BY <1>12 DEF data_arrives
<1>13. ASSUME NEW w \in Workers, worker_posts(w) PROVE SleepsOnlyWhenIdle'
  <2>1. wpc'[w] = "signal"
    BY <1>13 DEF worker_posts, TypeOK
  <2> QED
    BY <1>13, <2>1 DEF worker_posts
<1>14. ASSUME NEW w \in Workers, h3_wakeup_signal(w) PROVE SleepsOnlyWhenIdle'
  <2>1. queued' > 0
    BY <1>14, Constants DEF h3_wakeup_signal, TypeOK
  <2> QED
    BY <1>14, <2>1 DEF h3_wakeup_signal
<1>15. CASE UNCHANGED vars
  BY <1>15 DEF vars
<1> QED
  BY <1>1, <1>2, <1>3, <1>4, <1>5, <1>6, <1>7, <1>8, <1>9, <1>10, <1>11,
     <1>12, <1>13, <1>14, <1>15
     DEF Next, EventThread

-----------------------------------------------------------------------------
(***************************************************************************)
(* The theorems.                                                           *)
(***************************************************************************)
\* The loop starts in the invariant.
LEMMA LoopInit ==
    ASSUME Init
    PROVE  LoopInv
<1>1. TypeOK
  <2>1. order \in Seq(Streams) /\ IsInjective(order)
    BY DEF Init, IsInjective
  <2>2. unread \in [Streams -> 0..Window] /\ wpc \in [Workers -> {"run", "signal"}]
    BY Constants DEF Init
  <2>3. /\ reads_remaining \in 0..READ_BUDGET /\ bytes_remaining \in 0..BYTE_BUDGET
        /\ queued \in 0..SocketCap
    BY Constants DEF Init, h3_wakeup_create
  <2>4. /\ stream_drain_cursor \in Nat /\ start \in Nat /\ offset \in Nat
        /\ done \subseteq Streams /\ late \subseteq Streams /\ aborted \in BOOLEAN
        /\ epc \in {"poll", "pump", "accept", "read"}
        /\ turn \in Streams \cup {"none"}
    BY DEF Init
  <2>5. {data_read, skipped, posted} \subseteq BOOLEAN
    BY DEF Init
  <2> QED
    BY <2>1, <2>2, <2>3, <2>4, <2>5 DEF TypeOK
<1>2. VisitInv /\ PassedInv
  BY DEF Init, VisitInv, PassedInv
<1>3. SleepsOnlyWhenIdle
  BY DEF Init, SleepsOnlyWhenIdle, Tracked, ToSet
<1> QED
  BY <1>1, <1>2, <1>3 DEF LoopInv

(* LoopInv is an invariant: besides what it says of sleep, a visit stays   *)
(* within the streams of its snapshot (h3_stream.c:305-336).               *)
THEOREM LoopInvariant == Spec => []LoopInv
<1>1. LoopInv /\ [Next]_vars => LoopInv'
  BY LoopTypeStep, VisitStep, PassedStep, SleepStep DEF LoopInv
<1> QED
  BY LoopInit, <1>1, PTL DEF Spec

(* The event thread sleeps only when there is nothing for it to do, for    *)
(* any number of streams and workers and any budgets: neither a budget     *)
(* that cuts a pass short, nor a signal dropped at a full socket, nor a    *)
(* wakeup that reads some of the signals only, leaves work behind          *)
(* (h3_threads.c:44-101, h3_stream.c:305-336, h3_socket.c:163-190).        *)
THEOREM ThreadSleepsOnlyWhenIdle == Spec => []SleepsOnlyWhenIdle
<1>1. LoopInv => SleepsOnlyWhenIdle
  BY DEF LoopInv
<1> QED
  BY LoopInvariant, <1>1, PTL

=============================================================================
