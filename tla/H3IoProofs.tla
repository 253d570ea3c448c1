----------------------------- MODULE H3IoProofs -----------------------------
(***************************************************************************)
(* Proofs about H3Io for any finite set of connections, any limit and any  *)
(* number of tasks.  IoInv is the inductive invariant.  Its parts:         *)
(*   OwnInv    who owns a connection,                                      *)
(*   CountInv  the limit and the counters,                                 *)
(*   WalkInv   what the index of a walk over an array has passed,          *)
(*   TearInv   how far the event thread and the teardown are.              *)
(***************************************************************************)
EXTENDS H3Io, FiniteSetTheorems, SequenceTheorems, TLAPS

\* No connection is in an array twice.
Distinct(a) == \A j, k \in 1..Len(a) : a[j] = a[k] => j = k

\* The connections in each array.
Pending == Entries(pending_handshakes)
Active == Entries(active_sessions)

\* A connection has one owner, or was freed once; tasks belong to a session in
\* the table.
OwnInv ==
    /\ Distinct(pending_handshakes) /\ Distinct(active_sessions)
    /\ Pending \cap Active = {}
    /\ arrived \cap (Pending \cup Active) = {}
    /\ \A c \in Conns :
          /\ freed[c] \in {0, 1}
          /\ freed[c] = 1 => c \notin Pending \cup Active \cup arrived
          /\ c \in established \cup closed \cup aborted =>
                c \in Pending \cup Active \/ freed[c] = 1
          /\ tasks[c] > 0 => c \in Active

\* The connection limit and the counters of connections.
CountInv == WithinLimit /\ NotesBalanced

\* The walks of RoundVisitsAll, and the walk at the session just serviced.
WalkInv ==
    /\ RoundVisitsAll
    /\ epc = "accept" => i = 1 /\ seen = {}
    /\ epc = "reap" => /\ i \in 1..Len(active_sessions)
                       /\ seen \cap Active = Walked(active_sessions, i)

\* How far the event thread has come when the teardown goes on without it.
TearInv ==
    /\ epc \in {"exit", "gone"} => active_sessions = <<>> /\ ~thread_running
    /\ epc = "gone" => pending_handshakes = <<>>
    /\ tpc \in {"drain", "down"} => epc = "gone"
    /\ pool_up <=> tpc \in {"up", "join"}
    /\ engine_up <=> tpc # "down"
    /\ thread_running <=> tpc = "up"

\* The inductive invariant.
IoInv == TypeOK /\ OwnInv /\ CountInv /\ WalkInv /\ TearInv

-----------------------------------------------------------------------------
(***************************************************************************)
(* The arrays.                                                             *)
(***************************************************************************)
\* What SwapRemove leaves.
LEMMA Swapped ==
    ASSUME NEW a \in Seq(Conns), NEW k \in 1..Len(a)
    PROVE  /\ SwapRemove(a, k) \in Seq(Conns)
           /\ Len(SwapRemove(a, k)) = Len(a) - 1
           /\ \A j \in 1..(Len(a) - 1) :
                 SwapRemove(a, k)[j] = IF j = k THEN a[Len(a)] ELSE a[j]
<1> DEFINE e == [a EXCEPT ![k] = a[Len(a)]]
<1>1. Len(a) \in Nat /\ Len(a) >= 1 /\ a[Len(a)] \in Conns
  OBVIOUS
<1>2. /\ e \in Seq(Conns) /\ Len(e) = Len(a)
      /\ \A j \in 1..Len(a) : e[j] = IF j = k THEN a[Len(a)] ELSE a[j]
  BY <1>1, ExceptSeq
<1> HIDE DEF e
<1>3. /\ SubSeq(e, 1, Len(a) - 1) \in Seq(Conns)
      /\ Len(SubSeq(e, 1, Len(a) - 1)) = Len(a) - 1
      /\ \A j \in 1..(Len(a) - 1) : SubSeq(e, 1, Len(a) - 1)[j] = e[j]
  BY <1>1, <1>2, SubSeqProperties
<1>4. SwapRemove(a, k) = SubSeq(e, 1, Len(a) - 1)
  BY DEF SwapRemove, e
<1> QED
  BY <1>1, <1>2, <1>3, <1>4

\* Removal takes exactly the entry out, and leaves those before it alone.
LEMMA SwapSet ==
    ASSUME NEW a \in Seq(Conns), NEW k \in 1..Len(a), Distinct(a)
    PROVE  /\ Distinct(SwapRemove(a, k))
           /\ Entries(SwapRemove(a, k)) = Entries(a) \ {a[k]}
           /\ Walked(SwapRemove(a, k), k - 1) = Walked(a, k - 1)
           /\ a[k] \notin Walked(a, k - 1)
<1> DEFINE b == SwapRemove(a, k)
           n == Len(a)
<1>0. n \in Nat /\ k \in 1..n
  OBVIOUS
<1>1. /\ n \in Nat /\ k \in 1..n /\ Len(b) = n - 1
      /\ \A j \in 1..(n - 1) : b[j] = IF j = k THEN a[n] ELSE a[j]
  BY <1>0, Swapped, Zenon
<1>2. \A j, l \in 1..n : a[j] = a[l] => j = l
  BY DEF Distinct
<1> HIDE DEF b, n
<1>3. \A j, l \in 1..(n - 1) : b[j] = b[l] => j = l
  BY <1>1, <1>2
<1>4. {b[j] : j \in 1..(n - 1)} = {a[j] : j \in 1..n} \ {a[k]}
  <2>1. ASSUME NEW j \in 1..(n - 1)
        PROVE  b[j] \in {a[l] : l \in 1..n} \ {a[k]}
    BY <1>1, <1>2
  <2>2. ASSUME NEW j \in 1..n, a[j] # a[k]
        PROVE  a[j] \in {b[l] : l \in 1..(n - 1)}
    <3>1. CASE j = n
      <4>1. k \in 1..(n - 1) /\ b[k] = a[n]
        BY <1>1, <2>2, <3>1
      <4> QED
        BY <3>1, <4>1
    <3>2. CASE j # n
      <4>1. j \in 1..(n - 1) /\ b[j] = a[j]
        BY <1>1, <2>2, <3>2
      <4> QED
        BY <4>1
    <3> QED
      BY <3>1, <3>2
  <2> QED
    BY <2>1, <2>2
<1>5. (1..(k - 1)) \cap (1..(n - 1)) = 1..(k - 1) /\ (1..(k - 1)) \cap (1..n) = 1..(k - 1)
  BY <1>1
<1>6. \A j \in 1..(k - 1) : b[j] = a[j] /\ a[j] # a[k]
  BY <1>1, <1>2
<1>7. {b[j] : j \in 1..(k - 1)} = {a[j] : j \in 1..(k - 1)}
  BY <1>6
<1>8. Distinct(b) /\ Entries(b) = Entries(a) \ {a[k]}
  BY <1>1, <1>3, <1>4 DEF Distinct, Entries, n
<1>9. Walked(b, k - 1) = Walked(a, k - 1) /\ a[k] \notin Walked(a, k - 1)
  BY <1>1, <1>5, <1>6, <1>7 DEF Walked, n
<1> QED
  BY <1>8, <1>9 DEF b

\* A new entry is appended.
LEMMA AppendSet ==
    ASSUME NEW a \in Seq(Conns), NEW c \in Conns \ Entries(a), Distinct(a)
    PROVE  /\ Append(a, c) \in Seq(Conns) /\ Len(Append(a, c)) = Len(a) + 1
           /\ Distinct(Append(a, c)) /\ Entries(Append(a, c)) = Entries(a) \cup {c}
<1> DEFINE b == Append(a, c)
           n == Len(a)
<1>1. /\ n \in Nat /\ b \in Seq(Conns) /\ Len(b) = n + 1 /\ b[n + 1] = c
      /\ \A j \in 1..n : b[j] = a[j] /\ a[j] # c
  BY DEF Entries
<1>2. \A j, l \in 1..n : a[j] = a[l] => j = l
  BY DEF Distinct
<1> HIDE DEF b, n
<1>3. \A j, l \in 1..(n + 1) : b[j] = b[l] => j = l
  BY <1>1, <1>2
<1>4. {b[j] : j \in 1..(n + 1)} = {a[j] : j \in 1..n} \cup {c}
  BY <1>1
<1>5. Distinct(b) /\ Entries(b) = Entries(a) \cup {c}
  BY <1>1, <1>3, <1>4 DEF Distinct, Entries, n
<1> QED
  BY <1>1, <1>5 DEF b, n

\* The walk passes an entry.
LEMMA WalkOn ==
    ASSUME NEW a \in Seq(Conns), NEW k \in 1..Len(a)
    PROVE  /\ Walked(a, k) = Walked(a, k - 1) \cup {a[k]}
           /\ Walked(a, k) \subseteq Entries(a) /\ a[k] \in Entries(a)
<1>1. /\ (1..k) \cap (1..Len(a)) = ((1..(k - 1)) \cap (1..Len(a))) \cup {k}
  OBVIOUS
<1> QED
  BY <1>1 DEF Walked, Entries

\* An array without duplicates holds an entry once.
LEMMA TimesDistinct ==
    ASSUME NEW a \in Seq(Conns), NEW c \in Conns, Distinct(a)
    PROVE  Times(a, c) = IF c \in Entries(a) THEN 1 ELSE 0
<1> DEFINE At == {k \in 1..Len(a) : a[k] = c}
<1>1. CASE c \in Entries(a)
  <2>1. PICK k \in 1..Len(a) : a[k] = c
    BY <1>1 DEF Entries
  <2>2. At = {k}
    BY <2>1 DEF Distinct
  <2> QED
    BY <1>1, <2>2, FS_Singleton DEF Times
<1>2. CASE c \notin Entries(a)
  <2>1. At = {}
    BY <1>2 DEF Entries
  <2> QED
    BY <1>2, <2>1, FS_EmptySet DEF Times
<1> QED
  BY <1>1, <1>2

-----------------------------------------------------------------------------
(***************************************************************************)
(* The steps.                                                              *)
(***************************************************************************)
\* A pending handshake is removed.
LEMMA PendingRemoved ==
    ASSUME TypeOK, OwnInv, NEW k \in 1..Len(pending_handshakes),
           pending_handshakes' = SwapRemove(pending_handshakes, k)
    PROVE  /\ pending_handshakes[k] \in Pending
           /\ pending_handshakes' \in Seq(Conns)
           /\ Len(pending_handshakes') = Len(pending_handshakes) - 1
           /\ Distinct(pending_handshakes')
           /\ Pending' = Pending \ {pending_handshakes[k]}
           /\ Walked(pending_handshakes', k - 1) = Walked(pending_handshakes, k - 1)
           /\ pending_handshakes[k] \notin Walked(pending_handshakes, k - 1)
<1>1. pending_handshakes \in Seq(Conns) /\ Distinct(pending_handshakes)
  BY DEF TypeOK, OwnInv
<1> QED
  BY <1>1, Swapped, SwapSet, WalkOn, Zenon DEF Pending

\* A session is removed.
LEMMA ActiveRemoved ==
    ASSUME TypeOK, OwnInv, NEW k \in 1..Len(active_sessions),
           active_sessions' = SwapRemove(active_sessions, k)
    PROVE  /\ active_sessions[k] \in Active
           /\ active_sessions' \in Seq(Conns)
           /\ Len(active_sessions') = Len(active_sessions) - 1
           /\ Distinct(active_sessions')
           /\ Active' = Active \ {active_sessions[k]}
           /\ Walked(active_sessions', k - 1) = Walked(active_sessions, k - 1)
           /\ active_sessions[k] \notin Walked(active_sessions, k - 1)
<1>1. active_sessions \in Seq(Conns) /\ Distinct(active_sessions)
  BY DEF TypeOK, OwnInv
<1> QED
  BY <1>1, Swapped, SwapSet, WalkOn, Zenon DEF Active

\* The handshake the event thread is at.
LEMMA HandshakeAt ==
    ASSUME TypeOK, NEW c, AtHandshake(c)
    PROVE  i \in 1..Len(pending_handshakes) /\ c = pending_handshakes[i]
BY DEF TypeOK, AtHandshake

\* A connection that is entered among the handshakes, or as a session, is new
\* there.
LEMMA PendingAdded ==
    ASSUME TypeOK, OwnInv, NEW c \in Conns \ Pending,
           pending_handshakes' = Append(pending_handshakes, c)
    PROVE  /\ pending_handshakes' \in Seq(Conns)
           /\ Len(pending_handshakes') = Len(pending_handshakes) + 1
           /\ Distinct(pending_handshakes') /\ Pending' = Pending \cup {c}
<1>1. pending_handshakes \in Seq(Conns) /\ Distinct(pending_handshakes)
  BY DEF TypeOK, OwnInv
<1> QED
  BY <1>1, AppendSet, Zenon DEF Pending

\* Likewise for the sessions.
LEMMA ActiveAdded ==
    ASSUME TypeOK, OwnInv, NEW c \in Conns \ Active,
           active_sessions' = Append(active_sessions, c)
    PROVE  /\ active_sessions' \in Seq(Conns)
           /\ Len(active_sessions') = Len(active_sessions) + 1
           /\ Distinct(active_sessions') /\ Active' = Active \cup {c}
<1>1. active_sessions \in Seq(Conns) /\ Distinct(active_sessions)
  BY DEF TypeOK, OwnInv
<1> QED
  BY <1>1, AppendSet, Zenon DEF Active

\* The variables keep their types.
LEMMA IoTypeStep ==
    ASSUME TypeOK, OwnInv, WalkInv, [Next]_vars
    PROVE  TypeOK'
<1> USE DEF tableVars, ioVars, netVars, sessVars
<1>1. CASE UNCHANGED vars
  BY <1>1 DEF vars, TypeOK
<1>2. CASE loop_condition
  BY <1>2 DEF loop_condition, TypeOK
<1>3. CASE test_running
  BY <1>3 DEF test_running, Stage, TypeOK
<1>4. ASSUME NEW c \in Conns, accept_connection(c) PROVE TypeOK'
  <2>1. [freed EXCEPT ![c] = @ + 1] \in [Conns -> Nat]
    BY DEF TypeOK
  <2>2. Append(pending_handshakes, c) \in Seq(Conns)
    BY DEF TypeOK
  <2> QED
    BY <1>4, <2>1, <2>2 DEF accept_connection, Free, TypeOK
<1>5. CASE accept_end
  BY <1>5 DEF accept_end, TypeOK
<1>6. ASSUME NEW c \in Conns, handshake_fails(c) PROVE TypeOK'
  <2>1. pending_handshakes' \in Seq(Conns)
    BY <1>6, HandshakeAt, PendingRemoved DEF handshake_fails
  <2>2. [freed EXCEPT ![c] = @ + 1] \in [Conns -> Nat]
    BY DEF TypeOK
  <2> QED
    BY <1>6, <2>1, <2>2 DEF handshake_fails, AtHandshake, AfterRemoval, Free, TypeOK
<1>7. ASSUME NEW c \in Conns, spawn_serviced_session(c) PROVE TypeOK'
  <2>1. pending_handshakes' \in Seq(Conns)
    BY <1>7, HandshakeAt, PendingRemoved DEF spawn_serviced_session
  <2>2. [freed EXCEPT ![c] = @ + 1] \in [Conns -> Nat]
    BY DEF TypeOK
  <2>3. Append(active_sessions, c) \in Seq(Conns)
    BY DEF TypeOK
  <2>4. /\ active_sessions' \in Seq(Conns) /\ freed' \in [Conns -> Nat]
        /\ active_session_count' \in Int /\ notes' \in Int
    <3>1. CASE /\ active_sessions' = Append(active_sessions, c) /\ freed' = freed
               /\ active_session_count' = active_session_count + 1
               /\ notes' = notes + 1
      BY <2>3, <3>1 DEF TypeOK
    <3>2. CASE /\ Free(c) /\ active_sessions' = active_sessions
               /\ active_session_count' = active_session_count /\ notes' = notes
      BY <2>2, <3>2 DEF Free, TypeOK
    <3> QED
      BY <1>7, <3>1, <3>2 DEF spawn_serviced_session, CountUp
  <2> QED
    BY <1>7, <2>1, <2>4 DEF spawn_serviced_session, AtHandshake, AfterRemoval, TypeOK
<1>8. ASSUME NEW c \in Conns, handshake_goes_on(c) PROVE TypeOK'
  BY <1>8 DEF handshake_goes_on, AtHandshake, TypeOK
<1>9. CASE handshakes_end
  BY <1>9 DEF handshakes_end, TypeOK
<1>10. ASSUME NEW c \in Conns, service_session_pass(c) PROVE TypeOK'
  <2>1. tasks' \in [Conns -> 0..MaxTasks]
    <3>1. ASSUME NEW n \in tasks[c]..MaxTasks
          PROVE  [tasks EXCEPT ![c] = n] \in [Conns -> 0..MaxTasks]
      BY IoAssumption DEF TypeOK
    <3> QED
      BY <1>10, <3>1 DEF service_session_pass, TypeOK
  <2> QED
    BY <1>10, <2>1 DEF service_session_pass, AtSession, TypeOK
<1>11. CASE session_stays
  BY <1>11 DEF session_stays, TypeOK
<1>12. CASE h3_session_destroy
  <2> DEFINE c == active_sessions[i]
  <2>1. i \in 1..Len(active_sessions) /\ c \in Conns
    BY <1>12 DEF h3_session_destroy, WalkInv, TypeOK
  <2>2. active_sessions' \in Seq(Conns)
    BY <1>12, <2>1, ActiveRemoved DEF h3_session_destroy
  <2>3. freed' = [freed EXCEPT ![c] = @ + 1]
    BY <1>12 DEF h3_session_destroy, Free
  <2> HIDE DEF c
  <2>4. freed \in [Conns -> Nat]
    BY DEF TypeOK
  <2>5. freed' \in [Conns -> Nat]
    BY <2>1, <2>3, <2>4
  <2>6. active_session_count' \in Int /\ notes' \in Int
    BY <1>12 DEF h3_session_destroy, Unnoted, TypeOK
  <2> QED
    BY <1>12, <2>2, <2>5, <2>6 DEF h3_session_destroy, AfterRemoval, TypeOK
<1>13. CASE sessions_end
  BY <1>13 DEF sessions_end, TypeOK
<1>14. CASE free_pending
  <2>1. 1 \in 1..Len(pending_handshakes) /\ pending_handshakes[1] \in Conns
    BY <1>14 DEF free_pending, TypeOK
  <2>2. pending_handshakes' \in Seq(Conns)
    BY <1>14, <2>1, PendingRemoved DEF free_pending
  <2>3. [freed EXCEPT ![pending_handshakes[1]] = @ + 1] \in [Conns -> Nat]
    BY <2>1 DEF TypeOK
  <2> QED
    BY <1>14, <2>2, <2>3 DEF free_pending, Free, TypeOK
<1>15. CASE event_thread_exits
  BY <1>15 DEF event_thread_exits, TypeOK
<1>16. CASE teardown_stop
  BY <1>16 DEF teardown_stop, TypeOK
<1>17. CASE teardown_join
  BY <1>17 DEF teardown_join, TypeOK
<1>18. CASE teardown_finish
  BY <1>18 DEF teardown_finish, TypeOK
<1>19. ASSUME NEW c \in Conns, peer_connects(c) PROVE TypeOK'
  BY <1>19 DEF peer_connects, TypeOK
<1>20. ASSUME NEW c \in Conns, conn_progresses(c) PROVE TypeOK'
  BY <1>20 DEF conn_progresses, TypeOK
<1>21. ASSUME NEW c \in Conns, worker_returns(c) PROVE TypeOK'
  <2>1. tasks' \in [Conns -> 0..MaxTasks]
    BY <1>21, IoAssumption DEF worker_returns, TypeOK
  <2> QED
    BY <1>21, <2>1 DEF worker_returns, TypeOK
<1> QED
  BY <1>1, <1>2, <1>3, <1>4, <1>5, <1>6, <1>7, <1>8, <1>9, <1>10, <1>11,
     <1>12, <1>13, <1>14, <1>15, <1>16, <1>17, <1>18, <1>19, <1>20, <1>21
     DEF Next, EventNext, TeardownNext, Down

\* The ownership is the same while the arrays, the engine's queue and the
\* frees are, and no connection gets on that it does not know.
LEMMA OwnKept ==
    ASSUME OwnInv, pending_handshakes' = pending_handshakes,
           active_sessions' = active_sessions, arrived' \subseteq arrived,
           freed' = freed, tasks' = tasks,
           established' \cup closed' \cup aborted'
               \subseteq established \cup closed \cup aborted \cup Pending \cup Active
    PROVE  OwnInv'
<1>1. Pending' = Pending /\ Active' = Active
  BY DEF Pending, Active
<1> QED
  BY <1>1 DEF OwnInv

\* A connection is freed by the one who owned it.
LEMMA OwnFreed ==
    ASSUME TypeOK, OwnInv, NEW c \in Conns, c \in Pending \cup Active \cup arrived,
           Free(c), Pending' = Pending \ {c}, Active' = Active \ {c},
           arrived' = arrived \ {c}, Distinct(pending_handshakes'),
           Distinct(active_sessions'), tasks' = tasks, tasks[c] = 0,
           established' = established, closed' = closed, aborted' = aborted
    PROVE  OwnInv'
<1>1. freed \in [Conns -> Nat] /\ freed[c] = 0
  BY DEF OwnInv, TypeOK
<1>2. freed'[c] = 1 /\ \A d \in Conns \ {c} : freed'[d] = freed[d]
  BY <1>1 DEF Free
<1>3. ASSUME NEW d \in Conns
      PROVE  /\ freed'[d] \in {0, 1}
             /\ freed'[d] = 1 => d \notin Pending' \cup Active' \cup arrived'
             /\ d \in established' \cup closed' \cup aborted' =>
                   d \in Pending' \cup Active' \/ freed'[d] = 1
             /\ tasks'[d] > 0 => d \in Active'
  <2>1. CASE d = c
    BY <1>2, <2>1
  <2>2. CASE d # c
    BY <1>2, <2>2 DEF OwnInv
  <2> QED
    BY <2>1, <2>2
<1> QED
  BY <1>3 DEF OwnInv

\* The ownership stays right.
LEMMA OwnStep ==
    ASSUME TypeOK, OwnInv, WalkInv, [Next]_vars
    PROVE  OwnInv'
<1> USE DEF tableVars, ioVars, netVars, sessVars
<1>1. CASE UNCHANGED vars
  BY <1>1, OwnKept DEF vars
<1>2. CASE loop_condition
  BY <1>2, OwnKept DEF loop_condition
<1>3. CASE test_running
  BY <1>3, OwnKept DEF test_running
<1>4. ASSUME NEW c \in Conns, accept_connection(c) PROVE OwnInv'
  <2>1. c \notin Pending \cup Active /\ tasks[c] = 0 /\ freed[c] = 0
    BY <1>4 DEF accept_connection, OwnInv, TypeOK
  <2>2. /\ Active' = Active /\ active_sessions' = active_sessions
        /\ arrived' = arrived \ {c} /\ tasks' = tasks
        /\ established' = established /\ closed' = closed /\ aborted' = aborted
    BY <1>4 DEF accept_connection, Active
  <2>3. CASE Free(c) /\ pending_handshakes' = pending_handshakes
    <3>1. Pending' = Pending
      BY <2>3 DEF Pending
    <3> QED
      BY <1>4, <2>1, <2>2, <2>3, <3>1, OwnFreed DEF accept_connection, OwnInv
  <2>4. CASE /\ pending_handshakes' = Append(pending_handshakes, c)
             /\ freed' = freed
    <3>1. Distinct(pending_handshakes') /\ Pending' = Pending \cup {c}
      BY <2>1, <2>4, PendingAdded
    <3> QED
      BY <1>4, <2>1, <2>2, <2>4, <3>1 DEF accept_connection, OwnInv
  <2> QED
    BY <1>4, <2>3, <2>4 DEF accept_connection
<1>5. CASE accept_end
  BY <1>5, OwnKept DEF accept_end
<1>6. ASSUME NEW c \in Conns, handshake_fails(c) PROVE OwnInv'
  <2>1. /\ c \in Pending /\ Distinct(pending_handshakes')
        /\ Pending' = Pending \ {c}
    BY <1>6, HandshakeAt, PendingRemoved DEF handshake_fails
  <2>2. /\ Active' = Active /\ active_sessions' = active_sessions
        /\ arrived' = arrived /\ tasks' = tasks /\ Free(c)
        /\ established' = established /\ closed' = closed /\ aborted' = aborted
    BY <1>6 DEF handshake_fails, Active
  <2>3. c \notin Active \cup arrived /\ tasks[c] = 0
    BY <2>1 DEF OwnInv, TypeOK
  <2> QED
    BY <2>1, <2>2, <2>3, OwnFreed DEF OwnInv
<1>7. ASSUME NEW c \in Conns, spawn_serviced_session(c) PROVE OwnInv'
  <2>1. /\ c \in Pending /\ Distinct(pending_handshakes')
        /\ Pending' = Pending \ {c}
    BY <1>7, HandshakeAt, PendingRemoved DEF spawn_serviced_session
  <2>2. /\ arrived' = arrived /\ tasks' = tasks
        /\ established' = established /\ closed' = closed /\ aborted' = aborted
    BY <1>7 DEF spawn_serviced_session
  <2>3. c \notin Active \cup arrived /\ tasks[c] = 0 /\ freed[c] = 0
    BY <2>1 DEF OwnInv, TypeOK
  <2>4. CASE Free(c) /\ active_sessions' = active_sessions
    <3>1. Active' = Active
      BY <2>4 DEF Active
    <3> QED
      BY <2>1, <2>2, <2>3, <2>4, <3>1, OwnFreed DEF OwnInv
  <2>5. CASE active_sessions' = Append(active_sessions, c) /\ freed' = freed
    <3>1. Distinct(active_sessions') /\ Active' = Active \cup {c}
      BY <2>3, <2>5, ActiveAdded
    <3> QED
      BY <2>1, <2>2, <2>3, <2>5, <3>1 DEF OwnInv
  <2> QED
    BY <1>7, <2>4, <2>5 DEF spawn_serviced_session
<1>8. ASSUME NEW c \in Conns, handshake_goes_on(c) PROVE OwnInv'
  BY <1>8, OwnKept DEF handshake_goes_on
<1>9. CASE handshakes_end
  BY <1>9, OwnKept DEF handshakes_end
<1>10. ASSUME NEW c \in Conns, service_session_pass(c) PROVE OwnInv'
  <2>1. Pending' = Pending /\ Active' = Active /\ c \in Active
    BY <1>10 DEF service_session_pass, AtSession, Pending, Active, Entries, TypeOK
  <2>2. UNCHANGED <<pending_handshakes, active_sessions, freed, arrived, established,
                    closed>>
    BY <1>10 DEF service_session_pass
  <2>3. aborted' \subseteq aborted \cup {c}
    BY <1>10 DEF service_session_pass
  <2>4. \A d \in Conns \ {c} : tasks'[d] = tasks[d]
    BY <1>10 DEF service_session_pass, TypeOK
  <2>5. \A d \in Conns : tasks'[d] > 0 => d \in Active
    BY <2>1, <2>4 DEF OwnInv
  <2> QED
    BY <2>1, <2>2, <2>3, <2>5 DEF OwnInv
<1>11. CASE session_stays
  BY <1>11, OwnKept DEF session_stays
<1>12. CASE h3_session_destroy
  <2> DEFINE c == active_sessions[i]
  <2>1. i \in 1..Len(active_sessions) /\ c \in Conns
    BY <1>12 DEF h3_session_destroy, WalkInv, TypeOK
  <2>2. /\ c \in Active /\ Distinct(active_sessions')
        /\ Active' = Active \ {c}
    BY <1>12, <2>1, ActiveRemoved DEF h3_session_destroy
  <2>3. /\ Pending' = Pending /\ pending_handshakes' = pending_handshakes
        /\ arrived' = arrived /\ tasks' = tasks /\ Free(c) /\ tasks[c] = 0
        /\ established' = established /\ closed' = closed /\ aborted' = aborted
    BY <1>12 DEF h3_session_destroy, Idle, Pending
  <2> HIDE DEF c
  <2>4. c \notin Pending \cup arrived
    BY <2>2 DEF OwnInv
  <2> QED
    BY <2>1, <2>2, <2>3, <2>4, OwnFreed DEF OwnInv
<1>13. CASE sessions_end
  BY <1>13, OwnKept DEF sessions_end
<1>14. CASE free_pending
  <2> DEFINE c == pending_handshakes[1]
  <2>1. 1 \in 1..Len(pending_handshakes) /\ c \in Conns
    BY <1>14 DEF free_pending, TypeOK
  <2>2. /\ c \in Pending /\ Distinct(pending_handshakes')
        /\ Pending' = Pending \ {c}
    BY <1>14, <2>1, PendingRemoved DEF free_pending
  <2>3. /\ Active' = Active /\ active_sessions' = active_sessions
        /\ arrived' = arrived /\ tasks' = tasks /\ Free(c)
        /\ established' = established /\ closed' = closed /\ aborted' = aborted
    BY <1>14 DEF free_pending, Active
  <2> HIDE DEF c
  <2>4. c \notin Active \cup arrived /\ tasks[c] = 0
    BY <2>1, <2>2 DEF OwnInv, TypeOK
  <2> QED
    BY <2>1, <2>2, <2>3, <2>4, OwnFreed DEF OwnInv
<1>15. CASE event_thread_exits
  BY <1>15, OwnKept DEF event_thread_exits
<1>16. CASE teardown_stop
  BY <1>16, OwnKept DEF teardown_stop
<1>17. CASE teardown_join
  BY <1>17, OwnKept DEF teardown_join
<1>18. CASE teardown_finish
  BY <1>18, OwnKept DEF teardown_finish
<1>19. ASSUME NEW c \in Conns, peer_connects(c) PROVE OwnInv'
  <2>1. Pending' = Pending /\ Active' = Active
    BY <1>19 DEF peer_connects, Pending, Active
  <2>2. /\ c \notin Pending \cup Active /\ freed[c] = 0
        /\ arrived' = arrived \cup {c}
    BY <1>19 DEF peer_connects, Known, Pending, Active
  <2>3. UNCHANGED <<pending_handshakes, active_sessions, freed, tasks, established,
                    closed, aborted>>
    BY <1>19 DEF peer_connects
  <2> QED
    BY <2>1, <2>2, <2>3 DEF OwnInv
<1>20. ASSUME NEW c \in Conns, conn_progresses(c) PROVE OwnInv'
  BY <1>20, OwnKept DEF conn_progresses, Known, Pending, Active
<1>21. ASSUME NEW c \in Conns, worker_returns(c) PROVE OwnInv'
  <2>1. Pending' = Pending /\ Active' = Active
    BY <1>21 DEF worker_returns, Pending, Active
  <2>2. UNCHANGED <<pending_handshakes, active_sessions, freed, arrived, established,
                    closed, aborted>>
    BY <1>21 DEF worker_returns
  <2>3. \A d \in Conns : tasks'[d] > 0 => tasks[d] > 0
    BY <1>21 DEF worker_returns, TypeOK
  <2> QED
    BY <2>1, <2>2, <2>3 DEF OwnInv
<1> QED
  BY <1>1, <1>2, <1>3, <1>4, <1>5, <1>6, <1>7, <1>8, <1>9, <1>10, <1>11,
     <1>12, <1>13, <1>14, <1>15, <1>16, <1>17, <1>18, <1>19, <1>20, <1>21
     DEF Next, EventNext, TeardownNext, Down

\* The limit and the counters hold while the arrays keep their lengths.
LEMMA CountKept ==
    ASSUME CountInv, pending_handshakes' = pending_handshakes,
           active_sessions' = active_sessions, notes' = notes,
           active_session_count' = active_session_count
    PROVE  CountInv'
BY DEF CountInv, WithinLimit, NotesBalanced

\* The limit and the counters hold.
LEMMA CountStep ==
    ASSUME TypeOK, OwnInv, WalkInv, CountInv, [Next]_vars
    PROVE  CountInv'
<1> USE DEF tableVars, ioVars, netVars, sessVars
<1>1. CASE UNCHANGED vars
  BY <1>1, CountKept DEF vars
<1>2. CASE loop_condition
  BY <1>2, CountKept DEF loop_condition
<1>3. CASE test_running
  BY <1>3, CountKept DEF test_running
<1>4. ASSUME NEW c \in Conns, accept_connection(c) PROVE CountInv'
  <2>0. Len(pending_handshakes) \in Nat /\ Len(active_sessions) \in Nat
    BY DEF TypeOK
  <2>1. CASE pending_handshakes' = pending_handshakes
    BY <1>4, <2>1, CountKept DEF accept_connection
  <2>2. CASE /\ pending_handshakes' = Append(pending_handshakes, c)
             /\ ~h3_io_at_connection_limit
    <3>1. c \notin Pending
      BY <1>4 DEF accept_connection, OwnInv
    <3>2. Len(pending_handshakes') = Len(pending_handshakes) + 1
      BY <2>2, <3>1, PendingAdded
    <3>3. /\ active_sessions' = active_sessions /\ notes' = notes
          /\ active_session_count' = active_session_count
      BY <1>4 DEF accept_connection
    <3> QED
      BY <2>0, <2>2, <3>2, <3>3, IoAssumption
         DEF CountInv, WithinLimit, NotesBalanced, h3_io_at_connection_limit
  <2> QED
    BY <1>4, <2>1, <2>2 DEF accept_connection
<1>5. CASE accept_end
  BY <1>5, CountKept DEF accept_end
<1>6. ASSUME NEW c \in Conns, handshake_fails(c) PROVE CountInv'
  <2>0. Len(pending_handshakes) \in Nat /\ Len(active_sessions) \in Nat
    BY DEF TypeOK
  <2>1. Len(pending_handshakes') = Len(pending_handshakes) - 1
    BY <1>6, HandshakeAt, PendingRemoved DEF handshake_fails
  <2>2. /\ active_sessions' = active_sessions /\ notes' = notes
        /\ active_session_count' = active_session_count
    BY <1>6 DEF handshake_fails
  <2> QED
    BY <2>0, <2>1, <2>2, IoAssumption DEF CountInv, WithinLimit, NotesBalanced
<1>7. ASSUME NEW c \in Conns, spawn_serviced_session(c) PROVE CountInv'
  <2>0. Len(pending_handshakes) \in Nat /\ Len(active_sessions) \in Nat
    BY DEF TypeOK
  <2>1. c \in Pending /\ Len(pending_handshakes') = Len(pending_handshakes) - 1
    BY <1>7, HandshakeAt, PendingRemoved DEF spawn_serviced_session
  <2>2. CASE /\ active_sessions' = active_sessions /\ notes' = notes
             /\ active_session_count' = active_session_count
    BY <2>0, <2>1, <2>2, IoAssumption DEF CountInv, WithinLimit, NotesBalanced
  <2>3. CASE /\ active_sessions' = Append(active_sessions, c)
             /\ notes' = notes + 1 /\ active_session_count' = CountUp
    <3>1. c \notin Active
      BY <2>1 DEF OwnInv
    <3>2. Len(active_sessions') = Len(active_sessions) + 1
      BY <2>3, <3>1, ActiveAdded
    <3> QED
      BY <2>0, <2>1, <2>3, <3>2, IoAssumption
         DEF CountInv, WithinLimit, NotesBalanced, CountUp
  <2> QED
    BY <1>7, <2>2, <2>3 DEF spawn_serviced_session
<1>8. ASSUME NEW c \in Conns, handshake_goes_on(c) PROVE CountInv'
  BY <1>8, CountKept DEF handshake_goes_on
<1>9. CASE handshakes_end
  BY <1>9, CountKept DEF handshakes_end
<1>10. ASSUME NEW c \in Conns, service_session_pass(c) PROVE CountInv'
  BY <1>10, CountKept DEF service_session_pass
<1>11. CASE session_stays
  BY <1>11, CountKept DEF session_stays
<1>12. CASE h3_session_destroy
  <2>0. Len(pending_handshakes) \in Nat /\ Len(active_sessions) \in Nat
    BY DEF TypeOK
  <2>1. i \in 1..Len(active_sessions)
    BY <1>12 DEF h3_session_destroy, WalkInv
  <2>2. Len(active_sessions') = Len(active_sessions) - 1
    BY <1>12, <2>1, ActiveRemoved DEF h3_session_destroy
  <2>3. /\ pending_handshakes' = pending_handshakes /\ notes' = notes - 1
        /\ active_session_count' = active_session_count - 1
    BY <1>12 DEF h3_session_destroy, Unnoted
  <2> QED
    BY <2>0, <2>2, <2>3, IoAssumption DEF CountInv, WithinLimit, NotesBalanced
<1>13. CASE sessions_end
  BY <1>13, CountKept DEF sessions_end
<1>14. CASE free_pending
  <2>0. Len(pending_handshakes) \in Nat /\ Len(active_sessions) \in Nat
    BY DEF TypeOK
  <2>1. Len(pending_handshakes') = Len(pending_handshakes) - 1
    <3>1. 1 \in 1..Len(pending_handshakes)
      BY <1>14 DEF free_pending, TypeOK
    <3> QED
      BY <1>14, <3>1, PendingRemoved DEF free_pending
  <2>2. /\ active_sessions' = active_sessions /\ notes' = notes
        /\ active_session_count' = active_session_count
    BY <1>14 DEF free_pending
  <2> QED
    BY <2>0, <2>1, <2>2, IoAssumption DEF CountInv, WithinLimit, NotesBalanced
<1>15. CASE event_thread_exits
  BY <1>15, CountKept DEF event_thread_exits
<1>16. CASE teardown_stop
  BY <1>16, CountKept DEF teardown_stop
<1>17. CASE teardown_join
  BY <1>17, CountKept DEF teardown_join
<1>18. CASE teardown_finish
  BY <1>18, CountKept DEF teardown_finish
<1>19. ASSUME NEW c \in Conns, peer_connects(c) PROVE CountInv'
  BY <1>19, CountKept DEF peer_connects
<1>20. ASSUME NEW c \in Conns, conn_progresses(c) PROVE CountInv'
  BY <1>20, CountKept DEF conn_progresses
<1>21. ASSUME NEW c \in Conns, worker_returns(c) PROVE CountInv'
  BY <1>21, CountKept DEF worker_returns
<1> QED
  BY <1>1, <1>2, <1>3, <1>4, <1>5, <1>6, <1>7, <1>8, <1>9, <1>10, <1>11,
     <1>12, <1>13, <1>14, <1>15, <1>16, <1>17, <1>18, <1>19, <1>20, <1>21
     DEF Next, EventNext, TeardownNext, Down

\* The order of the teardown does not depend on the connections.
LEMMA TearKept ==
    ASSUME TearInv, active_sessions' = active_sessions,
           pending_handshakes' = pending_handshakes, epc' = epc, tpc' = tpc,
           UNCHANGED ioVars
    PROVE  TearInv'
BY DEF TearInv, ioVars

\* The teardown stays in order.
LEMMA TearStep ==
    ASSUME TypeOK, TearInv, [Next]_vars
    PROVE  TearInv'
<1> USE DEF tableVars, ioVars, netVars, sessVars
<1>1. CASE UNCHANGED vars
  BY <1>1, TearKept DEF vars
<1>2. CASE loop_condition
  BY <1>2 DEF loop_condition, KeepsLooping, TearInv
<1>3. CASE test_running
  BY <1>3 DEF test_running, Stage, TearInv
<1>4. ASSUME NEW c \in Conns, accept_connection(c) PROVE TearInv'
  BY <1>4 DEF accept_connection, TearInv
<1>5. CASE accept_end
  BY <1>5 DEF accept_end, TearInv, TypeOK
<1>6. ASSUME NEW c \in Conns, handshake_fails(c) PROVE TearInv'
  BY <1>6 DEF handshake_fails, AtHandshake, TearInv
<1>7. ASSUME NEW c \in Conns, spawn_serviced_session(c) PROVE TearInv'
  BY <1>7 DEF spawn_serviced_session, AtHandshake, TearInv
<1>8. ASSUME NEW c \in Conns, handshake_goes_on(c) PROVE TearInv'
  BY <1>8 DEF handshake_goes_on, AtHandshake, TearInv
<1>9. CASE handshakes_end
  BY <1>9 DEF handshakes_end, TearInv, TypeOK
<1>10. ASSUME NEW c \in Conns, service_session_pass(c) PROVE TearInv'
  BY <1>10 DEF service_session_pass, AtSession, TearInv
<1>11. CASE session_stays
  BY <1>11 DEF session_stays, TearInv, TypeOK
<1>12. CASE h3_session_destroy
  BY <1>12 DEF h3_session_destroy, TearInv, TypeOK
<1>13. CASE sessions_end
  BY <1>13 DEF sessions_end, TearInv, TypeOK
<1>14. CASE free_pending
  BY <1>14 DEF free_pending, TearInv, TypeOK
<1>15. CASE event_thread_exits
  BY <1>15 DEF event_thread_exits, TearInv, TypeOK
<1>16. CASE teardown_stop
  BY <1>16 DEF teardown_stop, TearInv, TypeOK
<1>17. CASE teardown_join
  BY <1>17 DEF teardown_join, TearInv, TypeOK
<1>18. CASE teardown_finish
  BY <1>18 DEF teardown_finish, TearInv, TypeOK
<1>19. ASSUME NEW c \in Conns, peer_connects(c) PROVE TearInv'
  BY <1>19, TearKept DEF peer_connects
<1>20. ASSUME NEW c \in Conns, conn_progresses(c) PROVE TearInv'
  BY <1>20, TearKept DEF conn_progresses
<1>21. ASSUME NEW c \in Conns, worker_returns(c) PROVE TearInv'
  BY <1>21, TearKept DEF worker_returns
<1> QED
  BY <1>1, <1>2, <1>3, <1>4, <1>5, <1>6, <1>7, <1>8, <1>9, <1>10, <1>11,
     <1>12, <1>13, <1>14, <1>15, <1>16, <1>17, <1>18, <1>19, <1>20, <1>21
     DEF Next, EventNext, TeardownNext, Down

\* A walk has passed the same entries while the arrays and the index stay.
LEMMA WalkKept ==
    ASSUME WalkInv, active_sessions' = active_sessions,
           pending_handshakes' = pending_handshakes, epc' = epc, i' = i,
           seen' = seen
    PROVE  WalkInv'
BY DEF WalkInv, RoundVisitsAll, Active

\* A walk begins with nothing passed.
LEMMA WalkBegins ==
    ASSUME i' = 1, seen' = {}, epc' # "reap"
    PROVE  WalkInv'
<1>1. Walked(pending_handshakes', i' - 1) = {}
  BY DEF Walked
<1>2. Walked(active_sessions', i' - 1) = {}
  BY DEF Walked
<1> QED
  BY <1>1, <1>2 DEF WalkInv, RoundVisitsAll

\* A walk skips nothing.
LEMMA WalkStep ==
    ASSUME TypeOK, OwnInv, WalkInv, [Next]_vars
    PROVE  WalkInv'
<1> USE DEF tableVars, ioVars, netVars, sessVars
<1>1. CASE UNCHANGED vars
  BY <1>1, WalkKept DEF vars
<1>2. CASE loop_condition
  BY <1>2 DEF loop_condition, WalkInv, RoundVisitsAll
<1>3. CASE test_running
  BY <1>3, WalkBegins DEF test_running, Stage
<1>4. ASSUME NEW c \in Conns, accept_connection(c) PROVE WalkInv'
  BY <1>4, WalkBegins DEF accept_connection, WalkInv
<1>5. CASE accept_end
  BY <1>5, WalkBegins DEF accept_end, WalkInv
<1>6. ASSUME NEW c \in Conns, handshake_fails(c) PROVE WalkInv'
  <2>1. i \in 1..Len(pending_handshakes) /\ c = pending_handshakes[i]
    BY <1>6, HandshakeAt DEF handshake_fails
  <2>2. /\ Pending' = Pending \ {c} /\ c \notin Walked(pending_handshakes, i - 1)
        /\ Walked(pending_handshakes', i - 1) = Walked(pending_handshakes, i - 1)
    BY <1>6, <2>1, PendingRemoved DEF handshake_fails
  <2>3. epc' = "handshakes" /\ i' = i /\ seen' = seen \cup {c}
    BY <1>6 DEF handshake_fails, AtHandshake, AfterRemoval
  <2>4. seen \cap Pending = Walked(pending_handshakes, i - 1)
    BY <1>6 DEF handshake_fails, AtHandshake, WalkInv, RoundVisitsAll, Pending
  <2>5. seen' \cap Pending' = Walked(pending_handshakes', i' - 1)
    BY <2>2, <2>3, <2>4
  <2> QED
    BY <2>3, <2>5 DEF WalkInv, RoundVisitsAll, Pending
<1>7. ASSUME NEW c \in Conns, spawn_serviced_session(c) PROVE WalkInv'
  <2>1. i \in 1..Len(pending_handshakes) /\ c = pending_handshakes[i]
    BY <1>7, HandshakeAt DEF spawn_serviced_session
  <2>2. /\ Pending' = Pending \ {c} /\ c \notin Walked(pending_handshakes, i - 1)
        /\ Walked(pending_handshakes', i - 1) = Walked(pending_handshakes, i - 1)
    BY <1>7, <2>1, PendingRemoved DEF spawn_serviced_session
  <2>3. epc' = "handshakes" /\ i' = i /\ seen' = seen \cup {c}
    BY <1>7 DEF spawn_serviced_session, AtHandshake, AfterRemoval
  <2>4. seen \cap Pending = Walked(pending_handshakes, i - 1)
    BY <1>7 DEF spawn_serviced_session, AtHandshake, WalkInv, RoundVisitsAll, Pending
  <2>5. seen' \cap Pending' = Walked(pending_handshakes', i' - 1)
    BY <2>2, <2>3, <2>4
  <2> QED
    BY <2>3, <2>5 DEF WalkInv, RoundVisitsAll, Pending
<1>8. ASSUME NEW c \in Conns, handshake_goes_on(c) PROVE WalkInv'
  <2>1. i \in 1..Len(pending_handshakes) /\ c = pending_handshakes[i]
    BY <1>8, HandshakeAt DEF handshake_goes_on
  <2>2. /\ Walked(pending_handshakes, i) = Walked(pending_handshakes, i - 1) \cup {c}
        /\ c \in Pending
    BY <2>1, WalkOn DEF TypeOK, Pending
  <2>3. /\ epc' = "handshakes" /\ i' = i + 1 /\ seen' = seen \cup {c}
        /\ pending_handshakes' = pending_handshakes
    BY <1>8 DEF handshake_goes_on, AtHandshake
  <2>4. seen \cap Pending = Walked(pending_handshakes, i - 1)
    BY <1>8 DEF handshake_goes_on, AtHandshake, WalkInv, RoundVisitsAll, Pending
  <2>5. i' - 1 = i /\ Pending' = Pending
    BY <2>1, <2>3 DEF Pending
  <2>6. seen' \cap Pending' = Walked(pending_handshakes', i' - 1)
    BY <2>2, <2>3, <2>4, <2>5
  <2> QED
    BY <2>3, <2>6 DEF WalkInv, RoundVisitsAll, Pending
<1>9. CASE handshakes_end
  BY <1>9, WalkBegins DEF handshakes_end
<1>10. ASSUME NEW c \in Conns, service_session_pass(c) PROVE WalkInv'
  <2>1. i \in 1..Len(active_sessions) /\ c = active_sessions[i]
    BY <1>10 DEF service_session_pass, AtSession, TypeOK
  <2>2. /\ Walked(active_sessions, i) = Walked(active_sessions, i - 1) \cup {c}
        /\ c \in Active
    BY <2>1, WalkOn DEF TypeOK, Active
  <2>3. /\ epc' = "reap" /\ i' = i /\ seen' = seen \cup {c}
        /\ active_sessions' = active_sessions
    BY <1>10 DEF service_session_pass
  <2>4. seen \cap Active = Walked(active_sessions, i - 1)
    BY <1>10 DEF service_session_pass, AtSession, WalkInv, RoundVisitsAll, Active
  <2>5. Active' = Active
    BY <2>3 DEF Active
  <2>6. seen' \cap Active' = Walked(active_sessions', i')
    BY <2>2, <2>3, <2>4, <2>5
  <2> QED
    BY <2>1, <2>3, <2>6 DEF WalkInv, RoundVisitsAll
<1>11. CASE session_stays
  <2>1. /\ i \in 1..Len(active_sessions)
        /\ seen \cap Active = Walked(active_sessions, i)
    BY <1>11 DEF session_stays, WalkInv
  <2>2. /\ epc' = "sessions" /\ i' = i + 1 /\ seen' = seen
        /\ active_sessions' = active_sessions
    BY <1>11 DEF session_stays
  <2>3. i' - 1 = i /\ Active' = Active
    BY <2>1, <2>2 DEF Active
  <2> QED
    BY <2>1, <2>2, <2>3 DEF WalkInv, RoundVisitsAll, Active
<1>12. CASE h3_session_destroy
  <2> DEFINE c == active_sessions[i]
  <2>1. /\ i \in 1..Len(active_sessions)
        /\ seen \cap Active = Walked(active_sessions, i)
    BY <1>12 DEF h3_session_destroy, WalkInv
  <2>2. /\ Active' = Active \ {c} /\ c \notin Walked(active_sessions, i - 1)
        /\ Walked(active_sessions', i - 1) = Walked(active_sessions, i - 1)
    BY <1>12, <2>1, ActiveRemoved DEF h3_session_destroy
  <2>3. Walked(active_sessions, i) = Walked(active_sessions, i - 1) \cup {c}
    BY <2>1, WalkOn DEF TypeOK
  <2>4. epc' = "sessions" /\ i' = i /\ seen' = seen
    BY <1>12 DEF h3_session_destroy, AfterRemoval
  <2> HIDE DEF c
  <2>5. seen' \cap Active' = Walked(active_sessions', i' - 1)
    BY <2>1, <2>2, <2>3, <2>4
  <2> QED
    BY <2>4, <2>5 DEF WalkInv, RoundVisitsAll, Active
<1>13. CASE sessions_end
  BY <1>13, WalkBegins DEF sessions_end
<1>14. CASE free_pending
  BY <1>14 DEF free_pending, WalkInv, RoundVisitsAll
<1>15. CASE event_thread_exits
  BY <1>15 DEF event_thread_exits, WalkInv, RoundVisitsAll
<1>16. CASE teardown_stop
  BY <1>16, WalkKept DEF teardown_stop
<1>17. CASE teardown_join
  BY <1>17, WalkKept DEF teardown_join
<1>18. CASE teardown_finish
  BY <1>18, WalkKept DEF teardown_finish
<1>19. ASSUME NEW c \in Conns, peer_connects(c) PROVE WalkInv'
  BY <1>19, WalkKept DEF peer_connects
<1>20. ASSUME NEW c \in Conns, conn_progresses(c) PROVE WalkInv'
  BY <1>20, WalkKept DEF conn_progresses
<1>21. ASSUME NEW c \in Conns, worker_returns(c) PROVE WalkInv'
  BY <1>21, WalkKept DEF worker_returns
<1> QED
  BY <1>1, <1>2, <1>3, <1>4, <1>5, <1>6, <1>7, <1>8, <1>9, <1>10, <1>11,
     <1>12, <1>13, <1>14, <1>15, <1>16, <1>17, <1>18, <1>19, <1>20, <1>21
     DEF Next, EventNext, TeardownNext, Down

-----------------------------------------------------------------------------
\* IoInv is inductive.
THEOREM IoInvariant == Spec => []IoInv
<1>1. Init => IoInv
  <2> SUFFICES ASSUME Init PROVE IoInv
    OBVIOUS
  <2>1. /\ pending_handshakes = <<>> /\ active_sessions = <<>> /\ epc = "loop"
        /\ freed = [c \in Conns |-> 0] /\ tasks = [c \in Conns |-> 0]
    BY DEF Init
  <2>2. TypeOK
    <3>1. freed \in [Conns -> Nat] /\ tasks \in [Conns -> 0..MaxTasks]
      BY <2>1, IoAssumption
    <3>2. pending_handshakes \in Seq(Conns) /\ active_sessions \in Seq(Conns)
      BY <2>1
    <3> QED
      BY <3>1, <3>2 DEF Init, TypeOK
  <2>3. OwnInv
    <3>1. Pending = {} /\ Active = {}
      BY <2>1 DEF Pending, Active, Entries
    <3>2. Distinct(pending_handshakes) /\ Distinct(active_sessions)
      BY <2>1 DEF Distinct
    <3> QED
      BY <2>1, <3>1, <3>2 DEF Init, OwnInv
  <2>4. CountInv
    BY <2>1, IoAssumption DEF Init, CountInv, WithinLimit, NotesBalanced
  <2>5. WalkInv /\ TearInv
    BY <2>1 DEF Init, WalkInv, RoundVisitsAll, TearInv
  <2> QED
    BY <2>2, <2>3, <2>4, <2>5 DEF IoInv
<1>2. IoInv /\ [Next]_vars => IoInv'
  BY IoTypeStep, OwnStep, CountStep, WalkStep, TearStep DEF IoInv
<1> QED
  BY <1>1, <1>2, PTL DEF Spec

\* H3MaxConnections bounds handshakes and sessions together, whatever its
\* value.
THEOREM LimitHolds == Spec => []WithinLimit
<1>1. IoInv => WithinLimit
  BY DEF IoInv, CountInv
<1> QED
  BY <1>1, IoInvariant, PTL

\* The MPM and the status page know the number of sessions: every way into the
\* table notes a connection, and every way out of it takes one off.
THEOREM NotesAreBalanced == Spec => []NotesBalanced
<1>1. IoInv => NotesBalanced
  BY DEF IoInv, CountInv
<1> QED
  BY <1>1, IoInvariant, PTL

\* Every connection is owned once and freed once, on whichever path of the
\* event thread it ends, and not while tasks of its session are in flight.
THEOREM ConnectionsAreOwned == Spec => []OwnedOrFreed
<1>1. IoInv => OwnedOrFreed
  <2> SUFFICES ASSUME IoInv, NEW c \in Conns
               PROVE  /\ Times(pending_handshakes, c) + Times(active_sessions, c)
                            + freed[c] + (IF c \in arrived THEN 1 ELSE 0) <= 1
                      /\ c \in established \cup closed \cup aborted =>
                            Times(pending_handshakes, c) + Times(active_sessions, c)
                                + freed[c] = 1
                      /\ tasks[c] > 0 => Times(active_sessions, c) = 1
    BY DEF OwnedOrFreed
  <2>1. /\ Times(pending_handshakes, c) = IF c \in Pending THEN 1 ELSE 0
        /\ Times(active_sessions, c) = IF c \in Active THEN 1 ELSE 0
    BY TimesDistinct DEF IoInv, TypeOK, OwnInv, Pending, Active
  <2>2. /\ ~(c \in Pending /\ c \in Active)
        /\ c \in arrived => c \notin Pending /\ c \notin Active
        /\ freed[c] \in {0, 1}
        /\ freed[c] = 1 => c \notin Pending /\ c \notin Active /\ c \notin arrived
        /\ c \in established \cup closed \cup aborted =>
              c \in Pending \/ c \in Active \/ freed[c] = 1
        /\ tasks[c] > 0 => c \in Active
    BY DEF IoInv, OwnInv
  <2> QED
    BY <2>1, <2>2
<1> QED
  BY <1>1, IoInvariant, PTL

\* A round of progress_pending_handshakes, and of the loop over the sessions,
\* passes every entry once although entries are removed under way by moving
\* the last one into their place.
THEOREM WalksAreComplete == Spec => []RoundVisitsAll
<1>1. IoInv => RoundVisitsAll
  BY DEF IoInv, WalkInv
<1> QED
  BY <1>1, IoInvariant, PTL

\* teardown destroys the worker pool and the engine when nothing uses them.
THEOREM TeardownComesLast == Spec => []TeardownIsLast
<1>1. IoInv => TeardownIsLast
  <2> SUFFICES ASSUME IoInv PROVE TeardownIsLast
    OBVIOUS
  <2>1. ASSUME ~pool_up
        PROVE  /\ active_sessions = <<>> /\ pending_handshakes = <<>>
               /\ \A c \in Conns : tasks[c] = 0
    <3>1. active_sessions = <<>> /\ pending_handshakes = <<>>
      BY <2>1 DEF IoInv, TypeOK, TearInv
    <3>2. Active = {}
      BY <3>1 DEF Active, Entries
    <3> QED
      BY <3>1, <3>2 DEF IoInv, OwnInv, TypeOK
  <2>2. ~engine_up => ~pool_up /\ epc = "gone"
    BY DEF IoInv, TypeOK, TearInv
  <2> QED
    BY <2>1, <2>2 DEF TeardownIsLast
<1> QED
  BY <1>1, IoInvariant, PTL

-----------------------------------------------------------------------------
(***************************************************************************)
(* The life of each session.                                               *)
(***************************************************************************)
\* Freeing connection d ends the life of its session, if it has one, and no
\* other life.
LEMMA FreeEndsLife ==
    ASSUME IoInv, NEW c \in Conns, NEW d \in Conns, Free(d),
           d \in Pending \cup Active \cup arrived, tasks[d] = 0,
           aborted' = aborted, tasks' = tasks
    PROVE  [Life(c)!Next]_(Life(c)!vars)
<1>1. freed \in [Conns -> Nat] /\ freed[d] = 0
  BY DEF IoInv, TypeOK, OwnInv
<1>2. freed'[c] = IF c = d THEN 1 ELSE freed[c]
  BY <1>1 DEF Free
<1>3. CASE c = d /\ c \in aborted
  BY <1>1, <1>2, <1>3 DEF Life!Next, Life!Destroy
<1>4. CASE c = d /\ c \notin aborted
  BY <1>4 DEF Life!vars
<1>5. CASE c # d
  BY <1>2, <1>5 DEF Life!vars
<1> QED
  BY <1>3, <1>4, <1>5

\* A step of the event thread, a worker, a peer or the stopping thread is, for
\* each session, one of SessionLife or none.
LEMMA LifeStep ==
    ASSUME IoInv, [Next]_vars, NEW c \in Conns
    PROVE  [Life(c)!Next]_(Life(c)!vars)
<1>0. TypeOK /\ OwnInv
  BY DEF IoInv
<1>1. ASSUME UNCHANGED <<tasks, aborted, freed>>
      PROVE  [Life(c)!Next]_(Life(c)!vars)
  BY <1>1 DEF Life!vars
<1> USE DEF sessVars
<1>2. CASE UNCHANGED vars
  BY <1>2, <1>1 DEF vars
<1>3. CASE loop_condition
  BY <1>3, <1>1 DEF loop_condition
<1>4. CASE test_running
  BY <1>4, <1>1 DEF test_running
<1>5. CASE accept_end
  BY <1>5, <1>1 DEF accept_end
<1>6. CASE handshakes_end
  BY <1>6, <1>1 DEF handshakes_end
<1>7. CASE session_stays
  BY <1>7, <1>1 DEF session_stays
<1>8. CASE h3_session_destroy
  <2>1. i \in 1..Len(active_sessions)
    BY <1>8 DEF h3_session_destroy, IoInv, WalkInv
  <2>2. active_sessions[i] \in Active /\ active_sessions[i] \in Conns
    BY <1>0, <2>1 DEF Active, Entries, TypeOK
  <2> QED
    BY <1>8, <2>2, FreeEndsLife DEF h3_session_destroy, Idle
<1>9. CASE sessions_end
  BY <1>9, <1>1 DEF sessions_end
<1>10. CASE free_pending
  <2>1. 1 \in 1..Len(pending_handshakes)
    BY <1>10, <1>0 DEF free_pending, TypeOK
  <2>2. pending_handshakes[1] \in Pending /\ pending_handshakes[1] \in Conns
    BY <1>0, <2>1 DEF Pending, Entries, TypeOK
  <2>3. tasks[pending_handshakes[1]] = 0
    BY <1>0, <2>2 DEF OwnInv, TypeOK
  <2> QED
    BY <1>10, <2>2, <2>3, FreeEndsLife DEF free_pending
<1>11. CASE event_thread_exits
  BY <1>11, <1>1 DEF event_thread_exits
<1>12. ASSUME NEW d \in Conns, accept_connection(d) PROVE [Life(c)!Next]_(Life(c)!vars)
  <2>1. d \in arrived /\ tasks[d] = 0
    BY <1>12, <1>0 DEF accept_connection, OwnInv, TypeOK
  <2> QED
    BY <1>12, <1>1, <2>1, FreeEndsLife DEF accept_connection
<1>13. ASSUME NEW d \in Conns, handshake_fails(d) PROVE [Life(c)!Next]_(Life(c)!vars)
  <2>1. i \in 1..Len(pending_handshakes)
    BY <1>13, <1>0 DEF handshake_fails, AtHandshake, TypeOK
  <2>2. d \in Pending
    BY <1>13, <2>1 DEF handshake_fails, AtHandshake, Pending, Entries
  <2>3. tasks[d] = 0
    BY <1>0, <2>2 DEF OwnInv, TypeOK
  <2> QED
    BY <1>13, <1>1, <2>2, <2>3, FreeEndsLife DEF handshake_fails
<1>14. ASSUME NEW d \in Conns, spawn_serviced_session(d) PROVE [Life(c)!Next]_(Life(c)!vars)
  <2>1. i \in 1..Len(pending_handshakes)
    BY <1>14, <1>0 DEF spawn_serviced_session, AtHandshake, TypeOK
  <2>2. d \in Pending
    BY <1>14, <2>1 DEF spawn_serviced_session, AtHandshake, Pending, Entries
  <2>3. tasks[d] = 0
    BY <1>0, <2>2 DEF OwnInv, TypeOK
  <2> QED
    BY <1>14, <1>1, <2>2, <2>3, FreeEndsLife DEF spawn_serviced_session
<1>15. ASSUME NEW d \in Conns, handshake_goes_on(d) PROVE [Life(c)!Next]_(Life(c)!vars)
  BY <1>15, <1>1 DEF handshake_goes_on
<1>16. ASSUME NEW d \in Conns, service_session_pass(d) PROVE [Life(c)!Next]_(Life(c)!vars)
  <2>1. CASE d \in aborted \/ c # d
    BY <1>16, <1>0, <2>1 DEF service_session_pass, Life!vars, TypeOK
  <2>2. CASE c = d /\ d \notin aborted /\ aborted' = aborted \cup {d}
    <3>1. i \in 1..Len(active_sessions)
      BY <1>16, <1>0 DEF service_session_pass, AtSession, TypeOK
    <3>2. d \in Active
      BY <1>16, <3>1 DEF service_session_pass, AtSession, Active, Entries
    <3>3. freed[c] = 0
      BY <1>0, <2>2, <3>2 DEF OwnInv
    <3>4. tasks' = tasks /\ freed' = freed
      BY <1>16, <2>2 DEF service_session_pass
    <3> QED
      BY <2>2, <3>3, <3>4 DEF Life!Next, Life!Abort
  <2>3. CASE c = d /\ d \notin aborted /\ aborted' = aborted
    <3>1. PICK n \in tasks[c]..MaxTasks : tasks' = [tasks EXCEPT ![c] = n]
      BY <1>16, <2>3 DEF service_session_pass
    <3>2. tasks[c] \in Nat /\ n \in Nat /\ tasks'[c] = n /\ n >= tasks[c]
      BY <1>0, <3>1, IoAssumption DEF TypeOK
    <3> QED
      BY <1>16, <2>3, <3>2 DEF service_session_pass, Life!Next, Life!Dispatch, Life!vars
  <2> QED
    BY <1>16, <2>1, <2>2, <2>3 DEF service_session_pass
<1>17. CASE teardown_stop
  BY <1>17, <1>1 DEF teardown_stop
<1>18. CASE teardown_join
  BY <1>18, <1>1 DEF teardown_join
<1>19. CASE teardown_finish
  BY <1>19, <1>1 DEF teardown_finish
<1>20. CASE Down
  BY <1>20, <1>1 DEF Down, vars
<1>21. ASSUME NEW d \in Conns, peer_connects(d) PROVE [Life(c)!Next]_(Life(c)!vars)
  BY <1>21, <1>1 DEF peer_connects
<1>22. ASSUME NEW d \in Conns, conn_progresses(d) PROVE [Life(c)!Next]_(Life(c)!vars)
  BY <1>22, <1>1 DEF conn_progresses
<1>23. ASSUME NEW d \in Conns, worker_returns(d) PROVE [Life(c)!Next]_(Life(c)!vars)
  <2>1. CASE c # d
    BY <1>23, <1>0, <2>1 DEF worker_returns, Life!vars, TypeOK
  <2>2. CASE c = d
    <3>1. freed[c] # 1 /\ freed[c] \in {0, 1} /\ tasks[c] \in Nat
      BY <1>23, <1>0, <2>2, IoAssumption DEF worker_returns, OwnInv, TypeOK
    <3>2. tasks'[c] = tasks[c] - 1
      BY <1>23, <1>0, <2>2 DEF worker_returns, TypeOK
    <3> QED
      BY <1>23, <2>2, <3>1, <3>2 DEF worker_returns, Life!Next, Life!Return
  <2> QED
    BY <2>1, <2>2
<1> QED
  BY <1>2, <1>3, <1>4, <1>5, <1>6, <1>7, <1>8, <1>9, <1>10, <1>11,
     <1>12, <1>13, <1>14, <1>15, <1>16, <1>17, <1>18, <1>19, <1>20,
     <1>21, <1>22, <1>23
     DEF Next, EventNext, TeardownNext

\* For any connections, limit and tasks, the loop over the sessions treats
\* each session as SessionLife allows, which H3Session is proved to implement:
\* tasks are added only to a session that is not aborted, and a connection
\* with a session is freed once, after the abort and the last task.
THEOREM SessionsKeepToLife == Spec => SessionsImplementLife
<1>1. Init => \A c \in Conns : Life(c)!Init
  BY DEF Init, Life!Init
<1>2. IoInv /\ [Next]_vars => [\A c \in Conns : [Life(c)!Next]_(Life(c)!vars)]_vars
  BY LifeStep
<1> QED
  BY <1>1, <1>2, IoInvariant, PTL DEF Spec, SessionsImplementLife
=============================================================================
