-------------------------------- MODULE H3Io --------------------------------
(***************************************************************************)
(* The QUIC listener of a child process: the event thread's loop over the  *)
(* arrays of pending handshakes and of active sessions, and the thread     *)
(* that stops the child and tears the listener down.                       *)
(*                                                                         *)
(* The arrays are sequences and are changed as the code does it: an entry  *)
(* is removed by moving the last one into its place, while an index walks  *)
(* the array.  A session is named by its connection; what happens inside   *)
(* one is H3Session's business, here it has tasks and may be aborted.      *)
(***************************************************************************)
EXTENDS Integers, Sequences, FiniteSets

CONSTANTS
    Conns,           \* QUIC connections peers open
    MaxConnections,  \* H3MaxConnections
    MaxTasks         \* bound: requests a session has in flight

ASSUME IoAssumption ==
    /\ IsFiniteSet(Conns)
    /\ MaxConnections \in Nat \ {0}
    /\ MaxTasks \in Nat

VARIABLES
    \* h3_io_t
    pending_handshakes, active_sessions, active_session_count,
    thread_running,
    notes,          \* note_conn_added calls minus note_conn_removed calls
    pool_up, engine_up, fd_open,
    \* the connections: QUIC's side of them (external), and their sessions
    arrived,        \* in the engine's accept queue
    established,    \* handshake done
    closed,         \* closed by the peer, an error or the idle timeout
    freed,          \* how often h3q_conn_free was called
    aborted,
    goaway,         \* goaway_deadline is set
    tasks,          \* session->active_tasks
    \* the event thread and the stopping thread
    epc, i, seen, tpc

tableVars == <<pending_handshakes, active_sessions, active_session_count, notes>>
ioVars    == <<thread_running, pool_up, engine_up, fd_open>>
netVars   == <<arrived, established, closed>>
sessVars  == <<aborted, goaway, tasks>>
vars == <<tableVars, ioVars, netVars, freed, sessVars, epc, i, seen, tpc>>

Entries(a) == {a[k] : k \in 1..Len(a)}

\* An array without its k-th entry.
\* Mutant: the count of entries is not lowered.
SwapRemove_keep(a, k) == [a EXCEPT ![k] = a[Len(a)]]
SwapRemove(a, k) == SubSeq([a EXCEPT ![k] = a[Len(a)]], 1, Len(a) - 1)

Init ==
    /\ pending_handshakes = <<>> /\ active_sessions = <<>>
    /\ active_session_count = 0 /\ notes = 0
    /\ thread_running = TRUE /\ pool_up = TRUE /\ engine_up = TRUE
    /\ fd_open = TRUE
    /\ arrived = {} /\ established = {} /\ closed = {}
    /\ freed = [c \in Conns |-> 0]
    /\ aborted = {} /\ goaway = {} /\ tasks = [c \in Conns |-> 0]
    /\ epc = "loop" /\ i = 1 /\ seen = {} /\ tpc = "up"

-----------------------------------------------------------------------------
(***************************************************************************)
(* The peers and the workers.                                              *)
(***************************************************************************)
Known(c) == c \in Entries(pending_handshakes) \cup Entries(active_sessions)

peer_connects(c) ==
    /\ engine_up /\ c \notin arrived /\ freed[c] = 0 /\ ~Known(c)
    /\ arrived' = arrived \cup {c}
    /\ UNCHANGED <<established, closed, tableVars, ioVars, freed, sessVars, epc,
                   i, seen, tpc>>

conn_progresses(c) ==
    /\ Known(c)
    /\ \/ c \notin established /\ established' = established \cup {c}
          /\ UNCHANGED closed
       \/ c \notin closed /\ closed' = closed \cup {c}
          /\ UNCHANGED established
    /\ UNCHANGED <<arrived, tableVars, ioVars, freed, sessVars, epc, i, seen,
                   tpc>>

worker_returns(c) ==
    /\ tasks[c] > 0 /\ tasks' = [tasks EXCEPT ![c] = @ - 1]
    /\ UNCHANGED <<tableVars, ioVars, netVars, freed, aborted, goaway, epc, i,
                   seen, tpc>>

-----------------------------------------------------------------------------
(***************************************************************************)
(* The event thread.                                                       *)
(***************************************************************************)
\* The condition of the outer loop; then wait_for_event and the pump, which
\* change nothing here.  Mutant: the sessions are not waited for.
KeepsLooping_rash == thread_running
KeepsLooping == thread_running \/ active_sessions # <<>>

loop_condition ==
    /\ epc = "loop"
    /\ epc' = IF KeepsLooping THEN "polled" ELSE "exit"
    /\ UNCHANGED <<tableVars, ioVars, netVars, freed, sessVars, i, seen, tpc>>

\* New connections and handshakes are looked after only while not stopping.
\* Mutant: neither are the sessions.
Stage_idle == IF thread_running THEN "accept" ELSE "loop"
Stage == IF thread_running THEN "accept" ELSE "sessions"

test_running ==
    /\ epc = "polled" /\ epc' = Stage
    /\ i' = 1 /\ seen' = {}
    /\ UNCHANGED <<tableVars, ioVars, netVars, freed, sessVars, tpc>>

Free(c) == freed' = [freed EXCEPT ![c] = @ + 1]

\* Mutant: handshakes in progress do not count.
h3_io_at_sessions_limit == Len(active_sessions) >= MaxConnections
h3_io_at_connection_limit ==
    Len(active_sessions) + Len(pending_handshakes) >= MaxConnections

\* A connection is taken from the engine: dropped at the limit, dropped when
\* h3q_conn_prepare fails, else entered among the pending handshakes.
accept_connection(c) ==
    /\ epc = "accept" /\ c \in arrived
    /\ arrived' = arrived \ {c}
    /\ \/ Free(c) /\ UNCHANGED pending_handshakes
       \/ /\ ~h3_io_at_connection_limit
          /\ pending_handshakes' = Append(pending_handshakes, c)
          /\ UNCHANGED freed
    /\ UNCHANGED <<active_sessions, active_session_count, notes, ioVars,
                   established, closed, sessVars, epc, i, seen, tpc>>

\* The engine has no more connections now.
accept_end ==
    /\ epc = "accept" /\ epc' = "handshakes"
    /\ UNCHANGED <<tableVars, ioVars, netVars, freed, sessVars, i, seen, tpc>>

(***************************************************************************)
(* progress_pending_handshakes, an entry at a time.                        *)
(***************************************************************************)
\* The index after an entry was removed, and after it was kept.
\* Mutant: removal moves on too, past the entry that was swapped in.
AfterRemoval_skips == i + 1
AfterRemoval == i

AtHandshake(c) == /\ epc = "handshakes" /\ i <= Len(pending_handshakes)
                  /\ c = pending_handshakes[i]
                  /\ seen' = seen \cup {c}

\* Timed out, which may be at any time, or closed before it was done.
\* Mutant: there is no timeout.
Fails_ifclosed(c) == c \in closed
Fails(c) == TRUE

handshake_fails(c) ==
    /\ AtHandshake(c) /\ Fails(c)
    /\ Free(c)
    /\ pending_handshakes' = SwapRemove(pending_handshakes, i)
    /\ i' = AfterRemoval
    /\ UNCHANGED <<active_sessions, active_session_count, notes, ioVars,
                   netVars, sessVars, epc, tpc>>

CountUp == active_session_count + 1

\* spawn_serviced_session: the session is entered, or one of the steps on the
\* way fails, and each of them frees the connection.
spawn_serviced_session(c) ==
    /\ AtHandshake(c) /\ c \in established \ closed
    /\ pending_handshakes' = SwapRemove(pending_handshakes, i)
    /\ i' = AfterRemoval
    /\ \/ /\ active_sessions' = Append(active_sessions, c)
          /\ active_session_count' = CountUp
          /\ notes' = notes + 1
          /\ UNCHANGED freed
       \/ Free(c) /\ UNCHANGED <<active_sessions, active_session_count, notes>>
    /\ UNCHANGED <<ioVars, netVars, sessVars, epc, tpc>>

handshake_goes_on(c) ==
    /\ AtHandshake(c) /\ c \notin established \cup closed
    /\ i' = i + 1
    /\ UNCHANGED <<tableVars, ioVars, netVars, freed, sessVars, epc, tpc>>

handshakes_end ==
    /\ epc = "handshakes" /\ i > Len(pending_handshakes)
    /\ epc' = "sessions" /\ i' = 1 /\ seen' = {}
    /\ UNCHANGED <<tableVars, ioVars, netVars, freed, sessVars, tpc>>

(***************************************************************************)
(* The loop over the sessions: a pass, then the end of an aborted session. *)
(***************************************************************************)
AtSession(c) == epc = "sessions" /\ i <= Len(active_sessions)
                    /\ c = active_sessions[i]

\* service_session_pass.  While stopping it sends a GOAWAY once.  The session
\* is aborted when that is drained or its grace period over, when QUIC closed
\* the connection, or when nghttp3 failed; else requests may be dispatched.
service_session_pass(c) ==
    /\ AtSession(c) /\ epc' = "reap" /\ seen' = seen \cup {c}
    /\ \/ c \in aborted /\ UNCHANGED sessVars
       \/ /\ c \notin aborted
          /\ goaway' = IF thread_running THEN goaway ELSE goaway \cup {c}
          /\ \/ aborted' = aborted \cup {c} /\ UNCHANGED tasks
             \/ /\ c \notin closed /\ UNCHANGED aborted
                /\ \E n \in tasks[c]..MaxTasks : tasks' = [tasks EXCEPT ![c] = n]
    /\ UNCHANGED <<tableVars, ioVars, netVars, freed, i, tpc>>

\* The session goes on, or waits for h3q_conn_shutdown or its tasks.
session_stays ==
    /\ epc = "reap" /\ epc' = "sessions" /\ i' = i + 1
    /\ UNCHANGED <<tableVars, ioVars, netVars, freed, sessVars, seen, tpc>>

\* The session may be destroyed.
Idle(c) == c \in aborted /\ tasks[c] = 0

\* Mutant: the MPM is not told.
Unnoted_silent == notes
Unnoted == notes - 1

h3_session_destroy ==
    /\ epc = "reap" /\ epc' = "sessions"
    /\ Idle(active_sessions[i]) /\ Free(active_sessions[i])
    /\ active_sessions' = SwapRemove(active_sessions, i)
    /\ active_session_count' = active_session_count - 1 /\ notes' = Unnoted
    /\ i' = AfterRemoval
    /\ UNCHANGED <<pending_handshakes, ioVars, netVars, sessVars, seen, tpc>>

sessions_end ==
    /\ epc = "sessions" /\ i > Len(active_sessions)
    /\ epc' = "loop" /\ i' = 1 /\ seen' = {}
    /\ UNCHANGED <<tableVars, ioVars, netVars, freed, sessVars, tpc>>

\* After the loop, handshakes that never finished are freed.
free_pending ==
    /\ epc = "exit" /\ pending_handshakes # <<>>
    /\ Free(pending_handshakes[1])
    /\ pending_handshakes' = SwapRemove(pending_handshakes, 1)
    /\ UNCHANGED <<active_sessions, active_session_count, notes, ioVars,
                   netVars, sessVars, epc, i, seen, tpc>>

event_thread_exits ==
    /\ epc = "exit" /\ pending_handshakes = <<>> /\ epc' = "gone"
    /\ UNCHANGED <<tableVars, ioVars, netVars, freed, sessVars, i, seen, tpc>>

-----------------------------------------------------------------------------
(***************************************************************************)
(* teardown, called by the thread that stops the child.                    *)
(***************************************************************************)
teardown_stop ==
    /\ tpc = "up" /\ tpc' = "join" /\ thread_running' = FALSE
    /\ UNCHANGED <<pool_up, engine_up, fd_open, tableVars, netVars, freed,
                   sessVars, epc, i, seen>>

teardown_join ==
    /\ tpc = "join" /\ epc = "gone" /\ tpc' = "drain" /\ pool_up' = FALSE
    /\ UNCHANGED <<thread_running, engine_up, fd_open, tableVars, netVars,
                   freed, sessVars, epc, i, seen>>

\* It sleeps until no session is left, then destroys the engine and closes
\* the socket.
teardown_finish ==
    /\ tpc = "drain" /\ active_sessions = <<>>
    /\ tpc' = "down" /\ engine_up' = FALSE /\ fd_open' = FALSE
    /\ arrived' = {}
    /\ UNCHANGED <<thread_running, pool_up, tableVars, established, closed,
                   freed, sessVars, epc, i, seen>>

Down == tpc = "down" /\ UNCHANGED vars

-----------------------------------------------------------------------------
EventNext ==
    \/ loop_condition \/ test_running \/ accept_end \/ handshakes_end
    \/ session_stays \/ h3_session_destroy \/ sessions_end
    \/ free_pending \/ event_thread_exits
    \/ \E c \in Conns : \/ accept_connection(c) \/ handshake_fails(c)
                         \/ spawn_serviced_session(c) \/ handshake_goes_on(c)
                         \/ service_session_pass(c)

TeardownNext == teardown_join \/ teardown_finish

Next == \/ EventNext \/ teardown_stop \/ TeardownNext \/ Down
        \/ \E c \in Conns : \/ peer_connects(c) \/ conn_progresses(c)
                             \/ worker_returns(c)

Spec == Init /\ [][Next]_vars

-----------------------------------------------------------------------------
(***************************************************************************)
(* Properties.                                                             *)
(***************************************************************************)

\* Every variable has its type.
TypeOK ==
    /\ pending_handshakes \in Seq(Conns) /\ active_sessions \in Seq(Conns)
    /\ active_session_count \in Int /\ notes \in Int
    /\ thread_running \in BOOLEAN /\ pool_up \in BOOLEAN
    /\ engine_up \in BOOLEAN /\ fd_open \in BOOLEAN
    /\ arrived \subseteq Conns /\ established \subseteq Conns
    /\ closed \subseteq Conns /\ aborted \subseteq Conns
    /\ goaway \subseteq Conns /\ seen \subseteq Conns
    /\ freed \in [Conns -> Nat] /\ tasks \in [Conns -> 0..MaxTasks]
    /\ epc \in {"loop", "polled", "accept", "handshakes", "sessions", "reap",
                "exit", "gone"}
    /\ i \in Nat \ {0} /\ tpc \in {"up", "join", "drain", "down"}

\* Handshakes and sessions together never exceed H3MaxConnections.
WithinLimit ==
    Len(active_sessions) + Len(pending_handshakes) <= MaxConnections

\* How often an array holds a connection.
Times(a, c) == Cardinality({k \in 1..Len(a) : a[k] = c})

\* A connection is in one place: the accept queue, the handshakes or the
\* sessions.  It leaves them when it is freed, which happens once, on whichever
\* of the failure paths, by the timeout or with its session, and never while
\* tasks of the session are in flight.
OwnedOrFreed ==
    \A c \in Conns :
        /\ Times(pending_handshakes, c) + Times(active_sessions, c) + freed[c]
               + (IF c \in arrived THEN 1 ELSE 0) <= 1
        /\ c \in established \cup closed \cup aborted =>
               Times(pending_handshakes, c) + Times(active_sessions, c)
                   + freed[c] = 1
        /\ tasks[c] > 0 => Times(active_sessions, c) = 1

\* The MPM is told of exactly the sessions in the table, and the status page
\* shows their number.
NotesBalanced ==
    notes = Len(active_sessions) /\ active_session_count = Len(active_sessions)

\* The walk over an array that is changed under way: the entries before the
\* index are those already visited, so that a round skips none and visits none
\* twice.
Walked(a, n) == {a[k] : k \in (1..n) \cap (1..Len(a))}
RoundVisitsAll ==
    /\ epc = "handshakes" => seen \cap Entries(pending_handshakes)
                                = Walked(pending_handshakes, i - 1)
    /\ epc = "sessions" => seen \cap Entries(active_sessions)
                                = Walked(active_sessions, i - 1)

\* Tasks run only while the worker pool is up, sessions and handshakes exist
\* only while the engine is: teardown destroys nothing that is in use.
TeardownIsLast ==
    /\ ~pool_up => /\ active_sessions = <<>> /\ pending_handshakes = <<>>
                   /\ \A c \in Conns : tasks[c] = 0
    /\ ~engine_up => ~pool_up /\ epc = "gone"

\* The sessions live as H3Session says they do: SessionLife is the interface
\* between the two modules, and this is its other side.
Life(c) == INSTANCE SessionLife
    WITH tasks <- tasks[c], aborted <- (c \in aborted),
         gone <- (c \in aborted /\ freed[c] > 0)
SessionsImplementLife ==
    /\ \A c \in Conns : Life(c)!Init
    /\ [][\A c \in Conns : [Life(c)!Next]_(Life(c)!vars)]_vars

-----------------------------------------------------------------------------
(***************************************************************************)
(* Fairness.  The event thread, the workers and the stopping thread are    *)
(* scheduled.  A handshake finally times out, a GOAWAY's grace period ends *)
(* and a QUIC connection that is shut down in round after round is closed. *)
(***************************************************************************)
Fairness ==
    /\ WF_vars(EventNext) /\ WF_vars(TeardownNext)
    /\ SF_vars(h3_session_destroy)
    /\ \A c \in Conns :
          /\ WF_vars(worker_returns(c))
          /\ SF_vars(handshake_fails(c))
          /\ SF_vars(service_session_pass(c) /\ ~thread_running
                        /\ aborted' # aborted)

FairSpec == Spec /\ Fairness

\* Stopping the child always comes to an end.
StopTerminates == ~thread_running ~> tpc = "down"

\* No handshake stays pending for ever.
HandshakeSettles ==
    \A c \in Conns : c \in Entries(pending_handshakes)
                        ~> c \notin Entries(pending_handshakes)
=============================================================================
