------------------------------ MODULE H3Server ------------------------------
(***************************************************************************)
(* The child processes of the server and the UDP port they compete for.    *)
(* A child opens the port in its child_init hook; one that finds it taken  *)
(* retries in a thread of its own until it gets the port or is stopped.    *)
(* Who has the port starts a listener, which may fail half way.  The hook  *)
(* h3_c1_child_stopping ends the thread and the listener.  A child that is *)
(* gone is replaced by a new one.                                          *)
(***************************************************************************)
EXTENDS Integers

CONSTANT Children

None == "none"

ASSUME ServerAssumption == None \notin Children

VARIABLES
    owner,         \* the child whose socket is bound to the port, or None
    fd,            \* udp_fd of a child: "none", "open", "closed"
    closed_twice,  \* a child closed a descriptor that was not open
    child_h3_io,   \* the child has a listener with its event thread
    child_stopping,
    mpc,           \* the child's main thread
    apc            \* its port_acquire_thread

vars == <<owner, fd, closed_twice, child_h3_io, child_stopping, mpc, apc>>

Init ==
    /\ owner = None
    /\ fd = [c \in Children |-> "none"]
    /\ closed_twice = [c \in Children |-> FALSE]
    /\ child_h3_io = [c \in Children |-> FALSE]
    /\ child_stopping = [c \in Children |-> FALSE]
    /\ mpc = [c \in Children |-> "init"]
    /\ apc = [c \in Children |-> "none"]

\* h3_socket_open: the port is taken, another error, or it is ours.  The code
\* sets neither SO_REUSEADDR nor SO_REUSEPORT, whatever its comment says
\* (h3_socket.h:29-30), so bind refuses a port that a child has.
Taken == owner # None
Opened(c) == owner' = c /\ fd' = [fd EXCEPT ![c] = "open"]
NotOpened == UNCHANGED <<owner, fd>>

\* h3_socket_close: the number of a descriptor that is closed already may be
\* that of another file by now.
h3_socket_close(c) ==
    /\ fd' = [fd EXCEPT ![c] = "closed"]
    /\ owner' = IF owner = c THEN None ELSE owner
    /\ closed_twice' = [closed_twice EXCEPT ![c] = @ \/ fd[c] # "open"]

Keep == UNCHANGED <<owner, fd, closed_twice>>

\* h3_io_listen_start fails.  Without a wakeup pair or a worker pool it just
\* returns; without an engine, the MPM's notifications or a thread it tears
\* down what it built, the socket included.  child_h3_io, set while the
\* thread is created, is NULL again.
\* Mutant: it is not cleared.
listen_start_fails_set(c) ==
    \/ Keep /\ UNCHANGED child_h3_io
    \/ h3_socket_close(c) /\ child_h3_io' = [child_h3_io EXCEPT ![c] = TRUE]
listen_start_fails(c) ==
    /\ Keep \/ h3_socket_close(c)
    /\ UNCHANGED child_h3_io

listen_start(c) ==
    /\ child_h3_io' = [child_h3_io EXCEPT ![c] = TRUE]
    /\ Keep

-----------------------------------------------------------------------------
\* A child for which no certificate and key are configured, or whose socket
\* cannot be opened, does without; a child that finds the port taken starts
\* the acquirer thread, unless that fails.
h3_child_init(c) ==
    /\ mpc[c] = "init"
    /\ \/ /\ Taken /\ NotOpened
          /\ mpc' = [mpc EXCEPT ![c] = "run"]
          /\ apc' \in {apc, [apc EXCEPT ![c] = "try"]}
       \/ /\ NotOpened
          /\ mpc' = [mpc EXCEPT ![c] = "run"] /\ UNCHANGED apc
       \/ /\ ~Taken /\ Opened(c)
          /\ mpc' = [mpc EXCEPT ![c] = "start"] /\ UNCHANGED apc
    /\ UNCHANGED <<closed_twice, child_h3_io, child_stopping>>

child_init_listen(c) ==
    /\ mpc[c] = "start"
    /\ \/ listen_start(c) /\ mpc' = [mpc EXCEPT ![c] = "run"]
       \/ listen_start_fails(c) /\ mpc' = [mpc EXCEPT ![c] = "failed"]
    /\ UNCHANGED <<child_stopping, apc>>

child_init_closes(c) ==
    /\ mpc[c] = "failed" /\ mpc' = [mpc EXCEPT ![c] = "run"]
    /\ h3_socket_close(c)
    /\ UNCHANGED <<child_h3_io, child_stopping, apc>>

(***************************************************************************)
(* port_acquire_thread_fn.                                                 *)
(***************************************************************************)
\* While the port is taken the thread sleeps and tries again.
\* Mutant: the loop does not look at child_stopping.
GivesUp_never(c) == FALSE
GivesUp(c) == child_stopping[c]

acquire_open(c) ==
    /\ apc[c] = "try" /\ ~GivesUp(c) /\ ~Taken
    /\ Opened(c) /\ apc' = [apc EXCEPT ![c] = "opened"]
    /\ UNCHANGED <<closed_twice, child_h3_io, child_stopping, mpc>>

acquire_open_fails(c) ==
    /\ apc[c] = "try" /\ ~GivesUp(c)
    /\ NotOpened /\ apc' = [apc EXCEPT ![c] = "end"]
    /\ UNCHANGED <<closed_twice, child_h3_io, child_stopping, mpc>>

acquire_stops(c) ==
    /\ \/ apc[c] = "try" /\ GivesUp(c) /\ Keep
       \/ apc[c] = "opened" /\ child_stopping[c] /\ h3_socket_close(c)
    /\ apc' = [apc EXCEPT ![c] = "end"]
    /\ UNCHANGED <<child_h3_io, child_stopping, mpc>>

acquire_goes_on(c) ==
    /\ apc[c] = "opened" /\ ~child_stopping[c]
    /\ apc' = [apc EXCEPT ![c] = "start"]
    /\ Keep /\ UNCHANGED <<child_h3_io, child_stopping, mpc>>

acquire_listen(c) ==
    /\ apc[c] = "start"
    /\ \/ listen_start(c) /\ apc' = [apc EXCEPT ![c] = "end"]
       \/ listen_start_fails(c) /\ apc' = [apc EXCEPT ![c] = "failed"]
    /\ UNCHANGED <<child_stopping, mpc>>

\* Mutant: the thread leaves the socket of a listener that failed.
acquire_closes_not(c) ==
    /\ apc[c] = "failed" /\ apc' = [apc EXCEPT ![c] = "end"]
    /\ Keep /\ UNCHANGED <<child_h3_io, child_stopping, mpc>>
acquire_closes(c) ==
    /\ apc[c] = "failed" /\ apc' = [apc EXCEPT ![c] = "end"]
    /\ h3_socket_close(c)
    /\ UNCHANGED <<child_h3_io, child_stopping, mpc>>

(***************************************************************************)
(* h3_c1_child_stopping, and the end of the process.                       *)
(***************************************************************************)
h3_c1_child_stopping(c) ==
    /\ mpc[c] = "run" /\ mpc' = [mpc EXCEPT ![c] = "join"]
    /\ child_stopping' = [child_stopping EXCEPT ![c] = TRUE]
    /\ Keep /\ UNCHANGED <<child_h3_io, apc>>

\* Mutant: the acquirer thread is not joined.
Joined_never(c) == TRUE
Joined(c) == apc[c] \in {"none", "end"}

\* Once the acquirer thread is joined the listener, if there is one, is torn
\* down.
h3_io_listen_stop(c) ==
    /\ mpc[c] = "join" /\ Joined(c)
    /\ mpc' = [mpc EXCEPT ![c] = "stopped"]
    /\ IF child_h3_io[c] THEN h3_socket_close(c) ELSE Keep
    /\ child_h3_io' = [child_h3_io EXCEPT ![c] = FALSE]
    /\ UNCHANGED <<child_stopping, apc>>

\* The process exits, and the MPM may start another in its place.
child_exits(c) ==
    /\ mpc[c] = "stopped"
    /\ owner' = IF owner = c THEN None ELSE owner
    /\ fd' = [fd EXCEPT ![c] = "none"]
    /\ closed_twice' = [closed_twice EXCEPT ![c] = FALSE]
    /\ child_h3_io' = [child_h3_io EXCEPT ![c] = FALSE]
    /\ child_stopping' = [child_stopping EXCEPT ![c] = FALSE]
    /\ mpc' = [mpc EXCEPT ![c] = "init"]
    /\ apc' = [apc EXCEPT ![c] = "none"]

ThreadNext(c) == \/ h3_child_init(c) \/ child_init_listen(c)
                 \/ child_init_closes(c)
                 \/ h3_io_listen_stop(c) \/ child_exits(c)
AcquirerNext(c) == \/ acquire_open(c) \/ acquire_stops(c)
                   \/ acquire_goes_on(c) \/ acquire_listen(c)
                   \/ acquire_closes(c)

Next == \E c \in Children : \/ ThreadNext(c) \/ AcquirerNext(c)
                            \/ acquire_open_fails(c)
                            \/ h3_c1_child_stopping(c)

Spec == Init /\ [][Next]_vars

-----------------------------------------------------------------------------
(***************************************************************************)
(* Properties.                                                             *)
(***************************************************************************)

\* Every variable has its type.
TypeOK ==
    /\ owner \in Children \cup {None}
    /\ fd \in [Children -> {"none", "open", "closed"}]
    /\ closed_twice \in [Children -> BOOLEAN]
    /\ child_h3_io \in [Children -> BOOLEAN]
    /\ child_stopping \in [Children -> BOOLEAN]
    /\ mpc \in [Children -> {"init", "start", "failed", "run", "join", "stopped"}]
    /\ apc \in [Children -> {"none", "try", "opened", "start", "failed", "end"}]

\* The socket under a listener is open, and no thread of the child is left that
\* would close it: only the stop hook does, and ends the listener with it.
\* Neither a start that fails half way, nor the close its caller repeats, nor
\* the acquirer thread takes the socket away from a listener.
ListenerKeepsSocket ==
    \A c \in Children :
        child_h3_io[c] => /\ fd[c] = "open"
                          /\ mpc[c] \notin {"start", "failed"}
                          /\ apc[c] \notin {"opened", "start", "failed"}

\* The port is held only by a child that listens, is about to, or is about to
\* give it up: one whose listener failed does not keep it from the others.
PortIsUsed ==
    \A c \in Children : owner = c => \/ child_h3_io[c]
                                     \/ mpc[c] \in {"start", "failed"}
                                     \/ apc[c] \in {"opened", "start", "failed"}

\* When the stop hook returns no listener, no socket and no acquirer thread of
\* the child is left, even if the port was won while the child was stopping.
StoppedIsClean ==
    \A c \in Children :
        mpc[c] = "stopped" => /\ ~child_h3_io[c] /\ fd[c] # "open"
                              /\ apc[c] \in {"none", "end"}

\* What the steps preserve: a socket is open exactly when it holds the port,
\* and where each thread may be when it is, or when there is a listener.
ServerInv ==
    \A c \in Children :
        /\ fd[c] = "open" <=> owner = c
        /\ mpc[c] \in {"init", "start", "failed"} =>
               apc[c] = "none" /\ ~child_h3_io[c]
        /\ mpc[c] = "init" => fd[c] # "open"
        /\ mpc[c] = "start" => fd[c] = "open"
        /\ apc[c] = "try" => fd[c] # "open"
        /\ apc[c] \in {"opened", "start"} => fd[c] = "open"
        /\ apc[c] \in {"try", "opened", "start", "failed"} =>
               mpc[c] \in {"run", "join"} /\ ~child_h3_io[c]
        /\ child_h3_io[c] => fd[c] = "open" /\ mpc[c] \in {"run", "join"}
        /\ fd[c] = "open" => \/ child_h3_io[c]
                             \/ mpc[c] \in {"start", "failed"}
                             \/ apc[c] \in {"opened", "start", "failed"}

\* "Descriptor to close; already known to be valid." (h3_socket_os_close)
ClosedOnce ==
    \A c \in Children : ~closed_twice[c]

-----------------------------------------------------------------------------
\* Both threads of a child run; that opening the socket fails, or that the
\* child is stopped, need never happen.
Fairness == \A c \in Children : WF_vars(ThreadNext(c)) /\ WF_vars(AcquirerNext(c))

FairSpec == Spec /\ Fairness

\* The stop hook returns: joining the acquirer thread does not block for ever.
StopReturns ==
    \A c \in Children : child_stopping[c] ~> (mpc[c] = "stopped")
=============================================================================
