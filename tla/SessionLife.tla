---------------------------- MODULE SessionLife ----------------------------
(***************************************************************************)
(* What the event thread's loop over the sessions relies on of one of      *)
(* them, and what a session grants: tasks are added only while it is       *)
(* serviced and not aborted, an abort is final, and it is destroyed once,  *)
(* when it is aborted and its last task has returned.  Nothing happens to  *)
(* a session that is gone.                                                 *)
(***************************************************************************)
EXTENDS Integers

VARIABLES tasks,    \* tasks in flight
          aborted, gone

vars == <<tasks, aborted, gone>>

Init == tasks = 0 /\ aborted = FALSE /\ gone = FALSE

\* A pass hands tasks to the worker pool.
Dispatch == /\ ~aborted /\ ~gone
            /\ tasks' \in Nat /\ tasks' > tasks
            /\ UNCHANGED <<aborted, gone>>

\* A task is over, or could not be pushed.
Return == /\ ~gone /\ tasks > 0 /\ tasks' = tasks - 1
          /\ UNCHANGED <<aborted, gone>>

Abort == /\ ~aborted /\ aborted' = TRUE
         /\ UNCHANGED <<tasks, gone>>

Destroy == /\ aborted /\ tasks = 0 /\ ~gone /\ gone' = TRUE
           /\ UNCHANGED <<tasks, aborted>>

Next == Dispatch \/ Return \/ Abort \/ Destroy

Spec == Init /\ [][Next]_vars
=============================================================================
