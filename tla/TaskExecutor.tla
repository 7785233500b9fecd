---------------------------- MODULE TaskExecutor ----------------------------
(***************************************************************************)
(* What ThreadPool promises to those who submit tasks, without threads,    *)
(* locks or condition variables: tasks are started in the order of their   *)
(* submission, each at most once; closing the executor starts no further   *)
(* task, and ending it drops those not started, never one that runs.       *)
(***************************************************************************)
EXTENDS Naturals, Sequences

CONSTANT Tasks

VARIABLES backlog,  \* submitted tasks, not started
          status,   \* what has become of each task
          closed    \* no task is started any more

evars == <<backlog, status, closed>>

EInit == /\ backlog = <<>>
         /\ status = [t \in Tasks |-> "none"]
         /\ closed = FALSE

Submit(t) == /\ status[t] = "none"
             /\ status' = [status EXCEPT ![t] = "queued"]
             /\ backlog' = Append(backlog, t)
             /\ UNCHANGED closed

Start == /\ ~closed
         /\ backlog # <<>>
         /\ status' = [status EXCEPT ![Head(backlog)] = "running"]
         /\ backlog' = Tail(backlog)
         /\ UNCHANGED closed

Finish(t) == /\ status[t] = "running"
             /\ status' = [status EXCEPT ![t] = "done"]
             /\ UNCHANGED <<backlog, closed>>

Close == /\ ~closed
         /\ closed' = TRUE
         /\ UNCHANGED <<backlog, status>>

\* The executor ends when nothing is running.
End == /\ closed
       /\ \A t \in Tasks : status[t] # "running"
       /\ status' = [t \in Tasks |-> IF status[t] = "queued" THEN "dropped"
                                                             ELSE status[t]]
       /\ backlog' = <<>>
       /\ UNCHANGED closed

ENext == \/ \E t \in Tasks : Submit(t) \/ Finish(t)
         \/ Start \/ Close \/ End

ESpec == EInit /\ [][ENext]_evars
=============================================================================
