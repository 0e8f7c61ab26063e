------------------------------ MODULE TaskPool ------------------------------
(***************************************************************************)
(* What ThreadPool (include/thread/ThreadPool.h) promises to its callers,  *)
(* without threads, mutex or condition variable: a bounded FIFO of tasks,  *)
(* each accepted task started once and in order of acceptance, refused     *)
(* tasks never started, and a close that completes only when every         *)
(* accepted task has finished.                                             *)
(***************************************************************************)
EXTENDS Naturals, Sequences

CONSTANTS Tasks,         \* identities of the submissions
          MaxQueueSize   \* capacity of the queue

VARIABLES queue,    \* accepted tasks nobody has started
          running,  \* started, not finished
          done,     \* finished, whether they returned or threw
          refused,  \* submissions answered with false
          phase     \* "open" accepts, "closing" drains, "closed" is over

vars == <<queue, running, done, refused, phase>>

Init ==
  /\ queue = <<>>
  /\ running = {}
  /\ done = {}
  /\ refused = {}
  /\ phase = "open"

Queued == {queue[i] : i \in DOMAIN queue}
Fresh(t) == t \notin Queued \cup running \cup done \cup refused

Accept(t) ==
  /\ phase = "open"
  /\ Fresh(t)
  /\ Len(queue) < MaxQueueSize
  /\ queue' = Append(queue, t)
  /\ UNCHANGED <<running, done, refused, phase>>

Refuse(t) ==
  /\ phase # "open" \/ Len(queue) = MaxQueueSize
  /\ Fresh(t)
  /\ refused' = refused \cup {t}
  /\ UNCHANGED <<queue, running, done, phase>>

Start ==
  /\ phase # "closed"
  /\ queue # <<>>
  /\ running' = running \cup {Head(queue)}
  /\ queue' = Tail(queue)
  /\ UNCHANGED <<done, refused, phase>>

Finish(t) ==
  /\ t \in running
  /\ running' = running \ {t}
  /\ done' = done \cup {t}
  /\ UNCHANGED <<queue, refused, phase>>

Close ==
  /\ phase = "open"
  /\ phase' = "closing"
  /\ UNCHANGED <<queue, running, done, refused>>

Closed ==
  /\ phase = "closing"
  /\ queue = <<>>
  /\ running = {}
  /\ phase' = "closed"
  /\ UNCHANGED <<queue, running, done, refused>>

Next ==
  \/ \E t \in Tasks : Accept(t) \/ Refuse(t) \/ Finish(t)
  \/ Start
  \/ Close
  \/ Closed

Spec == Init /\ [][Next]_vars
=============================================================================
