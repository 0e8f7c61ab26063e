----------------------------- MODULE ThreadPool -----------------------------
(***************************************************************************)
(* The worker pool of src/thread/ThreadPool.cpp: a queue guarded by        *)
(* mutex_, a condition variable, worker threads running workerLoop(), and  *)
(* callers of trySubmit() and stop().                                      *)
(*                                                                         *)
(* A critical section of mutex_ is one action: nothing inside one blocks   *)
(* except condition_.wait, which releases the mutex atomically.  What the  *)
(* code does after unlocking (notify_one, notify_all, join, the task       *)
(* itself) are actions of their own, so other threads run in between.      *)
(***************************************************************************)
EXTENDS Naturals, Sequences

CONSTANTS Tasks,         \* one identity per call of trySubmit
          Workers,       \* the threads created by the constructor
          Callers,       \* threads calling trySubmit and stop
          MaxQueueSize   \* maxQueueSize_

(* The constructor throws on a thread count or a queue size of zero        *)
(* (ThreadPool.cpp:23-36).                                                 *)
ASSUME PoolAssumption ==
  /\ Workers # {}
  /\ MaxQueueSize \in Nat \ {0}

VARIABLES tasks,     \* tasks_, the queue
          stopping,  \* stopping_
          worker,    \* where each thread is in workerLoop()
          current,   \* the task a running worker moved out of the queue
          caller,    \* where each caller is in trySubmit() or stop()
          ctor,      \* where the constructor is
          done,      \* tasks whose call has ended
          refused    \* submissions trySubmit answered with false

vars == <<tasks, stopping, worker, current, caller, ctor, done, refused>>

WorkerStates == {"unborn", "awake", "waiting", "running", "exited"}
CallerStates == {"idle", "notifyOne", "notifyAll", "joining", "stopped", "left"}
CtorStates == {"spawning", "ready", "abort", "abortJoin", "failed"}

NoTask == "none"

Queued == {tasks[i] : i \in DOMAIN tasks}
RunningWorkers == {w \in Workers : worker[w] = "running"}
Running == {current[w] : w \in RunningWorkers}
Waiting == {w \in Workers : worker[w] = "waiting"}
Fresh(t) == t \notin Queued \cup Running \cup done \cup refused
AllExited == \A w \in Workers : worker[w] \in {"unborn", "exited"}

Init ==
  /\ tasks = <<>>
  /\ stopping = FALSE
  /\ worker = [w \in Workers |-> "unborn"]
  /\ current = [w \in Workers |-> NoTask]
  /\ caller = [c \in Callers |-> "idle"]
  /\ ctor = "spawning"
  /\ done = {}
  /\ refused = {}

-----------------------------------------------------------------------------
(* Mutants.  No behaviour of the code: each is the action it is named      *)
(* after with one plausible slip, and makes one property below fail.       *)

(* trySubmit without its first test: an empty std::function is queued.     *)
MutantSubmitEmpty(c, t) ==
  /\ ctor = "ready" /\ caller[c] = "idle" /\ Fresh(t)
  /\ ~stopping /\ Len(tasks) < MaxQueueSize
  /\ tasks' = Append(tasks, NoTask)
  /\ caller' = [caller EXCEPT ![c] = "notifyOne"]
  /\ UNCHANGED <<stopping, worker, current, ctor, done, refused>>

(* trySubmit that forgets notify_one.                                      *)
MutantSubmitSilent(c, t) ==
  /\ ctor = "ready" /\ caller[c] = "idle" /\ Fresh(t)
  /\ ~stopping /\ Len(tasks) < MaxQueueSize
  /\ tasks' = Append(tasks, t)
  /\ UNCHANGED <<stopping, worker, current, caller, ctor, done, refused>>

(* trySubmit comparing with > instead of >=.                               *)
MutantSubmitOneMore(c, t) ==
  /\ ctor = "ready" /\ caller[c] = "idle" /\ Fresh(t)
  /\ ~stopping /\ Len(tasks) <= MaxQueueSize
  /\ tasks' = Append(tasks, t)
  /\ caller' = [caller EXCEPT ![c] = "notifyOne"]
  /\ UNCHANGED <<stopping, worker, current, ctor, done, refused>>

(* stop() calling notify_one where it must call notify_all.                *)
MutantNotifyAllOne(c) ==
  /\ caller[c] = "notifyAll"
  /\ caller' = [caller EXCEPT ![c] = "joining"]
  /\ \/ \E w \in Waiting : worker' = [worker EXCEPT ![w] = "awake"]
     \/ Waiting = {} /\ UNCHANGED worker
  /\ UNCHANGED <<tasks, stopping, current, ctor, done, refused>>

(* A wait predicate that forgets stopping_.                                *)
MutantWaitDeaf(w) ==
  /\ worker[w] = "awake"
  /\ tasks = <<>>
  /\ worker' = [worker EXCEPT ![w] = "waiting"]
  /\ UNCHANGED <<tasks, stopping, current, caller, ctor, done, refused>>

(* A task's exception leaving workerLoop(), as without the catch clauses   *)
(* (short of std::terminate).                                              *)
MutantEndEscapes(w) ==
  /\ worker[w] = "running"
  /\ done' = done \cup {current[w]}
  /\ current' = [current EXCEPT ![w] = NoTask]
  /\ worker' = [worker EXCEPT ![w] = "exited"]
  /\ UNCHANGED <<tasks, stopping, caller, ctor, refused>>

-----------------------------------------------------------------------------
(* Constructor: one emplace_back per thread; when one throws, the threads  *)
(* already created are told to stop, woken, joined, and the exception goes *)
(* on to the caller.                                                       *)

Spawn(w) ==
  /\ ctor = "spawning"
  /\ worker[w] = "unborn"
  /\ worker' = [worker EXCEPT ![w] = "awake"]
  /\ ctor' = IF \A v \in Workers \ {w} : worker[v] # "unborn"
             THEN "ready" ELSE "spawning"
  /\ UNCHANGED <<tasks, stopping, current, caller, done, refused>>

SpawnFails ==
  /\ ctor = "spawning"
  /\ stopping' = TRUE
  /\ ctor' = "abort"
  /\ UNCHANGED <<tasks, worker, current, caller, done, refused>>

WakeAll == [w \in Workers |-> IF worker[w] = "waiting" THEN "awake" ELSE worker[w]]

AbortNotify ==
  /\ ctor = "abort"
  /\ worker' = WakeAll
  /\ ctor' = "abortJoin"
  /\ UNCHANGED <<tasks, stopping, current, caller, done, refused>>

AbortJoin ==
  /\ ctor = "abortJoin"
  /\ AllExited
  /\ ctor' = "failed"
  /\ UNCHANGED <<tasks, stopping, worker, current, caller, done, refused>>

-----------------------------------------------------------------------------
(* trySubmit(): the critical section answers false when the pool is        *)
(* stopping or the queue is full, else pushes; notify_one comes after the  *)
(* unlock.                                                                 *)

TrySubmit(c, t) ==
  /\ ctor = "ready"
  /\ caller[c] = "idle"
  /\ Fresh(t)
  /\ \/ /\ stopping \/ Len(tasks) >= MaxQueueSize
        /\ refused' = refused \cup {t}
        /\ UNCHANGED <<tasks, caller>>
     \/ /\ ~stopping
        /\ Len(tasks) < MaxQueueSize
        /\ tasks' = Append(tasks, t)
        /\ caller' = [caller EXCEPT ![c] = "notifyOne"]
        /\ UNCHANGED refused
  /\ UNCHANGED <<stopping, worker, current, ctor, done>>

(* notify_one wakes one waiting thread, whichever, or nobody.              *)
NotifyOne(c) ==
  /\ caller[c] = "notifyOne"
  /\ caller' = [caller EXCEPT ![c] = "idle"]
  /\ \/ \E w \in Waiting : worker' = [worker EXCEPT ![w] = "awake"]
     \/ Waiting = {} /\ UNCHANGED worker
  /\ UNCHANGED <<tasks, stopping, current, ctor, done, refused>>

-----------------------------------------------------------------------------
(* stop(), also called by the destructor: set stopping_, notify_all, join  *)
(* every worker.  A second call returns at once, without joining.          *)

Stop(c) ==
  /\ ctor = "ready"
  /\ caller[c] = "idle"
  /\ stopping' = TRUE
  /\ caller' = [caller EXCEPT ![c] = IF stopping THEN "left" ELSE "notifyAll"]
  /\ UNCHANGED <<tasks, worker, current, ctor, done, refused>>

NotifyAll(c) ==
  /\ caller[c] = "notifyAll"
  /\ caller' = [caller EXCEPT ![c] = "joining"]
  /\ worker' = WakeAll
  /\ UNCHANGED <<tasks, stopping, current, ctor, done, refused>>

Join(c) ==
  /\ caller[c] = "joining"
  /\ AllExited
  /\ caller' = [caller EXCEPT ![c] = "stopped"]
  /\ UNCHANGED <<tasks, stopping, worker, current, ctor, done, refused>>

-----------------------------------------------------------------------------
(* workerLoop(): under the lock the predicate of condition_.wait is        *)
(* evaluated first, then again after each wake-up.                         *)

Wait(w) ==
  /\ worker[w] = "awake"
  /\ ~stopping
  /\ tasks = <<>>
  /\ worker' = [worker EXCEPT ![w] = "waiting"]
  /\ UNCHANGED <<tasks, stopping, current, caller, ctor, done, refused>>

Take(w) ==
  /\ worker[w] = "awake"
  /\ tasks # <<>>
  /\ tasks' = Tail(tasks)
  /\ current' = [current EXCEPT ![w] = Head(tasks)]
  /\ worker' = [worker EXCEPT ![w] = "running"]
  /\ UNCHANGED <<stopping, caller, ctor, done, refused>>

Exit(w) ==
  /\ worker[w] = "awake"
  /\ stopping
  /\ tasks = <<>>
  /\ worker' = [worker EXCEPT ![w] = "exited"]
  /\ UNCHANGED <<tasks, stopping, current, caller, ctor, done, refused>>

(* task() returned or threw: both catch clauses lead back to the loop.     *)
EndTask(w) ==
  /\ worker[w] = "running"
  /\ done' = done \cup {current[w]}
  /\ current' = [current EXCEPT ![w] = NoTask]
  /\ worker' = [worker EXCEPT ![w] = "awake"]
  /\ UNCHANGED <<tasks, stopping, caller, ctor, refused>>

(* A condition variable may wake a waiter that nobody notified.            *)
SpuriousWake(w) ==
  /\ worker[w] = "waiting"
  /\ worker' = [worker EXCEPT ![w] = "awake"]
  /\ UNCHANGED <<tasks, stopping, current, caller, ctor, done, refused>>

-----------------------------------------------------------------------------
(* The pool is gone: nothing is left to do, which is not a deadlock.       *)
Gone ==
  /\ \/ ctor = "failed"
     \/ /\ AllExited
        /\ \A c \in Callers : caller[c] \in {"stopped", "left"}
  /\ UNCHANGED vars

WorkerStep(w) == Wait(w) \/ Take(w) \/ Exit(w) \/ EndTask(w)
CallerStep(c) == NotifyOne(c) \/ NotifyAll(c) \/ Join(c)
CtorStep == (\E w \in Workers : Spawn(w)) \/ AbortNotify \/ AbortJoin

Next ==
  \/ \E w \in Workers : Spawn(w)
  \/ SpawnFails \/ AbortNotify \/ AbortJoin
  \/ \E c \in Callers :
       \/ \E t \in Tasks : TrySubmit(c, t)
       \/ NotifyOne(c) \/ Stop(c) \/ NotifyAll(c) \/ Join(c)
  \/ \E w \in Workers :
       \/ Wait(w) \/ Take(w) \/ Exit(w) \/ EndTask(w)
       \/ SpuriousWake(w)
  \/ Gone

Spec == Init /\ [][Next]_vars

(* Every thread is scheduled and every task ends; nobody is obliged to     *)
(* submit or to stop, and spurious wake-ups are not relied upon.           *)
FairSpec ==
  /\ Spec
  /\ WF_vars(CtorStep)
  /\ \A w \in Workers : WF_vars(WorkerStep(w))
  /\ \A c \in Callers : WF_vars(CallerStep(c))

-----------------------------------------------------------------------------
TypeOK ==
  /\ tasks \in Seq(Tasks)
  /\ stopping \in BOOLEAN
  /\ worker \in [Workers -> WorkerStates]
  /\ current \in [Workers -> Tasks \cup {NoTask}]
  /\ caller \in [Callers -> CallerStates]
  /\ ctor \in CtorStates
  /\ done \subseteq Tasks
  /\ refused \subseteq Tasks

(* No lost wake-up (notify_one after the unlock, ThreadPool.cpp:139): with *)
(* a task in the queue, some worker is on its way to look at it, or a      *)
(* caller is about to notify.                                              *)
NoLostWakeup ==
  tasks # <<>> => \/ \E w \in Workers : worker[w] \in {"awake", "running"}
                  \/ \E c \in Callers : caller[c] = "notifyOne"

(* Nobody sleeps through the shutdown (stopping_ then notify_all,          *)
(* ThreadPool.cpp:165-170 and :66-71): once stopping_ is set, a waiting    *)
(* worker still has a notify_all coming.                                   *)
NoSleepThroughStop ==
  stopping => \/ Waiting = {}
              \/ ctor = "abort"
              \/ \E c \in Callers : caller[c] = "notifyAll"

(* A worker never leaves work behind (ThreadPool.cpp:251-254): when one    *)
(* has exited the queue is empty and no task can be accepted any more, so  *)
(* the caller that joined finds every accepted task ended.                 *)
DrainedOnExit ==
  /\ (\E w \in Workers : worker[w] = "exited") => stopping /\ tasks = <<>>
  /\ (\E c \in Callers : caller[c] = "stopped") =>
       Queued = {} /\ Running = {}

(* One submission is one execution (trySubmit's answer and the move out of *)
(* tasks_): a task is at one place only, and a refused one runs nowhere.   *)
AtMostOnce ==
  /\ \A i, j \in DOMAIN tasks : tasks[i] = tasks[j] => i = j
  /\ \A v, w \in RunningWorkers : current[v] = current[w] => v = w
  /\ Queued \cap (Running \cup done \cup refused) = {}
  /\ Running \cap (done \cup refused) = {}
  /\ done \cap refused = {}

(* The abstract pool: FIFO, bounded, drained before it is closed.          *)
Phase ==
  IF ctor = "failed" \/ \E c \in Callers : caller[c] = "stopped"
  THEN "closed"
  ELSE IF stopping THEN "closing" ELSE "open"

Abstract == INSTANCE TaskPool
              WITH queue <- tasks, running <- Running, phase <- Phase

(* Safety half of the promise of ThreadPool.h:38-51.                       *)
ImplementsTaskPool == Abstract!Spec

(* An accepted task is executed, whoever stops the pool meanwhile          *)
(* (ThreadPool.h:40-41 "task accepted").                                   *)
AcceptedRuns == \A t \in Tasks : (t \in Queued) ~> (t \in done)

(* stop() returns: every worker is woken and joined (ThreadPool.h:50       *)
(* "Gracefully stop workers").                                             *)
StopReturns == \A c \in Callers : (caller[c] = "notifyAll") ~> (caller[c] = "stopped")
=============================================================================
