-------------------------- MODULE ThreadPoolProofs --------------------------
(***************************************************************************)
(* Proofs about ThreadPool for every set of tasks, workers and callers and *)
(* every capacity.  The inductive invariant IInv adds to the properties of *)
(* ThreadPool what they rest on: which states go together in the           *)
(* constructor, the callers and the workers.                               *)
(***************************************************************************)
EXTENDS ThreadPool, CommonLemmas, TLAPS

(* A running worker holds a task (ThreadPool.cpp:258-264).                 *)
HoldsTask == \A w \in RunningWorkers : current[w] \in Tasks

(* The queue never outgrows its capacity (ThreadPool.cpp:124-128).         *)
Bounded == Len(tasks) <= MaxQueueSize

(* Until the constructor returns nobody calls trySubmit or stop; after it  *)
(* has, every thread exists; stopping_ is set before anybody notifies or   *)
(* joins, and a join has seen every worker exit.                           *)
Lifecycle ==
  /\ ctor # "ready" => /\ tasks = <<>>
                       /\ RunningWorkers = {}
                       /\ \A c \in Callers : caller[c] = "idle"
  /\ ctor = "ready" => \A w \in Workers : worker[w] # "unborn"
  /\ ctor \in {"abort", "abortJoin", "failed"} => stopping
  /\ \A c \in Callers :
       /\ caller[c] \in {"notifyAll", "joining", "stopped", "left"} => stopping
       /\ caller[c] = "stopped" => AllExited

IInv ==
  /\ TypeOK
  /\ HoldsTask
  /\ Bounded
  /\ Lifecycle
  /\ NoLostWakeup
  /\ NoSleepThroughStop
  /\ DrainedOnExit
  /\ AtMostOnce

-----------------------------------------------------------------------------
(* The initial state: an empty queue and threads still to be created.      *)
LEMMA InitInv == Init => IInv
<1> SUFFICES ASSUME Init PROVE IInv
  OBVIOUS
<1> USE DEF Init
<1>1. TypeOK
  <2>1. tasks \in Seq(Tasks)
    OBVIOUS
  <2>2. /\ worker \in [Workers -> WorkerStates]
        /\ current \in [Workers -> Tasks \cup {NoTask}]
        /\ caller \in [Callers -> CallerStates]
    BY DEF WorkerStates, CallerStates
  <2> QED
    BY <2>1, <2>2 DEF TypeOK, CtorStates
<1>2. RunningWorkers = {} /\ Running = {} /\ Queued = {}
  BY DEF RunningWorkers, Running, Queued
<1>3. HoldsTask /\ Bounded /\ Lifecycle
  BY <1>2, PoolAssumption DEF HoldsTask, Bounded, Lifecycle
<1>4. NoLostWakeup /\ NoSleepThroughStop
  BY DEF NoLostWakeup, NoSleepThroughStop
<1>5. DrainedOnExit
  BY <1>2 DEF DrainedOnExit
<1>6. AtMostOnce
  BY <1>2 DEF AtMostOnce
<1> QED
  BY <1>1, <1>3, <1>4, <1>5, <1>6 DEF IInv

(* Types are preserved by every step.                                      *)
LEMMA TypeStep == TypeOK /\ HoldsTask /\ [Next]_vars => TypeOK'
<1> SUFFICES ASSUME TypeOK, HoldsTask, [Next]_vars PROVE TypeOK'
  OBVIOUS
<1> USE DEF TypeOK, WorkerStates, CallerStates, CtorStates
<1>1. ASSUME NEW w \in Workers, Spawn(w) PROVE TypeOK'
  BY <1>1 DEF Spawn
<1>2. CASE SpawnFails
  BY <1>2 DEF SpawnFails
<1>3. CASE AbortNotify
  BY <1>3 DEF AbortNotify, WakeAll
<1>4. CASE AbortJoin
  BY <1>4 DEF AbortJoin
<1>5. ASSUME NEW c \in Callers, NEW t \in Tasks, TrySubmit(c, t) PROVE TypeOK'
  <2>1. tasks' \in Seq(Tasks)
    <3>1. Append(tasks, t) \in Seq(Tasks)
      BY AppendFacts
    <3> QED
      BY <1>5, <3>1 DEF TrySubmit
  <2> QED
    BY <1>5, <2>1 DEF TrySubmit
<1>6. ASSUME NEW c \in Callers, NotifyOne(c) PROVE TypeOK'
  BY <1>6 DEF NotifyOne, Waiting
<1>7. ASSUME NEW c \in Callers, Stop(c) PROVE TypeOK'
  BY <1>7 DEF Stop
<1>8. ASSUME NEW c \in Callers, NotifyAll(c) PROVE TypeOK'
  BY <1>8 DEF NotifyAll, WakeAll
<1>9. ASSUME NEW c \in Callers, Join(c) PROVE TypeOK'
  BY <1>9 DEF Join
<1>10. ASSUME NEW w \in Workers, Wait(w) PROVE TypeOK'
  BY <1>10 DEF Wait
<1>11. ASSUME NEW w \in Workers, Take(w) PROVE TypeOK'
  <2>1. Head(tasks) \in Tasks /\ Tail(tasks) \in Seq(Tasks)
    BY <1>11, TailFacts DEF Take
  <2> QED
    BY <1>11, <2>1 DEF Take
<1>12. ASSUME NEW w \in Workers, Exit(w) PROVE TypeOK'
  BY <1>12 DEF Exit
<1>13. ASSUME NEW w \in Workers, EndTask(w) PROVE TypeOK'
  <2>1. current[w] \in Tasks
    BY <1>13 DEF EndTask, HoldsTask, RunningWorkers
  <2> QED
    BY <1>13, <2>1 DEF EndTask
<1>14. ASSUME NEW w \in Workers, SpuriousWake(w) PROVE TypeOK'
  BY <1>14 DEF SpuriousWake
<1>15. CASE UNCHANGED vars
  BY <1>15 DEF vars
<1> QED
  BY <1>1, <1>2, <1>3, <1>4, <1>5, <1>6, <1>7, <1>8, <1>9, <1>10, <1>11,
     <1>12, <1>13, <1>14, <1>15 DEF Next, Gone

-----------------------------------------------------------------------------
(* What a step may do to the tasks: nothing, or it is one of the three     *)
(* that move one.                                                          *)
LEMMA DataSteps ==
  ASSUME TypeOK, [Next]_vars
  PROVE  \/ /\ UNCHANGED <<tasks, done, refused, current>>
            /\ RunningWorkers' = RunningWorkers
         \/ \E c \in Callers, t \in Tasks : TrySubmit(c, t)
         \/ \E w \in Workers : Take(w)
         \/ \E w \in Workers : EndTask(w)
<1> DEFINE Quiet == /\ UNCHANGED <<tasks, done, refused, current>>
                    /\ RunningWorkers' = RunningWorkers
<1> USE DEF RunningWorkers
<1>1. ASSUME NEW w \in Workers, Spawn(w) PROVE Quiet
  BY <1>1 DEF Spawn, TypeOK
<1>2. ASSUME SpawnFails \/ AbortJoin PROVE Quiet
  BY <1>2 DEF SpawnFails, AbortJoin
<1>3. CASE AbortNotify
  BY <1>3 DEF AbortNotify, WakeAll, TypeOK
<1>4. ASSUME NEW c \in Callers, NotifyOne(c) PROVE Quiet
  BY <1>4 DEF NotifyOne, Waiting, TypeOK
<1>5. ASSUME NEW c \in Callers, Stop(c) \/ Join(c) PROVE Quiet
  BY <1>5 DEF Stop, Join
<1>6. ASSUME NEW c \in Callers, NotifyAll(c) PROVE Quiet
  BY <1>6 DEF NotifyAll, WakeAll, TypeOK
<1>7. ASSUME NEW w \in Workers, Wait(w) PROVE Quiet
  BY <1>7 DEF Wait, TypeOK
<1>8. ASSUME NEW w \in Workers, Exit(w) PROVE Quiet
  BY <1>8 DEF Exit, TypeOK
<1>9. ASSUME NEW w \in Workers, SpuriousWake(w) PROVE Quiet
  BY <1>9 DEF SpuriousWake, TypeOK
<1>10. CASE UNCHANGED vars
  BY <1>10 DEF vars
<1> QED
  BY <1>1, <1>2, <1>3, <1>4, <1>5, <1>6, <1>7, <1>8, <1>9, <1>10
     DEF Next, Gone

(* A running worker still holds a task, and the queue stays within bounds. *)
LEMMA BoundsStep ==
  TypeOK /\ HoldsTask /\ Bounded /\ [Next]_vars => HoldsTask' /\ Bounded'
<1> SUFFICES ASSUME TypeOK, HoldsTask, Bounded, [Next]_vars
             PROVE  HoldsTask' /\ Bounded'
  OBVIOUS
<1> USE DEF HoldsTask, Bounded, RunningWorkers
<1>1. CASE /\ UNCHANGED <<tasks, done, refused, current>>
           /\ RunningWorkers' = RunningWorkers
  BY <1>1
<1>2. ASSUME NEW c \in Callers, NEW t \in Tasks, TrySubmit(c, t)
      PROVE  HoldsTask' /\ Bounded'
  <2>1. HoldsTask'
    BY <1>2 DEF TrySubmit
  <2>2. Len(Append(tasks, t)) = Len(tasks) + 1 /\ Len(tasks) \in Nat
    BY AppendFacts DEF TypeOK
  <2>3. Bounded'
    BY <1>2, <2>2, PoolAssumption DEF TrySubmit
  <2> QED
    BY <2>1, <2>3
<1>3. ASSUME NEW w \in Workers, Take(w) PROVE HoldsTask' /\ Bounded'
  <2>1. /\ Head(tasks) \in Tasks
        /\ Len(Tail(tasks)) = Len(tasks) - 1
        /\ Len(tasks) \in Nat
    BY <1>3, TailFacts DEF Take, TypeOK
  <2>2. HoldsTask'
    BY <1>3, <2>1 DEF Take, TypeOK
  <2>3. Bounded'
    BY <1>3, <2>1, PoolAssumption DEF Take
  <2> QED
    BY <2>2, <2>3
<1>4. ASSUME NEW w \in Workers, EndTask(w) PROVE HoldsTask' /\ Bounded'
  BY <1>4 DEF EndTask, TypeOK
<1> QED
  BY <1>1, <1>2, <1>3, <1>4, DataSteps

(* What trySubmit, a pop and the end of a task do to the sets of tasks.    *)
LEMMA SubmitEffect ==
  ASSUME TypeOK, NEW c \in Callers, NEW t \in Tasks, TrySubmit(c, t)
  PROVE  /\ Running' = Running
         /\ RunningWorkers' = RunningWorkers
         /\ tasks' = Append(tasks, t) => Queued' = Queued \cup {t}
<1>1. Running' = Running /\ RunningWorkers' = RunningWorkers
  BY DEF TrySubmit, Running, RunningWorkers
<1>2. ASSUME tasks' = Append(tasks, t) PROVE Queued' = Queued \cup {t}
  <2>1. Elements(tasks') = Elements(tasks) \cup {t}
    BY <1>2, AppendFacts DEF TypeOK
  <2> QED
    BY <2>1 DEF Queued, Elements
<1> QED
  BY <1>1, <1>2

LEMMA TakeEffect ==
  ASSUME TypeOK, NEW w \in Workers, Take(w)
  PROVE  /\ Queued = Queued' \cup {Head(tasks)}
         /\ Running' = Running \cup {Head(tasks)}
         /\ w \notin RunningWorkers
         /\ RunningWorkers' = RunningWorkers \cup {w}
         /\ current'[w] = Head(tasks)
         /\ \A v \in RunningWorkers : current'[v] = current[v]
<1>1. /\ w \notin RunningWorkers
      /\ RunningWorkers' = RunningWorkers \cup {w}
      /\ current' = [current EXCEPT ![w] = Head(tasks)]
  BY DEF Take, RunningWorkers, TypeOK
<1>2. current'[w] = Head(tasks)
  BY <1>1 DEF TypeOK
<1>3. \A v \in RunningWorkers : current'[v] = current[v]
  BY <1>1 DEF TypeOK, RunningWorkers
<1>4. Running' = Running \cup {Head(tasks)}
  BY <1>1, <1>2, <1>3 DEF Running
<1>5. tasks' = Tail(tasks) /\ Elements(tasks) = Elements(Tail(tasks)) \cup {Head(tasks)}
  BY TailFacts DEF Take, TypeOK
<1>6. Queued = Queued' \cup {Head(tasks)}
  BY <1>5 DEF Queued, Elements
<1> QED
  BY <1>1, <1>2, <1>3, <1>4, <1>6

LEMMA EndEffect ==
  ASSUME TypeOK, AtMostOnce, NEW w \in Workers, EndTask(w)
  PROVE  /\ Queued' = Queued
         /\ RunningWorkers' = RunningWorkers \ {w}
         /\ current[w] \in Running
         /\ Running' = Running \ {current[w]}
         /\ \A v \in RunningWorkers' : current'[v] = current[v]
<1>1. /\ Queued' = Queued
      /\ w \in RunningWorkers
      /\ RunningWorkers' = RunningWorkers \ {w}
      /\ \A v \in RunningWorkers' : current'[v] = current[v]
  BY DEF EndTask, RunningWorkers, Queued, TypeOK
<1>2. current[w] \in Running
  BY <1>1 DEF Running
<1>3. \A v \in RunningWorkers' : current[v] # current[w]
  BY <1>1 DEF AtMostOnce
<1>4. Running' = Running \ {current[w]}
  BY <1>1, <1>3 DEF Running
<1> QED
  BY <1>1, <1>2, <1>4

(* A task stays at one place: it enters the queue once, moves to one       *)
(* worker and from there to done.                                          *)
LEMMA AtMostOnceStep ==
  TypeOK /\ AtMostOnce /\ [Next]_vars => AtMostOnce'
<1> SUFFICES ASSUME TypeOK, AtMostOnce, [Next]_vars PROVE AtMostOnce'
  OBVIOUS
<1>0. Queued = Elements(tasks) /\ Distinct(tasks)
  BY DEF AtMostOnce, Queued, Elements, Distinct
<1>1. CASE /\ UNCHANGED <<tasks, done, refused, current>>
           /\ RunningWorkers' = RunningWorkers
  BY <1>1 DEF AtMostOnce, Queued, Running
<1>2. ASSUME NEW c \in Callers, NEW t \in Tasks, TrySubmit(c, t)
      PROVE  AtMostOnce'
  <2>1. /\ UNCHANGED <<current, done>>
        /\ Running' = Running
        /\ RunningWorkers' = RunningWorkers
        /\ t \notin Queued \cup Running \cup done \cup refused
    BY <1>2, SubmitEffect DEF TrySubmit, Fresh
  <2>2. CASE UNCHANGED tasks /\ refused' = refused \cup {t}
    BY <2>1, <2>2 DEF AtMostOnce, Queued
  <2>3. CASE tasks' = Append(tasks, t) /\ UNCHANGED refused
    <3>1. Distinct(tasks')
      BY <1>0, <2>1, <2>3, AppendFacts DEF TypeOK
    <3>2. Queued' = Queued \cup {t}
      BY <1>2, <2>3, SubmitEffect
    <3> QED
      BY <2>1, <2>3, <3>1, <3>2 DEF AtMostOnce, Distinct
  <2> QED
    BY <1>2, <2>2, <2>3 DEF TrySubmit
<1>3. ASSUME NEW w \in Workers, Take(w) PROVE AtMostOnce'
  <2> DEFINE h == Head(tasks)
  <2>1. UNCHANGED <<done, refused>>
    BY <1>3 DEF Take
  <2>2. /\ Queued = Queued' \cup {h}
        /\ Running' = Running \cup {h}
        /\ RunningWorkers' = RunningWorkers \cup {w}
        /\ current'[w] = h
        /\ \A v \in RunningWorkers : current'[v] = current[v]
    BY <1>3, TakeEffect
  <2>3. Distinct(tasks') /\ h \notin Elements(tasks')
    BY <1>0, <1>3, TailFacts DEF Take, TypeOK
  <2>4. h \notin Queued'
    BY <2>3 DEF Queued, Elements
  <2>5. \A v \in RunningWorkers : current[v] \in Running
    BY DEF Running
  <2> HIDE DEF h
  <2>6. \A u, v \in RunningWorkers' : current'[u] = current'[v] => u = v
    BY <2>2, <2>5 DEF AtMostOnce
  <2> QED
    BY <2>1, <2>2, <2>3, <2>4, <2>6 DEF AtMostOnce, Distinct
<1>4. ASSUME NEW w \in Workers, EndTask(w) PROVE AtMostOnce'
  <2>1. UNCHANGED <<tasks, refused>> /\ done' = done \cup {current[w]}
    BY <1>4 DEF EndTask
  <2> QED
    BY <1>4, <2>1, EndEffect DEF AtMostOnce
<1> QED
  BY <1>1, <1>2, <1>3, <1>4, DataSteps

-----------------------------------------------------------------------------
(* Once the pool is ready and some task is queued, a worker that is not    *)
(* waiting is awake or running: nobody is unborn, nobody has exited.       *)
LEMMA SomebodyUp ==
  ASSUME TypeOK, Lifecycle, DrainedOnExit, ctor = "ready",
         tasks # <<>>, Waiting = {}
  PROVE  \E w \in Workers : worker[w] \in {"awake", "running"}
<1>1. PICK w \in Workers : TRUE
  BY PoolAssumption
<1>2. worker[w] \notin {"unborn", "exited", "waiting"}
  BY DEF Lifecycle, DrainedOnExit, Waiting
<1> QED
  BY <1>2 DEF TypeOK, WorkerStates

ExitedMeansDrained ==
  (\E w \in Workers : worker[w] = "exited") => stopping /\ tasks = <<>>

(* When a caller has joined, every thread had been created and has exited, *)
(* so nothing is queued and nothing runs.                                  *)
LEMMA JoinedIsDrained ==
  TypeOK /\ Lifecycle /\ ExitedMeansDrained => DrainedOnExit
<1> SUFFICES ASSUME TypeOK, Lifecycle, ExitedMeansDrained,
                    NEW c \in Callers, caller[c] = "stopped"
             PROVE  Queued = {} /\ Running = {}
  BY DEF DrainedOnExit, ExitedMeansDrained
<1>1. \A w \in Workers : worker[w] = "exited"
  BY DEF Lifecycle, AllExited
<1>2. tasks = <<>>
  BY <1>1, PoolAssumption DEF ExitedMeansDrained
<1>3. RunningWorkers = {}
  BY <1>1 DEF RunningWorkers
<1> QED
  BY <1>2, <1>3 DEF Queued, Running

Control == Lifecycle /\ NoLostWakeup /\ NoSleepThroughStop /\ ExitedMeansDrained

(* The conjuncts about who waits for whom, action by action.               *)
LEMMA ControlStep == IInv /\ [Next]_vars => Control'
<1> SUFFICES ASSUME IInv, [Next]_vars PROVE Control'
  OBVIOUS
<1> USE DEF IInv, TypeOK, WorkerStates, CallerStates, CtorStates, Control,
            Lifecycle, NoLostWakeup, NoSleepThroughStop, ExitedMeansDrained
<1>0. ExitedMeansDrained
  BY DEF DrainedOnExit
<1>1. ASSUME NEW w \in Workers, Spawn(w) PROVE Control'
  BY <1>0, <1>1 DEF Spawn, RunningWorkers, Waiting, AllExited
<1>2. CASE SpawnFails
  BY <1>0, <1>2 DEF SpawnFails, RunningWorkers, Waiting, AllExited
<1>3. CASE AbortNotify
  <2>1. Waiting' = {}
    BY <1>3 DEF AbortNotify, WakeAll, Waiting
  <2> QED
    BY <1>0, <1>3, <2>1 DEF AbortNotify, WakeAll, RunningWorkers
<1>4. CASE AbortJoin
  BY <1>0, <1>4 DEF AbortJoin, RunningWorkers, Waiting, AllExited
<1>5. ASSUME NEW c \in Callers, NEW t \in Tasks, TrySubmit(c, t) PROVE Control'
  <2>1. Lifecycle' /\ ExitedMeansDrained'
    BY <1>0, <1>5 DEF TrySubmit, AllExited
  <2>2. NoLostWakeup'
    BY <1>5 DEF TrySubmit
  <2>3. NoSleepThroughStop'
    BY <1>5 DEF TrySubmit, Waiting
  <2> QED
    BY <2>1, <2>2, <2>3
<1>6. ASSUME NEW c \in Callers, NotifyOne(c) PROVE Control'
  <2>1. Lifecycle' /\ ExitedMeansDrained'
    BY <1>0, <1>6 DEF NotifyOne, Waiting, AllExited
  <2>2. NoLostWakeup'
    <3>1. CASE Waiting = {} /\ tasks # <<>>
      BY <1>6, <3>1, SomebodyUp DEF NotifyOne
    <3>2. CASE Waiting # {}
      BY <1>6, <3>2 DEF NotifyOne, Waiting
    <3> QED
      BY <1>6, <3>1, <3>2 DEF NotifyOne
  <2>3. NoSleepThroughStop'
    BY <1>6 DEF NotifyOne, Waiting
  <2> QED
    BY <2>1, <2>2, <2>3
<1>7. ASSUME NEW c \in Callers, Stop(c) PROVE Control'
  <2>1. Lifecycle' /\ ExitedMeansDrained'
    BY <1>0, <1>7 DEF Stop, AllExited
  <2>2. NoLostWakeup' /\ NoSleepThroughStop'
    BY <1>7 DEF Stop, Waiting
  <2> QED
    BY <2>1, <2>2
<1>8. ASSUME NEW c \in Callers, NotifyAll(c) PROVE Control'
  <2>1. Waiting' = {}
    BY <1>8 DEF NotifyAll, WakeAll, Waiting
  <2> QED
    BY <1>0, <1>8, <2>1 DEF NotifyAll, WakeAll, AllExited
<1>9. ASSUME NEW c \in Callers, Join(c) PROVE Control'
  <2>1. Lifecycle' /\ ExitedMeansDrained'
    BY <1>0, <1>9 DEF Join, AllExited
  <2>2. NoLostWakeup' /\ NoSleepThroughStop'
    BY <1>9 DEF Join, Waiting
  <2> QED
    BY <2>1, <2>2
<1>10. ASSUME NEW w \in Workers, Wait(w) PROVE Control'
  BY <1>0, <1>10 DEF Wait, RunningWorkers, Waiting, AllExited
<1>11. ASSUME NEW w \in Workers, Take(w) PROVE Control'
  BY <1>0, <1>11 DEF Take, RunningWorkers, Waiting, AllExited
<1>12. ASSUME NEW w \in Workers, Exit(w) PROVE Control'
  BY <1>0, <1>12 DEF Exit, RunningWorkers, Waiting, AllExited
<1>13. ASSUME NEW w \in Workers, EndTask(w) PROVE Control'
  BY <1>0, <1>13 DEF EndTask, RunningWorkers, Waiting, AllExited
<1>14. ASSUME NEW w \in Workers, SpuriousWake(w) PROVE Control'
  BY <1>0, <1>14 DEF SpuriousWake, RunningWorkers, Waiting, AllExited
<1>15. CASE UNCHANGED vars
  BY <1>0, <1>15 DEF vars, RunningWorkers, Waiting, AllExited
<1> QED
  BY <1>1, <1>2, <1>3, <1>4, <1>5, <1>6, <1>7, <1>8, <1>9, <1>10, <1>11,
     <1>12, <1>13, <1>14, <1>15 DEF Next, Gone

-----------------------------------------------------------------------------
(* IInv holds throughout.                                                  *)
THEOREM Invariance == Spec => []IInv
<1>1. ASSUME IInv, [Next]_vars PROVE IInv'
  <2>1. TypeOK'
    BY <1>1, TypeStep DEF IInv
  <2>2. HoldsTask' /\ Bounded'
    BY <1>1, BoundsStep DEF IInv
  <2>3. AtMostOnce'
    BY <1>1, AtMostOnceStep DEF IInv
  <2>4. Control'
    BY <1>1, ControlStep
  <2>5. DrainedOnExit'
    <3>1. Lifecycle' /\ ExitedMeansDrained'
      BY <2>4 DEF Control
    <3> QED
      BY <2>1, <3>1, JoinedIsDrained, PTL
  <2> QED
    BY <2>1, <2>2, <2>3, <2>4, <2>5 DEF IInv, Control
<1> QED
  BY InitInv, <1>1, PTL DEF Spec

(* The fields of ThreadPool hold what their types say at any time.         *)
THEOREM TypeCorrect == Spec => []TypeOK
<1>1. IInv => TypeOK
  BY DEF IInv
<1> QED
  BY Invariance, <1>1, PTL

(* notify_one after the unlock is enough: no task stays in the queue with  *)
(* every worker asleep and nobody about to wake one.                       *)
THEOREM WakeupsArrive == Spec => []NoLostWakeup
<1>1. IInv => NoLostWakeup
  BY DEF IInv
<1> QED
  BY Invariance, <1>1, PTL

(* stop() leaves no sleeper behind, and what it joins has drained the      *)
(* queue: after it nothing is queued and nothing runs.                     *)
THEOREM ShutdownSafe == Spec => [](NoSleepThroughStop /\ DrainedOnExit)
<1>1. IInv => NoSleepThroughStop /\ DrainedOnExit
  BY DEF IInv
<1> QED
  BY Invariance, <1>1, PTL

(* A submission is started at most once, and never after a refusal.        *)
THEOREM SingleExecution == Spec => []AtMostOnce
<1>1. IInv => AtMostOnce
  BY DEF IInv
<1> QED
  BY Invariance, <1>1, PTL

-----------------------------------------------------------------------------
(* Every step of the pool is a step of TaskPool or leaves it alone.        *)
LEMMA InitRefines == Init => Abstract!Init
<1> SUFFICES ASSUME Init PROVE Abstract!Init
  OBVIOUS
<1>1. Running = {}
  BY DEF Init, Running, RunningWorkers
<1>2. Phase = "open"
  BY DEF Init, Phase
<1> QED
  BY <1>1, <1>2 DEF Init, Abstract!Init

(* The phase moves only open -> closing -> closed, and closes drained.     *)
PhaseMoves ==
  \/ UNCHANGED Phase
  \/ Phase = "open" /\ Phase' = "closing"
  \/ /\ Phase = "closing" /\ Phase' = "closed"
     /\ tasks = <<>> /\ Running = {}

LEMMA PhaseStep == IInv /\ [Next]_vars => PhaseMoves
<1> SUFFICES ASSUME IInv, [Next]_vars PROVE PhaseMoves
  OBVIOUS
<1> USE DEF PhaseMoves, Phase, TypeOK, CallerStates, CtorStates
<1>0. TypeOK /\ Lifecycle /\ DrainedOnExit
  BY DEF IInv
<1>1. CASE UNCHANGED <<stopping, caller, ctor>>
  BY <1>1
<1>2. ASSUME NEW w \in Workers, Spawn(w) PROVE PhaseMoves
  BY <1>2 DEF Spawn
<1>3. CASE SpawnFails
  BY <1>0, <1>3 DEF SpawnFails, Lifecycle
<1>4. CASE AbortNotify
  BY <1>4 DEF AbortNotify
<1>5. CASE AbortJoin
  <2>1. /\ stopping /\ tasks = <<>> /\ RunningWorkers = {}
        /\ \A c \in Callers : caller[c] = "idle"
    BY <1>0, <1>5 DEF AbortJoin, Lifecycle
  <2>2. Running = {}
    BY <2>1 DEF Running
  <2> QED
    BY <1>5, <2>1, <2>2 DEF AbortJoin
<1>6. ASSUME NEW c \in Callers, NEW t \in Tasks, TrySubmit(c, t)
      PROVE  PhaseMoves
  BY <1>0, <1>6 DEF TrySubmit
<1>7. ASSUME NEW c \in Callers, NotifyOne(c) \/ NotifyAll(c) PROVE PhaseMoves
  BY <1>0, <1>7 DEF NotifyOne, NotifyAll
<1>8. ASSUME NEW c \in Callers, Stop(c) PROVE PhaseMoves
  <2>1. \A d \in Callers : caller'[d] = "stopped" <=> caller[d] = "stopped"
    BY <1>0, <1>8 DEF Stop
  <2>2. UNCHANGED ctor /\ stopping'
    BY <1>8 DEF Stop
  <2> QED
    BY <2>1, <2>2
<1>9. ASSUME NEW c \in Callers, Join(c) PROVE PhaseMoves
  <2>1. ctor = "ready" /\ stopping
    BY <1>0, <1>9 DEF Join, Lifecycle
  <2>2. \A w \in Workers : worker[w] = "exited"
    BY <1>0, <1>9, <2>1 DEF Join, AllExited, Lifecycle
  <2>3. tasks = <<>>
    BY <1>0, <2>2, PoolAssumption DEF DrainedOnExit
  <2>4. Running = {}
    BY <2>2 DEF Running, RunningWorkers
  <2>5. /\ UNCHANGED ctor
        /\ \A d \in Callers : caller[d] = "stopped" => caller'[d] = "stopped"
        /\ caller'[c] = "stopped"
    BY <1>0, <1>9 DEF Join
  <2> QED
    BY <2>1, <2>3, <2>4, <2>5
<1>10. ASSUME NEW w \in Workers,
              Wait(w) \/ Take(w) \/ Exit(w) \/ EndTask(w) \/ SpuriousWake(w)
       PROVE  UNCHANGED <<stopping, caller, ctor>>
  BY <1>10 DEF Wait, Take, Exit, EndTask, SpuriousWake
<1>11. CASE UNCHANGED vars
  BY <1>1, <1>11 DEF vars
<1> QED
  BY <1>1, <1>2, <1>3, <1>4, <1>5, <1>6, <1>7, <1>8, <1>9, <1>10, <1>11
     DEF Next, Gone

LEMMA StepRefines == IInv /\ [Next]_vars => [Abstract!Next]_(Abstract!vars)
<1> SUFFICES ASSUME IInv, [Next]_vars
             PROVE  Abstract!Next \/ UNCHANGED Abstract!vars
  OBVIOUS
<1> USE DEF Abstract!vars, Abstract!Queued, Abstract!Fresh
<1>0. TypeOK /\ Lifecycle /\ DrainedOnExit /\ AtMostOnce /\ HoldsTask /\ Bounded
  BY DEF IInv
<1>1. CASE /\ UNCHANGED <<tasks, done, refused, current>>
           /\ RunningWorkers' = RunningWorkers
  <2>1. UNCHANGED Running
    BY <1>1 DEF Running
  <2> QED
    BY <1>1, <2>1, PhaseStep
       DEF PhaseMoves, Abstract!Next, Abstract!Close, Abstract!Closed
<1>2. ASSUME NEW c \in Callers, NEW t \in Tasks, TrySubmit(c, t)
      PROVE  Abstract!Next
  <2>1. /\ Running' = Running
        /\ UNCHANGED <<done, stopping>>
        /\ t \notin Queued \cup Running \cup done \cup refused
        /\ ctor = "ready"
    BY <1>0, <1>2, SubmitEffect DEF TrySubmit, Fresh
  <2>2. UNCHANGED Phase /\ (~stopping <=> Phase = "open")
    BY <1>0, <1>2, <2>1 DEF TrySubmit, Phase, TypeOK, CallerStates, Lifecycle
  <2>3. CASE /\ stopping \/ Len(tasks) >= MaxQueueSize
             /\ refused' = refused \cup {t} /\ UNCHANGED tasks
    <3>1. Phase # "open" \/ Len(tasks) = MaxQueueSize
      BY <1>0, <2>2, <2>3, PoolAssumption DEF Bounded, TypeOK
    <3>2. Abstract!Refuse(t)
      BY <2>1, <2>2, <2>3, <3>1 DEF Abstract!Refuse, Queued
    <3> QED
      BY <3>2 DEF Abstract!Next
  <2>4. CASE /\ ~stopping /\ Len(tasks) < MaxQueueSize
             /\ tasks' = Append(tasks, t) /\ UNCHANGED refused
    <3>1. Abstract!Accept(t)
      BY <2>1, <2>2, <2>4 DEF Abstract!Accept, Queued
    <3> QED
      BY <3>1 DEF Abstract!Next
  <2> QED
    BY <1>2, <2>3, <2>4 DEF TrySubmit
<1>3. ASSUME NEW w \in Workers, Take(w) PROVE Abstract!Next
  <2>1. /\ tasks # <<>>
        /\ tasks' = Tail(tasks)
        /\ UNCHANGED <<done, refused, stopping, caller, ctor>>
        /\ Running' = Running \cup {Head(tasks)}
    BY <1>0, <1>3, TakeEffect DEF Take
  <2>2. Phase # "closed"
    <3>1. ctor # "failed"
      BY <1>0, <2>1 DEF Lifecycle
    <3>2. Head(tasks) \in Queued
      BY <1>0, <1>3, TakeEffect
    <3>3. \A c \in Callers : caller[c] # "stopped"
      BY <1>0, <3>2 DEF DrainedOnExit
    <3> QED
      BY <3>1, <3>3 DEF Phase
  <2>3. UNCHANGED Phase
    BY <2>1 DEF Phase
  <2> QED
    BY <2>1, <2>2, <2>3 DEF Abstract!Next, Abstract!Start
<1>4. ASSUME NEW w \in Workers, EndTask(w) PROVE Abstract!Next
  <2>1. /\ UNCHANGED <<tasks, refused, stopping, caller, ctor>>
        /\ done' = done \cup {current[w]}
        /\ w \in RunningWorkers
    BY <1>4 DEF EndTask, RunningWorkers
  <2>2. /\ current[w] \in Running /\ current[w] \in Tasks
        /\ Running' = Running \ {current[w]}
    BY <1>0, <1>4, <2>1, EndEffect DEF HoldsTask
  <2>3. UNCHANGED Phase
    BY <2>1 DEF Phase
  <2>4. Abstract!Finish(current[w])
    BY <2>1, <2>2, <2>3 DEF Abstract!Finish
  <2> QED
    BY <2>2, <2>4 DEF Abstract!Next
<1> QED
  BY <1>0, <1>1, <1>2, <1>3, <1>4, DataSteps

(* ThreadPool implements TaskPool: seen from its callers it is a bounded   *)
(* FIFO that runs every accepted task once and closes only when drained.   *)
THEOREM Refinement == Spec => ImplementsTaskPool
<1>1. IInv /\ [Next]_vars => [Abstract!Next]_(Abstract!vars)
  BY StepRefines
<1> QED
  BY InitRefines, <1>1, Invariance, PTL
     DEF Spec, ImplementsTaskPool, Abstract!Spec
=============================================================================
