----------------------- MODULE MetricsPipelineProofs -----------------------
(***************************************************************************)
(* Proofs about MetricsPipeline for any hosts, samples, workers, capacity  *)
(* of the queue and of the histories, thresholds and clock.                *)
(*                                                                         *)
(* What the stores hold of a host depends on how far the tasks of its      *)
(* samples have come (Progress), how far they have come on where the pool  *)
(* has them (Placed), and that none is left behind on every received       *)
(* sample being in one of the pool's places (Accounted, Closing).          *)
(***************************************************************************)
EXTENDS MetricsPipeline, CommonLemmas, SequenceTheorems, TLAPS

Active == {"deserialize", "history", "alert", "stamp", "store", "track", "post"}
Final == {"rejected", "failed", "stored"}

(* The pool, by types.                                                     *)
PoolOK ==
  /\ queue \in Seq(Samples)
  /\ running \subseteq Samples /\ done \subseteq Samples /\ refused \subseteq Samples
  /\ phase \in {"open", "closing", "closed"}

(* The stage of a sample tells where the pool has it.                      *)
Placed ==
  /\ Distinct(queue)
  /\ \A s \in Samples :
       /\ s \in Pool!Queued => stage[s] = "none"
       /\ s \in running => stage[s] \in Active
       /\ s \in done => stage[s] \in Final
       /\ stage[s] # "none" => s \in running \cup done

(* No received sample is lost.                                             *)
Accounted ==
  \A s \in Samples :
    s[2] <= sent[s[1]] => s \in Pool!Queued \cup running \cup done \cup refused

(* The pool is stopped by the destructors after the loop has ended.        *)
Closing ==
  /\ phase # "open" => reactor \in {"quit", "exited"}
  /\ phase = "closed" => queue = <<>> /\ running = {}
  /\ reactor = "exited" => phase = "closed"

(* What the calls of a task that were made have left behind.               *)
Progress ==
  /\ \A s \in Samples :
       /\ stage[s] \in {"alert", "stamp", "store", "track", "post", "stored"}
            => history[s[1]] # <<>>
       /\ stage[s] \in {"stamp", "store", "track", "post", "stored"}
            => evaluated[s[1]] # 0
       /\ stage[s] \in {"track", "post", "stored"} => latest[s[1]] # 0
       /\ stage[s] \in {"post", "stored"} => tracked[s[1]] # "Unknown"
  /\ \A h \in Hosts : snapshot[h] # NotSeen => latest[h] # 0

(* A time point lies in the future by at most what the clock was set back. *)
ClockBounds ==
  /\ \A h \in Hosts : age[h] >= 0 - back
  /\ \A s \in Samples : stamp[s] >= 0 - back
  /\ \A h \in Hosts : snapshot[h] >= 0 - back

IInv ==
  /\ TypeOK
  /\ PoolOK
  /\ Placed
  /\ Accounted
  /\ Closing
  /\ Progress
  /\ ClockBounds
  /\ RecordsComplete

-----------------------------------------------------------------------------
(* A sample and its two parts.                                             *)
LEMMA SampleParts ==
  /\ \A s \in Samples : s[1] \in Hosts /\ s[2] \in 1 .. MaxSamples /\ s = <<s[1], s[2]>>
  /\ \A h \in Hosts, n \in 1 .. MaxSamples : <<h, n>> \in Samples
  BY DEF Samples

LEMMA ConstantFacts ==
  /\ MaxSamples \in Nat \ {0} /\ HistorySize \in Nat \ {0}
  /\ MaxClockBack \in Nat /\ Horizon \in Nat
  /\ 0 \in Ages
  /\ NotSeen \in Nat /\ NotSeen \notin Ages
<1>1. /\ MaxSamples \in Nat \ {0} /\ HistorySize \in Nat \ {0}
      /\ MaxClockBack \in Nat /\ Horizon \in Nat
  BY PipelineAssumption
<1> QED
  BY <1>1 DEF Ages, NotSeen

LEMMA InitInv == Init => IInv
<1> SUFFICES ASSUME Init PROVE IInv
  OBVIOUS
<1> USE PipelineAssumption DEF Init, Pool!Init
<1>1. TypeOK
  <2>1. 0 \in Ages /\ NotSeen \in Ages \cup {NotSeen}
    BY DEF Ages
  <2>2. history \in [Hosts -> Seq(1 .. MaxSamples)]
        /\ \A h \in Hosts : Len(history[h]) <= HistorySize
    OBVIOUS
  <2>3. /\ sent \in [Hosts -> 0 .. MaxSamples]
        /\ stage \in [Samples -> Stages]
        /\ stamp \in [Samples -> Ages]
        /\ evaluated \in [Hosts -> 0 .. MaxSamples]
        /\ latest \in [Hosts -> 0 .. MaxSamples]
        /\ age \in [Hosts -> Ages]
        /\ tracked \in [Hosts -> Statuses \cup {"Unknown"}]
        /\ snapshot \in [Hosts -> Ages \cup {NotSeen}]
    BY <2>1 DEF Stages
  <2>4. /\ posted \subseteq Samples /\ logged \subseteq Samples
        /\ reactor \in {"looping", "scanning", "quit", "exited"}
        /\ back \in 0 .. MaxClockBack
    OBVIOUS
  <2>5. readable \in BOOLEAN
    OBVIOUS
  <2> HIDE DEF Init
  <2> QED
    BY <2>2, <2>3, <2>4, <2>5 DEF TypeOK
<1>2. PoolOK
  BY DEF PoolOK
<1>3. Pool!Queued = {}
  BY DEF Pool!Queued
<1>4. Placed
  BY <1>3 DEF Placed, Distinct
<1>5. Accounted
  BY SampleParts DEF Accounted
<1>6. Closing
  BY DEF Closing
<1>7. Progress
  BY SampleParts DEF Progress, NotSeen
<1>8. ClockBounds
  BY SampleParts DEF ClockBounds, NotSeen
<1>9. RecordsComplete
  BY DEF RecordsComplete
<1> QED
  BY <1>1, <1>2, <1>4, <1>5, <1>6, <1>7, <1>8, <1>9 DEF IInv

-----------------------------------------------------------------------------
(* Steps, by what they do to the pool and the stages.                      *)

(* A call of a task takes it to another stage, the last one ends it.       *)
LEMMA WorkEffect ==
  ASSUME TypeOK, NEW s \in Samples, Work(s) \/ CallThrows(s)
  PROVE  /\ s \in running
         /\ \E d \in Active \cup Final :
              /\ stage' = [stage EXCEPT ![s] = d]
              /\ \/ d \in Active /\ UNCHANGED <<running, done>>
                 \/ d \in Final /\ running' = running \ {s} /\ done' = done \cup {s}
         /\ UNCHANGED <<sent, queue, refused, phase, reactor, snapshot, back>>
<1> USE DEF Active, Final, Go, At, Pool!Finish, poolVars, loopVars, storeVars
<1>1. CASE Deserialize(s)
  BY <1>1 DEF Deserialize
<1>2. CASE AddHistory(s)
  BY <1>2 DEF AddHistory
<1>3. CASE EvaluateAlerts(s)
  BY <1>3 DEF EvaluateAlerts
<1>4. CASE ReadClock(s)
  BY <1>4 DEF ReadClock
<1>5. CASE Store(s)
  BY <1>5 DEF Store
<1>6. CASE TrackOnline(s)
  BY <1>6 DEF TrackOnline
<1>7. CASE PostLog(s)
  BY <1>7 DEF PostLog
<1>8. CASE CallThrows(s)
  BY <1>8 DEF CallThrows
<1> QED
  BY <1>1, <1>2, <1>3, <1>4, <1>5, <1>6, <1>7, <1>8 DEF Work

(* The others, but for what the reactor does with the pool.                *)
Outside ==
  \/ RunFunctors \/ Expire \/ StartScan \/ (\E h \in Hosts : ScanHost(h))
  \/ Tick \/ ClockSetBack \/ Quit \/ Exited \/ UNCHANGED vars

LEMMA OutsideEffect ==
  ASSUME Outside
  PROVE  /\ UNCHANGED <<sent, queue, running, done, refused, phase, stage>>
         /\ \/ reactor' = reactor
            \/ /\ reactor \in {"looping", "scanning"}
               /\ reactor' \in {"looping", "scanning", "quit"}
<1> USE DEF poolVars
<1>1. CASE RunFunctors \/ Expire \/ Quit
  BY <1>1 DEF RunFunctors, Expire, Quit
<1>4. CASE StartScan
  BY <1>4 DEF StartScan
<1>2. ASSUME NEW h \in Hosts, ScanHost(h)
      PROVE  /\ UNCHANGED <<sent, queue, running, done, refused, phase, stage>>
             /\ reactor = "scanning" /\ reactor' \in {"looping", "scanning"}
  BY <1>2 DEF ScanHost
<1>3. CASE Tick \/ ClockSetBack \/ Exited \/ UNCHANGED vars
  BY <1>3 DEF Tick, ClockSetBack, Moved, Exited, vars, loopVars
<1> QED
  BY <1>1, <1>2, <1>3, <1>4 DEF Outside

LEMMA Steps ==
  [Next]_vars => \/ \E h \in Hosts : Receive(h)
                 \/ Begin
                 \/ \E s \in Samples : Work(s) \/ CallThrows(s)
                 \/ StopPool \/ PoolStopped
                 \/ Outside
  BY DEF Next, Outside

-----------------------------------------------------------------------------
(* The pool.                                                               *)
PoolInv == PoolOK /\ Placed /\ Accounted /\ Closing

(* A frame is received: its sample is new to the pool.                     *)
LEMMA ReceivePool ==
  ASSUME TypeOK, PoolInv, NEW h \in Hosts, Receive(h)
  PROVE  PoolInv'
<1> DEFINE s == <<h, sent[h] + 1>>
<1> USE DEF PoolInv
<1>1. /\ sent[h] \in Nat /\ sent[h] < MaxSamples
      /\ sent' = [sent EXCEPT ![h] = @ + 1] /\ sent \in [Hosts -> 0 .. MaxSamples]
      /\ reactor = "looping" /\ UNCHANGED <<reactor, stage>>
      /\ Pool!Accept(s) \/ Pool!Refuse(s)
  BY DEF Receive, TypeOK, loopVars
<1>2. s \in Samples
  BY <1>1, SampleParts, PipelineAssumption
<1>3. phase = "open"
  BY <1>1 DEF Closing, PoolOK
<1>4. \A t \in Samples : t[2] <= sent'[t[1]] => t = s \/ t[2] <= sent[t[1]]
  <2> SUFFICES ASSUME NEW t \in Samples, t[2] <= sent'[t[1]], ~(t[2] <= sent[t[1]])
               PROVE  t = s
    OBVIOUS
  <2>1. t[1] \in Hosts /\ t[2] \in Nat /\ t = <<t[1], t[2]>>
    BY SampleParts
  <2>2. t[1] = h /\ t[2] = sent[h] + 1
    BY <1>1, <2>1
  <2> QED
    BY <2>1, <2>2
<1>5. s \notin Pool!Queued /\ s \notin running /\ s \notin done /\ stage[s] = "none"
  BY <1>1, <1>2 DEF Pool!Accept, Pool!Refuse, Pool!Fresh, Placed
<1>6. CASE Pool!Accept(s)
  <2>0. queue \in Seq(Samples) /\ queue' = Append(queue, s)
    BY <1>6 DEF Pool!Accept, PoolOK
  <2>1. /\ queue' \in Seq(Samples) /\ queue' # <<>>
        /\ Elements(queue') = Elements(queue) \cup {s}
        /\ Distinct(queue) /\ s \notin Elements(queue) => Distinct(queue')
    <3> HIDE DEF s, PoolInv
    <3> QED
      BY <1>2, <2>0, AppendFacts
  <2>2. Pool!Queued' = Pool!Queued \cup {s} /\ Distinct(queue')
    BY <1>5, <2>1 DEF Pool!Queued, Elements, Placed
  <2>3. UNCHANGED <<running, done, refused, phase>>
    BY <1>6 DEF Pool!Accept
  <2>4. PoolOK' /\ Closing'
    BY <1>1, <1>3, <2>1, <2>3 DEF PoolOK, Closing
  <2>5. Placed'
    BY <1>1, <1>5, <2>2, <2>3 DEF Placed
  <2>6. Accounted'
    BY <1>4, <2>2, <2>3 DEF Accounted
  <2> QED
    BY <2>4, <2>5, <2>6
<1>7. CASE Pool!Refuse(s)
  <2>1. UNCHANGED <<queue, running, done, phase>> /\ refused' = refused \cup {s}
    BY <1>7 DEF Pool!Refuse
  <2>2. Pool!Queued' = Pool!Queued
    BY <2>1 DEF Pool!Queued
  <2>3. PoolOK' /\ Closing'
    BY <1>1, <1>2, <2>1 DEF PoolOK, Closing
  <2>4. Placed'
    BY <1>1, <2>1, <2>2 DEF Placed
  <2>5. Accounted'
    BY <1>4, <2>1, <2>2 DEF Accounted
  <2> QED
    BY <2>3, <2>4, <2>5
<1> QED
  BY <1>1, <1>6, <1>7

(* A worker takes the oldest sample, which is nowhere else.                *)
LEMMA BeginPool == TypeOK /\ PoolInv /\ Begin => PoolInv'
<1> SUFFICES ASSUME TypeOK, PoolInv, Begin PROVE PoolInv'
  OBVIOUS
<1> DEFINE s == Head(queue)
<1> USE DEF PoolInv
<1>1. /\ queue # <<>> /\ phase # "closed"
      /\ running' = running \cup {s} /\ queue' = Tail(queue)
      /\ stage' = [stage EXCEPT ![s] = "deserialize"]
      /\ UNCHANGED <<done, refused, phase, sent, reactor>>
  BY DEF Begin, Pool!Start, loopVars
<1>2. /\ s \in Samples /\ queue' \in Seq(Samples)
      /\ s \in Elements(queue)
      /\ Elements(queue) = Elements(queue') \cup {s}
      /\ Distinct(queue) => Distinct(queue') /\ s \notin Elements(queue')
  BY <1>1, TailFacts DEF PoolOK
<1>3. /\ s \in Pool!Queued /\ Pool!Queued = Pool!Queued' \cup {s}
      /\ s \notin Pool!Queued' /\ Distinct(queue')
  BY <1>2 DEF Pool!Queued, Elements, Placed
<1>4. PoolOK'
  BY <1>1, <1>2 DEF PoolOK
<1>5. s \notin done /\ stage \in [Samples -> Stages]
  BY <1>2, <1>3 DEF Placed, TypeOK, Final
<1>6. \A t \in Samples : stage'[t] = IF t = s THEN "deserialize" ELSE stage[t]
  BY <1>1, <1>5
<1>7. Placed'
  BY <1>1, <1>2, <1>3, <1>5, <1>6 DEF Placed, Active
<1>8. Accounted'
  BY <1>1, <1>3 DEF Accounted
<1>9. Closing'
  BY <1>1 DEF Closing
<1> QED
  BY <1>4, <1>7, <1>8, <1>9

LEMMA WorkPool ==
  ASSUME TypeOK, PoolInv, NEW s \in Samples, Work(s) \/ CallThrows(s)
  PROVE  PoolInv'
<1> USE DEF PoolInv
<1>1. PICK d \in Active \cup Final :
        /\ stage' = [stage EXCEPT ![s] = d]
        /\ \/ d \in Active /\ UNCHANGED <<running, done>>
           \/ d \in Final /\ running' = running \ {s} /\ done' = done \cup {s}
  BY WorkEffect
<1>2. s \in running /\ UNCHANGED <<sent, queue, refused, phase, reactor>>
  BY WorkEffect
<1>3. Pool!Queued' = Pool!Queued
  BY <1>2 DEF Pool!Queued
<1>4. /\ \A t \in Samples : stage'[t] = IF t = s THEN d ELSE stage[t]
      /\ d # "none" /\ stage[s] # "none"
  BY <1>1, <1>2 DEF TypeOK, Placed, Active, Final
<1>5. PoolOK'
  BY <1>1, <1>2 DEF PoolOK
<1>6. Placed'
  BY <1>1, <1>2, <1>3, <1>4 DEF Placed, Active, Final
<1>7. Accounted'
  BY <1>1, <1>2, <1>3 DEF Accounted
<1>8. Closing'
  BY <1>1, <1>2 DEF Closing
<1> QED
  BY <1>5, <1>6, <1>7, <1>8

LEMMA PoolStep == TypeOK /\ PoolInv /\ [Next]_vars => PoolInv'
<1> SUFFICES ASSUME TypeOK, PoolInv, [Next]_vars PROVE PoolInv'
  OBVIOUS
<1> USE DEF PoolInv
<1>1. CASE StopPool \/ PoolStopped
  <2>1. /\ UNCHANGED <<queue, running, done, refused, stage, sent>>
        /\ \/ reactor = "quit" /\ reactor' = reactor /\ phase' = "closing"
           \/ reactor' = "exited" /\ phase' = "closed" /\ queue = <<>> /\ running = {}
    BY <1>1 DEF StopPool, PoolStopped, Pool!Close, Pool!Closed, loopVars
  <2>2. Pool!Queued' = Pool!Queued
    BY <2>1 DEF Pool!Queued
  <2>3. PoolOK' /\ Closing'
    BY <2>1 DEF PoolOK, Closing
  <2>4. Placed' /\ Accounted'
    BY <2>1, <2>2 DEF Placed, Accounted
  <2> QED
    BY <2>3, <2>4
<1>2. CASE Outside
  <2>1. /\ UNCHANGED <<sent, queue, running, done, refused, phase, stage>>
        /\ reactor' # reactor => reactor \in {"looping", "scanning"} /\ reactor' # "exited"
    BY <1>2, OutsideEffect
  <2>2. Pool!Queued' = Pool!Queued
    BY <2>1 DEF Pool!Queued
  <2>3. PoolOK' /\ Closing'
    BY <2>1 DEF PoolOK, Closing
  <2>4. Placed' /\ Accounted'
    BY <2>1, <2>2 DEF Placed, Accounted
  <2> QED
    BY <2>3, <2>4
<1> QED
  BY <1>1, <1>2, Steps, ReceivePool, BeginPool, WorkPool

-----------------------------------------------------------------------------
(* Types, and how far a time point may lie in the future.                  *)

LEMMA TrimFacts ==
  ASSUME NEW S, NEW points \in Seq(S), NEW n \in S
  PROVE  LET trimmed == Trim(Append(points, n))
         IN  /\ trimmed \in Seq(S)
             /\ Len(trimmed) <= HistorySize
             /\ trimmed # <<>>
<1> DEFINE all == Append(points, n)
           first == 1 + (IF Len(all) > HistorySize THEN Len(all) - HistorySize ELSE 0)
           trimmed == SubSeq(all, first, Len(all))
<1>1. all \in Seq(S) /\ Len(all) \in Nat \ {0}
  OBVIOUS
<1> HIDE DEF all
<1>2. HistorySize \in Nat \ {0}
  BY PipelineAssumption
<1>3. first \in 1 .. Len(all) /\ Len(all) - first + 1 <= HistorySize
  BY <1>1, <1>2
<1> HIDE DEF first
<1>4. trimmed \in Seq(S) /\ Len(trimmed) = Len(all) - first + 1
  <2>1. \A i \in first .. Len(all) : all[i] \in S
    BY <1>1, <1>3
  <2>2. first \in Int /\ Len(all) \in Int /\ first <= Len(all)
    BY <1>1, <1>3
  <2> QED
    BY <2>1, <2>2, SubSeqProperties
<1> HIDE DEF trimmed
<1>5. trimmed # <<>>
  BY <1>1, <1>3, <1>4
<1> QED
  BY <1>3, <1>4, <1>5 DEF Trim, all, first, trimmed

LEMMA TrimHistory ==
  ASSUME TypeOK, NEW s \in Samples
  PROVE  LET trimmed == Trim(Append(history[s[1]], s[2]))
         IN  /\ trimmed \in Seq(1 .. MaxSamples)
             /\ Len(trimmed) <= HistorySize
             /\ trimmed # <<>>
<1>1. history[s[1]] \in Seq(1 .. MaxSamples) /\ s[2] \in 1 .. MaxSamples
  BY SampleParts DEF TypeOK
<1> QED
  BY <1>1, TrimFacts

LEMMA ShiftFacts ==
  ASSUME TypeOK, Tick \/ ClockSetBack
  PROVE  \E d \in {1, 0 - 1} :
           /\ Moved(d)
           /\ back' \in 0 .. MaxClockBack
           /\ \A a \in Ages : a >= 0 - back =>
                Shift(a, d) \in Ages /\ Shift(a, d) >= 0 - back'
<1>1. MaxClockBack \in Nat /\ Horizon \in Nat /\ back \in 0 .. MaxClockBack
  BY PipelineAssumption DEF TypeOK
<1>2. CASE Tick
  BY <1>1, <1>2 DEF Tick, Shift, Ages
<1>3. CASE ClockSetBack
  BY <1>1, <1>3 DEF ClockSetBack, Shift, Ages
<1> QED
  BY <1>2, <1>3

LEMMA ClockTypes ==
  ASSUME TypeOK, ClockBounds, Tick \/ ClockSetBack
  PROVE  TypeOK' /\ ClockBounds'
<1>1. PICK d \in {1, 0 - 1} :
        /\ Moved(d)
        /\ back' \in 0 .. MaxClockBack
        /\ \A a \in Ages : a >= 0 - back =>
             Shift(a, d) \in Ages /\ Shift(a, d) >= 0 - back'
  BY ShiftFacts
<1>2. /\ 0 \in Ages /\ NotSeen \notin Ages
      /\ 0 >= 0 - back' /\ NotSeen >= 0 - back'
  <2>1. back' \in 0 .. MaxClockBack
    BY <1>1
  <2>2. \A a, b \in Nat : a >= 0 - b
    OBVIOUS
  <2>3. back' \in Nat
    BY <2>1, ConstantFacts
  <2> QED
    BY <2>2, <2>3, ConstantFacts
<1>3. /\ age' \in [Hosts -> Ages]
      /\ \A h \in Hosts : age'[h] >= 0 - back'
  BY <1>1, <1>2 DEF Moved, TypeOK, ClockBounds
<1>4. /\ stamp' \in [Samples -> Ages]
      /\ \A s \in Samples : stamp'[s] >= 0 - back'
  BY <1>1, <1>2 DEF Moved, TypeOK, ClockBounds
<1>5. /\ snapshot' \in [Hosts -> Ages \cup {NotSeen}]
      /\ \A h \in Hosts : snapshot'[h] >= 0 - back'
  <2> SUFFICES ASSUME NEW h \in Hosts
               PROVE  snapshot'[h] \in Ages \cup {NotSeen} /\ snapshot'[h] >= 0 - back'
    BY <1>1 DEF Moved
  <2>1. CASE snapshot[h] = NotSeen
    BY <1>1, <1>2, <2>1 DEF Moved
  <2>2. CASE snapshot[h] # NotSeen
    BY <1>1, <2>2 DEF Moved, TypeOK, ClockBounds
  <2> QED
    BY <2>1, <2>2
<1>6. UNCHANGED <<sent, stage, history, evaluated, latest, tracked, posted,
                  logged, reactor, readable>>
  BY <1>1 DEF Moved
<1>7. TypeOK'
  BY <1>1, <1>3, <1>4, <1>5, <1>6 DEF TypeOK
<1>8. ClockBounds'
  BY <1>3, <1>4, <1>5 DEF ClockBounds
<1> QED
  BY <1>7, <1>8

LEMMA WorkTypes ==
  ASSUME TypeOK, ClockBounds, NEW s \in Samples, Work(s) \/ CallThrows(s)
  PROVE  TypeOK' /\ ClockBounds'
<1> USE DEF TypeOK, ClockBounds, Go, At, Stages
<1>0. /\ s[1] \in Hosts /\ s[2] \in 1 .. MaxSamples
      /\ 0 \in Ages /\ 0 >= 0 - back
  BY SampleParts, ConstantFacts
<1>1. CASE Deserialize(s)
  BY <1>1 DEF Deserialize, storeVars, loopVars
<1>2. CASE AddHistory(s)
  <2>1. /\ history' = [history EXCEPT ![s[1]] = Trim(Append(@, s[2]))]
        /\ stage' = [stage EXCEPT ![s] = "alert"]
        /\ UNCHANGED <<sent, stamp, evaluated, latest, age, tracked, posted,
                       logged, reactor, snapshot, readable, back>>
    BY <1>2 DEF AddHistory, loopVars
  <2>2. /\ Trim(Append(history[s[1]], s[2])) \in Seq(1 .. MaxSamples)
        /\ Len(Trim(Append(history[s[1]], s[2]))) <= HistorySize
    BY TrimHistory
  <2> QED
    BY <1>0, <2>1, <2>2
<1>3. CASE EvaluateAlerts(s)
  BY <1>0, <1>3 DEF EvaluateAlerts, loopVars
<1>4. CASE ReadClock(s)
  BY <1>0, <1>4 DEF ReadClock, storeVars, loopVars
<1>5. CASE Store(s)
  BY <1>0, <1>5, SMTT(20) DEF Store, loopVars
<1>6. CASE TrackOnline(s)
  BY <1>0, <1>6 DEF TrackOnline, TrackerUpdate, Statuses, loopVars
<1>7. CASE PostLog(s)
  BY <1>7 DEF PostLog, storeVars
<1>8. CASE CallThrows(s)
  BY <1>0, <1>8 DEF CallThrows, storeVars, loopVars
<1> QED
  BY <1>1, <1>2, <1>3, <1>4, <1>5, <1>6, <1>7, <1>8 DEF Work

LEMMA TypeStep ==
  TypeOK /\ PoolOK /\ ClockBounds /\ [Next]_vars => TypeOK' /\ ClockBounds'
<1> SUFFICES ASSUME TypeOK, PoolOK, ClockBounds, [Next]_vars
             PROVE  TypeOK' /\ ClockBounds'
  OBVIOUS
<1> USE DEF TypeOK, ClockBounds
<1>1. ASSUME NEW h \in Hosts, Receive(h) PROVE TypeOK' /\ ClockBounds'
  <2>1. sent' \in [Hosts -> 0 .. MaxSamples]
    BY <1>1, PipelineAssumption DEF Receive
  <2> QED
    BY <1>1, <2>1 DEF Receive, storeVars, loopVars
<1>2. CASE Begin
  <2>1. Head(queue) \in Samples
    BY <1>2, TailFacts DEF Begin, Pool!Start, PoolOK
  <2> QED
    BY <1>2, <2>1 DEF Begin, storeVars, loopVars, Stages
<1>3. CASE StopPool \/ PoolStopped
  BY <1>3 DEF StopPool, PoolStopped, storeVars, loopVars
<1>4. CASE RunFunctors \/ Expire \/ Quit
  BY <1>4 DEF RunFunctors, Expire, Quit, storeVars
<1>5. CASE StartScan
  <2>1. NotSeen \in Nat /\ NotSeen >= 0 - back
    BY ConstantFacts
  <2>2. /\ snapshot' \in [Hosts -> Ages \cup {NotSeen}]
        /\ \A h \in Hosts : snapshot'[h] >= 0 - back
    BY <1>5, <2>1 DEF StartScan
  <2>3. reactor' \in {"looping", "scanning"}
    BY <1>5 DEF StartScan
  <2> QED
    BY <1>5, <2>2, <2>3 DEF StartScan, storeVars
<1>6. ASSUME NEW h \in Hosts, ScanHost(h) PROVE TypeOK' /\ ClockBounds'
  <2>1. NotSeen \in Nat /\ NotSeen >= 0 - back
    BY ConstantFacts
  <2>2. /\ snapshot' \in [Hosts -> Ages \cup {NotSeen}]
        /\ \A g \in Hosts : snapshot'[g] >= 0 - back
    BY <1>6, <2>1 DEF ScanHost
  <2>3. reactor' \in {"looping", "scanning"}
    BY <1>6 DEF ScanHost
  <2>4. tracked' \in [Hosts -> Statuses \cup {"Unknown"}]
    BY <1>6 DEF ScanHost, TrackerUpdate, StatusOf, Statuses
  <2> QED
    BY <1>6, <2>2, <2>3, <2>4 DEF ScanHost
<1>7. CASE Exited \/ UNCHANGED vars
  BY <1>7 DEF Exited, vars, storeVars, loopVars
<1> QED
  BY <1>1, <1>2, <1>3, <1>4, <1>5, <1>6, <1>7, WorkTypes, ClockTypes, Steps
     DEF Outside

-----------------------------------------------------------------------------
(* The stores never forget a host: no step empties a history or takes back *)
(* an entry.                                                               *)
Kept(h) ==
  /\ history[h] # <<>> => history'[h] # <<>>
  /\ evaluated[h] # 0 => evaluated'[h] # 0
  /\ latest[h] # 0 => latest'[h] # 0
  /\ tracked[h] # "Unknown" => tracked'[h] # "Unknown"

LEMMA NothingForgotten ==
  ASSUME TypeOK, [Next]_vars
  PROVE  \A h \in Hosts : Kept(h)
<1> SUFFICES ASSUME NEW h \in Hosts PROVE Kept(h)
  OBVIOUS
<1> USE DEF Kept
<1>1. ASSUME UNCHANGED storeVars PROVE Kept(h)
  BY <1>1 DEF storeVars
<1>2. ASSUME NEW s \in Samples, Work(s) \/ CallThrows(s) PROVE Kept(h)
  <2>0. s[1] \in Hosts /\ s[2] \in 1 .. MaxSamples /\ s[2] # 0
    BY SampleParts
  <2>1. CASE AddHistory(s)
    <3>1. /\ history' = [history EXCEPT ![s[1]] = Trim(Append(@, s[2]))]
          /\ UNCHANGED <<evaluated, latest, tracked>>
      BY <2>1 DEF AddHistory
    <3>2. Trim(Append(history[s[1]], s[2])) # <<>>
      BY TrimHistory
    <3> QED
      BY <2>0, <3>1, <3>2 DEF TypeOK
  <2>2. CASE EvaluateAlerts(s)
    BY <2>0, <2>2 DEF EvaluateAlerts, TypeOK
  <2>3. CASE Store(s)
    BY <2>0, <2>3 DEF Store, TypeOK
  <2>4. CASE TrackOnline(s)
    BY <2>0, <2>4 DEF TrackOnline, TrackerUpdate, TypeOK
  <2>5. CASE Deserialize(s) \/ ReadClock(s) \/ PostLog(s) \/ CallThrows(s)
    BY <1>1, <2>5 DEF Deserialize, ReadClock, PostLog, CallThrows
  <2> QED
    BY <1>2, <2>1, <2>2, <2>3, <2>4, <2>5 DEF Work
<1>3. ASSUME NEW g \in Hosts, ScanHost(g) PROVE Kept(h)
  BY <1>3 DEF ScanHost, TrackerUpdate, StatusOf, TypeOK
<1>4. CASE Tick \/ ClockSetBack
  BY <1>4 DEF Tick, ClockSetBack, Moved
<1>5. ASSUME \/ \E g \in Hosts : Receive(g)
             \/ Begin \/ StopPool \/ PoolStopped \/ RunFunctors \/ Expire
             \/ StartScan \/ Quit \/ Exited
      PROVE  Kept(h)
  BY <1>1, <1>5 DEF Receive, Begin, StopPool, PoolStopped, RunFunctors, Expire,
                    StartScan, Quit, Exited, vars
<1>6. CASE UNCHANGED vars
  BY <1>1, <1>6 DEF vars
<1> QED
  BY <1>2, <1>3, <1>4, <1>5, <1>6 DEF Next

(* Of one sample: what its calls so far have left behind.                  *)
Left(s) ==
  /\ stage[s] \in {"alert", "stamp", "store", "track", "post", "stored"}
       => history[s[1]] # <<>>
  /\ stage[s] \in {"stamp", "store", "track", "post", "stored"}
       => evaluated[s[1]] # 0
  /\ stage[s] \in {"track", "post", "stored"} => latest[s[1]] # 0
  /\ stage[s] \in {"post", "stored"} => tracked[s[1]] # "Unknown"

(* The sample whose call it was.                                           *)
LEMMA OwnProgress ==
  ASSUME TypeOK, NEW s \in Samples, Left(s), Work(s) \/ CallThrows(s)
  PROVE  Left(s)'
<1>0. s[1] \in Hosts /\ s[2] \in 1 .. MaxSamples /\ s[2] # 0
  BY SampleParts
<1>1. Kept(s[1])
  BY <1>0, NothingForgotten DEF Next
<1>2. CASE AddHistory(s)
  <2>1. /\ history' = [history EXCEPT ![s[1]] = Trim(Append(@, s[2]))]
        /\ stage'[s] = "alert"
    BY <1>2 DEF AddHistory, Go, TypeOK
  <2>2. Trim(Append(history[s[1]], s[2])) # <<>>
    BY TrimHistory
  <2> QED
    BY <1>0, <2>1, <2>2 DEF TypeOK, Left
<1>3. CASE EvaluateAlerts(s)
  <2>1. stage[s] = "alert" /\ stage'[s] = "stamp" /\ evaluated'[s[1]] # 0
    BY <1>0, <1>3 DEF EvaluateAlerts, Go, At, TypeOK
  <2> QED
    BY <1>1, <2>1 DEF Left, Kept
<1>4. CASE Store(s)
  <2>1. stage[s] = "store" /\ stage'[s] = "track" /\ latest'[s[1]] # 0
    BY <1>0, <1>4 DEF Store, Go, At, TypeOK
  <2> QED
    BY <1>1, <2>1 DEF Left, Kept
<1>5. CASE TrackOnline(s)
  <2>1. stage[s] = "track" /\ stage'[s] = "post" /\ tracked'[s[1]] # "Unknown"
    BY <1>0, <1>5 DEF TrackOnline, TrackerUpdate, Go, At, TypeOK
  <2> QED
    BY <1>1, <2>1 DEF Left, Kept
<1>6. CASE Deserialize(s) \/ CallThrows(s)
  <2>1. stage'[s] \in {"history", "rejected", "failed"}
    BY <1>6 DEF Deserialize, CallThrows, Go, TypeOK
  <2> QED
    BY <2>1 DEF Left
<1>7. CASE ReadClock(s)
  <2>1. stage[s] = "stamp" /\ stage'[s] = "store"
    BY <1>7 DEF ReadClock, Go, At, TypeOK
  <2> QED
    BY <1>1, <2>1 DEF Left, Kept
<1>8. CASE PostLog(s)
  <2>1. stage[s] = "post" /\ stage'[s] = "stored"
    BY <1>8 DEF PostLog, Go, At, TypeOK
  <2> QED
    BY <1>1, <2>1 DEF Left, Kept
<1> QED
  BY <1>2, <1>3, <1>4, <1>5, <1>6, <1>7, <1>8 DEF Work

(* Every other sample stays where it is, or begins.                        *)
LEMMA OtherStages ==
  ASSUME TypeOK, PoolOK, [Next]_vars, NEW s \in Samples, stage'[s] # stage[s]
  PROVE  Work(s) \/ CallThrows(s) \/ stage'[s] = "deserialize"
<1>1. ASSUME NEW t \in Samples, Work(t) \/ CallThrows(t) PROVE t = s
  <2>1. PICK d \in Active \cup Final : stage' = [stage EXCEPT ![t] = d]
    BY <1>1, WorkEffect
  <2> QED
    BY <2>1 DEF TypeOK
<1>2. CASE Begin
  BY <1>2 DEF Begin, TypeOK
<1>3. CASE Outside
  BY <1>3, OutsideEffect
<1>4. CASE (\E h \in Hosts : Receive(h)) \/ StopPool \/ PoolStopped
  BY <1>4 DEF Receive, StopPool, PoolStopped
<1> QED
  BY <1>1, <1>2, <1>3, <1>4, Steps

LEMMA ProgressStep ==
  TypeOK /\ PoolOK /\ Progress /\ [Next]_vars => Progress'
<1> SUFFICES ASSUME TypeOK, PoolOK, Progress, [Next]_vars PROVE Progress'
  OBVIOUS
<1>1. ASSUME NEW s \in Samples PROVE Left(s)'
  <2>0. Left(s) /\ Kept(s[1])
    BY NothingForgotten, SampleParts DEF Progress, Left
  <2>1. CASE stage'[s] = stage[s]
    BY <2>0, <2>1 DEF Left, Kept
  <2>2. CASE stage'[s] = "deserialize"
    BY <2>2 DEF Left
  <2>3. CASE Work(s) \/ CallThrows(s)
    BY <2>0, <2>3, OwnProgress
  <2> QED
    BY <2>1, <2>2, <2>3, OtherStages
<1>2. ASSUME NEW h \in Hosts, snapshot'[h] # NotSeen PROVE latest'[h] # 0
  <2>0. Kept(h)
    BY NothingForgotten
  <2>1. CASE snapshot[h] # NotSeen
    BY <2>0, <2>1 DEF Progress, Kept
  <2>2. CASE snapshot[h] = NotSeen
    <3>1. StartScan
      <4>1. snapshot' # snapshot
        BY <1>2, <2>2
      <4>2. ASSUME NEW g \in Hosts, ScanHost(g) PROVE FALSE
        BY <1>2, <2>2, <4>2 DEF ScanHost, TypeOK
      <4>3. ASSUME Tick \/ ClockSetBack PROVE FALSE
        BY <1>2, <2>2, <4>3 DEF Tick, ClockSetBack, Moved
      <4>4. ASSUME NEW s \in Samples, Work(s) \/ CallThrows(s) PROVE FALSE
        BY <4>1, <4>4, WorkEffect
      <4> QED
        BY <4>1, <4>2, <4>3, <4>4
           DEF Next, Receive, Begin, StopPool, PoolStopped, RunFunctors, Expire,
               Quit, Exited, loopVars, vars
    <3> QED
      BY <1>2, <3>1 DEF StartScan, storeVars
  <2> QED
    BY <2>1, <2>2
<1> QED
  BY <1>1, <1>2 DEF Progress, Left

(* The order of the calls makes the records of a host complete.            *)
LEMMA CompleteStep ==
  ASSUME TypeOK, PoolOK, Progress, RecordsComplete, [Next]_vars
  PROVE  RecordsComplete'
<1> SUFFICES ASSUME NEW h \in Hosts
             PROVE  /\ tracked'[h] # "Unknown" => latest'[h] # 0
                    /\ latest'[h] # 0 => evaluated'[h] # 0 /\ history'[h] # <<>>
  BY DEF RecordsComplete
<1>0. Kept(h)
  BY NothingForgotten
<1>1. CASE tracked'[h] = tracked[h] /\ latest'[h] = latest[h]
  BY <1>0, <1>1 DEF RecordsComplete, Kept
<1>2. ASSUME NEW s \in Samples, Work(s) \/ CallThrows(s),
             tracked'[h] # tracked[h] \/ latest'[h] # latest[h]
      PROVE  /\ s[1] = h
             /\ stage[s] \in {"store", "track"}
             /\ stage[s] = "store" => tracked'[h] = tracked[h]
  BY <1>2 DEF TypeOK, Work, Deserialize, AddHistory, EvaluateAlerts, ReadClock,
              Store, TrackOnline, PostLog, CallThrows, TrackerUpdate, At,
              storeVars
<1>3. ASSUME NEW s \in Samples, Work(s) \/ CallThrows(s),
             tracked'[h] # tracked[h] \/ latest'[h] # latest[h]
      PROVE  /\ tracked'[h] # "Unknown" => latest'[h] # 0
             /\ evaluated'[h] # 0 /\ history'[h] # <<>>
  <2>1. /\ s[1] = h /\ stage[s] \in {"store", "track"}
        /\ stage[s] = "store" => tracked'[h] = tracked[h]
    BY <1>2, <1>3
  <2>2. /\ evaluated[h] # 0 /\ history[h] # <<>>
        /\ stage[s] = "track" => latest[h] # 0
    BY <2>1 DEF Progress
  <2> QED
    BY <1>0, <2>1, <2>2 DEF Kept, RecordsComplete
<1>4. ASSUME NEW g \in Hosts, ScanHost(g), tracked'[h] # tracked[h]
      PROVE  latest[h] # 0 /\ latest' = latest
  BY <1>4 DEF ScanHost, TrackerUpdate, TypeOK, Progress
<1>5. ASSUME ~ \E s \in Samples : Work(s) \/ CallThrows(s),
             ~ \E g \in Hosts : ScanHost(g)
      PROVE  tracked' = tracked /\ latest' = latest
  BY <1>5 DEF Next, Receive, Begin, StopPool, PoolStopped, RunFunctors, Expire,
              StartScan, Tick, ClockSetBack, Moved, Quit, Exited, storeVars, vars
<1>6. ASSUME NEW g \in Hosts, ScanHost(g)
      PROVE  UNCHANGED <<latest, evaluated, history>>
  BY <1>6 DEF ScanHost
<1> QED
  BY <1>0, <1>1, <1>3, <1>4, <1>5, <1>6 DEF Kept, RecordsComplete

LEMMA Invariance == Spec => []IInv
<1>1. IInv /\ [Next]_vars => IInv'
  BY TypeStep, PoolStep, ProgressStep, CompleteStep DEF IInv, PoolInv
<1> QED
  BY InitInv, <1>1, PTL DEF Spec

-----------------------------------------------------------------------------
(* Type correctness, with the histories within their limit                 *)
(* (MetricsHistoryStore) and every age within what was set back.           *)
THEOREM TypeCorrect == Spec => []TypeOK
<1>1. IInv => TypeOK
  BY DEF IInv
<1> QED
  BY Invariance, <1>1, PTL

(* A host that is tracked has latest metrics, one with latest metrics has  *)
(* had its alerts evaluated and has a history (TcpServer.cpp:778-869),     *)
(* whichever calls throw and however the workers of a host interleave.     *)
THEOREM RecordsStayComplete == Spec => []RecordsComplete
<1>1. IInv => RecordsComplete
  BY DEF IInv
<1> QED
  BY Invariance, <1>1, PTL

(* When run() returns every frame that was not refused has been processed  *)
(* to the end.                                                             *)
THEOREM DrainedWhenExited == Spec => []DrainedAtExit
<1>1. ASSUME IInv, reactor = "exited",
             NEW s \in Samples, s[2] <= sent[s[1]], s \notin refused
      PROVE  /\ stage[s] \in {"stored", "rejected", "failed"}
             /\ stage[s] = "stored" => tracked[s[1]] # "Unknown"
  <2>1. queue = <<>> /\ running = {}
    BY <1>1 DEF IInv, Closing
  <2>2. s \in done
    BY <1>1, <2>1 DEF IInv, Accounted, Pool!Queued
  <2> QED
    BY <1>1, <2>2 DEF IInv, Placed, Progress, Final
<1>2. IInv => DrainedAtExit
  BY <1>1 DEF DrainedAtExit
<1> QED
  BY Invariance, <1>2, PTL
=============================================================================
