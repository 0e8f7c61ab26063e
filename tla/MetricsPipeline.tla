-------------------------- MODULE MetricsPipeline --------------------------
(***************************************************************************)
(* The path of a sample through the server (src/server/TcpServer.cpp): the *)
(* reactor thread submits each received frame to the worker pool; a worker *)
(* deserializes it, adds it to the history, evaluates alerts, replaces the *)
(* host's latest metrics, sets the tracked state to Online and posts a log *)
(* functor back to the reactor.  A timer callback of the reactor compares  *)
(* a snapshot of the latest metrics with the clock and tracks each host as *)
(* Online, Stale or Offline.                                               *)
(*                                                                         *)
(* The stores lock their own mutex, so that each call is one action and    *)
(* threads interleave between the calls; MetricsStore::update reads the    *)
(* clock before it locks, hence two actions.  The pool is its abstract     *)
(* specification, which ThreadPool implements.                             *)
(*                                                                         *)
(* A sample is <<host, n>>, the n-th one its agent sent.  Time is in       *)
(* ticks; a time point is kept as its age by the system clock, counted up  *)
(* to Horizon and negative when the clock was set back past it.            *)
(***************************************************************************)
EXTENDS Integers, Sequences, FiniteSets

CONSTANTS Hosts,
          MaxSamples,      \* bound: samples sent per host
          NumWorkers,      \* worker.threads
          QueueSize,       \* worker.queue_size
          HistorySize,     \* maxPointsPerHost_
          TicksPerSecond,  \* resolution of the clock
          OnlineSeconds,   \* ONLINE_THRESHOLD
          StaleSeconds,    \* STALE_THRESHOLD
          Horizon,         \* bound: ages are counted up to here
          MaxClockBack     \* bound: ticks the clock may be set back

(* With the clock modelled (Horizon > 0) an age counted up to Horizon means *)
(* Offline even after the clock was set back.                              *)
ASSUME PipelineAssumption ==
  /\ MaxSamples \in Nat \ {0} /\ NumWorkers \in Nat \ {0}
  /\ QueueSize \in Nat \ {0} /\ HistorySize \in Nat \ {0}
  /\ TicksPerSecond \in Nat \ {0} /\ MaxClockBack \in Nat
  /\ OnlineSeconds \in Nat /\ StaleSeconds \in Nat
  /\ OnlineSeconds < StaleSeconds
  /\ Horizon \in Nat
  /\ Horizon = 0 \/ Horizon >= (StaleSeconds + 1) * TicksPerSecond + MaxClockBack

VARIABLES
  sent,      \* samples received so far from each host
  queue, running, done, refused, phase,   \* the pool, see TaskPool
  stage,     \* the next call of the worker running a task
  stamp,     \* age of the updatedAt a worker read and has not stored yet
  history,   \* histories_: the points of each host, oldest first
  evaluated, \* the last sample AlertManager::update saw of each host
  latest,    \* metricsByHostname_: sample stored for each host, 0 if none
  age,       \* and the age of its updatedAt
  tracked,   \* lastStates_ of StateTracker, "Unknown" if no entry
  posted,    \* log functors waiting in the event loop
  logged,    \* samples whose "Metrics stored" line was written
  reactor,   \* "looping", "scanning", "quit" (left the loop), "exited"
  snapshot,  \* the hosts the scan has still to do, with the age it saw
  readable,  \* the timerfd is readable
  back       \* ticks the clock was set back so far

poolVars == <<queue, running, done, refused, phase>>
storeVars == <<history, evaluated, latest, age, tracked>>
loopVars == <<posted, logged, reactor, snapshot, readable>>
vars == <<sent, poolVars, stage, stamp, storeVars, loopVars, back>>

Samples == Hosts \X (1 .. MaxSamples)
Statuses == {"Online", "Stale", "Offline"}
Stages == {"none", "deserialize", "history", "alert", "stamp", "store",
           "track", "post", "rejected", "failed", "stored"}
Ages == (0 - MaxClockBack) .. Horizon
NotSeen == Horizon + 1   \* the snapshot holds no record of the host

Pool == INSTANCE TaskPool WITH Tasks <- Samples, MaxQueueSize <- QueueSize

Init ==
  /\ sent = [h \in Hosts |-> 0]
  /\ Pool!Init
  /\ stage = [s \in Samples |-> "none"]
  /\ stamp = [s \in Samples |-> 0]
  /\ history = [h \in Hosts |-> <<>>]
  /\ evaluated = [h \in Hosts |-> 0]
  /\ latest = [h \in Hosts |-> 0]
  /\ age = [h \in Hosts |-> 0]
  /\ tracked = [h \in Hosts |-> "Unknown"]
  /\ posted = {}
  /\ logged = {}
  /\ reactor = "looping"
  /\ snapshot = [h \in Hosts |-> NotSeen]
  /\ readable = FALSE
  /\ back = 0

(* A worker runs task s and its next call is the one named.                *)
At(s, call) == s \in running /\ stage[s] = call
Go(s, call) == stage' = [stage EXCEPT ![s] = call]

-----------------------------------------------------------------------------
(* Mutants.  No behaviour of the code: each is the definition it is named  *)
(* after with one plausible slip, and makes one property below fail.       *)

(* metricsStore.update called before historyStore.add and the alerts.      *)
MutantDeserializeThenStore(s) ==
  /\ At(s, "deserialize")
  /\ Go(s, "stamp")
  /\ UNCHANGED <<sent, poolVars, stamp, storeVars, loopVars, back>>

(* No pop_front.                                                           *)
MutantTrimNever(points) == points

(* A record whose updatedAt nobody set: it dates from the epoch.           *)
MutantStoreEpoch(s) ==
  /\ At(s, "store")
  /\ latest' = [latest EXCEPT ![s[1]] = s[2]]
  /\ age' = [age EXCEPT ![s[1]] = NotSeen]
  /\ Go(s, "track")
  /\ UNCHANGED <<sent, poolVars, stamp, history, evaluated, tracked, loopVars, back>>

(* A tracker that reports a change and forgets to write it back.           *)
MutantTrackerKeepsFirst(h, status) ==
  IF tracked[h] = "Unknown" THEN [tracked EXCEPT ![h] = status] ELSE tracked

(* Pending functors cleared instead of swapped out and run.                *)
MutantFunctorsCleared ==
  /\ reactor = "looping"
  /\ posted # {}
  /\ posted' = {}
  /\ UNCHANGED <<sent, poolVars, stage, stamp, storeVars, logged, reactor,
                 snapshot, readable, back>>

(* A pool destroyed without joining its workers.                           *)
MutantPoolDetached ==
  /\ reactor = "quit"
  /\ reactor' = "exited"
  /\ UNCHANGED <<sent, poolVars, stage, stamp, storeVars, posted, logged,
                 snapshot, readable, back>>

-----------------------------------------------------------------------------
(* Reactor: the message callback submits the frame; a refused one is       *)
(* dropped with a warning.                                                 *)
Receive(h) ==
  /\ reactor = "looping"
  /\ sent[h] < MaxSamples
  /\ sent' = [sent EXCEPT ![h] = @ + 1]
  /\ LET s == <<h, sent[h] + 1>> IN Pool!Accept(s) \/ Pool!Refuse(s)
  /\ UNCHANGED <<stage, stamp, storeVars, loopVars, back>>

(* Reactor: doPendingFunctors takes them all and runs them.                *)
RunFunctors ==
  /\ reactor = "looping"
  /\ posted # {}
  /\ logged' = logged \cup posted
  /\ posted' = {}
  /\ UNCHANGED <<sent, poolVars, stage, stamp, storeVars, reactor, snapshot,
                 readable, back>>

-----------------------------------------------------------------------------
(* Worker: one call after the other, on the sample it took.                *)
Begin ==
  /\ Cardinality(running) < NumWorkers
  /\ Pool!Start
  /\ stage' = [stage EXCEPT ![Head(queue)] = "deserialize"]
  /\ UNCHANGED <<sent, stamp, storeVars, loopVars, back>>

Deserialize(s) ==
  /\ At(s, "deserialize")
  /\ \/ Go(s, "history") /\ UNCHANGED poolVars
     \/ Go(s, "rejected") /\ Pool!Finish(s)
  /\ UNCHANGED <<sent, stamp, storeVars, loopVars, back>>

(* Append, then pop_front while there are too many.                        *)
Trim(points) == SubSeq(points, 1 + (IF Len(points) > HistorySize
                                    THEN Len(points) - HistorySize ELSE 0),
                       Len(points))

AddHistory(s) ==
  /\ At(s, "history")
  /\ history' = [history EXCEPT ![s[1]] = Trim(Append(@, s[2]))]
  /\ Go(s, "alert")
  /\ UNCHANGED <<sent, poolVars, stamp, evaluated, latest, age, tracked,
                 loopVars, back>>

EvaluateAlerts(s) ==
  /\ At(s, "alert")
  /\ evaluated' = [evaluated EXCEPT ![s[1]] = s[2]]
  /\ Go(s, "stamp")
  /\ UNCHANGED <<sent, poolVars, stamp, history, latest, age, tracked,
                 loopVars, back>>

(* MetricsStore::update: now() first, insert_or_assign under the lock.     *)
ReadClock(s) ==
  /\ At(s, "stamp")
  /\ stamp' = [stamp EXCEPT ![s] = 0]
  /\ Go(s, "store")
  /\ UNCHANGED <<sent, poolVars, storeVars, loopVars, back>>

Store(s) ==
  /\ At(s, "store")
  /\ latest' = [latest EXCEPT ![s[1]] = s[2]]
  /\ age' = [age EXCEPT ![s[1]] = stamp[s]]
  /\ Go(s, "track")
  /\ stamp' = [stamp EXCEPT ![s] = 0]
  /\ UNCHANGED <<sent, poolVars, history, evaluated, tracked, loopVars, back>>

(* StateTracker::update: the entry is created or overwritten.              *)
TrackerUpdate(h, status) == [tracked EXCEPT ![h] = status]

TrackOnline(s) ==
  /\ At(s, "track")
  /\ tracked' = TrackerUpdate(s[1], "Online")
  /\ Go(s, "post")
  /\ UNCHANGED <<sent, poolVars, stamp, history, evaluated, latest, age,
                 loopVars, back>>

(* queueInLoop, the last call of the task.                                 *)
PostLog(s) ==
  /\ At(s, "post")
  /\ posted' = posted \cup {s}
  /\ Go(s, "stored")
  /\ Pool!Finish(s)
  /\ UNCHANGED <<sent, stamp, storeVars, logged, reactor, snapshot, readable,
                 back>>

(* One of these calls throws (bad_alloc): the catch of the task or that of *)
(* the worker's loop ends it, and what the calls before it did stays.      *)
CallThrows(s) ==
  /\ s \in running
  /\ stage[s] \in {"history", "alert", "stamp", "store", "track", "post"}
  /\ Go(s, "failed")
  /\ stamp' = [stamp EXCEPT ![s] = 0]
  /\ Pool!Finish(s)
  /\ UNCHANGED <<sent, storeVars, loopVars, back>>

Work(s) ==
  \/ Deserialize(s) \/ AddHistory(s) \/ EvaluateAlerts(s) \/ ReadClock(s)
  \/ Store(s) \/ TrackOnline(s) \/ PostLog(s)

-----------------------------------------------------------------------------
(* Reactor: the status timer.  The callback never reads the timerfd, which *)
(* therefore stays readable for good after its first expiry.               *)
Expire ==
  /\ reactor \in {"looping", "scanning"}
  /\ readable' = TRUE
  /\ UNCHANGED <<sent, poolVars, stage, stamp, storeVars, posted, logged,
                 reactor, snapshot, back>>

(* getAll: a copy of every record, under the lock.                         *)
StartScan ==
  /\ reactor = "looping"
  /\ readable
  /\ snapshot' = [h \in Hosts |-> IF latest[h] = 0 THEN NotSeen ELSE age[h]]
  /\ reactor' = IF \A h \in Hosts : latest[h] = 0 THEN "looping" ELSE "scanning"
  /\ UNCHANGED <<sent, poolVars, stage, stamp, storeVars, posted, logged,
                 readable, back>>

(* getStatus(): a record from the future counts as fresh, an age is cut to *)
(* whole seconds before it is compared.                                    *)
StatusOf(a) ==
  IF a < 0 THEN "Online"
  ELSE IF a \div TicksPerSecond <= OnlineSeconds THEN "Online"
  ELSE IF a \div TicksPerSecond <= StaleSeconds THEN "Stale"
  ELSE "Offline"

(* One round of the loop over the copies, in any order (unordered_map).    *)
(* getStatus reads the copy and the clock only: it is one action with the  *)
(* update of the tracker that follows.                                     *)
ScanHost(h) ==
  /\ reactor = "scanning"
  /\ snapshot[h] # NotSeen
  /\ tracked' = TrackerUpdate(h, StatusOf(snapshot[h]))
  /\ snapshot' = [snapshot EXCEPT ![h] = NotSeen]
  /\ reactor' = IF \A g \in Hosts \ {h} : snapshot[g] = NotSeen
                THEN "looping" ELSE "scanning"
  /\ UNCHANGED <<sent, poolVars, stage, stamp, history, evaluated, latest, age,
                 posted, logged, readable, back>>

-----------------------------------------------------------------------------
(* The system clock moves: every age with it.                              *)
Shift(a, d) == IF a + d > Horizon THEN Horizon ELSE a + d

Moved(d) ==
  /\ age' = [h \in Hosts |-> IF latest[h] = 0 THEN 0 ELSE Shift(age[h], d)]
  /\ stamp' = [s \in Samples |-> IF stage[s] = "store" THEN Shift(stamp[s], d) ELSE 0]
  /\ snapshot' = [h \in Hosts |-> IF snapshot[h] = NotSeen THEN NotSeen
                                  ELSE Shift(snapshot[h], d)]
  /\ UNCHANGED <<sent, poolVars, stage, history, evaluated, latest, tracked,
                 posted, logged, reactor, readable>>

Tick == Horizon > 0 /\ Moved(1) /\ UNCHANGED back

ClockSetBack ==
  /\ Horizon > 0
  /\ back < MaxClockBack
  /\ back' = back + 1
  /\ Moved(0 - 1)

-----------------------------------------------------------------------------
(* Shutdown: the signal callback asks the loop to quit; the iteration ends *)
(* with the pending functors and is the last.  Later run() returns and the *)
(* destructor of the pool stops it.                                        *)
Quit ==
  /\ reactor = "looping"
  /\ reactor' = "quit"
  /\ logged' = logged \cup posted
  /\ posted' = {}
  /\ UNCHANGED <<sent, poolVars, stage, stamp, storeVars, snapshot, readable,
                 back>>

StopPool ==
  /\ reactor = "quit"
  /\ Pool!Close
  /\ UNCHANGED <<sent, stage, stamp, storeVars, loopVars, back>>

PoolStopped ==
  /\ reactor = "quit"
  /\ Pool!Closed
  /\ reactor' = "exited"
  /\ UNCHANGED <<sent, stage, stamp, storeVars, posted, logged, snapshot,
                 readable, back>>

Exited == reactor = "exited" /\ UNCHANGED vars

Next ==
  \/ \E h \in Hosts : Receive(h)
  \/ RunFunctors
  \/ Begin
  \/ \E s \in Samples : Work(s) \/ CallThrows(s)
  \/ Expire
  \/ StartScan
  \/ \E h \in Hosts : ScanHost(h)
  \/ Tick
  \/ ClockSetBack
  \/ Quit
  \/ StopPool
  \/ PoolStopped
  \/ Exited

Spec == Init /\ [][Next]_vars

(* Threads are scheduled, the timer expires and time passes.  Each         *)
(* iteration of the loop ends with the pending functors, whatever the      *)
(* callbacks did before: strong fairness.  Agents need not send, and       *)
(* nobody need stop the server.                                            *)
FairSpec ==
  /\ Spec
  /\ WF_vars(Begin) /\ \A s \in Samples : WF_vars(Work(s))
  /\ WF_vars(Expire) /\ WF_vars(StartScan)
  /\ \A h \in Hosts : WF_vars(ScanHost(h))
  /\ SF_vars(RunFunctors)
  /\ WF_vars(Tick)
  /\ WF_vars(StopPool) /\ WF_vars(PoolStopped)

-----------------------------------------------------------------------------
TypeOK ==
  /\ sent \in [Hosts -> 0 .. MaxSamples]
  /\ stage \in [Samples -> Stages]
  /\ stamp \in [Samples -> Ages]
  /\ history \in [Hosts -> Seq(1 .. MaxSamples)]
  /\ \A h \in Hosts : Len(history[h]) <= HistorySize
  /\ evaluated \in [Hosts -> 0 .. MaxSamples]
  /\ latest \in [Hosts -> 0 .. MaxSamples]
  /\ age \in [Hosts -> Ages]
  /\ tracked \in [Hosts -> Statuses \cup {"Unknown"}]
  /\ posted \subseteq Samples /\ logged \subseteq Samples
  /\ reactor \in {"looping", "scanning", "quit", "exited"}
  /\ snapshot \in [Hosts -> Ages \cup {NotSeen}]
  /\ readable \in BOOLEAN
  /\ back \in 0 .. MaxClockBack

(* The calls of a task are in an order readers rely on, also when one of   *)
(* them throws (TcpServer.cpp:778-869): a host with a tracked state has    *)
(* latest metrics, and a host with latest metrics (GET /api/hosts) has had *)
(* its alerts evaluated and has a history to show.                         *)
RecordsComplete ==
  \A h \in Hosts :
    /\ tracked[h] # "Unknown" => latest[h] # 0
    /\ latest[h] # 0 => evaluated[h] # 0 /\ history[h] # <<>>

(* What run() leaves behind: every frame it accepted was processed to the  *)
(* end, and a host with a valid one is known everywhere.                   *)
DrainedAtExit ==
  reactor = "exited" =>
    \A s \in Samples :
      s[2] <= sent[s[1]] /\ s \notin refused =>
        /\ stage[s] \in {"stored", "rejected", "failed"}
        /\ stage[s] = "stored" => tracked[s[1]] # "Unknown"

(* An agent that stops sending is noticed, whatever the scan, the workers  *)
(* and the clock did before (TcpServer.cpp:208-215).                       *)
SilenceIsNoticed ==
  \A h \in Hosts :
    latest[h] # 0 ~> (tracked[h] = "Offline" \/ reactor \in {"quit", "exited"})

(* An accepted sample is rejected, fails or is stored and then reported,   *)
(* unless the server stops: its functor may then come too late for the     *)
(* loop.                                                                   *)
SamplesReported ==
  \A s \in Samples :
    s \in Pool!Queued ~> \/ stage[s] \in {"rejected", "failed"}
                         \/ s \in logged
                         \/ stage[s] = "stored" /\ reactor = "exited"

=============================================================================
