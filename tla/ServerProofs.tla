---------------------------- MODULE ServerProofs ----------------------------
(***************************************************************************)
(* Proofs about three parts of the server that keep to themselves: its     *)
(* alert manager, for every set of hosts and metrics and every             *)
(* fire_duration; its start and end, which have no constants, so that what *)
(* TLC finds there by enumerating the states follows here from the steps   *)
(* of the two threads; and its loop, for every set of functors and of      *)
(* posting threads.  The three have no name in common; each has an         *)
(* invariant, lemmas and theorems of its own.                              *)
(***************************************************************************)
EXTENDS AlertManager, ServerLifecycle, EventLoop, TLAPS

-----------------------------------------------------------------------------
(* AlertManager.                                                           *)

(* The delay is over for every alert that has fired once.                  *)
DelayOver ==
  \A k \in Keys : state[k] \in {"Firing", "Normal"} => age[k] = FireDuration

IInv == TypeOK /\ DelayOver /\ FiringIsBreached

LEMMA InitInv == Init => IInv
<1> SUFFICES ASSUME Init PROVE IInv
  OBVIOUS
<1>1. TypeOK
  BY AlertAssumption DEF Init, TypeOK, States
<1>2. DelayOver /\ FiringIsBreached
  BY DEF Init, DelayOver, FiringIsBreached
<1> QED
  BY <1>1, <1>2 DEF IInv

(* What a sample says about a key of its host.                             *)
LEMMA SampleOfKey ==
  ASSUME NEW h \in Hosts, NEW sample \in Samples, NEW k \in Keys
  PROVE  k \in Raised(h, sample) <=> k[1] = h /\ sample[k[2]] # "below"
<1>1. k[1] \in Hosts /\ k[2] \in Metrics /\ k = <<k[1], k[2]>>
  BY DEF Keys
<1>2. sample[k[2]] \in Levels
  BY <1>1 DEF Samples
<1>3. k[2] \in Evaluate(sample) <=> sample[k[2]] # "below"
  BY <1>1, <1>2 DEF Evaluate, Levels
<1> QED
  BY <1>1, <1>3 DEF Raised

LEMMA UpdateInv ==
  ASSUME IInv, NEW h \in Hosts, NEW sample \in Samples, Update(h, sample)
  PROVE  IInv'
<1> DEFINE R == Raised(h, sample)
<1>0. TypeOK /\ DelayOver /\ FiringIsBreached
  BY DEF IInv
<1>1. /\ \A k \in Keys : state'[k] = IF k \in R THEN Detected(k) ELSE Undetected(k)
      /\ state' = [k \in Keys |-> IF k \in R THEN Detected(k) ELSE Undetected(k)]
      /\ fired' = Returned(h, sample)
      /\ breached' = [breached EXCEPT ![h] = {m \in Metrics : sample[m] # "below"}]
      /\ UNCHANGED age
  BY DEF Update
<1>2. R \subseteq Keys /\ fired' \subseteq R
  BY <1>1 DEF Raised, Evaluate, Keys, Returned
<1>3. \A k \in Keys : state[k] \in States /\ age[k] \in 0 .. FireDuration
  BY <1>0 DEF TypeOK
<1>4. \A k \in Keys : Detected(k) \in States /\ Undetected(k) \in States
  BY <1>3 DEF Detected, Undetected, States
<1>5. TypeOK'
  BY <1>0, <1>1, <1>2, <1>4 DEF TypeOK
<1>6. DelayOver'
  <2> SUFFICES ASSUME NEW k \in Keys, state'[k] \in {"Firing", "Normal"}
               PROVE  age[k] = FireDuration
    BY <1>1 DEF DelayOver
  <2>1. CASE state[k] \in {"Firing", "Normal"}
    BY <1>0, <2>1 DEF DelayOver
  <2>2. CASE state[k] \notin {"Firing", "Normal"}
    BY <1>1, <1>3, <2>2, AlertAssumption DEF Detected, Undetected
  <2> QED
    BY <2>1, <2>2
<1>7. FiringIsBreached'
  <2> SUFFICES ASSUME NEW k \in Keys, state'[k] = "Firing"
               PROVE  k[2] \in breached'[k[1]] /\ age'[k] = FireDuration
    BY DEF FiringIsBreached, Breached
  <2>1. k \in R
    BY <1>1 DEF Undetected
  <2>2. k[1] = h /\ k[2] \in Metrics /\ sample[k[2]] # "below"
    BY <2>1, SampleOfKey DEF Keys
  <2>3. breached'[h] = {m \in Metrics : sample[m] # "below"}
    BY <1>0, <1>1 DEF TypeOK
  <2> QED
    BY <1>6, <2>2, <2>3 DEF DelayOver
<1> QED
  BY <1>5, <1>6, <1>7 DEF IInv

LEMMA TickInv == IInv /\ Tick => IInv'
<1> SUFFICES ASSUME IInv, Tick PROVE IInv'
  OBVIOUS
<1>0. TypeOK /\ DelayOver /\ FiringIsBreached
  BY DEF IInv
<1>1. \A k \in Keys : /\ age'[k] \in 0 .. FireDuration
                      /\ age[k] = FireDuration => age'[k] = FireDuration
  BY <1>0, AlertAssumption DEF Tick, TypeOK
<1>2. TypeOK'
  BY <1>0, <1>1 DEF TypeOK, Tick
<1>3. DelayOver'
  BY <1>0, <1>1 DEF DelayOver, Tick
<1>4. FiringIsBreached'
  BY <1>0, <1>1 DEF FiringIsBreached, Breached, Tick
<1> QED
  BY <1>2, <1>3, <1>4 DEF IInv

LEMMA Invariance == Spec => []IInv
<1>1. IInv /\ UNCHANGED vars => IInv'
  BY DEF IInv, TypeOK, DelayOver, FiringIsBreached, Breached, vars
<1>2. IInv /\ [Next]_vars => IInv'
  BY <1>1, UpdateInv, TickInv DEF Next
<1> QED
  BY InitInv, <1>2, PTL DEF Spec

(* Types; the age of a condition stops at fire_duration                    *)
(* (AlertManager.cpp:176-319).                                             *)
THEOREM TypeCorrect == Spec => []TypeOK
<1>1. IInv => TypeOK
  BY DEF IInv
<1> QED
  BY Invariance, <1>1, PTL

(* No phantom alert, for any number of hosts and metrics: what fires is    *)
(* breached by its host's last sample and has waited fire_duration.        *)
THEOREM NoPhantomAlert == Spec => []FiringIsBreached
<1>1. IInv => FiringIsBreached
  BY DEF IInv
<1> QED
  BY Invariance, <1>1, PTL

(* fire_duration delays an alert's first firing only.                      *)
THEOREM FirstFiringOnly == Spec => DelayOnlyOnce
<1> DEFINE A == \A k \in Keys : state[k] = "Normal" /\ state'[k] # "Normal"
                  => state'[k] = "Firing" /\ Breached(k)'
<1>1. ASSUME IInv, NEW h \in Hosts, NEW sample \in Samples, Update(h, sample)
      PROVE  A
  <2> SUFFICES ASSUME NEW k \in Keys, state[k] = "Normal", state'[k] # "Normal"
               PROVE  state'[k] = "Firing" /\ Breached(k)'
    OBVIOUS
  <2>1. age[k] >= FireDuration
    BY <1>1, AlertAssumption DEF IInv, DelayOver
  <2>2. k \in Raised(h, sample) /\ state'[k] = "Firing"
    BY <1>1, <2>1 DEF Update, Detected, Undetected
  <2>3. IInv'
    BY <1>1, UpdateInv
  <2>4. Breached(k)'
    BY <2>2, <2>3 DEF IInv, FiringIsBreached
  <2> QED
    BY <2>2, <2>4
<1>2. ASSUME Tick \/ UNCHANGED vars PROVE A
  BY <1>2 DEF Tick, vars
<1>3. IInv /\ [Next]_vars => [A]_vars
  BY <1>1, <1>2 DEF Next
<1> QED
  BY Invariance, <1>3, PTL DEF Spec, DelayOnlyOnce

(* With a single host an alert is resolved only by a sample below the      *)
(* threshold; the run with two hosts shows that the hypothesis is needed.  *)
THEOREM ResolvedByOwnHost ==
  ASSUME \A g, h \in Hosts : g = h
  PROVE  Spec => ResolvedMeansBelow
<1> DEFINE A == \A k \in Keys : state[k] = "Firing" /\ state'[k] = "Normal"
                  => ~Breached(k)'
<1>1. ASSUME IInv, NEW h \in Hosts, NEW sample \in Samples, Update(h, sample)
      PROVE  A
  <2> SUFFICES ASSUME NEW k \in Keys, state[k] = "Firing", state'[k] = "Normal"
               PROVE  k[2] \notin breached'[k[1]]
    BY DEF Breached
  <2>1. k[1] \in Hosts /\ k[1] = h
    BY DEF Keys
  <2>2. age[k] >= FireDuration
    BY <1>1, AlertAssumption DEF IInv, DelayOver
  <2>3. k \notin Raised(h, sample)
    BY <1>1, <2>2 DEF Update, Detected
  <2>4. breached'[k[1]] = {m \in Metrics : sample[m] # "below"}
    BY <1>1, <2>1 DEF Update, IInv, TypeOK
  <2> QED
    BY <2>1, <2>3, <2>4, SampleOfKey
<1>2. ASSUME Tick \/ UNCHANGED vars PROVE A
  BY <1>2 DEF Tick, vars
<1>3. IInv /\ [Next]_vars => [A]_vars
  BY <1>1, <1>2 DEF Next
<1> QED
  BY Invariance, <1>3, PTL DEF Spec, ResolvedMeansBelow

-----------------------------------------------------------------------------
(* ServerLifecycle.                                                        *)

(* The three parts of its TypeOK, each preserved by itself.                *)
Places ==
  /\ main \in StartSteps \cup StopSteps \cup {"looping", "over"}
  /\ http \in {"none", "socket", "bind", "test", "accept", "client", "answer", "ended",
               "joined"}
  /\ socket \in {"none", "plain", "listening", "shut", "closed"}
  /\ client \in {"none", "silent", "asking", "gone"}

Flags ==
  /\ failing \in BOOLEAN /\ graceful \in BOOLEAN /\ masked \in BOOLEAN
  /\ unread \in BOOLEAN /\ killed \in BOOLEAN /\ workers \in BOOLEAN
  /\ running \in BOOLEAN /\ listenFd \in BOOLEAN

Descriptor == listenFd => socket \notin {"none", "closed"}

ServerInv == Places /\ Flags /\ Descriptor /\ NoThreadLeft

LEMMA ServerInitInv == ServerInit => ServerInv
<1> SUFFICES ASSUME ServerInit PROVE ServerInv
  OBVIOUS
<1>1. Places /\ NoThreadLeft
  BY DEF ServerInit, Places, NoThreadLeft, StartSteps
<1>2. Flags
  BY DEF ServerInit, Flags
<1>3. Descriptor
  BY DEF ServerInit, Descriptor
<1> QED
  BY <1>1, <1>2, <1>3 DEF ServerInv

-----------------------------------------------------------------------------
(* run(), stop() and the destructors.                                      *)
LEMMA MainInv ==
  ServerInv /\ (Main \/ Throw) => Places' /\ Flags' /\ Descriptor'
<1> SUFFICES ASSUME Places, Flags, Descriptor, Main \/ Throw
             PROVE  Places' /\ Flags' /\ Descriptor'
  BY DEF ServerInv
<1>1. Places'
  BY DEF Places, StartSteps, StopSteps, Main, Throw,
    StartHttp, CreatePool, BlockSignals, Listen,
    ReadSignal, StopFlag, Shutdown, Close, Join,
    Finish, StopPool, httpVars
<1>2. Flags'
  <2>1. CASE StartHttp \/ CreatePool \/ BlockSignals \/ Listen
    BY <2>1, Zenon DEF Flags, StartHttp, CreatePool, BlockSignals, Listen,
      signalVars, httpVars
  <2>2. CASE ReadSignal \/ StopFlag \/ Shutdown \/ Close
    BY <2>2, Zenon DEF Flags, ReadSignal, StopFlag, Shutdown, Close,
      signalVars, httpVars
  <2>3. CASE Join \/ Finish \/ StopPool \/ Throw
    BY <2>3, Zenon DEF Flags, Join, Finish, StopPool, Throw, signalVars, httpVars
  <2> QED
    BY <2>1, <2>2, <2>3 DEF Main
<1>3. Descriptor'
  BY DEF Descriptor, Main, Throw, StartHttp, CreatePool,
    BlockSignals, Listen, ReadSignal, StopFlag,
    Shutdown, Close, Join, Finish, StopPool,
    httpVars
<1> QED
  BY <1>1, <1>2, <1>3

(* HttpServer::run().                                                      *)
LEMMA HttpInv == ServerInv /\ Http => Places' /\ Flags' /\ Descriptor'
<1> SUFFICES ASSUME Places, Flags, Descriptor, Http
             PROVE  Places' /\ Flags' /\ Descriptor'
  BY DEF ServerInv
<1> USE DEF Http, HttpEnds, CreateSocket, Bind,
  Test, Accept, HandleClient, SendAnswer
<1>1. Places'
  BY DEF Places, mainVars
<1>2. Flags'
  BY DEF Flags, mainVars, signalVars
<1>3. Descriptor'
  BY DEF Descriptor
<1> QED
  BY <1>1, <1>2, <1>3

(* HTTP clients and signals.                                               *)
LEMMA OutsideInv ==
  ServerInv /\ (Clients \/ SignalProcess \/ SignalMain)
    => Places' /\ Flags' /\ Descriptor'
<1> SUFFICES ASSUME Places, Flags, Descriptor,
                    Clients \/ SignalProcess \/ SignalMain
             PROVE  Places' /\ Flags' /\ Descriptor'
  BY DEF ServerInv
<1> USE DEF Clients, ClientConnects, ClientActs, SignalProcess,
  SignalMain
<1>1. Places'
  BY DEF Places, mainVars, httpVars
<1>2. Flags'
  BY DEF Flags, mainVars, signalVars, httpVars
<1>3. Descriptor'
  BY DEF Descriptor, httpVars
<1> QED
  BY <1>1, <1>2, <1>3

(* Only a join in stop(), with no worker left, ends run(); nothing happens *)
(* after the end.                                                          *)
LEMMA LastStep ==
  Flags /\ (Main \/ Throw) => NoThreadLeft'
<1> SUFFICES ASSUME Flags, Main \/ Throw, main' = "over"
             PROVE  ~workers' /\ http' \in {"none", "joined"}
  BY DEF NoThreadLeft
<1>1. Join
  BY DEF Main, Throw, StartHttp, CreatePool,
    BlockSignals, Listen, ReadSignal, StopFlag,
    Shutdown, Close, Finish, StopPool
<1> QED
  BY <1>1 DEF Join, Flags

LEMMA ServerInvariance == ServerSpec => []ServerInv
<1>1. ASSUME ServerInv, Alive,
             Http \/ Clients \/ SignalProcess \/ SignalMain
      PROVE  NoThreadLeft'
  BY <1>1 DEF Alive, NoThreadLeft, Http, CreateSocket,
    Bind, Test, Accept, HandleClient, SendAnswer, Clients,
    ClientConnects, ClientActs, SignalProcess, SignalMain,
    mainVars
<1>2. ASSUME ServerInv, UNCHANGED serverVars PROVE ServerInv'
  <2>1. Places' /\ Descriptor' /\ NoThreadLeft'
    BY <1>2 DEF ServerInv, Places, Descriptor, NoThreadLeft, serverVars
  <2>2. Flags'
    BY <1>2 DEF ServerInv, Flags, serverVars
  <2> QED
    BY <2>1, <2>2 DEF ServerInv
<1>3. ServerInv /\ [ServerNext]_(serverVars) => ServerInv'
  BY <1>1, <1>2, MainInv, HttpInv, OutsideInv, LastStep DEF ServerInv, ServerNext,
    Over
<1> QED
  BY ServerInitInv, <1>3, PTL DEF ServerSpec

-----------------------------------------------------------------------------
(* Type correctness; listenFd_ never names a socket that was closed        *)
(* (HttpServer.cpp:96-122).                                                *)
THEOREM ServerTypeCorrect == ServerSpec => []ServerTypeOK
<1>1. ServerInv => ServerTypeOK
  BY DEF ServerInv, Places, Flags, Descriptor, ServerTypeOK
<1> QED
  BY ServerInvariance, <1>1, PTL

(* However run() is left, by return or by exception, the workers and the   *)
(* HTTP thread have been joined before its objects are destroyed           *)
(* (HttpServer.cpp:96-122).                                                *)
THEOREM ThreadsJoined == ServerSpec => []NoThreadLeft
<1>1. ServerInv => NoThreadLeft
  BY DEF ServerInv
<1> QED
  BY ServerInvariance, <1>1, PTL

-----------------------------------------------------------------------------
(* EventLoop.  A wake-up could be lost only between a swap and the next    *)
(* epoll_wait; AwakeOrArmed says that in all that time the eventfd, which  *)
(* is reset only while channels are dispatched, covers what is pending.    *)

AwakeOrArmed ==
  pc \in {"created", "check", "waiting", "running"} /\ pending # <<>>
    => readable \/ Writing

(* Nothing is left in the batch outside doPendingFunctors, nothing is      *)
(* ready outside the dispatch, and only a test of quit_ leads back to      *)
(* epoll_wait.                                                             *)
Iteration ==
  /\ pc # "running" => batch = <<>>
  /\ pc = "waiting" => ~quit

LoopInv == LoopTypeOK /\ AwakeOrArmed /\ Iteration

LEMMA LoopInitInv == LoopInit => LoopInv
<1> SUFFICES ASSUME LoopInit PROVE LoopInv
  OBVIOUS
<1>1. pending \in Seq(Functors) /\ batch \in Seq(Functors)
  BY DEF LoopInit
<1>2. poster \in [Posters -> PosterStates]
  BY DEF LoopInit, PosterStates
<1>3. LoopTypeOK
  BY <1>1, <1>2 DEF LoopInit, LoopTypeOK, LoopStates
<1>4. AwakeOrArmed /\ Iteration
  BY DEF LoopInit, AwakeOrArmed, Iteration
<1> QED
  BY <1>3, <1>4 DEF LoopInv

LEMMA PostInv ==
  ASSUME LoopInv, NEW p \in Posters, NEW f \in Functors, Post(p, f)
  PROVE  LoopInv'
<1>1. Append(pending, f) \in Seq(Functors)
  BY DEF LoopInv, LoopTypeOK
<1>2. LoopTypeOK'
  BY <1>1 DEF LoopInv, LoopTypeOK, Post, PosterStates
<1>3. Writing'
  BY DEF LoopInv, LoopTypeOK, Post, Writing
<1> QED
  BY <1>2, <1>3 DEF LoopInv, AwakeOrArmed, Iteration, Post

LEMMA WakeupInv ==
  ASSUME LoopInv, NEW p \in Posters, Wakeup(p)
  PROVE  LoopInv'
<1>1. LoopTypeOK'
  BY DEF LoopInv, LoopTypeOK, Wakeup, PosterStates
<1> QED
  BY <1>1 DEF LoopInv, AwakeOrArmed, Iteration, Wakeup

LEMMA LoopStepInv ==
  ASSUME LoopInv, Loop
  PROVE  LoopInv'
<1> USE DEF LoopInv, LoopTypeOK, AwakeOrArmed, Iteration, LoopStates, Writing
<1>1. CASE Enter
  BY <1>1 DEF Enter
<1>2. CASE Check
  BY <1>2 DEF Check
<1>3. CASE HandleWakeup
  BY <1>3 DEF HandleWakeup
<1>4. CASE HandleSignal
  BY <1>4 DEF HandleSignal
<1>5. CASE HandleOther
  BY <1>5 DEF HandleOther
<1>6. CASE Swap
  <2>1. pending' = <<>> /\ <<>> \in Seq(Functors)
    BY <1>6 DEF Swap
  <2> QED
    BY <1>6, <2>1 DEF Swap
<1>7. CASE RunOne
  <2>1. Head(batch) \in Functors /\ Tail(batch) \in Seq(Functors)
    BY <1>7 DEF RunOne
  <2> QED
    BY <1>7, <2>1 DEF RunOne
<1>8. CASE EndIteration
  BY <1>8 DEF EndIteration
<1> QED
  BY <1>1, <1>2, <1>3, <1>4, <1>5, <1>6, <1>7, <1>8 DEF Loop

LEMMA LoopInvariance == LoopSpec => []LoopInv
<1>1. ASSUME LoopInv, Signal PROVE LoopInv'
  BY <1>1 DEF LoopInv, LoopTypeOK, AwakeOrArmed, Iteration, Writing, Signal
<1>2. ASSUME LoopInv, NEW events \in SUBSET Sources, WaitReturns(events) PROVE LoopInv'
  BY <1>2 DEF LoopInv, LoopTypeOK, AwakeOrArmed, Iteration, Writing, WaitReturns,
              LoopStates
<1>3. ASSUME LoopInv, UNCHANGED loopVars PROVE LoopInv'
  BY <1>3 DEF LoopInv, LoopTypeOK, AwakeOrArmed, Iteration, Writing, loopVars
<1>4. LoopInv /\ [LoopNext]_loopVars => LoopInv'
  BY <1>1, <1>2, <1>3, PostInv, WakeupInv, LoopStepInv DEF LoopNext, Ended
<1> QED
  BY LoopInitInv, <1>4, PTL DEF LoopSpec

(* Types: what the two vectors hold and where a poster can be              *)
(* (EventLoop.cpp:344-495).                                                *)
THEOREM LoopTypeCorrect == LoopSpec => []LoopTypeOK
<1>1. LoopInv => LoopTypeOK
  BY DEF LoopInv
<1> QED
  BY LoopInvariance, <1>1, PTL

(* No functor is left in the queue with the loop asleep and nobody on its  *)
(* way to wake it, although the push and the eventfd write are two steps.  *)
THEOREM WakeupNotLost == LoopSpec => []NoLostWakeup
<1>1. LoopInv => NoLostWakeup
  BY DEF LoopInv, AwakeOrArmed, NoLostWakeup
<1> QED
  BY LoopInvariance, <1>1, PTL

(* epoll_wait is never entered with quit_ set.                             *)
THEOREM QuitNotMissed == LoopSpec => []QuitIsSeen
<1>1. LoopInv => QuitIsSeen
  BY DEF LoopInv, Iteration, QuitIsSeen
<1> QED
  BY LoopInvariance, <1>1, PTL

-----------------------------------------------------------------------------
(* Sequences joined and cut: what Post, Swap and RunOne do to the functors *)
(* still to run.                                                           *)
LEMMA Concatenation ==
  ASSUME NEW b \in Seq(Functors), NEW q \in Seq(Functors), NEW f \in Functors
  PROVE  /\ b \o Append(q, f) = Append(b \o q, f)
         /\ q \o <<>> = q
         /\ <<>> \o q = q
         /\ b # <<>> => /\ b \o q # <<>>
                        /\ Head(b \o q) = Head(b)
                        /\ Tail(b \o q) = Tail(b) \o q
<1>1. b \o Append(q, f) = Append(b \o q, f)
  OBVIOUS
<1>2. q \o <<>> = q /\ <<>> \o q = q
  OBVIOUS
<1>3. ASSUME b # <<>>
      PROVE  b \o q # <<>> /\ Head(b \o q) = Head(b) /\ Tail(b \o q) = Tail(b) \o q
  BY <1>3
<1> QED
  BY <1>1, <1>2, <1>3

LEMMA FreshInBoth ==
  ASSUME LoopTypeOK, NEW f \in Functors, Fresh(f)
  PROVE  Abstract!Fresh(f)
<1> DEFINE c == batch \o pending
<1>1. /\ DOMAIN batch = 1 .. Len(batch) /\ DOMAIN pending = 1 .. Len(pending)
      /\ Len(batch) \in Nat /\ Len(pending) \in Nat
  BY DEF LoopTypeOK
<1>2. /\ DOMAIN c = 1 .. (Len(batch) + Len(pending))
      /\ \A i \in DOMAIN c : c[i] = IF i <= Len(batch) THEN batch[i]
                                    ELSE pending[i - Len(batch)]
  BY DEF LoopTypeOK
<1> HIDE DEF c
<1>3. ASSUME NEW i \in DOMAIN c PROVE c[i] # f
  <2>1. CASE i <= Len(batch)
    BY <1>1, <1>2, <2>1 DEF Fresh, InSeq
  <2>2. CASE ~(i <= Len(batch))
    <3>1. i - Len(batch) \in DOMAIN pending
      BY <1>1, <1>2, <2>2
    <3> QED
      BY <1>2, <2>2, <3>1 DEF Fresh, InSeq
  <2> QED
    BY <2>1, <2>2
<1> QED
  BY <1>3 DEF Abstract!Fresh, Fresh, c

LEMMA StepRefines == LoopInv /\ [LoopNext]_loopVars => [Abstract!Next]_(Abstract!vars)
<1> SUFFICES ASSUME LoopInv, [LoopNext]_loopVars
             PROVE  Abstract!Next \/ UNCHANGED Abstract!vars
  OBVIOUS
<1> USE DEF Abstract!vars
<1>0. LoopTypeOK /\ Iteration
  BY DEF LoopInv
<1>1. ASSUME UNCHANGED <<pending, batch, ran>>, (pc' # "ended") = (pc # "ended")
      PROVE  UNCHANGED Abstract!vars
  BY <1>1
<1>2. ASSUME NEW p \in Posters, NEW f \in Functors, Post(p, f)
      PROVE  Abstract!Next
  <2>1. /\ batch' \o pending' = Append(batch \o pending, f)
        /\ UNCHANGED <<ran, pc>>
    BY <1>0, <1>2, Concatenation DEF Post, LoopTypeOK
  <2>2. Abstract!Fresh(f)
    BY <1>0, <1>2, FreshInBoth DEF Post
  <2>3. Abstract!Post(f)
    BY <2>1, <2>2 DEF Abstract!Post
  <2> QED
    BY <2>3 DEF Abstract!Next
<1>3. CASE Swap
  <2>1. /\ batch' \o pending' = pending \o <<>>
        /\ batch \o pending = <<>> \o pending
        /\ UNCHANGED ran /\ pc # "ended" /\ pc' # "ended"
    BY <1>0, <1>3 DEF Swap, Iteration
  <2>2. pending \o <<>> = pending /\ <<>> \o pending = pending
    BY <1>0 DEF LoopTypeOK
  <2> QED
    BY <2>1, <2>2
<1>4. CASE RunOne
  <2>1. /\ batch \o pending # <<>>
        /\ Head(batch \o pending) = Head(batch)
        /\ Tail(batch \o pending) = Tail(batch) \o pending
    <3>1. batch # <<>> /\ Head(batch) \in Functors
      BY <1>0, <1>4 DEF RunOne, LoopTypeOK
    <3> QED
      BY <1>0, <3>1, Concatenation DEF LoopTypeOK
  <2>2. Abstract!Run
    BY <1>4, <2>1 DEF RunOne, Abstract!Run
  <2> QED
    BY <2>2 DEF Abstract!Next
<1>5. CASE Check
  <2>1. CASE quit
    BY <1>5, <2>1 DEF Check, Abstract!Next, Abstract!End
  <2>2. CASE ~quit
    BY <1>1, <1>5, <2>2 DEF Check
  <2> QED
    BY <2>1, <2>2
<1>6. ASSUME NEW p \in Posters, Wakeup(p) PROVE UNCHANGED Abstract!vars
  BY <1>1, <1>6 DEF Wakeup
<1>7. CASE Signal
  BY <1>1, <1>7 DEF Signal
<1>8. ASSUME NEW events \in SUBSET Sources, WaitReturns(events)
      PROVE  UNCHANGED Abstract!vars
  BY <1>1, <1>8 DEF WaitReturns
<1>9. CASE Enter \/ HandleWakeup \/ HandleSignal \/ HandleOther \/ EndIteration
  BY <1>1, <1>9 DEF Enter, HandleWakeup, HandleSignal, HandleOther, EndIteration
<1>10. CASE UNCHANGED loopVars
  BY <1>1, <1>10 DEF loopVars
<1> QED
  BY <1>2, <1>3, <1>4, <1>5, <1>6, <1>7, <1>8, <1>9, <1>10
     DEF LoopNext, Loop, Ended

(* EventLoop implements Mailbox: across the two vectors, functors run once *)
(* each and in the order in which they were posted, until the loop ends.   *)
THEOREM LoopRefinement == LoopSpec => ImplementsMailbox
<1>1. LoopInit => Abstract!Init
  BY DEF LoopInit, Abstract!Init
<1>2. LoopInv /\ [LoopNext]_loopVars => [Abstract!Next]_(Abstract!vars)
  BY StepRefines
<1> QED
  BY <1>1, <1>2, LoopInvariance, PTL DEF LoopSpec, ImplementsMailbox, Abstract!Spec
=============================================================================
