--------------------------- MODULE AgentLinkProofs --------------------------
(***************************************************************************)
(* Proofs about AgentLink for every interval, maximum delay, timeout and   *)
(* frame size.  The distance in time between two attempts rests on what    *)
(* the reconnect delay is, a function of the failures in a row, and on     *)
(* since + wait, which only grows while no attempt is going on.            *)
(***************************************************************************)
EXTENDS AgentLink, CommonLemmas, TLAPS

(* TypeOK in two parts, for provers of two kinds.                          *)
Flags ==
  /\ running \in BOOLEAN /\ connected \in BOOLEAN /\ reachable \in BOOLEAN
  /\ full \in BOOLEAN
Ranges ==
  /\ pc \in {"sleeping", "sampled", "connecting", "sending", "stopped"}
  /\ late \in (0 - Interval) .. MaxLate
  /\ delay \in 1 .. MaxReconnectDelay /\ wait \in 0 .. MaxReconnectDelay
  /\ rest \in 0 .. FrameSize /\ carry \in 0 .. FrameSize - 1
  /\ peer \in {"none", "open", "gone", "reset"}
  /\ elapsed \in 0 .. ConnectTimeout /\ since \in 0 .. MaxSince
  /\ failures \in 0 .. MaxFailures

(* The rest of a round comes after its sample was due, and a frame is only *)
(* sent on a connection (MonitorAgent.cpp:731-1010).                       *)
Rounds ==
  /\ pc \in {"sampled", "connecting", "sending"} => late >= 0
  /\ pc = "sending" => connected /\ rest # 0

(* reconnectDelay is what the failures in a row ask for next, and the last *)
(* one asked for a pause that is not over before since + wait says so.     *)
Spacing ==
  /\ delay = Backoff[failures + 1]
  /\ pc = "connecting" => since = elapsed
  /\ failures > 0 /\ pc # "connecting" => since + wait >= Backoff[failures]

IInv == Flags /\ Ranges /\ Rounds /\ FramesAligned /\ Spacing

-----------------------------------------------------------------------------
LEMMA Constants ==
  /\ Interval \in Nat /\ Interval > 0
  /\ MaxReconnectDelay \in Nat /\ MaxReconnectDelay > 0
  /\ ConnectTimeout \in Nat
  /\ FrameSize \in Nat /\ FrameSize > 0
  /\ MaxLate \in Nat
  /\ MaxSince = MaxReconnectDelay + ConnectTimeout
  /\ MaxFailures = MaxReconnectDelay
BY LinkAssumption DEF MaxSince, MaxFailures

(* The recursive definition of Backoff defines what it says.               *)
LEMMA BackoffDefined ==
  /\ Backoff \in [Nat -> 1 .. MaxReconnectDelay]
  /\ Backoff[1] = 1
  /\ \A n \in Nat \ {0} :
       Backoff[n + 1] = Least(2 * Backoff[n], MaxReconnectDelay)
<1> DEFINE V == 1 .. MaxReconnectDelay
           Step == [n \in Nat |-> [v \in V |->
                      IF n = 0 THEN 1 ELSE Least(2 * v, MaxReconnectDelay)]]
           Body(g) == [n \in Nat |->
                         IF n <= 1 THEN 1 ELSE Least(2 * g[n - 1], MaxReconnectDelay)]
<1>1. 1 \in V /\ Step \in [Nat -> [V -> V]]
  BY Constants DEF Least
<1>2. PICK g \in [Nat -> V] : g[0] = 1 /\ \A n \in Nat : g[n + 1] = Step[n][g[n]]
  <2> HIDE DEF V, Step
  <2>1. \A first \in V : \A F \in [Nat -> [V -> V]] :
          \E g \in [Nat -> V] :
            g[0] = first /\ \A n \in Nat : g[n + 1] = F[n][g[n]]
    BY NatRecursion
  <2> QED BY <1>1, <2>1
<1>3. g[1] = 1
  <2>1. g[0 + 1] = Step[0][g[0]] /\ g[0] \in V
    <3> HIDE DEF V, Step
    <3> QED BY <1>2
  <2> QED
    BY <2>1
<1>4. \A n \in Nat \ {0} : g[n + 1] = Least(2 * g[n], MaxReconnectDelay)
  BY <1>2
<1>5. g = Body(g)
  <2>1. ASSUME NEW n \in Nat PROVE g[n] = Body(g)[n]
    <3>1. CASE n <= 1
      BY <1>2, <1>3, <3>1
    <3>2. CASE n > 1
      <4>1. n - 1 \in Nat \ {0} /\ (n - 1) + 1 = n
        BY <3>2
      <4> QED
        BY <1>4, <3>2, <4>1
    <3> QED
      BY <3>1, <3>2
  <2> QED
    BY <1>2, <2>1
<1>6. Backoff = Body(Backoff)
  <2> HIDE DEF V, Step
  <2> QED BY <1>5, Zenon DEF Backoff
<1>7. Backoff[1] = 1
  BY <1>6
<1>8. \A n \in Nat \ {0} : Backoff[n + 1] = Least(2 * Backoff[n], MaxReconnectDelay)
  <2> SUFFICES ASSUME NEW n \in Nat \ {0}
               PROVE  Backoff[n + 1] = Least(2 * Backoff[n], MaxReconnectDelay)
    OBVIOUS
  <2>1. n + 1 \in Nat /\ ~ (n + 1 <= 1) /\ (n + 1) - 1 = n
    OBVIOUS
  <2>2. Backoff[n + 1] = Body(Backoff)[n + 1]
    <3> HIDE DEF Body
    <3> QED BY <1>6
  <2> QED
    BY <2>1, <2>2
<1>9. Backoff \in [Nat -> V]
  <2> DEFINE S == {n \in Nat : Backoff[n] \in V}
  <2>1. 0 \in S
    BY <1>1, <1>6
  <2>2. ASSUME NEW n \in Nat, n \in S PROVE n + 1 \in S
    <3>1. CASE n = 0
      BY <1>1, <1>7, <3>1
    <3>2. CASE n # 0
      BY <1>8, <2>2, <3>2, Constants DEF Least
    <3> QED
      BY <3>1, <3>2
  <2>3. Nat \subseteq S
    <3> HIDE DEF S
    <3> QED BY <2>1, <2>2, NatSetInduction
  <2> QED
    BY <1>6, <2>3
<1> QED
  BY <1>7, <1>8, <1>9

(* The n-th pause is at least n, so that the maximum is reached.           *)
LEMMA BackoffGrows == \A n \in Nat : Backoff[n] >= Least(n, MaxReconnectDelay)
<1> DEFINE S == {n \in Nat : Backoff[n] >= Least(n, MaxReconnectDelay)}
<1>1. 0 \in S
  BY BackoffDefined, Constants DEF Least
<1>2. ASSUME NEW n \in Nat, n \in S PROVE n + 1 \in S
  <2>1. Backoff[n] \in 1 .. MaxReconnectDelay
    BY BackoffDefined
  <2>2. CASE n = 0
    BY <2>2, BackoffDefined, Constants DEF Least
  <2>3. CASE n # 0
    <3>1. Backoff[n + 1] = Least(2 * Backoff[n], MaxReconnectDelay)
      BY <2>3, BackoffDefined
    <3> QED
      BY <1>2, <2>1, <2>3, <3>1, Constants DEF Least
  <2> QED
    BY <2>2, <2>3
<1>3. Nat \subseteq S
  <2> HIDE DEF S
  <2> QED BY <1>1, <1>2, NatSetInduction
<1> QED
  BY <1>3

(* What a failed connect makes of delay is what the next count of failures *)
(* asks for, also when that count has reached its bound.                   *)
LEMMA NextBackoff ==
  ASSUME NEW n \in 0 .. MaxFailures
  PROVE  LET m == Least(n + 1, MaxFailures) IN
         /\ m \in 1 .. MaxFailures
         /\ Least(2 * Backoff[n + 1], MaxReconnectDelay) = Backoff[m + 1]
         /\ Backoff[n + 1] >= Backoff[m]
         /\ Backoff[n + 1] \in 1 .. MaxReconnectDelay
         /\ Backoff[m] \in 1 .. MaxReconnectDelay
<1> DEFINE m == Least(n + 1, MaxFailures)
<1>1. n \in Nat /\ m \in 1 .. MaxFailures /\ m \in Nat
  BY Constants DEF Least
<1>2. Least(2 * Backoff[n + 1], MaxReconnectDelay) = Backoff[n + 2]
  <2>1. n + 1 \in Nat \ {0} /\ (n + 1) + 1 = n + 2
    BY <1>1
  <2> QED
    BY <2>1, BackoffDefined
<1>3. /\ Backoff[n + 1] \in 1 .. MaxReconnectDelay
      /\ Backoff[m] \in 1 .. MaxReconnectDelay
  BY <1>1, BackoffDefined
<1>4. CASE n < MaxFailures
  BY <1>1, <1>2, <1>3, <1>4, Constants DEF Least
<1>5. CASE n = MaxFailures
  <2>1. \A k \in Nat : k >= MaxReconnectDelay => Backoff[k] = MaxReconnectDelay
    BY BackoffDefined, BackoffGrows, Constants DEF Least
  <2>2. m = n
    BY <1>1, <1>5, Constants DEF Least
  <2> QED
    BY <1>1, <1>2, <1>3, <1>5, <2>1, <2>2, Constants DEF Least
<1>6. n < MaxFailures \/ n = MaxFailures
  BY Constants
<1> QED
  BY <1>4, <1>5, <1>6

-----------------------------------------------------------------------------
LEMMA InitInv == Init => IInv
<1> SUFFICES ASSUME Init PROVE IInv
  OBVIOUS
<1>1. Flags
  BY DEF Init, Flags
<1>2. Ranges
  BY Constants DEF Init, Ranges
<1>3. Rounds /\ FramesAligned
  BY DEF Init, Rounds, FramesAligned
<1>4. Spacing
  BY BackoffDefined DEF Init, Spacing
<1> QED
  BY <1>1, <1>2, <1>3, <1>4 DEF IInv

(* What Send(n) does to the bytes after the last whole frame.              *)
LEMMA CarryAfterSend ==
  ASSUME NEW r \in 1 .. FrameSize, NEW n \in 1 .. r
  PROVE  ((FrameSize - r) + n) % FrameSize = IF n = r THEN 0 ELSE FrameSize - (r - n)
<1>1. CASE n = r
  <2>1. (FrameSize - r) + n = FrameSize
    BY <1>1, Constants
  <2>2. FrameSize % FrameSize = 0
    BY Constants
  <2> QED
    BY <1>1, <2>1, <2>2
<1>2. CASE n # r
  <2>1. (FrameSize - r) + n \in 0 .. FrameSize - 1
    BY <1>2, Constants
  <2>2. \A x \in 0 .. FrameSize - 1 : x % FrameSize = x
    BY Constants
  <2>3. (FrameSize - r) + n = FrameSize - (r - n)
    BY Constants
  <2> QED
    BY <1>2, <2>1, <2>2, <2>3
<1> QED
  BY <1>1, <1>2

-----------------------------------------------------------------------------
LEMMA FlagsStep == Flags /\ [Next]_vars => Flags'
<1> SUFFICES ASSUME Flags, [Next]_vars PROVE Flags'
  OBVIOUS
<1> USE DEF Flags
<1>1. ASSUME Agent PROVE Flags'
  BY <1>1 DEF Agent, WakeUp, SkipConnect, Connect, ConnectSucceeds, ConnectFails,
    Send, SendFails, Disconnect, NextRound, link
<1>2. ASSUME SampleFails \/ Terminate \/ ServerLost \/ ServerBack \/ ServerReads PROVE Flags'
  BY <1>2 DEF SampleFails, Terminate, ServerLost, ServerBack, ServerReads, Disconnect, link
<1>3. ASSUME ResetArrives \/ Tick \/ Stopped PROVE Flags'
  BY <1>3 DEF ResetArrives, Tick, Stopped, link, vars
<1> QED
  BY <1>1, <1>2, <1>3 DEF Next, vars

(* A round ends with late not below -Interval: it was not before 0.        *)
LEMMA RoundEnds ==
  ASSUME Ranges, late >= 0, NextRound
  PROVE  /\ late' \in (0 - Interval) .. MaxLate
         /\ pc' \in {"sleeping", "stopped"}
BY Constants DEF Ranges, NextRound

LEMMA AgentStep ==
  ASSUME Flags, Ranges, Rounds, FramesAligned, Agent
  PROVE  Ranges' /\ Rounds' /\ FramesAligned'
<1> USE DEF Ranges, Rounds, FramesAligned
<1>1. ASSUME WakeUp PROVE Ranges' /\ Rounds' /\ FramesAligned'
  BY <1>1, Constants DEF WakeUp, Disconnect, link, backoff
<1>2. ASSUME SkipConnect PROVE Ranges' /\ Rounds' /\ FramesAligned'
  <2>1. CASE connected
    BY <1>2, <2>1, Constants DEF SkipConnect, backoff
  <2>2. CASE ~connected
    BY <1>2, <2>2, Constants, RoundEnds DEF SkipConnect, backoff
  <2> QED
    BY <2>1, <2>2
<1>3. ASSUME Connect PROVE Ranges' /\ Rounds' /\ FramesAligned'
  BY <1>3, Constants DEF Connect, link
<1>4. ASSUME ConnectSucceeds PROVE Ranges' /\ Rounds' /\ FramesAligned'
  BY <1>4, Constants DEF ConnectSucceeds
<1>5. ASSUME ConnectFails PROVE Ranges' /\ Rounds' /\ FramesAligned'
  <2>1. late' \in (0 - Interval) .. MaxLate /\ pc' \in {"sleeping", "stopped"}
    BY <1>5, RoundEnds DEF ConnectFails
  <2>2. /\ wait' \in 0 .. MaxReconnectDelay
        /\ delay' \in 1 .. MaxReconnectDelay
        /\ failures' \in 0 .. MaxFailures
    BY <1>5, Constants DEF ConnectFails, AtLeastZero, Least
  <2> QED
    BY <1>5, <2>1, <2>2 DEF ConnectFails, link
<1>6. ASSUME NEW n \in 1 .. FrameSize, Send(n)
      PROVE  Ranges' /\ Rounds' /\ FramesAligned'
  <2>1. rest \in 1 .. FrameSize /\ n \in 1 .. rest /\ carry = FrameSize - rest
    BY <1>6, Constants DEF Send
  <2>2. carry' = IF n = rest THEN 0 ELSE FrameSize - (rest - n)
    BY <1>6, <2>1, CarryAfterSend DEF Send
  <2>3. rest' = rest - n /\ rest' \in 0 .. FrameSize /\ carry' \in 0 .. FrameSize - 1
    BY <1>6, <2>1, <2>2, Constants DEF Send
  <2>4. CASE n = rest
    <3>1. late' \in (0 - Interval) .. MaxLate /\ pc' \in {"sleeping", "stopped"}
      BY <1>6, <2>4, RoundEnds DEF Send
    <3> QED
      BY <1>6, <2>2, <2>3, <2>4, <3>1 DEF Send, backoff
  <2>5. CASE n # rest
    BY <1>6, <2>1, <2>2, <2>3, <2>5 DEF Send, backoff
  <2> QED
    BY <2>4, <2>5
<1>7. ASSUME SendFails PROVE Ranges' /\ Rounds' /\ FramesAligned'
  <2>1. late' \in (0 - Interval) .. MaxLate /\ pc' \in {"sleeping", "stopped"}
    BY <1>7, RoundEnds DEF SendFails
  <2> QED
    BY <1>7, <2>1, Constants DEF SendFails, Disconnect
<1> QED
  BY <1>1, <1>2, <1>3, <1>4, <1>5, <1>6, <1>7 DEF Agent

LEMMA OutsideStep ==
  ASSUME Flags, Ranges, Rounds, FramesAligned, [Next]_vars, ~Agent
  PROVE  Ranges' /\ Rounds' /\ FramesAligned'
<1> USE DEF Ranges, Rounds, FramesAligned
<1>1. ASSUME SampleFails PROVE Ranges' /\ Rounds' /\ FramesAligned'
  BY <1>1, Constants DEF SampleFails, Disconnect, backoff
<1>2. ASSUME Terminate \/ ServerBack PROVE Ranges' /\ Rounds' /\ FramesAligned'
  BY <1>2 DEF Terminate, ServerBack, backoff, link
<1>3. ASSUME ServerLost \/ ServerReads \/ ResetArrives
      PROVE  Ranges' /\ Rounds' /\ FramesAligned'
  BY <1>3 DEF ServerLost, ServerReads, ResetArrives, backoff
<1>4. ASSUME Tick PROVE Ranges' /\ Rounds' /\ FramesAligned'
  <2>1. late' \in (0 - Interval) .. MaxLate /\ (late >= 0 => late' >= 0)
    BY <1>4, Constants DEF Tick, Least
  <2>2. wait' \in 0 .. MaxReconnectDelay /\ since' \in 0 .. MaxSince
    BY <1>4, Constants DEF Tick, Least, AtLeastZero
  <2>3. elapsed' \in 0 .. ConnectTimeout
    BY <1>4, Constants DEF Tick
  <2> QED
    BY <1>4, <2>1, <2>2, <2>3 DEF Tick, link
<1>5. ASSUME Stopped \/ UNCHANGED vars PROVE Ranges' /\ Rounds' /\ FramesAligned'
  BY <1>5 DEF Stopped, vars
<1> QED
  BY <1>1, <1>2, <1>3, <1>4, <1>5 DEF Next

-----------------------------------------------------------------------------
LEMMA SpacingStep ==
  ASSUME Ranges, Rounds, Spacing, [Next]_vars
  PROVE  Spacing'
<1> USE DEF Spacing
<1>1. /\ failures \in Nat /\ wait \in Nat /\ since \in 0 .. MaxSince
      /\ elapsed \in 0 .. ConnectTimeout
      /\ failures # 0 => Backoff[failures] \in 1 .. MaxReconnectDelay
  BY Constants, BackoffDefined DEF Ranges
<1>2. ASSUME WakeUp \/ SkipConnect \/ SampleFails PROVE Spacing'
  <2>1. UNCHANGED backoff /\ pc # "connecting" /\ pc' # "connecting"
    BY <1>2 DEF WakeUp, SkipConnect, SampleFails, NextRound
  <2> QED
    BY <2>1 DEF backoff
<1>3. ASSUME Connect PROVE Spacing'
  BY <1>3 DEF Connect
<1>4. ASSUME ConnectSucceeds \/ SendFails PROVE Spacing'
  <2>1. delay' = 1 /\ failures' = 0 /\ pc' # "connecting"
    BY <1>4 DEF ConnectSucceeds, SendFails, NextRound
  <2> QED
    BY <2>1, BackoffDefined
<1>5. ASSUME ConnectFails PROVE Spacing'
  <2>1. /\ delay' = Backoff[failures' + 1]
        /\ delay >= Backoff[failures']
        /\ delay \in Nat /\ Backoff[failures'] \in Nat
    BY <1>5, NextBackoff DEF ConnectFails, Ranges
  <2>2. since' = elapsed /\ wait' = AtLeastZero(delay - elapsed)
    BY <1>5 DEF ConnectFails
  <2>3. since' + wait' >= Backoff[failures']
    BY <1>1, <2>1, <2>2 DEF AtLeastZero
  <2>4. pc' # "connecting"
    BY <1>5 DEF ConnectFails, NextRound
  <2> QED
    BY <2>1, <2>3, <2>4
<1>6. ASSUME NEW n \in 1 .. FrameSize, Send(n) PROVE Spacing'
  <2>1. UNCHANGED backoff /\ pc # "connecting" /\ pc' # "connecting"
    BY <1>6 DEF Send, NextRound
  <2> QED
    BY <2>1 DEF backoff
<1>7. ASSUME Terminate \/ ServerLost \/ ServerBack \/ ServerReads \/ ResetArrives PROVE Spacing'
  <2>1. UNCHANGED <<pc, backoff>>
    BY <1>7 DEF Terminate, ServerLost, ServerBack, ServerReads, ResetArrives
  <2> QED
    BY <2>1 DEF backoff
<1>8. ASSUME Tick PROVE Spacing'
  <2>1. UNCHANGED <<pc, delay, failures>>
    BY <1>8 DEF Tick
  <2>2. CASE pc = "connecting"
    BY <1>1, <1>8, <2>1, <2>2, Constants DEF Tick, Least
  <2>3. CASE pc # "connecting"
    <3>1. since' = Least(since + 1, MaxSince) /\ wait' = AtLeastZero(wait - 1)
      BY <1>8 DEF Tick
    <3>2. since' + wait' >= since + wait \/ since' >= MaxReconnectDelay
      BY <1>1, <3>1, Constants DEF Least, AtLeastZero
    <3>3. since' \in Nat /\ wait' \in Nat
      BY <1>1, <3>1, Constants DEF Least, AtLeastZero
    <3>4. ASSUME failures # 0 PROVE since' + wait' >= Backoff[failures]
      <4>1. since + wait >= Backoff[failures] /\ Backoff[failures] \in 1 .. MaxReconnectDelay
        BY <1>1, <2>3, <3>4
      <4>2. since \in Nat /\ wait \in Nat /\ MaxReconnectDelay \in Nat
        BY <1>1, Constants
      <4>3. PICK s \in Nat, w \in Nat : s = since' /\ w = wait'
        BY <3>3
      <4>4. s + w >= since + wait \/ s >= MaxReconnectDelay
        BY <3>2, <4>3
      <4>5. s + w >= Backoff[failures]
        BY <4>1, <4>2, <4>4
      <4> QED
        BY <4>3, <4>5
    <3> QED
      BY <2>1, <2>3, <3>4
  <2> QED
    BY <2>2, <2>3
<1>9. ASSUME Stopped \/ UNCHANGED vars PROVE Spacing'
  BY <1>9 DEF Stopped, vars
<1> QED
  BY <1>2, <1>3, <1>4, <1>5, <1>6, <1>7, <1>8, <1>9 DEF Next, Agent

LEMMA Invariance == Spec => []IInv
<1>1. IInv /\ [Next]_vars => IInv'
  BY FlagsStep, AgentStep, OutsideStep, SpacingStep DEF IInv
<1> QED
  BY InitInv, <1>1, PTL DEF Spec

(* Types and bounds of the agent's clocks and counters: lateness is never  *)
(* more than one interval in advance, and connect blocks no longer than    *)
(* its timeout (MonitorAgent.cpp:682-1010).                                *)
THEOREM TypeCorrect == Spec => []TypeOK
<1>1. IInv => TypeOK
  BY DEF IInv, Flags, Ranges, TypeOK
<1> QED
  BY Invariance, <1>1, PTL

(* Every frame starts on a frame boundary of its connection, for every     *)
(* frame size and every way send() cuts the frames (TcpClient.cpp:254-361). *)
THEOREM FramesOnBoundaries == Spec => []FramesAligned
<1>1. IInv => FramesAligned
  BY DEF IInv
<1> QED
  BY Invariance, <1>1, PTL

(* Two attempts to connect are as far apart as the failures in a row ask,  *)
(* for every maximum delay and timeout (MonitorAgent.cpp:682-695).         *)
THEOREM BackoffRespected == Spec => AttemptsSpaced
<1>1. IInv /\ [Next]_vars => [Connect /\ failures > 0 => since >= Backoff[failures]]_vars
  <2> SUFFICES ASSUME IInv, Connect, failures > 0
               PROVE  since >= Backoff[failures]
    OBVIOUS
  <2>1. since + wait >= Backoff[failures] /\ wait = 0 /\ since \in Nat
    BY Constants DEF IInv, Spacing, Ranges, Connect
  <2> QED
    BY <2>1
<1> QED
  BY Invariance, <1>1, PTL DEF Spec, AttemptsSpaced
=============================================================================
