----------------------------- MODULE AgentLink -----------------------------
(***************************************************************************)
(* The agent's loop (MonitorAgent::run, src/agent/MonitorAgent.cpp) and    *)
(* its connection (src/network/TcpClient.cpp): sleep until the next sample *)
(* is due, collect, reconnect when the backoff allows, send one frame.     *)
(* One thread does it all, and connect and send block it.                  *)
(*                                                                         *)
(* Time is in seconds.  A point in time is kept as the distance from now.  *)
(* What a sample contains is left out.                                     *)
(***************************************************************************)
EXTENDS Integers

CONSTANTS Interval,           \* intervalSeconds_
          MaxReconnectDelay,  \* maxReconnectDelay
          ConnectTimeout,     \* how long connect may block
          FrameSize,          \* bytes of a frame
          MaxLate             \* bound: lateness is counted up to here

ASSUME LinkAssumption ==
  /\ Interval \in Nat \ {0} /\ MaxReconnectDelay \in Nat \ {0}
  /\ ConnectTimeout \in Nat /\ FrameSize \in Nat \ {0} /\ MaxLate \in Nat

VARIABLES
  pc,         \* where run() is
  running,    \* g_running
  late,       \* now - nextSampleTime
  connected,  \* socketFd_ >= 0
  delay,      \* reconnectDelay
  wait,       \* nextReconnectTime - now, 0 when past
  rest,       \* bytes of the frame sendAll has not handed over
  carry,      \* bytes on this connection after its last whole frame
  reachable,  \* a server accepts connections
  peer,       \* other end: "none", "open", "gone" (silent), "reset"
  full,       \* what was sent and not yet read fills the buffers
  elapsed,    \* how long the last connect has been blocking, or did
  since,      \* history: time since the last connect began
  failures    \* history: failed connects since the last change of luck

vars == <<pc, running, late, connected, delay, wait, rest, carry, reachable,
          peer, full, elapsed, since, failures>>
backoff == <<delay, wait, elapsed, since, failures>>
link == <<connected, rest, carry, peer, full>>

Least(a, b) == IF a < b THEN a ELSE b
AtLeastZero(a) == IF a > 0 THEN a ELSE 0

MaxSince == MaxReconnectDelay + ConnectTimeout
MaxFailures == MaxReconnectDelay   \* 2^n is past the maximum long before

Init ==
  /\ pc = "sleeping"
  /\ running = TRUE
  /\ late = 0 - Interval
  /\ connected = FALSE
  /\ delay = 1
  /\ wait = 0
  /\ rest = 0
  /\ carry = 0
  /\ reachable \in BOOLEAN
  /\ peer = "none"
  /\ full = FALSE
  /\ elapsed = 0
  /\ since = MaxSince
  /\ failures = 0

(* The end of the loop's body and the test of its condition.  When run()   *)
(* is over the client is destroyed and the connection closed.              *)
NextRound ==
  /\ late' = late - Interval
  /\ pc' = IF running THEN "sleeping" ELSE "stopped"

Disconnect ==
  /\ connected' = FALSE /\ peer' = "none" /\ full' = FALSE
  /\ rest' = 0 /\ carry' = 0

-----------------------------------------------------------------------------
(* sleep_until, then the second test of the flag.                          *)
WakeUp ==
  /\ pc = "sleeping"
  /\ late >= 0
  /\ IF running THEN pc' = "sampled" /\ UNCHANGED link
                ELSE pc' = "stopped" /\ Disconnect
  /\ UNCHANGED <<running, late, reachable, backoff>>

(* A collector throws: main() reports the error and the agent ends.        *)
SampleFails ==
  /\ pc = "sampled"
  /\ pc' = "stopped"
  /\ Disconnect
  /\ UNCHANGED <<running, late, reachable, backoff>>

(* Connected, or not yet allowed to reconnect.                             *)
SkipConnect ==
  /\ pc = "sampled"
  /\ \/ /\ connected
        /\ pc' = "sending" /\ rest' = FrameSize
        /\ UNCHANGED late
     \/ /\ ~connected /\ wait > 0
        /\ NextRound
        /\ UNCHANGED rest
  /\ UNCHANGED <<running, connected, carry, reachable, peer, full, backoff>>

Connect ==
  /\ pc = "sampled"
  /\ ~connected /\ wait = 0
  /\ pc' = "connecting"
  /\ elapsed' = 0
  /\ since' = 0
  /\ UNCHANGED <<running, late, delay, wait, failures, reachable, link>>

(* nextReconnectTime becomes the time before connect was called.           *)
ConnectSucceeds ==
  /\ pc = "connecting"
  /\ reachable
  /\ connected' = TRUE /\ peer' = "open" /\ full' = FALSE /\ carry' = 0
  /\ delay' = 1
  /\ wait' = 0
  /\ failures' = 0
  /\ pc' = "sending" /\ rest' = FrameSize
  /\ UNCHANGED <<running, late, reachable, elapsed, since>>

(* Operators named Mutant... are not part of the program: each is the one  *)
(* after with one plausible slip, and makes one property below fail.       *)

(* reconnectDelay not doubled.                                             *)
MutantConnectFailsConstant ==
  /\ pc = "connecting"
  /\ ~reachable \/ ~running
  /\ wait' = AtLeastZero(delay - elapsed)
  /\ failures' = Least(failures + 1, MaxFailures)
  /\ NextRound
  /\ UNCHANGED <<running, delay, reachable, elapsed, since, link>>

(* reconnectDelay doubled without std::min.                                *)
MutantConnectFailsUnbounded ==
  /\ pc = "connecting"
  /\ ~reachable \/ ~running
  /\ wait' = AtLeastZero(delay - elapsed)
  /\ delay' = 2 * delay
  /\ failures' = Least(failures + 1, MaxFailures)
  /\ NextRound
  /\ UNCHANGED <<running, reachable, elapsed, since, link>>

(* No server, no answer within the timeout, or a signal (EINTR).  The new  *)
(* nextReconnectTime counts from before the call, too.                     *)
ConnectFails ==
  /\ pc = "connecting"
  /\ ~reachable \/ ~running
  /\ wait' = AtLeastZero(delay - elapsed)
  /\ delay' = Least(2 * delay, MaxReconnectDelay)
  /\ failures' = Least(failures + 1, MaxFailures)
  /\ NextRound
  /\ UNCHANGED <<running, reachable, elapsed, since, link>>

(* One send() taken for the whole frame.                                   *)
MutantSendOnce(n) ==
  /\ pc = "sending"
  /\ n \in 1 .. rest
  /\ peer # "reset" /\ ~full
  /\ full' \in BOOLEAN
  /\ carry' = (carry + n) % FrameSize
  /\ rest' = 0
  /\ NextRound
  /\ UNCHANGED <<running, connected, reachable, peer, backoff>>

(* sendAll(): send() takes n of the bytes left; the kernel takes them as   *)
(* well when the other end is gone.  It blocks while the buffers are full: *)
(* a signal only repeats the call (EINTR), the flag is not looked at.      *)
Send(n) ==
  /\ pc = "sending"
  /\ n \in 1 .. rest
  /\ peer # "reset" /\ ~full
  /\ full' \in BOOLEAN
  /\ carry' = (carry + n) % FrameSize
  /\ rest' = rest - n
  /\ IF n = rest THEN NextRound ELSE UNCHANGED <<pc, late>>
  /\ UNCHANGED <<running, connected, reachable, peer, backoff>>

(* disconnect() that closes the socket and keeps socketFd_.                *)
MutantSendFailsKeepsFd ==
  /\ pc = "sending"
  /\ peer \in {"gone", "reset"}
  /\ peer' = "reset" /\ rest' = 0 /\ carry' = 0
  /\ delay' = 1
  /\ wait' = 1
  /\ failures' = 0
  /\ NextRound
  /\ UNCHANGED <<running, connected, reachable, full, elapsed, since>>

(* Every error taken for EINTR.                                            *)
MutantSendFailsRepeats ==
  /\ pc = "sending"
  /\ peer \in {"gone", "reset"}
  /\ UNCHANGED vars

(* send() fails: disconnect, and try again in one second.                  *)
SendFails ==
  /\ pc = "sending"
  /\ peer \in {"gone", "reset"}
  /\ Disconnect
  /\ delay' = 1
  /\ wait' = 1
  /\ failures' = 0
  /\ NextRound
  /\ UNCHANGED <<running, reachable, elapsed, since>>

-----------------------------------------------------------------------------
(* Outside: signals, the server, the network, time.                        *)
Terminate ==
  /\ running
  /\ running' = FALSE
  /\ UNCHANGED <<pc, late, reachable, backoff, link>>

(* The server ends, closes the connection or is cut off.                   *)
ServerLost ==
  /\ reachable
  /\ reachable' = FALSE
  /\ peer' = IF peer = "open" THEN "gone" ELSE peer
  /\ UNCHANGED <<pc, running, late, connected, rest, carry, full, backoff>>

ServerBack ==
  /\ ~reachable
  /\ reachable' = TRUE
  /\ UNCHANGED <<pc, running, late, backoff, link>>

(* The server reads, which it may never do.                                *)
ServerReads ==
  /\ peer = "open" /\ full
  /\ full' = FALSE
  /\ UNCHANGED <<pc, running, late, connected, rest, carry, reachable, peer, backoff>>

(* The answer to what was sent to an end that is gone, or TCP gives up.    *)
ResetArrives ==
  /\ peer = "gone"
  /\ peer' = "reset"
  /\ UNCHANGED <<pc, running, late, connected, rest, carry, full, reachable, backoff>>

Tick ==
  /\ pc # "stopped"
  /\ pc = "connecting" => elapsed < ConnectTimeout
  /\ late' = Least(late + 1, MaxLate)
  /\ wait' = AtLeastZero(wait - 1)
  /\ since' = Least(since + 1, MaxSince)
  /\ elapsed' = IF pc = "connecting" THEN elapsed + 1 ELSE elapsed
  /\ UNCHANGED <<pc, running, delay, failures, reachable, link>>

Stopped == pc = "stopped" /\ UNCHANGED vars

Agent ==
  \/ WakeUp \/ SkipConnect \/ Connect \/ ConnectSucceeds \/ ConnectFails
  \/ \E n \in 1 .. FrameSize : Send(n)
  \/ SendFails

Next ==
  \/ Agent \/ SampleFails
  \/ Terminate \/ ServerLost \/ ServerBack \/ ServerReads \/ ResetArrives \/ Tick
  \/ Stopped

Spec == Init /\ [][Next]_vars

(* The agent is scheduled, time passes, and TCP does not keep a connection *)
(* to nobody for good.  The server promises nothing: it may stay away, and *)
(* it may hold a connection and never read.                                *)
FairSpec == Spec /\ WF_vars(Agent) /\ WF_vars(Tick) /\ WF_vars(ResetArrives)

-----------------------------------------------------------------------------
(* 1, 2, 4, ... up to the maximum: what the n-th failure in a row asks for. *)
Backoff[n \in Nat] ==
  IF n <= 1 THEN 1 ELSE Least(2 * Backoff[n - 1], MaxReconnectDelay)

TypeOK ==
  /\ pc \in {"sleeping", "sampled", "connecting", "sending", "stopped"}
  /\ running \in BOOLEAN /\ connected \in BOOLEAN /\ reachable \in BOOLEAN
  /\ late \in (0 - Interval) .. MaxLate
  /\ delay \in 1 .. MaxReconnectDelay /\ wait \in 0 .. MaxReconnectDelay
  /\ rest \in 0 .. FrameSize /\ carry \in 0 .. FrameSize - 1
  /\ peer \in {"none", "open", "gone", "reset"} /\ full \in BOOLEAN
  /\ elapsed \in 0 .. ConnectTimeout /\ since \in 0 .. MaxSince
  /\ failures \in 0 .. MaxFailures

(* A connection carries whole frames, but for a last one cut short: every  *)
(* sendAll starts on a frame boundary, whatever partial sends and failures *)
(* came before (TcpClient.cpp:254-361).                                    *)
FramesAligned ==
  connected => carry = IF pc = "sending" THEN FrameSize - rest ELSE 0

(* "1 -> 2 -> 4 -> 8 -> 16 -> 30 seconds" (MonitorAgent.cpp:682-695): the  *)
(* time between the beginnings of two attempts grows with the failures in  *)
(* a row, through sends that fail and signals as well.                     *)
AttemptsSpaced == [][Connect /\ failures > 0 => since >= Backoff[failures]]_vars

(* send() waits for a server that holds the connection and does not read.  *)
Blocked == pc = "sending" /\ peer = "open" /\ full

(* The agent comes back by itself: with a server that stays reachable and  *)
(* does not leave a send waiting for good, frames keep reaching it         *)
(* (MonitorAgent.cpp:893-986).                                             *)
KeepsReporting ==
  <>[]reachable /\ []<>~Blocked =>
    \/ <>(pc = "stopped")
    \/ []<><<peer = "open" /\ Send(rest)>>_vars

(* SIGTERM stops the agent, also one that sleeps, connects, sends to a     *)
(* server that has gone or in pieces to a slow one (MonitorAgent.cpp:721,  *)
(* 733): the only thing it does not end is a send to a server that has     *)
(* stopped reading for good (TcpClient.cpp:320).                           *)
StopsOnSignal == []<>~Blocked => (~running ~> pc = "stopped")

=============================================================================
