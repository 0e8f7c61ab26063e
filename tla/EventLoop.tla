----------------------------- MODULE EventLoop -----------------------------
(***************************************************************************)
(* The reactor loop of src/reactor/EventLoop.cpp: epoll_wait over channels *)
(* that include an eventfd, dispatch of the ready ones, then the functors  *)
(* other threads queued.  queueInLoop pushes under a mutex and writes the  *)
(* eventfd after the unlock, so the loop may run between the two.          *)
(*                                                                         *)
(* Channels are abstracted to three sources of events: the eventfd, the    *)
(* signalfd whose callback calls quit() (TcpServer.cpp:417-477), and any   *)
(* other (listener, connections, timer), whose callbacks do not touch the  *)
(* state below.  loop() ends here by quit() alone.  An exception of a      *)
(* callback or of a failing epoll_wait leaves it, too, and with it         *)
(* TcpServer::run(): that is Throw in ServerLifecycle.                     *)
(***************************************************************************)
EXTENDS Naturals, Sequences

CONSTANTS Functors,   \* one identity per call of queueInLoop
          Posters     \* the threads calling it

VARIABLES pending,    \* pendingFunctors_
          batch,      \* the vector swapped out, what is left to run of it
          ran,        \* functors that returned or threw
          readable,   \* the eventfd counter is not zero
          poster,     \* where each thread is in queueInLoop
          pc,         \* where the loop thread is
          ready,      \* events of this iteration still to dispatch
          quit,       \* quit_
          signalled   \* a signal is pending in the signalfd

loopVars == <<pending, batch, ran, readable, poster, pc, ready, quit, signalled>>

Sources == {"eventfd", "signalfd", "other"}
PosterStates == {"idle", "write"}
LoopStates == {"created", "check", "waiting", "dispatch", "running", "ended"}

InSeq(f, s) == \E i \in DOMAIN s : s[i] = f
Fresh(f) == ~InSeq(f, pending) /\ ~InSeq(f, batch) /\ f \notin ran
Writing == \E p \in Posters : poster[p] = "write"

LoopInit ==
  /\ pending = <<>>
  /\ batch = <<>>
  /\ ran = {}
  /\ readable = FALSE
  /\ poster = [p \in Posters |-> "idle"]
  /\ pc = "created"
  /\ ready = {}
  /\ quit = FALSE
  /\ signalled = FALSE

-----------------------------------------------------------------------------
(* Mutants.  No behaviour of the code: each is the action it is named      *)
(* after with one plausible slip, and makes one property below fail.       *)

(* queueInLoop without wakeup().                                           *)
MutantPostSilent(p, f) ==
  /\ poster[p] = "idle" /\ Fresh(f)
  /\ pending' = Append(pending, f)
  /\ UNCHANGED <<batch, ran, readable, poster, pc, ready, quit, signalled>>

(* queueInLoop without its first test: an empty std::function is queued.   *)
MutantPostEmpty(p, f) ==
  /\ poster[p] = "idle" /\ Fresh(f)
  /\ pending' = Append(pending, "empty")
  /\ poster' = [poster EXCEPT ![p] = "write"]
  /\ UNCHANGED <<batch, ran, readable, pc, ready, quit, signalled>>

(* Functors run from the back of the vector.                               *)
MutantRunLast ==
  /\ pc = "running"
  /\ batch # <<>>
  /\ ran' = ran \cup {batch[Len(batch)]}
  /\ batch' = SubSeq(batch, 1, Len(batch) - 1)
  /\ UNCHANGED <<pending, readable, poster, pc, ready, quit, signalled>>

(* An exception of a functor leaving the loop over the batch.              *)
MutantRunEscapes ==
  /\ pc = "running"
  /\ batch # <<>>
  /\ ran' = ran \cup {Head(batch)}
  /\ batch' = <<>>
  /\ UNCHANGED <<pending, readable, poster, pc, ready, quit, signalled>>

(* quit() that wakes the loop and does not set quit_.                      *)
MutantSignalForgetsQuit ==
  /\ pc = "dispatch"
  /\ "signalfd" \in ready
  /\ ready' = ready \ {"signalfd"}
  /\ signalled' = FALSE
  /\ readable' = TRUE
  /\ UNCHANGED <<pending, batch, ran, poster, pc, quit>>

-----------------------------------------------------------------------------
(* queueInLoop(): push under the mutex, then write the eventfd.            *)
Post(p, f) ==
  /\ poster[p] = "idle"
  /\ Fresh(f)
  /\ pending' = Append(pending, f)
  /\ poster' = [poster EXCEPT ![p] = "write"]
  /\ UNCHANGED <<batch, ran, readable, pc, ready, quit, signalled>>

Wakeup(p) ==
  /\ poster[p] = "write"
  /\ poster' = [poster EXCEPT ![p] = "idle"]
  /\ readable' = TRUE
  /\ UNCHANGED <<pending, batch, ran, pc, ready, quit, signalled>>

(* SIGINT or SIGTERM, blocked in the loop's thread, reaches the signalfd.  *)
Signal ==
  /\ ~signalled /\ ~quit
  /\ pc # "ended"
  /\ signalled' = TRUE
  /\ UNCHANGED <<pending, batch, ran, readable, poster, pc, ready, quit>>

-----------------------------------------------------------------------------
(* loop(): quit_ is cleared on entry and tested before each iteration.     *)
Enter ==
  /\ pc = "created"
  /\ quit' = FALSE
  /\ pc' = "check"
  /\ UNCHANGED <<pending, batch, ran, readable, poster, ready, signalled>>

Check ==
  /\ pc = "check"
  /\ pc' = IF quit THEN "ended" ELSE "waiting"
  /\ UNCHANGED <<pending, batch, ran, readable, poster, ready, quit, signalled>>

(* epoll_wait without timeout, level-triggered: it returns some of the     *)
(* ready channels, at most maxEvents of them.                              *)
Possible == {"other"} \cup (IF readable THEN {"eventfd"} ELSE {})
                      \cup (IF signalled THEN {"signalfd"} ELSE {})

WaitReturns(events) ==
  /\ pc = "waiting"
  /\ events # {} /\ events \subseteq Possible
  /\ ready' = events
  /\ pc' = "dispatch"
  /\ UNCHANGED <<pending, batch, ran, readable, poster, quit, signalled>>

(* handleWakeup(): the read resets the counter, however many wrote it.     *)
HandleWakeup ==
  /\ pc = "dispatch"
  /\ "eventfd" \in ready
  /\ ready' = ready \ {"eventfd"}
  /\ readable' = FALSE
  /\ UNCHANGED <<pending, batch, ran, poster, pc, quit, signalled>>

(* The signal callback reads the signalfd and calls quit(), which stores   *)
(* quit_ and writes the eventfd.                                           *)
HandleSignal ==
  /\ pc = "dispatch"
  /\ "signalfd" \in ready
  /\ ready' = ready \ {"signalfd"}
  /\ signalled' = FALSE
  /\ quit' = TRUE
  /\ readable' = TRUE
  /\ UNCHANGED <<pending, batch, ran, poster, pc>>

HandleOther ==
  /\ pc = "dispatch"
  /\ "other" \in ready
  /\ ready' = ready \ {"other"}
  /\ UNCHANGED <<pending, batch, ran, readable, poster, pc, quit, signalled>>

(* doPendingFunctors(): swap under the mutex, then run one after the       *)
(* other; an exception ends the functor, not the loop.                     *)
Swap ==
  /\ pc = "dispatch"
  /\ ready = {}
  /\ batch' = pending
  /\ pending' = <<>>
  /\ pc' = "running"
  /\ UNCHANGED <<ran, readable, poster, ready, quit, signalled>>

RunOne ==
  /\ pc = "running"
  /\ batch # <<>>
  /\ ran' = ran \cup {Head(batch)}
  /\ batch' = Tail(batch)
  /\ UNCHANGED <<pending, readable, poster, pc, ready, quit, signalled>>

EndIteration ==
  /\ pc = "running"
  /\ batch = <<>>
  /\ pc' = "check"
  /\ UNCHANGED <<pending, batch, ran, readable, poster, ready, quit, signalled>>

Ended == pc = "ended" /\ UNCHANGED loopVars

Loop ==
  \/ Enter \/ Check
  \/ HandleWakeup \/ HandleSignal \/ HandleOther
  \/ Swap \/ RunOne \/ EndIteration

LoopNext ==
  \/ \E p \in Posters, f \in Functors : Post(p, f)
  \/ \E p \in Posters : Wakeup(p)
  \/ Signal
  \/ \E events \in SUBSET Sources : WaitReturns(events)
  \/ Loop
  \/ Ended

LoopSpec == LoopInit /\ [][LoopNext]_loopVars

(* The loop's thread and the posters are scheduled; epoll rotates over the *)
(* ready channels, so that one which stays ready is returned in the end.   *)
(* No other channel need ever become ready.                                *)
LoopFairSpec ==
  /\ LoopSpec
  /\ WF_loopVars(Loop)
  /\ \A p \in Posters : WF_loopVars(Wakeup(p))
  /\ \A src \in {"eventfd", "signalfd"} :
       SF_loopVars(\E events \in SUBSET Sources : src \in events /\ WaitReturns(events))

-----------------------------------------------------------------------------
LoopTypeOK ==
  /\ pending \in Seq(Functors)
  /\ batch \in Seq(Functors)
  /\ ran \subseteq Functors
  /\ readable \in BOOLEAN
  /\ poster \in [Posters -> PosterStates]
  /\ pc \in LoopStates
  /\ ready \subseteq Sources
  /\ quit \in BOOLEAN
  /\ signalled \in BOOLEAN

(* The loop never sleeps on queued work (EventLoop.cpp:344-368, 427-471,   *)
(* 479-495): with a functor pending when epoll_wait blocks, the eventfd is *)
(* readable or a thread is about to write it.                              *)
NoLostWakeup == pc = "waiting" /\ pending # <<>> => readable \/ Writing

(* The loop never blocks again once asked to quit (EventLoop.cpp:306-309). *)
QuitIsSeen == pc = "waiting" => ~quit

(* The promise of queueInLoop: posted functors run in order, once.         *)
Abstract == INSTANCE Mailbox WITH queue <- batch \o pending, open <- pc # "ended"
ImplementsMailbox == Abstract!Spec

(* A functor runs unless the loop ends first.                              *)
PostedRuns ==
  \A f \in Functors : InSeq(f, pending) ~> (f \in ran \/ pc = "ended")

(* A signal stops the loop, whatever the channels and the posters do.      *)
SignalEnds == signalled ~> (pc = "ended")
=============================================================================
