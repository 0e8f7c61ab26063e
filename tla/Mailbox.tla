------------------------------ MODULE Mailbox ------------------------------
(***************************************************************************)
(* What EventLoop::queueInLoop (include/reactor/EventLoop.h:68-74)         *)
(* promises, without eventfd, epoll or the two vectors: functors posted by *)
(* any thread run one at a time, each once, in the order of posting, until *)
(* the loop ends; what is posted later stays.                              *)
(***************************************************************************)
EXTENDS Naturals, Sequences

CONSTANT Functors

VARIABLES queue,  \* posted, not run yet
          ran,    \* run, whether they returned or threw
          open    \* the loop has not ended

vars == <<queue, ran, open>>

Init == queue = <<>> /\ ran = {} /\ open = TRUE

Fresh(f) == f \notin ran /\ \A i \in DOMAIN queue : queue[i] # f

Post(f) ==
  /\ Fresh(f)
  /\ queue' = Append(queue, f)
  /\ UNCHANGED <<ran, open>>

Run ==
  /\ open
  /\ queue # <<>>
  /\ ran' = ran \cup {Head(queue)}
  /\ queue' = Tail(queue)
  /\ UNCHANGED open

End ==
  /\ open
  /\ open' = FALSE
  /\ UNCHANGED <<queue, ran>>

Next == (\E f \in Functors : Post(f)) \/ Run \/ End

Spec == Init /\ [][Next]_vars
=============================================================================
