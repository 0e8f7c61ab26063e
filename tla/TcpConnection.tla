--------------------------- MODULE TcpConnection ---------------------------
(***************************************************************************)
(* One server-side connection: how src/reactor/Acceptor.cpp takes it from  *)
(* the backlog, src/network/TcpConnection.cpp, the dispatch of its events  *)
(* in src/reactor/Channel.cpp and the framing of                           *)
(* src/protocol/FrameCodec.cpp, against a peer that writes frames in       *)
(* pieces, shuts down or resets, before it is accepted or after.           *)
(*                                                                         *)
(* The close callback of TcpServer erases the connection from its map      *)
(* (TcpServer.cpp:1020-1067), which destroys it while its handlers are     *)
(* still on the stack.  What they do with the freed memory afterwards is   *)
(* undefined: here the process crashes, or goes on as if the memory still  *)
(* held what the destructor left there.                                    *)
(***************************************************************************)
EXTENDS Naturals, Sequences

CONSTANTS Frames,        \* payload length of each frame the peer sends
          HeaderSize,    \* FrameCodec::HEADER_SIZE
          MaxFrameSize,  \* FrameCodec::MAX_FRAME_SIZE
          BufferSize,    \* BUFFER_SIZE, what one recv may return
          MaxFailures    \* bound: times accept4 fails

ASSUME ConnectionAssumption ==
  /\ Frames \in Seq(Nat)
  /\ HeaderSize \in Nat \ {0} /\ MaxFrameSize \in Nat /\ BufferSize \in Nat \ {0}
  /\ MaxFailures \in Nat

VARIABLES
  written,      \* bytes the peer has written
  peer,         \* "open", "shut" (FIN), "reset"
  state,        \* "backlog" of the listening socket, "accepted" or "dropped"
  failures,     \* times accept4 has failed
  got,          \* bytes recv has returned
  pendingData,  \* pendingData_
  delivered,    \* frames handed to the message callback
  closing,      \* closing_
  freed,        \* the destructor has run
  pc,           \* where the reactor is in Channel::handleEvent
  revents,      \* the events it was called with
  dangling,     \* history: a member was used after the destructor
  crashed       \* the process died of it

vars == <<written, peer, state, failures, got, pendingData, delivered, closing,
          freed, pc, revents, dangling, crashed>>
memory == <<freed, closing, dangling, crashed>>
acceptance == <<state, failures>>
stream == <<written, peer, acceptance>>

(* The bytes of a frame: each knows its frame and its place in it.         *)
Bytes(f) == [p \in 1 .. HeaderSize + Frames[f] |-> <<f, p>>]
StreamOf[f \in 0 .. Len(Frames)] == IF f = 0 THEN <<>> ELSE StreamOf[f - 1] \o Bytes(f)
Stream == StreamOf[Len(Frames)]
Total == Len(Stream)

(* Bytes up to and including frame f.                                      *)
EndOf(f) == Len(StreamOf[f])

Init ==
  /\ written = 0
  /\ peer = "open"
  /\ state = "backlog"
  /\ failures = 0
  /\ got = 0
  /\ pendingData = <<>>
  /\ delivered = <<>>
  /\ closing = FALSE
  /\ freed = FALSE
  /\ pc = "epoll"
  /\ revents = {}
  /\ dangling = FALSE
  /\ crashed = FALSE

-----------------------------------------------------------------------------
(* The peer and the network: external.                                     *)
PeerWrites(n) ==
  /\ peer = "open"
  /\ n > 0 /\ written + n <= Total
  /\ written' = written + n
  /\ UNCHANGED <<peer, acceptance, got, pendingData, delivered, pc, revents, memory>>

PeerStops(how) ==
  /\ peer = "open"
  /\ peer' = how
  /\ UNCHANGED <<written, acceptance, got, pendingData, delivered, pc, revents, memory>>

(* Acceptor::handleAccept and the callback of TcpServer: the connection    *)
(* joins the map and epoll, or cannot be created and its fd is closed.     *)
Accept ==
  /\ pc = "epoll" /\ state = "backlog"
  /\ state' \in {"accepted", "dropped"}
  /\ UNCHANGED <<written, peer, failures, got, pendingData, delivered, pc,
                 revents, memory>>

(* accept4 fails: handleAccept returns, and the level-triggered listening  *)
(* socket brings it back.  The kernel drops a connection that was reset.   *)
AcceptFails ==
  /\ pc = "epoll" /\ state = "backlog"
  /\ failures < MaxFailures
  /\ failures' = failures + 1
  /\ state' \in {"backlog"} \cup (IF peer = "reset" THEN {"dropped"} ELSE {})
  /\ UNCHANGED <<written, peer, got, pendingData, delivered, pc, revents, memory>>

Readiness ==
  (IF got < written \/ peer # "open" THEN {"IN"} ELSE {})
    \cup (IF peer # "open" THEN {"RDHUP"} ELSE {})
    \cup (IF peer = "reset" THEN {"ERR"} ELSE {})

(* epoll_wait returns the channel, which is registered until freed.        *)
EpollReturns ==
  /\ pc = "epoll" /\ state = "accepted" /\ ~freed
  /\ Readiness # {}
  /\ revents' = Readiness
  /\ pc' = "error"
  /\ UNCHANGED <<stream, got, pendingData, delivered, memory>>

-----------------------------------------------------------------------------
(* requestClose(): the close callback destroys the connection at once.     *)
RequestClose ==
  IF closing THEN UNCHANGED memory
  ELSE closing' = TRUE /\ freed' = TRUE /\ UNCHANGED <<dangling, crashed>>

(* A member of a destroyed connection is used.                             *)
UseFreed ==
  /\ dangling' = TRUE
  /\ crashed' \in BOOLEAN
  /\ UNCHANGED <<freed, closing>>

(* Operators named Mutant... are no behaviour of the code: each is the     *)
(* definition it is named after with one plausible slip, and makes one     *)
(* property below fail.                                                    *)

(* handleError() that sets closing_ before it calls requestClose().        *)
MutantOnErrorMarks ==
  /\ pc = "error"
  /\ pc' = "read"
  /\ IF "ERR" \in revents
     THEN closing' = TRUE /\ UNCHANGED <<freed, dangling, crashed>>
     ELSE UNCHANGED memory
  /\ UNCHANGED <<stream, got, pendingData, delivered, revents>>

(* Channel::handleEvent tests the error, read and close callbacks in turn, *)
(* each a member of the channel, which is a member of the connection.      *)
OnError ==
  /\ pc = "error"
  /\ pc' = "read"
  /\ IF "ERR" \in revents THEN RequestClose ELSE UNCHANGED memory
  /\ UNCHANGED <<stream, got, pendingData, delivered, revents>>

OnRead ==
  /\ pc = "read"
  /\ IF "IN" \in revents
     THEN IF freed THEN pc' = "close" /\ UseFreed
          ELSE pc' = (IF closing THEN "close" ELSE "recv") /\ UNCHANGED memory
     ELSE pc' = "close" /\ UNCHANGED memory
  /\ UNCHANGED <<stream, got, pendingData, delivered, revents>>

OnClose ==
  /\ pc = "close"
  /\ pc' = "epoll"
  /\ revents' = {}
  /\ IF "RDHUP" \in revents
     THEN IF freed THEN UseFreed ELSE RequestClose
     ELSE UNCHANGED memory
  /\ UNCHANGED <<stream, got, pendingData, delivered>>

-----------------------------------------------------------------------------
(* handleRead(): recv until it would block, the peer has closed or fails.  *)
RecvData(n) ==
  /\ pc = "recv" /\ ~freed
  /\ n \in 1 .. BufferSize /\ got + n <= written
  /\ got' = got + n
  /\ pendingData' = pendingData \o SubSeq(Stream, got + 1, got + n)
  /\ pc' = "decode"
  /\ UNCHANGED <<stream, delivered, revents, memory>>

RecvEnds ==
  /\ pc = "recv" /\ ~freed
  /\ \/ peer = "open" /\ got = written /\ UNCHANGED memory
     \/ peer = "shut" /\ got = written /\ RequestClose
     \/ peer = "reset" /\ RequestClose
  /\ pc' = "close"
  /\ UNCHANGED <<stream, got, pendingData, delivered, revents>>

(* After an invalid frame handleRead goes on with recv on the fd_ of the   *)
(* destroyed connection, -1 at best.                                       *)
RecvFreed ==
  /\ pc = "recv" /\ freed
  /\ UseFreed
  /\ pc' = "close"
  /\ UNCHANGED <<stream, got, pendingData, delivered, revents>>

(* FrameCodec::tryDecode: the length is checked before the body is waited  *)
(* for; bytes that do not start a header read as an arbitrary length.      *)
AtHeader(buffer) ==
  \A p \in 1 .. HeaderSize : buffer[p] = <<buffer[1][1], p>>
PayloadLength(buffer) ==
  IF AtHeader(buffer) THEN Frames[buffer[1][1]] ELSE MaxFrameSize + 1

(* The body waited for before its length is checked.                       *)
MutantVerdictLate(buffer) ==
  IF Len(buffer) < HeaderSize THEN "incomplete"
  ELSE IF AtHeader(buffer) /\ Len(buffer) < HeaderSize + PayloadLength(buffer)
       THEN "incomplete"
  ELSE IF PayloadLength(buffer) > MaxFrameSize THEN "invalid"
  ELSE "frame"

Verdict(buffer) ==
  IF Len(buffer) < HeaderSize THEN "incomplete"
  ELSE IF PayloadLength(buffer) > MaxFrameSize THEN "invalid"
  ELSE IF Len(buffer) < HeaderSize + PayloadLength(buffer) THEN "incomplete"
  ELSE "frame"

(* handleRead() with one recv per event.                                   *)
MutantDecodeOneRecv ==
  /\ pc = "decode"
  /\ CASE Verdict(pendingData) = "incomplete" ->
            pc' = "close" /\ UNCHANGED <<pendingData, delivered, memory>>
       [] Verdict(pendingData) = "invalid" ->
            pc' = "close" /\ RequestClose /\ UNCHANGED <<pendingData, delivered>>
       [] OTHER ->
            /\ delivered' = Append(delivered, pendingData[1][1])
            /\ pendingData' = SubSeq(pendingData,
                 HeaderSize + PayloadLength(pendingData) + 1, Len(pendingData))
            /\ UNCHANGED <<pc, memory>>
  /\ UNCHANGED <<stream, got, revents>>

(* The whole buffer cleared once its first frame is taken.                 *)
MutantDecodeClears ==
  /\ pc = "decode"
  /\ CASE Verdict(pendingData) = "incomplete" ->
            pc' = "recv" /\ UNCHANGED <<pendingData, delivered, memory>>
       [] Verdict(pendingData) = "invalid" ->
            pc' = "recv" /\ RequestClose /\ UNCHANGED <<pendingData, delivered>>
       [] OTHER ->
            /\ delivered' = Append(delivered, pendingData[1][1])
            /\ pendingData' = <<>>
            /\ UNCHANGED <<pc, memory>>
  /\ UNCHANGED <<stream, got, revents>>

(* One round of processPendingData().                                      *)
Decode ==
  /\ pc = "decode"
  /\ CASE Verdict(pendingData) = "incomplete" ->
            pc' = "recv" /\ UNCHANGED <<pendingData, delivered, memory>>
       [] Verdict(pendingData) = "invalid" ->
            pc' = "recv" /\ RequestClose /\ UNCHANGED <<pendingData, delivered>>
       [] OTHER ->
            /\ delivered' = Append(delivered, pendingData[1][1])
            /\ pendingData' = SubSeq(pendingData,
                 HeaderSize + PayloadLength(pendingData) + 1, Len(pendingData))
            /\ UNCHANGED <<pc, memory>>
  /\ UNCHANGED <<stream, got, revents>>

Over == (freed \/ crashed \/ state = "dropped") /\ UNCHANGED vars

Reactor ==
  /\ ~crashed
  /\ \/ Accept \/ AcceptFails
     \/ EpollReturns \/ OnError \/ OnRead \/ OnClose
     \/ \E n \in 1 .. BufferSize : RecvData(n)
     \/ RecvEnds \/ RecvFreed \/ Decode

Next ==
  \/ ~crashed /\ \E n \in 1 .. Total : PeerWrites(n)
  \/ ~crashed /\ \E how \in {"shut", "reset"} : PeerStops(how)
  \/ Reactor
  \/ Over

Spec == Init /\ [][Next]_vars

(* The reactor thread is scheduled; the peer does as it likes.             *)
FairSpec == Spec /\ WF_vars(Reactor)

-----------------------------------------------------------------------------
(* The frames complete within the first n bytes, up to one too long.       *)
Deliverable(n) ==
  {f \in 1 .. Len(Frames) :
     EndOf(f) <= n /\ \A g \in 1 .. f : Frames[g] <= MaxFrameSize}

(* The types, with the bounds that keep the buffer small                   *)
(* (FrameCodec.cpp:97-108): no frame above MAX_FRAME_SIZE is delivered, and *)
(* between two calls of recv less than one frame is buffered.              *)
TypeOK ==
  /\ written \in 0 .. Total /\ got \in 0 .. written
  /\ peer \in {"open", "shut", "reset"}
  /\ state \in {"backlog", "accepted", "dropped"} /\ failures \in 0 .. MaxFailures
  /\ state # "accepted" => got = 0
  /\ pendingData \in Seq((1 .. Len(Frames)) \X Nat)
  /\ delivered \in Seq(1 .. Len(Frames))
  /\ closing \in BOOLEAN /\ freed \in BOOLEAN
  /\ pc \in {"epoll", "error", "read", "recv", "decode", "close"}
  /\ revents \subseteq {"IN", "RDHUP", "ERR"}
  /\ dangling \in BOOLEAN /\ crashed \in BOOLEAN
  /\ Len(pendingData) < HeaderSize + MaxFrameSize + BufferSize
  /\ pc \in {"epoll", "recv"} /\ ~freed =>
       Len(pendingData) < HeaderSize + MaxFrameSize
  /\ \A i \in DOMAIN delivered : Frames[delivered[i]] <= MaxFrameSize

(* However TCP cuts and joins the stream, the frames delivered are the     *)
(* first ones sent, whole and in order, and what is buffered is exactly    *)
(* what follows them (FrameCodec.cpp:65-158).                              *)
FramesIntact ==
  /\ \A i \in DOMAIN delivered : delivered[i] = i
  /\ pendingData = SubSeq(Stream, EndOf(Len(delivered)) + 1, got)

(* A peer that sends whole frames and closes has them all delivered, also  *)
(* when data and FIN arrive in one event (TcpConnection.cpp:163-195); only *)
(* a frame above the maximum cuts the rest off.                            *)
NothingLostOnClose ==
  freed /\ peer = "shut" =>
    Deliverable(written) \subseteq {delivered[i] : i \in DOMAIN delivered}

(* A connection whose peer has gone is destroyed, also when it went before *)
(* the connection was accepted and accept4 failed in between.              *)
GoneIsClosed == (peer # "open") ~> (freed \/ crashed \/ state = "dropped")

-----------------------------------------------------------------------------
(* TcpConnection.cpp:318-320 "Deferred close request": the connection is   *)
(* not destroyed under its own handlers.                                   *)
CloseIsDeferred == ~dangling
=============================================================================
