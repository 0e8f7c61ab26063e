------------------------ MODULE TcpConnectionProofs ------------------------
(***************************************************************************)
(* Proofs about TcpConnection for every sequence of frames, header size,   *)
(* maximum and buffer size.  First what the stream of all frames is at     *)
(* each place; then that the buffer is a window on this stream which       *)
(* starts at a frame, so that what tryDecode reads there is that frame's   *)
(* header; then what is known of a connection when it is destroyed.        *)
(***************************************************************************)
EXTENDS TcpConnection, CommonLemmas, SequenceTheorems, TLAPS

N == Len(Frames)
Byte == (1 .. N) \X Nat

LEMMA Constants ==
  /\ N \in Nat
  /\ \A f \in 1 .. N : Frames[f] \in Nat
  /\ HeaderSize \in Nat /\ HeaderSize > 0
  /\ MaxFrameSize \in Nat
  /\ BufferSize \in Nat /\ BufferSize > 0
  /\ MaxFailures \in Nat
BY ConnectionAssumption DEF N

-----------------------------------------------------------------------------
(* The window of s after its first a elements and up to element b.         *)
LEMMA WindowFacts ==
  ASSUME NEW S, NEW s \in Seq(S), NEW b \in 0 .. Len(s), NEW a \in 0 .. b
  PROVE  LET w == SubSeq(s, a + 1, b)
         IN  /\ w \in Seq(S)
             /\ Len(w) = b - a
             /\ \A i \in 1 .. b - a : w[i] = s[a + i]
<1> DEFINE w == SubSeq(s, a + 1, b)
<1>1. \A i \in a + 1 .. b : s[i] \in S
  BY ElementOfSeq
<1>2. a + 1 \in Int /\ b \in Int /\ a \in Int
  OBVIOUS
<1>3. /\ w \in Seq(S)
      /\ Len(w) = IF a + 1 <= b THEN b - (a + 1) + 1 ELSE 0
      /\ \A i \in 1 .. b - (a + 1) + 1 : w[i] = s[(a + 1) + i - 1]
  BY <1>1, <1>2, SubSeqProperties
<1> HIDE DEF w
<1>4. \A i \in 1 .. b - a : i \in 1 .. b - (a + 1) + 1 /\ (a + 1) + i - 1 = a + i
  BY <1>2
<1>5. Len(w) = b - a
  BY <1>2, <1>3
<1> QED
  BY <1>3, <1>4, <1>5 DEF w

(* Two windows that touch.                                                 *)
LEMMA WindowGrows ==
  ASSUME NEW S, NEW s \in Seq(S),
         NEW c \in 0 .. Len(s), NEW b \in 0 .. c, NEW a \in 0 .. b
  PROVE  SubSeq(s, a + 1, b) \o SubSeq(s, b + 1, c) = SubSeq(s, a + 1, c)
<1>1. a + 1 \in 1 .. Len(s) + 1 /\ b \in (a + 1) - 1 .. Len(s) /\ c \in b .. Len(s)
  OBVIOUS
<1> QED
  BY <1>1, ConcatAdjacentSubSeq

(* The first k elements of a window taken off.                             *)
LEMMA WindowShrinks ==
  ASSUME NEW S, NEW s \in Seq(S), NEW b \in 0 .. Len(s), NEW a \in 0 .. b,
         NEW k \in 0 .. b - a
  PROVE  SubSeq(SubSeq(s, a + 1, b), k + 1, b - a) = SubSeq(s, (a + k) + 1, b)
<1> DEFINE w == SubSeq(s, a + 1, b)
           l == SubSeq(w, k + 1, b - a)
           r == SubSeq(s, (a + k) + 1, b)
<1>1. /\ w \in Seq(S) /\ Len(w) = b - a
      /\ \A i \in 1 .. b - a : w[i] = s[a + i]
  BY WindowFacts
<1>2. /\ r \in Seq(S) /\ Len(r) = b - (a + k)
      /\ \A i \in 1 .. b - (a + k) : r[i] = s[(a + k) + i]
  <2>1. a + k \in 0 .. b
    OBVIOUS
  <2> QED
    BY <2>1, WindowFacts
<1> HIDE DEF w, r
<1>3. /\ l \in Seq(S) /\ Len(l) = (b - a) - k
      /\ \A i \in 1 .. (b - a) - k : l[i] = w[k + i]
  <2>1. b - a \in 0 .. Len(w)
    BY <1>1
  <2> QED
    BY <1>1, <2>1, WindowFacts
<1> HIDE DEF l
<1>4. l = r
  <2>1. Len(l) = Len(r) /\ Len(l) = (b - a) - k
    BY <1>2, <1>3
  <2>2. ASSUME NEW i \in 1 .. Len(l) PROVE l[i] = r[i]
    <3>1. /\ i \in 1 .. (b - a) - k /\ i \in 1 .. b - (a + k)
          /\ k + i \in 1 .. b - a /\ a + (k + i) = (a + k) + i
      BY <2>1
    <3> QED
      BY <1>1, <1>2, <1>3, <3>1
  <2> QED
    BY <1>2, <1>3, <2>1, <2>2, SeqEqual
<1> QED
  BY <1>4 DEF l, r, w

-----------------------------------------------------------------------------
LEMMA BytesFacts ==
  ASSUME NEW f \in 1 .. N
  PROVE  /\ Bytes(f) \in Seq(Byte)
         /\ Len(Bytes(f)) = HeaderSize + Frames[f]
         /\ \A p \in 1 .. HeaderSize + Frames[f] : Bytes(f)[p] = <<f, p>>
<1>1. HeaderSize + Frames[f] \in Nat
  BY Constants
<1>2. \A p \in 1 .. HeaderSize + Frames[f] : <<f, p>> \in Byte
  BY <1>1 DEF Byte
<1>3. /\ Bytes(f) \in [1 .. HeaderSize + Frames[f] -> Byte]
      /\ \A p \in 1 .. HeaderSize + Frames[f] : Bytes(f)[p] = <<f, p>>
  BY <1>2 DEF Bytes
<1>4. Bytes(f) \in Seq(Byte)
  BY <1>1, <1>3, SeqDef
<1>5. Len(Bytes(f)) = HeaderSize + Frames[f]
  <2>1. DOMAIN Bytes(f) = 1 .. HeaderSize + Frames[f]
    BY <1>3
  <2>2. DOMAIN Bytes(f) = 1 .. Len(Bytes(f)) /\ Len(Bytes(f)) \in Nat
    BY <1>4, LenProperties
  <2> QED
    BY <1>1, <2>1, <2>2
<1> QED
  BY <1>3, <1>4, <1>5

(* The recursive definition of StreamOf defines what it says.              *)
LEMMA StreamDefined ==
  /\ StreamOf \in [0 .. N -> Seq(Byte)]
  /\ StreamOf[0] = <<>>
  /\ \A f \in 1 .. N : StreamOf[f] = StreamOf[f - 1] \o Bytes(f)
<1> DEFINE V == Seq(Byte)
           Step == [n \in Nat |-> [s \in V |-> IF n < N THEN s \o Bytes(n + 1) ELSE s]]
           Body(g) == [f \in 0 .. N |-> IF f = 0 THEN <<>> ELSE g[f - 1] \o Bytes(f)]
<1>1. <<>> \in V /\ Step \in [Nat -> [V -> V]]
  <2>1. ASSUME NEW n \in Nat, NEW s \in V, n < N PROVE s \o Bytes(n + 1) \in V
    <3>1. n + 1 \in 1 .. N
      BY <2>1, Constants
    <3> QED
      BY <3>1, BytesFacts, ConcatProperties
  <2> QED
    BY <2>1, EmptySeq
<1>2. PICK h \in [Nat -> V] : h[0] = <<>> /\ \A n \in Nat : h[n + 1] = Step[n][h[n]]
  <2> HIDE DEF V, Step
  <2>1. \A first \in V : \A F \in [Nat -> [V -> V]] :
          \E g \in [Nat -> V] :
            g[0] = first /\ \A n \in Nat : g[n + 1] = F[n][g[n]]
    BY NatRecursion
  <2> QED BY <1>1, <2>1
<1> DEFINE g == [f \in 0 .. N |-> h[f]]
<1>3. g \in [0 .. N -> V]
  BY <1>2, Constants
<1>4. \A f \in 1 .. N : g[f] = g[f - 1] \o Bytes(f)
  <2> SUFFICES ASSUME NEW f \in 1 .. N PROVE g[f] = g[f - 1] \o Bytes(f)
    OBVIOUS
  <2>1. f - 1 \in Nat /\ (f - 1) + 1 = f /\ f - 1 \in 0 .. N /\ f \in 0 .. N /\ f - 1 < N
    BY Constants
  <2>2. h[f] = Step[f - 1][h[f - 1]] /\ h[f - 1] \in V
    <3> HIDE DEF V, Step
    <3>1. h[(f - 1) + 1] = Step[f - 1][h[f - 1]]
      BY <1>2, <2>1
    <3> QED
      BY <1>2, <2>1, <3>1
  <2>3. Step[f - 1][h[f - 1]] = h[f - 1] \o Bytes((f - 1) + 1)
    BY <2>1, <2>2
  <2> QED
    BY <2>1, <2>2, <2>3
<1>5. g = Body(g)
  <2>1. \A f \in 0 .. N : g[f] = Body(g)[f]
    <3>1. \A f \in 0 .. N : f = 0 \/ f \in 1 .. N
      BY Constants
    <3>2. g[0] = <<>>
      BY <1>2, Constants
    <3> HIDE DEF g
    <3> QED
      BY <1>4, <3>1, <3>2
  <2> HIDE DEF g
  <2> QED
    BY <1>3, <2>1
<1>6. StreamOf = Body(StreamOf)
  <2> HIDE DEF g
  <2> QED BY <1>5, Zenon DEF StreamOf, N
<1>7. StreamOf[0] = <<>>
  BY <1>6, Constants
<1>8. \A f \in 1 .. N : StreamOf[f] = StreamOf[f - 1] \o Bytes(f)
  <2> SUFFICES ASSUME NEW f \in 1 .. N PROVE StreamOf[f] = StreamOf[f - 1] \o Bytes(f)
    OBVIOUS
  <2>1. StreamOf[f] = Body(StreamOf)[f]
    <3> HIDE DEF Body
    <3> QED BY <1>6
  <2>2. f \in 0 .. N /\ f # 0
    BY Constants
  <2> QED
    BY <2>1, <2>2
<1>9. StreamOf \in [0 .. N -> V]
  <2> DEFINE S == {n \in Nat : n <= N => StreamOf[n] \in V}
  <2>1. 0 \in S
    BY <1>1, <1>7
  <2>2. ASSUME NEW n \in Nat, n \in S PROVE n + 1 \in S
    <3>1. SUFFICES ASSUME n + 1 <= N PROVE StreamOf[n + 1] \in V
      OBVIOUS
    <3>2. n + 1 \in 1 .. N /\ (n + 1) - 1 = n
      BY <3>1, Constants
    <3>3. StreamOf[n] \in V /\ Bytes(n + 1) \in V
      BY <2>2, <3>1, <3>2, Constants, BytesFacts
    <3>4. StreamOf[n + 1] = StreamOf[n] \o Bytes(n + 1)
      BY <1>8, <3>2
    <3> QED
      BY <3>3, <3>4, ConcatProperties
  <2>3. Nat \subseteq S
    <3> HIDE DEF S
    <3> QED BY <2>1, <2>2, NatSetInduction
  <2>4. \A f \in 0 .. N : StreamOf[f] \in V
    BY <2>3, Constants
  <2> HIDE DEF V
  <2> QED
    BY <1>6, <2>4
<1> QED
  BY <1>7, <1>8, <1>9

LEMMA EndFacts ==
  /\ Stream \in Seq(Byte) /\ Total \in Nat
  /\ EndOf(0) = 0 /\ EndOf(N) = Total
  /\ \A f \in 0 .. N : EndOf(f) \in Nat
  /\ \A f \in 1 .. N : EndOf(f) = EndOf(f - 1) + HeaderSize + Frames[f]
<1>1. \A f \in 0 .. N : StreamOf[f] \in Seq(Byte) /\ EndOf(f) \in Nat
  BY StreamDefined, LenProperties DEF EndOf
<1>2. N \in 0 .. N
  BY Constants
<1>3. Stream \in Seq(Byte) /\ Total \in Nat /\ EndOf(N) = Total
  BY <1>1, <1>2 DEF Stream, Total, EndOf, N
<1>4. EndOf(0) = 0
  BY StreamDefined, EmptySeq DEF EndOf
<1>5. ASSUME NEW f \in 1 .. N PROVE EndOf(f) = EndOf(f - 1) + HeaderSize + Frames[f]
  <2>1. f - 1 \in 0 .. N
    BY Constants
  <2>2. Len(StreamOf[f]) = Len(StreamOf[f - 1]) + Len(Bytes(f))
    <3>1. /\ StreamOf[f] = StreamOf[f - 1] \o Bytes(f)
          /\ StreamOf[f - 1] \in Seq(Byte) /\ Bytes(f) \in Seq(Byte)
      BY <1>1, <2>1, StreamDefined, BytesFacts
    <3> QED
      BY <3>1, ConcatProperties
  <2>3. Len(Bytes(f)) = HeaderSize + Frames[f] /\ EndOf(f - 1) \in Nat
    BY <1>1, <2>1, BytesFacts
  <2>4. EndOf(f) = EndOf(f - 1) + (HeaderSize + Frames[f])
    BY <2>2, <2>3 DEF EndOf
  <2>5. HeaderSize \in Nat /\ Frames[f] \in Nat
    BY Constants
  <2> QED
    BY <2>3, <2>4, <2>5
<1> QED
  BY <1>1, <1>3, <1>4, <1>5

LEMMA EndsGrow == \A g \in 0 .. N : \A f \in 0 .. g : EndOf(f) <= EndOf(g)
<1> DEFINE S == {g \in Nat : g <= N => \A f \in 0 .. g : EndOf(f) <= EndOf(g)}
<1>1. 0 \in S
  BY EndFacts
<1>2. ASSUME NEW g \in Nat, g \in S PROVE g + 1 \in S
  <2>1. SUFFICES ASSUME g + 1 <= N, NEW f \in 0 .. g + 1
                 PROVE  EndOf(f) <= EndOf(g + 1)
    OBVIOUS
  <2>2. g + 1 \in 1 .. N /\ (g + 1) - 1 = g /\ g \in 0 .. N /\ f \in 0 .. N
    BY <2>1, Constants
  <2>3. /\ EndOf(g + 1) = EndOf(g) + HeaderSize + Frames[g + 1]
        /\ EndOf(g) \in Nat /\ EndOf(f) \in Nat
    BY <2>2, EndFacts
  <2>4. CASE f = g + 1
    BY <2>3, <2>4
  <2>5. CASE f # g + 1
    <3>1. f \in 0 .. g /\ g <= N
      BY <2>1, <2>5, Constants
    <3>2. EndOf(f) <= EndOf(g)
      BY <1>2, <3>1
    <3> QED
      BY <2>2, <2>3, <3>2, Constants
  <2> QED
    BY <2>4, <2>5
<1>3. Nat \subseteq S
  <2> HIDE DEF S
  <2> QED BY <1>1, <1>2, NatSetInduction
<1> QED
  BY <1>3, Constants

(* The bytes of frame f follow those of the frames before it.              *)
LEMMA StreamAt ==
  \A f \in 1 .. N : \A p \in 1 .. HeaderSize + Frames[f] :
    /\ EndOf(f - 1) + p \in 1 .. Total
    /\ Stream[EndOf(f - 1) + p] = <<f, p>>
<1> DEFINE Holds(m) ==
             \A f \in 1 .. m : \A p \in 1 .. HeaderSize + Frames[f] :
               /\ EndOf(f - 1) + p \in 1 .. EndOf(m)
               /\ StreamOf[m][EndOf(f - 1) + p] = <<f, p>>
           S == {m \in Nat : m <= N => Holds(m)}
<1>1. 0 \in S
  OBVIOUS
<1>2. ASSUME NEW m \in Nat, m \in S PROVE m + 1 \in S
  <2>1. SUFFICES ASSUME m + 1 <= N, NEW f \in 1 .. m + 1,
                        NEW p \in 1 .. HeaderSize + Frames[f]
                 PROVE  /\ EndOf(f - 1) + p \in 1 .. EndOf(m + 1)
                        /\ StreamOf[m + 1][EndOf(f - 1) + p] = <<f, p>>
    OBVIOUS
  <2>2. /\ m + 1 \in 1 .. N /\ (m + 1) - 1 = m /\ m \in 0 .. N
        /\ f \in 1 .. N /\ f - 1 \in 0 .. N
    BY <2>1, Constants
  <2>3. /\ EndOf(m + 1) = EndOf(m) + HeaderSize + Frames[m + 1]
        /\ EndOf(m) \in Nat /\ EndOf(f - 1) \in Nat
        /\ Frames[m + 1] \in Nat /\ Frames[f] \in Nat
    BY <2>2, EndFacts, Constants
  <2>4. /\ StreamOf[m] \in Seq(Byte) /\ Bytes(m + 1) \in Seq(Byte)
        /\ StreamOf[m + 1] = StreamOf[m] \o Bytes(m + 1)
        /\ Len(StreamOf[m]) = EndOf(m)
        /\ Len(Bytes(m + 1)) = HeaderSize + Frames[m + 1]
    BY <2>2, StreamDefined, BytesFacts DEF EndOf
  <2>5. \A i \in 1 .. EndOf(m) + (HeaderSize + Frames[m + 1]) :
          StreamOf[m + 1][i] =
            IF i <= EndOf(m) THEN StreamOf[m][i] ELSE Bytes(m + 1)[i - EndOf(m)]
    <3>1. \A i \in 1 .. Len(StreamOf[m]) + Len(Bytes(m + 1)) :
            (StreamOf[m] \o Bytes(m + 1))[i] =
              IF i <= Len(StreamOf[m]) THEN StreamOf[m][i]
              ELSE Bytes(m + 1)[i - Len(StreamOf[m])]
      BY <2>4, ConcatProperties
    <3> QED
      BY <2>4, <3>1
  <2>6. CASE f = m + 1
    <3>1. /\ EndOf(m) + p \in 1 .. EndOf(m) + (HeaderSize + Frames[m + 1])
          /\ ~ (EndOf(m) + p <= EndOf(m)) /\ (EndOf(m) + p) - EndOf(m) = p
      BY <2>3, <2>6, Constants
    <3>2. Bytes(m + 1)[p] = <<m + 1, p>>
      BY <2>2, <2>6, BytesFacts
    <3> QED
      BY <2>2, <2>3, <2>5, <2>6, <3>1, <3>2, Constants
  <2>7. CASE f # m + 1
    <3>1. f \in 1 .. m /\ m <= N
      BY <2>1, <2>7, Constants
    <3>2. /\ EndOf(f - 1) + p \in 1 .. EndOf(m)
          /\ StreamOf[m][EndOf(f - 1) + p] = <<f, p>>
      BY <1>2, <3>1
    <3> QED
      BY <2>3, <2>5, <3>2, Constants
  <2> QED
    BY <2>6, <2>7
<1>3. Nat \subseteq S
  <2> HIDE DEF S
  <2> QED BY <1>1, <1>2, NatSetInduction
<1>4. Holds(N)
  <2>1. N \in Nat /\ N <= N
    BY Constants
  <2> HIDE DEF Holds
  <2> QED
    BY <1>3, <2>1
<1> QED
  BY <1>4, EndFacts DEF Stream, N

-----------------------------------------------------------------------------
(* The inductive invariant.                                                *)
Flags ==
  /\ closing \in BOOLEAN /\ freed \in BOOLEAN
  /\ dangling \in BOOLEAN /\ crashed \in BOOLEAN

Ranges ==
  /\ written \in 0 .. Total /\ got \in 0 .. written
  /\ peer \in {"open", "shut", "reset"}
  /\ state \in {"backlog", "accepted", "dropped"} /\ failures \in 0 .. MaxFailures
  /\ pc \in {"epoll", "error", "read", "recv", "decode", "close"}
  /\ revents \subseteq {"IN", "RDHUP", "ERR"}

(* The buffer is a window on the stream, after the frames delivered.       *)
Count == Len(delivered)
Buffered == got - EndOf(Count)
Window ==
  /\ delivered \in Seq(1 .. N)
  /\ \A i \in 1 .. Count : delivered[i] = i /\ Frames[i] <= MaxFrameSize
  /\ EndOf(Count) <= got
  /\ pendingData = SubSeq(Stream, EndOf(Count) + 1, got)

(* The next frame is not complete, or longer than MAX_FRAME_SIZE.          *)
NoWhole == Count < N => got < EndOf(Count + 1)
TooLong == Count < N /\ Frames[Count + 1] > MaxFrameSize

(* processPendingData() has done all it can before the next recv.          *)
Settled ==
  /\ Buffered < HeaderSize + MaxFrameSize + BufferSize
  /\ pc # "decode" /\ ~freed => Buffered < HeaderSize + MaxFrameSize /\ NoWhole

(* closing_ is set only on the way to the destructor, which never runs     *)
(* between recv and processPendingData().                                  *)
Destructor ==
  /\ closing <=> freed
  /\ pc = "decode" => ~freed
  /\ state # "accepted" => got = 0 /\ pc = "epoll"

(* The events epoll reports are about the peer, and a peer that has shut   *)
(* down is read to the end, and so closed, before EPOLLRDHUP is looked at. *)
Events ==
  /\ "ERR" \in revents => peer = "reset"
  /\ "RDHUP" \in revents => peer # "open" /\ "IN" \in revents
  /\ pc = "close" /\ "RDHUP" \in revents => freed

(* Why a connection was destroyed.                                         *)
Reasons ==
  freed => \/ peer = "reset"
           \/ TooLong
           \/ peer = "shut" /\ got = written /\ NoWhole

IInv == Flags /\ Ranges /\ Window /\ Settled /\ Destructor /\ Events /\ Reasons

-----------------------------------------------------------------------------
(* How far the frames delivered reach.                                     *)
LEMMA CountFacts ==
  ASSUME Ranges, Window
  PROVE  /\ Count \in 0 .. N
         /\ EndOf(Count) \in 0 .. got /\ got \in 0 .. Total
         /\ pendingData \in Seq(Byte)
         /\ Len(pendingData) = Buffered
         /\ Buffered \in Nat
         /\ \A i \in 1 .. Buffered : pendingData[i] = Stream[EndOf(Count) + i]
<1>1. Count \in Nat /\ DOMAIN delivered = 1 .. Count
  BY LenProperties DEF Window, Count
<1>2. Count \in 0 .. N
  <2>1. CASE Count = 0
    BY <2>1, Constants
  <2>2. CASE Count # 0
    <3>1. Count \in 1 .. Count
      BY <1>1, <2>2
    <3>2. delivered[Count] = Count /\ delivered[Count] \in 1 .. N
      BY <3>1, ElementOfSeq DEF Window, Count
    <3> QED
      BY <1>1, <3>2, Constants
  <2> QED
    BY <2>1, <2>2
<1>3. EndOf(Count) \in 0 .. got /\ got \in 0 .. Total
  BY <1>2, EndFacts DEF Window, Ranges
<1>4. LET w == SubSeq(Stream, EndOf(Count) + 1, got)
      IN  /\ w \in Seq(Byte)
          /\ Len(w) = got - EndOf(Count)
          /\ \A i \in 1 .. got - EndOf(Count) : w[i] = Stream[EndOf(Count) + i]
  <2>1. got \in 0 .. Len(Stream)
    BY <1>3 DEF Total
  <2> QED
    BY <1>3, <2>1, EndFacts, WindowFacts
<1>5. pendingData = SubSeq(Stream, EndOf(Count) + 1, got)
  BY DEF Window
<1>6. Buffered \in Nat
  BY <1>3, EndFacts DEF Buffered
<1> QED
  BY <1>2, <1>3, <1>4, <1>5, <1>6 DEF Buffered

(* A header in the buffer is the header of the next frame.                 *)
LEMMA HeaderRead ==
  ASSUME Ranges, Window, Buffered >= HeaderSize
  PROVE  /\ Count < N
         /\ pendingData[1][1] = Count + 1
         /\ PayloadLength(pendingData) = Frames[Count + 1]
<1>1. /\ Count \in 0 .. N /\ EndOf(Count) \in Nat /\ Buffered \in Nat
      /\ got \in 0 .. Total /\ Buffered = got - EndOf(Count)
      /\ \A i \in 1 .. Buffered : pendingData[i] = Stream[EndOf(Count) + i]
  BY CountFacts DEF Buffered
<1>2. Count < N
  <2>1. ASSUME Count = N PROVE FALSE
    <3>1. EndOf(Count) = Total
      BY <2>1, EndFacts
    <3> QED
      BY <1>1, <3>1, Constants
  <2> QED
    BY <1>1, <2>1, Constants
<1>3. Count + 1 \in 1 .. N /\ (Count + 1) - 1 = Count
  BY <1>1, <1>2, Constants
<1>4. \A p \in 1 .. HeaderSize : pendingData[p] = <<Count + 1, p>>
  <2> SUFFICES ASSUME NEW p \in 1 .. HeaderSize
               PROVE  pendingData[p] = <<Count + 1, p>>
    OBVIOUS
  <2>1. p \in 1 .. HeaderSize + Frames[Count + 1] /\ p \in 1 .. Buffered
    BY <1>1, <1>3, Constants
  <2>2. Stream[EndOf((Count + 1) - 1) + p] = <<Count + 1, p>>
    BY <1>3, <2>1, StreamAt
  <2> QED
    BY <1>1, <1>3, <2>1, <2>2
<1>5. pendingData[1] = <<Count + 1, 1>> /\ pendingData[1][1] = Count + 1
  BY <1>4, Constants
<1>6. AtHeader(pendingData)
  BY <1>4, <1>5 DEF AtHeader
<1> QED
  BY <1>2, <1>5, <1>6 DEF PayloadLength

(* What tryDecode says of the buffer is what is true of the next frame.    *)
LEMMA VerdictSays ==
  ASSUME Ranges, Window
  PROVE  /\ Verdict(pendingData) = "incomplete" =>
              NoWhole /\ Buffered < HeaderSize + MaxFrameSize
         /\ Verdict(pendingData) = "invalid" => TooLong
         /\ Verdict(pendingData) \notin {"incomplete", "invalid"} =>
              /\ Count < N
              /\ pendingData[1][1] = Count + 1
              /\ PayloadLength(pendingData) = Frames[Count + 1]
              /\ Frames[Count + 1] <= MaxFrameSize
              /\ EndOf(Count + 1) <= got
<1>1. /\ Count \in 0 .. N /\ EndOf(Count) \in Nat
      /\ Buffered \in Nat /\ Len(pendingData) = Buffered
      /\ got \in Nat /\ Buffered = got - EndOf(Count)
  BY CountFacts DEF Buffered
<1>2. ASSUME Count < N
      PROVE  /\ EndOf(Count + 1) = EndOf(Count) + HeaderSize + Frames[Count + 1]
             /\ Frames[Count + 1] \in Nat
  <2>1. Count + 1 \in 1 .. N /\ (Count + 1) - 1 = Count
    BY <1>1, <1>2, Constants
  <2> QED
    BY <2>1, EndFacts, Constants
<1>3. CASE Buffered < HeaderSize
  <2>1. Verdict(pendingData) = "incomplete"
    BY <1>1, <1>3 DEF Verdict
  <2>2. NoWhole
    BY <1>1, <1>2, <1>3, Constants DEF NoWhole
  <2> QED
    BY <1>1, <1>3, <2>1, <2>2, Constants
<1>4. CASE Buffered >= HeaderSize
  <2>1. /\ Count < N
        /\ pendingData[1][1] = Count + 1
        /\ PayloadLength(pendingData) = Frames[Count + 1]
    BY <1>4, HeaderRead
  <2>2. Verdict(pendingData) =
          IF Frames[Count + 1] > MaxFrameSize THEN "invalid"
          ELSE IF Buffered < HeaderSize + Frames[Count + 1] THEN "incomplete"
          ELSE "frame"
    BY <1>1, <1>4, <2>1, Constants DEF Verdict
  <2>3. CASE Frames[Count + 1] > MaxFrameSize
    BY <2>1, <2>2, <2>3 DEF TooLong
  <2>4. CASE ~ (Frames[Count + 1] > MaxFrameSize)
    <3>1. CASE Buffered < HeaderSize + Frames[Count + 1]
      BY <1>1, <1>2, <2>1, <2>2, <2>4, <3>1, Constants DEF NoWhole
    <3>2. CASE ~ (Buffered < HeaderSize + Frames[Count + 1])
      BY <1>1, <1>2, <2>1, <2>2, <2>4, <3>2, Constants
    <3> QED
      BY <3>1, <3>2
  <2> QED
    BY <2>3, <2>4
<1> QED
  BY <1>1, <1>3, <1>4, Constants

-----------------------------------------------------------------------------
LEMMA InitInv == Init => IInv
<1> SUFFICES ASSUME Init PROVE IInv
  OBVIOUS
<1>1. Flags
  BY DEF Init, Flags
<1>2. Ranges
  BY EndFacts, Constants DEF Init, Ranges
<1>3. Count = 0 /\ EndOf(Count) = 0 /\ Buffered = 0
  BY EmptySeq, EndFacts DEF Init, Count, Buffered
<1>4. Window
  <2>1. SubSeq(Stream, EndOf(Count) + 1, got) = <<>>
    <3>1. EndOf(Count) + 1 = 1 /\ got = 0
      BY <1>3 DEF Init
    <3>2. SubSeq(Stream, 1, 0) = <<>>
      BY SubSeqEmpty
    <3> QED
      BY <3>1, <3>2
  <2>2. delivered \in Seq(1 .. N) /\ pendingData = <<>>
    BY DEF Init
  <2>3. EndOf(Count) <= got
    BY <1>3 DEF Init
  <2> QED
    <3>1. \A i \in 1 .. Count : delivered[i] = i /\ Frames[i] <= MaxFrameSize
      BY <1>3
    <3>2. pendingData = SubSeq(Stream, EndOf(Count) + 1, got)
      BY <2>1, <2>2
    <3> QED
      BY <2>2, <2>3, <3>1, <3>2 DEF Window
<1>5. Settled
  <2>1. NoWhole
    <3> SUFFICES ASSUME 0 < N PROVE 0 < EndOf(0 + 1)
      BY <1>3 DEF NoWhole, Init
    <3>1. 1 \in 1 .. N /\ 1 - 1 = 0
      BY Constants
    <3>2. EndOf(1) = EndOf(0) + HeaderSize + Frames[1]
      BY <3>1, EndFacts
    <3> QED
      BY <3>1, <3>2, EndFacts, Constants
  <2> QED
    BY <1>3, <2>1, Constants DEF Settled
<1>6. Destructor /\ Events /\ Reasons
  BY DEF Init, Destructor, Events, Reasons
<1> QED
  BY <1>1, <1>2, <1>4, <1>5, <1>6 DEF IInv

LEMMA FlagsStep == Flags /\ [Next]_vars => Flags'
<1> SUFFICES ASSUME Flags, [Next]_vars PROVE Flags'
  OBVIOUS
<1> USE DEF Flags
<1>1. ASSUME RequestClose PROVE Flags'
  BY <1>1 DEF RequestClose, memory
<1>2. ASSUME UseFreed PROVE Flags'
  BY <1>2 DEF UseFreed
<1>3. ASSUME UNCHANGED memory PROVE Flags'
  BY <1>3 DEF memory
<1>4. RequestClose \/ UseFreed \/ UNCHANGED memory
  <2>1. ASSUME Reactor PROVE RequestClose \/ UseFreed \/ UNCHANGED memory
    BY <2>1 DEF Reactor, Accept, AcceptFails, EpollReturns, OnError, OnRead, OnClose,
      RecvData, RecvEnds, RecvFreed, Decode
  <2>2. ASSUME \/ \E n \in 1 .. Total : PeerWrites(n)
               \/ \E how \in {"shut", "reset"} : PeerStops(how)
               \/ Over \/ UNCHANGED vars
        PROVE  UNCHANGED memory
    BY <2>2 DEF PeerWrites, PeerStops, Over, vars, memory
  <2> QED
    BY <2>1, <2>2 DEF Next
<1> QED
  BY <1>1, <1>2, <1>3, <1>4

-----------------------------------------------------------------------------
LEMMA WindowStays ==
  ASSUME Window, UNCHANGED <<got, pendingData, delivered>>
  PROVE  /\ Window' /\ Count' = Count /\ Buffered' = Buffered
         /\ (NoWhole' <=> NoWhole) /\ (TooLong' <=> TooLong)
BY DEF Window, Count, Buffered, NoWhole, TooLong

LEMMA PeerStep ==
  ASSUME Ranges, Window, Settled, Destructor, Events, Reasons,
         \/ \E n \in 1 .. Total : PeerWrites(n)
         \/ \E how \in {"shut", "reset"} : PeerStops(how)
  PROVE  Ranges' /\ Settled' /\ Destructor' /\ Events' /\ Reasons'
<1>0. UNCHANGED <<got, pendingData, delivered>>
  BY DEF PeerWrites, PeerStops
<1>1. /\ Buffered' = Buffered
      /\ (NoWhole' <=> NoWhole) /\ (TooLong' <=> TooLong)
  BY <1>0, WindowStays
<1>2. /\ peer = "open"
      /\ UNCHANGED <<state, failures, pc, revents, closing, freed>>
      /\ peer' \in {"open", "shut", "reset"}
  BY DEF PeerWrites, PeerStops, acceptance, memory
<1>3. written' \in 0 .. Total /\ got' \in 0 .. written'
  BY <1>0, EndFacts DEF Ranges, PeerWrites, PeerStops
<1>4. Ranges'
  BY <1>2, <1>3 DEF Ranges
<1>5. Settled' /\ Destructor'
  BY <1>0, <1>1, <1>2 DEF Settled, Destructor
<1>6. Events'
  BY <1>2 DEF Events
<1>7. Reasons'
  BY <1>1, <1>2 DEF Reasons
<1> QED
  BY <1>4, <1>5, <1>6, <1>7

(* The listening socket, and the event handlers but for recv and decode.   *)
LEMMA DispatchStep ==
  ASSUME Ranges, Window, Settled, Destructor, Events, Reasons,
         Accept \/ AcceptFails \/ EpollReturns \/ OnError \/ OnRead \/ OnClose
  PROVE  Ranges' /\ Settled' /\ Destructor' /\ Events' /\ Reasons'
<1>0. UNCHANGED <<got, pendingData, delivered, written, peer>>
  BY DEF Accept, AcceptFails, EpollReturns, OnError, OnRead, OnClose, stream
<1>1. /\ Buffered' = Buffered
      /\ (NoWhole' <=> NoWhole) /\ (TooLong' <=> TooLong)
  BY <1>0, WindowStays
<1>2. ASSUME Accept \/ AcceptFails
      PROVE  Ranges' /\ Settled' /\ Destructor' /\ Events' /\ Reasons'
  <2>1. UNCHANGED <<pc, revents, closing, freed>> /\ state = "backlog" /\ pc = "epoll"
    BY <1>2 DEF Accept, AcceptFails, memory
  <2>2. state' \in {"backlog", "accepted", "dropped"} /\ failures' \in 0 .. MaxFailures
    BY <1>2, Constants DEF Accept, AcceptFails, Ranges
  <2>3. Ranges'
    BY <1>0, <2>1, <2>2 DEF Ranges
  <2>4. Destructor'
    BY <1>0, <2>1 DEF Destructor
  <2> QED
    BY <1>0, <1>1, <2>1, <2>3, <2>4 DEF Settled, Events, Reasons
<1>3. ASSUME EpollReturns
      PROVE  Ranges' /\ Settled' /\ Destructor' /\ Events' /\ Reasons'
  <2>1. /\ UNCHANGED <<state, failures, closing, freed>> /\ state = "accepted"
        /\ pc = "epoll" /\ pc' = "error" /\ ~freed
        /\ revents' = Readiness
    BY <1>3 DEF EpollReturns, memory, stream, acceptance
  <2>2. /\ Readiness \subseteq {"IN", "RDHUP", "ERR"}
        /\ "ERR" \in Readiness => peer = "reset"
        /\ "RDHUP" \in Readiness => peer # "open" /\ "IN" \in Readiness
    BY DEF Readiness
  <2>3. Ranges'
    BY <1>0, <2>1, <2>2 DEF Ranges
  <2>4. Events'
    BY <1>0, <2>1, <2>2 DEF Events
  <2>5. Destructor'
    BY <2>1 DEF Destructor
  <2> QED
    BY <1>0, <1>1, <2>1, <2>3, <2>4, <2>5 DEF Settled, Reasons
<1>4. ASSUME OnError
      PROVE  Ranges' /\ Settled' /\ Destructor' /\ Events' /\ Reasons'
  <2>1. /\ UNCHANGED <<state, failures, revents>>
        /\ pc = "error" /\ pc' = "read"
    BY <1>4 DEF OnError, stream, acceptance
  <2>2. \/ "ERR" \in revents /\ closing' /\ freed'
        \/ UNCHANGED <<closing, freed>>
    BY <1>4 DEF OnError, RequestClose, memory
  <2>3. (closing' <=> freed') /\ (freed => freed')
    BY <2>2 DEF Destructor
  <2>4. freed' /\ ~freed => peer = "reset"
    BY <2>2 DEF Events
  <2>5. Ranges'
    BY <1>0, <2>1 DEF Ranges
  <2>6. Destructor' /\ Events'
    BY <1>0, <2>1, <2>3 DEF Destructor, Events
  <2>7. Settled'
    BY <1>1, <2>1, <2>3 DEF Settled
  <2>8. Reasons'
    BY <1>0, <1>1, <2>4 DEF Reasons
  <2> QED
    BY <2>5, <2>6, <2>7, <2>8
<1>5. ASSUME OnRead
      PROVE  Ranges' /\ Settled' /\ Destructor' /\ Events' /\ Reasons'
  <2>1. /\ UNCHANGED <<state, failures, revents, closing, freed>>
        /\ pc = "read" /\ pc' \in {"close", "recv"}
    BY <1>5 DEF OnRead, UseFreed, stream, acceptance, memory
  <2>2. pc' = "close" /\ "IN" \in revents => freed
    BY <1>5 DEF OnRead, Destructor
  <2>3. Ranges'
    BY <1>0, <2>1 DEF Ranges
  <2>4. Events'
    BY <1>0, <2>1, <2>2 DEF Events
  <2>5. Destructor'
    BY <2>1 DEF Destructor
  <2> QED
    BY <1>0, <1>1, <2>1, <2>3, <2>4, <2>5 DEF Settled, Reasons
<1>6. ASSUME OnClose
      PROVE  Ranges' /\ Settled' /\ Destructor' /\ Events' /\ Reasons'
  <2>1. /\ UNCHANGED <<state, failures>> /\ pc = "close" /\ pc' = "epoll" /\ revents' = {}
    BY <1>6 DEF OnClose, stream, acceptance
  <2>2. UNCHANGED <<closing, freed>>
    BY <1>6 DEF OnClose, Events, UseFreed, memory
  <2>3. Ranges'
    BY <1>0, <2>1 DEF Ranges
  <2>4. Events'
    BY <2>1 DEF Events
  <2>5. Destructor'
    BY <1>0, <2>1, <2>2 DEF Destructor
  <2> QED
    BY <1>0, <1>1, <2>1, <2>2, <2>3, <2>4, <2>5 DEF Settled, Reasons
<1> QED
  BY <1>2, <1>3, <1>4, <1>5, <1>6

(* handleRead() ends: the peer has closed, failed, or has nothing more.    *)
LEMMA RecvEndStep ==
  ASSUME Ranges, Window, Settled, Destructor, Events, Reasons,
         RecvEnds \/ RecvFreed
  PROVE  Ranges' /\ Settled' /\ Destructor' /\ Events' /\ Reasons'
<1>0. /\ UNCHANGED <<got, pendingData, delivered, written, peer, state, failures, revents>>
      /\ pc = "recv" /\ pc' = "close"
  BY DEF RecvEnds, RecvFreed, stream, acceptance
<1>1. /\ Buffered' = Buffered
      /\ (NoWhole' <=> NoWhole) /\ (TooLong' <=> TooLong)
  BY <1>0, WindowStays
<1>2. Ranges'
  BY <1>0 DEF Ranges
<1>3. (closing' <=> freed') /\ (freed => freed')
  BY DEF RecvEnds, RecvFreed, RequestClose, UseFreed, memory, Destructor
<1>4. freed' /\ ~freed =>
        peer = "reset" \/ (peer = "shut" /\ got = written)
  BY DEF RecvEnds, RecvFreed, RequestClose, UseFreed, memory
<1>5. peer # "open" => freed'
  BY DEF RecvEnds, RecvFreed, RequestClose, UseFreed, memory, Destructor, Ranges
<1>6. Events'
  BY <1>0, <1>5 DEF Events
<1>7. Destructor' /\ Settled'
  BY <1>0, <1>1, <1>3 DEF Destructor, Settled
<1>8. Reasons'
  BY <1>0, <1>1, <1>4 DEF Reasons, Settled
<1> QED
  BY <1>2, <1>6, <1>7, <1>8

(* recv lengthens the window by n bytes.                                   *)
LEMMA RecvStep ==
  ASSUME Ranges, Window, Settled, Destructor, Events, Reasons,
         NEW n \in 1 .. BufferSize, RecvData(n)
  PROVE  /\ Ranges' /\ Window' /\ Settled' /\ Destructor' /\ Events' /\ Reasons'
<1>0. /\ UNCHANGED <<delivered, written, peer, state, failures, revents, closing, freed>>
      /\ pc = "recv" /\ pc' = "decode" /\ ~freed
      /\ got' = got + n /\ got + n <= written
      /\ pendingData' = pendingData \o SubSeq(Stream, got + 1, got + n)
  BY DEF RecvData, stream, acceptance, memory
<1>1. /\ Count \in 0 .. N /\ EndOf(Count) \in 0 .. got
      /\ got \in Nat /\ got + n \in 0 .. Total /\ written \in Nat
      /\ Count' = Count
  BY <1>0, CountFacts, EndFacts, Constants DEF Ranges, Count
<1>2. Window'
  <2>1. SubSeq(Stream, EndOf(Count) + 1, got) \o SubSeq(Stream, got + 1, got + n)
          = SubSeq(Stream, EndOf(Count) + 1, got + n)
    <3>1. got + n \in 0 .. Len(Stream) /\ got \in 0 .. got + n
      BY <1>1, Constants DEF Total
    <3> QED
      BY <1>1, <3>1, EndFacts, WindowGrows
  <2>2. pendingData' = SubSeq(Stream, EndOf(Count) + 1, got + n)
    BY <1>0, <2>1 DEF Window
  <2>3. EndOf(Count) <= got + n
    <3>1. EndOf(Count) \in Int /\ EndOf(Count) <= got /\ n \in Nat
      BY <1>1, Constants
    <3> QED
      BY <1>1, <3>1
  <2> QED
    BY <1>0, <1>1, <2>2, <2>3 DEF Window
<1>3. Ranges'
  <2>1. got' \in 0 .. written'
    BY <1>0, <1>1, Constants
  <2> QED
    BY <1>0, <2>1 DEF Ranges
<1>4. Settled'
  <2>1. Buffered < HeaderSize + MaxFrameSize
    BY <1>0 DEF Settled
  <2>2. Buffered' = Buffered + n /\ Buffered \in Nat /\ n <= BufferSize
    BY <1>0, <1>1, CountFacts, Constants DEF Buffered
  <2>3. Buffered' < HeaderSize + MaxFrameSize + BufferSize
    BY <2>1, <2>2, Constants
  <2> QED
    BY <1>0, <2>3 DEF Settled
<1>5. Destructor'
  <2>1. state = "accepted"
    BY <1>0 DEF Destructor
  <2> QED
    BY <1>0, <2>1 DEF Destructor
<1>6. Events' /\ Reasons'
  BY <1>0 DEF Events, Reasons
<1> QED
  BY <1>2, <1>3, <1>4, <1>5, <1>6

(* One round of processPendingData().                                      *)
LEMMA DecodeStep ==
  ASSUME Ranges, Window, Settled, Destructor, Events, Reasons, Decode
  PROVE  /\ Ranges' /\ Window' /\ Settled' /\ Destructor' /\ Events' /\ Reasons'
<1>0. /\ UNCHANGED <<got, written, peer, state, failures, revents>>
      /\ pc = "decode" /\ ~freed /\ ~closing /\ state = "accepted"
  BY DEF Decode, stream, acceptance, Destructor
<1>1. CASE Verdict(pendingData) = "incomplete"
  <2>1. pc' = "recv" /\ UNCHANGED <<pendingData, delivered, closing, freed>>
    BY <1>1 DEF Decode, memory
  <2>2. /\ Window' /\ Buffered' = Buffered
        /\ (NoWhole' <=> NoWhole) /\ (TooLong' <=> TooLong)
    BY <1>0, <2>1, WindowStays
  <2>3. NoWhole /\ Buffered < HeaderSize + MaxFrameSize
    BY <1>1, VerdictSays
  <2>4. Ranges'
    BY <1>0, <2>1 DEF Ranges
  <2>5. Settled'
    BY <2>2, <2>3 DEF Settled
  <2>6. Destructor' /\ Events' /\ Reasons'
    BY <1>0, <2>1 DEF Destructor, Events, Reasons
  <2> QED
    BY <2>2, <2>4, <2>5, <2>6
<1>2. CASE Verdict(pendingData) = "invalid"
  <2>1. pc' = "recv" /\ closing' /\ freed' /\ UNCHANGED <<pendingData, delivered>>
    BY <1>0, <1>2 DEF Decode, RequestClose
  <2>2. /\ Window' /\ Buffered' = Buffered
        /\ (NoWhole' <=> NoWhole) /\ (TooLong' <=> TooLong)
    BY <1>0, <2>1, WindowStays
  <2>3. TooLong
    BY <1>2, VerdictSays
  <2>4. Ranges'
    BY <1>0, <2>1 DEF Ranges
  <2>5. Settled' /\ Reasons'
    BY <2>1, <2>2, <2>3 DEF Settled, Reasons
  <2>6. Destructor' /\ Events'
    BY <1>0, <2>1 DEF Destructor, Events
  <2> QED
    BY <2>2, <2>4, <2>5, <2>6
<1>3. CASE Verdict(pendingData) \notin {"incomplete", "invalid"}
  <2>1. /\ delivered' = Append(delivered, pendingData[1][1])
        /\ pendingData' = SubSeq(pendingData,
             HeaderSize + PayloadLength(pendingData) + 1, Len(pendingData))
        /\ UNCHANGED <<pc, closing, freed>>
    BY <1>3 DEF Decode, memory
  <2>2. /\ Count < N
        /\ pendingData[1][1] = Count + 1
        /\ PayloadLength(pendingData) = Frames[Count + 1]
        /\ Frames[Count + 1] <= MaxFrameSize
        /\ EndOf(Count + 1) <= got
    BY <1>3, VerdictSays
  <2>3. /\ Count \in 0 .. N /\ EndOf(Count) \in 0 .. got /\ got \in 0 .. Total
        /\ Len(pendingData) = got - EndOf(Count) /\ Buffered \in Nat
        /\ Buffered = got - EndOf(Count)
    BY CountFacts DEF Buffered
  <2>4. Count + 1 \in 1 .. N /\ (Count + 1) - 1 = Count
    BY <2>2, <2>3, Constants
  <2>5. /\ EndOf(Count + 1) = EndOf(Count) + (HeaderSize + Frames[Count + 1])
        /\ Frames[Count + 1] \in Nat /\ EndOf(Count) \in Nat /\ EndOf(Count + 1) \in Nat
    <3>1. EndOf(Count + 1) = EndOf(Count) + HeaderSize + Frames[Count + 1]
      BY <2>4, EndFacts
    <3>2. Frames[Count + 1] \in Nat /\ EndOf(Count) \in Nat
      BY <2>3, <2>4, Constants, EndFacts
    <3> QED
      BY <3>1, <3>2, Constants
  <2>6. /\ Count' = Count + 1
        /\ delivered' \in Seq(1 .. N)
        /\ \A i \in 1 .. Count : delivered'[i] = delivered[i]
        /\ delivered'[Count + 1] = Count + 1
    <3>1. delivered' = Append(delivered, Count + 1) /\ delivered \in Seq(1 .. N)
      BY <2>1, <2>2 DEF Window
    <3> QED
      BY <2>4, <3>1 DEF Count
  <2>7. Window'
    <3>1. pendingData' = SubSeq(Stream, EndOf(Count + 1) + 1, got)
      <4> DEFINE k == HeaderSize + Frames[Count + 1]
      <4>1. k \in 0 .. got - EndOf(Count) /\ EndOf(Count) + k = EndOf(Count + 1)
        BY <2>2, <2>3, <2>5, Constants
      <4>2. got \in 0 .. Len(Stream) /\ Stream \in Seq(Byte)
        BY <2>3, EndFacts DEF Total
      <4> HIDE DEF k
      <4>3. SubSeq(SubSeq(Stream, EndOf(Count) + 1, got), k + 1, got - EndOf(Count))
              = SubSeq(Stream, (EndOf(Count) + k) + 1, got)
        BY <2>3, <4>1, <4>2, WindowShrinks
      <4>4. pendingData' = SubSeq(pendingData, k + 1, got - EndOf(Count))
        BY <2>1, <2>2, <2>3 DEF k
      <4> QED
        BY <4>1, <4>3, <4>4 DEF Window
    <3>2. \A i \in 1 .. Count + 1 : delivered'[i] = i /\ Frames[i] <= MaxFrameSize
      <4>1. \A i \in 1 .. Count + 1 : i \in 1 .. Count \/ i = Count + 1
        BY <2>3
      <4>2. \A i \in 1 .. Count : delivered[i] = i /\ Frames[i] <= MaxFrameSize
        BY DEF Window
      <4> QED
        BY <2>2, <2>6, <4>1, <4>2
    <3> QED
      BY <1>0, <2>2, <2>6, <3>1, <3>2 DEF Window
  <2>8. Settled'
    <3>1. Buffered' = got - EndOf(Count + 1)
      BY <1>0, <2>6 DEF Buffered
    <3>2. Buffered' <= Buffered /\ Buffered' \in Int
      BY <2>3, <2>5, <3>1, Constants, SMTT(20)
    <3>3. Buffered' < HeaderSize + MaxFrameSize + BufferSize
      BY <2>3, <3>2, Constants DEF Settled
    <3> QED
      BY <1>0, <2>1, <3>3 DEF Settled
  <2>9. Ranges' /\ Destructor' /\ Events' /\ Reasons'
    BY <1>0, <2>1 DEF Ranges, Destructor, Events, Reasons
  <2> QED
    BY <2>7, <2>8, <2>9
<1> QED
  BY <1>1, <1>2, <1>3

LEMMA Invariance == Spec => []IInv
<1>1. ASSUME IInv, [Next]_vars PROVE IInv'
  <2>0. Flags /\ Ranges /\ Window /\ Settled /\ Destructor /\ Events /\ Reasons
    BY <1>1 DEF IInv
  <2>1. Flags'
    BY <1>1, <2>0, FlagsStep
  <2>2. ASSUME \/ \E n \in 1 .. Total : PeerWrites(n)
               \/ \E how \in {"shut", "reset"} : PeerStops(how)
        PROVE  IInv'
    <3>1. UNCHANGED <<got, pendingData, delivered>>
      BY <2>2 DEF PeerWrites, PeerStops
    <3> QED
      BY <2>0, <2>1, <2>2, <3>1, WindowStays, PeerStep DEF IInv
  <2>3. ASSUME Accept \/ AcceptFails \/ EpollReturns \/ OnError \/ OnRead \/ OnClose
        PROVE  IInv'
    <3>1. UNCHANGED <<got, pendingData, delivered>>
      BY <2>3 DEF Accept, AcceptFails, EpollReturns, OnError, OnRead, OnClose
    <3> QED
      BY <2>0, <2>1, <2>3, <3>1, WindowStays, DispatchStep DEF IInv
  <2>4. ASSUME RecvEnds \/ RecvFreed PROVE IInv'
    <3>1. UNCHANGED <<got, pendingData, delivered>>
      BY <2>4 DEF RecvEnds, RecvFreed
    <3> QED
      BY <2>0, <2>1, <2>4, <3>1, WindowStays, RecvEndStep DEF IInv
  <2>5. ASSUME NEW n \in 1 .. BufferSize, RecvData(n) PROVE IInv'
    BY <2>0, <2>1, <2>5, RecvStep DEF IInv
  <2>6. ASSUME Decode PROVE IInv'
    BY <2>0, <2>1, <2>6, DecodeStep DEF IInv
  <2>7. ASSUME UNCHANGED vars PROVE IInv'
    BY <2>0, <2>1, <2>7 DEF vars, acceptance, IInv, Ranges, Window, Settled, Destructor,
      Events, Reasons, Count, Buffered, NoWhole, TooLong
  <2> QED
    BY <1>1, <2>2, <2>3, <2>4, <2>5, <2>6, <2>7 DEF Next, Reactor, Over
<1> QED
  BY InitInv, <1>1, PTL DEF Spec

(* Types, and the bound of the buffer: between two calls of recv it holds  *)
(* less than one frame of the greatest length (FrameCodec.cpp:97-108).     *)
THEOREM TypeCorrect == Spec => []TypeOK
<1>1. ASSUME IInv PROVE TypeOK
  <2>0. Flags /\ Ranges /\ Window /\ Settled /\ Destructor
    BY <1>1 DEF IInv
  <2>1. pendingData \in Seq(Byte) /\ Len(pendingData) = Buffered /\ Count \in Nat
    BY <2>0, CountFacts
  <2>2. /\ closing \in BOOLEAN /\ freed \in BOOLEAN
        /\ dangling \in BOOLEAN /\ crashed \in BOOLEAN
    BY <2>0 DEF Flags
  <2>3. DOMAIN delivered = 1 .. Count
    BY <2>0, LenProperties DEF Window, Count
  <2>4. \A i \in DOMAIN delivered : Frames[delivered[i]] <= MaxFrameSize
    BY <2>0, <2>3 DEF Window
  <2>5. /\ Len(pendingData) < HeaderSize + MaxFrameSize + BufferSize
        /\ pc \in {"epoll", "recv"} /\ ~freed =>
             Len(pendingData) < HeaderSize + MaxFrameSize
    BY <2>0, <2>1 DEF Settled
  <2>6. /\ pendingData \in Seq((1 .. Len(Frames)) \X Nat)
        /\ delivered \in Seq(1 .. Len(Frames))
    BY <2>0, <2>1 DEF Window, Byte, N
  <2>7. state # "accepted" => got = 0
    BY <2>0 DEF Destructor
  <2> QED
    BY <2>0, <2>2, <2>4, <2>5, <2>6, <2>7 DEF Ranges, TypeOK
<1> QED
  BY Invariance, <1>1, PTL

(* However TCP cuts and joins the stream, the frames delivered are the     *)
(* first ones sent, whole and in order (FrameCodec.cpp:65-158), for every  *)
(* sequence of frames and every size of the receive buffer.                *)
THEOREM FramesArriveIntact == Spec => []FramesIntact
<1>1. ASSUME IInv PROVE FramesIntact
  <2>1. DOMAIN delivered = 1 .. Count
    BY <1>1, LenProperties DEF IInv, Window, Count
  <2> QED
    BY <1>1, <2>1 DEF IInv, Window, Count, FramesIntact
<1> QED
  BY Invariance, <1>1, PTL

(* A peer that sends whole frames and closes has them all delivered        *)
(* (TcpConnection.cpp:163-195), but for those after a frame that is too    *)
(* long.                                                                   *)
THEOREM CloseLosesNothing == Spec => []NothingLostOnClose
<1>1. ASSUME IInv PROVE NothingLostOnClose
  <2>0. Ranges /\ Window /\ Reasons
    BY <1>1 DEF IInv
  <2> SUFFICES ASSUME freed, peer = "shut", NEW f \in Deliverable(written)
               PROVE  f \in {delivered[i] : i \in DOMAIN delivered}
    BY DEF NothingLostOnClose
  <2>1. /\ Count \in 0 .. N /\ EndOf(Count) \in Nat /\ got \in Nat
        /\ DOMAIN delivered = 1 .. Count
        /\ \A i \in 1 .. Count : delivered[i] = i
    <3>1. DOMAIN delivered = 1 .. Count
      BY <2>0, LenProperties DEF Window, Count
    <3> QED
      BY <2>0, <3>1, CountFacts, EndFacts DEF Window
  <2>2. /\ f \in 1 .. N /\ EndOf(f) <= written
        /\ \A g \in 1 .. f : Frames[g] <= MaxFrameSize
    BY DEF Deliverable, N
  <2>3. ASSUME f > Count PROVE FALSE
    <3>1. /\ Count < N /\ Count + 1 \in 1 .. f /\ Count + 1 \in 0 .. f
          /\ Count + 1 \in 1 .. N /\ f \in 0 .. N /\ Count + 1 \in 0 .. N
      BY <2>1, <2>2, <2>3, Constants
    <3>2. Frames[Count + 1] <= MaxFrameSize /\ Frames[Count + 1] \in Nat
      BY <2>2, <3>1, Constants
    <3>3. ~ TooLong
      BY <3>2, Constants DEF TooLong
    <3>4. got = written /\ NoWhole
      BY <2>0, <3>3 DEF Reasons
    <3>5. got < EndOf(Count + 1) /\ EndOf(Count + 1) <= EndOf(f)
      BY <3>1, <3>4, EndsGrow DEF NoWhole
    <3>6. EndOf(Count + 1) \in Nat /\ EndOf(f) \in Nat
      BY <3>1, EndFacts
    <3> QED
      BY <2>1, <2>2, <3>4, <3>5, <3>6
  <2>4. f \in 1 .. Count
    BY <2>1, <2>2, <2>3, Constants
  <2> QED
    BY <2>1, <2>4
<1> QED
  BY Invariance, <1>1, PTL
=============================================================================
