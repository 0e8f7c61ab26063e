--------------------------- MODULE SamplingProofs ---------------------------
(***************************************************************************)
(* Proofs about Sampling and MetricsFormat for every number of process     *)
(* ids, every length of a tick and of a period, all that the collectors    *)
(* may return, and every payload somebody may send.  The first part is     *)
(* about what two snapshots have to do with each other, although neither   *)
(* is taken at one instant; the second about the parser, line by line; the *)
(* third puts both together: what is sent is what is read.                 *)
(***************************************************************************)
EXTENDS Sampling, CommonLemmas, SequenceTheorems, FiniteSetTheorems, TLAPS

(* TypeOK in parts: what the kernel counts, what the agent has, what it    *)
(* read.                                                                   *)
KernelTypes ==
  /\ now \in 0 .. Horizon /\ busy \in 0 .. Horizon /\ idle \in 0 .. Horizon
  /\ drops \in 0 .. MaxDrops
  /\ rx \in 0 .. MaxBytes /\ received \in 0 .. MaxBytes
  /\ procs \in [Pids -> [alive : BOOLEAN, start : 0 .. Horizon, cpu : 0 .. Horizon]]

AgentTypes ==
  /\ pc \in {"off", "cpu", "network", "name", "times", "memory", "build",
             "sent", "sleep", "ended"}
  /\ pid \in Pids
  /\ started \in BOOLEAN
  /\ nextSample \in Nat

SnapshotTypes == previous \in Snapshots /\ current \in Snapshots
ResultTypes == sample.from \in {"nobody", "other", "agent"} /\ read.ok \in BOOLEAN

(* The one CPU runs one process in a tick, and an interface that was reset *)
(* shows less than it received.                                            *)
Counted ==
  /\ busy + idle <= now
  /\ rx <= received
  /\ \A p \in Pids : procs[p].start <= now /\ procs[p].cpu <= now

(* A snapshot s was read before: what only grows was not more then.        *)
Past(s) ==
  /\ s.busy + s.idle <= now /\ s.busy <= busy
  /\ s.rx <= s.received /\ s.received <= received
  /\ s.received - s.rx <= received - rx
  /\ s.at <= now
  /\ \A p \in Pids : /\ s.procs[p].start <= procs[p].start
                     /\ s.procs[p].name <= procs[p].start

(* The two snapshots, as far as this round's was read.                     *)
Snapshotting == {"name", "times", "memory"}
NetworkWasRead == Snapshotting \cup {"build", "sent"}
CpuWasRead == NetworkWasRead \cup {"network"}

Ordered ==
  /\ pc \in CpuWasRead => previous.busy <= current.busy
  /\ pc \in NetworkWasRead =>
       /\ previous.received <= current.received
       /\ previous.received - previous.rx <= current.received - current.rx
       /\ previous.at <= current.at

(* The name was read before the start time, and not before the previous    *)
(* snapshot: between two equal start times there is only the name of the   *)
(* process they are of (ProcessCollector.cpp:201-249).                     *)
NameFits(p) ==
  /\ previous.procs[p].start <= current.procs[p].name
  /\ current.procs[p].name <= current.procs[p].start

Named ==
  /\ \A p \in Pids : current.procs[p].listed => NameFits(p)
  /\ pc = "times" => previous.procs[pid].start <= current.procs[pid].name
  /\ pc = "memory" => NameFits(pid)

(* An id is listed once it was passed.                                     *)
Passed ==
  /\ pc \in {"off", "sleep", "cpu", "network"} =>
       \A p \in Pids : ~current.procs[p].listed
  /\ pc \in Snapshotting => \A p \in Pids : p >= pid => ~current.procs[p].listed
  /\ pc \notin Snapshotting \cup {"ended"} => pid = 1

(* Samples are not taken before they are due (MonitorAgent.cpp:721).       *)
Due ==
  /\ started /\ pc \in {"cpu", "network"} => now >= nextSample
  /\ started /\ pc \in NetworkWasRead => current.at >= nextSample
  /\ sample.from = "agent" => pc = "sent"
  /\ pc = "sent" => started
  /\ pc = "off" => ~started

IInv ==
  /\ KernelTypes /\ AgentTypes /\ SnapshotTypes /\ ResultTypes
  /\ Counted /\ Past(previous) /\ Past(current) /\ Ordered /\ Named /\ Passed /\ Due

-----------------------------------------------------------------------------
Processes == [alive : BOOLEAN, start : 0 .. Horizon, cpu : 0 .. Horizon]

LEMMA Constants ==
  /\ Word \in Nat /\ IntMax \in Nat /\ IntMax < Word
  /\ IsFiniteSet(Pids) /\ Pids = 1 .. Cardinality(Pids)
  /\ Cardinality(Pids) \in 1 .. IntMax
  /\ TopCount \in Nat /\ SamplePeriod \in Nat /\ SamplePeriod > 0
  /\ TickMs \in Nat /\ TickMs >= 5
  /\ Horizon \in Nat /\ MaxBytes \in Nat /\ MaxDrops \in Nat
  /\ Word > Horizon + 1
  /\ Instants \subseteq Readings
  /\ Name \in [0 .. Horizon -> Names]
  /\ OtherPayloads \subseteq Seq(RawLines)
  /\ 1 \in Pids /\ Pids \subseteq Nat
BY FormatAssumption, SamplingAssumption

LEMMA Bounds ==
  Horizon \in Nat /\ MaxBytes \in Nat /\ MaxDrops \in Nat /\ 1 \in Pids /\ Pids \subseteq Nat
BY Constants

LEMMA EmptySnapshot ==
  /\ NoEntry \in Entries
  /\ NoSnapshot \in Snapshots
  /\ NoSnapshot.busy = 0 /\ NoSnapshot.idle = 0 /\ NoSnapshot.rx = 0
  /\ NoSnapshot.received = 0 /\ NoSnapshot.at = 0
  /\ \A p \in Pids : NoSnapshot.procs[p] = NoEntry
  /\ NoEntry.start = 0 /\ NoEntry.name = 0 /\ NoEntry.listed = FALSE
BY Constants DEF NoEntry, NoSnapshot, Entries, Snapshots

LEMMA InitInv == Init => IInv
<1> SUFFICES ASSUME Init PROVE IInv
  OBVIOUS
<1>1. KernelTypes /\ AgentTypes
  <2>1. procs \in [Pids -> [alive : BOOLEAN, start : {0}, cpu : {0}]]
    BY DEF Init
  <2>2. [alive : BOOLEAN, start : {0}, cpu : {0}] \subseteq Processes
    BY Bounds DEF Processes
  <2>3. procs \in [Pids -> Processes]
    BY <2>1, <2>2
  <2>4. KernelTypes
    BY <2>3, Bounds DEF Init, KernelTypes, Processes
  <2> QED
    BY <2>4, Bounds DEF Init, AgentTypes
<1>2. SnapshotTypes /\ ResultTypes
  BY EmptySnapshot DEF Init, SnapshotTypes, ResultTypes, NoSample, NothingRead
<1>3. Counted
  BY Bounds DEF Init, Counted
<1>4. Past(previous) /\ Past(current)
  <2>1. /\ now = 0 /\ busy = 0 /\ rx = 0 /\ received = 0
        /\ previous = NoSnapshot /\ current = NoSnapshot
    BY DEF Init
  <2>2. \A p \in Pids : procs[p].start = 0
    BY DEF Init
  <2>3. Past(NoSnapshot)
    BY <2>1, <2>2, EmptySnapshot DEF Past
  <2> QED
    BY <2>1, <2>3
<1>5. Ordered /\ Named /\ Passed /\ Due
  BY EmptySnapshot DEF Init, Ordered, Named, Passed, Due, Snapshotting, CpuWasRead,
    NetworkWasRead, NoSample
<1> QED
  BY <1>1, <1>2, <1>3, <1>4, <1>5 DEF IInv

LEMMA DeserializeType ==
  ASSUME NEW payload
  PROVE  Deserialize(payload).ok \in BOOLEAN
BY DEF Deserialize, ReadLines, Complete, Refused, NothingRead

-----------------------------------------------------------------------------
(* The kernel.                                                             *)
Grown ==
  /\ now <= now' /\ busy <= busy' /\ received <= received'
  /\ received - rx <= received' - rx'
  /\ \A p \in Pids : procs[p].start <= procs'[p].start

LEMMA KernelStep ==
  ASSUME KernelTypes, AgentTypes, Counted, Kernel
  PROVE  KernelTypes' /\ Counted' /\ Grown
<1>p. procs \in [Pids -> Processes]
  BY DEF KernelTypes, Processes
<1>1. ASSUME NEW who \in Pids \cup {0}, Tick(who) PROVE KernelTypes' /\ Counted' /\ Grown
  <2>1. CASE who = 0
    BY <1>1, <2>1, Bounds DEF Tick, KernelTypes, Counted, Grown
  <2>2. CASE who # 0
    <3> DEFINE r == [procs[who] EXCEPT !.cpu = @ + 1]
    <3>1. /\ now' = now + 1 /\ busy' = busy + 1 /\ now < Horizon
          /\ procs' = [procs EXCEPT ![who] = r]
          /\ UNCHANGED <<idle, drops, rx, received>>
      BY <1>1, <2>2 DEF Tick
    <3>2. r \in Processes /\ r.start = procs[who].start /\ r.cpu = procs[who].cpu + 1
      BY <1>p, <1>1, <2>2, <3>1, Bounds DEF Processes, Counted, KernelTypes
    <3>3. procs' \in [Pids -> Processes]
      BY <1>p, <3>1, <3>2
    <3>4. KernelTypes'
      BY <3>1, <3>3, Bounds DEF KernelTypes, Counted, Processes
    <3> HIDE DEF r
    <3>5. Counted'
      BY <1>p, <1>1, <2>2, <3>1, <3>2, Bounds DEF Counted, KernelTypes, Processes
    <3>6. Grown
      BY <1>p, <1>1, <2>2, <3>1, <3>2, Bounds DEF Grown, KernelTypes, Processes
    <3> QED
      BY <3>4, <3>5, <3>6
  <2> QED
    BY <2>1, <2>2
<1>2. ASSUME IowaitDrops PROVE KernelTypes' /\ Counted' /\ Grown
  BY <1>2, Bounds DEF IowaitDrops, KernelTypes, Counted, Grown
<1>3. ASSUME ByteReceived \/ InterfaceReset PROVE KernelTypes' /\ Counted' /\ Grown
  BY <1>3, Bounds DEF ByteReceived, InterfaceReset, KernelTypes, Counted, Grown
<1>4. ASSUME NEW p \in Pids, ProcessStarts(p) \/ ProcessEnds(p)
      PROVE  KernelTypes' /\ Counted' /\ Grown
  <2>1. PICK r \in Processes :
          /\ procs' = [procs EXCEPT ![p] = r]
          /\ r.start <= now /\ r.cpu <= now /\ procs[p].start <= r.start
    <3>1. CASE ProcessStarts(p)
      <4> DEFINE r == [alive |-> TRUE, start |-> now, cpu |-> 0]
      <4>1. procs' = [procs EXCEPT ![p] = r]
        BY <3>1 DEF ProcessStarts
      <4>2. r \in Processes /\ r.start <= now /\ r.cpu <= now /\ procs[p].start <= r.start
        BY <1>p, <3>1, Bounds DEF ProcessStarts, Processes, KernelTypes
      <4> QED
        BY <4>1, <4>2
    <3>2. CASE ProcessEnds(p)
      <4> DEFINE r == [procs[p] EXCEPT !.alive = FALSE]
      <4>1. procs' = [procs EXCEPT ![p] = r]
        BY <3>2 DEF ProcessEnds
      <4>2. r \in Processes /\ r.start = procs[p].start /\ r.cpu = procs[p].cpu
        BY <1>p DEF Processes
      <4>3. procs[p].start <= now /\ procs[p].cpu <= now /\ procs[p].start \in Int
        BY <1>p, Bounds DEF Counted, Processes
      <4> HIDE DEF r
      <4> QED
        <5>1. r.start <= now /\ r.cpu <= now /\ procs[p].start <= r.start
          BY <4>2, <4>3
        <5> QED
          BY <4>1, <4>2, <5>1, Zenon
    <3> QED
      BY <1>4, <3>1, <3>2
  <2>2. procs' \in [Pids -> Processes]
    BY <1>p, <2>1
  <2>3. UNCHANGED <<now, busy, idle, drops, rx, received>>
    BY <1>4 DEF ProcessStarts, ProcessEnds
  <2> QED
    BY <1>p, <2>1, <2>2, <2>3 DEF KernelTypes, Counted, Processes, Grown
<1> QED
  BY <1>1, <1>2, <1>3, <1>4 DEF Kernel, AgentTypes

LEMMA PastGrows ==
  ASSUME NEW s \in Snapshots, KernelTypes, KernelTypes', Counted', Grown, Past(s)
  PROVE  Past(s)'
<1>1. /\ s.busy \in Int /\ s.idle \in Int /\ s.rx \in Int /\ s.received \in Int /\ s.at \in Int
      /\ \A p \in Pids : s.procs[p].start \in Int /\ s.procs[p].name \in Int
  BY DEF Snapshots, Entries
<1>2. /\ now \in Int /\ now' \in Int /\ busy \in Int /\ busy' \in Int /\ rx \in Int
      /\ rx' \in Int /\ received \in Int /\ received' \in Int
      /\ \A p \in Pids : procs[p].start \in Int /\ procs[p].start' \in Int
  BY DEF KernelTypes
<1> QED
  <2>1. \A p \in Pids : s.procs[p].start <= procs'[p].start /\ s.procs[p].name <= procs'[p].start
    BY <1>1, <1>2 DEF Past, Grown
  <2>2. /\ s.busy + s.idle <= now' /\ s.busy <= busy'
        /\ s.rx <= s.received /\ s.received <= received'
        /\ s.received - s.rx <= received' - rx'
        /\ s.at <= now'
    <3>1. s.busy + s.idle <= now' /\ s.at <= now' /\ s.busy <= busy'
      BY <1>1, <1>2 DEF Past, Grown
    <3>2. s.rx <= s.received /\ s.received <= received'
      BY <1>1, <1>2 DEF Past, Grown
    <3>3. s.received - s.rx <= received' - rx'
      <4>1. s.received - s.rx <= received - rx /\ received - rx <= received' - rx'
        BY DEF Past, Grown
      <4> QED
        BY <1>1, <1>2, <4>1
    <3> QED
      BY <3>1, <3>2, <3>3
  <2> QED
    BY <2>1, <2>2, Zenon DEF Past

LEMMA KernelKeepsInv ==
  ASSUME IInv, Kernel
  PROVE  IInv'
<1>1. /\ UNCHANGED <<agentVars, sample, read>>
      /\ pc \notin {"off", "build", "sent", "ended"}
  BY DEF Kernel, Tick, IowaitDrops, ByteReceived, InterfaceReset, ProcessStarts, ProcessEnds
<1>2. KernelTypes' /\ Counted' /\ Grown
  BY KernelStep DEF IInv
<1>3. UNCHANGED <<pc, pid, started, nextSample, previous, current, sample, read>>
  BY <1>1 DEF agentVars
<1>4. Past(previous)' /\ Past(current)'
  BY <1>2, <1>3, PastGrows DEF IInv, SnapshotTypes, Past
<1>5. AgentTypes' /\ SnapshotTypes' /\ ResultTypes'
  BY <1>3 DEF IInv, AgentTypes, SnapshotTypes, ResultTypes
<1>6. Ordered' /\ Named' /\ Passed'
  BY <1>3 DEF IInv, Ordered, Named, NameFits, Passed
<1>7. Due'
  BY <1>2, <1>3 DEF IInv, Due, Grown, KernelTypes, AgentTypes
<1> QED
  BY <1>2, <1>4, <1>5, <1>6, <1>7 DEF IInv

(* The agent: what the kernel counted stays what it is.                    *)
LEMMA KernelWaits ==
  ASSUME IInv, UNCHANGED kernelVars
  PROVE  /\ KernelTypes' /\ Counted'
         /\ \A s : Past(s) => Past(s)'
         /\ previous' = previous => Past(previous)'
         /\ current' = current => Past(current)'
BY DEF IInv, kernelVars, KernelTypes, Counted, Past

LEMMA ControlKeepsInv ==
  ASSUME IInv, OtherClientSends \/ Begin \/ Wake \/ CollectorThrows \/ Send
  PROVE  IInv'
<1>1. UNCHANGED <<kernelVars, pid, started, nextSample, previous, current>>
  BY DEF OtherClientSends, Begin, Wake, CollectorThrows, Send, agentVars
<1>2. /\ KernelTypes' /\ Counted' /\ Past(previous)' /\ Past(current)' /\ SnapshotTypes'
  BY <1>1, KernelWaits DEF IInv, SnapshotTypes
<1>3. AgentTypes'
  BY <1>1 DEF IInv, AgentTypes, OtherClientSends, Begin, Wake, CollectorThrows, Send, agentVars
<1>4. ResultTypes'
  <2>1. CASE OtherClientSends
    BY <2>1, DeserializeType DEF ResultTypes, OtherClientSends
  <2>2. CASE Send
    BY <2>2, DeserializeType DEF ResultTypes, Send
  <2>3. CASE Begin
    BY <2>3 DEF ResultTypes, Begin, NoSample, NothingRead
  <2>4. CASE Wake \/ CollectorThrows
    BY <2>4 DEF IInv, ResultTypes, Wake, CollectorThrows
  <2> QED
    BY <2>1, <2>2, <2>3, <2>4
<1> USE <1>1 DEF IInv, CpuWasRead, NetworkWasRead, Snapshotting, Ordered, Named, NameFits, Passed, Due
<1>5. Ordered' /\ Named' /\ Passed' /\ Due'
  <2>1. CASE OtherClientSends
    BY <2>1 DEF OtherClientSends, agentVars
  <2>2. CASE Begin
    BY <2>2 DEF Begin, NoSample
  <2>3. CASE Wake
    BY <2>3 DEF Wake, kernelVars
  <2>4. CASE CollectorThrows
    BY <2>4 DEF CollectorThrows
  <2>5. CASE Send
    BY <2>5 DEF Send
  <2> QED
    BY <2>1, <2>2, <2>3, <2>4, <2>5
<1> QED
  BY <1>2, <1>3, <1>4, <1>5

(* Of the counters of this round only one record is written.               *)
LEMMA CountersKeepInv ==
  ASSUME IInv, ReadCpu \/ ReadNetwork
  PROVE  IInv'
<1>1. UNCHANGED <<kernelVars, pid, started, nextSample, previous, sample, read>>
  BY DEF ReadCpu, ReadNetwork
<1>2. KernelTypes' /\ Counted' /\ Past(previous)'
  BY <1>1, KernelWaits
<1>3. AgentTypes' /\ ResultTypes'
  BY <1>1 DEF IInv, AgentTypes, ResultTypes, ReadCpu, ReadNetwork
<1>4. /\ previous \in Snapshots /\ current \in Snapshots
      /\ UNCHANGED <<now, busy, idle, drops, rx, received, procs>>
  BY <1>1 DEF IInv, SnapshotTypes, kernelVars
<1>5. CASE ReadCpu
  <2>1. /\ pc = "cpu" /\ pc' = "network"
        /\ current'.busy = busy /\ current'.idle = idle /\ current'.rx = current.rx
        /\ current'.received = current.received /\ current'.at = current.at
        /\ current'.procs = current.procs
    BY <1>4, <1>5 DEF ReadCpu, Snapshots
  <2>2. current' \in Snapshots
    BY <1>4, <1>5 DEF ReadCpu, Snapshots, IInv, KernelTypes
  <2>3. SnapshotTypes'
    BY <1>1, <1>4, <2>2 DEF SnapshotTypes
  <2>4. Past(current)'
    BY <1>4, <2>1 DEF IInv, Past, Counted, KernelTypes
  <2>5. Ordered' /\ Named' /\ Passed' /\ Due'
    BY <1>1, <1>4, <2>1 DEF IInv, Past, Ordered, Named, NameFits, Passed, Due, CpuWasRead,
      NetworkWasRead, Snapshotting
  <2> QED
    BY <1>2, <1>3, <2>3, <2>4, <2>5 DEF IInv
<1>6. CASE ReadNetwork
  <2>1. /\ pc = "network" /\ pc' = "name"
        /\ current'.busy = current.busy /\ current'.idle = current.idle /\ current'.rx = rx
        /\ current'.received = received /\ current'.at = now
        /\ current'.procs = current.procs
    BY <1>4, <1>6 DEF ReadNetwork, Snapshots
  <2>2. current' \in Snapshots
    BY <1>4, <1>6 DEF ReadNetwork, Snapshots, IInv, KernelTypes
  <2>3. SnapshotTypes'
    BY <1>1, <1>4, <2>2 DEF SnapshotTypes
  <2>4. Past(current)'
    BY <1>4, <2>1 DEF IInv, Past, Counted, KernelTypes
  <2>5. Ordered' /\ Named' /\ Passed' /\ Due'
    BY <1>1, <1>4, <2>1 DEF IInv, Past, Ordered, Named, NameFits, Passed, Due, CpuWasRead,
      NetworkWasRead, Snapshotting
  <2> QED
    BY <1>2, <1>3, <2>3, <2>4, <2>5 DEF IInv
<1> QED
  BY <1>5, <1>6

(* Of the processes of this round only the entry it is at is written: e.   *)
LEMMA EntryWritten ==
  ASSUME IInv, NEW e \in Entries, pc \in Snapshotting,
         current' = [current EXCEPT !.procs = [current.procs EXCEPT ![pid] = e]]
  PROVE  /\ current' \in Snapshots
         /\ current'.busy = current.busy /\ current'.idle = current.idle
         /\ current'.rx = current.rx /\ current'.received = current.received
         /\ current'.at = current.at
         /\ \A p \in Pids : current'.procs[p] = IF p = pid THEN e ELSE current.procs[p]
BY DEF IInv, SnapshotTypes, Snapshots, AgentTypes

(* What a read of the process snapshot has to keep, said of the entry.     *)
LEMMA ReadsKeepInv ==
  ASSUME IInv, NEW e \in Entries, pc \in Snapshotting,
         current' = [current EXCEPT !.procs = [current.procs EXCEPT ![pid] = e]],
         UNCHANGED <<kernelVars, started, nextSample, previous, sample, read>>,
         e.name <= procs[pid].start, e.start <= procs[pid].start,
         e.listed => previous.procs[pid].start <= e.name /\ e.name <= e.start,
         \/ /\ UNCHANGED pid /\ ~e.listed
            /\ pc' \in {"times", "memory"}
            /\ previous.procs[pid].start <= e.name
            /\ pc' = "memory" => e.name <= e.start
         \/ NextPid
  PROVE  IInv'
<1>1. KernelTypes' /\ Counted' /\ Past(previous)'
  BY KernelWaits
<1>2. pid \in Pids /\ pid \in Nat /\ Pids \subseteq Nat /\ 1 \in Pids
  BY Bounds DEF IInv, AgentTypes
<1>3. AgentTypes' /\ ResultTypes'
  BY <1>2 DEF IInv, AgentTypes, ResultTypes, NextPid
<1>w. /\ current' \in Snapshots
      /\ current'.busy = current.busy /\ current'.idle = current.idle
      /\ current'.rx = current.rx /\ current'.received = current.received
      /\ current'.at = current.at
      /\ \A p \in Pids : current'.procs[p] = IF p = pid THEN e ELSE current.procs[p]
  BY EntryWritten
<1>4. SnapshotTypes'
  BY <1>w DEF IInv, SnapshotTypes
<1>5. UNCHANGED <<now, busy, idle, drops, rx, received, procs>>
  BY DEF kernelVars
<1>6. Past(current)'
  BY <1>w, <1>5 DEF IInv, Past
<1>7. Ordered'
  BY <1>w, <1>5 DEF IInv, Ordered, NextPid, CpuWasRead, NetworkWasRead, Snapshotting
<1>8. \A p \in Pids : current'.procs[p].listed => NameFits(p)'
  BY <1>w DEF IInv, Named, NameFits
<1>9. Named'
  BY <1>2, <1>8, <1>w DEF Named, NameFits, NextPid
<1>10. \A p \in Pids : p > pid => ~current'.procs[p].listed
  BY <1>2, <1>w DEF IInv, Passed
<1>11. Passed'
  BY <1>2, <1>10, <1>w DEF Passed, NextPid, Snapshotting
<1>12. Due'
  BY <1>w, <1>5 DEF IInv, Due, NextPid, NetworkWasRead, Snapshotting
<1> QED
  BY <1>1, <1>3, <1>4, <1>6, <1>7, <1>9, <1>11, <1>12 DEF IInv

LEMMA ProcessReadsKeepInv ==
  ASSUME IInv, ReadName \/ ReadTimes \/ ReadMemory
  PROVE  IInv'
<1> DEFINE old == current.procs[pid]
<1>1. /\ UNCHANGED <<kernelVars, started, nextSample, previous, sample, read>>
      /\ pc \in Snapshotting
  BY DEF ReadName, ReadTimes, ReadMemory, Snapshotting
<1>2. /\ pid \in Pids /\ current \in Snapshots /\ previous \in Snapshots /\ old \in Entries
      /\ procs \in [Pids -> Processes]
      /\ NoEntry \in Entries /\ NoEntry.start = 0 /\ NoEntry.name = 0 /\ ~NoEntry.listed
  BY EmptySnapshot DEF IInv, AgentTypes, SnapshotTypes, Snapshots, KernelTypes, Processes
<1>3. /\ procs[pid].start \in 0 .. Horizon /\ procs[pid].cpu \in 0 .. Horizon
      /\ previous.procs[pid].start \in 0 .. Horizon
      /\ previous.procs[pid].start <= procs[pid].start
      /\ old.name <= procs[pid].start /\ old.start <= procs[pid].start
      /\ ~old.listed
  BY <1>1, <1>2, Bounds DEF IInv, Processes, Snapshots, Entries, Past, Passed
<1>4. ASSUME NextPid, current' = [current EXCEPT !.procs[pid] = NoEntry]
      PROVE  IInv'
  <2>1. current' = [current EXCEPT !.procs = [current.procs EXCEPT ![pid] = NoEntry]]
    BY <1>4
  <2> QED
    BY <1>1, <1>2, <1>3, <1>4, <2>1, ReadsKeepInv, Bounds
<1>5. CASE ReadName /\ procs[pid].alive
  <2> DEFINE e == [old EXCEPT !.name = procs[pid].start]
  <2>1. current' = [current EXCEPT !.procs = [current.procs EXCEPT ![pid] = e]]
    BY <1>2, <1>5 DEF ReadName, Snapshots
  <2>2. /\ e \in Entries /\ e.name = procs[pid].start /\ e.start = old.start
        /\ e.listed = old.listed
    BY <1>2, <1>3 DEF Entries
  <2>3. UNCHANGED pid /\ pc' = "times"
    BY <1>5 DEF ReadName
  <2> HIDE DEF e, old
  <2>4. e.name <= procs[pid].start /\ previous.procs[pid].start <= e.name
    BY <1>3, <2>2
  <2> QED
    BY <1>1, <1>3, <2>1, <2>2, <2>3, <2>4, ReadsKeepInv
<1>6. CASE ReadTimes /\ procs[pid].alive
  <2> DEFINE e == [old EXCEPT !.start = procs[pid].start, !.cpu = procs[pid].cpu]
  <2>1. current' = [current EXCEPT !.procs = [current.procs EXCEPT ![pid] = e]]
    BY <1>2, <1>6 DEF ReadTimes, Snapshots
  <2>2. /\ e \in Entries /\ e.start = procs[pid].start /\ e.name = old.name
        /\ e.listed = old.listed
    BY <1>2, <1>3 DEF Entries
  <2>3. UNCHANGED pid /\ pc' = "memory" /\ pc = "times"
    BY <1>6 DEF ReadTimes
  <2>4. previous.procs[pid].start <= old.name
    BY <2>3 DEF IInv, Named
  <2> HIDE DEF e, old
  <2>5. e.start <= procs[pid].start /\ e.name <= procs[pid].start /\ e.name <= e.start
        /\ previous.procs[pid].start <= e.name
    BY <1>3, <2>2, <2>4
  <2> QED
    BY <1>1, <1>3, <2>1, <2>2, <2>3, <2>5, ReadsKeepInv
<1>7. CASE ReadMemory /\ procs[pid].alive
  <2> DEFINE e == [old EXCEPT !.rss = procs[pid].start + 1, !.listed = TRUE]
  <2>1. current' = [current EXCEPT !.procs = [current.procs EXCEPT ![pid] = e]]
    BY <1>2, <1>7 DEF ReadMemory, Snapshots
  <2>2. e \in Entries /\ e.name = old.name /\ e.start = old.start
    <3>1. procs[pid].start + 1 \in 0 .. Horizon + 1
      BY <1>3, Bounds
    <3> QED
      BY <1>2, <3>1 DEF Entries
  <2>3. NextPid /\ pc = "memory"
    BY <1>7 DEF ReadMemory
  <2>4. previous.procs[pid].start <= old.name /\ old.name <= old.start
    BY <2>3 DEF IInv, Named, NameFits
  <2> HIDE DEF e, old
  <2> QED
    BY <1>1, <1>3, <2>1, <2>2, <2>3, <2>4, ReadsKeepInv
<1> QED
  BY <1>4, <1>5, <1>6, <1>7 DEF ReadName, ReadTimes, ReadMemory

(* The snapshots of this round become those of the round before.           *)
LEMMA MovesKeepInv ==
  ASSUME IInv, FirstSnapshot \/ Move
  PROVE  IInv'
<1>1. /\ previous' = current /\ current' = NoSnapshot
      /\ UNCHANGED <<kernelVars, pid>>
      /\ pc \in {"build", "sent"} /\ pc' = "sleep"
      /\ sample'.from # "agent" /\ pid = 1
  BY DEF FirstSnapshot, Move, NoSample, IInv, Passed, Due, Snapshotting
<1>2. KernelTypes' /\ Counted' /\ \A s : Past(s) => Past(s)'
  BY <1>1, KernelWaits
<1>3. AgentTypes' /\ ResultTypes'
  <2>1. SamplePeriod \in Nat
    BY Constants
  <2>2. now \in Nat /\ nextSample \in Nat /\ started \in BOOLEAN
    BY Bounds DEF IInv, KernelTypes, AgentTypes
  <2>3. CASE FirstSnapshot
    <3>1. nextSample' = now + SamplePeriod /\ started' = TRUE /\ sample' = sample /\ read' = read
      BY <2>3 DEF FirstSnapshot
    <3> QED
      BY <1>1, <2>1, <2>2, <3>1 DEF IInv, AgentTypes, ResultTypes
  <2>4. CASE Move
    <3>1. nextSample' = nextSample + SamplePeriod /\ started' = started
      BY <2>4 DEF Move
    <3>2. ResultTypes'
      BY <2>4 DEF Move, ResultTypes, NoSample, NothingRead
    <3> QED
      BY <1>1, <2>1, <2>2, <3>1, <3>2 DEF IInv, AgentTypes
  <2> QED
    BY <2>3, <2>4
<1>4. SnapshotTypes'
  BY <1>1, EmptySnapshot DEF IInv, SnapshotTypes
<1>5. UNCHANGED <<now, busy, idle, drops, rx, received, procs>>
  BY <1>1 DEF kernelVars
<1>6. Past(previous)'
  BY <1>1, <1>5 DEF IInv, Past
<1>7. Past(current)'
  BY <1>1, <1>5, EmptySnapshot, Bounds DEF IInv, Past, KernelTypes, Counted
<1>8. Ordered' /\ Named' /\ Passed' /\ Due'
  BY <1>1, EmptySnapshot DEF Ordered, Named, Passed, Due, CpuWasRead, NetworkWasRead,
    Snapshotting
<1> QED
  BY <1>2, <1>3, <1>4, <1>6, <1>7, <1>8 DEF IInv

LEMMA Invariance == Spec => []IInv
<1>1. ASSUME IInv, Next PROVE IInv'
  BY <1>1, KernelKeepsInv, ControlKeepsInv, CountersKeepInv, ProcessReadsKeepInv, MovesKeepInv
    DEF Next
<1>2. ASSUME IInv, UNCHANGED vars PROVE IInv'
  <2>1. UNCHANGED <<now, busy, idle, drops, rx, received, procs, pc, pid, started, nextSample,
                    previous, current, sample, read>>
    BY <1>2 DEF vars, kernelVars, agentVars
  <2> QED
    BY <1>2, <2>1 DEF IInv, KernelTypes, AgentTypes, SnapshotTypes, ResultTypes, Counted, Past,
      Ordered, Named, NameFits, Passed, Due
<1> QED
  BY <1>1, <1>2, InitInv, PTL DEF Spec

(* The variables of Sampling keep their types: no counter of the kernel,   *)
(* no snapshot of the agent leaves its range (MonitorAgent.cpp:700).       *)
THEOREM TypeCorrect == Spec => []TypeOK
<1>1. IInv => TypeOK
  BY DEF IInv, KernelTypes, AgentTypes, SnapshotTypes, ResultTypes, TypeOK
<1> QED
  BY <1>1, Invariance, PTL

-----------------------------------------------------------------------------
(* Where what was sent, and what the server read, comes from.              *)
Sent(i, list) ==
  LET metrics == Metrics(previous, current, i, Top(list)) IN
  /\ sample = [from |-> "agent", metrics |-> metrics,
               previous |-> previous, current |-> current]
  /\ read = Deserialize(Serialize(metrics))

Provenance ==
  /\ sample.from = "agent" =>
       \E i \in Instants : \E list \in ProcessUsage(previous, current, i.memoryTotal) :
         Sent(i, list)
  /\ sample.from = "other" =>
       sample.payload \in OtherPayloads /\ read = Deserialize(sample.payload)

LEMMA ProvenanceInvariant == Spec => [](IInv /\ Provenance)
<1>1. Init => Provenance
  BY DEF Init, Provenance, NoSample
<1>2. ASSUME IInv, Provenance, [Next]_vars PROVE Provenance'
  <2>1. CASE UNCHANGED <<sample, read>> /\ (sample.from = "agent" => UNCHANGED <<previous, current>>)
    BY <1>2, <2>1 DEF Provenance, Sent
  <2>2. CASE UNCHANGED vars
    BY <2>1, <2>2 DEF vars, agentVars
  <2>3. CASE Kernel
    BY <2>1, <2>3 DEF Kernel, Tick, IowaitDrops, ByteReceived, InterfaceReset, ProcessStarts,
      ProcessEnds, agentVars
  <2>4. CASE Wake \/ ReadCpu \/ ReadNetwork \/ ReadName \/ ReadTimes \/ ReadMemory
             \/ FirstSnapshot \/ CollectorThrows
    BY <1>2, <2>1, <2>4 DEF IInv, Due, Wake, ReadCpu, ReadNetwork, ReadName, ReadTimes,
      ReadMemory, FirstSnapshot, CollectorThrows
  <2>5. CASE Begin \/ Move
    BY <2>5 DEF Provenance, Begin, Move, NoSample
  <2>6. CASE OtherClientSends
    BY <2>6 DEF Provenance, OtherClientSends
  <2>7. CASE Send
    <3>1. UNCHANGED <<previous, current>>
      BY <2>7 DEF Send
    <3> PICK i \in Instants :
          \E list \in ProcessUsage(previous, current, i.memoryTotal) :
            /\ sample' = [from |-> "agent", metrics |-> Metrics(previous, current, i, Top(list)),
                          previous |-> previous, current |-> current]
            /\ read' = Deserialize(Serialize(Metrics(previous, current, i, Top(list))))
      BY <2>7, Zenon DEF Send
    <3>2. PICK list \in ProcessUsage(previous, current, i.memoryTotal) :
            /\ sample' = [from |-> "agent", metrics |-> Metrics(previous, current, i, Top(list)),
                          previous |-> previous, current |-> current]
            /\ read' = Deserialize(Serialize(Metrics(previous, current, i, Top(list))))
      OBVIOUS
    <3>3. sample'.from = "agent" /\ Sent(i, list)'
      BY <3>1, <3>2 DEF Sent
    <3> QED
      BY <3>1, <3>3 DEF Provenance
  <2> QED
    BY <1>2, <2>2, <2>3, <2>4, <2>5, <2>6, <2>7 DEF Next
<1> QED
  BY <1>1, <1>2, Invariance, PTL DEF Spec

-----------------------------------------------------------------------------
(* Differences of two readings.                                            *)
(* What two snapshots have to do with each other when a sample is built.   *)
LEMMA SnapshotOrder ==
  ASSUME IInv, pc = "sent"
  PROVE  /\ previous.busy \in Nat /\ previous.idle \in Nat
         /\ current.busy \in Nat /\ current.idle \in Nat
         /\ previous.busy <= current.busy
         /\ previous.busy + previous.idle <= Horizon /\ current.busy + current.idle <= Horizon
         /\ previous.rx \in Nat /\ current.rx \in Nat
         /\ previous.received \in Nat /\ current.received \in Nat
         /\ previous.received <= current.received
         /\ previous.received - previous.rx <= current.received - current.rx
         /\ previous.at \in 0 .. Horizon /\ current.at \in 0 .. Horizon
         /\ previous.at <= current.at
         /\ IntervalMs(previous, current) \in Nat /\ IntervalMs(previous, current) > 0
<1>1. /\ previous.busy \in Nat /\ previous.idle \in Nat
      /\ current.busy \in Nat /\ current.idle \in Nat
      /\ previous.rx \in Nat /\ current.rx \in Nat
      /\ previous.received \in Nat /\ current.received \in Nat
      /\ previous.at \in 0 .. Horizon /\ current.at \in 0 .. Horizon
      /\ now \in 0 .. Horizon
  BY Bounds DEF IInv, SnapshotTypes, Snapshots, KernelTypes
<1>2. /\ previous.busy <= current.busy
      /\ previous.received <= current.received
      /\ previous.received - previous.rx <= current.received - current.rx
      /\ previous.at <= current.at
  BY DEF IInv, Ordered, CpuWasRead, NetworkWasRead
<1>3. previous.busy + previous.idle <= now /\ current.busy + current.idle <= now
  BY DEF IInv, Past
<1>4. IntervalMs(previous, current) \in Nat /\ IntervalMs(previous, current) > 0
  <2>1. CASE previous.at = current.at
    BY <2>1 DEF IntervalMs
  <2>2. CASE previous.at # current.at
    <3> DEFINE d == current.at - previous.at
    <3>1. d \in Nat /\ d > 0 /\ TickMs \in Nat /\ TickMs > 0
      <4>1. previous.at \in Nat /\ current.at \in Nat
        BY <1>1, Bounds
      <4>2. d \in Nat /\ d > 0
        BY <1>2, <2>2, <4>1
      <4>3. TickMs \in Nat /\ TickMs > 0
        BY Constants
      <4> QED
        BY <4>2, <4>3
    <3> HIDE DEF d
    <3>2. d * TickMs \in Nat /\ d * TickMs > 0
      BY <3>1
    <3>3. IntervalMs(previous, current) = d * TickMs
      BY <2>2 DEF IntervalMs, d
    <3> QED
      BY <3>2, <3>3
  <2> QED
    BY <2>1, <2>2
<1>5. previous.busy + previous.idle <= Horizon /\ current.busy + current.idle <= Horizon
  BY <1>1, <1>3, Bounds
<1> QED
  BY <1>1, <1>2, <1>4, <1>5

(* The unsigned differences of CpuCollector are those of the counts.       *)
LEMMA TotalDifference ==
  ASSUME IInv, pc = "sent"
  PROVE  /\ Total(previous) = previous.busy + previous.idle
         /\ Total(current) = current.busy + current.idle
         /\ current.idle >= previous.idle =>
              /\ Difference(Total(previous), Total(current)) =
                   (current.busy - previous.busy) + (current.idle - previous.idle)
              /\ Difference(previous.idle, current.idle) = current.idle - previous.idle
<1>1. Word \in Nat /\ Horizon \in Nat /\ Word > Horizon + 1
  BY Constants
<1>2. previous.busy + previous.idle \in 0 .. Word - 1 /\ current.busy + current.idle \in 0 .. Word - 1
  BY <1>1, SnapshotOrder
<1>3. Total(previous) = previous.busy + previous.idle /\ Total(current) = current.busy + current.idle
  BY <1>1, <1>2, SmallMod DEF Total
<1>4. ASSUME current.idle >= previous.idle
      PROVE  /\ Difference(Total(previous), Total(current)) =
                   (current.busy - previous.busy) + (current.idle - previous.idle)
             /\ Difference(previous.idle, current.idle) = current.idle - previous.idle
  <2> DEFINE d == (current.busy - previous.busy) + (current.idle - previous.idle)
             i == current.idle - previous.idle
  <2>1. d \in 0 .. Word - 1 /\ i \in 0 .. Word - 1
    BY <1>1, <1>4, SnapshotOrder
  <2>2. Total(current) - Total(previous) = d
    BY <1>3, SnapshotOrder
  <2>3. Difference(Total(previous), Total(current)) = d % Word
        /\ Difference(previous.idle, current.idle) = i % Word
    BY <2>2 DEF Difference
  <2> HIDE DEF d, i
  <2>4. d % Word = d /\ i % Word = i
    BY <1>1, <2>1, SmallMod
  <2> QED
    BY <2>3, <2>4 DEF d, i
<1> QED
  BY <1>3, <1>4

LEMMA UsageIsPart ==
  ASSUME IInv, pc = "sent", current.idle >= previous.idle
  PROVE  Usage(previous, current) \in 0 .. Hundred
<1> DEFINE total == Difference(Total(previous), Total(current))
           idleDiff == Difference(previous.idle, current.idle)
           busyDiff == current.busy - previous.busy
<1>1. total = busyDiff + idleDiff /\ idleDiff = current.idle - previous.idle
  BY TotalDifference
<1>2. /\ busyDiff \in Nat /\ idleDiff \in Nat /\ busyDiff <= Horizon
      /\ Horizon \in Nat /\ Word \in Nat /\ Word > Horizon
  <2>1. /\ previous.busy \in Nat /\ previous.idle \in Nat
        /\ current.busy \in Nat /\ current.idle \in Nat
        /\ previous.busy <= current.busy /\ current.busy <= Horizon
    BY SnapshotOrder, Bounds
  <2>2. busyDiff \in Nat /\ busyDiff <= Horizon
    BY <2>1, Bounds
  <2>3. current.idle - previous.idle \in Nat
    BY <2>1
  <2>4. idleDiff \in Nat
    BY <2>3, <1>1
  <2> QED
    BY <2>2, <2>4, Constants
<1>3. Usage(previous, current) =
        IF total = 0 THEN 0 ELSE Percent((total - idleDiff) % Word, total)
  BY DEF Usage
<1> HIDE DEF total, idleDiff, busyDiff
<1>4. total - idleDiff = busyDiff /\ busyDiff \in 0 .. Word - 1 /\ busyDiff \in 0 .. total
  BY <1>1, <1>2
<1>5. (total - idleDiff) % Word = busyDiff
  BY <1>2, <1>4, SmallMod
<1>6. total \in Nat /\ Hundred \in Nat
  BY <1>1, <1>2, SMT DEF Hundred
<1>7. CASE total = 0
  BY <1>3, <1>6, <1>7
<1>8. CASE total # 0
  <2>1. Percent(busyDiff, total) \in 0 .. Hundred
    BY <1>4, <1>6, <1>8, PartOfWhole DEF Percent
  <2> QED
    BY <1>3, <1>5, <1>8, <2>1
<1> QED
  BY <1>7, <1>8

LEMMA RateIsReal ==
  ASSUME IInv, pc = "sent"
  PROVE  LET ms == IntervalMs(previous, current) IN
         ((1000000 * Increase(previous.rx, current.rx)) \div ms) * ms
           <= 1000000 * (current.received - previous.received)
<1> DEFINE ms == IntervalMs(previous, current)
           inc == Increase(previous.rx, current.rx)
           got == current.received - previous.received
<1>1. ms \in Nat /\ ms > 0
  BY SnapshotOrder
<1>2. inc \in Nat /\ got \in Nat /\ inc <= got
  BY SnapshotOrder DEF Increase
<1> HIDE DEF ms, inc, got
<1>3. ((1000000 * inc) \div ms) * ms <= 1000000 * inc /\ ((1000000 * inc) \div ms) \in Nat
  BY <1>1, <1>2, DivisionRoundsDown, SMT
<1>4. ((1000000 * inc) \div ms) * ms \in Int
  BY <1>1, <1>3, SMT
<1>5. ((1000000 * inc) \div ms) * ms <= 1000000 * got
  BY <1>2, <1>3, <1>4, SMT
<1> QED
  BY <1>5, SMT DEF ms, inc, got

(* No sample says that more happened in its interval than did: not more of *)
(* the CPU was busy than all of it (CpuCollector.cpp:43), and no more      *)
(* bytes came in than came (NetworkCollector.cpp:169).                     *)
THEOREM NeverTooMuch == Spec => []NoMoreThanHappened
<1>1. ASSUME IInv, Provenance PROVE NoMoreThanHappened
  <2> SUFFICES ASSUME sample.from = "agent"
               PROVE  LET fields == sample.metrics.fields IN
                      /\ sample.current.idle >= sample.previous.idle =>
                           fields.cpu_usage_percent \in 0 .. Hundred
                      /\ fields.network_rx_bytes_per_second * fields.sample_interval_seconds
                           <= 1000000 * (sample.current.received - sample.previous.received)
    BY SMT DEF NoMoreThanHappened
  <2> PICK i \in Instants : \E list \in ProcessUsage(previous, current, i.memoryTotal) : Sent(i, list)
    BY <1>1 DEF Provenance
  <2> PICK list \in ProcessUsage(previous, current, i.memoryTotal) : Sent(i, list)
    OBVIOUS
  <2>1. /\ sample.previous = previous /\ sample.current = current
        /\ sample.metrics = Metrics(previous, current, i, Top(list))
    BY DEF Sent
  <2>2. /\ sample.metrics.fields.cpu_usage_percent = Usage(previous, current)
        /\ sample.metrics.fields.sample_interval_seconds = IntervalMs(previous, current)
        /\ sample.metrics.fields.network_rx_bytes_per_second =
             (1000000 * Increase(previous.rx, current.rx)) \div IntervalMs(previous, current)
    BY <2>1, SMT DEF Metrics
  <2>3. pc = "sent"
    BY <1>1 DEF IInv, Due
  <2> QED
    BY <1>1, <2>1, <2>2, <2>3, UsageIsPart, RateIsReal, SMT
<1> QED
  BY <1>1, ProvenanceInvariant, PTL

-----------------------------------------------------------------------------
(* The processes of a sample.                                              *)
(* m is what a sample says of a process in both snapshots.                 *)
IsMetric(m, a, b, memoryKB) ==
  \E p \in Pids :
    /\ SameProcess(a.procs[p], b.procs[p])
    /\ Difference(Total(a), Total(b)) # 0
    /\ m = Metric(p, a.procs[p], b.procs[p], Difference(Total(a), Total(b)), memoryKB)

LEMMA TopProcesses ==
  ASSUME NEW a, NEW b, NEW memoryKB, NEW list \in ProcessUsage(a, b, memoryKB)
  PROVE  /\ Len(Top(list)) \in 0 .. Cardinality(Pids)
         /\ DOMAIN Top(list) = 1 .. Len(Top(list))
         /\ \A j \in DOMAIN Top(list) : IsMetric(Top(list)[j], a, b, memoryKB)
<1> DEFINE total == Difference(Total(a), Total(b))
           found == IF total = 0 THEN {} ELSE {p \in Pids : SameProcess(a.procs[p], b.procs[p])}
           metric(p) == Metric(p, a.procs[p], b.procs[p], total, memoryKB)
           S == {metric(p) : p \in found}
           n == IF Len(list) < TopCount THEN Len(list) ELSE TopCount
<1>1. list \in SetToSeqs(S)
  BY DEF ProcessUsage
<1>2. found \in SUBSET Pids
  OBVIOUS
<1> HIDE DEF total, found
<1>3. IsFiniteSet(found) /\ Cardinality(found) <= Cardinality(Pids) /\ Cardinality(Pids) \in Nat
  BY <1>2, Constants, FS_Subset, FS_CardinalityType
<1>4. IsFiniteSet(S) /\ Cardinality(S) <= Cardinality(found)
  <2> DEFINE g == [p \in found |-> metric(p)]
  <2>1. g \in Surjection(found, S)
    BY DEF Surjection
  <2> QED
    BY <1>3, <2>1, FS_Surjection
<1>5. Cardinality(S) \in Nat /\ Cardinality(found) \in Nat
  BY <1>3, <1>4, FS_CardinalityType
<1> HIDE DEF S
<1>6. list \in [1 .. Cardinality(S) -> S]
  BY <1>1 DEF SetToSeqs
<1>7. list \in Seq(S) /\ Len(list) = Cardinality(S)
  BY <1>5, <1>6
<1>8. n \in Nat /\ n <= Len(list) /\ Len(list) \in Nat
  BY <1>5, <1>7, Constants
<1>9. Top(list) = SubSeq(list, 1, n)
  BY DEF Top
<1> HIDE DEF n
<1>10. \A j \in 1 .. n : list[j] \in S
  BY <1>6, <1>7, <1>8
<1>11. /\ SubSeq(list, 1, n) \in Seq(S)
       /\ Len(SubSeq(list, 1, n)) = n
       /\ \A j \in 1 .. n : SubSeq(list, 1, n)[j] = list[j]
  BY <1>8, <1>10, SubSeqProperties
<1>12. DOMAIN SubSeq(list, 1, n) = 1 .. n
  BY <1>8, <1>11
<1>13. \A j \in DOMAIN Top(list) : Top(list)[j] \in S
  BY <1>9, <1>10, <1>11, <1>12
<1>14. Len(Top(list)) \in 0 .. Cardinality(Pids) /\ DOMAIN Top(list) = 1 .. Len(Top(list))
  BY <1>3, <1>4, <1>5, <1>7, <1>8, <1>9, <1>11, <1>12
<1>15. ASSUME NEW j \in DOMAIN Top(list)
       PROVE  IsMetric(Top(list)[j], a, b, memoryKB)
  <2>1. PICK p \in found : Top(list)[j] = metric(p)
    BY <1>13 DEF S
  <2>2. p \in Pids /\ SameProcess(a.procs[p], b.procs[p]) /\ total # 0
    BY DEF found
  <2> QED
    BY <2>1, <2>2 DEF IsMetric, total
<1> QED
  BY <1>14, <1>15

(* Two readings with one start time, and what was read in between, are of  *)
(* one process.                                                            *)
LEMMA OneProcess ==
  ASSUME IInv, pc = "sent", NEW p \in Pids,
         SameProcess(previous.procs[p], current.procs[p])
  PROVE  /\ current.procs[p].start = previous.procs[p].start
         /\ current.procs[p].name = previous.procs[p].start
<1>1. current.procs[p].listed /\ current.procs[p].start = previous.procs[p].start
  BY DEF SameProcess
<1>2. /\ previous.procs[p].start <= current.procs[p].name
      /\ current.procs[p].name <= current.procs[p].start
  BY <1>1 DEF IInv, Named, NameFits
<1>3. current.procs[p].name \in Int /\ current.procs[p].start \in Int
  BY Bounds DEF IInv, SnapshotTypes, Snapshots, Entries
<1> QED
  BY <1>1, <1>2, <1>3

(* A process in a sample is one process: the CPU time of both readings and *)
(* the name are of the same one, although the kernel uses ids again and    *)
(* its three files are not read at one instant (ProcessCollector.cpp:301). *)
THEOREM ProcessesAreOwn == Spec => []ProcessIsOwn
<1>1. ASSUME IInv, Provenance PROVE ProcessIsOwn
  <2> SUFFICES ASSUME sample.from = "agent", NEW j \in DOMAIN sample.metrics.processes
               PROVE  LET m == sample.metrics.processes[j]
                          start == sample.previous.procs[m.pid].start
                      IN /\ sample.current.procs[m.pid].start = start
                         /\ m.name = Name[start]
    BY DEF ProcessIsOwn
  <2> PICK i \in Instants : \E list \in ProcessUsage(previous, current, i.memoryTotal) : Sent(i, list)
    BY <1>1 DEF Provenance
  <2> PICK list \in ProcessUsage(previous, current, i.memoryTotal) : Sent(i, list)
    OBVIOUS
  <2>1. /\ sample.previous = previous /\ sample.current = current
        /\ sample.metrics = Metrics(previous, current, i, Top(list))
    BY DEF Sent
  <2>2. sample.metrics.processes = Top(list)
    BY <2>1, SMT DEF Metrics
  <2>3. PICK p \in Pids :
          /\ SameProcess(previous.procs[p], current.procs[p])
          /\ Top(list)[j] = Metric(p, previous.procs[p], current.procs[p],
               Difference(Total(previous), Total(current)), i.memoryTotal)
    <3>1. IsMetric(Top(list)[j], previous, current, i.memoryTotal)
      BY <2>2, TopProcesses
    <3> QED
      BY <3>1 DEF IsMetric
  <2>4. Top(list)[j].pid = p /\ Top(list)[j].name = Name[current.procs[p].name]
    BY <2>3 DEF Metric
  <2>5. pc = "sent"
    BY <1>1 DEF IInv, Due
  <2> QED
    BY <1>1, <2>1, <2>2, <2>3, <2>4, <2>5, OneProcess
<1> QED
  BY <1>1, ProvenanceInvariant, PTL

-----------------------------------------------------------------------------
(* The parser.  The fold of the library is over sets of positions: the     *)
(* one that defines it exists, and read along the initial ones it is what  *)
(* was read so far, line after line.                                       *)
FoldStep(s, D, g) ==
  [t \in SUBSET D |->
     IF t = {} THEN NothingRead ELSE ReadLine(g[t \ {Max(t)}], s[Max(t)])]

LEMMA FoldExists ==
  ASSUME NEW s, NEW n \in Nat
  PROVE  \E g : g = FoldStep(s, 1 .. n, g)
<1> DEFINE Defined == {k \in Nat : \E g : g = FoldStep(s, 1 .. k, g)}
<1>1. 0 \in Defined
  <2> DEFINE g == [t \in SUBSET (1 .. 0) |-> NothingRead]
  <2>1. \A t \in SUBSET (1 .. 0) : t = {}
    OBVIOUS
  <2>2. g = FoldStep(s, 1 .. 0, g)
    BY <2>1 DEF FoldStep
  <2> QED
    BY <2>2
<1>2. ASSUME NEW k \in Nat, k \in Defined PROVE k + 1 \in Defined
  <2>1. PICK g : g = FoldStep(s, 1 .. k, g)
    BY <1>2
  <2> DEFINE h == [t \in SUBSET (1 .. k + 1) |->
                     IF k + 1 \in t THEN ReadLine(g[t \ {k + 1}], s[k + 1]) ELSE g[t]]
  <2>2. ASSUME NEW t \in SUBSET (1 .. k + 1)
        PROVE  h[t] = IF t = {} THEN NothingRead ELSE ReadLine(h[t \ {Max(t)}], s[Max(t)])
    <3>1. CASE k + 1 \in t
      <4>1. Max(t) = k + 1
        <5>1. \A y \in t : k + 1 >= y
          OBVIOUS
        <5>2. \A x \in t : (\A y \in t : x >= y) => x = k + 1
          BY <3>1
        <5> QED
          BY <3>1, <5>1, <5>2 DEF Max
      <4>2. h[t] = ReadLine(g[t \ {k + 1}], s[k + 1])
        BY <3>1
      <4>3. t \ {k + 1} \in SUBSET (1 .. k + 1) /\ k + 1 \notin t \ {k + 1}
        OBVIOUS
      <4>4. h[t \ {k + 1}] = g[t \ {k + 1}]
        BY <4>3
      <4> HIDE DEF h
      <4> QED
        BY <3>1, <4>1, <4>2, <4>4
    <3>2. CASE k + 1 \notin t
      <4>1. t \in SUBSET (1 .. k)
        BY <3>2
      <4>2. h[t] = g[t]
        BY <3>2
      <4>3. h[t \ {Max(t)}] = g[t \ {Max(t)}]
        BY <3>2
      <4>4. g[t] = IF t = {} THEN NothingRead ELSE ReadLine(g[t \ {Max(t)}], s[Max(t)])
        BY <2>1, <4>1 DEF FoldStep
      <4> HIDE DEF h
      <4> QED
        BY <4>2, <4>3, <4>4
    <3> QED
      BY <3>1, <3>2
  <2>3. h = FoldStep(s, 1 .. k + 1, h)
    <3>1. h = [t \in SUBSET (1 .. k + 1) |-> h[t]]
      OBVIOUS
    <3> HIDE DEF h
    <3> QED
      BY <2>2, <3>1 DEF FoldStep
  <2> HIDE DEF h
  <2> QED
    BY <2>3
<1> HIDE DEF Defined
<1>3. Nat \subseteq Defined
  BY <1>1, <1>2, NatSetInduction
<1> QED
  BY <1>3 DEF Defined

(* read[k] is what was read of the first k lines.                          *)
LEMMA ReadLineByLine ==
  ASSUME NEW S, NEW s \in Seq(S)
  PROVE  \E r : /\ r[0] = NothingRead
                /\ \A k \in 1 .. Len(s) : r[k] = ReadLine(r[k - 1], s[k])
                /\ FoldLeft(ReadLine, NothingRead, s) = r[Len(s)]
<1>1. DOMAIN s = 1 .. Len(s) /\ Len(s) \in Nat
  OBVIOUS
<1> DEFINE R(h) == h = FoldStep(s, DOMAIN s, h)
           g == CHOOSE h : R(h)
<1>2. R(g)
  <2>1. \E h : R(h)
    BY <1>1, FoldExists
  <2> HIDE DEF R
  <2> QED
    BY <2>1, Zenon
<1>3. FoldLeft(ReadLine, NothingRead, s) = g[DOMAIN s]
  BY DEF FoldLeft, MapThenFoldSet, FoldStep
<1> HIDE DEF g
<1> DEFINE r == [k \in 0 .. Len(s) |-> g[1 .. k]]
<1>4. r[0] = NothingRead
  <2>1. 1 .. 0 = {} /\ {} \in SUBSET DOMAIN s
    OBVIOUS
  <2>2. g[{}] = NothingRead
    BY <1>2, <2>1 DEF FoldStep
  <2> QED
    BY <1>1, <2>1, <2>2
<1>5. ASSUME NEW k \in 1 .. Len(s) PROVE r[k] = ReadLine(r[k - 1], s[k])
  <2>1. Max(1 .. k) = k
    <3>1. \A x \in 1 .. k : (\A y \in 1 .. k : x >= y) => x = k
      OBVIOUS
    <3> QED
      BY <3>1 DEF Max
  <2>2. 1 .. k # {} /\ 1 .. k \in SUBSET DOMAIN s /\ (1 .. k) \ {k} = 1 .. k - 1
    <3>1. k \in Int /\ 1 <= k /\ k <= Len(s) /\ Len(s) \in Int
      BY <1>1
    <3>2. k \in 1 .. k
      BY <3>1
    <3>3. 1 .. k \in SUBSET DOMAIN s
      BY <1>1, <3>1
    <3>4. (1 .. k) \ {k} = 1 .. k - 1
      BY <3>1
    <3> QED
      BY <3>2, <3>3, <3>4
  <2>3. g[1 .. k] = ReadLine(g[(1 .. k) \ {Max(1 .. k)}], s[Max(1 .. k)])
    BY <1>2, <2>2 DEF FoldStep
  <2>4. r[k] = g[1 .. k] /\ r[k - 1] = g[1 .. k - 1]
    OBVIOUS
  <2> QED
    BY <2>1, <2>2, <2>3, <2>4
<1>6. r[Len(s)] = g[DOMAIN s]
  BY <1>1
<1> HIDE DEF r
<1> QED
  BY <1>3, <1>4, <1>5, <1>6

(* Conversions return integers or texts, and one process at most.          *)
Values == Int \cup Tokens

LEMMA FieldType ==
  ASSUME NEW t \in Tokens, NEW key
  PROVE  ParseField(key, t) \in SUBSET Values
<1>1. t.n \in Int /\ Word \in Int /\ Word > 0
  BY Constants DEF Tokens
<1>2. ParseUint64(t) \in SUBSET Int /\ ParseDouble(t) \in SUBSET Int
  BY <1>1 DEF ParseUint64, ParseDouble
<1>3. ParseText(t) \in SUBSET Tokens
  BY DEF ParseText
<1>4. SUBSET Int \subseteq SUBSET Values /\ SUBSET Tokens \subseteq SUBSET Values
  BY DEF Values
<1> HIDE DEF Values
<1>5. \A S \in SUBSET Values : \A T : S \ T \in SUBSET Values
  OBVIOUS
<1> QED
  BY <1>2, <1>3, <1>4, <1>5 DEF ParseField

LEMMA OneProcessRead ==
  ASSUME NEW pieces, NEW p \in ParseProcess(pieces)
  PROVE  ParseProcess(pieces) = {p}
<1>1. \A x : /\ \A v, w \in ParseInt(x) : v = w
             /\ \A v, w \in ParseDouble(x) : v = w
             /\ \A v, w \in ParseUint64(x) : v = w
  BY DEF ParseInt, ParseDouble, ParseUint64
<1>2. ASSUME NEW q \in ParseProcess(pieces) PROVE p = q
  <2> DEFINE Made(r, a, b, c, d) ==
        r = [pid |-> a, cpu |-> b, memory |-> c, rss |-> d, name |-> Split(pieces)[5]]
  <2>1. ASSUME NEW r \in ParseProcess(pieces)
        PROVE  \E a \in ParseInt(pieces[1]) : \E b \in ParseDouble(pieces[2]) :
                 \E c \in ParseDouble(pieces[3]) : \E d \in ParseUint64(pieces[4]) :
                   Made(r, a, b, c, d)
    BY <2>1 DEF ParseProcess
  <2>2. PICK a1 \in ParseInt(pieces[1]), b1 \in ParseDouble(pieces[2]),
             c1 \in ParseDouble(pieces[3]), d1 \in ParseUint64(pieces[4]) : Made(p, a1, b1, c1, d1)
    BY <2>1
  <2>3. PICK a2 \in ParseInt(pieces[1]), b2 \in ParseDouble(pieces[2]),
             c2 \in ParseDouble(pieces[3]), d2 \in ParseUint64(pieces[4]) : Made(q, a2, b2, c2, d2)
    BY <1>2, <2>1
  <2>4. a1 = a2 /\ b1 = b2 /\ c1 = c2 /\ d1 = d2
    BY <1>1
  <2> QED
    BY <2>2, <2>3, <2>4
<1> QED
  BY <1>2

Reads(W) == [ok : BOOLEAN, fields : [RequiredFields -> SUBSET Values], processes : Seq(W)]

LEMMA EmptyRead ==
  ASSUME NEW W
  PROVE  /\ NothingRead \in Reads(W) /\ Refused \in Reads(W)
         /\ NothingRead.ok = TRUE /\ Refused.ok = FALSE
         /\ \A key \in RequiredFields : NothingRead.fields[key] = {}
         /\ NothingRead.processes = <<>>
<1> DEFINE none == [key \in RequiredFields |-> {}]
<1>1. none \in [RequiredFields -> SUBSET Values] /\ \A key \in RequiredFields : none[key] = {}
  OBVIOUS
<1>2. NothingRead = [ok |-> TRUE, fields |-> none, processes |-> <<>>]
  BY DEF NothingRead
<1> HIDE DEF none
<1>3. <<>> \in Seq(W)
  OBVIOUS
<1>4. NothingRead \in Reads(W) /\ NothingRead.fields = none
  BY <1>1, <1>2, <1>3 DEF Reads
<1>5. NothingRead.ok = TRUE /\ NothingRead.processes = <<>>
  BY DEF NothingRead
<1>6. Refused \in Reads(W) /\ Refused.ok = FALSE
  BY <1>4 DEF Refused, Reads
<1> QED
  BY <1>1, <1>4, <1>5, <1>6

(* The kinds of line and what reading one does.                            *)
LEMMA KindsOfLine ==
  ASSUME NEW line \in Lines
  PROVE  /\ line = BlankLine <=> line.key = BlankLine.key
         /\ BlankLine.key # "process" /\ BlankLine.key \notin RequiredFields
         /\ "process" \notin RequiredFields
         /\ line # BlankLine /\ line.key # "process" => line.value \in Tokens
<1>1. /\ BlankLine.key # "process" /\ BlankLine.key \notin RequiredFields
      /\ "process" \notin RequiredFields
  BY DEF BlankLine, Pair, RequiredFields, TextFields, CountFields, DoubleFields
<1>2. \/ line = BlankLine
      \/ line \in [key : Keys \ {BlankLine.key, "process"}, value : Tokens]
      \/ line \in [key : {"process"}, value : Seq(Tokens)]
  BY DEF Lines
<1> HIDE DEF BlankLine
<1> QED
  BY <1>1, <1>2

NewField(so_far, line) ==
  /\ line.key \in RequiredFields /\ so_far.fields[line.key] = {}
  /\ ParseField(line.key, line.value) # {}

LEMMA LineRead ==
  ASSUME NEW W, NEW so_far \in Reads(W), so_far.ok = TRUE, NEW line \in Lines,
         line.key = "process" => ParseProcess(line.value) \subseteq W
  PROVE  LET after == ReadLine(so_far, line) IN
         /\ after \in Reads(W)
         /\ line = BlankLine => after = so_far
         /\ line.key = "process" =>
              IF ParseProcess(line.value) = {} THEN after.ok = FALSE
              ELSE \E p \in ParseProcess(line.value) :
                     /\ after.ok = TRUE /\ after.fields = so_far.fields
                     /\ after.processes = Append(so_far.processes, p)
         /\ line # BlankLine /\ line.key # "process" =>
              IF NewField(so_far, line)
              THEN /\ after.ok = TRUE /\ after.processes = so_far.processes
                   /\ after.fields =
                        [so_far.fields EXCEPT ![line.key] = ParseField(line.key, line.value)]
              ELSE after.ok = FALSE
<1> DEFINE after == ReadLine(so_far, line)
<1>0. Refused \in Reads(W) /\ Refused.ok = FALSE
  BY EmptyRead
<1>1. CASE line = BlankLine
  BY <1>1, KindsOfLine DEF ReadLine
<1>2. CASE line.key = "process"
  <2>1. line # BlankLine /\ after = ReadProcess(so_far, line)
    BY <1>2, KindsOfLine DEF ReadLine
  <2>2. CASE ParseProcess(line.value) = {}
    BY <1>0, <1>2, <2>1, <2>2 DEF ReadProcess
  <2>3. CASE ParseProcess(line.value) # {}
    <3> DEFINE p == CHOOSE p \in ParseProcess(line.value) : TRUE
    <3>1. p \in ParseProcess(line.value) /\ p \in W
      BY <1>2, <2>3
    <3>2. after = [so_far EXCEPT !.processes = Append(@, p)]
      BY <2>1, <2>3 DEF ReadProcess
    <3> HIDE DEF p, after
    <3>3. after = [so_far EXCEPT !.processes = Append(so_far.processes, p)]
      BY <3>2 DEF Reads
    <3>4. Append(so_far.processes, p) \in Seq(W)
      BY <3>1 DEF Reads
    <3>5. /\ after \in Reads(W) /\ after.ok = TRUE /\ after.fields = so_far.fields
          /\ after.processes = Append(so_far.processes, p)
      BY <3>3, <3>4 DEF Reads
    <3> QED
      BY <1>2, <2>1, <2>3, <3>1, <3>5 DEF after
  <2> QED
    BY <2>2, <2>3
<1>3. CASE line # BlankLine /\ line.key # "process"
  <2> DEFINE value == ParseField(line.key, line.value)
  <2>1. after = ReadField(so_far, line)
    BY <1>3 DEF ReadLine
  <2>2. value \in SUBSET Values
    BY <1>3, KindsOfLine, FieldType
  <2>3. CASE NewField(so_far, line)
    <3>1. after = [so_far EXCEPT !.fields[line.key] = value]
      BY <2>1, <2>3 DEF ReadField, Repeated, NewField
    <3> HIDE DEF after, value
    <3>2. after = [so_far EXCEPT !.fields = [so_far.fields EXCEPT ![line.key] = value]]
      BY <3>1 DEF Reads
    <3>3. [so_far.fields EXCEPT ![line.key] = value] \in [RequiredFields -> SUBSET Values]
      BY <2>2 DEF Reads
    <3>4. /\ after \in Reads(W) /\ after.ok = TRUE /\ after.processes = so_far.processes
          /\ after.fields = [so_far.fields EXCEPT ![line.key] = value]
      BY <3>2, <3>3 DEF Reads
    <3> QED
      BY <1>3, <2>3, <3>4 DEF after, value
  <2>4. CASE ~NewField(so_far, line)
    <3>1. after = Refused
      BY <2>1, <2>4 DEF ReadField, Repeated, NewField
    <3> QED
      BY <1>0, <1>3, <2>4, <3>1
  <2> QED
    BY <2>3, <2>4
<1> QED
  BY <1>1, <1>2, <1>3

(* What was read so far, said of the payload: line i is accepted when it   *)
(* is blank, a process, or a field that no line before it gave.            *)
Accepted(payload, i) ==
  \/ payload[i] = BlankLine
  \/ payload[i].key = "process" /\ ParseProcess(payload[i].value) # {}
  \/ /\ payload[i].key \in RequiredFields
     /\ ParseField(payload[i].key, payload[i].value) # {}
     /\ \A j \in 2 .. i - 1 : payload[j].key # payload[i].key

ProcessesTo(payload, k) == {i \in 2 .. k : payload[i].key = "process"}

FieldsTo(payload, fields, k) ==
  \A key \in RequiredFields :
    /\ \A i \in 2 .. k : payload[i].key = key =>
         ParseField(key, payload[i].value) = fields[key] /\ fields[key] # {}
    /\ fields[key] # {} => \E i \in 2 .. k : payload[i].key = key

ListTo(payload, processes, k) ==
  /\ Len(processes) = Cardinality(ProcessesTo(payload, k))
  /\ \A i \in ProcessesTo(payload, k) :
       ParseProcess(payload[i].value) = {processes[Cardinality(ProcessesTo(payload, i))]}

ReadTo(payload, so_far, k) ==
  /\ so_far.ok = TRUE <=> \A i \in 2 .. k : Accepted(payload, i)
  /\ so_far.ok = TRUE => FieldsTo(payload, so_far.fields, k) /\ ListTo(payload, so_far.processes, k)

LEMMA ProcessCount ==
  ASSUME NEW payload, NEW k \in Nat
  PROVE  /\ IsFiniteSet(ProcessesTo(payload, k))
         /\ Cardinality(ProcessesTo(payload, k)) \in Nat
         /\ ProcessesTo(payload, k + 1) =
              IF k >= 1 /\ payload[k + 1].key = "process"
              THEN ProcessesTo(payload, k) \cup {k + 1} ELSE ProcessesTo(payload, k)
         /\ k >= 1 /\ payload[k + 1].key = "process" =>
              Cardinality(ProcessesTo(payload, k + 1)) = Cardinality(ProcessesTo(payload, k)) + 1
         /\ \A i \in ProcessesTo(payload, k) :
              Cardinality(ProcessesTo(payload, i)) \in 1 .. Cardinality(ProcessesTo(payload, k))
<1> DEFINE P(n) == ProcessesTo(payload, n)
<1>1. ASSUME NEW n \in Nat PROVE IsFiniteSet(P(n)) /\ Cardinality(P(n)) \in Nat
  <2>1. P(n) \in SUBSET (2 .. n) /\ IsFiniteSet(2 .. n)
    BY FS_Interval DEF ProcessesTo
  <2> QED
    BY <2>1, FS_Subset, FS_CardinalityType
<1>2. P(k + 1) = IF k >= 1 /\ payload[k + 1].key = "process" THEN P(k) \cup {k + 1} ELSE P(k)
  BY DEF ProcessesTo
<1>3. ASSUME k >= 1, payload[k + 1].key = "process"
      PROVE  Cardinality(P(k + 1)) = Cardinality(P(k)) + 1
  <2>1. k + 1 \notin P(k)
    BY DEF ProcessesTo
  <2> HIDE DEF P
  <2> QED
    BY <1>1, <1>2, <1>3, <2>1, FS_AddElement
<1>4. ASSUME NEW i \in P(k)
      PROVE  Cardinality(P(i)) \in 1 .. Cardinality(P(k))
  <2>1. i \in Nat /\ i \in P(i) /\ P(i) \in SUBSET P(k)
    BY <1>4 DEF ProcessesTo
  <2>2. Cardinality(P(i)) # 0
    BY <1>1, <2>1, FS_EmptySet
  <2>3. Cardinality(P(i)) <= Cardinality(P(k))
    BY <1>1, <2>1, FS_Subset
  <2> HIDE DEF P
  <2> QED
    BY <1>1, <2>1, <2>2, <2>3
<1> QED
  BY <1>1, <1>2, <1>3, <1>4

LEMMA FieldsStep ==
  ASSUME NEW payload, NEW k \in Nat, k >= 1, NEW fields \in [RequiredFields -> SUBSET Values],
         FieldsTo(payload, fields, k), payload[k + 1].key \in RequiredFields,
         NEW value \in SUBSET Values, value # {},
         value = ParseField(payload[k + 1].key, payload[k + 1].value),
         fields[payload[k + 1].key] = {}
  PROVE  FieldsTo(payload, [fields EXCEPT ![payload[k + 1].key] = value], k + 1)
<1> DEFINE new == [fields EXCEPT ![payload[k + 1].key] = value]
<1> SUFFICES ASSUME NEW key \in RequiredFields
             PROVE  /\ \A i \in 2 .. k + 1 : payload[i].key = key =>
                         ParseField(key, payload[i].value) = new[key] /\ new[key] # {}
                    /\ new[key] # {} => \E i \in 2 .. k + 1 : payload[i].key = key
  BY DEF FieldsTo
<1>1. /\ \A i \in 2 .. k : payload[i].key = key =>
           ParseField(key, payload[i].value) = fields[key] /\ fields[key] # {}
      /\ fields[key] # {} => \E i \in 2 .. k : payload[i].key = key
  BY DEF FieldsTo
<1>2. CASE key = payload[k + 1].key
  <2>1. new[key] = value
    BY <1>2
  <2>2. \A i \in 2 .. k : payload[i].key # key
    BY <1>1, <1>2
  <2>3. \A i \in 2 .. k + 1 : i \notin 2 .. k => i = k + 1
    OBVIOUS
  <2>4. k + 1 \in 2 .. k + 1
    OBVIOUS
  <2> HIDE DEF new
  <2> QED
    BY <1>2, <2>1, <2>2, <2>3, <2>4
<1>3. CASE key # payload[k + 1].key
  <2>1. new[key] = fields[key]
    BY <1>3
  <2>2. \A i \in 2 .. k + 1 : payload[i].key = key => i \in 2 .. k
    BY <1>3
  <2> HIDE DEF new
  <2> QED
    BY <1>1, <2>1, <2>2
<1> QED
  BY <1>2, <1>3

LEMMA ListStep ==
  ASSUME NEW W, NEW payload, NEW k \in Nat, k >= 1, NEW list \in Seq(W), NEW p \in W,
         ListTo(payload, list, k), payload[k + 1].key = "process",
         ParseProcess(payload[k + 1].value) = {p}
  PROVE  ListTo(payload, Append(list, p), k + 1)
<1> DEFINE P(n) == ProcessesTo(payload, n)
           new == Append(list, p)
<1>1. /\ Len(list) = Cardinality(P(k)) /\ Cardinality(P(k)) \in Nat
      /\ Cardinality(P(k + 1)) = Cardinality(P(k)) + 1
      /\ P(k + 1) = P(k) \cup {k + 1}
      /\ \A i \in P(k) : Cardinality(P(i)) \in 1 .. Len(list)
  BY ProcessCount DEF ListTo
<1>2. \A i \in P(k) : ParseProcess(payload[i].value) = {list[Cardinality(P(i))]}
  BY DEF ListTo
<1> HIDE DEF P
<1>3. Len(new) = Cardinality(P(k + 1)) /\ new[Cardinality(P(k + 1))] = p
      /\ \A n \in 1 .. Len(list) : new[n] = list[n]
  BY <1>1
<1> HIDE DEF new
<1>4. \A i \in P(k + 1) : ParseProcess(payload[i].value) = {new[Cardinality(P(i))]}
  BY <1>1, <1>2, <1>3
<1> QED
  BY <1>3, <1>4 DEF ListTo, P, new

LEMMA NothingStep ==
  ASSUME NEW payload, NEW k \in Nat, k >= 1
  PROVE  /\ ~(payload[k + 1].key \in RequiredFields) =>
              \A fields : FieldsTo(payload, fields, k) => FieldsTo(payload, fields, k + 1)
         /\ payload[k + 1].key # "process" =>
              \A list : ListTo(payload, list, k) => ListTo(payload, list, k + 1)
<1>1. \A i \in 2 .. k + 1 : i \in 2 .. k \/ i = k + 1
  OBVIOUS
<1>2. \A i \in 2 .. k : i \in 2 .. k + 1
  OBVIOUS
<1>3. payload[k + 1].key # "process" => ProcessesTo(payload, k + 1) = ProcessesTo(payload, k)
  BY ProcessCount
<1> QED
  BY <1>1, <1>2, <1>3 DEF FieldsTo, ListTo

LEMMA ReadStep ==
  ASSUME NEW W, NEW payload \in Seq(Lines), NEW k \in Nat, k >= 1, k < Len(payload),
         NEW so_far \in Reads(W), ReadTo(payload, so_far, k),
         payload[k + 1].key = "process" => ParseProcess(payload[k + 1].value) \subseteq W
  PROVE  /\ ReadLine(so_far, payload[k + 1]) \in Reads(W)
         /\ ReadTo(payload, ReadLine(so_far, payload[k + 1]), k + 1)
<1> DEFINE line == payload[k + 1]
           after == ReadLine(so_far, line)
<1>1. line \in Lines
  OBVIOUS
<1>2. (\A i \in 2 .. k + 1 : Accepted(payload, i)) <=>
        (\A i \in 2 .. k : Accepted(payload, i)) /\ Accepted(payload, k + 1)
  <2>1. \A i \in 2 .. k + 1 : i \in 2 .. k \/ i = k + 1
    OBVIOUS
  <2>2. k + 1 \in 2 .. k + 1 /\ \A i \in 2 .. k : i \in 2 .. k + 1
    OBVIOUS
  <2> QED
    BY <2>1, <2>2
<1>3. Accepted(payload, k + 1) <=>
        \/ line = BlankLine
        \/ line.key = "process" /\ ParseProcess(line.value) # {}
        \/ /\ line.key \in RequiredFields /\ ParseField(line.key, line.value) # {}
           /\ \A j \in 2 .. k : payload[j].key # line.key
  <2>1. (k + 1) - 1 = k
    OBVIOUS
  <2> QED
    BY <2>1 DEF Accepted
<1>4. CASE so_far.ok # TRUE
  <2>1. after = so_far
    BY <1>4 DEF ReadLine, Reads
  <2> QED
    BY <1>2, <1>4, <2>1 DEF ReadTo
<1>5. CASE so_far.ok = TRUE
  <2> HIDE DEF line, after
  <2>1. /\ \A i \in 2 .. k : Accepted(payload, i)
        /\ FieldsTo(payload, so_far.fields, k) /\ ListTo(payload, so_far.processes, k)
        /\ so_far.fields \in [RequiredFields -> SUBSET Values] /\ so_far.processes \in Seq(W)
    BY <1>5 DEF ReadTo, Reads
  <2>2. after \in Reads(W)
    BY <1>1, <1>5, LineRead DEF line, after
  <2>3. CASE line = BlankLine
    <3>1. after = so_far
      BY <1>1, <1>5, <2>3, LineRead DEF line, after
    <3>2. line.key # "process" /\ line.key \notin RequiredFields
      BY <1>1, <2>3, KindsOfLine
    <3>3. FieldsTo(payload, so_far.fields, k + 1) /\ ListTo(payload, so_far.processes, k + 1)
      BY <2>1, <3>2, NothingStep DEF line
    <3>4. \A i \in 2 .. k + 1 : Accepted(payload, i)
      BY <1>2, <1>3, <2>1, <2>3
    <3>5. ReadTo(payload, after, k + 1)
      BY <1>5, <3>1, <3>3, <3>4 DEF ReadTo
    <3> QED
      BY <2>2, <3>5 DEF line, after
  <2>4. CASE line.key = "process"
    <3>1. IF ParseProcess(line.value) = {} THEN after.ok = FALSE
          ELSE \E p \in ParseProcess(line.value) :
                 /\ after.ok = TRUE /\ after.fields = so_far.fields
                 /\ after.processes = Append(so_far.processes, p)
      <4>1. ParseProcess(line.value) \subseteq W
        BY <2>4 DEF line
      <4> QED
        BY <1>1, <1>5, <2>4, <4>1, LineRead DEF after
    <3>2. line # BlankLine /\ line.key \notin RequiredFields
      BY <1>1, <2>4, KindsOfLine
    <3>3. CASE ParseProcess(line.value) = {}
      BY <1>2, <1>3, <2>2, <2>4, <3>1, <3>2, <3>3 DEF ReadTo, line, after
    <3>4. CASE ParseProcess(line.value) # {}
      <4>1. PICK p \in ParseProcess(line.value) :
              /\ after.ok = TRUE /\ after.fields = so_far.fields
              /\ after.processes = Append(so_far.processes, p)
        BY <3>1, <3>4
      <4>2. ParseProcess(line.value) = {p} /\ p \in W
        BY <2>4, OneProcessRead DEF line
      <4>3. FieldsTo(payload, after.fields, k + 1)
        BY <2>1, <3>2, <4>1, NothingStep DEF line
      <4>4. ListTo(payload, after.processes, k + 1)
        BY <2>1, <2>4, <4>1, <4>2, ListStep DEF line
      <4> QED
        BY <1>2, <1>3, <2>1, <2>2, <2>4, <3>4, <4>1, <4>3, <4>4 DEF ReadTo, line, after
    <3> QED
      BY <3>3, <3>4
  <2>5. CASE line # BlankLine /\ line.key # "process"
    <3> DEFINE new == NewField(so_far, line)
    <3>1. IF new
          THEN /\ after.ok = TRUE /\ after.processes = so_far.processes
               /\ after.fields = [so_far.fields EXCEPT ![line.key] = ParseField(line.key, line.value)]
          ELSE after.ok = FALSE
      BY <1>1, <1>5, <2>5, LineRead DEF line, after
    <3>2. new <=> Accepted(payload, k + 1)
      <4>1. line.key \in RequiredFields =>
              (so_far.fields[line.key] = {} <=> \A j \in 2 .. k : payload[j].key # line.key)
        BY <2>1 DEF FieldsTo
      <4> QED
        BY <1>3, <2>5, <4>1 DEF NewField
    <3>3. CASE ~new
      BY <1>2, <2>2, <3>1, <3>2, <3>3 DEF ReadTo, line, after
    <3>4. CASE new
      <4>1. ParseField(line.key, line.value) \in SUBSET Values
        BY <1>1, <2>5, KindsOfLine, FieldType
      <4>2. FieldsTo(payload, after.fields, k + 1)
        <5> DEFINE value == ParseField(line.key, line.value)
        <5>1. /\ value \in SUBSET Values /\ value # {} /\ line.key \in RequiredFields
              /\ so_far.fields[line.key] = {}
              /\ value = ParseField(line.key, line.value)
          BY <3>4, <4>1 DEF NewField
        <5> HIDE DEF value
        <5>2. FieldsTo(payload, [so_far.fields EXCEPT ![line.key] = value], k + 1)
          BY <2>1, <5>1, FieldsStep DEF line
        <5> QED
          BY <3>1, <3>4, <5>2 DEF value
      <4>3. ListTo(payload, after.processes, k + 1)
        BY <2>1, <2>5, <3>1, <3>4, NothingStep DEF line
      <4> QED
        BY <1>2, <2>1, <2>2, <3>1, <3>2, <3>4, <4>2, <4>3 DEF ReadTo, line, after
    <3> QED
      BY <3>3, <3>4
  <2> QED
    BY <2>3, <2>4, <2>5
<1> QED
  BY <1>4, <1>5

ReadProcesses(payload) ==
  UNION {ParseProcess(payload[i].value) : i \in {j \in DOMAIN payload : payload[j].key = "process"}}

LEMMA ReadAll ==
  ASSUME NEW payload \in Seq(Lines), payload # <<>>
  PROVE  LET all == FoldLeft(ReadLine, NothingRead, Tail(payload)) IN
         all \in Reads(ReadProcesses(payload)) /\ ReadTo(payload, all, Len(payload))
<1> DEFINE W == ReadProcesses(payload)
           s == Tail(payload)
<1>1. /\ s \in Seq(Lines) /\ Len(s) = Len(payload) - 1 /\ Len(payload) \in Nat
      /\ Len(payload) >= 1 /\ \A k \in 1 .. Len(s) : s[k] = payload[k + 1]
  OBVIOUS
<1> HIDE DEF s
<1>2. PICK r : /\ r[0] = NothingRead
               /\ \A k \in 1 .. Len(s) : r[k] = ReadLine(r[k - 1], s[k])
               /\ FoldLeft(ReadLine, NothingRead, s) = r[Len(s)]
  BY <1>1, ReadLineByLine
<1>3. \A k \in 1 .. Len(payload) :
        payload[k].key = "process" => ParseProcess(payload[k].value) \subseteq W
  BY DEF ReadProcesses
<1> HIDE DEF W
<1> DEFINE Q == {k \in Nat : k < Len(payload) =>
                               r[k] \in Reads(W) /\ ReadTo(payload, r[k], k + 1)}
<1>4. 0 \in Q
  <2>1. 2 .. 0 + 1 = {} /\ ProcessesTo(payload, 0 + 1) = {}
    BY DEF ProcessesTo
  <2>2. NothingRead \in Reads(W) /\ NothingRead.ok = TRUE /\ NothingRead.processes = <<>>
        /\ \A key \in RequiredFields : NothingRead.fields[key] = {}
    BY EmptyRead
  <2>3. FieldsTo(payload, NothingRead.fields, 0 + 1)
    BY <2>1, <2>2 DEF FieldsTo
  <2>4. ListTo(payload, NothingRead.processes, 0 + 1)
    BY <2>1, <2>2, FS_EmptySet DEF ListTo
  <2>5. ReadTo(payload, NothingRead, 0 + 1)
    BY <2>1, <2>2, <2>3, <2>4 DEF ReadTo
  <2> QED
    BY <1>2, <2>2, <2>5
<1>5. ASSUME NEW k \in Nat, k \in Q PROVE k + 1 \in Q
  <2> SUFFICES ASSUME k + 1 < Len(payload)
               PROVE  r[k + 1] \in Reads(W) /\ ReadTo(payload, r[k + 1], (k + 1) + 1)
    OBVIOUS
  <2>1. r[k] \in Reads(W) /\ ReadTo(payload, r[k], k + 1)
    BY <1>1, <1>5
  <2>2. k + 1 \in 1 .. Len(s) /\ (k + 1) - 1 = k
    BY <1>1
  <2>3. r[k + 1] = ReadLine(r[k], payload[(k + 1) + 1])
    BY <1>1, <1>2, <2>2
  <2>4. (k + 1) + 1 \in 1 .. Len(payload) /\ k + 1 \in Nat /\ k + 1 >= 1
    BY <1>1
  <2> QED
    BY <1>3, <2>1, <2>3, <2>4, ReadStep
<1>6. Nat \subseteq Q
  <2> HIDE DEF Q
  <2> QED
    BY <1>4, <1>5, NatSetInduction
<1>7. Len(s) \in Q /\ Len(s) < Len(payload) /\ Len(s) + 1 = Len(payload)
  BY <1>1, <1>6
<1> QED
  BY <1>2, <1>7 DEF s, W

(* All lines accepted, each field once and the number of processes is to   *)
(* be well formed.                                                         *)
LEMMA CompleteIsWellFormed ==
  ASSUME NEW payload \in Seq(Lines), payload # <<>>, payload[1] = VersionLine, NEW W,
         NEW all \in Reads(W), ReadTo(payload, all, Len(payload))
  PROVE  /\ Complete(all) <=> WellFormed(payload)
         /\ Complete(all) => Says(payload, all)
<1> DEFINE L == Len(payload)
<1>1. /\ L \in Nat /\ L >= 1 /\ \A i \in 2 .. L : payload[i] \in Lines
      /\ \A key : LinesOf(payload, key) = {i \in 2 .. L : payload[i].key = key}
      /\ LinesOf(payload, "process") = ProcessesTo(payload, L)
      /\ \A i \in 2 .. L : {j \in LinesOf(payload, "process") : j <= i} = ProcessesTo(payload, i)
  BY DEF LinesOf, ProcessesTo
<1> DEFINE n == Cardinality(LinesOf(payload, "process"))
<1>2. n \in Nat
  BY <1>1, ProcessCount
<1>3. /\ "process_count" \in RequiredFields
      /\ \A t : ParseField("process_count", t) = ParseUint64(t)
  BY DEF RequiredFields, CountFields, TextFields, DoubleFields, ParseField
<1> HIDE DEF L, n
<1>4. ASSUME Complete(all)
      PROVE  WellFormed(payload) /\ Says(payload, all)
  <2>1. /\ all.ok = TRUE /\ \A key \in RequiredFields : all.fields[key] # {}
        /\ all.fields["process_count"] = {Len(all.processes)}
    BY <1>4 DEF Complete, Reads
  <2>2. /\ \A i \in 2 .. L : Accepted(payload, i)
        /\ FieldsTo(payload, all.fields, L) /\ ListTo(payload, all.processes, L)
    BY <2>1 DEF ReadTo, L
  <2>3. Len(all.processes) = n
    BY <1>1, <2>2 DEF ListTo, n
  <2>4. \A i \in 2 .. L : payload[i].key \in RequiredFields \cup {"process", BlankLine.key}
    BY <1>1, <2>2, KindsOfLine DEF Accepted
  <2>5. ASSUME NEW key \in RequiredFields
        PROVE  \E i \in LinesOf(payload, key) :
                 LinesOf(payload, key) = {i} /\ ParseField(key, payload[i].value) # {}
    <3>1. PICK i \in 2 .. L : payload[i].key = key
      BY <2>1, <2>2 DEF FieldsTo
    <3>2. ParseField(key, payload[i].value) # {}
      BY <2>1, <2>2, <3>1 DEF FieldsTo
    <3>3. \A j, k \in 2 .. L : j < k /\ payload[k].key = key => payload[j].key # key
      <4>1. ASSUME NEW j \in 2 .. L, NEW k \in 2 .. L, j < k, payload[k].key = key
            PROVE  payload[j].key # key
        <5>1. Accepted(payload, k) /\ payload[k] # BlankLine /\ payload[k].key # "process"
          BY <1>1, <2>2, <4>1, KindsOfLine
        <5>2. j \in 2 .. k - 1
          BY <1>1, <4>1
        <5> QED
          BY <4>1, <5>1, <5>2 DEF Accepted
      <4> QED
        BY <4>1
    <3>4. ASSUME NEW j \in 2 .. L, payload[j].key = key PROVE j = i
      <4>1. ~(j < i) /\ ~(i < j)
        BY <3>1, <3>3, <3>4
      <4>2. i \in Int /\ j \in Int
        BY <1>1
      <4> QED
        BY <4>1, <4>2
    <3>5. i \in LinesOf(payload, key)
      BY <1>1, <3>1
    <3>6. \A j \in LinesOf(payload, key) : j = i
      BY <1>1, <3>4
    <3> QED
      BY <3>2, <3>5, <3>6
  <2>6. \A i \in LinesOf(payload, "process") : ParseProcess(payload[i].value) # {}
    BY <1>1, <2>2, KindsOfLine DEF Accepted
  <2>7. \A i \in LinesOf(payload, "process_count") : ParseUint64(payload[i].value) = {n}
    BY <1>1, <1>3, <2>1, <2>2, <2>3 DEF FieldsTo
  <2>8. WellFormed(payload)
    BY <2>4, <2>5, <2>6, <2>7 DEF WellFormed, L, n
  <2>9. \A key \in RequiredFields : \A i \in LinesOf(payload, key) :
          ParseField(key, payload[i].value) = all.fields[key]
    BY <1>1, <2>2 DEF FieldsTo
  <2>10. ASSUME NEW i \in LinesOf(payload, "process")
         PROVE  ParseProcess(payload[i].value) =
                  {all.processes[Cardinality({j \in LinesOf(payload, "process") : j <= i})]}
    <3>1. i \in 2 .. L /\ i \in ProcessesTo(payload, L)
      BY <1>1
    <3> QED
      BY <1>1, <2>2, <3>1 DEF ListTo
  <2>11. Says(payload, all)
    BY <2>3, <2>9, <2>10 DEF Says, n
  <2> QED
    BY <2>8, <2>11
<1>5. ASSUME WellFormed(payload)
      PROVE  Complete(all)
  <2>1. /\ \A i \in 2 .. L : payload[i].key \in RequiredFields \cup {"process", BlankLine.key}
        /\ \A key \in RequiredFields : \E i \in LinesOf(payload, key) :
             LinesOf(payload, key) = {i} /\ ParseField(key, payload[i].value) # {}
        /\ \A i \in LinesOf(payload, "process") : ParseProcess(payload[i].value) # {}
        /\ \A i \in LinesOf(payload, "process_count") : ParseUint64(payload[i].value) = {n}
    BY <1>5 DEF WellFormed, L, n
  <2>2. ASSUME NEW i \in 2 .. L PROVE Accepted(payload, i)
    <3>1. CASE payload[i].key = "process"
      BY <1>1, <2>1, <3>1 DEF Accepted
    <3>2. CASE payload[i].key = BlankLine.key
      BY <1>1, <3>2, KindsOfLine DEF Accepted
    <3>3. CASE payload[i].key \in RequiredFields
      <4>1. PICK k \in LinesOf(payload, payload[i].key) :
              /\ LinesOf(payload, payload[i].key) = {k}
              /\ ParseField(payload[i].key, payload[k].value) # {}
        BY <2>1, <3>3
      <4>2. i = k
        BY <1>1, <4>1
      <4>3. \A j \in 2 .. i - 1 : payload[j].key # payload[i].key
        <5>1. ASSUME NEW j \in 2 .. i - 1, payload[j].key = payload[i].key PROVE FALSE
          <6>1. j \in 2 .. L /\ j # i
            BY <1>1
          <6> QED
            BY <1>1, <4>1, <4>2, <5>1, <6>1
        <5> QED
          BY <5>1
      <4> QED
        BY <3>3, <4>1, <4>2, <4>3 DEF Accepted
    <3> QED
      BY <2>1, <3>1, <3>2, <3>3
  <2>3. /\ all.ok = TRUE
        /\ FieldsTo(payload, all.fields, L) /\ ListTo(payload, all.processes, L)
    BY <2>2 DEF ReadTo, L
  <2>4. \A key \in RequiredFields : all.fields[key] # {}
    BY <1>1, <2>1, <2>3 DEF FieldsTo
  <2>5. all.fields["process_count"] = {Len(all.processes)}
    <3>1. PICK i \in LinesOf(payload, "process_count") :
            LinesOf(payload, "process_count") = {i}
      BY <1>3, <2>1
    <3>2. ParseUint64(payload[i].value) = {n} /\ i \in 2 .. L /\ payload[i].key = "process_count"
      BY <1>1, <2>1
    <3>3. all.fields["process_count"] = ParseUint64(payload[i].value)
      BY <1>3, <2>3, <3>2 DEF FieldsTo
    <3>4. Len(all.processes) = n
      BY <1>1, <2>3 DEF ListTo, n
    <3> QED
      BY <3>2, <3>3, <3>4
  <2> QED
    BY <2>3, <2>4, <2>5 DEF Complete
<1> QED
  BY <1>4, <1>5

LEMMA ReadLinesExact ==
  ASSUME NEW payload \in Seq(Lines)
  PROVE  /\ ReadLines(payload).ok <=> WellFormed(payload)
         /\ ReadLines(payload).ok => Says(payload, ReadLines(payload))
         /\ ReadLines(payload) \in Reads(ReadProcesses(payload))
<1> DEFINE W == ReadProcesses(payload)
<1>1. Refused \in Reads(W) /\ Refused.ok = FALSE
  BY EmptyRead
<1>2. CASE payload = <<>> \/ Head(payload) # VersionLine
  <2>1. ReadLines(payload) = Refused
    BY <1>2 DEF ReadLines
  <2>2. ~WellFormed(payload)
    <3>1. payload # <<>> => Head(payload) = payload[1]
      OBVIOUS
    <3> QED
      BY <1>2, <3>1 DEF WellFormed
  <2> QED
    BY <1>1, <2>1, <2>2
<1>3. CASE payload # <<>> /\ Head(payload) = VersionLine
  <2> DEFINE all == FoldLeft(ReadLine, NothingRead, Tail(payload))
  <2>1. all \in Reads(W) /\ ReadTo(payload, all, Len(payload))
    BY <1>3, ReadAll
  <2>2. ReadLines(payload) = IF Complete(all) THEN all ELSE Refused
    BY <1>3 DEF ReadLines
  <2> HIDE DEF all, W
  <2>3. payload[1] = VersionLine
    BY <1>3
  <2>4. (Complete(all) <=> WellFormed(payload)) /\ (Complete(all) => Says(payload, all))
    BY <1>3, <2>1, <2>3, CompleteIsWellFormed
  <2>5. Complete(all) => all.ok
    BY DEF Complete
  <2>6. ReadLines(payload) \in Reads(W)
    BY <1>1, <2>1, <2>2
  <2> QED
    BY <1>1, <2>2, <2>4, <2>5, <2>6 DEF W
<1> QED
  BY <1>2, <1>3

(* The CRs at the ends of the lines are taken off first.                   *)
LEMMA FunctionIsSequence ==
  ASSUME NEW S, NEW n \in Nat, NEW g \in [1 .. n -> S]
  PROVE  g \in Seq(S) /\ Len(g) = n
OBVIOUS

LEMMA ChompedLast ==
  ASSUME NEW s \in Seq(Tokens)
  PROVE  /\ ChompLast(s) \in Seq(Tokens) /\ Len(ChompLast(s)) = Len(s)
         /\ \A i \in 1 .. Len(s) :
              ChompLast(s)[i] = IF i = Len(s) THEN WithoutCr(s[i]) ELSE s[i]
<1> DEFINE g == [i \in 1 .. Len(s) |-> IF i = Len(s) THEN WithoutCr(s[i]) ELSE s[i]]
<1>1. \A t \in Tokens : WithoutCr(t) \in Tokens
  BY DEF WithoutCr, Tokens
<1>2. g \in [1 .. Len(s) -> Tokens] /\ Len(s) \in Nat
  BY <1>1
<1>3. ChompLast(s) = g
  <2>1. DOMAIN s = 1 .. Len(s)
    OBVIOUS
  <2>2. ChompLast(s) = [i \in DOMAIN s |-> IF i = Len(s) THEN WithoutCr(s[Len(s)]) ELSE s[i]]
    BY DEF ChompLast
  <2> QED
    BY <2>1, <2>2
<1>4. \A i \in 1 .. Len(s) : g[i] = IF i = Len(s) THEN WithoutCr(s[i]) ELSE s[i]
  OBVIOUS
<1> HIDE DEF g
<1> QED
  BY <1>2, <1>3, <1>4, FunctionIsSequence

Plain(form, n) == [form |-> form, n |-> n, cr |-> FALSE]
WithCr(form, n) == [form |-> form, n |-> n, cr |-> TRUE]

LEMMA TokenFields ==
  ASSUME NEW form, NEW n
  PROVE  /\ Plain(form, n).form = form /\ Plain(form, n).n = n /\ ~Plain(form, n).cr
         /\ WithCr(form, n).form = form /\ WithCr(form, n).n = n /\ WithCr(form, n).cr
         /\ WithoutCr(Plain(form, n)) = Plain(form, n)
         /\ WithoutCr(WithCr(form, n)) = Plain(form, n)
         /\ CrAfter(Plain(form, n)) = WithCr(form, n)
<1>1. \A c, d : [[form |-> form, n |-> n, cr |-> c] EXCEPT !.cr = d] =
                 [form |-> form, n |-> n, cr |-> d]
  OBVIOUS
<1>2. /\ WithoutCr(Plain(form, n)) = Plain(form, n)
      /\ WithoutCr(WithCr(form, n)) = Plain(form, n)
      /\ CrAfter(Plain(form, n)) = WithCr(form, n)
  BY <1>1, Zenon DEF WithoutCr, CrAfter, Plain, WithCr
<1> QED
  BY <1>2 DEF Plain, WithCr

LEMMA EmptyText ==
  /\ Text(0) = Plain("empty", 0) /\ LoneCr = WithCr("empty", 0)
  /\ Text(0) \in Tokens /\ LoneCr \in Tokens /\ Text(0) # LoneCr
  /\ WithoutCr(Text(0)) = Text(0) /\ WithoutCr(LoneCr) = Text(0)
<1>1. (IF 0 = 0 THEN "empty" ELSE "text") = "empty"
  OBVIOUS
<1>2. Text(0) = Plain("empty", 0)
  BY <1>1, Zenon DEF Text, Plain
<1>3. LoneCr = WithCr("empty", 0)
  BY <1>2, TokenFields DEF LoneCr
<1>4. Plain("empty", 0) \in Tokens /\ WithCr("empty", 0) \in Tokens
  BY DEF Plain, WithCr, Tokens
<1> QED
  BY <1>2, <1>3, <1>4, TokenFields

LEMMA ChompedLine ==
  ASSUME NEW line \in RawLines
  PROVE  /\ Chomp(line) \in Lines /\ Chomp(line).key = line.key
         /\ Chomp(line).value = IF line.key = "process" THEN ChompLast(line.value)
                                ELSE WithoutCr(line.value)
<1>1. WithoutCr(Text(0)) = Text(0) /\ WithoutCr(LoneCr) = Text(0) /\ Text(0) \in Tokens
  BY EmptyText
<1>2. \A t \in Tokens : WithoutCr(t) \in Tokens
  BY DEF WithoutCr, Tokens
<1>3. \/ line = BlankLine \/ line = Pair(BlankLine.key, LoneCr)
      \/ line \in [key : Keys \ {BlankLine.key, "process"}, value : Tokens]
      \/ line \in [key : {"process"}, value : Seq(Tokens)]
  BY DEF RawLines, Lines
<1>4. BlankLine = [key |-> BlankLine.key, value |-> Text(0)] /\ BlankLine.key # "process"
  BY DEF BlankLine, Pair
<1> HIDE DEF BlankLine, WithoutCr, Tokens, Text, LoneCr
<1>5. CASE line = BlankLine \/ line = Pair(BlankLine.key, LoneCr)
  <2>1. PICK v \in {Text(0), LoneCr} : line = [key |-> BlankLine.key, value |-> v]
    BY <1>4, <1>5 DEF Pair
  <2>2. Chomp(line) = [line EXCEPT !.value = WithoutCr(line.value)]
    BY <1>4, <2>1 DEF Chomp
  <2>3. line.key = BlankLine.key /\ line.value = v /\ WithoutCr(v) = Text(0)
    BY <1>1, <2>1
  <2>4. Chomp(line) = [key |-> BlankLine.key, value |-> Text(0)]
    BY <2>1, <2>2, <2>3
  <2> QED
    BY <1>4, <2>3, <2>4 DEF Lines
<1>6. CASE line \in [key : Keys \ {BlankLine.key, "process"}, value : Tokens]
  <2>1. Chomp(line) = [line EXCEPT !.value = WithoutCr(line.value)]
    BY <1>6 DEF Chomp
  <2>2. WithoutCr(line.value) \in Tokens
    BY <1>2, <1>6
  <2> QED
    BY <1>6, <2>1, <2>2 DEF Lines
<1>7. CASE line \in [key : {"process"}, value : Seq(Tokens)]
  <2>1. Chomp(line) = [line EXCEPT !.value = ChompLast(line.value)]
    BY <1>7 DEF Chomp
  <2>2. ChompLast(line.value) \in Seq(Tokens)
    BY <1>7, ChompedLast
  <2> QED
    BY <1>7, <2>1, <2>2 DEF Lines
<1> QED
  BY <1>3, <1>5, <1>6, <1>7

LEMMA ChompedPayload ==
  ASSUME NEW payload \in Seq(RawLines)
  PROVE  /\ Chomped(payload) \in Seq(Lines) /\ Len(Chomped(payload)) = Len(payload)
         /\ \A i \in 1 .. Len(payload) : Chomped(payload)[i] = Chomp(payload[i])
<1>1. \A i \in 1 .. Len(payload) : Chomp(payload[i]) \in Lines
  BY ChompedLine
<1> HIDE DEF Chomp
<1>2. Chomped(payload) \in [1 .. Len(payload) -> Lines]
  BY <1>1 DEF Chomped
<1>3. Chomped(payload) \in Seq(Lines) /\ Len(Chomped(payload)) = Len(payload)
  BY <1>2
<1> QED
  BY <1>3 DEF Chomped

LEMMA DeserializeExact ==
  ASSUME NEW payload \in Seq(RawLines)
  PROVE  LET lines == Chomped(payload) IN
         /\ Deserialize(payload).ok <=> WellFormed(lines)
         /\ Deserialize(payload).ok => Says(lines, Deserialize(payload))
         /\ Deserialize(payload) \in Reads(ReadProcesses(lines))
BY ChompedPayload, ReadLinesExact DEF Deserialize

(* The server accepts exactly the well formed frames, whatever somebody    *)
(* sends, and reads in them what they say (MetricsDeserializer.cpp:950).   *)
THEOREM ParserIsExact == Spec => []ParserExact
<1>1. ASSUME Provenance PROVE ParserExact
  BY <1>1, Constants, DeserializeExact DEF Provenance, ParserExact
<1> QED
  BY <1>1, ProvenanceInvariant, PTL

-----------------------------------------------------------------------------
(* What the serializer writes, read by the deserializer.                   *)
FieldCount == Len(FieldOrder)

LEMMA FieldOrderFacts ==
  /\ FieldCount \in Nat
  /\ DOMAIN FieldOrder = 1 .. FieldCount
  /\ \A i \in 1 .. FieldCount : FieldOrder[i] \in RequiredFields
  /\ \A key \in RequiredFields : \E i \in 1 .. FieldCount : FieldOrder[i] = key
  /\ \A i, j \in 1 .. FieldCount : FieldOrder[i] = FieldOrder[j] => i = j
<1>0. FieldCount = 21
  BY DEF FieldCount, FieldOrder
<1>1. DOMAIN FieldOrder = 1 .. 21
  BY DEF FieldOrder
<1>2. \A i \in 1 .. 21 : FieldOrder[i] \in RequiredFields
  BY DEF FieldOrder, RequiredFields, TextFields, CountFields, DoubleFields
<1>3. \A key \in RequiredFields : \E i \in 1 .. 21 : FieldOrder[i] = key
  BY DEF FieldOrder, RequiredFields, TextFields, CountFields, DoubleFields
<1>4. \A i, j \in 1 .. 21 : FieldOrder[i] = FieldOrder[j] => i = j
  BY DEF FieldOrder
<1> HIDE DEF FieldOrder
<1> QED
  BY <1>0, <1>1, <1>2, <1>3, <1>4

Value(metrics, key) ==
  IF key = "process_count" THEN Len(metrics.processes) ELSE metrics.fields[key]
FieldLine(metrics, key) == Pair(key, FieldToken(key, Value(metrics, key)))
ProcessLine(metrics, j) == Pair("process", ProcessPieces(metrics.processes[j]))

LEMMA PayloadShape ==
  ASSUME NEW metrics, NEW n \in Nat, DOMAIN metrics.processes = 1 .. n
  PROVE  LET payload == Serialize(metrics) IN
         /\ payload \in Seq({VersionLine} \cup {FieldLine(metrics, key) : key \in RequiredFields}
                              \cup {ProcessLine(metrics, j) : j \in 1 .. n})
         /\ Len(payload) = 1 + FieldCount + n
         /\ payload[1] = VersionLine
         /\ \A i \in 1 .. FieldCount : payload[1 + i] = FieldLine(metrics, FieldOrder[i])
         /\ \A j \in 1 .. n : payload[1 + FieldCount + j] = ProcessLine(metrics, j)
<1> DEFINE S == {VersionLine} \cup {FieldLine(metrics, key) : key \in RequiredFields}
                  \cup {ProcessLine(metrics, j) : j \in 1 .. n}
           a == << VersionLine >>
           f == [i \in 1 .. FieldCount |-> FieldLine(metrics, FieldOrder[i])]
           p == [j \in 1 .. n |-> ProcessLine(metrics, j)]
<1>1. Serialize(metrics) = (a \o f) \o p
  BY FieldOrderFacts DEF Serialize, FieldLine, ProcessLine, Value
<1>2. a \in Seq(S) /\ Len(a) = 1 /\ a[1] = VersionLine
  OBVIOUS
<1>3. f \in Seq(S) /\ Len(f) = FieldCount
  <2>1. f \in [1 .. FieldCount -> S]
    BY FieldOrderFacts
  <2> HIDE DEF f, S
  <2> QED
    BY <2>1, FieldOrderFacts, FunctionIsSequence
<1>4. p \in Seq(S) /\ Len(p) = n
  <2>1. p \in [1 .. n -> S]
    OBVIOUS
  <2> HIDE DEF p, S
  <2> QED
    BY <2>1, FunctionIsSequence
<1>5. /\ \A i \in 1 .. FieldCount : f[i] = FieldLine(metrics, FieldOrder[i])
      /\ \A j \in 1 .. n : p[j] = ProcessLine(metrics, j)
  OBVIOUS
<1> HIDE DEF a, f, p, S
<1> DEFINE af == a \o f
<1>6. af \in Seq(S) /\ Len(af) = 1 + FieldCount /\ af[1] = VersionLine /\ \A i \in 1 .. FieldCount : af[1 + i] = f[i]
  <2>1. /\ af \in Seq(S) /\ Len(af) = Len(a) + Len(f)
        /\ \A i \in 1 .. Len(a) + Len(f) : af[i] = IF i <= Len(a) THEN a[i] ELSE f[i - Len(a)]
    BY <1>2, <1>3, ConcatProperties
  <2> HIDE DEF af
  <2>2. FieldCount \in Nat
    BY FieldOrderFacts
  <2>3. af[1] = VersionLine
    BY <1>2, <1>3, <2>1, <2>2
  <2>4. ASSUME NEW i \in 1 .. FieldCount PROVE af[1 + i] = f[i]
    <3>1. 1 + i \in 1 .. Len(a) + Len(f) /\ ~(1 + i <= Len(a)) /\ (1 + i) - Len(a) = i
      BY <1>2, <1>3, <2>2
    <3> QED
      BY <2>1, <3>1
  <2> QED
    BY <1>2, <1>3, <2>1, <2>3, <2>4
<1> HIDE DEF af
<1>7. /\ af \o p \in Seq(S) /\ Len(af \o p) = 1 + FieldCount + n
      /\ \A i \in 1 .. 1 + FieldCount : (af \o p)[i] = af[i]
      /\ \A j \in 1 .. n : (af \o p)[1 + FieldCount + j] = p[j]
  <2> DEFINE q == af \o p
  <2>1. /\ q \in Seq(S) /\ Len(q) = Len(af) + Len(p)
        /\ \A i \in 1 .. Len(af) + Len(p) : q[i] = IF i <= Len(af) THEN af[i] ELSE p[i - Len(af)]
    BY <1>4, <1>6, ConcatProperties
  <2> HIDE DEF q
  <2>2. FieldCount \in Nat
    BY FieldOrderFacts
  <2>3. \A i \in 1 .. 1 + FieldCount : q[i] = af[i]
    BY <1>4, <1>6, <2>1, <2>2
  <2>4. ASSUME NEW j \in 1 .. n PROVE q[1 + FieldCount + j] = p[j]
    <3>1. /\ 1 + FieldCount + j \in 1 .. Len(af) + Len(p)
          /\ ~(1 + FieldCount + j <= Len(af)) /\ (1 + FieldCount + j) - Len(af) = j
      BY <1>4, <1>6, <2>2
    <3> QED
      BY <2>1, <3>1
  <2> QED
    BY <1>4, <1>6, <2>1, <2>3, <2>4 DEF q
<1>8. 1 \in 1 .. 1 + FieldCount /\ \A i \in 1 .. FieldCount : 1 + i \in 1 .. 1 + FieldCount
  BY FieldOrderFacts
<1>9. Serialize(metrics) = af \o p
  BY <1>1 DEF af
<1> DEFINE payload == af \o p
<1>10. /\ payload \in Seq(S) /\ Len(payload) = 1 + FieldCount + n
       /\ payload[1] = VersionLine
       /\ \A i \in 1 .. FieldCount : payload[1 + i] = FieldLine(metrics, FieldOrder[i])
       /\ \A j \in 1 .. n : payload[1 + FieldCount + j] = ProcessLine(metrics, j)
  BY <1>5, <1>6, <1>7, <1>8
<1> HIDE DEF payload
<1> QED
  BY <1>9, <1>10 DEF S, payload

(* A value goes over the wire if it is not one of those the deserializer   *)
(* refuses: no text, no CPU, no interval.                                  *)
Fits(key, v) ==
  /\ key \in TextFields => v \notin {Text(0), LoneCr}
  /\ key = "logical_cpus" => v # 0
  /\ key = "sample_interval_seconds" => Rounded(v) > 0
OnWire(key, v) ==
  IF key \in TextFields THEN WithoutCr(v)
  ELSE IF key \in DoubleFields THEN Rounded(v) ELSE v
Writable(key) ==
  IF key \in TextFields THEN Texts ELSE IF key \in CountFields THEN 0 .. Word - 1 ELSE Int

LEMMA NumberOnWire ==
  ASSUME NEW n \in Int
  PROVE  /\ Integer(n) \in Tokens /\ Decimal(n) \in Tokens
         /\ WithoutCr(Integer(n)) = Integer(n) /\ WithoutCr(Decimal(n)) = Decimal(n)
         /\ Is(Integer(n), "integer") /\ Integer(n).n = n
         /\ Is(Decimal(n), "decimal") /\ ~Is(Decimal(n), "integer") /\ Decimal(n).n = n
<1>1. Integer(n) = Plain("integer", n) /\ Decimal(n) = Plain("decimal", n)
  BY Zenon DEF Integer, Decimal, Plain
<1>2. Plain("integer", n) \in Tokens /\ Plain("decimal", n) \in Tokens
  BY DEF Plain, Tokens
<1> QED
  BY <1>1, <1>2, TokenFields DEF Is

LEMMA TextOnWire ==
  ASSUME NEW t \in Texts
  PROVE  /\ t \in Tokens /\ WithoutCr(t) \in Tokens
         /\ t \in {Text(0), LoneCr} <=> WithoutCr(t) = Text(0)
         /\ t \in {Text(0), LoneCr} <=> Is(WithoutCr(t), "empty")
<1>1. t \in Tokens /\ t.form = Text(t.n).form
  BY DEF Texts
<1>2. t.form = IF t.n = 0 THEN "empty" ELSE "text"
  BY <1>1 DEF Text
<1>3. t = Plain(t.form, t.n) \/ t = WithCr(t.form, t.n)
  BY <1>1 DEF Tokens, Plain, WithCr
<1>4. WithoutCr(t) = Plain(t.form, t.n)
  BY <1>3, TokenFields
<1>5. WithoutCr(t) \in Tokens
  BY <1>1 DEF Tokens, WithoutCr
<1>6. Is(WithoutCr(t), "empty") <=> t.n = 0
  BY <1>2, <1>4, TokenFields DEF Is
<1>7. t.n = 0 => t \in {Text(0), LoneCr} /\ WithoutCr(t) = Text(0)
  BY <1>2, <1>3, <1>4, EmptyText
<1>8. t \in {Text(0), LoneCr} \/ WithoutCr(t) = Text(0) => t.n = 0
  BY <1>4, EmptyText, TokenFields
<1> QED
  BY <1>1, <1>5, <1>6, <1>7, <1>8

LEMMA FieldOnWire ==
  ASSUME NEW key \in RequiredFields, NEW v \in Writable(key)
  PROVE  /\ FieldToken(key, v) \in Tokens
         /\ ParseField(key, WithoutCr(FieldToken(key, v))) =
              IF Fits(key, v) THEN {OnWire(key, v)} ELSE {}
<1>1. Word \in Nat /\ Word > 0
  BY Constants
<1>2. CASE key \in TextFields
  <2>1. /\ v \in Texts /\ FieldToken(key, v) = v
        /\ key \notin CountFields /\ key # "logical_cpus" /\ key # "sample_interval_seconds"
    BY <1>2 DEF Writable, FieldToken, TextFields, CountFields
  <2>2. ParseField(key, WithoutCr(v)) = ParseText(WithoutCr(v))
    BY <1>2 DEF ParseField
  <2>3. ParseText(WithoutCr(v)) = IF v \in {Text(0), LoneCr} THEN {} ELSE {WithoutCr(v)}
    BY <2>1, TextOnWire DEF ParseText
  <2>4. v \in Tokens
    BY <2>1, TextOnWire
  <2> QED
    BY <1>2, <2>1, <2>2, <2>3, <2>4 DEF Fits, OnWire
<1>3. CASE key \in CountFields
  <2>1. /\ v \in 0 .. Word - 1 /\ v \in Int /\ FieldToken(key, v) = Integer(v)
        /\ key \notin TextFields /\ key \notin DoubleFields /\ key # "sample_interval_seconds"
    BY <1>3 DEF Writable, FieldToken, TextFields, CountFields, DoubleFields
  <2>2. v % Word = v
    BY <1>1, <2>1, SmallMod
  <2>3. ParseUint64(Integer(v)) = {v}
    BY <1>1, <2>1, <2>2, NumberOnWire DEF ParseUint64
  <2>4. ParseField(key, Integer(v)) = IF key = "logical_cpus" THEN {v} \ {0} ELSE {v}
    BY <1>3, <2>1, <2>3 DEF ParseField
  <2>5. Integer(v) \in Tokens /\ WithoutCr(Integer(v)) = Integer(v)
    BY <2>1, NumberOnWire
  <2>6. OnWire(key, v) = v /\ (Fits(key, v) <=> (key = "logical_cpus" => v # 0))
    BY <2>1 DEF Fits, OnWire
  <2> QED
    BY <2>1, <2>4, <2>5, <2>6
<1>4. CASE key \in DoubleFields
  <2>1. /\ v \in Int /\ FieldToken(key, v) = Decimal(Rounded(v))
        /\ key \notin TextFields /\ key \notin CountFields /\ key # "logical_cpus"
    BY <1>4 DEF Writable, FieldToken, TextFields, CountFields, DoubleFields
  <2>2. Rounded(v) \in Int
    BY <2>1 DEF Rounded
  <2>3. ParseDouble(Decimal(Rounded(v))) = {Rounded(v)}
    BY <2>2, NumberOnWire DEF ParseDouble
  <2>4. ParseField(key, Decimal(Rounded(v))) =
          IF key = "sample_interval_seconds" THEN {w \in {Rounded(v)} : w > 0} ELSE {Rounded(v)}
    BY <2>1, <2>3 DEF ParseField
  <2>5. Decimal(Rounded(v)) \in Tokens /\ WithoutCr(Decimal(Rounded(v))) = Decimal(Rounded(v))
    BY <2>2, NumberOnWire
  <2>6. OnWire(key, v) = Rounded(v)
        /\ (Fits(key, v) <=> (key = "sample_interval_seconds" => Rounded(v) > 0))
    BY <1>4, <2>1 DEF Fits, OnWire
  <2> QED
    BY <2>1, <2>4, <2>5, <2>6
<1> QED
  BY <1>2, <1>3, <1>4 DEF RequiredFields

ProcessesSent ==
  [pid : 1 .. IntMax, cpu : Int, memory : Int, rss : 0 .. Word - 1, name : Names]

LEMMA NameOnWire ==
  ASSUME NEW name \in Names
  PROVE  /\ name \in Seq(Tokens) /\ Len(name) \in Nat /\ Len(name) >= 1
         /\ name = << LoneCr >> <=> ChompLast(name) = << Text(0) >>
<1>1. name \in Seq(Texts) /\ name # <<>> /\ name # << Text(0) >>
  BY DEF Names
<1>2. Texts \subseteq Tokens
  BY DEF Texts
<1> HIDE DEF Texts, Tokens
<1>3. name \in Seq(Tokens) /\ Len(name) \in Nat /\ Len(name) >= 1
  BY <1>1, <1>2
<1>4. /\ Len(ChompLast(name)) = Len(name) /\ ChompLast(name) \in Seq(Tokens)
      /\ ChompLast(name)[Len(name)] = WithoutCr(name[Len(name)])
  BY <1>3, ChompedLast
<1>5. name[1] \in Texts
  BY <1>1, <1>3
<1>6. ASSUME Len(name) = 1 PROVE name = << LoneCr >> <=> ChompLast(name) = << Text(0) >>
  <2>1. name = << name[1] >> /\ ChompLast(name) = << WithoutCr(name[1]) >>
    BY <1>3, <1>4, <1>6
  <2>2. name[1] # Text(0)
    BY <1>1, <2>1
  <2>3. name[1] = LoneCr <=> WithoutCr(name[1]) = Text(0)
    BY <1>5, <2>2, TextOnWire
  <2> HIDE DEF LoneCr, Text
  <2> QED
    BY <2>1, <2>3
<1>7. Len(name) # 1 => name # << LoneCr >> /\ ChompLast(name) # << Text(0) >>
  BY <1>4
<1> QED
  BY <1>3, <1>6, <1>7

LEMMA Prefix ==
  ASSUME NEW S, NEW s \in Seq(S), NEW m \in Nat, m <= Len(s)
  PROVE  SubSeq(s, 1, m) \in Seq(S) /\ Len(SubSeq(s, 1, m)) = m
OBVIOUS

ProcessRead(p) ==
  [p EXCEPT !.cpu = Rounded(@), !.memory = Rounded(@), !.name = ChompLast(@)]

LEMMA ProcessOnWire ==
  ASSUME NEW p \in ProcessesSent
  PROVE  /\ ProcessPieces(p) \in Seq(Tokens)
         /\ ParseProcess(ChompLast(ProcessPieces(p))) =
              IF p.name = << LoneCr >> THEN {} ELSE {ProcessRead(p)}
<1> DEFINE four == << Integer(p.pid), Decimal(Rounded(p.cpu)), Decimal(Rounded(p.memory)),
                      Integer(p.rss) >>
           written == four \o p.name
           pieces == ChompLast(written)
           name == ChompLast(p.name)
<1>1. /\ p.pid \in 1 .. IntMax /\ p.cpu \in Int /\ p.memory \in Int /\ p.rss \in 0 .. Word - 1
      /\ Word \in Nat /\ Word > 0 /\ IntMax \in Nat /\ p.name \in Names
  BY Constants DEF ProcessesSent
<1>2. p.name \in Seq(Tokens) /\ Len(p.name) >= 1 /\ Len(p.name) \in Nat
  BY <1>1, NameOnWire
<1>n. /\ p.name = << LoneCr >> <=> name = << Text(0) >>
      /\ name \in Seq(Tokens) /\ Len(name) = Len(p.name)
      /\ \A i \in 1 .. Len(p.name) :
           name[i] = IF i = Len(p.name) THEN WithoutCr(p.name[i]) ELSE p.name[i]
  BY <1>1, <1>2, NameOnWire, ChompedLast
<1>3. Rounded(p.cpu) \in Int /\ Rounded(p.memory) \in Int
  BY <1>1 DEF Rounded
<1>4. /\ Integer(p.pid) \in Tokens /\ Decimal(Rounded(p.cpu)) \in Tokens
      /\ Decimal(Rounded(p.memory)) \in Tokens /\ Integer(p.rss) \in Tokens
  BY <1>1, <1>3, NumberOnWire
<1>5. four \in Seq(Tokens) /\ Len(four) = 4
  BY <1>4
<1>6. /\ four[1] = Integer(p.pid) /\ four[2] = Decimal(Rounded(p.cpu))
      /\ four[3] = Decimal(Rounded(p.memory)) /\ four[4] = Integer(p.rss)
  OBVIOUS
<1> HIDE DEF four, name
<1>7. /\ written \in Seq(Tokens) /\ Len(written) = 4 + Len(p.name)
      /\ \A i \in 1 .. 4 + Len(p.name) : written[i] = IF i <= 4 THEN four[i] ELSE p.name[i - 4]
  <2>1. /\ written \in Seq(Tokens) /\ Len(written) = Len(four) + Len(p.name)
        /\ \A i \in 1 .. Len(four) + Len(p.name) :
             written[i] = IF i <= Len(four) THEN four[i] ELSE p.name[i - Len(four)]
    BY <1>2, <1>5, ConcatProperties
  <2> QED
    BY <1>5, <2>1
<1>8. ProcessPieces(p) = written
  BY DEF ProcessPieces, four
<1> HIDE DEF written
<1>c. /\ pieces \in Seq(Tokens) /\ Len(pieces) = 4 + Len(p.name)
      /\ \A i \in 1 .. 4 + Len(p.name) :
           pieces[i] = IF i = 4 + Len(p.name) THEN WithoutCr(written[i]) ELSE written[i]
  BY <1>7, ChompedLast
<1> HIDE DEF pieces
<1>9. /\ pieces[1] = Integer(p.pid) /\ pieces[2] = Decimal(Rounded(p.cpu))
      /\ pieces[3] = Decimal(Rounded(p.memory)) /\ pieces[4] = Integer(p.rss)
  <2>1. \A i \in 1 .. 4 : i \in 1 .. 4 + Len(p.name) /\ i # 4 + Len(p.name) /\ i <= 4
    BY <1>2
  <2>2. \A i \in 1 .. 4 : pieces[i] = four[i]
    BY <1>7, <1>c, <2>1
  <2> QED
    BY <1>6, <2>2
<1>10. SubSeq(pieces, 5, Len(pieces)) = name
  <2>1. \A i \in 1 .. Len(p.name) : pieces[4 + i] = name[i]
    <3>1. \A i \in 1 .. Len(p.name) :
            /\ 4 + i \in 1 .. 4 + Len(p.name) /\ ~(4 + i <= 4) /\ (4 + i) - 4 = i
            /\ 4 + i = 4 + Len(p.name) <=> i = Len(p.name)
      BY <1>2
    <3> QED
      BY <1>2, <1>n, <1>7, <1>c, <3>1
  <2> QED
    BY <1>2, <1>n, <1>c, <2>1
<1>11. Split(pieces) # <<>> /\ Split(pieces)[5] = name
  <2> DEFINE S == Tokens \cup {name}
             first == SubSeq(pieces, 1, 4)
             last == << name >>
  <2>1. Split(pieces) = first \o last
    <3>1. ~(Len(pieces) < 5)
      BY <1>2, <1>c
    <3>2. Split(pieces) = first \o << SubSeq(pieces, 5, Len(pieces)) >>
      BY <3>1, Zenon DEF Split
    <3> QED
      BY <1>10, <3>2
  <2>2. first \in Seq(Tokens) /\ Len(first) = 4
    BY <1>2, <1>c, Prefix
  <2>3. first \in Seq(S)
    <3> HIDE DEF first
    <3> QED
      BY <2>2
  <2>4. last \in Seq(S) /\ Len(last) = 1 /\ last[1] = name
    OBVIOUS
  <2> HIDE DEF S, first, last
  <2>5. /\ first \o last \in Seq(S) /\ Len(first \o last) = Len(first) + Len(last)
        /\ \A i \in 1 .. Len(first) + Len(last) :
             (first \o last)[i] = IF i <= Len(first) THEN first[i] ELSE last[i - Len(first)]
    BY <2>3, <2>4, ConcatProperties
  <2>6. (first \o last)[5] = name /\ Len(first \o last) = 5
    BY <2>2, <2>4, <2>5
  <2> QED
    BY <2>1, <2>5, <2>6
<1>12. {n \in ParseInt(pieces[1]) : n >= 0} = {p.pid}
  <2>1. p.pid \in Int
    BY <1>1
  <2>2. Is(pieces[1], "integer") /\ pieces[1].n = p.pid
    BY <1>9, <2>1, NumberOnWire
  <2> QED
    BY <1>1, <2>2 DEF ParseInt
<1>13. ParseDouble(pieces[2]) = {Rounded(p.cpu)} /\ ParseDouble(pieces[3]) = {Rounded(p.memory)}
  BY <1>3, <1>9, NumberOnWire DEF ParseDouble
<1>14. ParseUint64(pieces[4]) = {p.rss}
  <2>1. p.rss % Word = p.rss /\ p.rss \in Int
    BY <1>1, SmallMod
  <2>2. Is(pieces[4], "integer") /\ pieces[4].n = p.rss
    BY <1>9, <2>1, NumberOnWire
  <2> QED
    BY <1>1, <2>1, <2>2 DEF ParseUint64
<1>15. ParseProcess(pieces) =
         IF name = << Text(0) >> THEN {}
         ELSE {[pid |-> p.pid, cpu |-> Rounded(p.cpu), memory |-> Rounded(p.memory),
                rss |-> p.rss, name |-> name]}
  <2>1. CASE name = << Text(0) >>
    BY <1>11, <2>1 DEF ParseProcess
  <2>2. CASE name # << Text(0) >>
    <3>1. ParseProcess(pieces) =
            {[pid |-> id, cpu |-> cpu, memory |-> memory, rss |-> rss, name |-> name] :
               id \in {n \in ParseInt(pieces[1]) : n >= 0},
               cpu \in ParseDouble(pieces[2]), memory \in ParseDouble(pieces[3]),
               rss \in ParseUint64(pieces[4])}
      BY <1>11, <2>2 DEF ParseProcess
    <3> QED
      BY <1>12, <1>13, <1>14, <2>2, <3>1
  <2> QED
    BY <2>1, <2>2
<1>16. ProcessRead(p) =
         [pid |-> p.pid, cpu |-> Rounded(p.cpu), memory |-> Rounded(p.memory), rss |-> p.rss,
          name |-> name]
  <2> DEFINE q == [p EXCEPT !.cpu = Rounded(p.cpu), !.memory = Rounded(p.memory), !.name = name]
  <2>1. q \in [pid : {p.pid}, cpu : {Rounded(p.cpu)}, memory : {Rounded(p.memory)},
               rss : {p.rss}, name : {name}]
    BY DEF ProcessesSent
  <2>2. ProcessRead(p) = q
    BY DEF ProcessesSent, ProcessRead, name
  <2> HIDE DEF q
  <2> QED
    BY <2>1, <2>2
<1> QED
  BY <1>n, <1>7, <1>8, <1>15, <1>16 DEF pieces

Sendable(metrics, n) ==
  /\ n \in Nat /\ Len(metrics.processes) = n /\ DOMAIN metrics.processes = 1 .. n
  /\ \A j \in 1 .. n : metrics.processes[j] \in ProcessesSent
  /\ \A key \in RequiredFields : Value(metrics, key) \in Writable(key)

LEMMA PayloadLines ==
  ASSUME NEW metrics, NEW n, Sendable(metrics, n)
  PROVE  LET payload == Serialize(metrics) IN
         /\ payload \in Seq(Lines) /\ payload # <<>> /\ payload[1] = VersionLine
         /\ \A i \in 2 .. Len(payload) : payload[i].key \in RequiredFields \cup {"process"}
         /\ \A key \in RequiredFields : \E i \in LinesOf(payload, key) :
              LinesOf(payload, key) = {i} /\ payload[i].value = FieldToken(key, Value(metrics, key))
         /\ LinesOf(payload, "process") = 2 + FieldCount .. 1 + FieldCount + n
         /\ \A j \in 1 .. n :
              payload[1 + FieldCount + j].value = ProcessPieces(metrics.processes[j])
<1> DEFINE payload == Serialize(metrics)
           S == {VersionLine} \cup {FieldLine(metrics, key) : key \in RequiredFields}
                  \cup {ProcessLine(metrics, j) : j \in 1 .. n}
<1>1. n \in Nat /\ FieldCount \in Nat
  BY FieldOrderFacts DEF Sendable
<1>2. /\ payload \in Seq(S) /\ Len(payload) = 1 + FieldCount + n /\ payload[1] = VersionLine
      /\ \A i \in 1 .. FieldCount : payload[1 + i] = FieldLine(metrics, FieldOrder[i])
      /\ \A j \in 1 .. n : payload[1 + FieldCount + j] = ProcessLine(metrics, j)
  <2>1. DOMAIN metrics.processes = 1 .. n
    BY DEF Sendable
  <2> QED
    BY <1>1, <2>1, PayloadShape
<1>3. S \subseteq Lines
  <2>1. VersionLine \in Lines
    <3>1. VersionLine.key \in Keys \ {BlankLine.key, "process"}
      BY KeysAssumption DEF VersionLine, Pair, BlankLine
    <3>2. Text(0) \in Tokens
      BY DEF Text, Tokens
    <3> QED
      BY <3>1, <3>2 DEF VersionLine, Lines, Pair
  <2>2. ASSUME NEW key \in RequiredFields PROVE FieldLine(metrics, key) \in Lines
    <3>1. FieldToken(key, Value(metrics, key)) \in Tokens
      BY FieldOnWire DEF Sendable
    <3>2. key \in Keys
      BY KeysAssumption
    <3>3. key # BlankLine.key /\ key # "process"
      BY DEF RequiredFields, TextFields, CountFields, DoubleFields, BlankLine, Pair
    <3> QED
      BY <3>1, <3>2, <3>3 DEF FieldLine, Pair, Lines
  <2>3. ASSUME NEW j \in 1 .. n PROVE ProcessLine(metrics, j) \in Lines
    <3>1. ProcessPieces(metrics.processes[j]) \in Seq(Tokens)
      BY ProcessOnWire DEF Sendable
    <3> QED
      BY <3>1 DEF ProcessLine, Pair, Lines
  <2> QED
    BY <2>1, <2>2, <2>3
<1> HIDE DEF payload, S
<1>4. payload \in Seq(Lines) /\ payload # <<>>
  BY <1>1, <1>2, <1>3
<1>5. /\ \A i \in 1 .. FieldCount :
           /\ payload[1 + i].key = FieldOrder[i]
           /\ payload[1 + i].value = FieldToken(FieldOrder[i], Value(metrics, FieldOrder[i]))
      /\ \A j \in 1 .. n : /\ payload[1 + FieldCount + j].key = "process"
                           /\ payload[1 + FieldCount + j].value = ProcessPieces(metrics.processes[j])
  <2>1. ASSUME NEW i \in 1 .. FieldCount
        PROVE  /\ payload[1 + i].key = FieldOrder[i]
               /\ payload[1 + i].value = FieldToken(FieldOrder[i], Value(metrics, FieldOrder[i]))
    <3>1. payload[1 + i] = FieldLine(metrics, FieldOrder[i])
      BY <1>2
    <3> QED
      BY <3>1 DEF FieldLine, Pair
  <2>2. ASSUME NEW j \in 1 .. n
        PROVE  /\ payload[1 + FieldCount + j].key = "process"
               /\ payload[1 + FieldCount + j].value = ProcessPieces(metrics.processes[j])
    <3>1. payload[1 + FieldCount + j] = ProcessLine(metrics, j)
      BY <1>2
    <3> QED
      BY <3>1 DEF ProcessLine, Pair
  <2> QED
    BY <2>1, <2>2
<1>6. ASSUME NEW i \in 2 .. Len(payload)
      PROVE  \/ \E k \in 1 .. FieldCount : i = 1 + k
             \/ \E j \in 1 .. n : i = 1 + FieldCount + j
  <2>1. CASE i <= 1 + FieldCount
    <3>1. i - 1 \in 1 .. FieldCount /\ i = 1 + (i - 1)
      BY <1>1, <1>2, <2>1
    <3> QED
      BY <3>1
  <2>2. CASE i > 1 + FieldCount
    <3>1. i - 1 - FieldCount \in 1 .. n /\ i = 1 + FieldCount + (i - 1 - FieldCount)
      BY <1>1, <1>2, <2>2
    <3> QED
      BY <3>1
  <2>3. i \in Int /\ 1 + FieldCount \in Int
    BY <1>1, <1>2
  <2> QED
    BY <2>1, <2>2, <2>3
<1>7. "process" \notin RequiredFields
  BY DEF RequiredFields, TextFields, CountFields, DoubleFields
<1>8. ASSUME NEW i \in 2 .. Len(payload)
      PROVE  payload[i].key \in RequiredFields \cup {"process"}
  <2>1. \A k \in 1 .. FieldCount : payload[1 + k].key \in RequiredFields
    BY <1>5, FieldOrderFacts
  <2>2. \A j \in 1 .. n : payload[1 + FieldCount + j].key = "process"
    BY <1>5
  <2> QED
    BY <1>6, <2>1, <2>2
<1>9. ASSUME NEW key \in RequiredFields
      PROVE  \E i \in LinesOf(payload, key) :
               LinesOf(payload, key) = {i} /\ payload[i].value = FieldToken(key, Value(metrics, key))
  <2>1. PICK k \in 1 .. FieldCount : FieldOrder[k] = key
    BY FieldOrderFacts
  <2>2. 1 + k \in 2 .. Len(payload)
    BY <1>1, <1>2
  <2>3. ASSUME NEW i \in 2 .. Len(payload), payload[i].key = key PROVE i = 1 + k
    <3>1. CASE \E m \in 1 .. FieldCount : i = 1 + m
      <4>1. PICK m \in 1 .. FieldCount : i = 1 + m
        BY <3>1
      <4>2. FieldOrder[m] = FieldOrder[k]
        BY <1>5, <2>1, <2>3, <4>1
      <4> QED
        BY <4>1, <4>2, FieldOrderFacts
    <3>2. CASE \E j \in 1 .. n : i = 1 + FieldCount + j
      BY <1>5, <1>7, <2>3, <3>2
    <3> QED
      BY <1>6, <3>1, <3>2
  <2>4. LinesOf(payload, key) = {1 + k}
    BY <1>5, <2>1, <2>2, <2>3 DEF LinesOf
  <2> QED
    BY <1>5, <2>1, <2>4
<1>10. LinesOf(payload, "process") = 2 + FieldCount .. 1 + FieldCount + n
  <2>1. ASSUME NEW i \in 2 .. Len(payload)
        PROVE  payload[i].key = "process" <=> i \in 2 + FieldCount .. 1 + FieldCount + n
    <3>1. CASE \E m \in 1 .. FieldCount : i = 1 + m
      <4>1. PICK m \in 1 .. FieldCount : i = 1 + m
        BY <3>1
      <4>2. payload[i].key # "process"
        <5>1. payload[i].key = FieldOrder[m] /\ FieldOrder[m] \in RequiredFields
          BY <1>5, <4>1, FieldOrderFacts
        <5> QED
          BY <1>7, <5>1
      <4> QED
        BY <1>1, <4>1, <4>2
    <3>2. CASE \E j \in 1 .. n : i = 1 + FieldCount + j
      <4>1. PICK j \in 1 .. n : i = 1 + FieldCount + j
        BY <3>2
      <4>2. payload[i].key = "process"
        BY <1>5, <4>1
      <4> QED
        BY <1>1, <4>1, <4>2
    <3> QED
      BY <1>6, <3>1, <3>2
  <2>2. \A i \in 2 + FieldCount .. 1 + FieldCount + n : i \in 2 .. Len(payload)
    BY <1>1, <1>2
  <2> QED
    BY <2>1, <2>2 DEF LinesOf
<1> QED
  BY <1>2, <1>4, <1>5, <1>8, <1>9, <1>10 DEF payload

(* What of these lines the CRs are taken off leaves.                       *)
LEMMA WireLines ==
  ASSUME NEW metrics, NEW n, Sendable(metrics, n)
  PROVE  LET lines == Chomped(Serialize(metrics)) IN
         /\ Serialize(metrics) \in Seq(RawLines)
         /\ lines # <<>> /\ lines[1] = VersionLine
         /\ \A i \in 2 .. Len(lines) : lines[i].key \in RequiredFields \cup {"process"}
         /\ \A key \in RequiredFields : \E i \in LinesOf(lines, key) :
              LinesOf(lines, key) = {i} /\ lines[i].value = WithoutCr(FieldToken(key, Value(metrics, key)))
         /\ LinesOf(lines, "process") = 2 + FieldCount .. 1 + FieldCount + n
         /\ \A j \in 1 .. n :
              lines[1 + FieldCount + j].value = ChompLast(ProcessPieces(metrics.processes[j]))
<1> DEFINE payload == Serialize(metrics)
           lines == Chomped(payload)
<1>1. /\ payload \in Seq(Lines) /\ payload # <<>> /\ payload[1] = VersionLine
      /\ \A i \in 2 .. Len(payload) : payload[i].key \in RequiredFields \cup {"process"}
      /\ \A key \in RequiredFields : \E i \in LinesOf(payload, key) :
           LinesOf(payload, key) = {i} /\ payload[i].value = FieldToken(key, Value(metrics, key))
      /\ LinesOf(payload, "process") = 2 + FieldCount .. 1 + FieldCount + n
      /\ \A j \in 1 .. n :
           payload[1 + FieldCount + j].value = ProcessPieces(metrics.processes[j])
  BY PayloadLines
<1> HIDE DEF payload
<1>2. payload \in Seq(RawLines)
  <2>1. Lines \subseteq RawLines
    BY DEF RawLines
  <2> QED
    BY <1>1, <2>1
<1>3. /\ lines \in Seq(Lines) /\ Len(lines) = Len(payload)
      /\ \A i \in 1 .. Len(payload) : lines[i] = Chomp(payload[i])
  BY <1>2, ChompedPayload
<1> HIDE DEF lines
<1>4. ASSUME NEW i \in 1 .. Len(payload)
      PROVE  /\ lines[i].key = payload[i].key
             /\ lines[i].value = IF payload[i].key = "process" THEN ChompLast(payload[i].value)
                                 ELSE WithoutCr(payload[i].value)
  <2>1. payload[i] \in RawLines
    BY <1>2
  <2> QED
    BY <1>3, <2>1, ChompedLine
<1>5. Len(payload) \in Nat /\ Len(payload) >= 1
  BY <1>1
<1>6. lines # <<>>
  BY <1>3, <1>5
<1>7. lines[1] = VersionLine
  <2>1. lines[1] = Chomp(VersionLine)
    BY <1>1, <1>3, <1>5
  <2>2. VersionLine.key # "process" /\ VersionLine.value = Text(0)
    BY DEF VersionLine, Pair
  <2>3. Chomp(VersionLine) = [VersionLine EXCEPT !.value = WithoutCr(Text(0))]
    BY <2>2 DEF Chomp, VersionLine, Pair
  <2>4. [VersionLine EXCEPT !.value = Text(0)] = VersionLine
    BY DEF VersionLine, Pair
  <2> QED
    BY <2>1, <2>3, <2>4, EmptyText
<1>8. \A key : LinesOf(lines, key) = LinesOf(payload, key)
  <2>1. \A i \in 2 .. Len(payload) : i \in 1 .. Len(payload)
    BY <1>5
  <2> QED
    BY <1>3, <1>4, <2>1 DEF LinesOf
<1>9. \A i \in 2 .. Len(lines) : lines[i].key \in RequiredFields \cup {"process"}
  <2>1. \A i \in 2 .. Len(payload) : i \in 1 .. Len(payload)
    BY <1>5
  <2> QED
    BY <1>1, <1>3, <1>4, <2>1
<1>10. ASSUME NEW key \in RequiredFields
       PROVE  \E i \in LinesOf(lines, key) :
                LinesOf(lines, key) = {i} /\ lines[i].value = WithoutCr(FieldToken(key, Value(metrics, key)))
  <2>1. PICK i \in LinesOf(payload, key) :
          LinesOf(payload, key) = {i} /\ payload[i].value = FieldToken(key, Value(metrics, key))
    BY <1>1
  <2>2. i \in 1 .. Len(payload) /\ payload[i].key = key
    BY <1>5 DEF LinesOf
  <2>3. key # "process"
    BY DEF RequiredFields, TextFields, CountFields, DoubleFields
  <2> QED
    BY <1>4, <1>8, <2>1, <2>2, <2>3
<1>11. ASSUME NEW j \in 1 .. n
       PROVE  lines[1 + FieldCount + j].value = ChompLast(ProcessPieces(metrics.processes[j]))
  <2>1. n \in Nat /\ FieldCount \in Nat
    BY FieldOrderFacts DEF Sendable
  <2>2. 1 + FieldCount + j \in LinesOf(payload, "process")
    BY <1>1, <2>1
  <2>3. 1 + FieldCount + j \in 1 .. Len(payload) /\ payload[1 + FieldCount + j].key = "process"
    BY <1>5, <2>2 DEF LinesOf
  <2> QED
    BY <1>1, <1>4, <2>3
<1> QED
  BY <1>1, <1>2, <1>6, <1>7, <1>8, <1>9, <1>10, <1>11 DEF payload, lines

LEMMA RanksOfProcesses ==
  ASSUME NEW n \in Nat, NEW c \in Nat
  PROVE  /\ Cardinality(2 + c .. 1 + c + n) = n
         /\ \A j \in 1 .. n :
              Cardinality({k \in 2 + c .. 1 + c + n : k <= 1 + c + j}) = j
<1>1. Cardinality(2 + c .. 1 + c + n) = n
  <2>1. 2 + c \in Int /\ 1 + c + n \in Int
    OBVIOUS
  <2>2. Cardinality(2 + c .. 1 + c + n) =
          IF 2 + c > 1 + c + n THEN 0 ELSE (1 + c + n) - (2 + c) + 1
    BY <2>1, FS_Interval
  <2> QED
    BY <2>2
<1>2. ASSUME NEW j \in 1 .. n
      PROVE  Cardinality({k \in 2 + c .. 1 + c + n : k <= 1 + c + j}) = j
  <2> DEFINE A == {k \in 2 + c .. 1 + c + n : k <= 1 + c + j}
             B == 2 + c .. 1 + c + j
  <2>1. A = B
    OBVIOUS
  <2>2. 2 + c \in Int /\ 1 + c + j \in Int
    OBVIOUS
  <2>3. Cardinality(B) = IF 2 + c > 1 + c + j THEN 0 ELSE (1 + c + j) - (2 + c) + 1
    BY <2>2, FS_Interval
  <2>4. Cardinality(B) = j
    BY <2>3
  <2> HIDE DEF A, B
  <2>5. Cardinality(A) = j
    BY <2>1, <2>4
  <2> QED
    BY <2>5 DEF A
<1> QED
  BY <1>1, <1>2

(* What was serialized is well formed unless there is a value or a name    *)
(* the deserializer refuses.                                               *)
LEMMA SentIsWellFormed ==
  ASSUME NEW metrics, NEW n, Sendable(metrics, n)
  PROVE  WellFormed(Chomped(Serialize(metrics))) <=>
           /\ \A key \in RequiredFields : Fits(key, Value(metrics, key))
           /\ \A j \in 1 .. n : metrics.processes[j].name # << LoneCr >>
<1> DEFINE payload == Chomped(Serialize(metrics))
<1>1. /\ payload # <<>> /\ payload[1] = VersionLine
      /\ \A i \in 2 .. Len(payload) : payload[i].key \in RequiredFields \cup {"process"}
      /\ \A key \in RequiredFields : \E i \in LinesOf(payload, key) :
           LinesOf(payload, key) = {i} /\ payload[i].value = WithoutCr(FieldToken(key, Value(metrics, key)))
      /\ LinesOf(payload, "process") = 2 + FieldCount .. 1 + FieldCount + n
      /\ \A j \in 1 .. n :
           payload[1 + FieldCount + j].value = ChompLast(ProcessPieces(metrics.processes[j]))
  BY WireLines
<1> HIDE DEF payload
<1>2. n \in Nat /\ FieldCount \in Nat
  BY FieldOrderFacts DEF Sendable
<1>3. \A key \in RequiredFields :
        ParseField(key, WithoutCr(FieldToken(key, Value(metrics, key)))) =
          IF Fits(key, Value(metrics, key)) THEN {OnWire(key, Value(metrics, key))} ELSE {}
  BY FieldOnWire DEF Sendable
<1>4. (\A i \in LinesOf(payload, "process") : ParseProcess(payload[i].value) # {}) <=>
        \A j \in 1 .. n : metrics.processes[j].name # << LoneCr >>
  <2>1. ASSUME NEW j \in 1 .. n
        PROVE  /\ 1 + FieldCount + j \in LinesOf(payload, "process")
               /\ ParseProcess(payload[1 + FieldCount + j].value) = {} <=>
                    metrics.processes[j].name = << LoneCr >>
    <3>1. 1 + FieldCount + j \in LinesOf(payload, "process")
      BY <1>1, <1>2
    <3>2. metrics.processes[j] \in ProcessesSent
      BY DEF Sendable
    <3>3. payload[1 + FieldCount + j].value = ChompLast(ProcessPieces(metrics.processes[j]))
      BY <1>1
    <3> QED
      BY <3>1, <3>2, <3>3, ProcessOnWire
  <2>2. ASSUME NEW i \in LinesOf(payload, "process")
        PROVE  \E j \in 1 .. n : i = 1 + FieldCount + j
    <3>1. i \in 2 + FieldCount .. 1 + FieldCount + n
      BY <1>1
    <3>2. i - 1 - FieldCount \in 1 .. n /\ i = 1 + FieldCount + (i - 1 - FieldCount)
      BY <1>2, <3>1
    <3> QED
      BY <3>2
  <2> QED
    BY <2>1, <2>2
<1>5. "process_count" \in RequiredFields /\ "process_count" \in CountFields
      /\ "process_count" \notin TextFields /\ "process_count" \notin DoubleFields
      /\ "process_count" # "logical_cpus" /\ "process_count" # "sample_interval_seconds"
  BY DEF RequiredFields, CountFields, TextFields, DoubleFields
<1>6. ASSUME NEW i \in LinesOf(payload, "process_count")
      PROVE  ParseUint64(payload[i].value) = {Cardinality(LinesOf(payload, "process"))}
  <2>1. payload[i].value = WithoutCr(FieldToken("process_count", Value(metrics, "process_count")))
    BY <1>1, <1>5
  <2>2. Value(metrics, "process_count") = n
    BY DEF Value, Sendable
  <2>3. ParseField("process_count", payload[i].value) = {n}
    <3>1. Fits("process_count", n) /\ OnWire("process_count", n) = n
      BY <1>5 DEF Fits, OnWire
    <3> QED
      BY <1>3, <1>5, <2>1, <2>2, <3>1
  <2>4. ParseField("process_count", payload[i].value) = ParseUint64(payload[i].value)
    BY <1>5 DEF ParseField
  <2>5. Cardinality(LinesOf(payload, "process")) = n
    BY <1>1, <1>2, RanksOfProcesses
  <2> QED
    BY <2>3, <2>4, <2>5
<1>7. ASSUME NEW key \in RequiredFields
      PROVE  (\E i \in LinesOf(payload, key) :
                LinesOf(payload, key) = {i} /\ ParseField(key, payload[i].value) # {})
             <=> Fits(key, Value(metrics, key))
  <2>1. PICK i \in LinesOf(payload, key) :
          LinesOf(payload, key) = {i} /\ payload[i].value = WithoutCr(FieldToken(key, Value(metrics, key)))
    BY <1>1
  <2>2. ParseField(key, payload[i].value) =
          IF Fits(key, Value(metrics, key)) THEN {OnWire(key, Value(metrics, key))} ELSE {}
    BY <1>3, <2>1
  <2> QED
    BY <2>1, <2>2
<1> QED
  BY <1>1, <1>4, <1>6, <1>7 DEF WellFormed, payload

(* What the server reads of it are the same numbers, rounded, and the same *)
(* texts without a CR at their end.                                        *)
LEMMA SentIsRounded ==
  ASSUME NEW metrics, NEW n, Sendable(metrics, n), WellFormed(Chomped(Serialize(metrics))),
         NEW W, NEW r \in Reads(W), Says(Chomped(Serialize(metrics)), r)
  PROVE  RoundedTo(metrics, r)
<1> DEFINE payload == Chomped(Serialize(metrics))
<1>1. /\ payload # <<>> /\ payload[1] = VersionLine
      /\ \A key \in RequiredFields : \E i \in LinesOf(payload, key) :
           LinesOf(payload, key) = {i} /\ payload[i].value = WithoutCr(FieldToken(key, Value(metrics, key)))
      /\ LinesOf(payload, "process") = 2 + FieldCount .. 1 + FieldCount + n
      /\ \A j \in 1 .. n :
           payload[1 + FieldCount + j].value = ChompLast(ProcessPieces(metrics.processes[j]))
  BY WireLines
<1>2. /\ \A key \in RequiredFields : Fits(key, Value(metrics, key))
      /\ \A j \in 1 .. n : metrics.processes[j].name # << LoneCr >>
  BY SentIsWellFormed
<1>3. /\ \A key \in RequiredFields : \A i \in LinesOf(payload, key) :
           ParseField(key, payload[i].value) = r.fields[key]
      /\ Len(r.processes) = Cardinality(LinesOf(payload, "process"))
      /\ \A i \in LinesOf(payload, "process") :
           ParseProcess(payload[i].value) =
             {r.processes[Cardinality({j \in LinesOf(payload, "process") : j <= i})]}
  BY DEF Says
<1> HIDE DEF payload
<1>4. n \in Nat /\ FieldCount \in Nat
  BY FieldOrderFacts DEF Sendable
<1>5. \A key \in RequiredFields : r.fields[key] = {OnWire(key, Value(metrics, key))}
  <2>1. ASSUME NEW key \in RequiredFields PROVE r.fields[key] = {OnWire(key, Value(metrics, key))}
    <3>1. PICK i \in LinesOf(payload, key) :
            payload[i].value = WithoutCr(FieldToken(key, Value(metrics, key)))
      BY <1>1
    <3>2. r.fields[key] = ParseField(key, WithoutCr(FieldToken(key, Value(metrics, key))))
      BY <1>3, <3>1
    <3>3. ParseField(key, WithoutCr(FieldToken(key, Value(metrics, key)))) =
            IF Fits(key, Value(metrics, key)) THEN {OnWire(key, Value(metrics, key))} ELSE {}
      BY FieldOnWire DEF Sendable
    <3> QED
      BY <1>2, <3>2, <3>3
  <2> QED
    BY <2>1
<1>6. r.processes \in Seq(W)
  BY DEF Reads
<1>7. Len(r.processes) = n
  BY <1>1, <1>3, <1>4, RanksOfProcesses
<1>8. DOMAIN r.processes = 1 .. n
  BY <1>6, <1>7
<1>9. ASSUME NEW j \in 1 .. n
      PROVE  r.processes[j] = ProcessRead(metrics.processes[j])
  <2> DEFINE i == 1 + FieldCount + j
             q == ProcessRead(metrics.processes[j])
  <2>1. i \in LinesOf(payload, "process")
    BY <1>1, <1>4
  <2>2. Cardinality({k \in LinesOf(payload, "process") : k <= i}) = j
    BY <1>1, <1>4, RanksOfProcesses
  <2>3. ParseProcess(payload[i].value) = {r.processes[j]}
    BY <1>3, <2>1, <2>2
  <2>4. payload[i].value = ChompLast(ProcessPieces(metrics.processes[j]))
    BY <1>1
  <2>5. ParseProcess(ChompLast(ProcessPieces(metrics.processes[j]))) = {q}
    BY <1>2, ProcessOnWire DEF Sendable
  <2> HIDE DEF i, q
  <2>6. {r.processes[j]} = {q}
    BY <2>3, <2>4, <2>5
  <2> QED
    BY <2>6 DEF q
<1>10. \A key \in RequiredFields \ {"process_count"} :
         r.fields[key] = {CASE key \in DoubleFields -> Rounded(metrics.fields[key])
                            [] key \in TextFields -> WithoutCr(metrics.fields[key])
                            [] OTHER -> metrics.fields[key]}
  <2>1. \A key \in TextFields : key \notin DoubleFields
    BY DEF TextFields, DoubleFields
  <2> QED
    BY <1>5, <2>1 DEF OnWire, Value
<1>11. r.fields["process_count"] = {Len(metrics.processes)}
  <2>1. "process_count" \in RequiredFields /\ "process_count" \notin DoubleFields
        /\ "process_count" \notin TextFields
    BY DEF RequiredFields, TextFields, CountFields, DoubleFields
  <2> QED
    BY <1>5, <2>1 DEF OnWire, Value
<1>12. Len(r.processes) = Len(metrics.processes)
  BY <1>7 DEF Sendable
<1> QED
  BY <1>8, <1>9, <1>10, <1>11, <1>12 DEF RoundedTo, ProcessRead

-----------------------------------------------------------------------------
(* What the agent sends can be written: its numbers are in the ranges of   *)
(* their types.                                                            *)
LEMMA PercentType ==
  ASSUME NEW x \in Int, NEW m \in Nat, m > 0
  PROVE  Percent(x, m) \in Int
<1>1. Hundred \in Nat
  BY SMT DEF Hundred
<1> DEFINE y == Hundred * x
<1>2. y \in Int
  BY <1>1
<1> HIDE DEF y
<1>3. y \div m \in Int
  BY <1>2
<1> QED
  BY <1>3 DEF Percent, y

LEMMA UsageType ==
  ASSUME IInv, pc = "sent"
  PROVE  /\ Difference(Total(previous), Total(current)) \in 0 .. Word - 1
         /\ Usage(previous, current) \in Int
<1> DEFINE total == Difference(Total(previous), Total(current))
           part == (total - Difference(previous.idle, current.idle)) % Word
<1>1. Word \in Nat /\ Word > 0
  BY Constants
<1>2. \A x \in Int : x % Word \in 0 .. Word - 1
  BY <1>1
<1>3. Total(previous) \in Int /\ Total(current) \in Int
  BY SnapshotOrder, TotalDifference
<1>4. total \in 0 .. Word - 1
  BY <1>2, <1>3 DEF Difference
<1>5. Difference(previous.idle, current.idle) \in Int
  BY <1>2, SnapshotOrder DEF Difference
<1>6. Usage(previous, current) = IF total = 0 THEN 0 ELSE Percent(part, total)
  BY DEF Usage
<1> HIDE DEF total
<1>7. part \in Int
  BY <1>1, <1>2, <1>4, <1>5
<1> HIDE DEF part
<1>8. total # 0 => Percent(part, total) \in Int
  BY <1>1, <1>4, <1>7, PercentType
<1> QED
  BY <1>4, <1>6, <1>8 DEF total

LEMMA MetricIsSendable ==
  ASSUME IInv, pc = "sent", NEW memoryKB \in Nat, memoryKB > 0,
         NEW m, IsMetric(m, previous, current, memoryKB)
  PROVE  m \in ProcessesSent
<1> DEFINE total == Difference(Total(previous), Total(current))
<1>1. PICK p \in Pids :
        total # 0 /\ m = Metric(p, previous.procs[p], current.procs[p], total, memoryKB)
  BY DEF IsMetric
<1>2. total \in Nat /\ total > 0
  BY <1>1, UsageType, Constants
<1> HIDE DEF total
<1> DEFINE a == previous.procs[p]
           b == current.procs[p]
<1>3. a \in Entries /\ b \in Entries
  BY DEF IInv, SnapshotTypes, Snapshots
<1> HIDE DEF a, b
<1>4. /\ a.cpu \in Nat /\ b.cpu \in Nat /\ b.rss \in 0 .. Word - 1 /\ b.rss \in Int
      /\ b.name \in 0 .. Horizon
  <2>1. Horizon \in Nat /\ Word \in Nat /\ Word > Horizon + 1
    BY Constants
  <2>2. /\ a.cpu \in 0 .. Horizon /\ b.cpu \in 0 .. Horizon
        /\ b.rss \in 0 .. Horizon + 1 /\ b.name \in 0 .. Horizon
    BY <1>3 DEF Entries
  <2> QED
    BY <2>1, <2>2
<1>5. p \in 1 .. IntMax
  BY Constants
<1>6. b.cpu - a.cpu \in Int
  BY <1>4
<1>7. Percent(b.cpu - a.cpu, total) \in Int /\ Percent(b.rss, memoryKB) \in Int
  BY <1>2, <1>4, <1>6, PercentType
<1>8. m = [pid |-> p, cpu |-> Percent(b.cpu - a.cpu, total),
           memory |-> Percent(b.rss, memoryKB), rss |-> b.rss, name |-> Name[b.name]]
  BY <1>1 DEF Metric, a, b
<1>9. Name[b.name] \in Names
  BY <1>4, Constants
<1> QED
  BY <1>4, <1>5, <1>7, <1>8, <1>9 DEF ProcessesSent

LEMMA TextOne == Text(1) \in Texts /\ Text(1) \notin {Text(0), LoneCr}
<1>1. (IF 1 = 0 THEN "empty" ELSE "text") = "text"
  OBVIOUS
<1>2. Text(1) = Plain("text", 1)
  BY <1>1, Zenon DEF Text, Plain
<1>3. Plain("text", 1) \in Tokens
  BY DEF Plain, Tokens
<1>4. Text(1).form = Text(Text(1).n).form /\ Text(1).form = "text"
  BY <1>2, TokenFields
<1>5. Text(0).form = "empty" /\ LoneCr.form = "empty"
  BY EmptyText, TokenFields
<1> QED
  BY <1>2, <1>3, <1>4, <1>5 DEF Texts

LEMMA MetricsAreSendable ==
  ASSUME IInv, pc = "sent", NEW i \in Instants,
         NEW list \in ProcessUsage(previous, current, i.memoryTotal)
  PROVE  LET metrics == Metrics(previous, current, i, Top(list)) IN
         /\ Sendable(metrics, Len(Top(list)))
         /\ (\A key \in RequiredFields : Fits(key, Value(metrics, key))) <=>
              i.hostname \notin {Text(0), LoneCr} /\ Rounded(IntervalMs(previous, current)) > 0
<1> DEFINE metrics == Metrics(previous, current, i, Top(list))
           n == Len(Top(list))
           f == metrics.fields
           used == i.memoryTotal - i.memoryAvailable
           usedBlocks == i.blocks - i.blocksFree
           usable == usedBlocks + i.blocksAvailable
           ms == IntervalMs(previous, current)
           rate == (1000000 * Increase(previous.rx, current.rx)) \div ms
           usage == Usage(previous, current)
           memory == Percent(used, i.memoryTotal)
           disk == IF usable = 0 THEN 0 ELSE Percent(usedBlocks, usable)
           uptime == current.at
<1>1. metrics.processes = Top(list)
  BY SMT DEF Metrics
<1>2. /\ f.hostname = i.hostname /\ f.disk_mount = Text(1) /\ f.network_interface = Text(1)
      /\ f.uptime_seconds = uptime /\ f.logical_cpus = 1
      /\ f.memory_total_kb = i.memoryTotal /\ f.memory_used_kb = used
      /\ f.memory_available_kb = i.memoryAvailable
      /\ f.disk_total_bytes = i.blocks /\ f.disk_used_bytes = usedBlocks
      /\ f.disk_available_bytes = i.blocksAvailable
      /\ f.cpu_usage_percent = usage /\ f.memory_usage_percent = memory
      /\ f.load_1 = i.load /\ f.load_5 = i.load /\ f.load_15 = i.load
      /\ f.disk_usage_percent = disk
      /\ f.network_rx_bytes_per_second = rate /\ f.network_tx_bytes_per_second = 0
      /\ f.sample_interval_seconds = ms
  BY SMT DEF Metrics
<1>3. /\ i.hostname \in Texts /\ i.load \in Nat
      /\ i.memoryTotal \in 1 .. Word - 1 /\ i.memoryAvailable \in 1 .. Word - 1
      /\ i.memoryAvailable <= i.memoryTotal
      /\ i.blocks \in 0 .. Word - 1 /\ i.blocksFree \in 0 .. Word - 1
      /\ i.blocksAvailable \in 0 .. Word - 1 /\ i.blocksFree <= i.blocks
  <2>1. i \in Readings
    BY Constants
  <2> QED
    BY <2>1 DEF Readings
<1>4. Word \in Nat /\ Word > 1 /\ Horizon \in Nat /\ Word > Horizon + 1
  BY Constants
<1>5. n \in 0 .. Word - 1 /\ n \in Nat /\ DOMAIN Top(list) = 1 .. n
      /\ \A j \in 1 .. n : IsMetric(Top(list)[j], previous, current, i.memoryTotal)
  <2>1. Cardinality(Pids) \in Nat /\ Cardinality(Pids) < Word
    BY Constants
  <2>2. /\ n \in 0 .. Cardinality(Pids) /\ DOMAIN Top(list) = 1 .. n
        /\ \A j \in DOMAIN Top(list) : IsMetric(Top(list)[j], previous, current, i.memoryTotal)
    BY TopProcesses
  <2> QED
    BY <1>4, <2>1, <2>2
<1>6. ms \in Nat /\ ms > 0 /\ current.at \in 0 .. Horizon
  BY SnapshotOrder
<1>7. usage \in Int
  BY UsageType
<1> HIDE DEF usage
<1>8. rate \in Int
  <2> DEFINE inc == Increase(previous.rx, current.rx)
             big == 1000000 * inc
  <2>1. inc \in Int
    BY SnapshotOrder DEF Increase
  <2> HIDE DEF inc
  <2>2. big \in Int
    BY <2>1, SMT
  <2> HIDE DEF big, ms
  <2>3. big \div ms \in Int
    BY <1>6, <2>2
  <2> QED
    BY <2>3 DEF big, inc
<1> HIDE DEF ms, rate
<1>9. /\ used \in 0 .. Word - 1 /\ usedBlocks \in 0 .. Word - 1 /\ usable \in Nat
      /\ used \in Int /\ usedBlocks \in Int /\ i.memoryTotal \in Nat /\ i.memoryTotal > 0
  BY <1>3, <1>4
<1> HIDE DEF used, usedBlocks, usable
<1>10. memory \in Int
  BY <1>9, PercentType
<1> HIDE DEF memory
<1>11. disk \in Int
  <2>1. usable # 0 => Percent(usedBlocks, usable) \in Int
    BY <1>9, PercentType
  <2> QED
    BY <2>1
<1> HIDE DEF disk
<1>12. uptime \in 0 .. Word - 1
  BY <1>4, <1>6
<1> HIDE DEF f, metrics, n, uptime
<1>t. Text(1) \in Texts /\ Text(1) \notin {Text(0), LoneCr}
  BY TextOne
<1>13. ASSUME NEW key \in TextFields PROVE f[key] \in Texts
  BY <1>2, <1>3, <1>t DEF TextFields
<1>14. ASSUME NEW key \in CountFields \ {"process_count"} PROVE f[key] \in 0 .. Word - 1
  BY <1>2, <1>3, <1>4, <1>9, <1>12 DEF CountFields
<1>15. ASSUME NEW key \in DoubleFields PROVE f[key] \in Int
  BY <1>2, <1>3, <1>6, <1>7, <1>8, <1>10, <1>11 DEF DoubleFields
<1>16. /\ Value(metrics, "process_count") = n
       /\ \A key : key # "process_count" => Value(metrics, key) = f[key]
  BY <1>1 DEF Value, n, f
<1>17. /\ \A key \in TextFields : key \notin CountFields /\ key \notin DoubleFields
       /\ \A key \in CountFields : key \notin TextFields /\ key \notin DoubleFields
       /\ \A key \in DoubleFields : key # "process_count"
       /\ \A key \in TextFields : key # "process_count"
       /\ \A key \in DoubleFields : key \notin TextFields /\ key \notin CountFields
       /\ "process_count" \in CountFields
  BY DEF TextFields, CountFields, DoubleFields
<1>18. ASSUME NEW key \in RequiredFields PROVE Value(metrics, key) \in Writable(key)
  <2>1. CASE key \in TextFields
    BY <1>13, <1>16, <1>17, <2>1 DEF Writable
  <2>2. CASE key \in CountFields
    BY <1>5, <1>14, <1>16, <1>17, <2>2 DEF Writable
  <2>3. CASE key \in DoubleFields
    BY <1>15, <1>16, <1>17, <2>3 DEF Writable
  <2> QED
    BY <2>1, <2>2, <2>3 DEF RequiredFields
<1>19. \A j \in 1 .. n : metrics.processes[j] \in ProcessesSent
  BY <1>1, <1>5, <1>9, MetricIsSendable DEF n
<1>20. Sendable(metrics, n)
  BY <1>1, <1>5, <1>18, <1>19 DEF Sendable, n
<1>21. (\A key \in RequiredFields : Fits(key, Value(metrics, key))) <=>
         i.hostname \notin {Text(0), LoneCr} /\ Rounded(ms) > 0
  <2>1. /\ Value(metrics, "hostname") = i.hostname
        /\ Value(metrics, "disk_mount") = Text(1) /\ Value(metrics, "network_interface") = Text(1)
        /\ Value(metrics, "logical_cpus") = 1
        /\ Value(metrics, "sample_interval_seconds") = ms
    BY <1>2, <1>16
  <2>2. {"hostname", "sample_interval_seconds"} \subseteq RequiredFields
        /\ "hostname" \in TextFields /\ "hostname" # "sample_interval_seconds"
        /\ "hostname" # "logical_cpus" /\ "logical_cpus" # "sample_interval_seconds"
        /\ "sample_interval_seconds" \notin TextFields
    BY DEF RequiredFields, TextFields, DoubleFields
  <2>3. /\ Fits("hostname", i.hostname) <=> i.hostname \notin {Text(0), LoneCr}
        /\ Fits("sample_interval_seconds", ms) <=> Rounded(ms) > 0
    BY <2>2 DEF Fits
  <2>4. ASSUME i.hostname \notin {Text(0), LoneCr}, Rounded(ms) > 0, NEW key \in RequiredFields
        PROVE  Fits(key, Value(metrics, key))
    BY <1>t, <2>1, <2>4 DEF Fits, TextFields
  <2> QED
    BY <2>1, <2>2, <2>3, <2>4
<1> QED
  BY <1>20, <1>21 DEF metrics, n, ms

(* Only two reads in one tick are less than half a hundredth of a second   *)
(* apart.                                                                  *)
LEMMA ShortInterval ==
  ASSUME IInv, pc = "sent", ~(Rounded(IntervalMs(previous, current)) > 0)
  PROVE  previous.at = current.at
<1> SUFFICES ASSUME previous.at # current.at PROVE FALSE
  OBVIOUS
<1> DEFINE d == current.at - previous.at
<1>1. d \in Nat /\ d >= 1 /\ TickMs \in Nat /\ TickMs >= 5
  <2>1. /\ previous.at \in Nat /\ current.at \in Nat
        /\ previous.at <= current.at
    BY SnapshotOrder, Bounds
  <2>2. d \in Nat /\ d >= 1
    BY <2>1
  <2> QED
    BY <2>2, Constants
<1>2. IntervalMs(previous, current) = d * TickMs
  BY DEF IntervalMs
<1> HIDE DEF d
<1>3. d * TickMs \in Nat /\ d * TickMs >= 5
  <2>1. (d - 1) * TickMs >= 0 /\ (d - 1) * TickMs = d * TickMs - TickMs
    BY <1>1
  <2> QED
    BY <1>1, <2>1
<1> DEFINE ms == d * TickMs
<1> HIDE DEF ms
<1>4. ms \in Nat /\ ms >= 5
  BY <1>3 DEF ms
<1>5. Rounded(IntervalMs(previous, current)) = (ms + 5) \div 10
  BY <1>2 DEF Rounded, ms
<1>6. (ms + 5) \div 10 > 0
  BY <1>4
<1> QED
  BY <1>5, <1>6

(* The server accepts what the agent sends and reads the same numbers,     *)
(* rounded to hundredths, and the same texts but for a CR at their end; it *)
(* refuses only two samples in a row of an agent that is a period late     *)
(* (MonitorAgent.cpp:1017) and a process whose whole name is a CR          *)
(* (MetricsDeserializer.cpp:404, 583).                                     *)
THEOREM SentAccepted == Spec => []SentIsAccepted
<1>1. ASSUME IInv, Provenance PROVE SentIsAccepted
  <2> SUFFICES ASSUME sample.from = "agent",
                      sample.metrics.fields.hostname \notin {Text(0), LoneCr}
               PROVE  IF read.ok THEN RoundedTo(sample.metrics, read)
                      ELSE \/ /\ sample.current.at = sample.previous.at
                              /\ sample.previous.at >= nextSample
                           \/ \E k \in DOMAIN sample.metrics.processes :
                                sample.metrics.processes[k].name = << LoneCr >>
    BY DEF SentIsAccepted
  <2> PICK i \in Instants : \E list \in ProcessUsage(previous, current, i.memoryTotal) : Sent(i, list)
    BY <1>1 DEF Provenance
  <2> PICK list \in ProcessUsage(previous, current, i.memoryTotal) : Sent(i, list)
    OBVIOUS
  <2> DEFINE metrics == Metrics(previous, current, i, Top(list))
             n == Len(Top(list))
             payload == Serialize(metrics)
  <2>1. /\ sample.previous = previous /\ sample.current = current
        /\ sample.metrics = metrics /\ read = Deserialize(payload)
    BY DEF Sent
  <2>2. metrics.fields.hostname = i.hostname
    BY SMT DEF Metrics
  <2>3. pc = "sent"
    BY <1>1 DEF IInv, Due
  <2>4. /\ Sendable(metrics, n)
        /\ (\A key \in RequiredFields : Fits(key, Value(metrics, key))) <=>
             i.hostname \notin {Text(0), LoneCr} /\ Rounded(IntervalMs(previous, current)) > 0
    BY <1>1, <2>3, MetricsAreSendable
  <2> HIDE DEF metrics, n
  <2>5. payload \in Seq(RawLines) /\ DOMAIN metrics.processes = 1 .. n
    BY <2>4, WireLines DEF Sendable
  <2>6. WellFormed(Chomped(payload)) <=>
          /\ Rounded(IntervalMs(previous, current)) > 0
          /\ \A k \in 1 .. n : metrics.processes[k].name # << LoneCr >>
    BY <2>1, <2>2, <2>4, SentIsWellFormed
  <2>7. /\ read.ok <=> WellFormed(Chomped(payload))
        /\ read.ok => Says(Chomped(payload), read)
        /\ read \in Reads(ReadProcesses(Chomped(payload)))
    BY <2>1, <2>5, DeserializeExact
  <2>8. CASE read.ok
    <3>1. RoundedTo(metrics, read)
      BY <2>4, <2>7, <2>8, SentIsRounded
    <3> QED
      BY <2>1, <2>8, <3>1
  <2>9. CASE ~read.ok /\ ~(Rounded(IntervalMs(previous, current)) > 0)
    <3>1. previous.at = current.at
      BY <1>1, <2>3, <2>9, ShortInterval
    <3>2. current.at >= nextSample
      BY <1>1, <2>3 DEF IInv, Due, NetworkWasRead
    <3> QED
      BY <2>1, <2>9, <3>1, <3>2
  <2>10. CASE ~read.ok /\ Rounded(IntervalMs(previous, current)) > 0
    <3>1. \E k \in 1 .. n : metrics.processes[k].name = << LoneCr >>
      BY <2>6, <2>7, <2>10
    <3> QED
      BY <2>1, <2>5, <2>10, <3>1
  <2> QED
    BY <2>8, <2>9, <2>10
<1> QED
  BY <1>1, ProvenanceInvariant, PTL
=============================================================================
