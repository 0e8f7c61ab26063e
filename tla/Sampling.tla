------------------------------ MODULE Sampling ------------------------------
(***************************************************************************)
(* How the agent takes a sample (the collectors, MonitorAgent::run and     *)
(* buildMetrics) and what the server reads of it.  The kernel's counters   *)
(* go on, processes start and end and a process id is used again between   *)
(* any two reads: a snapshot is not taken at one instant.                  *)
(*                                                                         *)
(* There is one CPU: in each tick it runs one process or idles.  Time is   *)
(* in ticks of TickMs; two reads in one tick are less than a tick apart.   *)
(* A process is told by its id and its start time: no id is used twice in  *)
(* one tick.  Its name and memory are told by its start.  A kernel         *)
(* thread or a zombie has no resident memory and is as good as none.       *)
(*                                                                         *)
(* Connecting, sending and the end of the agent by a signal are in         *)
(* AgentLink.                                                              *)
(***************************************************************************)
EXTENDS MetricsFormat

CONSTANTS Pids,          \* process ids, the first ones
          TopCount,      \* processes in a sample
          SamplePeriod,  \* interval_seconds, in ticks
          TickMs,        \* milliseconds in a tick
          Instants,      \* what the collectors without a past may return
          Name,          \* the name of a process, by its start
          OtherPayloads, \* frames another client may send
          Horizon,       \* bound: ticks
          MaxBytes,      \* bound: bytes received by the interface
          MaxDrops       \* bound: times iowait decreases

(* What is available or free is part of the whole, no amount of memory is  *)
(* 0 (MemoryCollector throws), and a hostname, which is one line, may be   *)
(* empty.                                                                  *)
Readings ==
  {i \in [hostname : Texts, memoryTotal : 1 .. Word - 1, memoryAvailable : 1 .. Word - 1,
          load : Nat, blocks : 0 .. Word - 1, blocksFree : 0 .. Word - 1,
          blocksAvailable : 0 .. Word - 1] :
     i.memoryAvailable <= i.memoryTotal /\ i.blocksFree <= i.blocks}

(* Two reads a tick apart do not round to the same hundredth of a second.  *)
ASSUME SamplingAssumption ==
  /\ IsFiniteSet(Pids) /\ Pids = 1 .. Cardinality(Pids)
  /\ Cardinality(Pids) \in 1 .. IntMax
  /\ TopCount \in Nat /\ SamplePeriod \in Nat \ {0}
  /\ TickMs \in Nat /\ TickMs >= 5
  /\ Horizon \in Nat /\ MaxBytes \in Nat /\ MaxDrops \in Nat
  /\ Word > Horizon + 1
  /\ Instants \subseteq Readings
  /\ Name \in [0 .. Horizon -> Names]
  /\ OtherPayloads \subseteq Seq(RawLines)

VARIABLES
  now,        \* ticks passed
  busy, idle, \* CPU counters: idle + iowait, and all the others
  drops,      \* times iowait decreased
  rx,         \* the interface's byte counter
  received,   \* history: bytes really received
  procs,      \* the processes: the last one to use each id
  pc,         \* the agent's next read
  pid,        \* the id it is at in the process snapshot
  started,    \* it has its first snapshots
  nextSample, \* nextSampleTime
  previous,   \* the snapshots of the round before
  current,    \* and of this one
  sample,     \* history: the metrics sent last, with what they came from
  read        \* history: what the server read of the last frame

kernelVars == <<now, busy, idle, drops, rx, received, procs>>
agentVars == <<pc, pid, started, nextSample, previous, current>>
vars == <<kernelVars, agentVars, sample, read>>

NoEntry == [listed |-> FALSE, name |-> 0, start |-> 0, cpu |-> 0, rss |-> 0]
NoSnapshot ==
  [busy |-> 0, idle |-> 0, rx |-> 0, received |-> 0, at |-> 0,
   procs |-> [p \in Pids |-> NoEntry]]
NoSample == [from |-> "nobody"]

Init ==
  /\ now = 0 /\ busy = 0 /\ idle = 0 /\ drops = 0 /\ rx = 0 /\ received = 0
  /\ procs \in [Pids -> [alive : BOOLEAN, start : {0}, cpu : {0}]]
  /\ pc = "off"
  /\ pid = 1
  /\ started = FALSE
  /\ nextSample = 0
  /\ previous = NoSnapshot
  /\ current = NoSnapshot
  /\ sample = NoSample
  /\ read = NothingRead

-----------------------------------------------------------------------------
(* Mutants.  No behaviour of the code: each is the definition it is named  *)
(* after with one plausible slip, and makes one property below fail.       *)

(* The start time is not compared.                                         *)
MutantSameProcessByPid(a, b) == a.listed /\ b.listed /\ b.cpu >= a.cpu

(* Idle time without iowait in the total.                                  *)
MutantTotalWithoutIdle(s) == s.busy

(* The difference of the counters, whatever they did.                      *)
MutantIncreaseWraps(a, b) == (b - a) % Word

(* The iterator not begun anew with the next snapshot.                     *)
MutantNextPid ==
  pid' = pid + 1 /\ pc' = IF pid + 1 \in Pids THEN "name" ELSE "build"

-----------------------------------------------------------------------------
(* Kernel.                                                                 *)
Tick(who) ==
  /\ now < Horizon
  /\ now' = now + 1
  /\ \/ /\ who = 0
        /\ idle' = idle + 1
        /\ UNCHANGED <<busy, procs>>
     \/ /\ who # 0
        /\ procs[who].alive
        /\ busy' = busy + 1
        /\ procs' = [procs EXCEPT ![who].cpu = @ + 1]
        /\ UNCHANGED idle
  /\ UNCHANGED <<drops, rx, received, agentVars, sample, read>>

(* "The value in this field may decrease in certain conditions", proc(5)   *)
(* says of iowait.                                                         *)
IowaitDrops ==
  /\ drops < MaxDrops
  /\ idle > 0
  /\ idle' = idle - 1
  /\ drops' = drops + 1
  /\ UNCHANGED <<now, busy, rx, received, procs, agentVars, sample, read>>

ByteReceived ==
  /\ received < MaxBytes
  /\ rx' = rx + 1
  /\ received' = received + 1
  /\ UNCHANGED <<now, busy, idle, drops, procs, agentVars, sample, read>>

(* The interface was taken down and up again.                              *)
InterfaceReset ==
  /\ rx > 0
  /\ rx' = 0
  /\ UNCHANGED <<now, busy, idle, drops, received, procs, agentVars, sample, read>>

ProcessStarts(p) ==
  /\ ~procs[p].alive
  /\ procs[p].start < now
  /\ procs' = [procs EXCEPT ![p] = [alive |-> TRUE, start |-> now, cpu |-> 0]]
  /\ UNCHANGED <<now, busy, idle, drops, rx, received, agentVars, sample, read>>

ProcessEnds(p) ==
  /\ procs[p].alive
  /\ procs' = [procs EXCEPT ![p].alive = FALSE]
  /\ UNCHANGED <<now, busy, idle, drops, rx, received, agentVars, sample, read>>

-----------------------------------------------------------------------------
(* Collectors: differences of two readings.                                *)

(* A part of a whole, and all of it, in thousandths of a percent.          *)
Hundred == 100000
Percent(part, whole) == (Hundred * part) \div whole

(* calculateUsage: unsigned subtraction.                                   *)
Difference(a, b) == (b - a) % Word
Total(s) == (s.busy + s.idle) % Word

Usage(a, b) ==
  LET total == Difference(Total(a), Total(b))
      busyPart == (total - Difference(a.idle, b.idle)) % Word
  IN IF total = 0 THEN 0 ELSE Percent(busyPart, total)

(* calculateRate: nothing if the counter went back.                        *)
Increase(a, b) == IF b >= a THEN b - a ELSE 0

(* The clock has a much finer resolution than a tick.                      *)
IntervalMs(a, b) == IF a.at = b.at THEN 1 ELSE (b.at - a.at) * TickMs

SameProcess(a, b) ==
  a.listed /\ b.listed /\ b.start = a.start /\ b.cpu >= a.cpu

Metric(p, a, b, total, memoryKB) ==
  [pid |-> p, cpu |-> Percent(b.cpu - a.cpu, total),
   memory |-> Percent(b.rss, memoryKB), rss |-> b.rss, name |-> Name[b.name]]

(* ProcessCollector::calculateUsage; sort leaves equals in any order.      *)
ProcessUsage(a, b, memoryKB) ==
  LET total == Difference(Total(a), Total(b))
      found == IF total = 0 THEN {}
               ELSE {p \in Pids : SameProcess(a.procs[p], b.procs[p])}
      metric(p) == Metric(p, a.procs[p], b.procs[p], total, memoryKB)
  IN {list \in SetToSeqs({metric(p) : p \in found}) :
        \A i, j \in DOMAIN list : i < j => list[i].cpu >= list[j].cpu}

Top(list) == SubSeq(list, 1, IF Len(list) < TopCount THEN Len(list) ELSE TopCount)

(* buildMetrics: i has what the collectors without a past returned.        *)
Metrics(a, b, i, processes) ==
  LET used == i.memoryTotal - i.memoryAvailable
      usedBlocks == i.blocks - i.blocksFree
      usable == usedBlocks + i.blocksAvailable
      ms == IntervalMs(a, b)
      rate == (1000000 * Increase(a.rx, b.rx)) \div ms
  IN [fields |->
        [hostname |-> i.hostname, uptime_seconds |-> b.at, logical_cpus |-> 1,
         cpu_usage_percent |-> Usage(a, b),
         memory_total_kb |-> i.memoryTotal, memory_used_kb |-> used,
         memory_available_kb |-> i.memoryAvailable,
         memory_usage_percent |-> Percent(used, i.memoryTotal),
         load_1 |-> i.load, load_5 |-> i.load, load_15 |-> i.load,
         disk_mount |-> Text(1), disk_total_bytes |-> i.blocks,
         disk_used_bytes |-> usedBlocks,
         disk_available_bytes |-> i.blocksAvailable,
         disk_usage_percent |->
           IF usable = 0 THEN 0 ELSE Percent(usedBlocks, usable),
         network_interface |-> Text(1), network_rx_bytes_per_second |-> rate,
         network_tx_bytes_per_second |-> 0, sample_interval_seconds |-> ms],
      processes |-> processes]

-----------------------------------------------------------------------------
(* Server: a frame of somebody else.  deserialize keeps nothing from one   *)
(* frame to the next, so that it is enough to let one come before the      *)
(* agent starts.                                                           *)
OtherClientSends ==
  /\ pc = "off"
  /\ sample = NoSample
  /\ \E payload \in OtherPayloads :
       /\ sample' = [from |-> "other", payload |-> payload]
       /\ read' = Deserialize(payload)
  /\ UNCHANGED <<kernelVars, agentVars>>

(* Agent: run().                                                           *)
Begin ==
  /\ pc = "off"
  /\ pc' = "cpu"
  /\ sample' = NoSample /\ read' = NothingRead
  /\ UNCHANGED <<kernelVars, pid, started, nextSample, previous, current>>

(* sleep_until; at once if the time is over.                               *)
Wake ==
  /\ pc = "sleep"
  /\ now >= nextSample
  /\ pc' = "cpu"
  /\ UNCHANGED <<kernelVars, pid, started, nextSample, previous, current,
                 sample, read>>

ReadCpu ==
  /\ pc = "cpu"
  /\ current' = [current EXCEPT !.busy = busy, !.idle = idle]
  /\ pc' = "network"
  /\ UNCHANGED <<kernelVars, pid, started, nextSample, previous, sample, read>>

ReadNetwork ==
  /\ pc = "network"
  /\ current' = [current EXCEPT !.rx = rx, !.received = received, !.at = now]
  /\ pc' = "name"
  /\ UNCHANGED <<kernelVars, pid, started, nextSample, previous, sample, read>>

(* The next directory of /proc.                                            *)
NextPid ==
  IF pid + 1 \in Pids THEN pid' = pid + 1 /\ pc' = "name"
  ELSE pid' = 1 /\ pc' = "build"

(* comm, stat and status are three files: the process with this id may     *)
(* end, and another one get the id, between the reads.                     *)
ReadName ==
  /\ pc = "name"
  /\ IF procs[pid].alive
     THEN /\ current' = [current EXCEPT !.procs[pid].name = procs[pid].start]
          /\ pc' = "times" /\ UNCHANGED pid
     ELSE NextPid /\ current' = [current EXCEPT !.procs[pid] = NoEntry]
  /\ UNCHANGED <<kernelVars, started, nextSample, previous, sample, read>>

ReadTimes ==
  /\ pc = "times"
  /\ IF procs[pid].alive
     THEN /\ current' = [current EXCEPT !.procs[pid].start = procs[pid].start,
                                        !.procs[pid].cpu = procs[pid].cpu]
          /\ pc' = "memory" /\ UNCHANGED pid
     ELSE NextPid /\ current' = [current EXCEPT !.procs[pid] = NoEntry]
  /\ UNCHANGED <<kernelVars, started, nextSample, previous, sample, read>>

ReadMemory ==
  /\ pc = "memory"
  /\ IF procs[pid].alive
     THEN current' = [current EXCEPT !.procs[pid].rss = procs[pid].start + 1,
                                     !.procs[pid].listed = TRUE]
     ELSE current' = [current EXCEPT !.procs[pid] = NoEntry]
  /\ NextPid
  /\ UNCHANGED <<kernelVars, started, nextSample, previous, sample, read>>

FirstSnapshot ==
  /\ pc = "build"
  /\ ~started
  /\ started' = TRUE
  /\ nextSample' = now + SamplePeriod
  /\ previous' = current
  /\ current' = NoSnapshot
  /\ pc' = "sleep"
  /\ UNCHANGED <<kernelVars, pid, sample, read>>

Send ==
  /\ pc = "build"
  /\ started
  /\ \E i \in Instants :
       \E list \in ProcessUsage(previous, current, i.memoryTotal) :
         LET metrics == Metrics(previous, current, i, Top(list)) IN
         /\ sample' = [from |-> "agent", metrics |-> metrics,
                       previous |-> previous, current |-> current]
         /\ read' = Deserialize(Serialize(metrics))
  /\ pc' = "sent"
  /\ UNCHANGED <<kernelVars, pid, started, nextSample, previous, current>>

(* The snapshots of this round become those of the round before; the next  *)
(* sample is due one period after this one was due, which may be past.     *)
Move ==
  /\ pc = "sent"
  /\ previous' = current
  /\ current' = NoSnapshot
  /\ nextSample' = nextSample + SamplePeriod
  /\ sample' = NoSample /\ read' = NothingRead
  /\ pc' = "sleep"
  /\ UNCHANGED <<kernelVars, pid, started>>

(* A collector throws: run() ends with it, and the agent with run().       *)
CollectorThrows ==
  /\ pc \in {"cpu", "network", "name", "build"}
  /\ pc = "build" => started
  /\ pc' = "ended"
  /\ UNCHANGED <<kernelVars, pid, started, nextSample, previous, current,
                 sample, read>>

(* Ticks are counted from the start of the agent.  What a read will see is *)
(* let happen while the agent sleeps or just before that read, since the   *)
(* reads of other things do not see it.  A process that starts during such *)
(* reads thereby starts a few ticks earlier or later than it might: of     *)
(* start times only the order and equality count.                          *)
Kernel ==
  \/ pc \notin {"off", "build", "sent", "ended"} /\ \E who \in Pids \cup {0} : Tick(who)
  \/ pc \in {"sleep", "cpu"} /\ IowaitDrops
  \/ pc \in {"sleep", "network"} /\ (ByteReceived \/ InterfaceReset)
  \/ pc = "sleep" /\ \E p \in Pids : ProcessStarts(p) \/ ProcessEnds(p)
  \/ pc \in {"name", "times", "memory"} /\ (ProcessStarts(pid) \/ ProcessEnds(pid))

Next ==
  \/ Kernel
  \/ OtherClientSends
  \/ Begin
  \/ Wake
  \/ ReadCpu
  \/ ReadNetwork
  \/ ReadName
  \/ ReadTimes
  \/ ReadMemory
  \/ FirstSnapshot
  \/ Send
  \/ Move
  \/ CollectorThrows

Spec == Init /\ [][Next]_vars

-----------------------------------------------------------------------------
Entries == [listed : BOOLEAN, name : 0 .. Horizon, start : 0 .. Horizon,
            cpu : 0 .. Horizon, rss : 0 .. Horizon + 1]
Snapshots == [busy : 0 .. Horizon, idle : 0 .. Horizon, rx : 0 .. MaxBytes,
              received : 0 .. MaxBytes, at : 0 .. Horizon, procs : [Pids -> Entries]]

TypeOK ==
  /\ now \in 0 .. Horizon /\ busy \in 0 .. Horizon /\ idle \in 0 .. Horizon
  /\ drops \in 0 .. MaxDrops
  /\ rx \in 0 .. MaxBytes /\ received \in 0 .. MaxBytes
  /\ procs \in [Pids -> [alive : BOOLEAN, start : 0 .. Horizon, cpu : 0 .. Horizon]]
  /\ pc \in {"off", "cpu", "network", "name", "times", "memory", "build",
             "sent", "sleep", "ended"}
  /\ pid \in Pids
  /\ started \in BOOLEAN
  /\ nextSample \in Nat
  /\ previous \in Snapshots /\ current \in Snapshots
  /\ sample.from \in {"nobody", "other", "agent"}
  /\ read.ok \in BOOLEAN

(* What a sample says of an interval is no more than what happened in it,  *)
(* although counters go back.  The CPU usage (CpuCollector.cpp:43) is a    *)
(* part of the whole, also when nothing or everything was idle; only an    *)
(* idle count that went back between the readings, which the unsigned      *)
(* difference does not survive, makes it more.  An interface that was      *)
(* reset makes the rate too small, never too large                         *)
(* (NetworkCollector.cpp:169).                                             *)
NoMoreThanHappened ==
  sample.from = "agent" =>
    LET fields == sample.metrics.fields IN
    /\ sample.current.idle >= sample.previous.idle =>
         fields.cpu_usage_percent \in 0 .. Hundred
    /\ fields.network_rx_bytes_per_second * fields.sample_interval_seconds
         <= 1000000 * (sample.current.received - sample.previous.received)

(* A process in the sample is one process: the CPU time of both readings   *)
(* and the name are those of the same one, although ids are used again and *)
(* the three files are not read together (ProcessCollector.cpp:301).       *)
ProcessIsOwn ==
  sample.from = "agent" =>
    \A i \in DOMAIN sample.metrics.processes :
      LET p == sample.metrics.processes[i]
          start == sample.previous.procs[p.pid].start
      IN /\ sample.current.procs[p.pid].start = start
         /\ p.name = Name[start]

(* "Reject unknown fields for protocol version 1 so that malformed or      *)
(* mismatched messages cannot silently pass validation"                    *)
(* (MetricsDeserializer.cpp:950): the server accepts exactly the well      *)
(* formed payloads and reads in them what they say, with or without a CR   *)
(* at the ends of lines.                                                   *)
ParserExact ==
  sample.from = "other" =>
    LET lines == Chomped(sample.payload) IN
    /\ read.ok <=> WellFormed(lines)
    /\ read.ok => Says(lines, read)

(* The server accepts a sample of the agent and reads the same numbers,    *)
(* rounded, and the same texts but for a CR at their end.  Refused is only *)
(* one taken so soon after the other that the interval rounds to nothing,  *)
(* which happens only when the agent was a period late                     *)
(* (MonitorAgent.cpp:1017), and one with a process whose whole name is a   *)
(* CR, of which nothing is left (MetricsDeserializer.cpp:404, 583).        *)
SentIsAccepted ==
  sample.from = "agent" /\ sample.metrics.fields.hostname \notin {Text(0), LoneCr} =>
    IF read.ok THEN RoundedTo(sample.metrics, read)
    ELSE \/ /\ sample.current.at = sample.previous.at
            /\ sample.previous.at >= nextSample
         \/ \E i \in DOMAIN sample.metrics.processes :
              sample.metrics.processes[i].name = <<LoneCr>>
=============================================================================
