# LMonitor in TLA+

A verification development kept beside the code of LMonitor, a monitoring
system of agents, a server and a web page (C++17).  It holds TLA+ modules for
the parts where order, concurrency and failure decide whether the program is
right, TLC configurations that check them on small instances, and TLAPS proofs
of the properties that matter most.  Source paths are relative to the
repository; `PROJECT.json` maps every definition to the lines it models.

## 1. Inventory of the system

An **agent** samples its host once per interval, connects to the server over
TCP and sends one length-prefixed frame per sample.  The **server** has one
reactor thread (epoll), a pool of workers, and one HTTP thread.

| Component | State | Operations | Interacts with |
|---|---|---|---|
| `ThreadPool` | queue, `stopping_`, threads | `trySubmit`, `stop`, `workerLoop` | reactor submits, workers run tasks, destructor stops |
| `EventLoop` | channels, pending functors, `quit_`, eventfd | `loop`, `loopOnce`, `queueInLoop`, `quit` | calls the callbacks of channels; workers post functors |
| `Channel`, `TcpConnection`, `FrameCodec` | buffer, `closing_` | `handleEvent`, `handleRead`, `requestClose`, `tryDecode` | loop calls them, they call `TcpServer` back |
| `Acceptor`, `TimerFd` | one descriptor each | `handleAccept`, `start`, `stop` | channels of the loop |
| `TcpServer::run` | owns all of the above | start, callbacks, shutdown | everything |
| `MetricsStore`, `MetricsHistoryStore`, `StateTracker` | latest record, last points, last status of each host | `update`, `getAll`, `getStatus`, `add` | written by workers, scanned by the reactor, read by HTTP |
| `AlertManager`, `AlertEvaluator` | one alert per host and metric | `update`, `getActiveAlerts` | workers update, HTTP reads |
| `HttpServer` | `running_`, `listenFd_`, thread | `start`, `stop`, `run`, `handleClient` | reads the stores |
| `MonitorAgent`, `TcpClient` | schedule, backoff, socket | `run`, `connectToServer`, `sendAll` | collectors, server |
| Collectors | previous counters | `collect`, `calculateUsage` | agent |
| `MetricsSerializer`, `MetricsDeserializer` | none | `serialize`, `deserialize` | agent, worker |
| `Logger`, `Config` | log file, map of keys | `log`, rotation, `load`, `get...` | everything |

Hard behaviours: wake-ups that may be lost (condition variable, eventfd),
shutdown racing with work, samples of one host on several workers, a scan that
judges copies, data and end of stream in one epoll event, objects destroyed by
their own callbacks, partial sends, reconnection, signals against threads,
counters that go back and process ids used again between two snapshots, and a
log rotation that fails or is killed half-way.
`PROJECT.json` lists them as hazards, each at its line.

## 2. Modules

| Module | Models | Kind |
|---|---|---|
| `TaskPool` | what a pool promises: bounded FIFO, drained before it is closed | abstract |
| `ThreadPool` | `src/src/thread/ThreadPool.cpp`; implements `TaskPool` | component |
| `Mailbox` | what `queueInLoop` promises: functors in order, once | abstract |
| `EventLoop` | `src/src/reactor/EventLoop.cpp`; implements `Mailbox` | component |
| `AlertManager` | `src/src/alert/*.cpp` | component |
| `TcpConnection` | one connection from the backlog on: acceptor, channel, connection, framing | composition |
| `AgentLink` | the agent's loop and its socket | component |
| `Logger` | `src/src/log/Logger.cpp` with its file system; kills and restarts | component |
| `MetricsFormat` | `src/src/serializer/*.cpp`: the text of a sample, written and read | operators |
| `Sampling` | the collectors, `buildMetrics`, what is sent and what the server reads of it; uses `MetricsFormat` | composition |
| `MetricsPipeline` | reactor, workers, stores, scan, clock, quit; uses `TaskPool` for the pool | composition |
| `ServerLifecycle` | start and end of `TcpServer::run`, HTTP thread, signals | composition |
| `CommonLemmas`, `*Proofs` | lemmas and theorems | proofs |
| `MC*` | instances for TLC | model checking |

Operators named `Mutant...` are no behaviour of the code.  Each is a definition
with one plausible slip (a forgotten notify, a test left out, a swapped order)
that stands next to the definition it varies and makes one property fail, which
shows that the property depends on the code.

### Correspondence

*ThreadPool.*  A critical section of `mutex_` is one action, since nothing in
one blocks but `condition_.wait`, which releases it.  What happens after the
unlock (notify, join, the task) is an action of its own.  `worker[w]` says
where a thread is in `workerLoop`, `caller[c]` where a caller is in `trySubmit`
or `stop`, `ctor` where the constructor is.  A task is an identity; an
exception and a return of a task lead to the same place.

*EventLoop.*  Three sources of events: the eventfd, the signalfd whose callback
calls `quit()`, and any other channel.  `pc` is the place in `loopOnce`.
`WaitReturns` returns any non-empty subset of what is ready, as `maxEvents`
allows.  An exception of a callback or a failing `epoll_wait`, which leaves
`loop()` and with it `run()`, is `Throw` in `ServerLifecycle`.

*AlertManager.*  `update` holds its mutex throughout and is one action.  A
sample says for each metric whether it is below, at or above its threshold.
Time points become ages counted up to `FireDuration`.

*MetricsPipeline.*  A sample is `<<host, n>>`.  Each call of a worker's task is
an action, so that other threads run in between; `MetricsStore::update` is two,
because it reads the clock before it locks.  Any call may throw.  `getStatus`
reads only the copy and the clock and is one action with the tracker's update.
Times are ages by the system clock, which may be set back.  A sample may be
rejected by the deserializer.  `Quit` is the signal callback; that a signal
reaches it is assumed here and examined in `ServerLifecycle`.

*TcpConnection.*  The connection starts in the backlog of the listening socket,
where the peer may already write or leave.  `accept4` may fail, at most
`MaxFailures` times so that the environment does not refuse for ever, and the
creation of the `TcpConnection` may throw, after which the descriptor is
closed.  Bytes are pairs of a frame and a position, so that properties
can say which bytes were delivered.  `Channel::handleEvent` is three actions.
Use of the destroyed object is undefined: the process crashes or goes on as if
the memory were unchanged.

*AgentLink.*  One thread; `connect` and `send` take time.  The end of the loop's
body and the test of its condition are one step.  The server and the network
are the environment.  After any `send` the buffers may be `full`; the next one
then blocks, signal or not, until the server reads, which it may never do, or is
lost.

*ServerLifecycle.*  `main` is the place in `run()` or in the destructors,
`http` the place in `HttpServer::run`.  `Throw` is any exception of `run()`, from
the creation of the HTTP thread on.  A client that is "silent" neither sends nor
reads, and holds `recv` or `sendAll` of the HTTP thread for as long.  A signal to
the process is delivered to a thread that does not block it, and kept only if
there is none, as Linux does.

*Logger.*  `mutex_` makes `log` one thread at a time, so that there is one
program counter; each call to the file system is an action, because it may fail
and the process may be killed before the next.  A record is known by the place
of its end in all the bytes logged, which lets a property say how old a lost
record is.  The stream keeps badbit after a failed write and holds that record
in its buffer, which a later `close` may still write.  `count` is
`currentFileSize_`.  A failed write that leaves part of a record in the file is
not modelled.

*MetricsFormat.*  A payload is a sequence of lines, each a key and a token; a
token has a form (empty, integer, decimal, text) and a number, which is what
`stoull`, `stoll` and `stod` tell apart.  Doubles are hundredths on the wire and
thousandths before, so that rounding is modelled.  A carriage return may follow
a token: `readProcessName` lets it through, and `Chomp` takes it off the end of
every line that is read.  `Deserialize` folds `ReadLine` over these lines as the
code's loop does; `WellFormed` and `Says` are the reference it is compared with.

*Sampling.*  The kernel's counters, its processes and the clock move between
any two reads.  One action per file read (`/proc/stat`, `/proc/net/dev`, and
`comm`, `stat`, `status` of each process), because each sees another instant.
Interval and usages are computed as in the code, in integers.  `previous` and
`current` are the local snapshots of `MonitorAgent::run`.  The collectors
without a past return one of a set of instants.  A kernel step is taken only
just before a read that sees it, or while the agent sleeps: other reads do not
see it.  A process that starts during those starts some ticks earlier or later
than it might, which no property can tell: only order and equality of start
times count.

## 3. What TLC checks

| Run | Bounds | Shows |
|---|---|---|
| `pool` | 3 tasks, 2 workers, 2 callers, queue of 2 | no lost wake-up, drained shutdown, `TaskPool` implemented; accepted tasks run, `stop` returns |
| `alert` | 2 hosts, 2 metrics, delay of 2 s | life of an alert: no phantom alert; a sustained breach fires, also one exactly at the threshold |
| `pipeline` | 1 host, 2 samples, 2 workers, queue 1, history 1, clock with one setback | the stores stay consistent, nothing accepted is lost at shutdown; silence is noticed, samples are reported |
| `loop` | 3 functors, 2 posters | no lost wake-up, `Mailbox` implemented; functors run, a signal ends the loop |
| `connection` | frames of 1, 0, 2 and 3 bytes, of which 2 is the maximum; header 2, buffer 3; one failure of `accept4` | framing under every cut of the stream, nothing lost on FIN, bounded buffer; a lost peer is noticed |
| `agent` | delays 1, 2, 4, 6; connect up to 2 s; interval 2 s; frames of 3 bytes | frame boundaries, spacing of attempts; reports resume, a signal ends the agent, unless a send blocks for good |
| `server` | no constants: complete | threads joined; `run()` ends, unless an HTTP client holds it |
| `logger` | file of 4 units, records of 1 and 2, 6 records, 2 failures | the two files hold the last records without a gap, sizes are bounded, a stream gone bad is replaced |
| `sampling` | 1 process id, 3 ticks, 1 byte, 1 drop of iowait, 6957 foreign payloads | a sample says no more than what happened, names one process per line, is accepted and read as it was sent; the parser accepts exactly the format |

The bounds are the smallest at which the case in question occurs: two workers
or two hosts for a race, a queue that fills, a history that overflows, a frame
cut inside its header, two failures in a row for the backoff and a third that
meets its maximum.  Named bounds (`MaxSamples`, `Horizon`, `MaxClockBack`,
`MaxLate`, `MaxFailures`, `MaxRecords`, `MaxFaults`, `MaxBytes`, `MaxDrops`)
stand in guards.  Ages are counted up to `Horizon`, beyond which nothing in the
code tells them apart.

In `pipeline` one host suffices for the races of two workers with each other,
with the scan and with shutdown, since the stores keep hosts apart by key.
`sampling` counts ticks up to `Horizon` and then stops, and so does the checking
of deadlock; the 6957 payloads are the well formed ones with no, one and two
processes, with line ends of both kinds, and what one removed, exchanged,
replaced or inserted line makes of them.  One process id means that every new
process uses it again.  Of the names of processes one has commas, one ends in a
carriage return, one is nothing else.

The provisos of the logger's properties are part of what the runs show: without
"unless `exists()` failed" `Retained` fails, and so does `SizeBounded` without
"unless `rename` or `file_size` failed".  `StopsOnSignal`, `KeepsReporting` and
`StopEnds` likewise fail without `[]<>~Blocked` and `[]<>~Held`: a send of the
agent, or a client of the HTTP thread, that waits for good holds them up.

### Where code and documentation disagree

Each of these runs checks one statement of a comment, log line or document and
finds a behaviour of the code that contradicts it.

| Run | Statement | What happens |
|---|---|---|
| `alert_cross_host` | "Alert resolved: ..." | a sample of one host resolves the alerts of the others |
| `connection_deferred` | "Deferred close request" | the connection is destroyed under its own handlers |
| `server_signal` | "Shutdown signal received" | the signal kills the process in another thread |

Other differences met while modelling; the models follow the code.

- `README.md:199` and `:204` say "> 80%" and "> 90%"; `evaluate` compares with
  `>=` (`Evaluate` in `AlertManager`).
- `README.md:205-207` names NORMAL and FIRING; `/api/alerts` also reports
  PENDING (`Active`).
- With several workers an older sample may replace a newer one in
  `MetricsStore`, and the newest in the history may not be the latest; the
  program has four workers.  With one the order is kept.
- `TcpServer.cpp:211-213` says "Every 5 seconds: Scan MetricsStore" and `:248`
  "consume timer event", but nothing reads the timerfd: it stays readable, so
  the loop scans in every iteration after the first expiry (`StartScan` needs
  `readable`, which nothing takes back).
- `AlertManager.cpp:15-36` asks for the keys `fire_duration`, `cpu_threshold`
  and `memory_threshold`; `Config::load` stores those of `config/lmonitor.conf`
  as `alert.cpu_threshold` and `alert.memory_threshold`, so that the thresholds
  configured are never found and the defaults apply.  `history.max_size` and
  `agent.sample_interval` are read by nobody.
- `CpuCollector.cpp:43-63`: iowait may decrease; the unsigned difference of the
  idle times then makes a usage above 100 % (the proviso of
  `NoMoreThanHappened`).
- `ProcessCollector.cpp:328`: the CPU total of the interval is read before the
  processes, so that a process may have more than 100 % of it.
- `ProcessCollector.cpp:225-241`: name, times and memory come from three files.
  The start time is checked between the snapshots, and times and name are those
  of one process (`ProcessIsOwn`); the resident memory may be that of the next
  owner of the id.
- `MetricsDeserializer.cpp:291` says "Everything after the fourth comma belongs to
  the name", but a carriage return at its end is taken for the end of the line
  (`:583-587`): such a name comes out shorter (`RoundedTo`), and of a process whose
  whole name is a carriage return nothing is left, so that the server refuses all
  of the sample (`:404`; `SentIsAccepted`).
- `MetricsDeserializer.cpp:53`: `stoull` accepts a minus sign and wraps, so that
  a negative count is accepted (`ParseUint64`).
- `MonitorAgent.cpp:1017`: after a stall the missed samples are taken back to
  back; one whose interval is written as 0.00 is rejected
  (`SentIsAccepted`).
- `Logger.cpp:504-512`: if the file cannot be created after a rotation the
  stream stays closed with nothing counted; no later record rotates, and
  nothing is logged to the file until the process starts again (`Create`).
- `Logger.cpp:451-454`: if `exists()` fails the active file is truncated without
  a backup (`MoveActive`).
- `Logger.cpp:287`: bytes a bad stream did not take are counted, which ages out
  a backup early and is also what gets the stream replaced (`DropsBounded`).
- `MetricsStore.h:117-118`: the age is cut to whole seconds before it is
  compared, so 5.9 s is still Online (`StatusOf`).
- `MetricsStore.h:120-121`: the scan judges a copy and may write Offline over
  the Online of a fresh record (`ScanHost`).
- `MonitorAgent.cpp:934` logs the delay until the next attempt; it counts from
  before `connect`, so after a connect that blocked the next one comes sooner
  (`Connect`).
- A client of the HTTP API that connects and sends nothing holds the thread in
  `recv`, and one that does not read its answer in `sendAll`; `stop()` waits for
  it (`HandleClient`, `SendAnswer`; `StopEnds` excepts it).
- `TcpClient.cpp:320-323` repeats a `send` that a signal interrupted without a
  look at the flag: an agent whose server has stopped reading does not end on
  SIGTERM (`Send`; `StopsOnSignal` excepts it).
- An error of `accept4` other than `EINTR` ends the HTTP thread while the server
  goes on (`Accept`).

### Fairness

`Logger` and `Sampling` state no fairness: only safety is checked of them.

Weak fairness of each thread's steps: the operating system schedules threads,
and a task or a critical section ends.  Nothing is assumed of submitters,
agents, signals or clients, with these exceptions.  `EventLoop`: strong
fairness that epoll returns a channel which stays ready, as its ready list
rotates.  `MetricsPipeline`: strong fairness of `RunFunctors`, because every
iteration ends with `doPendingFunctors`, whatever the callbacks did; the timer
expires and time passes.  `AgentLink`: TCP does not keep a connection to nobody
for ever (reset or retransmission timeout).  The server need not read, and an
HTTP client need not send, read or leave; where a property needs that they do so
now and then, it says so itself.  Spurious wake-ups are never relied upon.

### Hazards no property covers

`PROJECT.json` lists these with a note.  The order of samples and of their times
in the stores (`TcpServer.cpp:666`, `MetricsStore.cpp:41`), and a scan that writes
Offline over a fresh Online (`TcpServer.cpp:260`): the model has the
interleavings, but the code does not prevent them, so that nothing can be
asked.  The cut of an age to whole seconds (`MetricsStore.cpp:146`): the clock of
`MetricsPipeline` has no finer tick.  A usage above 100 % (`CpuCollector.cpp:53`)
and a shutdown held by an HTTP client (`HttpServer.cpp:300`): the code does this,
and the properties except exactly these cases.  Signs and sizes of a single
number (`MetricsDeserializer.cpp:53`): the reference of `ParserExact` uses the
same conversions.

## 4. What TLAPS proves

For all values of the constants that satisfy the named assumptions
(`PoolAssumption`, `AlertAssumption`, `PipelineAssumption`, `LinkAssumption`,
`ConnectionAssumption`, `LoggerAssumption` and so on; `ServerLifecycle` has no
constants).  The assumptions only say what the constants are; those that leave
something out are that no record is longer than a log file may be, that a
record has some length at all, and those of `SamplingAssumption`: the counters
stay below `Word`, which is 2^64, a tick has at least 5 ms, so that only reads
in one tick are written as 0.00 apart, and the collectors without a past return
`Readings`, in which what is free or available is no more than the whole.  The
payloads of other clients are any sequences of `Lines`: any key of `Keys`, which
must hold the names of the fields and may hold whatever else, with any token.

| Module | Besides type correctness |
|---|---|
| `ThreadPoolProofs` | `NoLostWakeup`, `NoSleepThroughStop`, `DrainedOnExit`, `AtMostOnce`; the pool implements `TaskPool` |
| `ServerProofs` | of `AlertManager`: `FiringIsBreached`, `DelayOnlyOnce`, and `ResolvedMeansBelow` under the assumption of a single host, which the run `alert_cross_host` shows to be needed; of `ServerLifecycle`: `NoThreadLeft`; of `EventLoop`: `NoLostWakeup`, `QuitIsSeen`, and that the loop implements `Mailbox` |
| `MetricsPipelineProofs` | `RecordsComplete`, `DrainedAtExit` |
| `AgentLinkProofs` | `FramesAligned`, `AttemptsSpaced` (an action property) |
| `TcpConnectionProofs` | `FramesIntact`, `NothingLostOnClose` |
| `LoggerProofs` | `Retained`, `SizeBounded`, `DropsBounded` |
| `SamplingProofs` | `NoMoreThanHappened`, `ProcessIsOwn`, `ParserExact`, `SentIsAccepted` |

Each proof has an inductive invariant (`IInv`, `LoopInv`, `ServerInv`), which
TLC checked on the instance of the run before the proof; a lemma on `Init` and
the step lemmas make `Invariance`, from which each theorem follows.  `ServerProofs` holds three
separate proofs, one after the other; what belongs to `EventLoop` and
`ServerLifecycle` has names of its own (`LoopSpec`, `ServerSpec`).
`ServerLifecycle` has no constants, so that its run is complete as well; the
proof says why the invariant holds.

*Pool.*  `NoLostWakeup` is not inductive: a worker may take the
last awake place and go to sleep only if it saw the queue empty, and whether it
may exit depends on `stopping`.  `IInv` adds how `stopping`, `ctor` and
`caller` relate (a caller notifies or joins only after `stopping` is set and
the constructor is ready), that an exited worker means a stopping pool with an
empty queue, and that the tasks in queue, in workers, done and refused are
disjoint and the queue has no duplicates.  The refinement maps a step of each
action to one of `TaskPool` or to a stutter, with `Phase` computed from
`stopping`, `caller` and `ctor`.

*Loop.*  If a functor is pending when `epoll_wait` blocks, then
after the swap somebody posted it, and either still has to write the eventfd or
did so after it was last read; the invariant says the same for every place
between the swap and the wait.

*Alerts.*  `FiringIsBreached` needs `DelayOver`: an alert that
has fired once has waited, and no clock tick takes that back.  Each theorem then
follows from what one sample does to one key (`SampleOfKey`).

*Start and end of the server.*  `Places`, `Flags` and `Descriptor` are each
preserved by the steps of each thread; `NoThreadLeft` holds because `run()` can
only be over after the join in `stop()` (`LastStep`), and nothing moves
after that.

*Pipeline.*  Both properties speak of stores and of the pool, and neither is
inductive.  `Placed` says that the stage of a sample tells where the pool has
it (queued, running, done), so that no two workers ever have the same sample;
`Progress` says for every stage what the calls made so far have left in the
stores, and `RecordsComplete` is what is common to the stages; a call that
throws goes to `"failed"`, which promises nothing.  `Accounted` says that every
sample received is in one place of the pool or was refused, and `Closing` that the
pool is closed, and then empty, before the reactor has exited.  `ClockBounds`
bounds ages and stamps by what the clock was set back, which is what makes the
differences of time points well-typed.

*Agent.*  `Backoff` is a recursive function; that it satisfies its
own equation is a theorem (`BackoffDefined`), from a function whose existence
`NatRecursion` gives.  `Spacing` says that the delay is the one asked for by the
number of failures in a row, and that `since + wait`, which only grows while no
attempt is going on, is at least the delay of the last failure.
`FramesAligned` holds because a connection is given up whenever a frame was sent
only in part.

*Connection.*  The stream of all frames is described place by place
(`StreamAt`: byte *p* of frame *f*).  `Window` says that the buffer is the part
of this stream between the end of the frames delivered and what was received,
so that what `tryDecode` reads as a header is the header of the next frame
(`HeaderRead`), however `recv` cut the stream; `Settled` that outside of the loop
of `handleRead` the buffer holds no whole frame; `Reasons` why a connection may
be gone.  `FramesIntact` follows from the window, `NothingLostOnClose` from
`Settled` and `Reasons` together.

*Logger.*  `Sized` compares the active file, with what the stream still
holds, to `currentFileSize_`; `Lost` says that what a bad stream has lost is
part of that count, so that the count, which grows with every record lost,
brings the rotation.  For `Retained`, `OnFiles` says that both files are the end
of `kept` (`EndsWith`, whose lemmas say what an append and a rotation do to it),
and `Followed` that a record in the backup lies behind by at least the count;
when a rotation removes it the count and the next record exceed the limit
(`OldBackup`).  `StreamState` carries what these need: the stream is
closed during a rotation, and an old file is opened again only after a failed
rename.

*Sampling.*  `IInv` relates each of the two snapshots to the kernel (`Past`:
what only grows was not more when it was read, and neither was what the byte
counter forgot in resets), the snapshots to each other as far as this round has
come (`Ordered`), and says of every process listed that its name was read no earlier
than the previous snapshot and no later than its start time (`NameFits`).  Two
equal start times then leave room for one process only, which is `ProcessIsOwn`
(`OneProcess`).  The usage needs `TotalDifference`: as long as the idle count did
not go back, the unsigned differences are the true ones.  `Provenance` says where
the last sample, and what the server read of it, come from, so that a property
of the samples becomes one of `Metrics`, `Serialize` and `Deserialize`.

*Parser.*  The fold of the library recurs over sets of positions.  `FoldExists`
shows that a function with its equation exists, and `ReadLineByLine` that it
yields what one line after the other does.  `ReadTo` then says of every line
number what was read so far: for each field the value of its line, if there was
one; the processes in order of their lines; or that some line was refused,
because it is unknown, not convertible, or repeats a field (`Accepted`).
`ReadStep` is the step from one line to the next and `ReadAll` the induction, over
the set of the line numbers for which `ReadTo` holds.  At the end `Complete` is
`WellFormed` (`CompleteIsWellFormed`), which is `ParserExact`.

*Round trip.*  `PayloadLines` says which lines `Serialize` writes, `ChompedLine`
and `ChompedPayload` what is left of them without a carriage return, and
`FieldOnWire` and `ProcessOnWire` that each comes back rounded, unless it is a
value the deserializer refuses (`Fits`).  `MetricsAreSendable` shows that what
`buildMetrics` computes is in the ranges of its types, and that only a hostname
or name of which nothing is left, or an interval written as 0.00, does not fit;
`ShortInterval` and `Due` say when the latter happens.  With `ParserExact` this is `SentIsAccepted`.

`CommonLemmas` holds what `Append` and `Tail` do to the elements of a sequence,
induction over a set of natural numbers, the existence of a function given
by its first value and a step, both from well-founded induction, and what `\div`
and `%` do to a part of a whole.

`DrainedOnExit`, `AtMostOnce`, `QuitIsSeen` and `DelayOnlyOnce` are proved and no
longer checked by a run of their own; the other properties named here are checked
by TLC as well, except `ResolvedMeansBelow`, which a run refutes for two hosts.

Only model-checked is every liveness property: fairness and `ENABLED` are out of
the prover's reach.  Every invariant, action property and refinement that a
passing run checks is a theorem.  An induction whose hypothesis is an operator
cannot be instantiated by the provers; where one is needed (the parser, the
backoff) it is over a set of numbers (`NatSetInduction`).

`RECURSIVE` operators are not used: the few recursive definitions are functions.

## 5. Not modelled

- JSON, HTML and `HttpResponse`: formatting of copies of the stores; no state.
- `Config`: read once before any thread exists; the models have its values as
  constants.  What its keys get wrong is said in section 3.
- The map of connections beyond one entry, and with it the reuse of descriptor
  numbers: a connection leaves the map before its descriptor is closed, so that
  no two entries ever have the same.
- `TimerFd` beyond its expiry, registration of channels in `EventLoop`: system
  calls; the set of channels is fixed in the models.
- `displayMetrics`, the console output of the logger, the syntax of `/proc`.
- `clear()` and `size()` of the stores, which the program never calls.
- The dashboard, a page that polls the HTTP API.

## 6. Plan

Order: first the shared machinery everything else stands on, then the
compositions, then pure algorithms.

1. Done: pool, loop, alerts, pipeline, connection, agent link, lifecycle,
   logger, format, sampling.
2. Done: proofs of type correctness, of the safety properties and of the
   refinements of every component.
3. The keys of `Config`, as a refinement of what the readers ask for.

## 7. How to run

    tlc -config MCThreadPool.cfg MCThreadPool
    tlapm ThreadPoolProofs.tla

and likewise for the other pairs of configuration and module that
`PROJECT.json` lists.
