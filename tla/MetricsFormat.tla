--------------------------- MODULE MetricsFormat ---------------------------
(***************************************************************************)
(* The text of a sample: MetricsSerializer::serialize writes it and        *)
(* MetricsDeserializer::deserialize reads it, one line after the other,    *)
(* and refuses all of it at the first line it does not accept.             *)
(*                                                                         *)
(* A payload is a sequence of lines, a line a key with a value.  A value   *)
(* is a token: its form is what the conversions look at, its number what   *)
(* they make of it, and a carriage return may follow.  A text is numbered, *)
(* 0 is the empty one.  A double is kept in thousandths by the agent and   *)
(* in hundredths on the wire.  The value of a process line is its list of  *)
(* comma separated pieces.                                                 *)
(***************************************************************************)
EXTENDS Integers, Sequences, FiniteSets, SequencesExt, TLC

CONSTANTS Word,    \* 2^64
          IntMax,  \* the largest int
          Keys     \* what may stand before the '=' of a line

ASSUME FormatAssumption == Word \in Nat /\ IntMax \in Nat /\ IntMax < Word

TextFields == {"hostname", "disk_mount", "network_interface"}
CountFields ==
  {"uptime_seconds", "logical_cpus", "memory_total_kb", "memory_used_kb",
   "memory_available_kb", "disk_total_bytes", "disk_used_bytes",
   "disk_available_bytes", "process_count"}
DoubleFields ==
  {"cpu_usage_percent", "memory_usage_percent", "load_1", "load_5", "load_15",
   "disk_usage_percent", "network_rx_bytes_per_second",
   "network_tx_bytes_per_second", "sample_interval_seconds"}
RequiredFields == TextFields \cup CountFields \cup DoubleFields

(* The order serialize writes the fields in.                               *)
FieldOrder ==
  << "hostname", "uptime_seconds", "logical_cpus", "cpu_usage_percent",
     "memory_total_kb", "memory_used_kb", "memory_available_kb",
     "memory_usage_percent", "load_1", "load_5", "load_15", "disk_mount",
     "disk_total_bytes", "disk_used_bytes", "disk_available_bytes",
     "disk_usage_percent", "network_interface", "network_rx_bytes_per_second",
     "network_tx_bytes_per_second", "sample_interval_seconds", "process_count" >>

(* Forms of a value: nothing, digits with or without a sign, digits with a *)
(* point, anything else.                                                   *)
Text(n) == [form |-> IF n = 0 THEN "empty" ELSE "text", n |-> n, cr |-> FALSE]
Integer(n) == [form |-> "integer", n |-> n, cr |-> FALSE]
Decimal(n) == [form |-> "decimal", n |-> n, cr |-> FALSE]
CrAfter(t) == [t EXCEPT !.cr = TRUE]

Tokens == [form : {"empty", "text", "integer", "decimal"}, n : Int, cr : BOOLEAN]
Texts == {t \in Tokens : t.form = Text(t.n).form}

(* What readProcessName lets through: not empty, but perhaps one CR.  A    *)
(* name is a list of texts, the parts between its commas.                  *)
Names == {name \in Seq(Texts) : name # <<>> /\ name # <<Text(0)>>}
LoneCr == CrAfter(Text(0))

Pair(key, value) == [key |-> key, value |-> value]
VersionLine == Pair("LMONITOR/1", Text(0))   \* has no '='
BlankLine == Pair("(blank)", Text(0))        \* is empty

Lines == {BlankLine}
         \cup [key : Keys \ {BlankLine.key, "process"}, value : Tokens]
         \cup [key : {"process"}, value : Seq(Tokens)]
RawLines == Lines \cup {Pair(BlankLine.key, LoneCr)}

ASSUME KeysAssumption == RequiredFields \cup {VersionLine.key} \subseteq Keys

-----------------------------------------------------------------------------
(* Mutants.  No behaviour of the code: each is the definition it is named  *)
(* after with one plausible slip, and makes one property of Sampling fail. *)

(* The result of the insertion is not looked at.                           *)
MutantRepeatedIgnored(read, key) == FALSE

(* A process name divided at its commas too.                               *)
MutantSplitAtEvery(pieces) ==
  IF Len(pieces) # 5 THEN <<>>
  ELSE SubSeq(pieces, 1, 4) \o <<SubSeq(pieces, 5, 5)>>

(* Only LF for a line end.                                                 *)
MutantChompKeeps(line) == line

-----------------------------------------------------------------------------
(* Serializer.  "%.2f" rounds to hundredths.                               *)
Rounded(thousandths) == (thousandths + 5) \div 10

FieldToken(key, v) ==
  IF key \in TextFields THEN v
  ELSE IF key \in CountFields THEN Integer(v)
  ELSE Decimal(Rounded(v))

ProcessPieces(p) ==
  << Integer(p.pid), Decimal(Rounded(p.cpu)), Decimal(Rounded(p.memory)),
     Integer(p.rss) >> \o p.name

Serialize(metrics) ==
  LET Value(key) == IF key = "process_count" THEN Len(metrics.processes)
                    ELSE metrics.fields[key]
  IN << VersionLine >>
     \o [i \in DOMAIN FieldOrder |->
           Pair(FieldOrder[i], FieldToken(FieldOrder[i], Value(FieldOrder[i])))]
     \o [i \in DOMAIN metrics.processes |->
           Pair("process", ProcessPieces(metrics.processes[i]))]

-----------------------------------------------------------------------------
(* Conversions: the set of the one value they return, empty if they throw, *)
(* as they do for a number with a CR after it.                             *)
Is(t, form) == t.form = form /\ ~t.cr

(* stoull takes a sign, and wraps a negative number.                       *)
ParseUint64(t) ==
  IF Is(t, "integer") /\ t.n > -Word /\ t.n < Word THEN {t.n % Word} ELSE {}

ParseInt(t) ==
  IF Is(t, "integer") /\ t.n >= -IntMax - 1 /\ t.n <= IntMax THEN {t.n} ELSE {}

ParseDouble(t) ==
  IF Is(t, "integer") THEN {100 * t.n}
  ELSE IF Is(t, "decimal") THEN {t.n} ELSE {}

ParseText(t) == IF Is(t, "empty") THEN {} ELSE {t}

ParseField(key, t) ==
  IF key \in TextFields THEN ParseText(t)
  ELSE IF key = "logical_cpus" THEN ParseUint64(t) \ {0}
  ELSE IF key \in CountFields THEN ParseUint64(t)
  ELSE IF key = "sample_interval_seconds" THEN {v \in ParseDouble(t) : v > 0}
  ELSE ParseDouble(t)

(* The first four commas divide; what follows is the name.                 *)
Split(pieces) ==
  IF Len(pieces) < 5 THEN <<>>
  ELSE SubSeq(pieces, 1, 4) \o <<SubSeq(pieces, 5, Len(pieces))>>

ParseProcess(pieces) ==
  IF Split(pieces) = <<>> \/ Split(pieces)[5] = <<Text(0)>> THEN {}
  ELSE {[pid |-> pid, cpu |-> cpu, memory |-> memory, rss |-> rss,
         name |-> Split(pieces)[5]] :
          pid \in {n \in ParseInt(pieces[1]) : n >= 0},
          cpu \in ParseDouble(pieces[2]), memory \in ParseDouble(pieces[3]),
          rss \in ParseUint64(pieces[4])}

-----------------------------------------------------------------------------
(* A CR at the end of a line is dropped: it may be a CRLF.                 *)
WithoutCr(t) == [t EXCEPT !.cr = FALSE]
ChompLast(pieces) == [pieces EXCEPT ![Len(pieces)] = WithoutCr(@)]
Chomp(line) ==
  [line EXCEPT !.value = IF line.key = "process" THEN ChompLast(@) ELSE WithoutCr(@)]
Chomped(payload) == [i \in DOMAIN payload |-> Chomp(payload[i])]

(* Deserializer: what was read so far, or that a line was refused.         *)
(* A field holds the set of the one value read for it, or is empty.        *)
NothingRead ==
  [ok |-> TRUE, fields |-> [key \in RequiredFields |-> {}], processes |-> <<>>]
Refused == [NothingRead EXCEPT !.ok = FALSE]

(* A field may appear once (markRequiredField).                            *)
Repeated(read, key) == read.fields[key] # {}

ReadField(read, line) ==
  IF line.key \in RequiredFields /\ ~Repeated(read, line.key)
  THEN LET value == ParseField(line.key, line.value) IN
       IF value = {} THEN Refused ELSE [read EXCEPT !.fields[line.key] = value]
  ELSE Refused

ReadProcess(read, line) ==
  LET process == ParseProcess(line.value) IN
  IF process = {} THEN Refused
  ELSE [read EXCEPT !.processes = Append(@, CHOOSE p \in process : TRUE)]

ReadLine(read, line) ==
  IF ~read.ok \/ line = BlankLine THEN read
  ELSE IF line.key = "process" THEN ReadProcess(read, line)
  ELSE ReadField(read, line)

(* verifyRequiredFields and the check of the number of processes.          *)
Complete(read) ==
  /\ read.ok
  /\ \A key \in RequiredFields : read.fields[key] # {}
  /\ read.fields["process_count"] = {Len(read.processes)}

ReadLines(lines) ==
  IF lines = <<>> \/ Head(lines) # VersionLine THEN Refused
  ELSE LET read == FoldLeft(ReadLine, NothingRead, Tail(lines))
       IN IF Complete(read) THEN read ELSE Refused

Deserialize(payload) == ReadLines(Chomped(payload))

-----------------------------------------------------------------------------
(* What a payload of protocol version 1 is, said of it as a whole, the     *)
(* line ends taken off.                                                    *)
LinesOf(payload, key) ==
  {i \in 2 .. Len(payload) : payload[i].key = key}

WellFormed(payload) ==
  /\ payload # <<>>
  /\ payload[1] = VersionLine
  /\ \A i \in 2 .. Len(payload) :
       payload[i].key \in RequiredFields \cup {"process", BlankLine.key}
  /\ \A key \in RequiredFields :
       \E i \in LinesOf(payload, key) :
         /\ LinesOf(payload, key) = {i}
         /\ ParseField(key, payload[i].value) # {}
  /\ \A i \in LinesOf(payload, "process") : ParseProcess(payload[i].value) # {}
  /\ \A i \in LinesOf(payload, "process_count") :
       ParseUint64(payload[i].value) = {Cardinality(LinesOf(payload, "process"))}

(* What it says.                                                           *)
Says(payload, read) ==
  /\ \A key \in RequiredFields : \A i \in LinesOf(payload, key) :
       ParseField(key, payload[i].value) = read.fields[key]
  /\ LET before(i) == {j \in LinesOf(payload, "process") : j <= i}
     IN /\ Len(read.processes) = Cardinality(LinesOf(payload, "process"))
        /\ \A i \in LinesOf(payload, "process") :
             ParseProcess(payload[i].value) = {read.processes[Cardinality(before(i))]}

(* The metrics that come out of the wire, compared with those that went    *)
(* in: the same, rounded to hundredths and without a CR at the end of a    *)
(* text.                                                                   *)
RoundedTo(metrics, read) ==
  /\ \A key \in RequiredFields \ {"process_count"} :
       read.fields[key] = {CASE key \in DoubleFields -> Rounded(metrics.fields[key])
                             [] key \in TextFields -> WithoutCr(metrics.fields[key])
                             [] OTHER -> metrics.fields[key]}
  /\ read.fields["process_count"] = {Len(metrics.processes)}
  /\ Len(read.processes) = Len(metrics.processes)
  /\ \A i \in DOMAIN read.processes :
       LET p == metrics.processes[i] IN
       read.processes[i] = [p EXCEPT !.cpu = Rounded(@), !.memory = Rounded(@),
                                     !.name = ChompLast(@)]
=============================================================================
