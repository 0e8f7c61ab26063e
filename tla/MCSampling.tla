----------------------------- MODULE MCSampling -----------------------------
(* A small instance of Sampling for TLC: one process id, so that every     *)
(* process uses it again; names with a comma, with a CR at the end and     *)
(* with nothing but a CR; frames of other clients one change away from a   *)
(* well formed one, with line ends of both kinds.                          *)
EXTENDS Sampling

OnePid == {1}

Instant == [hostname |-> Text(1), memoryTotal |-> 4, memoryAvailable |-> 1, load |-> 125,
            blocks |-> 9, blocksFree |-> 3, blocksAvailable |-> 2]
NoDisk == [Instant EXCEPT !.blocks = 0, !.blocksFree = 0, !.blocksAvailable = 0]
InstantMetrics ==
  {Instant, [NoDisk EXCEPT !.hostname = CrAfter(Text(1))],
   [NoDisk EXCEPT !.hostname = LoneCr]}

KindsOfName ==
  << <<LoneCr>>, <<Text(1), CrAfter(Text(2))>>, <<Text(3)>>, <<Text(0), Text(0)>> >>
NameByStart == [start \in 0 .. Horizon |-> KindsOfName[start + 1]]

(* Well formed payloads with no, one and two processes.                    *)
Process(n) == [pid |-> n, cpu |-> 100 * n, memory |-> 7, rss |-> 1, name |-> Name[n]]
Base(k) ==
  Serialize(Metrics(NoSnapshot, [NoSnapshot EXCEPT !.busy = 1, !.at = 2], Instant,
                    [i \in 1 .. k |-> Process(i)]))
BasePayloads == {Base(k) : k \in 0 .. 2}

(* Lines somebody may put in.                                              *)
SomeTokens == {Text(0), Text(1), Integer(0), Integer(1), Integer(-1), Integer(Word),
           Decimal(0), Decimal(150), LoneCr, CrAfter(Integer(1))}
SomeKeys == RequiredFields \cup {"(no =)", "", "cpu_temperature"}
AllKeys == SomeKeys \cup {VersionLine.key}
ProcessLines ==
  {Pair("process", << Integer(n), Decimal(0), Decimal(1), Integer(1) >> \o name) :
     n \in {0, -1, IntMax + 1}, name \in {<<>>, <<Text(0)>>, <<LoneCr>>, <<Text(1)>>, <<LoneCr, Text(0)>>}}
  \cup {Pair("process", <<Integer(1), cpu, Decimal(1), rss, Text(2)>>) :
          cpu \in {Text(1), Integer(3), CrAfter(Integer(3))}, rss \in {Integer(1), Decimal(1)}}
OtherLines ==
  {Pair(key, t) : key \in SomeKeys, t \in SomeTokens} \cup ProcessLines
  \cup {VersionLine, BlankLine, [BlankLine EXCEPT !.value = LoneCr]}

Removed == {RemoveAt(p, i) : p \in BasePayloads, i \in 1 .. 22}
Swapped ==
  {[p EXCEPT ![i] = p[j], ![j] = p[i]] : p \in BasePayloads, i, j \in {1, 2, 5, 21, 22}}
Replaced == {ReplaceAt(Base(1), i, l) : i \in 1 .. 23, l \in OtherLines}
Inserted == {InsertAt(Base(1), i, l) : i \in {1, 2, 24}, l \in OtherLines}

Crlf(p) ==
  [i \in DOMAIN p |->
     [p[i] EXCEPT !.value = IF p[i].key = "process" THEN [@ EXCEPT ![Len(@)] = CrAfter(@)]
                            ELSE CrAfter(@)]]

Payloads ==
  {<<>>} \cup BasePayloads \cup {Crlf(p) : p \in BasePayloads} \cup Removed \cup Swapped \cup Replaced \cup Inserted
=============================================================================
