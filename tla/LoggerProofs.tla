---------------------------- MODULE LoggerProofs ----------------------------
(***************************************************************************)
(* Proofs about Logger for every file size limit, every set of record      *)
(* lengths and every number of records and faults.  That the files stay    *)
(* small and little is lost follows from what currentFileSize_ says of     *)
(* the active file in each state of the stream; that the last records are  *)
(* on disk, from how far the records of the backup lie behind what has     *)
(* been counted since.                                                     *)
(***************************************************************************)
EXTENDS Logger, CommonLemmas, SequenceTheorems, TLAPS

(* The bytes logged fit the numbers of the records.                        *)
Budget ==
  /\ total <= logged * Longest
  /\ pc \notin {"down", "idle"} /\ incoming # 0 => total + incoming <= logged * Longest
  /\ pc = "write" => incoming # 0

(* While rotateIfNeeded is at work the stream is closed; the constructor   *)
(* opens it after a rotation once more.  Only a failed rename opens the    *)
(* old file again.                                                         *)
StreamState ==
  /\ pc \in {"down", "remove", "move", "create", "reopen"} => stream = "closed"
  /\ pc = "open" => stream # "bad"
  /\ pc = "reopen" => "rename" \in failed

(* The file is as large as currentFileSize_ says or smaller, and the       *)
(* record that is about to be written fits.                                *)
Sized ==
  failed \cap {"rename", "size"} = {} =>
    /\ active.bytes <= MaxLogFileSize /\ backup.bytes <= MaxLogFileSize
    /\ stream # "closed" =>
         /\ active.bytes + buffered.bytes <= count
         /\ count <= MaxLogFileSize
         /\ pc = "write" => count + incoming <= MaxLogFileSize

(* What a bad stream has lost is in currentFileSize_.                      *)
Lost ==
  /\ dropped <= MaxLogFileSize
  /\ stream = "bad" =>
       /\ dropped <= count
       /\ pc = "write" => count + incoming <= MaxLogFileSize

(* The files hold the end of what was kept, record by record.              *)
Ahead(k, b, a) == Len(k) - (Len(b) + Len(a))
EndsWith(k, b, a) ==
  /\ Ahead(k, b, a) >= 0
  /\ \A i \in 1 .. Len(b) : k[Ahead(k, b, a) + i] = b[i]
  /\ \A i \in 1 .. Len(a) : k[Ahead(k, b, a) + Len(b) + i] = a[i]

Gone == Ahead(kept, backup.records, active.records)
OnFiles ==
  /\ EndsWith(kept, backup.records, active.records)
  /\ pc = "create" => active.records = <<>> /\ active.bytes = 0

(* A record in the backup is followed by what the active file holds, and   *)
(* by what currentFileSize_ counts.                                        *)
Followed ==
  /\ \A i \in 1 .. Len(kept) : kept[i].end <= total
  /\ buffered.end <= total
  /\ \A i \in 1 .. Len(backup.records) :
       /\ active.bytes + buffered.bytes <= total - backup.records[i].end
       /\ pc # "create" => count <= total - backup.records[i].end
  /\ pc \in {"remove", "move"} => count + incoming > MaxLogFileSize
  /\ \A i \in 1 .. Gone : total - kept[i].end > MaxLogFileSize - Longest

Kept == "exists" \notin failed => OnFiles /\ Followed

IInv == TypeOK /\ Budget /\ StreamState /\ Sized /\ Lost /\ Kept

-----------------------------------------------------------------------------
LEMMA LongestFacts ==
  /\ MaxLogFileSize \in Nat /\ MaxRecords \in Nat /\ MaxFaults \in Nat
  /\ Longest \in Nat
  /\ \A b \in RecordSizes : b \in 1 .. MaxLogFileSize /\ b <= Longest
<1>1. /\ MaxLogFileSize \in Nat /\ MaxRecords \in Nat /\ MaxFaults \in Nat
      /\ RecordSizes \subseteq 1 .. MaxLogFileSize /\ RecordSizes # {}
  BY LoggerAssumption
<1>2. \E b \in RecordSizes : \A c \in RecordSizes : c <= b
  <2> SUFFICES ASSUME \A b \in RecordSizes : \E c \in RecordSizes : ~ (c <= b)
               PROVE  FALSE
    OBVIOUS
  <2> DEFINE S == {n \in Nat : \E b \in RecordSizes : b >= n}
  <2>1. 0 \in S
    <3>1. PICK b \in RecordSizes : b \in 1 .. MaxLogFileSize
      BY <1>1
    <3>2. b >= 0
      BY <1>1, <3>1
    <3> QED
      BY <3>2
  <2>2. ASSUME NEW n \in Nat, n \in S PROVE n + 1 \in S
    <3>1. PICK b \in RecordSizes : b >= n
      BY <2>2
    <3>2. PICK c \in RecordSizes : ~ (c <= b)
      OBVIOUS
    <3>3. c >= n + 1
      BY <1>1, <3>1, <3>2
    <3> QED
      BY <3>3
  <2>3. Nat \subseteq S
    <3> HIDE DEF S
    <3> QED BY <2>1, <2>2, NatSetInduction
  <2>4. MaxLogFileSize + 1 \in S
    <3> HIDE DEF S
    <3> QED BY <1>1, <2>3
  <2> QED
    BY <1>1, <2>4
<1>3. Longest \in RecordSizes /\ \A c \in RecordSizes : c <= Longest
  BY <1>2 DEF Longest
<1> QED
  BY <1>1, <1>3

(* What a file and a record are.                                           *)
LEMMA FileFacts ==
  ASSUME NEW file \in File
  PROVE  /\ file.records \in Seq(Record)
         /\ file.bytes \in Nat
         /\ [file EXCEPT !.exists = TRUE] \in File
         /\ [file EXCEPT !.exists = TRUE].records = file.records
         /\ [file EXCEPT !.exists = TRUE].bytes = file.bytes
<1>1. file.records \in Seq(Record) /\ file.bytes \in Nat
  BY DEF File
<1>2. [file EXCEPT !.exists = TRUE] \in File
  BY DEF File
<1>3. /\ [file EXCEPT !.exists = TRUE].records = file.records
      /\ [file EXCEPT !.exists = TRUE].bytes = file.bytes
  BY DEF File
<1> QED
  BY <1>1, <1>2, <1>3

LEMMA ExtendedFacts ==
  ASSUME NEW file \in File, NEW r \in Record
  PROVE  /\ Extended(file, r) \in File
         /\ Extended(file, r).records = Append(file.records, r)
         /\ Extended(file, r).bytes = file.bytes + r.bytes
<1>1. r.bytes \in Nat
  BY LongestFacts DEF Record
<1>2. /\ Append(file.records, r) \in Seq(Record)
      /\ file.bytes + r.bytes \in Nat
  BY <1>1 DEF File
<1>3. /\ Extended(file, r).records = Append(file.records, r)
      /\ Extended(file, r).bytes = file.bytes + r.bytes
  BY DEF Extended, File
<1>4. Extended(file, r) \in File
  BY <1>2 DEF Extended, File
<1> QED
  BY <1>3, <1>4

LEMMA NoFileFacts ==
  /\ NoFile \in File /\ NoFile.records = <<>> /\ NoFile.bytes = 0
  /\ EmptyFile \in File /\ EmptyFile.records = <<>> /\ EmptyFile.bytes = 0
  /\ None.bytes = 0 /\ None.end = 0
<1>1. NoFile \in File /\ EmptyFile \in File
  BY DEF NoFile, EmptyFile, File
<1> QED
  BY <1>1 DEF NoFile, EmptyFile, None

LEMMA Products ==
  /\ \A a, l \in Nat : a * l \in Nat /\ (a + 1) * l = a * l + l
  /\ \A a, b, l \in Nat : a <= b => a * l <= b * l
<1>1. \A a, l \in Nat : a * l \in Nat /\ (a + 1) * l = a * l + l
  OBVIOUS
<1>2. ASSUME NEW a \in Nat, NEW b \in Nat, NEW l \in Nat, a <= b PROVE a * l <= b * l
  <2>1. PICK d \in Nat : b = a + d
    <3>1. b - a \in Nat /\ b = a + (b - a)
      BY <1>2
    <3> QED
      BY <3>1
  <2>2. b * l = a * l + d * l
    BY <2>1
  <2>3. d * l \in Nat /\ a * l \in Nat /\ b * l \in Nat
    OBVIOUS
  <2> QED
    BY <2>2, <2>3
<1> QED
  BY <1>1, <1>2

LEMMA RecordFacts ==
  /\ \A r \in Record : r.end \in Nat /\ r.bytes \in Nat
  /\ TypeOK => buffered.bytes \in Nat /\ buffered.end \in Nat
<1>1. \A r \in Record : r.end \in Nat /\ r.bytes \in Nat
  BY LongestFacts DEF Record
<1> QED
  BY <1>1, NoFileFacts DEF TypeOK

(* The record that log() is about to write.                                *)
NewRecord == [n |-> logged, bytes |-> incoming, end |-> total + incoming]

LEMMA NewRecordFacts ==
  ASSUME TypeOK, Budget, pc = "write"
  PROVE  /\ incoming \in RecordSizes /\ incoming \in 1 .. MaxLogFileSize
         /\ NewRecord \in Record
         /\ NewRecord.bytes = incoming /\ NewRecord.end = total + incoming
         /\ NewRecord # None
<1>1. /\ incoming \in RecordSizes /\ incoming \in 1 .. MaxLogFileSize
      /\ logged \in 0 .. MaxRecords /\ total \in Nat
      /\ total + incoming <= logged * Longest
  BY LongestFacts DEF TypeOK, Budget
<1>2. logged # 0
  <2>1. ASSUME logged = 0 PROVE FALSE
    <3>1. logged * Longest = 0
      BY <2>1, LongestFacts
    <3> QED
      BY <1>1, <3>1
  <2> QED
    BY <2>1
<1>3. total + incoming \in 1 .. MaxRecords * Longest
  <2>1. logged * Longest <= MaxRecords * Longest
    BY <1>1, LongestFacts, Products
  <2>2. logged * Longest \in Nat /\ MaxRecords * Longest \in Nat
    BY <1>1, LongestFacts, Products
  <2> QED
    BY <1>1, <2>1, <2>2
<1>4. NewRecord \in Record
  BY <1>1, <1>2, <1>3, LongestFacts DEF NewRecord, Record
<1> QED
  BY <1>1, <1>4 DEF NewRecord, None

(* What the actions do to the files.                                       *)
LEMMA CloseEffect ==
  ASSUME TypeOK, Close
  PROVE  /\ stream' = "closed" /\ buffered' = None
         /\ \/ UNCHANGED <<active, kept>>
            \/ /\ buffered \in Record /\ stream = "bad"
               /\ active' = Extended(active, buffered)
               /\ kept' = Append(kept, buffered)
BY DEF Close, TypeOK

LEMMA WriteEffect ==
  ASSUME Write
  PROVE  /\ pc = "write" /\ pc' = "idle"
         /\ UNCHANGED <<incoming, backup, logged>>
         /\ \/ /\ stream = "closed"
               /\ UNCHANGED <<stream, buffered, count, active, kept, total, dropped, failed>>
            \/ /\ stream = "good" /\ stream' = "good"
               /\ active' = Extended(active, NewRecord)
               /\ kept' = Append(kept, NewRecord)
               /\ count' = count + incoming /\ total' = total + incoming
               /\ UNCHANGED <<buffered, dropped, failed>>
            \/ /\ stream = "good" /\ stream' = "bad"
               /\ buffered' = NewRecord
               /\ failed' = failed \cup {"write"}
               /\ count' = count + incoming /\ total' = total + incoming
               /\ dropped' = incoming
               /\ UNCHANGED <<active, kept>>
            \/ /\ stream = "bad" /\ stream' = "bad"
               /\ count' = count + incoming /\ total' = total + incoming
               /\ dropped' = dropped + incoming
               /\ UNCHANGED <<buffered, active, kept, failed>>
BY DEF Write, NewRecord, Works, Fails, Counted, faultVars

LEMMA OpenEffect ==
  ASSUME Reopen \/ Open
  PROVE  /\ UNCHANGED <<incoming, buffered, backup, kept, logged, total, dropped>>
         /\ \/ /\ active' = [active EXCEPT !.exists = TRUE]
               /\ stream' = "good"
               /\ \/ count' = active.bytes /\ UNCHANGED failed
                  \/ count' = 0 /\ failed' = failed \cup {"size"}
            \/ /\ UNCHANGED <<active, count>>
               /\ stream' = "closed"
               /\ failed' = failed \cup {"open"}
BY DEF Reopen, Open, OpenLogFile, Works, Fails, faultVars

LEMMA LogEffect ==
  ASSUME TypeOK, NEW bytes \in RecordSizes, Log(bytes)
  PROVE  /\ pc = "idle" /\ incoming' = bytes /\ logged' = logged + 1
         /\ logged' \in 0 .. MaxRecords
         /\ UNCHANGED <<count, backup, total, failed, faults>>
         /\ \/ /\ pc' = "remove" /\ count + bytes > MaxLogFileSize
               /\ dropped' = 0 /\ Close
            \/ /\ pc' = "write" /\ count + bytes <= MaxLogFileSize
               /\ UNCHANGED <<stream, buffered, active, kept, dropped>>
<1>1. /\ count \in Nat /\ bytes \in Nat /\ logged \in 0 .. MaxRecords
      /\ MaxLogFileSize \in Nat /\ MaxRecords \in Nat
  BY LongestFacts DEF TypeOK
<1> QED
  BY <1>1 DEF Log, Exceeds, faultVars

-----------------------------------------------------------------------------
(* TypeOK in two parts.                                                    *)
Scalars ==
  /\ pc \in {"down", "idle", "remove", "move", "create", "reopen", "write", "open"}
  /\ incoming \in RecordSizes \cup {0}
  /\ stream \in {"closed", "good", "bad"}
  /\ count \in Nat
  /\ logged \in 0 .. MaxRecords
  /\ total \in Nat
  /\ dropped \in Nat
  /\ failed \subseteq Calls
  /\ faults \in 0 .. MaxFaults

Stores ==
  /\ buffered \in Record \cup {None}
  /\ buffered # None => stream = "bad"
  /\ active \in File /\ backup \in File
  /\ kept \in Seq(Record)

LEMMA TypeParts == TypeOK <=> Scalars /\ Stores
BY DEF TypeOK, Scalars, Stores

(* A call fails: the faults stay within their bound.                       *)
LEMMA FaultStep ==
  ASSUME failed \subseteq Calls, faults \in 0 .. MaxFaults, [Next]_vars
  PROVE  failed' \subseteq Calls /\ faults' \in 0 .. MaxFaults /\ failed \subseteq failed'
<1>1. ASSUME NEW call \in Calls, Works \/ Fails(call)
      PROVE  failed' \subseteq Calls /\ faults' \in 0 .. MaxFaults /\ failed \subseteq failed'
  BY <1>1, LongestFacts DEF Works, Fails, faultVars
<1>2. CASE UNCHANGED faultVars
  BY <1>2 DEF faultVars
<1>3. UNCHANGED faultVars \/ \E call \in Calls : Works \/ Fails(call)
  BY DEF Next, Start, Log, RemoveBackup, MoveActive, Create, Reopen, Open, OpenLogFile,
    Write, Exit, Crash, Works, Calls, vars
<1> QED
  BY <1>1, <1>2, <1>3

LEMMA ScalarsStep == TypeOK /\ Budget /\ [Next]_vars => Scalars'
<1> SUFFICES ASSUME TypeOK, Budget, [Next]_vars PROVE Scalars'
  OBVIOUS
<1>0. Scalars /\ active.bytes \in Nat
  BY TypeParts, FileFacts DEF Stores
<1>1. failed' \subseteq Calls /\ faults' \in 0 .. MaxFaults
  BY <1>0, FaultStep DEF Scalars
<1>2. ASSUME Start PROVE Scalars'
  <2>1. count' = active.bytes \/ count' = 0
    BY <1>2 DEF Start
  <2> QED
    BY <1>0, <1>1, <1>2, <2>1 DEF Start, Scalars
<1>3. ASSUME NEW bytes \in RecordSizes, Log(bytes) PROVE Scalars'
  <2>1. stream' \in {"closed", "good", "bad"} /\ dropped' \in Nat
    BY <1>0, <1>3, LogEffect DEF Close, Scalars
  <2> QED
    BY <1>0, <1>1, <1>3, <2>1, LogEffect DEF Scalars
<1>4. ASSUME RemoveBackup \/ MoveActive PROVE Scalars'
  BY <1>0, <1>1, <1>4 DEF RemoveBackup, MoveActive, Scalars
<1>5. ASSUME Create PROVE Scalars'
  BY <1>0, <1>1, <1>5 DEF Create, Return, Scalars
<1>6. ASSUME Reopen \/ Open PROVE Scalars'
  <2>1. pc' \in {"open", "write", "idle"}
    BY <1>6 DEF Reopen, Open, Return
  <2> QED
    BY <1>0, <1>1, <1>6, <2>1, OpenEffect DEF Scalars
<1>7. ASSUME Write PROVE Scalars'
  <2>1. incoming \in 1 .. MaxLogFileSize
    BY <1>7, NewRecordFacts DEF Write
  <2>2. /\ count' \in Nat /\ total' \in Nat /\ dropped' \in Nat
        /\ stream' \in {"closed", "good", "bad"}
    BY <1>0, <1>7, <2>1, WriteEffect DEF Scalars
  <2> QED
    BY <1>0, <1>1, <1>7, <2>2, WriteEffect DEF Scalars
<1>8. ASSUME Exit \/ Crash PROVE Scalars'
  BY <1>0, <1>1, <1>8 DEF Exit, Crash, Close, Scalars
<1>9. ASSUME UNCHANGED vars PROVE Scalars'
  BY <1>0, <1>9 DEF vars, Scalars, faultVars
<1> QED
  BY <1>2, <1>3, <1>4, <1>5, <1>6, <1>7, <1>8, <1>9 DEF Next

LEMMA StoresStep == TypeOK /\ Budget /\ StreamState /\ [Next]_vars => Stores'
<1> SUFFICES ASSUME TypeOK, Budget, StreamState, [Next]_vars PROVE Stores'
  OBVIOUS
<1>0. Stores
  BY TypeParts
<1>1. ASSUME Close, UNCHANGED backup PROVE Stores'
  <2>1. \A r \in Record : Extended(active, r) \in File /\ Append(kept, r) \in Seq(Record)
    BY <1>0, ExtendedFacts DEF Stores
  <2> QED
    BY <1>0, <1>1, <2>1, CloseEffect DEF Stores
<1>2. ASSUME Start \/ RemoveBackup PROVE Stores'
  BY <1>0, <1>2, NoFileFacts DEF Start, RemoveBackup, fileVars, Stores
<1>3. ASSUME NEW bytes \in RecordSizes, Log(bytes) PROVE Stores'
  BY <1>0, <1>1, <1>3, LogEffect DEF Stores, Log
<1>4. ASSUME MoveActive PROVE Stores'
  BY <1>0, <1>4, NoFileFacts DEF MoveActive, Stores
<1>5. ASSUME Create PROVE Stores'
  BY <1>0, <1>5, NoFileFacts DEF Create, StreamState, Stores
<1>6. ASSUME Reopen \/ Open PROVE Stores'
  <2>1. stream # "bad" /\ [active EXCEPT !.exists = TRUE] \in File
    BY <1>0, <1>6, FileFacts DEF Stores, StreamState, Reopen, Open
  <2>2. active' \in File
    BY <1>0, <1>6, <2>1, OpenEffect DEF Stores
  <2> QED
    BY <1>0, <1>6, <2>1, <2>2, OpenEffect DEF Stores
<1>7. ASSUME Write PROVE Stores'
  <2>1. NewRecord \in Record /\ NewRecord # None
    BY <1>7, NewRecordFacts DEF Write
  <2>2. Extended(active, NewRecord) \in File /\ Append(kept, NewRecord) \in Seq(Record)
    BY <1>0, <2>1, ExtendedFacts DEF Stores
  <2>3. active' \in File /\ kept' \in Seq(Record) /\ backup' = backup
    BY <1>0, <1>7, <2>2, WriteEffect DEF Stores
  <2>4. buffered' \in Record \cup {None} /\ (buffered' # None => stream' = "bad")
    BY <1>0, <1>7, <2>1, WriteEffect DEF Stores
  <2> QED
    BY <1>0, <2>3, <2>4 DEF Stores
<1>8. ASSUME Exit \/ Crash PROVE Stores'
  BY <1>0, <1>1, <1>8 DEF Exit, Crash, fileVars, Stores
<1>9. ASSUME UNCHANGED vars PROVE Stores'
  BY <1>0, <1>9 DEF vars, fileVars, Stores
<1> QED
  BY <1>2, <1>3, <1>4, <1>5, <1>6, <1>7, <1>8, <1>9 DEF Next

LEMMA InitInv == Init => IInv
<1> SUFFICES ASSUME Init PROVE IInv
  OBVIOUS
<1>1. TypeOK
  BY LongestFacts, NoFileFacts DEF Init, TypeOK
<1>2. Budget
  BY LongestFacts DEF Init, Budget
<1>3. StreamState /\ Sized /\ Lost
  <2>1. /\ active.bytes = 0 /\ backup.bytes = 0 /\ stream = "closed" /\ dropped = 0
        /\ pc = "down" /\ 0 <= MaxLogFileSize
    BY LongestFacts, NoFileFacts DEF Init
  <2>2. active.bytes <= MaxLogFileSize /\ backup.bytes <= MaxLogFileSize
        /\ dropped <= MaxLogFileSize
    BY <2>1
  <2>3. Sized
    BY <2>1, <2>2 DEF Sized
  <2> QED
    BY <2>1, <2>2, <2>3 DEF StreamState, Lost
<1>4. Kept
  <2>1. /\ kept = <<>> /\ backup.records = <<>> /\ active.records = <<>>
        /\ active.bytes = 0 /\ buffered.end = 0 /\ total = 0 /\ pc = "down"
    BY NoFileFacts DEF Init
  <2>2. Len(kept) = 0 /\ Len(backup.records) = 0 /\ Len(active.records) = 0
    BY <2>1
  <2>3. Gone = 0 /\ EndsWith(kept, backup.records, active.records)
    BY <2>2 DEF Gone, Ahead, EndsWith
  <2> QED
    BY <2>1, <2>2, <2>3 DEF Kept, OnFiles, Followed
<1> QED
  BY <1>1, <1>2, <1>3, <1>4 DEF IInv

LEMMA BudgetStep == TypeOK /\ Budget /\ [Next]_vars => Budget'
<1> SUFFICES ASSUME TypeOK, Budget, [Next]_vars PROVE Budget'
  OBVIOUS
<1>0. /\ total \in Nat /\ logged \in Nat /\ incoming \in Nat /\ Longest \in Nat
      /\ logged * Longest \in Nat
      /\ (logged + 1) * Longest = logged * Longest + Longest
  BY LongestFacts, Products DEF TypeOK
<1>1. ASSUME NEW bytes \in RecordSizes, Log(bytes) PROVE Budget'
  <2>1. /\ pc' \in {"remove", "write"} /\ incoming' = bytes /\ total' = total
        /\ logged' = logged + 1
    BY <1>1, LogEffect
  <2>2. bytes <= Longest /\ bytes \in 1 .. MaxLogFileSize
    BY LongestFacts
  <2>3. logged' * Longest = logged * Longest + Longest
    BY <1>0, <2>1
  <2>4. total' <= logged' * Longest /\ total' + incoming' <= logged' * Longest
    BY <1>0, <2>1, <2>2, <2>3, LongestFacts DEF Budget
  <2>5. incoming' # 0
    BY <2>1, <2>2
  <2> QED
    BY <2>4, <2>5 DEF Budget
<1>2. ASSUME Start \/ RemoveBackup \/ MoveActive \/ Create \/ Reopen \/ Open
      PROVE  Budget'
  <2>1. /\ total' = total /\ logged' = logged
        /\ incoming' = 0 \/ (incoming' = incoming /\ pc \notin {"down", "idle"})
        /\ pc' = "write" => incoming' # 0
    BY <1>2 DEF Start, RemoveBackup, MoveActive, Create, Reopen, Open, OpenLogFile, Return
  <2> QED
    BY <2>1 DEF Budget
<1>3. ASSUME Write PROVE Budget'
  <2>1. /\ pc = "write" /\ pc' = "idle" /\ logged' = logged
        /\ total' = total \/ total' = total + incoming
    BY <1>3, WriteEffect
  <2> QED
    BY <2>1 DEF Budget
<1>4. ASSUME Exit \/ Crash PROVE Budget'
  BY <1>4 DEF Exit, Crash, Budget
<1>5. ASSUME UNCHANGED vars PROVE Budget'
  BY <1>5 DEF vars, Budget
<1> QED
  BY <1>1, <1>2, <1>3, <1>4, <1>5 DEF Next

LEMMA StreamStep == TypeOK /\ StreamState /\ [Next]_vars => StreamState'
<1> SUFFICES ASSUME TypeOK, StreamState, [Next]_vars PROVE StreamState'
  OBVIOUS
<1>1. ASSUME Start \/ RemoveBackup \/ MoveActive PROVE StreamState'
  BY <1>1 DEF Start, RemoveBackup, MoveActive, Fails, StreamState
<1>2. ASSUME NEW bytes \in RecordSizes, Log(bytes) PROVE StreamState'
  <2>1. (pc' = "remove" /\ stream' = "closed") \/ pc' = "write"
    BY <1>2 DEF Log, Close
  <2> QED
    BY <2>1 DEF StreamState
<1>3. ASSUME Create \/ Reopen \/ Open PROVE StreamState'
  <2>1. pc' \in {"write", "open", "idle"} /\ stream' \in {"good", "closed"}
    BY <1>3 DEF Create, Return, Reopen, Open, OpenLogFile
  <2> QED
    BY <2>1 DEF StreamState
<1>4. ASSUME Write \/ Exit \/ Crash PROVE StreamState'
  BY <1>4 DEF Write, Exit, Crash, Close, StreamState
<1>5. ASSUME UNCHANGED vars PROVE StreamState'
  BY <1>5 DEF vars, faultVars, StreamState
<1> QED
  BY <1>1, <1>2, <1>3, <1>4, <1>5 DEF Next

LEMMA SizedStep == TypeOK /\ StreamState /\ Sized /\ [Next]_vars => Sized'
<1> SUFFICES ASSUME TypeOK, StreamState, Sized, [Next]_vars,
                    failed' \cap {"rename", "size"} = {}
             PROVE  /\ active'.bytes <= MaxLogFileSize /\ backup'.bytes <= MaxLogFileSize
                    /\ stream' # "closed" =>
                         /\ active'.bytes + buffered'.bytes <= count'
                         /\ count' <= MaxLogFileSize
                         /\ pc' = "write" => count' + incoming' <= MaxLogFileSize
  BY DEF Sized
<1> DEFINE Goal == /\ active'.bytes <= MaxLogFileSize /\ backup'.bytes <= MaxLogFileSize
                   /\ stream' # "closed" =>
                        /\ active'.bytes + buffered'.bytes <= count'
                        /\ count' <= MaxLogFileSize
                        /\ pc' = "write" => count' + incoming' <= MaxLogFileSize
<1>0. /\ active \in File /\ backup \in File
      /\ active.bytes \in Nat /\ backup.bytes \in Nat /\ count \in Nat
      /\ incoming \in 0 .. MaxLogFileSize /\ MaxLogFileSize \in Nat
  <2>1. active \in File /\ backup \in File /\ count \in Nat /\ incoming \in RecordSizes \cup {0}
    BY DEF TypeOK
  <2>2. incoming \in 0 .. MaxLogFileSize /\ MaxLogFileSize \in Nat
    BY <2>1, LongestFacts
  <2> QED
    BY <2>1, <2>2, FileFacts
<1>1. /\ active.bytes <= MaxLogFileSize /\ backup.bytes <= MaxLogFileSize
      /\ stream # "closed" =>
           /\ active.bytes + buffered.bytes <= count
           /\ count <= MaxLogFileSize
           /\ pc = "write" => count + incoming <= MaxLogFileSize
      /\ "rename" \notin failed' /\ "size" \notin failed'
  <2>1. failed \subseteq failed'
    BY FaultStep DEF TypeOK
  <2> QED
    BY <2>1 DEF Sized
<1>2. stream # "bad" => buffered = None /\ buffered.bytes = 0
  BY NoFileFacts DEF TypeOK
<1>3. ASSUME Close, UNCHANGED backup PROVE Goal
  <2>1. CASE UNCHANGED active
    BY <1>1, <1>3, <2>1, CloseEffect
  <2>2. CASE buffered \in Record /\ stream = "bad" /\ active' = Extended(active, buffered)
    <3>1. active'.bytes = active.bytes + buffered.bytes /\ buffered.bytes \in Nat
      BY <1>0, <2>2, ExtendedFacts, RecordFacts
    <3>2. stream' = "closed" /\ backup' = backup
      BY <1>3, CloseEffect
    <3>3. active.bytes + buffered.bytes <= MaxLogFileSize
      BY <1>0, <1>1, <2>2, <3>1
    <3> QED
      BY <1>1, <3>1, <3>2, <3>3
  <2> QED
    BY <1>3, <2>1, <2>2, CloseEffect
<1>4. ASSUME Start \/ RemoveBackup \/ MoveActive PROVE Goal
  <2>1. stream' = "closed"
    BY <1>4 DEF Start, RemoveBackup, MoveActive, StreamState
  <2>2. active' \in {active, NoFile} /\ backup' \in {active, backup, NoFile}
    BY <1>4 DEF Start, RemoveBackup, MoveActive, fileVars
  <2> QED
    BY <1>0, <1>1, <2>1, <2>2, NoFileFacts
<1>5. ASSUME NEW bytes \in RecordSizes, Log(bytes) PROVE Goal
  <2>1. CASE Close
    BY <1>3, <1>5, <2>1, LogEffect
  <2>2. CASE count + bytes <= MaxLogFileSize /\ UNCHANGED <<stream, buffered, active>>
    BY <1>1, <1>5, <2>2, LogEffect
  <2> QED
    BY <1>5, <2>1, <2>2, LogEffect
<1>6. ASSUME Create PROVE Goal
  <2>1. stream = "closed"
    BY <1>6 DEF Create, StreamState
  <2>2. \/ active' = EmptyFile
        \/ active' = active /\ stream' = "closed"
    BY <1>6 DEF Create
  <2>3. count' = 0 /\ incoming' = incoming /\ buffered' = buffered /\ backup' = backup
    BY <1>6 DEF Create
  <2> QED
    BY <1>0, <1>1, <1>2, <2>1, <2>2, <2>3, NoFileFacts
<1>7. ASSUME Reopen \/ Open PROVE Goal
  <2>1. pc # "reopen" /\ stream # "bad" /\ pc' # "write"
    <3>1. failed \subseteq failed'
      BY FaultStep DEF TypeOK
    <3>2. pc # "reopen"
      BY <1>1, <3>1 DEF StreamState
    <3> QED
      BY <1>7, <3>2 DEF Reopen, Open, StreamState
  <2>2. \/ active'.bytes = active.bytes /\ stream' = "good" /\ count' = active.bytes
        \/ active' = active /\ stream' = "closed"
    BY <1>0, <1>1, <1>7, OpenEffect, FileFacts
  <2> QED
    BY <1>0, <1>1, <1>2, <1>7, <2>1, <2>2, OpenEffect
<1>8. ASSUME Write PROVE Goal
  <2>1. /\ pc = "write" /\ pc' = "idle" /\ backup' = backup
    BY <1>8, WriteEffect
  <2>2. CASE UNCHANGED <<stream, buffered, count, active>>
    BY <1>1, <2>1, <2>2
  <2>3. CASE /\ stream = "good" /\ active' = Extended(active, NewRecord)
             /\ count' = count + incoming /\ UNCHANGED buffered
    <3>1. active'.bytes = active.bytes + incoming
      <4>1. NewRecord.bytes = incoming
        BY DEF NewRecord
      <4> QED
        BY <2>3, <4>1, <1>0 DEF Extended, File
    <3> QED
      BY <1>0, <1>1, <1>2, <2>1, <2>3, <3>1
  <2>4. CASE /\ stream = "good" /\ buffered' = NewRecord
             /\ count' = count + incoming /\ UNCHANGED active
    <3>1. buffered'.bytes = incoming
      BY <2>4 DEF NewRecord
    <3> QED
      BY <1>0, <1>1, <1>2, <2>1, <2>4, <3>1
  <2>5. CASE /\ stream = "bad" /\ count' = count + incoming /\ UNCHANGED <<buffered, active>>
    <3>1. buffered.bytes \in Nat
      BY NoFileFacts, LongestFacts DEF TypeOK, Record
    <3> QED
      BY <1>0, <1>1, <2>1, <2>5, <3>1
  <2> QED
    BY <1>8, <2>2, <2>3, <2>4, <2>5, WriteEffect
<1>9. ASSUME Exit \/ Crash PROVE Goal
  BY <1>1, <1>3, <1>9 DEF Exit, Crash, fileVars
<1>10. ASSUME UNCHANGED vars PROVE Goal
  BY <1>1, <1>10 DEF vars, fileVars
<1> QED
  BY <1>4, <1>5, <1>6, <1>7, <1>8, <1>9, <1>10 DEF Next

LEMMA LostStep == TypeOK /\ Budget /\ StreamState /\ Lost /\ [Next]_vars => Lost'
<1> SUFFICES ASSUME TypeOK, Budget, StreamState, Lost, [Next]_vars PROVE Lost'
  OBVIOUS
<1>0. /\ count \in Nat /\ dropped \in Nat /\ MaxLogFileSize \in Nat
  BY LongestFacts DEF TypeOK
<1>1. ASSUME stream' # "bad", dropped' = dropped \/ dropped' = 0 PROVE Lost'
  BY <1>0, <1>1 DEF Lost
<1>2. ASSUME Start \/ RemoveBackup \/ MoveActive \/ Create \/ Reopen \/ Open
      PROVE  Lost'
  BY <1>1, <1>2 DEF Start, RemoveBackup, MoveActive, Create, Reopen, Open, OpenLogFile,
    StreamState
<1>3. ASSUME NEW bytes \in RecordSizes, Log(bytes) PROVE Lost'
  <2>1. CASE dropped' = 0 /\ Close
    BY <1>1, <2>1 DEF Close
  <2>2. CASE count + bytes <= MaxLogFileSize /\ UNCHANGED <<stream, dropped>>
    BY <1>3, <2>2, LogEffect DEF Lost
  <2> QED
    BY <1>3, <2>1, <2>2, LogEffect
<1>4. ASSUME Write PROVE Lost'
  <2>1. /\ pc = "write" /\ pc' = "idle" /\ incoming \in 1 .. MaxLogFileSize
    BY <1>4, NewRecordFacts, WriteEffect
  <2>2. CASE UNCHANGED <<stream, count, dropped>>
    BY <2>1, <2>2 DEF Lost
  <2>3. CASE stream' = "good" /\ UNCHANGED dropped
    BY <2>3, <1>1
  <2>4. CASE dropped' = incoming /\ count' = count + incoming
    BY <1>0, <2>1, <2>4 DEF Lost
  <2>5. CASE stream = "bad" /\ count' = count + incoming /\ dropped' = dropped + incoming
    BY <1>0, <2>1, <2>5 DEF Lost
  <2> QED
    BY <1>4, <2>2, <2>3, <2>4, <2>5, WriteEffect
<1>5. ASSUME Exit \/ Crash PROVE Lost'
  BY <1>1, <1>5 DEF Exit, Crash, Close
<1>6. ASSUME UNCHANGED vars PROVE Lost'
  BY <1>6 DEF vars, Lost
<1> QED
  BY <1>2, <1>3, <1>4, <1>5, <1>6 DEF Next

-----------------------------------------------------------------------------
(* The records on file and the records kept.                               *)
LEMMA AppendAt ==
  ASSUME NEW S, NEW s \in Seq(S), NEW e \in S
  PROVE  /\ Len(Append(s, e)) = Len(s) + 1
         /\ \A i \in 1 .. Len(s) : Append(s, e)[i] = s[i]
         /\ Append(s, e)[Len(s) + 1] = e
OBVIOUS

LEMMA EndsWithFacts ==
  ASSUME NEW S, NEW k \in Seq(S), NEW b \in Seq(S), NEW a \in Seq(S), EndsWith(k, b, a)
  PROVE  /\ Ahead(k, b, a) \in Nat
         /\ Len(k) = Ahead(k, b, a) + Len(b) + Len(a)
         /\ \A i \in 1 .. Len(b) :
              Ahead(k, b, a) + i \in 1 .. Len(k) /\ k[Ahead(k, b, a) + i] = b[i]
         /\ \A i \in 1 .. Len(a) :
              /\ Ahead(k, b, a) + Len(b) + i \in 1 .. Len(k)
              /\ k[Ahead(k, b, a) + Len(b) + i] = a[i]
<1>1. Len(k) \in Nat /\ Len(b) \in Nat /\ Len(a) \in Nat
  OBVIOUS
<1>2. PICK g \in Int : g = Ahead(k, b, a)
  <2>1. Ahead(k, b, a) \in Int
    BY <1>1 DEF Ahead
  <2> QED
    BY <2>1
<1>3. g \in Nat /\ Len(k) = g + Len(b) + Len(a)
  BY <1>1, <1>2 DEF EndsWith, Ahead
<1> QED
  BY <1>1, <1>2, <1>3, SMTT(20) DEF EndsWith

LEMMA EndsWithHolds ==
  ASSUME NEW S, NEW k \in Seq(S), NEW b \in Seq(S), NEW a \in Seq(S), EndsWith(k, b, a)
  PROVE  /\ \A i \in 1 .. Len(b) : \E j \in 1 .. Len(k) : k[j] = b[i]
         /\ \A i \in 1 .. Len(a) : \E j \in 1 .. Len(k) : k[j] = a[i]
<1>1. ASSUME NEW i \in 1 .. Len(b) PROVE \E j \in 1 .. Len(k) : k[j] = b[i]
  <2>1. Ahead(k, b, a) + i \in 1 .. Len(k)
    BY EndsWithFacts
  <2>2. k[Ahead(k, b, a) + i] = b[i]
    BY EndsWithFacts
  <2> QED
    BY <2>1, <2>2
<1>2. ASSUME NEW i \in 1 .. Len(a) PROVE \E j \in 1 .. Len(k) : k[j] = a[i]
  <2>1. Ahead(k, b, a) + Len(b) + i \in 1 .. Len(k)
    BY EndsWithFacts
  <2>2. k[Ahead(k, b, a) + Len(b) + i] = a[i]
    BY EndsWithFacts
  <2> QED
    BY <2>1, <2>2
<1> QED
  BY <1>1, <1>2

LEMMA EndsWithAppend ==
  ASSUME NEW S, NEW k \in Seq(S), NEW b \in Seq(S), NEW a \in Seq(S), NEW r \in S,
         EndsWith(k, b, a)
  PROVE  /\ EndsWith(Append(k, r), b, Append(a, r))
         /\ Ahead(Append(k, r), b, Append(a, r)) = Ahead(k, b, a)
<1> DEFINE k1 == Append(k, r)
           a1 == Append(a, r)
<1>1. /\ Len(k1) = Len(k) + 1 /\ k1[Len(k) + 1] = r
      /\ \A i \in 1 .. Len(k) : k1[i] = k[i]
      /\ Len(a1) = Len(a) + 1 /\ a1[Len(a) + 1] = r
      /\ \A i \in 1 .. Len(a) : a1[i] = a[i]
  BY AppendAt
<1>2. Len(k) \in Nat /\ Len(b) \in Nat /\ Len(a) \in Nat
  OBVIOUS
<1> HIDE DEF k1, a1
<1>3. PICK g \in Nat : g = Ahead(k, b, a) /\ Len(k) = g + Len(b) + Len(a)
  BY EndsWithFacts
<1>4. Ahead(k1, b, a1) = g
  BY <1>1, <1>2, <1>3 DEF Ahead
<1>5. \A i \in 1 .. Len(b) : k1[g + i] = b[i]
  BY <1>1, <1>2, <1>3, EndsWithFacts, SMTT(20)
<1>6. ASSUME NEW i \in 1 .. Len(a1) PROVE k1[g + Len(b) + i] = a1[i]
  <2>1. CASE i = Len(a) + 1
    BY <1>1, <1>2, <1>3, <2>1
  <2>2. CASE i \in 1 .. Len(a)
    BY <1>1, <1>2, <1>3, <2>2, EndsWithFacts, SMTT(20)
  <2> QED
    BY <1>1, <1>2, <2>1, <2>2
<1> QED
  BY <1>3, <1>4, <1>5, <1>6 DEF EndsWith, k1, a1

(* A rotation: the backup goes, the active file takes its place.           *)
LEMMA EndsWithShift ==
  ASSUME NEW S, NEW k \in Seq(S), NEW b \in Seq(S), NEW a \in Seq(S), EndsWith(k, b, a)
  PROVE  /\ EndsWith(k, <<>>, a) /\ EndsWith(k, a, <<>>)
         /\ Ahead(k, <<>>, a) = Ahead(k, b, a) + Len(b)
         /\ Ahead(k, a, <<>>) = Ahead(k, b, a) + Len(b)
<1>1. PICK e \in Seq(S) : e = <<>> /\ Len(e) = 0
  <2>1. <<>> \in Seq(S) /\ Len(<<>>) = 0
    OBVIOUS
  <2> QED
    BY <2>1
<1>2. Len(k) \in Nat /\ Len(b) \in Nat /\ Len(a) \in Nat
  OBVIOUS
<1>3. PICK g \in Nat : g = Ahead(k, b, a) /\ Len(k) = g + Len(b) + Len(a)
  BY EndsWithFacts
<1>4. Ahead(k, e, a) = g + Len(b) /\ Ahead(k, a, e) = g + Len(b)
  BY <1>1, <1>2, <1>3 DEF Ahead
<1>5. \A i \in 1 .. Len(a) : k[(g + Len(b)) + i] = a[i]
  BY <1>2, <1>3, EndsWithFacts
<1>6. EndsWith(k, e, a) /\ EndsWith(k, a, e)
  BY <1>1, <1>2, <1>3, <1>4, <1>5 DEF EndsWith
<1> QED
  BY <1>1, <1>3, <1>4, <1>6

LEMMA Lengths ==
  ASSUME TypeOK
  PROVE  /\ kept \in Seq(Record) /\ backup.records \in Seq(Record)
         /\ active.records \in Seq(Record)
         /\ Len(backup.records) \in Nat
         /\ \A i \in 1 .. Len(kept) : kept[i].end \in Nat
         /\ \A i \in 1 .. Len(backup.records) : backup.records[i].end \in Nat
         /\ OnFiles => Gone \in Nat
<1>1. kept \in Seq(Record) /\ backup.records \in Seq(Record) /\ active.records \in Seq(Record)
  BY FileFacts DEF TypeOK
<1>2. /\ Len(backup.records) \in Nat
      /\ \A i \in 1 .. Len(kept) : kept[i] \in Record
      /\ \A i \in 1 .. Len(backup.records) : backup.records[i] \in Record
  BY <1>1
<1>3. OnFiles => Gone \in Nat
  BY <1>1, EndsWithFacts DEF OnFiles, Gone
<1> QED
  BY <1>1, <1>2, <1>3, RecordFacts

(* When the old backup goes, its records are as far behind as they must    *)
(* be: currentFileSize_ and the next record exceed the limit.              *)
LEMMA OldBackup ==
  ASSUME TypeOK, OnFiles, Followed, pc \in {"remove", "move"}
  PROVE  \A i \in 1 .. (Gone + Len(backup.records)) :
           total - kept[i].end > MaxLogFileSize - Longest
<1>1. /\ count \in Nat /\ incoming \in Nat /\ incoming <= Longest /\ total \in Nat
      /\ MaxLogFileSize \in Nat /\ Longest \in Nat
      /\ count + incoming > MaxLogFileSize /\ pc # "create"
  BY LongestFacts DEF TypeOK, Followed
<1>2. Gone \in Nat /\ Len(backup.records) \in Nat
  BY Lengths
<1> SUFFICES ASSUME NEW i \in 1 .. (Gone + Len(backup.records))
             PROVE  total - kept[i].end > MaxLogFileSize - Longest
  OBVIOUS
<1>3. CASE i \in 1 .. Gone
  BY <1>3 DEF Followed
<1>4. CASE i \notin 1 .. Gone
  <2>1. i - Gone \in 1 .. Len(backup.records) /\ i = Gone + (i - Gone)
    BY <1>2, <1>4
  <2>2. kept[i] = backup.records[i - Gone]
    BY <2>1, Lengths, EndsWithFacts DEF OnFiles, Gone
  <2>3. count <= total - kept[i].end /\ kept[i].end \in Nat
    BY <1>1, <2>1, <2>2, Lengths DEF Followed
  <2> QED
    BY <1>1, <2>3
<1> QED
  BY <1>3, <1>4

-----------------------------------------------------------------------------
(* The steps that leave the records alone: what is asked of the new values *)
(* of the other variables.                                                 *)
LEMMA FollowedSame ==
  ASSUME TypeOK, OnFiles, Followed,
         kept' = kept, backup'.records = backup.records,
         active'.records = active.records, active'.bytes = active.bytes,
         total' = total, pc' # "create",
         buffered' \in {buffered, None},
         \/ pc # "create" /\ count' = count
         \/ count' = 0
         \/ pc # "create" /\ count' = active.bytes,
         pc' \in {"remove", "move"} => count' + incoming' > MaxLogFileSize
  PROVE  OnFiles' /\ Followed'
<1>1. OnFiles' /\ Gone' = Gone
  BY DEF OnFiles, Gone
<1>2. /\ count \in Nat /\ total \in Nat /\ active.bytes \in Nat
      /\ buffered.bytes \in Nat /\ buffered.end \in Nat
  BY FileFacts, RecordFacts DEF TypeOK
<1>3. /\ buffered'.bytes \in Nat /\ buffered'.bytes <= buffered.bytes
      /\ buffered'.end <= total
  BY <1>2, NoFileFacts DEF Followed
<1>4. ASSUME NEW i \in 1 .. Len(backup.records)
      PROVE  /\ active.bytes + buffered'.bytes <= total - backup.records[i].end
             /\ count' <= total - backup.records[i].end
  <2>1. PICK d \in Int : d = total - backup.records[i].end
    <3>1. total - backup.records[i].end \in Int
      BY <1>2, Lengths
    <3> QED
      BY <3>1
  <2>2. active.bytes + buffered.bytes <= d /\ (pc # "create" => count <= d)
    BY <2>1 DEF Followed
  <2>3. PICK a \in Nat, b \in Nat, c \in Nat :
          a = active.bytes /\ b = buffered.bytes /\ c = buffered'.bytes
    BY <1>2, <1>3
  <2>4. a + b <= d /\ c <= b
    BY <1>3, <2>2, <2>3
  <2>5. a + c <= d /\ a <= d /\ 0 <= d
    BY <2>4
  <2>6. count' <= d
    BY <2>2, <2>3, <2>5
  <2> QED
    BY <2>1, <2>3, <2>5, <2>6
<1> QED
  BY <1>1, <1>3, <1>4 DEF Followed

(* The steps that count d more bytes and add n bytes to the active file.   *)
LEMMA FollowedMore ==
  ASSUME TypeOK, OnFiles, Followed, pc # "create", pc' # "create",
         NEW d \in Nat, NEW n \in Nat, NEW t \in Nat, NEW c \in Nat, NEW b \in Nat,
         backup' = backup, total' = t, t = total + d,
         count' = c, c <= count + d,
         buffered'.bytes = b, n + b <= buffered.bytes + d, buffered'.end <= t,
         \/ n = 0 /\ kept' = kept /\ active' = active
         \/ \E r \in Record : /\ n = r.bytes /\ r.end <= t
                              /\ active' = Extended(active, r)
                              /\ kept' = Append(kept, r),
         pc' \in {"remove", "move"} => c + incoming' > MaxLogFileSize
  PROVE  OnFiles' /\ Followed'
<1>1. /\ count \in Nat /\ total \in Nat /\ active.bytes \in Nat /\ active \in File
      /\ buffered.bytes \in Nat /\ MaxLogFileSize \in Nat /\ Longest \in Nat
  BY FileFacts, RecordFacts, LongestFacts DEF TypeOK
<1>2. total <= t
  BY <1>1
<1>3. /\ OnFiles' /\ Gone' = Gone
      /\ active'.bytes = active.bytes + n
      /\ \A i \in 1 .. Len(kept') : kept'[i].end <= t
      /\ \A i \in 1 .. Gone : kept'[i] = kept[i] /\ i \in 1 .. Len(kept)
  <2>0. \A i \in 1 .. Len(kept) : kept[i].end \in Nat /\ kept[i].end <= t
    <3> SUFFICES ASSUME NEW i \in 1 .. Len(kept)
                 PROVE  kept[i].end \in Nat /\ kept[i].end <= t
      OBVIOUS
    <3>1. PICK e \in Nat : e = kept[i].end
      BY Lengths
    <3>2. e <= total
      BY <3>1 DEF Followed
    <3> QED
      BY <1>1, <1>2, <3>1, <3>2
  <2>1. Gone \in Nat /\ \A i \in 1 .. Gone : i \in 1 .. Len(kept)
    BY Lengths, EndsWithFacts, SMTT(20) DEF OnFiles, Gone
  <2>2. CASE n = 0 /\ kept' = kept /\ active' = active
    BY <1>1, <2>0, <2>1, <2>2 DEF OnFiles, Gone
  <2>3. ASSUME NEW r \in Record, n = r.bytes, r.end <= t,
               active' = Extended(active, r), kept' = Append(kept, r)
        PROVE  /\ OnFiles' /\ Gone' = Gone
               /\ active'.bytes = active.bytes + n
               /\ \A i \in 1 .. Len(kept') : kept'[i].end <= t
               /\ \A i \in 1 .. Gone : kept'[i] = kept[i] /\ i \in 1 .. Len(kept)
    <3>1. /\ active'.records = Append(active.records, r)
          /\ active'.bytes = active.bytes + n
      BY <1>1, <2>3, ExtendedFacts
    <3>2. OnFiles' /\ Gone' = Gone
      BY <2>3, <3>1, Lengths, EndsWithAppend DEF OnFiles, Gone
    <3>3. /\ Len(kept') = Len(kept) + 1 /\ kept'[Len(kept) + 1] = r
          /\ \A i \in 1 .. Len(kept) : kept'[i] = kept[i]
          /\ Len(kept) \in Nat
      BY <2>3, Lengths, AppendAt
    <3> QED
      BY <1>2, <2>0, <2>1, <2>3, <3>1, <3>2, <3>3, SMTT(20)
  <2> QED
    BY <2>2, <2>3, Zenon
<1>4. ASSUME NEW i \in 1 .. Len(backup.records)
      PROVE  /\ active'.bytes + b <= t - backup.records[i].end
             /\ c <= t - backup.records[i].end
  <2>1. PICK e \in Nat : e = backup.records[i].end
    BY Lengths
  <2>2. PICK a \in Nat, b0 \in Nat, c0 \in Nat :
          /\ a = active.bytes /\ b0 = buffered.bytes /\ c0 = count
    BY <1>1
  <2>3. a + b0 <= total - e /\ c0 <= total - e
    BY <2>1, <2>2 DEF Followed
  <2>4. n + b <= b0 + d /\ c <= c0 + d
    BY <2>2
  <2>5. (a + n) + b <= t - e /\ c <= t - e
    BY <1>1, <2>3, <2>4
  <2>6. active'.bytes = a + n
    BY <1>3, <2>2
  <2> QED
    BY <2>1, <2>5, <2>6
<1>5. ASSUME NEW i \in 1 .. Gone
      PROVE  t - kept'[i].end > MaxLogFileSize - Longest
  <2>1. PICK e \in Nat : e = kept[i].end
    BY <1>3, Lengths
  <2>2. total - e > MaxLogFileSize - Longest
    BY <2>1 DEF Followed
  <2>3. t - e > MaxLogFileSize - Longest
    BY <1>1, <1>2, <2>2
  <2>4. kept'[i].end = e
    BY <1>3, <2>1
  <2> QED
    BY <2>3, <2>4
<1> QED
  BY <1>3, <1>4, <1>5 DEF Followed

LEMMA KeptStep == TypeOK /\ Budget /\ StreamState /\ Kept /\ [Next]_vars => Kept'
<1> SUFFICES ASSUME TypeOK, Budget, StreamState, Kept, [Next]_vars, "exists" \notin failed'
             PROVE  OnFiles' /\ Followed'
  BY DEF Kept
<1>0. /\ count \in Nat /\ total \in Nat /\ incoming \in Nat
      /\ buffered.bytes \in Nat /\ buffered.end \in Nat /\ MaxLogFileSize \in Nat
      /\ active \in File /\ backup \in File /\ active.bytes \in Nat
      /\ None.bytes = 0 /\ None.end = 0
  <2>1. /\ count \in Nat /\ total \in Nat /\ incoming \in RecordSizes \cup {0}
        /\ active \in File /\ backup \in File
    BY DEF TypeOK
  <2>2. buffered.bytes \in Nat /\ buffered.end \in Nat
    BY RecordFacts
  <2>3. incoming \in Nat /\ MaxLogFileSize \in Nat
    BY <2>1, LongestFacts
  <2>4. active.bytes \in Nat
    BY <2>1, FileFacts
  <2> QED
    BY <2>1, <2>2, <2>3, <2>4, NoFileFacts
<1>1. OnFiles /\ Followed
  <2>1. failed \subseteq failed'
    BY FaultStep DEF TypeOK
  <2> QED
    BY <2>1 DEF Kept
<1>2. ASSUME Close, UNCHANGED <<backup, total>>, pc # "create", pc' # "create",
             count' \in {count, 0},
             pc' = "remove" => count' + incoming' > MaxLogFileSize, pc' # "move"
      PROVE  OnFiles' /\ Followed'
  <2>1. CASE UNCHANGED <<active, kept>>
    BY <1>1, <1>2, <2>1, FollowedSame, CloseEffect
  <2>2. CASE /\ buffered \in Record
             /\ active' = Extended(active, buffered)
             /\ kept' = Append(kept, buffered)
    <3>1. PICK n \in Nat, t \in Nat, c \in Nat :
            n = buffered.bytes /\ t = total /\ c = count'
      BY <1>0, <1>2
    <3>2. buffered' = None /\ buffered'.bytes = 0 /\ buffered'.end = 0
      BY <1>0, <1>2, CloseEffect
    <3>3. buffered.end <= t /\ c <= count + 0 /\ t = total + 0 /\ n + 0 <= buffered.bytes + 0
      BY <1>0, <1>1, <1>2, <3>1 DEF Followed
    <3>4. \E r \in Record : /\ n = r.bytes /\ r.end <= t
                            /\ active' = Extended(active, r)
                            /\ kept' = Append(kept, r)
      BY <2>2, <3>1, <3>3
    <3>5. /\ 0 \in Nat /\ backup' = backup /\ total' = t /\ count' = c
          /\ buffered'.bytes = 0 /\ buffered'.end <= t
          /\ pc' \in {"remove", "move"} => c + incoming' > MaxLogFileSize
      BY <1>0, <1>2, <3>1, <3>2
    <3> QED
      BY <1>1, <1>2, <3>3, <3>4, <3>5, FollowedMore
  <2> QED
    BY <1>2, <2>1, <2>2, CloseEffect
<1>3. ASSUME Start PROVE OnFiles' /\ Followed'
  <2>1. /\ UNCHANGED <<kept, backup, active, total, buffered>>
        /\ pc = "down" /\ pc' \in {"remove", "open"} /\ count' \in {active.bytes, 0}
        /\ incoming' = 0
        /\ pc' = "remove" => count' >= MaxLogFileSize /\ Exceeds(count', 0)
    BY <1>3 DEF Start, fileVars
  <2>2. pc' = "remove" => count' + incoming' > MaxLogFileSize
    BY <2>1 DEF Exceeds
  <2> QED
    BY <1>1, <2>1, <2>2, FollowedSame
<1>4. ASSUME NEW bytes \in RecordSizes, Log(bytes) PROVE OnFiles' /\ Followed'
  <2>1. /\ pc = "idle" /\ incoming' = bytes /\ UNCHANGED <<count, backup, total>>
        /\ \/ pc' = "remove" /\ count + bytes > MaxLogFileSize /\ Close
           \/ pc' = "write" /\ UNCHANGED <<buffered, active, kept>>
    BY <1>4, LogEffect
  <2>2. CASE pc' = "remove" /\ count + bytes > MaxLogFileSize /\ Close
    BY <1>2, <2>1, <2>2
  <2>3. CASE pc' = "write" /\ UNCHANGED <<buffered, active, kept>>
    BY <1>1, <2>1, <2>3, FollowedSame
  <2> QED
    BY <2>1, <2>2, <2>3
<1>5. ASSUME Reopen \/ Open PROVE OnFiles' /\ Followed'
  <2>1. /\ UNCHANGED <<kept, backup, total, buffered>>
        /\ active'.records = active.records /\ active'.bytes = active.bytes
        /\ count' \in {count, active.bytes, 0}
    BY <1>0, <1>5, OpenEffect, FileFacts
  <2>2. pc # "create" /\ pc' \in {"idle", "open", "write"}
    BY <1>5 DEF Reopen, Open, Return
  <2> QED
    BY <1>1, <2>1, <2>2, FollowedSame
<1>6. ASSUME Create PROVE OnFiles' /\ Followed'
  <2>1. /\ UNCHANGED <<kept, backup, total, buffered>> /\ count' = 0
        /\ pc' \in {"open", "write"} /\ pc = "create"
        /\ active' \in {active, EmptyFile}
    BY <1>6 DEF Create, Return
  <2>2. active'.records = active.records /\ active'.bytes = active.bytes
    BY <1>1, <2>1, NoFileFacts DEF OnFiles
  <2> QED
    BY <1>1, <2>1, <2>2, FollowedSame
<1>7. ASSUME Exit \/ Crash PROVE OnFiles' /\ Followed'
  <2>1. CASE Exit
    BY <1>2, <2>1 DEF Exit
  <2>2. CASE Crash
    <3>1. /\ UNCHANGED <<kept, backup, active, total>>
          /\ pc' = "down" /\ count' = 0 /\ buffered' = None
      BY <2>2 DEF Crash, fileVars
    <3> QED
      BY <1>1, <3>1, FollowedSame
  <2> QED
    BY <1>7, <2>1, <2>2
<1>8. ASSUME RemoveBackup \/ MoveActive PROVE OnFiles' /\ Followed'
  <2>1. /\ UNCHANGED <<kept, total, incoming, count, buffered>> /\ stream = "closed"
        /\ \/ /\ pc = "remove" /\ pc' = "move" /\ active' = active
              /\ backup' \in {backup, NoFile}
           \/ /\ pc = "move" /\ pc' = "reopen" /\ UNCHANGED <<active, backup>>
           \/ /\ pc = "move" /\ pc' = "create" /\ backup' = active /\ active' = NoFile
    <3>1. ~ (MoveActive /\ Fails("exists"))
      BY DEF Fails
    <3> QED
      BY <1>8, <3>1 DEF RemoveBackup, MoveActive, StreamState
  <2>2. /\ count + incoming > MaxLogFileSize
        /\ \A i \in 1 .. (Gone + Len(backup.records)) :
             total - kept[i].end > MaxLogFileSize - Longest
    BY <1>1, <2>1, OldBackup DEF Followed
  <2>3. /\ NoFile.records = <<>> /\ Len(NoFile.records) = 0 /\ NoFile.bytes = 0
        /\ buffered = None
    BY <2>1, NoFileFacts DEF TypeOK
  <2>4. CASE pc' # "create" /\ UNCHANGED <<active, backup>>
    BY <1>1, <2>1, <2>2, <2>4, FollowedSame
  <2>5. CASE pc' = "move" /\ active' = active /\ backup' = NoFile
    <3>1. OnFiles' /\ Gone' = Gone + Len(backup.records)
      BY <1>1, <2>1, <2>3, <2>5, Lengths, EndsWithShift DEF OnFiles, Gone
    <3>2. Len(backup'.records) = 0
      BY <2>3, <2>5
    <3> QED
      BY <1>1, <2>1, <2>2, <2>5, <3>1, <3>2 DEF Followed
  <2>6. CASE pc' = "create" /\ backup' = active /\ active' = NoFile
    <3>1. OnFiles' /\ Gone' = Gone + Len(backup.records)
      BY <1>1, <2>1, <2>3, <2>6, Lengths, EndsWithShift DEF OnFiles, Gone
    <3>2. ASSUME NEW i \in 1 .. Len(backup'.records)
          PROVE  active'.bytes + buffered'.bytes <= total - backup'.records[i].end
      <4>1. PICK j \in 1 .. Len(kept) : kept[j] = active.records[i]
        <5>1. EndsWith(kept, backup.records, active.records) /\ i \in 1 .. Len(active.records)
          BY <1>1, <2>6 DEF OnFiles
        <5>2. PICK k \in Seq(Record), b \in Seq(Record), a \in Seq(Record) :
                k = kept /\ b = backup.records /\ a = active.records
          BY Lengths
        <5>3. \A x \in 1 .. Len(a) : \E y \in 1 .. Len(k) : k[y] = a[x]
          <6>1. EndsWith(k, b, a)
            BY <5>1, <5>2
          <6> QED
            BY <6>1, EndsWithHolds
        <5> QED
          BY <5>1, <5>2, <5>3
      <4>2. PICK e \in Nat : e = backup'.records[i].end /\ e <= total
        BY <1>1, <2>6, <4>1, Lengths DEF Followed
      <4>3. active'.bytes = 0 /\ buffered'.bytes = 0
        BY <1>0, <2>1, <2>3, <2>6
      <4> QED
        BY <1>0, <4>2, <4>3
    <3> QED
      BY <1>1, <2>1, <2>2, <2>6, <3>1, <3>2 DEF Followed
  <2> QED
    BY <2>1, <2>4, <2>5, <2>6
<1>9. ASSUME Write PROVE OnFiles' /\ Followed'
  <2>1. /\ pc = "write" /\ pc' = "idle" /\ backup' = backup
        /\ NewRecord \in Record /\ NewRecord.bytes = incoming
        /\ NewRecord.end = total + incoming
    BY <1>9, NewRecordFacts, WriteEffect
  <2>2. CASE UNCHANGED <<buffered, count, active, kept, total>>
    BY <1>1, <2>1, <2>2, FollowedSame
  <2>3. CASE total' = total + incoming /\ count' = count + incoming
    <3>1. PICK d \in Nat, t \in Nat, c \in Nat :
            /\ d = incoming /\ t = total' /\ c = count'
            /\ t = total + d /\ c = count + d /\ c <= count + d
      BY <1>0, <2>3
    <3>2. CASE /\ stream = "good" /\ UNCHANGED buffered
               /\ active' = Extended(active, NewRecord)
               /\ kept' = Append(kept, NewRecord)
      <4>1. buffered = None
        BY <3>2 DEF TypeOK
      <4>2. \E r \in Record : /\ d = r.bytes /\ r.end <= t
                              /\ active' = Extended(active, r)
                              /\ kept' = Append(kept, r)
        BY <2>1, <3>1, <3>2
      <4>3. /\ buffered'.bytes = 0 /\ buffered'.end <= t /\ d + 0 <= buffered.bytes + d
            /\ 0 \in Nat
        BY <1>0, <3>1, <3>2, <4>1
      <4> QED
        BY <1>1, <2>1, <3>1, <4>2, <4>3, FollowedMore
    <3>3. CASE /\ UNCHANGED <<active, kept>>
               /\ \/ stream = "good" /\ buffered' = NewRecord
                  \/ buffered' = buffered
      <4>1. PICK b \in Nat : b = buffered'.bytes /\ 0 + b <= buffered.bytes + d
        <5>1. stream = "good" => buffered.bytes = 0
          BY <1>0 DEF TypeOK
        <5> QED
          BY <1>0, <2>1, <3>1, <3>3, <5>1
      <4>2. buffered'.end <= t
        BY <1>0, <1>1, <2>1, <3>1, <3>3 DEF Followed
      <4>3. 0 \in Nat /\ 0 = 0 /\ kept' = kept /\ active' = active
        BY <3>3
      <4> QED
        BY <1>1, <2>1, <3>1, <4>1, <4>2, <4>3, FollowedMore
    <3> QED
      BY <1>9, <2>3, <3>2, <3>3, WriteEffect
  <2> QED
    BY <1>9, <2>2, <2>3, WriteEffect
<1>10. ASSUME UNCHANGED vars PROVE OnFiles' /\ Followed'
  BY <1>1, <1>10 DEF vars, fileVars, faultVars, OnFiles, Followed, Gone
<1> QED
  BY <1>3, <1>4, <1>5, <1>6, <1>7, <1>8, <1>9, <1>10 DEF Next

(* What EndsWith says of the sequences is what IsSuffix says.              *)
LEMMA ReverseFacts ==
  ASSUME NEW S, NEW s \in Seq(S)
  PROVE  /\ Reverse(s) \in Seq(S) /\ Len(Reverse(s)) = Len(s)
         /\ \A i \in 1 .. Len(s) : Reverse(s)[i] = s[(Len(s) - i) + 1]
<1>1. Len(s) \in Nat /\ \A i \in 1 .. Len(s) : (Len(s) - i) + 1 \in 1 .. Len(s)
  BY LenProperties
<1>2. \A i \in 1 .. Len(s) : s[(Len(s) - i) + 1] \in S
  BY <1>1, ElementOfSeq
<1> QED
  BY <1>1, <1>2 DEF Reverse

LEMMA EndsWithSuffix ==
  ASSUME NEW S, NEW k \in Seq(S), NEW b \in Seq(S), NEW a \in Seq(S), EndsWith(k, b, a)
  PROVE  /\ IsSuffix(b \o a, k)
         /\ Len(k) - Len(b \o a) = Ahead(k, b, a)
<1> DEFINE s == b \o a
<1>1. Len(k) \in Nat /\ Len(b) \in Nat /\ Len(a) \in Nat
  BY LenProperties
<1>2. /\ s \in Seq(S) /\ Len(s) = Len(b) + Len(a)
      /\ \A i \in 1 .. Len(b) + Len(a) :
           s[i] = IF i <= Len(b) THEN b[i] ELSE a[i - Len(b)]
  BY ConcatProperties
<1> HIDE DEF s
<1>3. PICK g \in Nat : g = Ahead(k, b, a) /\ Len(k) = g + Len(b) + Len(a)
  BY EndsWithFacts
<1>4. ASSUME NEW i \in 1 .. Len(s) PROVE k[g + i] = s[i]
  <2>1. CASE i <= Len(b)
    <3>1. i \in 1 .. Len(b) /\ s[i] = b[i]
      BY <1>1, <1>2, <2>1
    <3> QED
      BY <1>3, <3>1, EndsWithFacts
  <2>2. CASE ~ (i <= Len(b))
    <3>1. PICK j \in 1 .. Len(a) : i = Len(b) + j
      <4>1. i - Len(b) \in 1 .. Len(a) /\ i = Len(b) + (i - Len(b))
        BY <1>1, <1>2, <2>2
      <4> QED
        BY <4>1
    <3>2. s[i] = a[j]
      <4>1. s[i] = a[i - Len(b)] /\ i - Len(b) = j
        BY <1>1, <1>2, <2>2, <3>1
      <4> QED
        BY <4>1
    <3>3. k[g + Len(b) + j] = a[j] /\ g + i = g + Len(b) + j
      BY <1>1, <1>3, <3>1, EndsWithFacts, SMTT(20)
    <3> QED
      BY <3>2, <3>3
  <2> QED
    BY <2>1, <2>2
<1> DEFINE rs == Reverse(s)
           rk == Reverse(k)
           n == Len(s)
<1>5. /\ rs \in Seq(S) /\ Len(rs) = n /\ rk \in Seq(S) /\ Len(rk) = Len(k)
      /\ n \in Nat /\ n <= Len(k)
  BY <1>1, <1>2, <1>3, ReverseFacts
<1>6. ASSUME NEW i \in 1 .. n PROVE rs[i] = rk[i]
  <2>1. PICK m \in 1 .. n : m = (n - i) + 1 /\ (Len(k) - i) + 1 = g + m
    <3>1. (n - i) + 1 \in 1 .. n /\ (Len(k) - i) + 1 = g + ((n - i) + 1)
      BY <1>1, <1>2, <1>3, SMTT(20)
    <3> QED
      BY <3>1
  <2>2. rs[i] = s[m]
    BY <1>2, <2>1, ReverseFacts
  <2>3. rk[i] = k[g + m]
    <3>1. i \in 1 .. Len(k)
      BY <1>1, <1>5
    <3> QED
      BY <2>1, <3>1, ReverseFacts
  <2> QED
    BY <1>4, <2>2, <2>3
<1> HIDE DEF rs, rk
<1>7. SubSeq(rs, 1, n) = SubSeq(rk, 1, n)
  <2>1. \A i \in 1 .. n : rs[i] \in S /\ rk[i] \in S
    BY <1>1, <1>5, ElementOfSeq
  <2>2. /\ SubSeq(rs, 1, n) \in Seq(S)
        /\ Len(SubSeq(rs, 1, n)) = n
        /\ \A i \in 1 .. n : SubSeq(rs, 1, n)[i] = rs[i]
    BY <1>5, <2>1
  <2>3. /\ SubSeq(rk, 1, n) \in Seq(S)
        /\ Len(SubSeq(rk, 1, n)) = n
        /\ \A i \in 1 .. n : SubSeq(rk, 1, n)[i] = rk[i]
    BY <1>1, <1>5, <2>1
  <2> QED
    BY <1>6, <2>2, <2>3, SeqEqual
<1>8. IsSuffix(s, k)
  BY <1>5, <1>7 DEF IsSuffix, IsPrefix, rs, rk
<1>9. Len(k) - Len(s) = Ahead(k, b, a)
  BY <1>1, <1>2, <1>3
<1> QED
  BY <1>8, <1>9 DEF s

-----------------------------------------------------------------------------
LEMMA Invariance == Spec => []IInv
<1>1. Init => IInv
  BY InitInv
<1>2. IInv /\ [Next]_vars => IInv'
  BY TypeParts, ScalarsStep, StoresStep, BudgetStep, StreamStep, SizedStep, LostStep, KeptStep
    DEF IInv, TypeOK, Scalars, Stores
<1> QED
  BY <1>1, <1>2, PTL DEF Spec

(* The variables of the logger have their types; a record is buffered only *)
(* in a stream that went bad.                                              *)
THEOREM TypeCorrect == Spec => []TypeOK
<1>1. IInv => TypeOK
  BY DEF IInv
<1> QED
  BY <1>1, Invariance, PTL

(* Rotation before the write (Logger.cpp:264): while the active file can   *)
(* be renamed and its size be read, neither file outgrows the limit.       *)
THEOREM FilesStaySmall == Spec => []SizeBounded
<1>1. IInv => SizeBounded
  BY DEF IInv, Sized, SizeBounded
<1> QED
  BY <1>1, Invariance, PTL

(* A stream that went bad loses less than a file's worth of records: what  *)
(* it loses is counted, and so it is closed by the next rotation.          *)
THEOREM LittleIsLost == Spec => []DropsBounded
<1>1. IInv => DropsBounded
  BY DEF IInv, Lost, DropsBounded
<1> QED
  BY <1>1, Invariance, PTL

(* One backup is enough (Logger.cpp:412): while exists() does not fail the *)
(* two files hold the last records written without a gap, and a record     *)
(* has left them only when about a file's worth was logged after it.       *)
THEOREM LastRecordsRetained == Spec => []Retained
<1>1. IInv => Retained
  <2> SUFFICES ASSUME IInv, "exists" \notin failed
               PROVE  /\ IsSuffix(OnDisk, kept)
                      /\ \A i \in 1 .. Len(kept) - Len(OnDisk) :
                           total - kept[i].end > MaxLogFileSize - Longest
    BY DEF Retained
  <2>1. TypeOK /\ OnFiles /\ Followed
    BY DEF IInv, Kept
  <2>2. IsSuffix(OnDisk, kept) /\ Len(kept) - Len(OnDisk) = Gone
    BY <2>1, Lengths, EndsWithSuffix DEF OnFiles, OnDisk, Gone
  <2> QED
    BY <2>1, <2>2 DEF Followed
<1> QED
  BY <1>1, Invariance, PTL
=============================================================================
