------------------------------- MODULE Logger -------------------------------
(***************************************************************************)
(* The log file of a process (src/log/Logger.cpp): an active file and one  *)
(* backup, rotated when the next record would make the active file larger  *)
(* than MAX_LOG_FILE_SIZE.  Records, the constructor and the destructor    *)
(* exclude each other (mutex_), but the process may be killed between any  *)
(* two calls to the file system and any of these calls may fail: each is a *)
(* step.  log() flushes before it returns, so that a kill loses nothing    *)
(* that was written.                                                       *)
(*                                                                         *)
(* Sizes are in units; no record is longer than a file may be.  Nobody     *)
(* else touches the files.  A write puts a whole record into the file or   *)
(* nothing: the part of one that a disk filling up may leave there is not  *)
(* modelled.                                                               *)
(***************************************************************************)
EXTENDS Naturals, Sequences, SequencesExt

CONSTANTS MaxLogFileSize,  \* MAX_LOG_FILE_SIZE
          RecordSizes,     \* the lengths a record may have
          MaxRecords,      \* bound: records logged
          MaxFaults        \* bound: calls to the file system that fail

ASSUME LoggerAssumption ==
  /\ MaxLogFileSize \in Nat /\ MaxRecords \in Nat /\ MaxFaults \in Nat
  /\ RecordSizes \subseteq 1 .. MaxLogFileSize /\ RecordSizes # {}

VARIABLES
  pc,        \* the next call of the logger; "idle" between records, "down"
             \* when the process does not run
  incoming,  \* incomingBytes of rotateIfNeeded, 0 in the constructor
  stream,    \* logFile_: "closed", "good" or "bad" (open, badbit set)
  buffered,  \* the record a failed flush left in the stream's buffer
  count,     \* currentFileSize_
  active,    \* the file at logFilePath_
  backup,    \* and the one at logFilePath_ + ".1"
  logged,    \* history: records passed to log()
  total,     \* history: bytes added to currentFileSize_ by log()
  kept,      \* history: every record that reached the disk, in that order
  dropped,   \* history: bytes lost since the stream went bad
  failed,    \* history: the calls that have failed
  faults     \* history: how often a call failed

fileVars == <<active, backup, kept>>
faultVars == <<failed, faults>>
vars == <<pc, incoming, stream, buffered, count, fileVars, logged, total,
          dropped, faultVars>>

(* A record, by the place of its end in all the bytes logged.              *)
None == [n |-> 0, bytes |-> 0, end |-> 0]
NoFile == [exists |-> FALSE, records |-> <<>>, bytes |-> 0]
EmptyFile == [exists |-> TRUE, records |-> <<>>, bytes |-> 0]
Extended(file, r) ==
  [file EXCEPT !.records = Append(@, r), !.bytes = @ + r.bytes]

Calls == {"exists", "rename", "create", "open", "size", "remove", "write"}

Works == UNCHANGED faultVars
Fails(call) ==
  /\ faults < MaxFaults
  /\ faults' = faults + 1
  /\ failed' = failed \cup {call}

Init ==
  /\ pc = "down"
  /\ incoming = 0
  /\ stream = "closed"
  /\ buffered = None
  /\ count = 0
  /\ active = NoFile
  /\ backup = NoFile
  /\ logged = 0
  /\ total = 0
  /\ kept = <<>>
  /\ dropped = 0
  /\ failed = {}
  /\ faults = 0

(* Where rotateIfNeeded returns to.                                        *)
Return == IF incoming = 0 THEN "open" ELSE "write"

-----------------------------------------------------------------------------
(* Mutants.  No behaviour of the code: each is the definition it is named  *)
(* after with one plausible slip, and makes one property below fail.       *)

(* currentFileSize_ not reset for the fresh file.                          *)
MutantCreateKeepsCount ==
  /\ pc = "create"
  /\ active' = EmptyFile /\ stream' = "good"
  /\ Works
  /\ pc' = Return
  /\ UNCHANGED <<incoming, buffered, count, backup, kept, logged, total, dropped>>

(* The test forgets the record about to be written.                        *)
MutantExceedsLate(size, bytes) == size > MaxLogFileSize

(* Only records that were written are counted.                             *)
MutantCountedIfWritten(bytes) ==
  IF stream = "good" THEN count + bytes ELSE count

(* The handle is left open by rotateIfNeeded.                              *)
MutantCloseForgotten == UNCHANGED <<stream, buffered, active, kept>>

-----------------------------------------------------------------------------
(* The test of rotateIfNeeded.                                             *)
Exceeds(size, bytes) == size + bytes > MaxLogFileSize

(* Closing flushes what the buffer still holds, which now may succeed.     *)
Close ==
  /\ stream' = "closed"
  /\ buffered' = None
  /\ \/ UNCHANGED <<active, kept>>
     \/ /\ buffered # None
        /\ active' = Extended(active, buffered)
        /\ kept' = Append(kept, buffered)

(* Constructor, up to the rotation of a file that is too large.  It is     *)
(* called for one whose size is the limit too, and returns at once.        *)
Start ==
  /\ pc = "down"
  /\ incoming' = 0
  /\ \/ count' = active.bytes /\ Works
     \/ active.exists /\ count' = 0 /\ Fails("size")
  /\ pc' = IF count' >= MaxLogFileSize /\ Exceeds(count', 0)
           THEN "remove" ELSE "open"
  /\ UNCHANGED <<stream, buffered, fileVars, logged, total, dropped>>

(* log(), up to the rotation.                                              *)
Log(bytes) ==
  /\ pc = "idle"
  /\ logged < MaxRecords
  /\ logged' = logged + 1
  /\ incoming' = bytes
  /\ IF Exceeds(count, bytes)
     THEN pc' = "remove" /\ dropped' = 0 /\ Close
     ELSE pc' = "write" /\ UNCHANGED <<stream, buffered, active, kept, dropped>>
  /\ UNCHANGED <<count, backup, total, faultVars>>

(* rotateIfNeeded: the old backup first; a failure is only reported.       *)
RemoveBackup ==
  /\ pc = "remove"
  /\ \/ backup' = NoFile /\ Works
     \/ backup.exists /\ UNCHANGED backup /\ Fails("remove")
  /\ pc' = "move"
  /\ UNCHANGED <<incoming, stream, buffered, count, active, kept, logged,
                 total, dropped>>

(* rotateIfNeeded: the active file becomes the backup.  If the rename      *)
(* fails the file is opened again; if exists() fails there is no rename    *)
(* and the file is truncated next.                                         *)
MoveActive ==
  /\ pc = "move"
  /\ \/ /\ backup' = active /\ active' = NoFile
        /\ pc' = "create"
        /\ Works
     \/ /\ UNCHANGED <<active, backup>>
        /\ pc' = "reopen"
        /\ Fails("rename")
     \/ /\ UNCHANGED <<active, backup>>
        /\ pc' = "create"
        /\ Fails("exists")
  /\ UNCHANGED <<incoming, stream, buffered, count, kept, logged, total, dropped>>

(* rotateIfNeeded: a fresh active file; failing leaves the stream closed   *)
(* with nothing counted, so that no later record rotates and opens it.     *)
Create ==
  /\ pc = "create"
  /\ count' = 0
  /\ \/ active' = EmptyFile /\ stream' = "good" /\ Works
     \/ UNCHANGED active /\ stream' = "closed" /\ Fails("create")
  /\ pc' = Return
  /\ UNCHANGED <<incoming, buffered, backup, kept, logged, total, dropped>>

(* openLogFile(): append, then the size of the file.                       *)
OpenLogFile ==
  /\ \/ /\ active' = [active EXCEPT !.exists = TRUE]
        /\ stream' = "good"
        /\ \/ count' = active.bytes /\ Works
           \/ count' = 0 /\ Fails("size")
     \/ /\ UNCHANGED <<active, count>>
        /\ stream' = "closed"
        /\ Fails("open")
  /\ UNCHANGED <<incoming, buffered, backup, kept, logged, total, dropped>>

Reopen == pc = "reopen" /\ OpenLogFile /\ pc' = Return
Open == pc = "open" /\ OpenLogFile /\ pc' = "idle"

(* log(), the output: a bad stream takes nothing, but is counted as if it  *)
(* had.                                                                    *)
Counted(bytes) == count + bytes

Write ==
  LET r == [n |-> logged, bytes |-> incoming, end |-> total + incoming] IN
  /\ pc = "write"
  /\ pc' = "idle"
  /\ \/ /\ stream = "closed"
        /\ Works
        /\ UNCHANGED <<stream, buffered, count, active, kept, total, dropped>>
     \/ /\ stream = "good"
        /\ active' = Extended(active, r)
        /\ kept' = Append(kept, r)
        /\ Works
        /\ count' = Counted(incoming) /\ total' = total + incoming
        /\ UNCHANGED <<stream, buffered, dropped>>
     \/ /\ stream = "good"
        /\ stream' = "bad"
        /\ buffered' = r
        /\ Fails("write")
        /\ count' = Counted(incoming) /\ total' = total + incoming
        /\ dropped' = incoming
        /\ UNCHANGED <<active, kept>>
     \/ /\ stream = "bad"
        /\ Works
        /\ count' = Counted(incoming) /\ total' = total + incoming
        /\ dropped' = dropped + incoming
        /\ UNCHANGED <<stream, buffered, active, kept>>
  /\ UNCHANGED <<incoming, backup, logged>>

(* Destructor at the end of the process.                                   *)
Exit ==
  /\ pc = "idle"
  /\ pc' = "down"
  /\ Close
  /\ count' = 0 /\ dropped' = 0
  /\ UNCHANGED <<incoming, backup, logged, total, faultVars>>

(* The process is killed.                                                  *)
Crash ==
  /\ pc # "down"
  /\ pc' = "down"
  /\ stream' = "closed" /\ buffered' = None /\ count' = 0 /\ dropped' = 0
  /\ UNCHANGED <<incoming, fileVars, logged, total, faultVars>>

Next ==
  \/ Start
  \/ \E bytes \in RecordSizes : Log(bytes)
  \/ RemoveBackup
  \/ MoveActive
  \/ Create
  \/ Reopen
  \/ Open
  \/ Write
  \/ Exit
  \/ Crash

Spec == Init /\ [][Next]_vars

-----------------------------------------------------------------------------
Longest == CHOOSE b \in RecordSizes : \A c \in RecordSizes : c <= b
Record == [n : 1 .. MaxRecords, bytes : RecordSizes, end : 1 .. MaxRecords * Longest]
File == [exists : BOOLEAN, records : Seq(Record), bytes : Nat]

TypeOK ==
  /\ pc \in {"down", "idle", "remove", "move", "create", "reopen", "write", "open"}
  /\ incoming \in RecordSizes \cup {0}
  /\ stream \in {"closed", "good", "bad"}
  /\ buffered \in Record \cup {None}
  /\ buffered # None => stream = "bad"
  /\ count \in Nat
  /\ active \in File /\ backup \in File
  /\ logged \in 0 .. MaxRecords
  /\ total \in Nat
  /\ kept \in Seq(Record)
  /\ dropped \in Nat
  /\ failed \subseteq Calls
  /\ faults \in 0 .. MaxFaults

(* What the two files hold, older first.                                   *)
OnDisk == backup.records \o active.records

(* "Only one backup is preserved" (Logger.cpp:412): through rotations,     *)
(* failed calls and kills the two files hold the last records written,     *)
(* without a gap, and a record leaves them only when about a file's worth  *)
(* of later records was logged, unless exists() failed in a rotation.      *)
Retained ==
  "exists" \notin failed =>
    /\ IsSuffix(OnDisk, kept)
    /\ \A i \in 1 .. Len(kept) - Len(OnDisk) :
         total - kept[i].end > MaxLogFileSize - Longest

(* "Rotate before writing if the next record would exceed the configured   *)
(* maximum file size" (Logger.cpp:264): neither file becomes larger,       *)
(* unless a file could not be renamed or its size not be read.             *)
SizeBounded ==
  failed \cap {"rename", "size"} = {} =>
    active.bytes <= MaxLogFileSize /\ backup.bytes <= MaxLogFileSize

(* After a failed write a stream takes no more records (Logger.cpp:277):   *)
(* the count that goes on makes the next rotation, which opens it again,   *)
(* come before a file's worth of records is lost.                          *)
DropsBounded == dropped <= MaxLogFileSize
=============================================================================
