------------------------------ MODULE ZipArchive ------------------------------
(***************************************************************************)
(* The ZIP archives: the writer streams entries of unknown length behind   *)
(* headers it cannot complete, and the directory last; the reader of the   *)
(* restore script starts from the end.  The stream may be cut anywhere: an *)
(* original is missing, the client leaves, the connection drops.           *)
(*                                                                         *)
(* A file is a sequence of records, each some bytes long; a body is read   *)
(* in words of one byte.  A checksum tells any two bodies apart.           *)
(***************************************************************************)
EXTENDS Integers, Sequences, FiniteSets

CONSTANTS
    Names,          \* the names of the entries
    Words,          \* what bodies are made of
    MaxBody,        \* length of the longest body (bound)
    MaxEntries,     \* the writer's limit (0xffff)
    MaxBytes,       \* the writer's limit on an archive (0xffff_ffff)
    MaxEntry,       \* the reader's limit on an entry (64 MiB)
    MaxArchive      \* the reader's limit on an archive (2 GiB)

ASSUME ZipAssumption ==
    /\ MaxBody \in Nat /\ MaxEntries \in Nat /\ MaxBytes \in Nat
    /\ MaxEntry \in Nat /\ MaxArchive \in Nat

VARIABLES
    given,      \* the entries to write (in order)
    todo,       \* those not begun
    body,       \* what is left of the body being written
    out,        \* the records written
    directory,  \* the entries written in full
    stage       \* where the writer is: "entry", "body", "directory", "closed" or "cut"

zipVars == <<given, todo, body, out, directory, stage>>

Bodies == UNION {[1..n -> Words] : n \in 0..MaxBody}
Entries == [name : Names, body : Bodies]

\* Headed are two bytes here, what closes an entry or the archive one.
Headed == {"local", "central"}

\* The bytes of the first records of a file, and of all of them.
BytesOf(file, n) == n + Cardinality({i \in 1..n : file[i].kind \in Headed})
Length(file) == BytesOf(file, Len(file))

\* The number of the record that begins at a byte, or 0.
RecordAt(file, byte) ==
    LET at == {i \in 1..Len(file) : BytesOf(file, i - 1) = byte}
    IN  IF at = {} THEN 0 ELSE CHOOSE i \in at : TRUE

(* -------------------------------- writing ------------------------------ *)

ZipInit ==
    /\ given \in {s \in UNION {[1..n -> Entries] : n \in 0..(MaxEntries + 1)} :
                    \A i, j \in DOMAIN s : s[i].name = s[j].name => i = j}
    /\ todo = given /\ body = <<>> /\ out = <<>> /\ directory = <<>> /\ stage = "entry"

\* A record that would take the archive past its limit ends it instead.
Emit(r, next) ==
    IF Length(Append(out, r)) > MaxBytes
      THEN out' = out /\ stage' = "cut"
      ELSE out' = Append(out, r) /\ stage' = next

BeginEntry ==
    /\ stage = "entry" /\ todo # <<>>
    /\ IF Len(directory) >= MaxEntries
         THEN stage' = "cut" /\ UNCHANGED <<given, todo, body, out, directory>>
         ELSE /\ Emit([kind |-> "local", name |-> Head(todo).name], "body")
              /\ body' = Head(todo).body
              /\ UNCHANGED <<given, todo, directory>>

EmitBody ==
    /\ stage = "body" /\ body # <<>>
    /\ Emit([kind |-> "word", word |-> Head(body)], "body")
    /\ body' = Tail(body)
    /\ UNCHANGED <<given, todo, directory>>

\* Mutant: the offset of an entry is where its descriptor begins.
EndEntryLate ==
    LET entry == Head(todo)
        size == Len(entry.body)
    IN  /\ stage = "body" /\ body = <<>>
        /\ Emit([kind |-> "descriptor", crc |-> entry.body, size |-> size], "entry")
        /\ directory' = Append(directory,
              [kind |-> "central", name |-> entry.name, crc |-> entry.body, size |-> size,
               offset |-> Length(out)])
        /\ todo' = Tail(todo)
        /\ UNCHANGED <<given, body>>

\* The offset is that of the local header, known when the entry began.
EndEntry ==
    LET entry == Head(todo)
        size == Len(entry.body)
    IN  /\ stage = "body" /\ body = <<>>
        /\ Emit([kind |-> "descriptor", crc |-> entry.body, size |-> size], "entry")
        /\ directory' = Append(directory,
              [kind |-> "central", name |-> entry.name, crc |-> entry.body, size |-> size,
               offset |-> Length(out) - size - 2])
        /\ todo' = Tail(todo)
        /\ UNCHANGED <<given, body>>

EmitDirectory ==
    /\ \/ stage = "entry" /\ todo = <<>>
       \/ stage = "directory"
    /\ LET written == Cardinality({i \in 1..Len(out) : out[i].kind = "central"})
       IN  IF written < Len(directory)
             THEN Emit(directory[written + 1], "directory")
             ELSE Emit([kind |-> "end", count |-> Len(directory), size |-> 2 * written,
                        offset |-> Length(out) - 2 * written], "closed")
    /\ UNCHANGED <<given, todo, body, directory>>

Cut ==
    /\ stage \notin {"closed", "cut"}
    /\ stage' = "cut"
    /\ UNCHANGED <<given, todo, body, out, directory>>

ZipNext == BeginEntry \/ EmitBody \/ EndEntry \/ EmitDirectory \/ Cut

ZipSpec == ZipInit /\ [][ZipNext]_zipVars

(* -------------------------------- reading ------------------------------ *)

\* What a reader makes of something: the thing read, or nothing.
Refused == {}

\* The directory a file ends with, entry by entry.
Entered(file, end) ==
    LET first == RecordAt(file, end.offset)
    IN  SubSeq(file, first, first + end.count - 1)

\* Everything the end of the file says agrees with where things are.
Coherent(file, end, records) ==
    /\ end.count # MaxEntries
    /\ Length(file) <= MaxArchive
    /\ end.size = Length(records)
    /\ \A i \in DOMAIN records : records[i].kind = "central" /\ records[i].size <= MaxEntry
    /\ \A i, j \in DOMAIN records : i # j => records[i].name # records[j].name

ReadDirectory(file) ==
    LET end == file[Len(file)]
        records == Entered(file, end)
    IN  IF file # <<>> /\ end.kind = "end" /\ Coherent(file, end, records)
          THEN {records} ELSE Refused

\* The body of an entry: as many bytes as the directory says, behind a local
\* header of the same name, and with the same checksum.
ReadEntry(file, record) ==
    LET local == RecordAt(file, record.offset)
        words == SubSeq(file, local + 1, local + record.size)
        read == [i \in DOMAIN words |-> words[i].word]
    IN  IF /\ local # 0 /\ file[local].kind = "local" /\ file[local].name = record.name
           /\ \A i \in DOMAIN words : words[i].kind = "word"
           /\ read = record.crc
          THEN {[name |-> record.name, body |-> read]} ELSE Refused

\* Every entry of a file, or nothing of it.
ReadBack(file) ==
    {entries \in UNION {[DOMAIN records -> UNION {ReadEntry(file, records[i]) : i \in DOMAIN records}] :
                          records \in ReadDirectory(file)} :
        \A records \in ReadDirectory(file), i \in DOMAIN entries :
            entries[i] \in ReadEntry(file, records[i])}

(* ------------------------------ properties ----------------------------- *)

\* What is read from a file, wherever it was cut, is everything that was to
\* be written, byte for byte, or nothing; and a whole archive within the
\* limits of the reader is read.
ReadBackIsWritten ==
    /\ ReadBack(out) \in {Refused, {given}}
    /\ (/\ stage = "closed" /\ Len(given) < MaxEntries /\ Length(out) <= MaxArchive
        /\ \A i \in DOMAIN given : Len(given[i].body) <= MaxEntry)
         => ReadBack(out) = {given}
=============================================================================
