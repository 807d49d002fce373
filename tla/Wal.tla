--------------------------------- MODULE Wal ---------------------------------
(***************************************************************************)
(* The write-ahead log file (src/storage/wal.cpp) below the records: what   *)
(* load makes of the bytes it finds.  Store takes the file as a sequence of *)
(* records; here it is a sequence of cells, so that a record can be torn by *)
(* a crash or damaged afterwards and load must tell the two apart.          *)
(*                                                                          *)
(* Data abstractions.  A record is four fields: magic with version, payload *)
(* length, payload, checksum.  All but the payload are one cell, and a      *)
(* checksum matches exactly the cells it was computed over.  The file       *)
(* header is left out: load refuses a log without it.                       *)
(***************************************************************************)
EXTENDS Integers, Sequences, SequencesExt, FiniteSets

CONSTANTS
  Sizes,       \* the payload lengths events are encoded to
  MaxPayload,  \* kMaxPayloadBytes
  MaxRecords,  \* bound: the appends of one behaviour
  MaxTears,    \* bound: the appends cut off by a crash
  MaxDamage    \* bound: the cells damaged on disk

VARIABLES
  file,      \* the cells of wal.bin
  events,    \* events_
  ends,      \* record_ends_
  status,    \* "open", "closed", or "corrupt" after load refused the file
  written,   \* history: the records whose append or truncation returned
  inDoubt,   \* history: the record of an append that did not return
  appends,   \* the appends so far, which name the records
  tears,     \* the appends cut off so far
  damaged    \* history: the damaged cells, as names of records and fields

vars == <<file, events, ends, status, written, inDoubt, appends, tears, damaged>>

-----------------------------------------------------------------------------
(* Records and cells. *)

Cell(kind, of, n) == [kind |-> kind, of |-> of, n |-> n]

\* What a torn write or bit rot leaves in a cell.
Garbage == Cell("garbage", 0, 0)

Prefix == 2    \* kRecordPrefix: magic, version and length

Record(r, size) == [name |-> r, size |-> size]

EncodeRecord(r) ==
  <<Cell("magic", r.name, 0), Cell("length", r.name, r.size)>>
    \o [i \in 1 .. r.size |-> Cell("payload", r.name, i)]
    \o <<Cell("checksum", r.name, r.size)>>

EncodeWal(rs) == FlattenSeq([i \in DOMAIN rs |-> EncodeRecord(rs[i])])

\* The offset behind each record of a log.
EndsOf(rs) == [i \in DOMAIN rs |-> Len(EncodeWal(SubSeq(rs, 1, i)))]

-----------------------------------------------------------------------------
(* load. *)

\* A record magic behind offset o: the bad record at o is not the last one.
LaterMagic(f, o) == \E i \in o + 2 .. Len(f) : f[i].kind = "magic"

\* The checksum behind n payload cells is the one of the cells before it.
SumMatches(f, o, n) ==
  SubSeq(f, o + 1, o + Prefix + n + 1) = EncodeRecord(Record(f[o + 1].of, n))

\* The bytes a record declares are all there.
Whole(f, o, n) == Len(f) - o >= Prefix + n + 1

\* What load finds at offset o: the end of the file, a torn tail, damage, or
\* a record.
Verdict(f, o) ==
  IF o = Len(f) THEN "end"
  ELSE IF Len(f) - o < Prefix + 1 THEN "torn"
  ELSE IF f[o + 1].kind # "magic"
  THEN IF LaterMagic(f, o) THEN "corrupt" ELSE "torn"
  ELSE LET n == f[o + 2].n
       IN IF n > MaxPayload THEN "corrupt"
          ELSE IF ~Whole(f, o, n) THEN "torn"
          ELSE IF SumMatches(f, o, n) THEN "record" ELSE "corrupt"

\* The records load collects from offset o on and the verdict that stops it.
Scan(f) ==
  LET from[o \in 0 .. Len(f)] ==
        IF Verdict(f, o) # "record" THEN [found |-> <<>>, stop |-> Verdict(f, o)]
        ELSE LET r == Record(f[o + 1].of, f[o + 2].n)
                 rest == from[o + Len(EncodeRecord(r))]
             IN [rest EXCEPT !.found = <<r>> \o @]
  IN from[0]

-----------------------------------------------------------------------------
(* The operations of WriteAheadLog. *)

\* append: the record is written and synced, then noted in memory.
AppendRecord(size) ==
  LET r == Record(appends + 1, size)
  IN /\ status = "open"
     /\ appends < MaxRecords
     /\ file' = file \o EncodeRecord(r)
     /\ events' = Append(events, r)
     /\ ends' = Append(ends, (IF ends = <<>> THEN 0 ELSE Last(ends))
                               + Len(EncodeRecord(r)))
     /\ written' = Append(written, r)
     /\ appends' = appends + 1
     /\ UNCHANGED <<status, inDoubt, tears, damaged>>

\* A crash or failure inside append: the first cells of the record are there,
\* or the file has grown by cells that were never written.
Tear(size) ==
  LET r == Record(appends + 1, size)
  IN /\ status = "open"
     /\ appends < MaxRecords
     /\ tears < MaxTears
     /\ \/ \E k \in 1 .. Len(EncodeRecord(r)) :
             file' = file \o SubSeq(EncodeRecord(r), 1, k)
        \/ \E k \in 1 .. Len(EncodeRecord(r)) :
             file' = file \o [i \in 1 .. k |-> Garbage]
     /\ inDoubt' = {r}
     /\ status' = "closed"
     /\ events' = <<>>
     /\ ends' = <<>>
     /\ appends' = appends + 1
     /\ tears' = tears + 1
     /\ UNCHANGED <<written, damaged>>

\* truncate_after, which finds the cut in record_ends_.
TruncateAfter(keep) ==
  /\ status = "open"
  /\ keep < Len(events)
  /\ file' = SubSeq(file, 1, IF keep = 0 THEN 0 ELSE ends[keep])
  /\ events' = SubSeq(events, 1, keep)
  /\ ends' = SubSeq(ends, 1, keep)
  /\ written' = SubSeq(events, 1, keep)
  /\ UNCHANGED <<status, inDoubt, appends, tears, damaged>>

\* rewrite: the log without its first records replaces the file in one step
\* and is loaded again.
Rewrite(drop) ==
  LET kept == SubSeq(events, drop + 1, Len(events))
      scan == Scan(EncodeWal(kept))
  IN /\ status = "open"
     /\ drop \in 1 .. Len(events)
     /\ file' = EncodeWal(kept)
     /\ events' = scan.found
     /\ ends' = EndsOf(scan.found)
     /\ written' = kept
     /\ damaged' = {}
     /\ UNCHANGED <<status, inDoubt, appends, tears>>

\* Fault: the torn tail is left in the file.
TailKept(f, found) == f

\* The torn tail is cut off behind the last good record.
TailCut(f, found) == SubSeq(f, 1, Len(EncodeWal(found)))

\* load on a new start.  The record of an append that did not return is part
\* of the log when all of it is found; of a damaged log, what is found is all
\* there is from now on.
Load ==
  LET scan == Scan(file)
  IN /\ status = "closed"
     /\ IF scan.stop = "corrupt"
        THEN /\ status' = "corrupt"
             /\ UNCHANGED <<file, events, ends, written>>
        ELSE /\ status' = "open"
             /\ file' = TailCut(file, scan.found)
             /\ events' = scan.found
             /\ ends' = EndsOf(scan.found)
             /\ written' = IF \/ damaged # {}
                              \/ \E r \in inDoubt : scan.found = Append(written, r)
                           THEN scan.found ELSE written
     /\ inDoubt' = {}
     /\ UNCHANGED <<appends, tears, damaged>>

\* The process stops between two operations.
Stop ==
  /\ status = "open"
  /\ status' = "closed"
  /\ events' = <<>>
  /\ ends' = <<>>
  /\ UNCHANGED <<file, written, inDoubt, appends, tears, damaged>>

\* A cell of a fully written record changes while the log is closed: a length
\* into another one, any other cell into garbage.
Damage(i) ==
  LET hurt == [name |-> file[i].of, kind |-> file[i].kind]
  IN /\ status = "closed"
     /\ Cardinality(damaged) < MaxDamage
     /\ hurt.name \in {written[k].name : k \in DOMAIN written}
     /\ hurt.name \notin {d.name : d \in damaged}
     /\ \/ file' = [file EXCEPT ![i] = Garbage]
        \/ /\ file[i].kind = "length"
           /\ \E n \in 0 .. MaxPayload + 1 :
                n # file[i].n /\ file' = [file EXCEPT ![i].n = n]
     /\ damaged' = damaged \cup {hurt}
     /\ UNCHANGED <<events, ends, status, written, inDoubt, appends, tears>>

\* The operator sees the refused log and the system stays down.
Refused == status = "corrupt" /\ UNCHANGED vars

Init ==
  /\ file = <<>>
  /\ events = <<>>
  /\ ends = <<>>
  /\ status = "open"
  /\ written = <<>>
  /\ inDoubt = {}
  /\ appends = 0
  /\ tears = 0
  /\ damaged = {}

Next ==
  \/ \E size \in Sizes : AppendRecord(size) \/ Tear(size)
  \/ \E k \in 0 .. MaxRecords : TruncateAfter(k) \/ Rewrite(k)
  \/ Stop
  \/ Load
  \/ \E i \in DOMAIN file : Damage(i)
  \/ Refused

Spec == Init /\ [][Next]_vars

-----------------------------------------------------------------------------
(* Properties. *)

\* Load hands out what was written.  On an undamaged file it succeeds with
\* every record whose append returned, and perhaps the one a crash cut off,
\* however much of that reached the disk; on a damaged one it refuses or
\* returns a beginning, and never skips a record or hands out a changed one
\* (wal.cpp, load after append, truncate_after and rewrite).
LoadIsHonest ==
  [][status = "closed" /\ status' # "closed" =>
       LET whole == {written} \cup {Append(written, r) : r \in inDoubt}
       IN IF damaged = {} THEN status' = "open" /\ events' \in whole
          ELSE status' = "open" => \E w \in whole : IsPrefix(events', w)]_vars

===============================================================================
