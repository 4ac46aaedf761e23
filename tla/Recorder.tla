------------------------------ MODULE Recorder ------------------------------
(***************************************************************************)
(* fakenect-record (src/fakenect/record.c): it writes every frame and the   *)
(* accelerometer's state to a file of its own, and the names of the files   *)
(* to INDEX.txt, which stdio buffers.                                       *)
(*                                                                          *)
(* A frame's file is its type, the time, the timestamp and a number that    *)
(* stands for what the camera saw.  The program may be killed at any time,  *)
(* and the disk may be full: fwrite()'s result is not looked at, a file that *)
(* cannot be made ends the program, and the end of the index may be lost.   *)
(***************************************************************************)
EXTENDS Integers, Sequences

CONSTANTS
  MaxItems,       \* bound: files in a recording
  Gaps,           \* the time that may pass between two of them
  Killed,         \* the recorder may be killed
  DiskFull        \* the disk may be full

ASSUME RecorderAssumption ==
  MaxItems \in Nat \ {0} /\ Gaps \subseteq Nat /\ Killed \in BOOLEAN /\ DiskFull \in BOOLEAN

VARIABLES
  rphase,          \* "new", "events", "accel", "stopping", "ended" or "refused"
  recording,       \* the flag running
  lines,           \* of the index: [type, gap, ts, id], gap the time since the line before
  written,         \* of their files: "open", and then "empty", "short" or "whole"
  last_timestamp,
  sent,            \* frames the camera has sent, the timestamp of the last one
  json,            \* device.json was written
  torn,            \* the last line on disk is cut off, or its file was not made
  clean            \* all was stored: the recorder was not killed, and had room on the disk

recVars == <<rphase, recording, lines, written, last_timestamp, sent, json, torn, clean>>

-----------------------------------------------------------------------------

\* dump(): the index line first, then the file and its data.
Writing == Len(written) > 0 /\ written[Len(written)] = "open"
Line(type, ts, id, gap) ==
  /\ ~Writing /\ Len(lines) < MaxItems
  /\ lines' = Append(lines, [type |-> type, gap |-> gap, ts |-> ts, id |-> id])
  /\ written' = Append(written, "open")
Data(how) ==
  /\ rphase \in {"events", "accel", "stopping"} /\ Writing
  /\ how = "whole" \/ DiskFull
  /\ written' = [written EXCEPT ![Len(written)] = how]
  /\ clean' = (clean /\ how = "whole")
  /\ UNCHANGED <<rphase, recording, lines, last_timestamp, sent, json, torn>>

\* An index that is there already is left alone.
OpenIndex(exists) == ~exists
WriteDeviceInfo(saved) == json' = saved

\* main() and init() up to the loop, whose condition a signal may have changed.
Begin(exists, opened, saved) ==
  /\ rphase = "new"
  /\ rphase' = IF ~OpenIndex(exists) THEN "refused" ELSE IF ~opened THEN "ended"
               ELSE IF recording THEN "events" ELSE "stopping"
  /\ WriteDeviceInfo(OpenIndex(exists) /\ opened /\ saved)
  /\ UNCHANGED <<recording, lines, written, last_timestamp, sent, torn, clean>>

\* A frame completes in freenect_process_events(), or in the transfers that ask
\* for the tilt state, or, colours only, while depth is being stopped.
RecordFrame(type, gap) ==
  /\ rphase \in {"events", "accel"} \cup (IF type = "r" THEN {"stopping"} ELSE {})
  /\ Line(type, sent + 1, sent + 1, gap)
  /\ sent' = sent + 1 /\ last_timestamp' = sent + 1
  /\ UNCHANGED <<rphase, recording, json, torn, clean>>
\* An unplugged camera is an error, which ends the loop.
ProcessedEvents(ok) ==
  /\ rphase = "events" /\ ~Writing
  /\ rphase' = IF ok THEN "accel" ELSE "stopping"
  /\ UNCHANGED <<recording, lines, written, last_timestamp, sent, json, torn, clean>>

\* snapshot_accel(), and the loop's condition.
\* Mutant: the state is recorded with no frame seen.
MutSeen == TRUE
Seen == last_timestamp # 0
SnapshotAccel(gap) ==
  /\ rphase = "accel" /\ ~Writing
  /\ IF Seen THEN Line("a", last_timestamp, sent, gap) ELSE UNCHANGED <<lines, written>>
  /\ rphase' = IF recording THEN "events" ELSE "stopping"
  /\ UNCHANGED <<recording, last_timestamp, sent, json, torn, clean>>

Signal ==
  /\ recording /\ recording' = FALSE
  /\ UNCHANGED <<rphase, lines, written, last_timestamp, sent, json, torn, clean>>

\* What is on disk when the program has ended: the first n lines of the index, the
\* last of them cut off, or with no file, if cut; and what is left of a file it was writing.
LeaveOnDisk(n, cut, left) ==
  /\ n \in 0 .. Len(lines) /\ (cut => n > 0)
  /\ rphase' = "ended"
  /\ lines' = SubSeq(lines, 1, n)
  /\ written' = [i \in 1 .. n |-> IF written[i] = "open" THEN left ELSE written[i]]
  /\ torn' = cut /\ recording' = FALSE /\ last_timestamp' = 0 /\ sent' = 0
  /\ UNCHANGED json

\* The streams are stopped, the device closed, and the index closed with all of its
\* lines, or those there is room for.
End(n, cut) ==
  /\ rphase = "stopping" /\ ~Writing
  /\ DiskFull \/ (n = Len(lines) /\ ~cut)
  /\ LeaveOnDisk(n, cut, "empty") /\ clean' = (clean /\ n = Len(lines) /\ ~cut)

\* open_dump() cannot make the file whose line it has written, and exits, which
\* closes the index.
NoFile(n, cut) ==
  /\ DiskFull /\ rphase \in {"events", "accel", "stopping"} /\ Writing
  /\ n = Len(lines) => cut
  /\ LeaveOnDisk(n, cut, "empty") /\ clean' = FALSE

\* Of the index, and of a file that is open, as much is on disk as stdio has flushed.
Kill(n, cut, left) ==
  /\ Killed /\ rphase \in {"events", "accel", "stopping"}
  /\ LeaveOnDisk(n, cut, left) /\ clean' = FALSE

RecorderInit ==
  /\ rphase = "new" /\ recording = TRUE /\ lines = <<>> /\ written = <<>>
  /\ last_timestamp = 0 /\ sent = 0 /\ json = FALSE /\ torn = FALSE /\ clean = TRUE

RecorderNext ==
  \/ \E e, o, s \in BOOLEAN : Begin(e, o, s)
  \/ \E t \in {"d", "r"}, g \in Gaps : RecordFrame(t, g)
  \/ \E ok \in BOOLEAN : ProcessedEvents(ok)
  \/ \E g \in Gaps : SnapshotAccel(g)
  \/ \E how \in {"empty", "short", "whole"} : Data(how)
  \/ Signal
  \/ \E n \in 0 .. MaxItems, cut \in BOOLEAN : End(n, cut)
  \/ \E n \in 0 .. MaxItems, cut \in BOOLEAN : NoFile(n, cut)
  \/ \E n \in 0 .. MaxItems, cut \in BOOLEAN, left \in {"empty", "short", "whole"} :
       Kill(n, cut, left)

\* Every variable has its type.
RecorderTypeOK ==
  /\ rphase \in {"new", "events", "accel", "stopping", "ended", "refused"}
  /\ {recording, json, torn, clean} \subseteq BOOLEAN
  /\ \A i \in DOMAIN lines :
       /\ lines[i].type \in {"d", "r", "a"} /\ lines[i].gap \in Gaps
       /\ {lines[i].ts, lines[i].id} \subseteq 1 .. MaxItems
  /\ written \in Seq({"open", "empty", "short", "whole"}) /\ Len(written) = Len(lines)
  /\ last_timestamp \in 0 .. sent /\ sent \in 0 .. MaxItems
=============================================================================
