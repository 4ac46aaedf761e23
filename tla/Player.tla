------------------------------- MODULE Player -------------------------------
(***************************************************************************)
(* fakenect (src/fakenect/fakenect.c): libfreenect's interface over a       *)
(* recording.  Each freenect_process_events() plays one line of the index.  *)
(*                                                                          *)
(* What the recorder left on disk is input.  Time is counted in units; the  *)
(* client may be slow between two calls and in its callbacks.               *)
(***************************************************************************)
EXTENDS Recorder

CONSTANTS
  Delays,         \* how long a client's callback, or what it does between calls, takes
  LoopPlayback    \* FAKENECT_LOOP is not set to a word for no

ASSUME PlayerAssumption == Delays \subseteq Nat /\ 0 \in Delays /\ LoopPlayback \in BOOLEAN

VARIABLES
  pphase,         \* "off", "up", "exited" (exit(1)) or "crashed"
  position,       \* lines of the index read, -1 while it is closed
  cbs, on,        \* callbacks that are set and streams that run: of "d" and "r"
  formats,        \* the formats of depth and video
  tables,         \* freenect_init_registration() was called
  state,          \* the tilt state
  pictures,       \* the last picture: its item and the format it is in
  timed,          \* record_prev_time and playback_prev_time are not 0
  idle,           \* time since playback_prev_time
  busy,           \* how long the last callback took
  \* of the last line played: its distance from the line before, in the recording
  \* too, and the time of it that was the client's
  spacing, gap, spent

playVars == <<pphase, position, cbs, on, formats, tables, state, pictures,
              timed, idle, busy, spacing, gap, spent>>
client == <<cbs, on, formats>>
pace == <<timed, idle, busy, spacing, gap, spent>>

NoPicture == [item |-> [type |-> "none", gap |-> 0, ts |-> 0, id |-> 0], as |-> "none"]
Ended == rphase = "ended"

-----------------------------------------------------------------------------

\* No device.json is no error.
ReadDeviceInfo == tables' = json
\* freenect_init()
Open ==
  /\ Ended /\ pphase = "off"
  /\ pphase' = "up" /\ ReadDeviceInfo
  /\ formats' = <<"11BIT", "RGB">>
  /\ UNCHANGED <<recVars, position, cbs, on, state, pictures, pace>>

\* freenect_shutdown(): the callbacks, the streams and the place in the index are
\* those of the program, and stay.
Shutdown ==
  /\ pphase = "up" /\ pphase' = "off"
  /\ UNCHANGED <<recVars, position, client, tables, state, pictures, pace>>

\* freenect_set_depth_callback() and freenect_set_video_callback()
SetCallbacks ==
  /\ pphase = "up" /\ cbs = {} /\ cbs' = {"d", "r"}
  /\ UNCHANGED <<recVars, pphase, position, on, formats, tables, state, pictures, pace>>
StartStop(c) ==
  /\ pphase = "up" /\ on' = IF c \in on THEN on \ {c} ELSE on \cup {c}
  /\ UNCHANGED <<recVars, pphase, position, cbs, formats, tables, state, pictures, pace>>
SetMode(f) ==
  /\ pphase = "up" /\ formats' = f
  /\ UNCHANGED <<recVars, pphase, position, cbs, on, tables, state, pictures, pace>>

-----------------------------------------------------------------------------
(* freenect_process_events() *)

\* Mutant: an empty file counts as one that cannot be opened.
MutFileOf(n) ==
  IF (n = Len(lines) /\ torn) \/ written[n] = "empty" THEN "missing" ELSE written[n]
\* The file of line n, which may be named by half of its name; where there is no
\* such file the program exits.
FileOf(n) == IF n = Len(lines) /\ torn THEN "missing" ELSE written[n]

\* Sleeps for what is left of the recorded time since the end of the call before.
\* Mutant: the time that has passed is not taken off, but the time recorded.
MutSleep(g) == IF timed /\ idle > g THEN idle - g ELSE 0
Sleep(g) == IF timed /\ g > idle THEN g - idle ELSE 0

\* Whether a line's picture is handed out.
HandedOut(type) == type \in cbs /\ type \in on

\* The format a picture is converted to.
\* Mutant: depth in the video's format.
MutFormatOf(type) == formats[2]
FormatOf(type) == IF type = "d" THEN formats[1] ELSE formats[2]

\* A tilt state is taken only if it has the right size.
\* Mutant: it is taken as it is.
MutAccepts(n) == TRUE
Accepts(n) == written[n] = "whole"

\* Where the index ends, and where a file cannot be read, it is closed, to begin
\* again with the next call; or, if playing does not loop, -1 is returned, and the
\* next call reads on from there.
\* Mutant: the index is left open at its end.
MutClosed == Len(lines)
Closed == -1
AtEnd(n) ==
  /\ IF LoopPlayback THEN position' = Closed /\ timed' = FALSE
     ELSE position' = (IF n > Len(lines) THEN Len(lines) + 1 ELSE n) /\ UNCHANGED timed
  /\ UNCHANGED <<recVars, pphase, client, tables, state, pictures, idle, busy, spacing, gap, spent>>

PlayLine(n, took) ==
  LET item == lines[n]
      as == FormatOf(item.type)
      slept == Sleep(item.gap)
      out == item.type # "a" /\ HandedOut(item.type)
      fatal == out /\ (written[n] = "short" \/ (as \in {"REGISTERED", "MM"} /\ ~tables))
  IN  /\ (~out => took = 0)
      /\ pphase' = IF fatal THEN "crashed" ELSE pphase
      /\ position' = n
      /\ pictures' = IF out THEN [item |-> item, as |-> as] ELSE pictures
      \* a state of another size is reported once, and dropped
      /\ state' = IF item.type = "a" /\ Accepts(n) THEN item.id ELSE state
      /\ timed' = TRUE /\ idle' = 0 /\ busy' = took
      /\ IF timed THEN spacing' = busy + idle + slept /\ gap' = item.gap /\ spent' = busy + idle
                  ELSE spacing' = 0 /\ gap' = 0 /\ spent' = 0
      /\ UNCHANGED <<recVars, client, tables>>

ProcessEvents(took) ==
  /\ pphase = "up"
  /\ LET n == IF position = -1 THEN 1 ELSE position + 1
     IN  IF n > Len(lines) \/ FileOf(n) = "empty" THEN AtEnd(n) /\ took = 0
         ELSE IF FileOf(n) = "missing"
         THEN pphase' = "exited" /\ took = 0
              /\ UNCHANGED <<recVars, position, client, tables, state, pictures, pace>>
         ELSE PlayLine(n, took)

\* The client does something else.
Elapse ==
  /\ pphase \in {"off", "up"} /\ timed /\ idle + 1 \in Delays /\ idle' = idle + 1
  /\ UNCHANGED <<recVars, pphase, position, client, tables, state, pictures, timed, busy,
                 spacing, gap, spent>>

PlayerInit ==
  /\ pphase = "off" /\ position = Closed /\ cbs = {} /\ on = {}
  /\ formats = <<"11BIT", "RGB">> /\ tables = FALSE /\ state = 0 /\ pictures = NoPicture
  /\ timed = FALSE /\ idle = 0 /\ busy = 0 /\ spacing = 0 /\ gap = 0 /\ spent = 0

\* With the formats a client may choose.
PlayerNext(Chosen) ==
  \/ Open \/ Shutdown
  \/ SetCallbacks
  \/ \E c \in {"d", "r"} : StartStop(c)
  \/ \E f \in Chosen : SetMode(f)
  \/ \E took \in Delays : ProcessEvents(took)
  \/ Elapse

-----------------------------------------------------------------------------
(* Properties. *)

\* Every variable has its type.
PlayerTypeOK ==
  /\ pphase \in {"off", "up", "exited", "crashed"}
  /\ position \in -1 .. MaxItems + 1
  /\ cbs \subseteq {"d", "r"} /\ on \subseteq {"d", "r"}
  /\ pictures.item.type \in {"none", "d", "r"}
  /\ pictures.item.type = "d" => pictures.as \in {"11BIT", "REGISTERED", "MM"}
  /\ pictures.item.type = "r" => pictures.as \in {"RGB", "YUV_RAW"}
  /\ tables \in BOOLEAN /\ state \in 0 .. MaxItems
  /\ timed \in BOOLEAN /\ idle \in Delays /\ busy \in Delays

\* What Ctrl-C ended with room on the disk plays, over and over: "the signal will be
\* caught, runloop stopped, and everything will be stored cleanly"
\* (src/fakenect/fakenect-record.1); all that ends it badly is to ask for an aligned
\* picture without the device's constants.  Of any other recording the program exits
\* only where the index on disk ends, in a line cut off or without its file, and
\* crashes only if a picture has a part of its data.
BadEndsExplained ==
  /\ pphase = "exited" => /\ ~clean /\ torn
                          /\ Len(lines) = IF position = -1 THEN 1 ELSE position + 1
  /\ pphase = "crashed" => \/ ~clean /\ \E i \in DOMAIN written : written[i] = "short"
                           \/ ~json /\ formats[1] # "11BIT"

\* No two pictures follow each other sooner than they did when they were recorded,
\* and what they are late is no more than the time the client took.
NotTooFast == spacing >= gap /\ spacing <= gap + spent

\* Playing in a loop implements the tape, whose items are those of the index up to
\* the first with no data in its file; it is inserted when the recorder has ended.
Upto == CHOOSE n \in 0 .. Len(lines) :
          /\ n < Len(lines) => FileOf(n + 1) \in {"empty", "missing"}
          /\ \A i \in 1 .. n : FileOf(i) \notin {"empty", "missing"}
tape == IF ~Ended THEN <<>>
        ELSE [i \in 1 .. Upto |->
                [type |-> IF lines[i].type = "a" /\ written[i] # "whole" THEN "x" ELSE lines[i].type,
                 ts |-> lines[i].ts, id |-> lines[i].id]]
Tape == INSTANCE Tape WITH
  tape <- tape,
  at <- IF position = -1 THEN 0 ELSE IF position > Len(tape) THEN Len(tape) ELSE position,
  shown <- [type |-> pictures.item.type, ts |-> pictures.item.ts, id |-> pictures.item.id],
  tilt <- state
PlaysTape == Tape!TapeSpec

\* A recording that loops is gone through again and again by a client that keeps
\* calling freenect_process_events().
Replays == LoopPlayback /\ Len(lines) > 0 /\ pphase = "up" /\ position = Len(lines)
             ~> position # Len(lines) \/ pphase # "up"

\* The player's safety: recordings of any fate play without a bad end that the
\* recording does not explain, and never faster than they were made.
PlayerInv == RecorderTypeOK /\ PlayerTypeOK /\ BadEndsExplained /\ NotTooFast
=============================================================================
