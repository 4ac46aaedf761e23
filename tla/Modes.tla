------------------------------- MODULE Modes -------------------------------
(***************************************************************************)
(* The modes of the two streams of a camera (src/src/cameras.c): the tables *)
(* of modes, the camera's initialisation, choosing a mode, and starting and *)
(* stopping a stream, as far as the registers of the camera, the sizes of   *)
(* the buffers and the registration tables go.                              *)
(*                                                                          *)
(* Sizes are the real ones, in bytes.  A register is named by its number.   *)
(* The commands that write registers may fail, and the code drops the       *)
(* error: of the commands an action sends, any one may be lost.             *)
(***************************************************************************)
EXTENDS Integers, Sequences, FiniteSetsExt

CONSTANT MaxLost     \* bound: commands to the camera that are lost

ASSUME ModesAssumption == MaxLost \in Nat

Mode(fmt, res, w, h, bits, pad, bytes) ==
  [fmt |-> fmt, res |-> res, w |-> w, h |-> h, bits |-> bits, pad |-> pad, bytes |-> bytes]

SupportedVideo ==
  {Mode("RGB", "high", 1280, 1024, 24, 0, 1280*1024*3),
   Mode("RGB", "medium", 640, 480, 24, 0, 640*480*3),
   Mode("BAYER", "high", 1280, 1024, 8, 0, 1280*1024),
   Mode("BAYER", "medium", 640, 480, 8, 0, 640*480),
   Mode("IR_8BIT", "high", 1280, 1024, 8, 0, 1280*1024),
   Mode("IR_8BIT", "medium", 640, 488, 8, 0, 640*488),
   Mode("IR_10BIT", "high", 1280, 1024, 10, 6, 1280*1024*2),
   Mode("IR_10BIT", "medium", 640, 488, 10, 6, 640*488*2),
   Mode("IR_10BIT_PACKED", "high", 1280, 1024, 10, 0, (1280*1024*10) \div 8),
   Mode("IR_10BIT_PACKED", "medium", 640, 488, 10, 0, (640*488*10) \div 8),
   Mode("YUV_RGB", "medium", 640, 480, 24, 0, 640*480*3),
   Mode("YUV_RAW", "medium", 640, 480, 16, 0, 640*480*2)}

SupportedDepth ==
  {Mode("11BIT", "medium", 640, 480, 11, 5, 640*480*2),
   Mode("10BIT", "medium", 640, 480, 10, 6, 640*480*2),
   Mode("11BIT_PACKED", "medium", 640, 480, 11, 0, (640*480*11) \div 8),
   Mode("10BIT_PACKED", "medium", 640, 480, 10, 0, (640*480*10) \div 8),
   Mode("REGISTERED", "medium", 640, 480, 16, 0, 640*480*2),
   Mode("MM", "medium", 640, 480, 16, 0, 640*480*2)}

IR == {"IR_8BIT", "IR_10BIT", "IR_10BIT_PACKED"}
Aligned == {"REGISTERED", "MM"}
Formats == {m.fmt : m \in SupportedVideo} \cup {m.fmt : m \in SupportedDepth}
Resolutions == {"low", "medium", "high"}

\* freenect_find_video_mode() and freenect_find_depth_mode()
Find(modes, res, fmt) == CHOOSE m \in modes : m.fmt = fmt /\ m.res = res

Registers ==
  {"05", "06", "0c", "0d", "0e", "12", "13", "14", "17", "19", "1a", "1b", "47", "48", "105"}

VARIABLES
  inited,            \* freenect_camera_init(): "no", "yes" or "failed"
  fetched,           \* the calibration the device has: of "pad", "zero_plane", "const_shift"
  video, depth,      \* of the streams: [mode, running, raw, proc], sizes of buffers
  reg_info,          \* the resolution reg_info is for, or "zero": the device was cleared
  tables,            \* the resolution the registration tables are for, or "none"
  regs,              \* the camera's registers
  stale,             \* the streams a command of whose last start or stop was lost, and
                     \* "reg_info" if the last command to fetch it was
  lost               \* how many commands were lost

modeVars == <<inited, fetched, video, depth, reg_info, tables, regs, stale, lost>>

-----------------------------------------------------------------------------

\* write_register() for each of the pairs in turn, losing number k if it is one.
\* A register has the value the last command that reached it wrote.
Write(s, k) ==
  regs' = [r \in Registers |->
             LET on == {i \in DOMAIN s \ {k} : s[i][1] = r}
             IN  IF on = {} THEN regs[r] ELSE s[Max(on)][2]]
\* Which of n commands is lost, 0 for none.
Losing(n) == IF lost < MaxLost THEN 0 .. n ELSE {0}
Count(k) == lost' = IF k = 0 THEN lost ELSE lost + 1

\* freenect_fetch_reg_info(), whose error freenect_set_video_mode() drops.
\* Mutant: what came is copied before its length is looked at.
MutFetchRegInfo(res, k) == reg_info' = IF k = 0 THEN res ELSE "junk"
FetchRegInfo(res, k) == reg_info' = IF k = 0 THEN res ELSE reg_info
StaleInfo(k) == stale' = IF k = 0 THEN stale \ {"reg_info"} ELSE stale \cup {"reg_info"}

-----------------------------------------------------------------------------
(* The camera's initialisation when the device is opened. *)

\* What each of the three fetches when command k has no answer.
FetchRegPadInfo(k) == IF k = 1 THEN {} ELSE {"pad"}
FetchZeroPlaneInfo(k) == IF k \in {1, 2} THEN {} ELSE {"zero_plane"}
FetchRegConstShift(k) == IF k \in {1, 2, 4} THEN {} ELSE {"const_shift"}

\* Stops at the first command without an answer, as far as errors are looked at.
\* Mutant: the last error is dropped as well.
MutCameraInit(k) ==
  /\ inited = "no"
  /\ inited' = IF k \in {1, 2} THEN "failed" ELSE "yes"
  /\ fetched' = FetchRegPadInfo(k) \cup FetchZeroPlaneInfo(k) \cup FetchRegConstShift(k)
  /\ IF k \in {1, 2} THEN UNCHANGED <<reg_info, stale>>
     ELSE LET lose == IF k = 3 THEN 1 ELSE 0 IN FetchRegInfo("medium", lose) /\ StaleInfo(lose)
  /\ Count(k)
  /\ UNCHANGED <<video, depth, tables, regs>>
CameraInit(k) ==
  /\ inited = "no"
  /\ inited' = IF k \in {1, 2, 4} THEN "failed" ELSE "yes"
  /\ fetched' = FetchRegPadInfo(k) \cup FetchZeroPlaneInfo(k) \cup FetchRegConstShift(k)
  /\ IF k \in {1, 2} THEN UNCHANGED <<reg_info, stale>>
     ELSE LET lose == IF k = 3 THEN 1 ELSE 0 IN FetchRegInfo("medium", lose) /\ StaleInfo(lose)
  /\ Count(k)
  /\ UNCHANGED <<video, depth, tables, regs>>

(* Choosing a mode. *)

\* Refused while the stream runs: then nothing changes.
SetVideoMode(m, k) ==
  /\ inited = "yes" /\ ~video.running
  /\ video' = [video EXCEPT !.mode = m]
  /\ FetchRegInfo(m.res, k) /\ StaleInfo(k) /\ Count(k)
  /\ UNCHANGED <<inited, fetched, depth, tables, regs>>

\* Mutant: the mode of a running stream may change.
MutSetDepthMode(m) ==
  /\ inited = "yes" /\ depth' = [depth EXCEPT !.mode = m]
  /\ UNCHANGED <<inited, fetched, video, reg_info, tables, regs, stale, lost>>
SetDepthMode(m) ==
  /\ inited = "yes" /\ ~depth.running
  /\ depth' = [depth EXCEPT !.mode = m]
  /\ UNCHANGED <<inited, fetched, video, reg_info, tables, regs, stale, lost>>

-----------------------------------------------------------------------------
(* Starting a stream. *)

\* What the camera sends for a format that the host converts.
RawFormat ==
  [RGB |-> "BAYER", IR_8BIT |-> "IR_10BIT_PACKED", IR_10BIT |-> "IR_10BIT_PACKED",
   YUV_RGB |-> "YUV_RAW"]
RawDepthFormat(fmt) ==
  IF fmt = "10BIT" THEN "10BIT_PACKED"
  ELSE IF fmt \in {"11BIT"} \cup Aligned THEN "11BIT_PACKED" ELSE "none"

\* The sizes stream_init() is given; 0 for a frame that needs no conversion.
VideoRaw(m) ==
  IF m.fmt \in DOMAIN RawFormat THEN Find(SupportedVideo, m.res, RawFormat[m.fmt]).bytes ELSE 0
DepthRaw(m) ==
  IF RawDepthFormat(m.fmt) = "none" THEN 0
  ELSE Find(SupportedDepth, m.res, RawDepthFormat(m.fmt)).bytes
DepthProc(m) ==
  IF m.fmt \in Aligned THEN Find(SupportedDepth, m.res, "11BIT").bytes ELSE m.bytes

\* The registers of the picture: mode, resolution and frame rate, in the bank of
\* the colour or of the infrared camera.
Picture(m) ==
  IF m.fmt \in {"YUV_RGB", "YUV_RAW"} THEN <<<<"0c", 5>>, <<"0d", 1>>, <<"0e", 15>>>>
  ELSE LET bank == IF m.fmt \in IR THEN <<"19", "1a", "1b">> ELSE <<"0c", "0d", "0e">>
       IN  IF m.res = "high" THEN <<<<bank[1], 0>>, <<bank[2], 2>>, <<bank[3], 15>>>>
           ELSE <<<<bank[1], 0>>, <<bank[2], 1>>, <<bank[3], 30>>>>

\* For high resolution infrared the depth stream is started and stopped first.
Workaround == <<<<"13", 1>>, <<"14", 30>>, <<"06", 2>>, <<"06", 0>>>>
HighIR(m) == m.fmt \in IR /\ m.res = "high"
StartVideoWrites(m) ==
  Picture(m) \o IF m.fmt \in IR THEN <<<<"105", 0>>, <<"05", 3>>, <<"48", 0>>>>
                ELSE <<<<"05", 1>>, <<"47", 0>>>>

\* Mutant: high resolution infrared is not refused.
MutMayStartVideo == ~video.running
MayStartVideo == ~video.running /\ ~(HighIR(video.mode) /\ depth.running)

\* fnusb_start_iso() may fail: by then the buffers are there and the workaround
\* has been sent.
StartVideo(ok, k) ==
  LET m == video.mode
      first == IF HighIR(m) THEN Workaround ELSE <<>>
      w == first \o IF ok THEN StartVideoWrites(m) ELSE <<>>
  IN  /\ inited = "yes" /\ MayStartVideo /\ k \in Losing(Len(w))
      /\ video' = [video EXCEPT !.running = ok, !.raw = VideoRaw(m), !.proc = m.bytes]
      /\ Write(w, k) /\ Count(k)
      /\ stale' = (IF k = 0 THEN stale \ (IF ok THEN {"video"} ELSE {})
                   ELSE stale \cup (IF k <= Len(first) THEN {"depth"} ELSE {"video"}))
      /\ UNCHANGED <<inited, fetched, depth, reg_info, tables>>

StartDepthWrites(m) ==
  <<<<"105", 0>>, <<"06", 0>>,
    <<"12", IF m.fmt \in {"10BIT", "10BIT_PACKED"} THEN 2 ELSE 3>>,
    <<"13", 1>>, <<"14", 30>>, <<"06", 2>>, <<"17", 0>>>>
\* freenect_init_registration() fills new tables, freenect_destroy_registration()
\* frees them.
InitRegistration == tables' = reg_info
DestroyRegistration == tables' = "none"

StartDepth(ok, k) ==
  LET m == depth.mode
      w == IF ok THEN StartDepthWrites(m) ELSE <<>>
  IN  /\ inited = "yes" /\ ~depth.running /\ k \in Losing(Len(w))
      /\ depth' = [depth EXCEPT !.running = ok, !.raw = DepthRaw(m), !.proc = DepthProc(m)]
      /\ IF m.fmt \in Aligned THEN InitRegistration ELSE UNCHANGED tables
      /\ Write(w, k) /\ Count(k)
      /\ stale' = IF ~ok THEN stale
                  ELSE IF k = 0 THEN stale \ {"depth"} ELSE stale \cup {"depth"}
      /\ UNCHANGED <<inited, fetched, video, reg_info>>

(* Stopping one. *)

StopVideo(k) ==
  /\ video.running /\ k \in Losing(1)
  /\ video' = [video EXCEPT !.running = FALSE, !.raw = 0, !.proc = 0]
  /\ Write(<<<<"05", 0>>>>, k) /\ Count(k)
  /\ stale' = IF k = 0 THEN stale \ {"video"} ELSE stale \cup {"video"}
  /\ UNCHANGED <<inited, fetched, depth, reg_info, tables>>

StopDepth(k) ==
  /\ depth.running /\ k \in Losing(1)
  /\ depth' = [depth EXCEPT !.running = FALSE, !.raw = 0, !.proc = 0]
  /\ DestroyRegistration
  /\ Write(<<<<"06", 0>>>>, k) /\ Count(k)
  /\ stale' = IF k = 0 THEN stale \ {"depth"} ELSE stale \cup {"depth"}
  /\ UNCHANGED <<inited, fetched, video, reg_info>>

-----------------------------------------------------------------------------

Stopped(mode) == [mode |-> mode, running |-> FALSE, raw |-> 0, proc |-> 0]
ModesInit ==
  /\ inited = "no" /\ fetched = {}
  /\ video = Stopped(Find(SupportedVideo, "medium", "RGB"))
  /\ depth = Stopped(Find(SupportedDepth, "medium", "11BIT"))
  /\ reg_info = "zero" /\ tables = "none"
  /\ regs = [r \in Registers |-> 0]
  /\ stale = {} /\ lost = 0

\* A client that uses only some formats.
ModesNext(formats) ==
  \/ \E k \in Losing(4) : CameraInit(k)
  \/ \E m \in SupportedVideo, k \in Losing(1) : m.fmt \in formats /\ SetVideoMode(m, k)
  \/ \E m \in SupportedDepth : m.fmt \in formats /\ SetDepthMode(m)
  \/ \E ok \in BOOLEAN, k \in 0 .. 10 : StartVideo(ok, k)
  \/ \E ok \in BOOLEAN, k \in 0 .. 7 : StartDepth(ok, k)
  \/ \E k \in 0 .. 1 : StopVideo(k)
  \/ \E k \in 0 .. 1 : StopDepth(k)

-----------------------------------------------------------------------------
(* Properties. *)

\* Every variable has its type.
ModesTypeOK ==
  /\ inited \in {"no", "yes", "failed"}
  /\ fetched \subseteq {"pad", "zero_plane", "const_shift"}
  /\ video.mode \in SupportedVideo /\ depth.mode \in SupportedDepth
  /\ video.running \in BOOLEAN /\ depth.running \in BOOLEAN
  /\ {reg_info, tables} \subseteq {"none", "zero"} \cup Resolutions
  /\ regs \in [Registers -> 0 .. 30]
  /\ stale \subseteq {"video", "depth", "reg_info"} /\ lost \in 0 .. MaxLost

\* freenect_camera_init() fails if the padding, the zero plane or the constant
\* shift was not fetched.  The registration's own constants may be missing: the
\* error of fetching them is dropped.  They are those of the video mode's resolution
\* unless that fetch failed when the mode was set; then they are an older mode's, or
\* zero.
Calibrated ==
  inited = "yes" =>
    /\ fetched = {"pad", "zero_plane", "const_shift"}
    /\ "reg_info" \notin stale => reg_info = video.mode.res

\* The frame a running stream receives and the picture made of it fit into the
\* buffers stream_init() made for them, whatever modes were set and whatever
\* failed before: the raw buffer holds the bits of w * h pixels as the camera
\* packs them, and the processed one the bits of the mode's pixels with their
\* padding.  A conversion that needs the registration tables has them.
PackedBits(fmt) ==
  CASE fmt = "RGB" -> 8 [] fmt = "YUV_RGB" -> 16 [] fmt \in {"IR_8BIT", "IR_10BIT"} -> 10
    [] fmt = "10BIT" -> 10 [] OTHER -> 11
FrameFits ==
  \A s \in {video, depth} : s.running =>
    /\ 8 * s.proc = s.mode.w * s.mode.h * (s.mode.bits + s.mode.pad)
    /\ s.raw # 0 => 8 * s.raw = s.mode.w * s.mode.h * PackedBits(s.mode.fmt)
    /\ s.mode.fmt \in Aligned => tables # "none"

\* The camera sends what the library expects: a stream's start register says
\* that the stream runs exactly when the library does, and the registers of a
\* running stream are those of its mode, unless a command of its last start or
\* stop was lost.  Starting or stopping the stream again makes up for a loss.
CameraFollows ==
  /\ "video" \notin stale =>
       /\ regs["05"] = IF ~video.running THEN 0 ELSE IF video.mode.fmt \in IR THEN 3 ELSE 1
       /\ video.running => \A i \in 1 .. 3 :
            regs[Picture(video.mode)[i][1]] = Picture(video.mode)[i][2]
  /\ "depth" \notin stale =>
       /\ regs["06"] = IF depth.running THEN 2 ELSE 0
       /\ depth.running => /\ regs["12"] = IF depth.mode.bits = 10 THEN 2 ELSE 3
                           /\ regs["13"] = 1 /\ regs["14"] = 30

\* The modes' safety: a camera in use has the constants whose fetch is checked,
\* and frames fit the buffers made for them.
ModesInv == ModesTypeOK /\ Calibrated /\ FrameFits
=============================================================================
