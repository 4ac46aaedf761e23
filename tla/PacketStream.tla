---------------------------- MODULE PacketStream ----------------------------
(***************************************************************************)
(* One camera stream of libfreenect: the packets of an isochronous endpoint *)
(* are put together into frames by stream_process() and handed to the       *)
(* client by depth_process() / video_process() (src/src/cameras.c).         *)
(*                                                                          *)
(* The camera and the bus are the environment.  The camera numbers its      *)
(* packets with a sequence number that wraps; the bus loses packets; the    *)
(* camera may abandon a frame and begin the next one; a packet may be       *)
(* longer or shorter than the host expects.  A frame's bytes are abstracted *)
(* to the packet each part came from: part s of a buffer holds <<f, s>> when *)
(* it was filled by packet s of the camera's frame f, and <<f, Torn>> when  *)
(* that packet was short and left older bytes behind it.                    *)
(***************************************************************************)
EXTENDS Integers

CONSTANTS
  PktsPerFrame,  \* pkts_per_frame: packets of one frame
  SeqMod,        \* hdr->seq is a uint8_t: 256 in the code
  MaxLost,       \* more packets lost than this resynchronises: 5 in the code
  MaxGap,        \* environment: most packets lost in a row while synced
  MaxFrames,     \* bound: the camera sends frames 1..MaxFrames
  ShortSlots,    \* environment: packets of a frame that may come short
  UserBufs,      \* buffers the client may hand to stream_setbuf()
  SwapAnyTime    \* may the client change buffers outside the frame callback?

ASSUME PacketAssumption ==
  /\ PktsPerFrame \in Nat /\ SeqMod \in Nat /\ MaxLost \in Nat /\ MaxGap \in Nat
  /\ MaxFrames \in Nat
  /\ PktsPerFrame > MaxLost + 1
  /\ MaxGap < SeqMod /\ SeqMod > 1
  /\ ShortSlots \subseteq 0 .. PktsPerFrame - 1
  /\ SwapAnyTime \in BOOLEAN

NULL == "NULL"      \* no buffer
LibBuf == "lib_buf" \* the buffer stream_init() allocates for the client's data
RawBuf == "raw_buf" \* the buffer stream_init() allocates for packed data

ASSUME BufferAssumption == UserBufs \cap {NULL, LibBuf, RawBuf} = {}

Slots == 0 .. PktsPerFrame - 1
LastSlot == PktsPerFrame - 1
Buffers == UserBufs \cup {LibBuf, RawBuf}
Frames == 0 .. MaxFrames + 1      \* frame 0: no frame yet; the camera ends at the last
Torn == PktsPerFrame              \* in the place of a slot: bytes of several packets
Parts == Frames \X (Slots \cup {Torn})
Garbage == <<0, 0>>               \* content no packet has written
Unwritten == [s \in Slots |-> Garbage]

VARIABLES
  \* the camera
  camFrame, camSlot, camSeq,
  unseen,         \* packets sent since the one the host's seq names
  clean,          \* packets accepted by the wire in a row, up to 2 frames
  cut,            \* packets of the frame being assembled that came short
  \* packet_stream
  running, synced, seq, pkt_num, got_pkts, valid_pkts,
  last_timestamp, timestamp,
  split_bufs, lib_buf, usr_buf, raw_buf, proc_buf,
  mem,            \* contents of the buffers
  delivered       \* the last frame the client's callback was given

camera == <<camFrame, camSlot, camSeq>>
assembly == <<synced, seq, pkt_num, got_pkts, valid_pkts, last_timestamp, timestamp>>
buffers == <<split_bufs, lib_buf, usr_buf, raw_buf, proc_buf>>
vars == <<camera, unseen, clean, cut, running, assembly, buffers, mem, delivered>>

-----------------------------------------------------------------------------
(* The camera. *)

Flag(slot) == IF slot = 0 THEN "sof" ELSE IF slot = LastSlot THEN "eof" ELSE "mof"

\* The header of the packet on the wire, and what its data leave in its place.
Hdr == [flag |-> Flag(camSlot), seq |-> camSeq, timestamp |-> camFrame]
Data(short) == <<camFrame, IF short THEN Torn ELSE camSlot>>

Advance ==
  /\ camSeq' = (camSeq + 1) % SeqMod
  /\ IF camSlot = LastSlot
     THEN camSlot' = 0 /\ camFrame' = camFrame + 1
     ELSE camSlot' = camSlot + 1 /\ camFrame' = camFrame

\* The stream is on and the camera has a packet to send (bound: MaxFrames).
OnWire == running /\ camFrame <= MaxFrames

Arrived == clean' = IF clean < 2 * PktsPerFrame THEN clean + 1 ELSE clean

-----------------------------------------------------------------------------
(* stream_process(): what it makes of the header, before it changes anything. *)

\* uint8_t lost = hdr->seq - strm->seq; none for the SOF that synchronises.
Lost == IF synced THEN (Hdr.seq - seq) % SeqMod ELSE 0

Left == PktsPerFrame - pkt_num

\* Mutant: off by one, a frame whose last packet was the last one lost goes on.
MutLossEndsFrame == Lost > 0 /\ Left < Lost

\* The packets lost include the last one of the frame being assembled.
LossEndsFrame == Lost > 0 /\ Left <= Lost

\* Mutants: got_pkts not reset when a frame ends in a gap; lost packets counted
\* as received.
MutGotNotReset == IF synced THEN got_pkts ELSE 0
MutGotCountsLost == IF synced /\ ~LossEndsFrame THEN got_pkts + Lost ELSE 0

\* pkt_num and got_pkts once the lost packets are accounted for.
Position ==
  IF ~synced THEN 0
  ELSE IF LossEndsFrame THEN Lost - Left ELSE pkt_num + Lost
Got == IF synced /\ ~LossEndsFrame THEN got_pkts ELSE 0

\* Mutant: only the number of packets is checked, not their flags.
MutHeaderFits == Position < PktsPerFrame

HeaderFits ==
  \/ Position = 0 /\ Hdr.flag = "sof"
  \/ Position = LastSlot /\ Hdr.flag = "eof"
  \/ Position > 0 /\ Position < LastSlot /\ Hdr.flag = "mof"

\* stream_process() got past the sync test and the limit on lost packets.
Accepted == OnWire /\ (synced \/ Hdr.flag = "sof") /\ Lost <= MaxLost

-----------------------------------------------------------------------------
(* Buffers. *)

\* Mutant: NULL accepted with no buffer to fall back on.
MutSetbufNull(b) ==
  IF ~running
  THEN usr_buf' = b /\ UNCHANGED <<split_bufs, lib_buf, raw_buf, proc_buf>>
  ELSE /\ usr_buf' = b
       /\ proc_buf' = IF b = NULL THEN lib_buf ELSE b
       /\ raw_buf' = IF split_bufs THEN raw_buf ELSE proc_buf'
       /\ UNCHANGED <<split_bufs, lib_buf>>

\* stream_setbuf(): the whole function, both branches and its error return.
stream_setbuf(b) ==
  IF ~running
  THEN usr_buf' = b /\ UNCHANGED <<split_bufs, lib_buf, raw_buf, proc_buf>>
  ELSE IF b = NULL /\ lib_buf = NULL
  THEN UNCHANGED buffers
  ELSE /\ usr_buf' = b
       /\ proc_buf' = IF b = NULL THEN lib_buf ELSE b
       /\ raw_buf' = IF split_bufs THEN raw_buf ELSE proc_buf'
       /\ UNCHANGED <<split_bufs, lib_buf>>

\* The conversions rewrite every pixel of raw_buf into proc_buf; of a part of
\* the frame they keep which packet it came from.  Packed and Bayer formats
\* have no second buffer and are delivered as they were received.
Convert(m) == IF split_bufs THEN [m EXCEPT ![proc_buf] = m[raw_buf]] ELSE m

\* The end of depth_process() / video_process(): convert, then call the
\* client, which may hand over its next buffer from inside the callback.
Deliver(m, valid, ts, c) ==
  /\ mem' = Convert(m)
  /\ delivered' = [parts |-> mem'[proc_buf], valid |-> valid, ts |-> ts,
                    split |-> split_bufs, cut |-> c]
  /\ \/ UNCHANGED buffers
     \/ \E b \in UserBufs \cup {NULL} : stream_setbuf(b)

\* stream_process() returned m in memory; frame: got_frame_size is not 0; c: the
\* packets of that frame that came short.
Finish(frame, m, valid, ts, c) ==
  /\ valid_pkts' = valid
  /\ timestamp' = ts
  /\ IF frame THEN Deliver(m, valid, ts, c)
     ELSE mem' = m /\ UNCHANGED <<buffers, delivered>>

\* Mutant: the frame cut short keeps the timestamp of the one before it.
MutTimestampAfterGap == timestamp

\* A frame that ended inside a gap is returned with what arrived of it.
ValidAfterGap == IF ~synced THEN 0 ELSE IF LossEndsFrame THEN got_pkts ELSE valid_pkts
TimestampAfterGap == IF LossEndsFrame THEN last_timestamp ELSE timestamp

\* The short packets so far of the frame this one belongs to.
CutBefore == IF Position = 0 \/ LossEndsFrame THEN {} ELSE cut

-----------------------------------------------------------------------------
(* The packet handler: one action per way through stream_process(). *)

\* Lost on the bus, or refused before anything is touched: an empty packet,
\* one shorter than a header, or one without the magic number.
Lose ==
  /\ OnWire
  /\ synced => unseen < MaxGap
  /\ unseen' = IF synced THEN unseen + 1 ELSE unseen
  /\ clean' = 0
  /\ Advance
  /\ UNCHANGED <<cut, running, assembly, buffers, mem, delivered>>

\* Not synced and not a start of frame.
DropUnsynced ==
  /\ OnWire /\ ~synced /\ Hdr.flag # "sof"
  /\ Advance /\ Arrived
  /\ UNCHANGED <<unseen, cut, running, assembly, buffers, mem, delivered>>

\* Mutant: the packet is dropped but the stream stays synced.
MutTooManyLost ==
  /\ OnWire /\ Lost > MaxLost
  /\ unseen' = 0
  /\ Advance /\ Arrived
  /\ UNCHANGED <<assembly, cut, running, buffers, mem, delivered>>

\* lost > 5: resynchronise (variable_length is never set).
TooManyLost ==
  /\ OnWire /\ Lost > MaxLost
  /\ synced' = FALSE
  /\ unseen' = 0
  /\ Advance /\ Arrived
  /\ UNCHANGED <<seq, pkt_num, got_pkts, valid_pkts, last_timestamp, timestamp,
                 cut, running, buffers, mem, delivered>>

InconsistentFlag ==
  /\ Accepted /\ ~HeaderFits
  /\ synced' = FALSE
  /\ seq' = Hdr.seq /\ pkt_num' = Position /\ got_pkts' = Got
  /\ Finish(LossEndsFrame, mem, ValidAfterGap, TimestampAfterGap, cut)
  /\ unseen' = 0
  /\ Advance /\ Arrived
  /\ UNCHANGED <<cut, running, last_timestamp>>

\* datalen > expected_pkt_size: dropped, and seq is not advanced past it.
Oversized ==
  /\ Accepted /\ HeaderFits
  /\ synced' = TRUE
  /\ seq' = Hdr.seq /\ pkt_num' = Position /\ got_pkts' = Got
  /\ Finish(LossEndsFrame, mem, ValidAfterGap, TimestampAfterGap, cut)
  /\ unseen' = 1
  /\ clean' = 0
  /\ Advance
  /\ UNCHANGED <<cut, running, last_timestamp>>

\* The packet is copied to its place; an EOF completes the frame.  One that is
\* shorter than expected is copied as far as it goes, and counted all the same.
Store(short) ==
  LET m == [mem EXCEPT ![raw_buf][Position] = Data(short)]
      eof == Hdr.flag = "eof"
      c == CutBefore \cup (IF short THEN {Position} ELSE {})
  IN
  /\ short => camSlot \in ShortSlots
  /\ Accepted /\ HeaderFits
  /\ synced' = TRUE
  /\ seq' = (Hdr.seq + 1) % SeqMod
  /\ last_timestamp' = Hdr.timestamp
  /\ pkt_num' = IF eof THEN 0 ELSE Position + 1
  /\ got_pkts' = IF eof THEN 0 ELSE Got + 1
  /\ Finish(eof \/ LossEndsFrame, m,
            IF eof THEN Got + 1 ELSE ValidAfterGap,
            IF eof THEN Hdr.timestamp ELSE TimestampAfterGap,
            IF eof THEN c ELSE cut)
  /\ cut' = c
  /\ unseen' = 0
  /\ Advance /\ Arrived
  /\ UNCHANGED running

-----------------------------------------------------------------------------
(* The client's calls and the camera's faults. *)

\* The camera abandons the frame it is sending and begins the next one.
AbandonFrame ==
  /\ OnWire /\ camSlot # 0
  /\ camFrame' = camFrame + 1 /\ camSlot' = 0
  /\ clean' = 0
  /\ UNCHANGED <<camSeq, unseen, cut, running, assembly, buffers, mem, delivered>>

\* freenect_start_depth() / freenect_start_video(): stream_init() with or
\* without a second buffer, as the format asks, and the camera set going.
Start(split) ==
  /\ ~running /\ camFrame <= MaxFrames
  /\ running' = TRUE
  /\ synced' = FALSE
  /\ lib_buf' = IF usr_buf = NULL THEN LibBuf ELSE NULL
  /\ proc_buf' = IF usr_buf = NULL THEN LibBuf ELSE usr_buf
  /\ split_bufs' = split
  /\ raw_buf' = IF split THEN RawBuf ELSE proc_buf'
  /\ mem' = [mem EXCEPT ![LibBuf] = Unwritten, ![RawBuf] = Unwritten]
  /\ camSlot' = 0 /\ camSeq' = 0
  /\ camFrame' = IF camSlot = 0 THEN camFrame ELSE camFrame + 1
  /\ unseen' = 0 /\ clean' = 0
  /\ UNCHANGED <<seq, pkt_num, got_pkts, valid_pkts, last_timestamp, timestamp,
                 cut, usr_buf, delivered>>

\* freenect_stop_depth() / freenect_stop_video(): stream_freebufs().
Stop ==
  /\ running
  /\ running' = FALSE
  /\ raw_buf' = NULL /\ proc_buf' = NULL /\ lib_buf' = NULL
  /\ UNCHANGED <<camera, unseen, clean, cut, assembly, split_bufs, usr_buf, mem, delivered>>

\* freenect_set_depth_buffer() / freenect_set_video_buffer() by the client
\* outside the frame callback.
SetBuffer(b) ==
  /\ running => SwapAnyTime
  /\ stream_setbuf(b)
  /\ UNCHANGED <<camera, unseen, clean, cut, running, assembly, mem, delivered>>

Init ==
  /\ camFrame = 1 /\ camSlot = 0 /\ camSeq = 0
  /\ unseen = 0 /\ clean = 0 /\ cut = {}
  /\ running = FALSE /\ synced = FALSE
  /\ seq = 0 /\ pkt_num = 0 /\ got_pkts = 0 /\ valid_pkts = 0
  /\ last_timestamp = 0 /\ timestamp = 0
  /\ split_bufs = FALSE
  /\ lib_buf = NULL /\ usr_buf = NULL /\ raw_buf = NULL /\ proc_buf = NULL
  /\ mem = [b \in Buffers |-> Unwritten]
  /\ delivered = [parts |-> Unwritten, valid |-> 0, ts |-> 0, split |-> TRUE,
                  cut |-> {}]

Packet == Lose \/ DropUnsynced \/ TooManyLost \/ InconsistentFlag \/ Oversized
          \/ \E short \in BOOLEAN : Store(short)

Next ==
  \/ Packet
  \/ AbandonFrame
  \/ \E split \in BOOLEAN : Start(split)
  \/ Stop
  \/ \E b \in UserBufs \cup {NULL} : SetBuffer(b)

Spec == Init /\ [][Next]_vars


-----------------------------------------------------------------------------
(* Properties. *)

\* Positions stay inside the frame, counters inside a frame's packets and
\* sequence numbers inside their width, whatever was lost.
TypeOK ==
  /\ camFrame \in 1 .. MaxFrames + 1 /\ camSlot \in Slots /\ camSeq \in 0 .. SeqMod - 1
  /\ unseen \in Nat /\ clean \in 0 .. 2 * PktsPerFrame /\ cut \subseteq Slots
  /\ running \in BOOLEAN /\ synced \in BOOLEAN
  /\ seq \in 0 .. SeqMod - 1
  /\ pkt_num \in Slots /\ got_pkts \in 0 .. PktsPerFrame /\ valid_pkts \in 0 .. PktsPerFrame
  /\ last_timestamp \in Frames /\ timestamp \in Frames
  /\ split_bufs \in BOOLEAN
  /\ lib_buf \in {NULL, LibBuf} /\ usr_buf \in UserBufs \cup {NULL}
  /\ raw_buf \in Buffers \cup {NULL} /\ proc_buf \in Buffers \cup {NULL}
  /\ mem \in [Buffers -> [Slots -> Parts]]
  /\ delivered \in [parts : [Slots -> Parts], valid : 0 .. PktsPerFrame,
                     ts : Frames, split : BOOLEAN, cut : SUBSET Slots]

\* The packets counted into the frame being assembled all lie before the
\* position of the next one: got_pkts never overtakes pkt_num, whatever was
\* lost, dropped or resynchronised, so "x/y packets arrived" has x <= y.
CountsBehindPosition == synced => got_pkts <= pkt_num

\* While the stream runs, stream_process() and the client always have a
\* buffer, whatever sequence of starts, stops and buffer changes (NULL
\* included) came before: the copy never goes through a NULL pointer.
RunningHasBuffers ==
  running => /\ raw_buf \in Buffers /\ proc_buf \in Buffers
             /\ raw_buf = IF split_bufs THEN RawBuf ELSE proc_buf
             /\ proc_buf # RawBuf
             /\ proc_buf = LibBuf => lib_buf = LibBuf

\* The safety of the assembly itself: its types, its counts and its buffers.
StreamInv == TypeOK /\ CountsBehindPosition /\ RunningHasBuffers

\* The client was told of a complete frame, and did not itself move the
\* buffer the frame was being assembled in.
Promised ==
  delivered.valid = PktsPerFrame /\ (delivered.split \/ ~SwapAnyTime)

\* Every part is in its place, whole, and of the frame whose timestamp it carries,
\* but for those whose own packet came short.  Part 0 is left out in formats
\* without a second buffer: a client that changes buffers in the callback of a
\* frame cut short by a loss keeps the first part of the next one in the old one.
Intact ==
  \A s \in Slots \ delivered.cut :
    delivered.split \/ s > 0 => delivered.parts[s] = <<delivered.ts, s>>

\* A frame delivered as complete (valid_pkts = pkts_per_frame) holds the
\* packets of one camera frame, each in its place, and carries the timestamp
\* of that frame, whatever the bus lost before.  Of the short packets of that very
\* frame, which are counted like others, older bytes remain, and of no other:
\* what a short packet of an earlier frame left behind is gone.
CompleteFrameIntact == Promised => Intact

\* A frame cut short by lost packets is delivered after the packet that
\* revealed the loss was already copied into the buffer.  That packet is the
\* only data newer than the frame's timestamp the client can find in it.
AtMostOneNewerPart ==
  \A s, t \in Slots :
    delivered.parts[s][1] > delivered.ts /\ delivered.parts[t][1] > delivered.ts => s = t

\* Two frames' worth of packets that arrive in order and intact are enough
\* to recover from any disturbance: the stream is synced, where the camera
\* is, has every packet of the current frame, and the client has been given a
\* complete frame.
RecoversInTwoFrames ==
  running /\ clean = 2 * PktsPerFrame =>
    /\ synced /\ pkt_num = camSlot /\ got_pkts = pkt_num
    /\ delivered.valid = PktsPerFrame

-----------------------------------------------------------------------------
(* What makes CompleteFrameIntact inductive. *)

\* The host's seq and the camera's differ by exactly the packets the host has
\* not accounted for: fewer than SeqMod, so their number can be read off.
SeqTracksCamera ==
  synced => unseen < SeqMod /\ camSeq = (seq + unseen) % SeqMod

\* The camera is ahead of what the host stored, and that of what it delivered.
TimestampsOrdered ==
  /\ delivered.ts <= last_timestamp
  /\ last_timestamp <= camFrame
  /\ camSlot = 0 => last_timestamp < camFrame

\* If nothing is missing so far, then the buffer holds the beginning of one
\* frame, not delivered yet, and the camera goes on from there or has
\* abandoned the frame.
PrefixOfOneFrame ==
  running /\ synced /\ pkt_num > 0 /\ got_pkts = pkt_num =>
    /\ split_bufs \/ ~SwapAnyTime =>
         \A s \in 0 .. pkt_num - 1 :
           s \notin cut /\ (split_bufs \/ s > 0) => mem[raw_buf][s] = <<last_timestamp, s>>
    /\ delivered.ts < last_timestamp
    /\ unseen = 0 => \/ camFrame = last_timestamp /\ camSlot = pkt_num
                     \/ camFrame > last_timestamp /\ camSlot = 0

IInv ==
  /\ TypeOK /\ RunningHasBuffers /\ CountsBehindPosition
  /\ SeqTracksCamera /\ TimestampsOrdered /\ PrefixOfOneFrame
  /\ CompleteFrameIntact

\* The stream implements FrameDelivery: timestamps given to the client never
\* go back, and no frame is delivered as complete twice, or when it is not.
Delivery == INSTANCE FrameDelivery WITH
  shot <- camFrame,
  given <- [ts |-> delivered.ts, complete |-> Promised, intact |-> Intact]
ImplementsFrameDelivery == Delivery!Spec
=============================================================================
