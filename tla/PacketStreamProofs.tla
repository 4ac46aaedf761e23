------------------------- MODULE PacketStreamProofs -------------------------
(***************************************************************************)
(* For every frame size, sequence-number width, loss limit and number of    *)
(* frames allowed by PacketAssumption: IInv is an invariant of PacketStream,*)
(* a frame delivered as complete is intact, no other holds more than one    *)
(* packet newer than its timestamp, packets in a row bring any stream back, *)
(* and the stream implements FrameDelivery.                                 *)
(***************************************************************************)
EXTENDS PacketStream, TLAPS

-----------------------------------------------------------------------------
(* Sequence numbers: arithmetic modulo SeqMod. *)

\* Adding less than one turn and subtracting again gives what was added.
LEMMA SeqDifference ==
  ASSUME NEW M \in Nat, M > 0, NEW a \in 0 .. M - 1, NEW u \in 0 .. M - 1
  PROVE  (((a + u) % M) - a) % M = u
<1>1. CASE a + u < M
  BY <1>1
<1>2. CASE a + u >= M
  <2>1. (a + u) % M = a + u - M
    BY <1>2
  <2>2. (u - M) % M = u
    BY <1>2
  <2>3. QED
    BY <2>1, <2>2
<1>3. QED
  BY <1>1, <1>2

\* No packet unseen: the two numbers are the same.
LEMMA SeqNoDifference ==
  ASSUME NEW M \in Nat, M > 0, NEW a \in 0 .. M - 1
  PROVE  (a + 0) % M = a
OBVIOUS

\* The successor of a sum is the sum with the successor.
LEMMA SeqSuccessor ==
  ASSUME NEW M \in Nat, M > 0, NEW a \in 0 .. M - 1, NEW u \in 0 .. M - 1
  PROVE  ((((a + u) % M) + 1) % M) = (a + (u + 1)) % M
<1>1. CASE a + u + 1 < M
  BY <1>1
<1>2. CASE a + u + 1 = M
  BY <1>2
<1>3. CASE a + u + 1 > M
  <2>1. (a + u) % M = a + u - M
    BY <1>3
  <2>2. (a + (u + 1)) % M = a + u + 1 - M
    BY <1>3
  <2>3. (a + u + 1 - M) % M = a + u + 1 - M
    BY <1>3
  <2>4. QED
    BY <2>1, <2>2, <2>3
<1>4. QED
  BY <1>1, <1>2, <1>3

-----------------------------------------------------------------------------
(* What stream_process() reads off the header. *)

\* While the host tracks the camera, `lost` is the true number of packets
\* the host has not seen.
LEMMA LostIsUnseen ==
  ASSUME TypeOK, SeqTracksCamera
  PROVE  Lost = IF synced THEN unseen ELSE 0
<1>1. CASE synced
  <2>1. unseen \in 0 .. SeqMod - 1 /\ seq \in 0 .. SeqMod - 1 /\ SeqMod > 0
    BY <1>1, PacketAssumption DEF TypeOK, SeqTracksCamera
  <2>2. ((camSeq - seq) % SeqMod) = unseen
    BY <1>1, <2>1, SeqDifference, PacketAssumption DEF SeqTracksCamera
  <2>3. QED
    BY <1>1, <2>2 DEF Lost, Hdr
<1>2. CASE ~synced
  BY <1>2 DEF Lost
<1>3. QED
  BY <1>1, <1>2 DEF TypeOK

\* Past the limit on lost packets, the position is inside the frame, no more
\* packets are counted than fit before it, a frame ended by the gap is
\* incomplete, and a gapless prefix means that nothing was lost.
LEMMA AcceptedFacts ==
  ASSUME TypeOK, CountsBehindPosition, SeqTracksCamera, Accepted
  PROVE  /\ Lost \in 0 .. MaxLost
         /\ Position \in Slots
         /\ Got \in 0 .. Position
         /\ LossEndsFrame \in BOOLEAN
         /\ LossEndsFrame => synced /\ got_pkts < PktsPerFrame /\ Position < LastSlot /\ Got = 0
         /\ ValidAfterGap \in 0 .. PktsPerFrame
         /\ TimestampAfterGap \in Frames
         /\ Position > 0 /\ Got = Position =>
              synced /\ ~LossEndsFrame /\ unseen = 0 /\ pkt_num = Position /\ got_pkts = Got
<1>1. Lost \in 0 .. MaxLost /\ (synced => Lost = unseen) /\ (~synced => Lost = 0)
  BY LostIsUnseen, PacketAssumption DEF Accepted, TypeOK
<1>2. pkt_num \in 0 .. PktsPerFrame - 1 /\ got_pkts \in 0 .. PktsPerFrame
      /\ (synced => got_pkts <= pkt_num)
  BY DEF TypeOK, Slots, CountsBehindPosition
<1>3. QED
  BY <1>1, <1>2, PacketAssumption
     DEF LossEndsFrame, Left, Position, Got, Slots, LastSlot, ValidAfterGap,
         TimestampAfterGap, TypeOK

\* A header that fits says which packet of its frame this is, except that it
\* cannot tell the packets in the middle apart.
LEMMA HeaderFacts ==
  ASSUME TypeOK, HeaderFits
  PROVE  /\ Position = 0 <=> camSlot = 0
         /\ Hdr.flag = "eof" <=> camSlot = LastSlot
         /\ Hdr.flag = "eof" => Position = LastSlot
         /\ Position = LastSlot => Hdr.flag = "eof"
BY PacketAssumption DEF HeaderFits, Hdr, Flag, LastSlot, Slots, TypeOK

-----------------------------------------------------------------------------
(* Buffers. *)

BufferTypes ==
  /\ split_bufs \in BOOLEAN
  /\ lib_buf \in {NULL, LibBuf} /\ usr_buf \in UserBufs \cup {NULL}
  /\ raw_buf \in Buffers \cup {NULL} /\ proc_buf \in Buffers \cup {NULL}

\* stream_setbuf() on a running stream keeps it supplied with buffers, and
\* leaves the buffer a frame is assembled in alone if there is a second one.
LEMMA SetbufFacts ==
  ASSUME TypeOK, RunningHasBuffers, running' = running,
         NEW b \in UserBufs \cup {NULL}, stream_setbuf(b)
  PROVE  /\ BufferTypes' /\ RunningHasBuffers'
         /\ split_bufs' = split_bufs
         /\ split_bufs => raw_buf' = raw_buf
<1>1. NULL \notin Buffers /\ RawBuf # LibBuf /\ RawBuf \notin UserBufs /\ LibBuf \notin UserBufs
  BY BufferAssumption DEF Buffers, NULL, LibBuf, RawBuf
<1>2. CASE ~running
  BY <1>2 DEF stream_setbuf, BufferTypes, TypeOK, RunningHasBuffers
<1>3. CASE running /\ b = NULL /\ lib_buf = NULL
  BY <1>3 DEF stream_setbuf, BufferTypes, TypeOK, RunningHasBuffers, buffers
<1>4. CASE running /\ ~(b = NULL /\ lib_buf = NULL)
  BY <1>1, <1>4 DEF stream_setbuf, BufferTypes, TypeOK, RunningHasBuffers, Buffers
<1>5. QED
  BY <1>2, <1>3, <1>4 DEF TypeOK

\* The tail of the packet handler: what the client is given is what was
\* assembled, and assembly can go on in the raw buffer.
LEMMA FinishFacts ==
  ASSUME TypeOK, RunningHasBuffers, running, running' = running,
         NEW frame \in BOOLEAN, NEW m \in [Buffers -> [Slots -> Parts]],
         NEW v \in 0 .. PktsPerFrame, NEW t \in Frames, NEW c \in SUBSET Slots,
         Finish(frame, m, v, t, c)
  PROVE  /\ valid_pkts' = v /\ timestamp' = t
         /\ mem' \in [Buffers -> [Slots -> Parts]]
         /\ delivered' \in [parts : [Slots -> Parts], valid : 0 .. PktsPerFrame,
                             ts : Frames, split : BOOLEAN, cut : SUBSET Slots]
         /\ BufferTypes' /\ RunningHasBuffers'
         /\ split_bufs' = split_bufs
         /\ split_bufs => raw_buf' = raw_buf /\ mem'[raw_buf] = m[raw_buf]
         /\ ~frame => raw_buf' = raw_buf /\ mem' = m /\ delivered' = delivered
         /\ frame => delivered' = [parts |-> m[raw_buf], valid |-> v, ts |-> t,
                                   split |-> split_bufs, cut |-> c]
<1>1. raw_buf \in Buffers /\ proc_buf \in Buffers /\ split_bufs \in BOOLEAN
      /\ (split_bufs => raw_buf # proc_buf) /\ (~split_bufs => raw_buf = proc_buf)
  BY DEF RunningHasBuffers, TypeOK
<1>2. valid_pkts' = v /\ timestamp' = t
  BY DEF Finish
<1>3. CASE frame
  <2>1. Deliver(m, v, t, c)
    BY <1>3 DEF Finish
  <2>2. /\ mem' = Convert(m)
        /\ delivered' = [parts |-> mem'[proc_buf], valid |-> v, ts |-> t, split |-> split_bufs, cut |-> c]
    BY <2>1 DEF Deliver
  <2>3. /\ Convert(m) \in [Buffers -> [Slots -> Parts]]
        /\ Convert(m)[proc_buf] = m[raw_buf]
        /\ split_bufs => Convert(m)[raw_buf] = m[raw_buf]
    BY <1>1 DEF Convert
  <2>4. BufferTypes' /\ RunningHasBuffers' /\ split_bufs' = split_bufs
        /\ (split_bufs => raw_buf' = raw_buf)
    <3>1. CASE UNCHANGED buffers
      BY <3>1 DEF buffers, BufferTypes, TypeOK, RunningHasBuffers
    <3>2. CASE \E b \in UserBufs \cup {NULL} : stream_setbuf(b)
      BY <3>2, SetbufFacts
    <3>3. QED
      BY <2>1, <3>1, <3>2 DEF Deliver
  <2>5. m[raw_buf] \in [Slots -> Parts]
    BY <1>1
  <2>6. QED
    BY <1>2, <1>3, <2>2, <2>3, <2>4, <2>5, <1>1
<1>4. CASE ~frame
  <2>1. mem' = m /\ UNCHANGED <<buffers, delivered>>
    BY <1>4 DEF Finish
  <2>2. BufferTypes' /\ RunningHasBuffers' /\ split_bufs' = split_bufs /\ raw_buf' = raw_buf
    BY <2>1 DEF buffers, BufferTypes, TypeOK, RunningHasBuffers
  <2>3. QED
    BY <1>2, <1>4, <2>1, <2>2 DEF TypeOK
<1>5. QED
  BY <1>3, <1>4

-----------------------------------------------------------------------------
(* The camera moves on. *)

\* One packet on: within the same frame, or to the start of the next one.
LEMMA AdvanceFacts ==
  ASSUME TypeOK, OnWire, Advance
  PROVE  /\ camFrame' \in 1 .. MaxFrames + 1 /\ camSlot' \in Slots
         /\ camSeq' \in 0 .. SeqMod - 1
         /\ camSeq' = (camSeq + 1) % SeqMod
         /\ camSlot = LastSlot => camSlot' = 0 /\ camFrame' = camFrame + 1
         /\ camSlot # LastSlot => camSlot' = camSlot + 1 /\ camFrame' = camFrame
<1>1. (camSeq + 1) % SeqMod \in 0 .. SeqMod - 1
  BY PacketAssumption DEF TypeOK
<1>2. QED
  BY <1>1, PacketAssumption DEF Advance, OnWire, TypeOK, Slots, LastSlot

\* Timestamps stay ordered when the camera moves on from the packet it sent,
\* stored or not, and the client was given at most what had been stored.
LEMMA OrderAfterAdvance ==
  ASSUME TypeOK, TypeOK', TimestampsOrdered, OnWire, Advance,
         last_timestamp' \in {last_timestamp, camFrame},
         delivered'.ts <= last_timestamp'
  PROVE  TimestampsOrdered'
<1>1. camFrame \in Int /\ last_timestamp \in Int /\ camSlot \in Nat /\ last_timestamp <= camFrame
      /\ (camSlot = 0 => last_timestamp < camFrame)
  BY PacketAssumption DEF TypeOK, Slots, Frames, TimestampsOrdered
<1>2. last_timestamp' <= camFrame
  BY <1>1
<1>3. CASE camSlot = LastSlot
  BY <1>1, <1>2, <1>3, AdvanceFacts DEF TimestampsOrdered
<1>4. CASE camSlot # LastSlot
  BY <1>1, <1>2, <1>4, AdvanceFacts DEF TimestampsOrdered
<1>5. QED
  BY <1>3, <1>4

\* The count of packets that arrived in a row stays in its range.
LEMMA ArrivedFacts ==
  ASSUME TypeOK, Arrived
  PROVE  clean' \in 0 .. 2 * PktsPerFrame
BY PacketAssumption DEF TypeOK, Arrived

-----------------------------------------------------------------------------
(* IInv is inductive: one lemma per action. *)

LEMMA LoseStep ==
  ASSUME IInv, Lose
  PROVE  IInv'
<1> USE DEF IInv
<1>1. TypeOK'
  BY AdvanceFacts, PacketAssumption DEF Lose, TypeOK, assembly, buffers
<1>2. RunningHasBuffers' /\ CountsBehindPosition' /\ CompleteFrameIntact'
  BY DEF Lose, RunningHasBuffers, CountsBehindPosition, CompleteFrameIntact, Promised,
         Intact, assembly, buffers
<1>3. SeqTracksCamera'
  <2>1. CASE synced
    <3>1. unseen \in 0 .. SeqMod - 1 /\ unseen + 1 < SeqMod /\ seq \in 0 .. SeqMod - 1
      BY <2>1, PacketAssumption DEF Lose, TypeOK
    <3>2. camSeq' = (seq + (unseen + 1)) % SeqMod
      BY <2>1, <3>1, SeqSuccessor, PacketAssumption, AdvanceFacts DEF Lose, SeqTracksCamera
    <3>3. QED
      BY <2>1, <3>1, <3>2 DEF Lose, SeqTracksCamera, assembly
  <2>2. QED
    BY <2>1 DEF Lose, SeqTracksCamera, assembly
<1>4. TimestampsOrdered'
  BY <1>1, OrderAfterAdvance DEF Lose, TimestampsOrdered, assembly
<1>5. PrefixOfOneFrame'
  BY DEF Lose, PrefixOfOneFrame, TypeOK, assembly, buffers
<1>6. QED
  BY <1>1, <1>2, <1>3, <1>4, <1>5

LEMMA DropUnsyncedStep ==
  ASSUME IInv, DropUnsynced
  PROVE  IInv'
<1> USE DEF IInv
<1>1. TypeOK'
  BY AdvanceFacts, PacketAssumption DEF DropUnsynced, Arrived, TypeOK, assembly, buffers
<1>2. TimestampsOrdered'
  BY <1>1, OrderAfterAdvance DEF DropUnsynced, TimestampsOrdered, assembly
<1>3. QED
  BY <1>1, <1>2 DEF DropUnsynced, RunningHasBuffers, CountsBehindPosition, SeqTracksCamera,
       PrefixOfOneFrame, CompleteFrameIntact, Promised, Intact, assembly, buffers

LEMMA TooManyLostStep ==
  ASSUME IInv, TooManyLost
  PROVE  IInv'
<1> USE DEF IInv
<1>1. TypeOK'
  <2>1. OnWire /\ Advance /\ Arrived
    BY DEF TooManyLost
  <2>2. QED
    BY <2>1, AdvanceFacts, ArrivedFacts DEF TooManyLost, TypeOK, buffers
<1>2. TimestampsOrdered'
  BY <1>1, OrderAfterAdvance DEF TooManyLost, TimestampsOrdered
<1>3. QED
  BY <1>1, <1>2 DEF TooManyLost, RunningHasBuffers, CountsBehindPosition, SeqTracksCamera,
       PrefixOfOneFrame, CompleteFrameIntact, Promised, Intact, buffers

\* After a gap that did or did not end the frame, and no copy.
LEMMA GapDelivery ==
  ASSUME IInv, Accepted, running' = running,
         Finish(LossEndsFrame, mem, ValidAfterGap, TimestampAfterGap, cut),
         last_timestamp' = last_timestamp
  PROVE  /\ valid_pkts' \in 0 .. PktsPerFrame /\ timestamp' \in Frames
         /\ mem' \in [Buffers -> [Slots -> Parts]]
         /\ delivered' \in [parts : [Slots -> Parts], valid : 0 .. PktsPerFrame,
                             ts : Frames, split : BOOLEAN, cut : SUBSET Slots]
         /\ BufferTypes' /\ RunningHasBuffers' /\ CompleteFrameIntact'
         /\ delivered'.ts <= last_timestamp'
         /\ ~LossEndsFrame => mem' = mem /\ raw_buf' = raw_buf /\ split_bufs' = split_bufs
                              /\ delivered' = delivered
<1> USE DEF IInv
<1>1. running /\ mem \in [Buffers -> [Slots -> Parts]] /\ cut \in SUBSET Slots
  BY DEF Accepted, OnWire, TypeOK
<1>2. /\ valid_pkts' = ValidAfterGap /\ timestamp' = TimestampAfterGap
      /\ mem' \in [Buffers -> [Slots -> Parts]]
      /\ delivered' \in [parts : [Slots -> Parts], valid : 0 .. PktsPerFrame,
                          ts : Frames, split : BOOLEAN, cut : SUBSET Slots]
      /\ BufferTypes' /\ RunningHasBuffers' /\ split_bufs' = split_bufs
      /\ ~LossEndsFrame => raw_buf' = raw_buf /\ mem' = mem /\ delivered' = delivered
      /\ LossEndsFrame => delivered' = [parts |-> mem[raw_buf], valid |-> ValidAfterGap,
                                        ts |-> TimestampAfterGap, split |-> split_bufs, cut |-> cut]
  BY <1>1, AcceptedFacts, FinishFacts
<1>3. CompleteFrameIntact' /\ delivered'.ts <= last_timestamp'
  <2>1. CASE LossEndsFrame
    <3>1. delivered'.valid = got_pkts /\ delivered'.ts = last_timestamp /\ got_pkts < PktsPerFrame
      BY <1>2, <2>1, AcceptedFacts DEF ValidAfterGap, TimestampAfterGap
    <3>2. QED
      BY <3>1, PacketAssumption DEF CompleteFrameIntact, Promised, TypeOK, Frames
  <2>2. CASE ~LossEndsFrame
    BY <1>2, <2>2 DEF CompleteFrameIntact, Promised, Intact, TimestampsOrdered
  <2>3. QED
    BY <2>1, <2>2
<1>4. QED
  BY <1>2, <1>3, AcceptedFacts

LEMMA InconsistentFlagStep ==
  ASSUME IInv, InconsistentFlag
  PROVE  IInv'
<1> USE DEF IInv
<1>1. /\ Accepted /\ OnWire /\ Advance
      /\ running' = running /\ last_timestamp' = last_timestamp /\ synced' = FALSE /\ cut' = cut
      /\ Finish(LossEndsFrame, mem, ValidAfterGap, TimestampAfterGap, cut)
  BY DEF InconsistentFlag, Accepted
<1>2. TypeOK'
  <2>1. seq' = camSeq /\ pkt_num' = Position /\ got_pkts' = Got /\ unseen' = 0 /\ Arrived
    BY DEF InconsistentFlag, Hdr
  <2>2. Position \in Slots /\ Got \in 0 .. PktsPerFrame
    BY <1>1, AcceptedFacts, PacketAssumption DEF Slots
  <2>3. QED
    BY <1>1, <2>1, <2>2, GapDelivery, AdvanceFacts, ArrivedFacts DEF TypeOK, BufferTypes
<1>3. TimestampsOrdered'
  BY <1>1, <1>2, GapDelivery, OrderAfterAdvance
<1>4. QED
  BY <1>1, <1>2, <1>3, GapDelivery
     DEF CountsBehindPosition, SeqTracksCamera, PrefixOfOneFrame

LEMMA OversizedStep ==
  ASSUME IInv, Oversized
  PROVE  IInv'
<1> USE DEF IInv
<1>1. /\ Accepted /\ OnWire /\ Advance
      /\ running' = running /\ last_timestamp' = last_timestamp /\ cut' = cut
      /\ pkt_num' = Position /\ got_pkts' = Got /\ seq' = camSeq /\ unseen' = 1 /\ synced'
      /\ Finish(LossEndsFrame, mem, ValidAfterGap, TimestampAfterGap, cut)
  BY DEF Oversized, Accepted, Hdr
<1>2. TypeOK'
  <2>1. clean' \in 0 .. 2 * PktsPerFrame
    BY PacketAssumption DEF Oversized
  <2>2. Position \in Slots /\ Got \in 0 .. PktsPerFrame
    BY <1>1, AcceptedFacts, PacketAssumption DEF Slots
  <2>3. QED
    BY <1>1, <2>1, <2>2, GapDelivery, AdvanceFacts DEF TypeOK, BufferTypes
<1>3. TimestampsOrdered'
  BY <1>1, <1>2, GapDelivery, OrderAfterAdvance
<1>4. CountsBehindPosition' /\ SeqTracksCamera'
  BY <1>1, AcceptedFacts, AdvanceFacts, PacketAssumption
     DEF CountsBehindPosition, SeqTracksCamera, Slots
<1>5. PrefixOfOneFrame'
  <2>1. SUFFICES ASSUME Position > 0, Got = Position
                 PROVE  PrefixOfOneFrame'
    BY <1>1 DEF PrefixOfOneFrame
  <2>2. ~LossEndsFrame /\ synced /\ pkt_num = Position /\ got_pkts = Got
    BY <1>1, <2>1, AcceptedFacts
  <2>3. mem' = mem /\ raw_buf' = raw_buf /\ split_bufs' = split_bufs /\ delivered' = delivered
    BY <1>1, <2>2, GapDelivery
  <2>4. QED
    BY <1>1, <2>1, <2>2, <2>3 DEF PrefixOfOneFrame
<1>6. QED
  BY <1>1, <1>2, <1>3, <1>4, <1>5, GapDelivery

\* The copy.  The interesting step: a prefix without gaps grows by the next
\* packet of the same frame, and an EOF that makes it whole completes it.
LEMMA StoreStep ==
  ASSUME IInv, NEW short \in BOOLEAN, Store(short)
  PROVE  IInv'
<1> USE DEF IInv
<1> DEFINE m == [mem EXCEPT ![raw_buf][Position] = Data(short)]
           eof == Hdr.flag = "eof"
           v == IF eof THEN Got + 1 ELSE ValidAfterGap
           t == IF eof THEN Hdr.timestamp ELSE TimestampAfterGap
           frame == eof \/ LossEndsFrame
           now == CutBefore \cup (IF short THEN {Position} ELSE {})
           c == IF eof THEN now ELSE cut
<1>1. /\ Accepted /\ HeaderFits /\ OnWire /\ Advance /\ Arrived
      /\ running' = running /\ last_timestamp' = camFrame /\ synced' = TRUE /\ unseen' = 0
      /\ seq' = (camSeq + 1) % SeqMod
      /\ pkt_num' = (IF eof THEN 0 ELSE Position + 1)
      /\ got_pkts' = (IF eof THEN 0 ELSE Got + 1)
      /\ Finish(frame, m, v, t, c) /\ cut' = now
  BY DEF Store, Accepted, Hdr
<1>2. running /\ raw_buf \in Buffers
  BY <1>1 DEF OnWire, RunningHasBuffers
<1>3. /\ Position \in Slots /\ Got \in 0 .. Position /\ Position \in Int /\ Got \in Int
      /\ eof <=> Position = LastSlot
      /\ eof <=> camSlot = LastSlot
      /\ Position = 0 <=> camSlot = 0
      /\ LossEndsFrame => ~eof /\ synced /\ got_pkts < PktsPerFrame
  BY <1>1, AcceptedFacts, HeaderFacts, PacketAssumption DEF Slots, LastSlot
<1>4. /\ m \in [Buffers -> [Slots -> Parts]]
      /\ m[raw_buf] = [mem[raw_buf] EXCEPT ![Position] = Data(short)]
      /\ mem[raw_buf] \in [Slots -> Parts]
  BY <1>2, <1>3 DEF TypeOK, Data, Parts, Frames
<1>5. v \in 0 .. PktsPerFrame /\ t \in Frames /\ frame \in BOOLEAN
      /\ now \in SUBSET Slots /\ c \in SUBSET Slots
  <2>1. Got + 1 \in 0 .. PktsPerFrame
    BY <1>3, PacketAssumption DEF Slots
  <2>2. ValidAfterGap \in 0 .. PktsPerFrame /\ TimestampAfterGap \in Frames
    BY <1>1, AcceptedFacts
  <2>3. Hdr.timestamp \in Frames
    BY PacketAssumption DEF Hdr, TypeOK, Frames
  <2>4. LossEndsFrame \in BOOLEAN
    BY <1>1, AcceptedFacts
  <2>5. now \in SUBSET Slots /\ cut \in SUBSET Slots
    BY <1>3 DEF CutBefore, TypeOK
  <2>6. QED
    BY <2>1, <2>2, <2>3, <2>4, <2>5
<1>6. /\ valid_pkts' = v /\ timestamp' = t
      /\ mem' \in [Buffers -> [Slots -> Parts]]
      /\ delivered' \in [parts : [Slots -> Parts], valid : 0 .. PktsPerFrame,
                          ts : Frames, split : BOOLEAN, cut : SUBSET Slots]
      /\ BufferTypes' /\ RunningHasBuffers'
      /\ split_bufs' = split_bufs
      /\ split_bufs => raw_buf' = raw_buf /\ mem'[raw_buf] = m[raw_buf]
      /\ ~frame => raw_buf' = raw_buf /\ mem' = m /\ delivered' = delivered
      /\ frame => delivered' = [parts |-> m[raw_buf], valid |-> v, ts |-> t,
                                split |-> split_bufs, cut |-> c]
  <2> HIDE DEF m, v, t, c, frame
  <2>1. QED
    BY <1>1, <1>2, <1>4, <1>5, FinishFacts
<1>7. TypeOK'
  <2>1. pkt_num' \in Slots /\ got_pkts' \in 0 .. PktsPerFrame
    BY <1>1, <1>3, PacketAssumption DEF Slots, LastSlot
  <2>2. seq' \in 0 .. SeqMod - 1 /\ last_timestamp' \in Frames
    BY <1>1, AdvanceFacts, PacketAssumption DEF TypeOK, Frames
  <2>3. valid_pkts' \in 0 .. PktsPerFrame /\ timestamp' \in Frames
    BY <1>5, <1>6
  <2> HIDE DEF m, v, t, c, now, frame, eof
  <2>4. QED
    BY <1>1, <1>5, <1>6, <2>1, <2>2, <2>3, AdvanceFacts, ArrivedFacts DEF TypeOK, BufferTypes
<1>8. delivered'.ts <= last_timestamp'
  <2>1. last_timestamp <= camFrame /\ delivered.ts <= last_timestamp
        /\ last_timestamp \in Int /\ camFrame \in Int /\ delivered.ts \in Int
    BY DEF TimestampsOrdered, TypeOK, Frames
  <2>2. CASE frame
    BY <1>1, <1>3, <1>6, <2>1, <2>2 DEF TimestampAfterGap, Hdr
  <2>3. CASE ~frame
    BY <1>1, <1>6, <2>1, <2>3
  <2>4. QED
    BY <2>2, <2>3
<1>9. TimestampsOrdered'
  BY <1>1, <1>7, <1>8, OrderAfterAdvance
<1>10. CountsBehindPosition' /\ SeqTracksCamera'
  <2>1. CountsBehindPosition'
    BY <1>1, <1>3 DEF CountsBehindPosition
  <2>2. seq' \in 0 .. SeqMod - 1 /\ camSeq' = seq'
    BY <1>1, <1>7, AdvanceFacts DEF TypeOK
  <2>3. \A x \in 0 .. SeqMod - 1 : (x + 0) % SeqMod = x
    BY PacketAssumption, SeqNoDifference
  <2>4. QED
    BY <1>1, <2>1, <2>2, <2>3, PacketAssumption DEF SeqTracksCamera
\* Nothing was missing before and the header fits: this is the next packet
\* of the same frame, not delivered yet.
<1>11. ASSUME Position > 0, Got = Position
       PROVE  /\ camFrame = last_timestamp /\ camSlot = Position
              /\ delivered.ts < last_timestamp /\ ~LossEndsFrame
              /\ split_bufs \/ ~SwapAnyTime =>
                   \A s \in 0 .. Position - 1 :
                     s \notin cut /\ (split_bufs \/ s > 0) =>
                       mem[raw_buf][s] = <<camFrame, s>>
  <2>1. synced /\ ~LossEndsFrame /\ unseen = 0 /\ pkt_num = Position /\ got_pkts = Got
    BY <1>1, <1>11, AcceptedFacts
  <2>2. camSlot # 0
    BY <1>3, <1>11
  <2>3. camFrame = last_timestamp /\ camSlot = pkt_num /\ delivered.ts < last_timestamp
    BY <1>2, <1>11, <2>1, <2>2 DEF PrefixOfOneFrame
  <2>4. QED
    BY <1>2, <1>11, <2>1, <2>3 DEF PrefixOfOneFrame
<1>12. CompleteFrameIntact'
  <2>1. CASE eof
    <3>1. delivered' = [parts |-> m[raw_buf], valid |-> Got + 1, ts |-> camFrame,
                        split |-> split_bufs, cut |-> now]
      BY <1>6, <2>1 DEF Hdr
    <3>2. SUFFICES ASSUME Got + 1 = PktsPerFrame, split_bufs \/ ~SwapAnyTime,
                          NEW s \in Slots \ now, split_bufs \/ s > 0
                   PROVE  m[raw_buf][s] = <<camFrame, s>>
      BY <3>1 DEF CompleteFrameIntact, Promised, Intact
    <3>3. Position = LastSlot /\ Got = Position /\ Position > 0
      BY <1>3, <2>1, <3>2, PacketAssumption DEF LastSlot
    <3>4. CASE s = Position
      <4>1. ~short
        BY <3>2, <3>4
      <4>2. QED
        BY <1>3, <1>4, <1>11, <3>3, <3>4, <4>1 DEF Data
    <3>5. CASE s # Position
      <4>1. s \in 0 .. Position - 1
        BY <3>3, <3>5, PacketAssumption DEF Slots, LastSlot
      <4>2. s \notin cut
        BY <1>11, <3>2, <3>3 DEF CutBefore
      <4>3. mem[raw_buf][s] = <<camFrame, s>>
        BY <1>11, <3>2, <3>3, <4>1, <4>2
      <4>4. QED
        BY <1>3, <1>4, <3>5, <4>3
    <3>6. QED
      BY <3>4, <3>5
  <2>2. CASE ~eof /\ LossEndsFrame
    <3>1. delivered'.valid = got_pkts /\ got_pkts < PktsPerFrame
      BY <1>3, <1>6, <2>2 DEF ValidAfterGap
    <3>2. QED
      BY <3>1, PacketAssumption DEF CompleteFrameIntact, Promised, TypeOK
  <2>3. CASE ~frame
    BY <1>6, <2>3 DEF CompleteFrameIntact, Promised, Intact
  <2>4. QED
    BY <2>1, <2>2, <2>3
<1>13. PrefixOfOneFrame'
  <2>1. SUFFICES ASSUME ~eof, Got = Position
                 PROVE  PrefixOfOneFrame'
    BY <1>1, <1>3 DEF PrefixOfOneFrame
  <2>2. pkt_num' = Position + 1 /\ last_timestamp' = camFrame
    BY <1>1, <2>1
  <2>3. camFrame' = camFrame /\ camSlot' = camSlot + 1
    BY <1>1, <1>3, <2>1, AdvanceFacts
  <2>4. CASE Position = 0
    <3>1. camSlot = 0 /\ last_timestamp < camFrame /\ delivered.ts <= last_timestamp
      BY <1>3, <2>4 DEF TimestampsOrdered
    <3>2. delivered'.ts < camFrame
      <4>1. CASE LossEndsFrame
        BY <1>6, <2>1, <3>1, <4>1 DEF TimestampAfterGap
      <4>2. CASE ~LossEndsFrame
        BY <1>6, <2>1, <3>1, <4>2 DEF TypeOK, Frames
      <4>3. QED
        BY <4>1, <4>2
    <3>3. split_bufs /\ 0 \notin now => mem'[raw_buf'][0] = <<camFrame, 0>>
      <4>1. 0 \notin now => m[raw_buf][0] = <<camFrame, 0>>
        BY <1>3, <1>4, <2>4, <3>1 DEF Data
      <4>2. split_bufs => mem'[raw_buf'] = m[raw_buf]
        BY <1>6
      <4> HIDE DEF m
      <4>3. QED
        BY <4>1, <4>2
    <3>4. QED
      BY <1>1, <1>6, <2>2, <2>3, <2>4, <3>1, <3>2, <3>3 DEF PrefixOfOneFrame
  <2>5. CASE Position > 0
    <3>1. ~frame /\ camFrame = last_timestamp /\ camSlot = Position
          /\ delivered.ts < last_timestamp
      BY <1>11, <2>1, <2>5
    <3>2. mem' = m /\ raw_buf' = raw_buf /\ split_bufs' = split_bufs /\ delivered' = delivered
      BY <1>6, <3>1
    <3>3. ASSUME split_bufs \/ ~SwapAnyTime, NEW s \in 0 .. Position, s \notin now,
                 split_bufs \/ s > 0
          PROVE  m[raw_buf][s] = <<camFrame, s>>
      <4>1. CASE s = Position
        BY <1>3, <1>4, <3>1, <3>3, <4>1 DEF Data
      <4>2. CASE s # Position
        <5>1. s \in 0 .. Position - 1 /\ s \in Slots
          <6>1. Position \in 0 .. PktsPerFrame - 1 /\ s \in Int /\ s <= Position /\ s >= 0
            BY <1>3, <3>3 DEF Slots
          <6>2. QED
            BY <6>1, <4>2, PacketAssumption DEF Slots
        <5>2. s \notin cut
          BY <1>11, <2>1, <2>5, <3>3 DEF CutBefore
        <5>3. QED
          BY <1>3, <1>4, <1>11, <2>1, <2>5, <3>3, <4>2, <5>1, <5>2
      <4>3. QED
        BY <4>1, <4>2
    <3>4. QED
      BY <1>1, <1>3, <2>2, <2>3, <3>1, <3>2, <3>3 DEF PrefixOfOneFrame
  <2>6. QED
    BY <1>3, <2>4, <2>5
<1>14. QED
  BY <1>6, <1>7, <1>9, <1>10, <1>12, <1>13

LEMMA AbandonFrameStep ==
  ASSUME IInv, AbandonFrame
  PROVE  IInv'
<1> USE DEF IInv
<1>1. TypeOK'
  BY PacketAssumption DEF AbandonFrame, OnWire, TypeOK, Slots, assembly, buffers
<1>2. TimestampsOrdered'
  BY PacketAssumption DEF AbandonFrame, TimestampsOrdered, TypeOK, Frames, assembly
<1>3. PrefixOfOneFrame'
  BY PacketAssumption DEF AbandonFrame, PrefixOfOneFrame, TimestampsOrdered, TypeOK, Frames,
                          assembly, buffers
<1>4. QED
  BY <1>1, <1>2, <1>3 DEF AbandonFrame, RunningHasBuffers, CountsBehindPosition,
       SeqTracksCamera, CompleteFrameIntact, Promised, Intact, assembly, buffers

LEMMA StartStep ==
  ASSUME IInv, NEW split \in BOOLEAN, Start(split)
  PROVE  IInv'
<1> USE DEF IInv
<1>1. NULL \notin Buffers /\ RawBuf # LibBuf /\ RawBuf \notin UserBufs /\ LibBuf \in Buffers
      /\ LibBuf \notin UserBufs
      /\ RawBuf \in Buffers /\ UserBufs \subseteq Buffers
  BY BufferAssumption DEF Buffers, NULL, LibBuf, RawBuf
<1>2. proc_buf' \in Buffers /\ raw_buf' \in Buffers
  BY <1>1 DEF Start, TypeOK
<1>3. TypeOK'
  <2>1. mem' \in [Buffers -> [Slots -> Parts]]
    <3>1. Unwritten \in [Slots -> Parts]
      BY PacketAssumption DEF Unwritten, Garbage, Parts, Frames, Slots
    <3>2. QED
      BY <3>1 DEF Start, TypeOK
  <2>2. camFrame' \in 1 .. MaxFrames + 1 /\ camSlot' \in Slots /\ camSeq' \in 0 .. SeqMod - 1
        /\ clean' \in 0 .. 2 * PktsPerFrame
    BY PacketAssumption DEF Start, TypeOK, Slots
  <2>3. QED
    BY <1>2, <2>1, <2>2 DEF Start, TypeOK
<1>4. RunningHasBuffers'
  BY <1>1, <1>2 DEF Start, RunningHasBuffers, TypeOK
<1>5. TimestampsOrdered'
  BY PacketAssumption DEF Start, TimestampsOrdered, TypeOK, Frames
<1>6. QED
  BY <1>3, <1>4, <1>5 DEF Start, CountsBehindPosition, SeqTracksCamera,
       PrefixOfOneFrame, CompleteFrameIntact, Promised, Intact

LEMMA StopStep ==
  ASSUME IInv, Stop
  PROVE  IInv'
BY DEF IInv, Stop, TypeOK, RunningHasBuffers, CountsBehindPosition, SeqTracksCamera,
       TimestampsOrdered, PrefixOfOneFrame, CompleteFrameIntact, Promised, Intact,
       camera, assembly

LEMMA SetBufferStep ==
  ASSUME IInv, NEW b \in UserBufs \cup {NULL}, SetBuffer(b)
  PROVE  IInv'
<1> USE DEF IInv
<1>1. /\ BufferTypes' /\ RunningHasBuffers' /\ split_bufs' = split_bufs
      /\ split_bufs => raw_buf' = raw_buf
  BY SetbufFacts DEF SetBuffer
<1>2. TypeOK'
  BY <1>1 DEF SetBuffer, TypeOK, BufferTypes, camera, assembly
<1>3. PrefixOfOneFrame'
  <2>1. CASE running
    <3>1. SwapAnyTime
      BY <2>1 DEF SetBuffer
    <3>2. QED
      BY <1>1, <3>1 DEF SetBuffer, PrefixOfOneFrame, camera, assembly
  <2>2. CASE ~running
    BY <2>2 DEF SetBuffer, PrefixOfOneFrame
  <2>3. QED
    BY <2>1, <2>2
<1>4. QED
  BY <1>1, <1>2, <1>3 DEF SetBuffer, CountsBehindPosition, SeqTracksCamera,
       TimestampsOrdered, CompleteFrameIntact, Promised, Intact, camera, assembly

\* Doing nothing.
LEMMA StutterStep ==
  ASSUME IInv, UNCHANGED vars
  PROVE  IInv'
BY DEF IInv, vars, TypeOK, RunningHasBuffers, CountsBehindPosition, SeqTracksCamera,
       TimestampsOrdered, PrefixOfOneFrame, CompleteFrameIntact, Promised, Intact,
       camera, assembly, buffers

LEMMA InitInvariant == Init => IInv
<1> SUFFICES ASSUME Init PROVE IInv
  OBVIOUS
<1>1. Unwritten \in [Slots -> Parts]
  BY PacketAssumption DEF Unwritten, Garbage, Parts, Frames, Slots
<1>2. TypeOK
  <2>1. /\ 1 \in 1 .. MaxFrames + 1 /\ 0 \in Slots /\ 0 \in 0 .. SeqMod - 1 /\ 0 \in Frames
        /\ 0 \in 0 .. PktsPerFrame /\ 0 \in 0 .. 2 * PktsPerFrame
    BY PacketAssumption DEF Slots, Frames
  <2>2. QED
    BY <1>1, <2>1 DEF Init, TypeOK
<1>3. RunningHasBuffers /\ CountsBehindPosition /\ SeqTracksCamera /\ PrefixOfOneFrame
  BY DEF Init, RunningHasBuffers, CountsBehindPosition, SeqTracksCamera, PrefixOfOneFrame
<1>4. TimestampsOrdered
  BY DEF Init, TimestampsOrdered
<1>5. CompleteFrameIntact
  BY PacketAssumption DEF Init, CompleteFrameIntact, Promised
<1>6. QED
  BY <1>2, <1>3, <1>4, <1>5 DEF IInv

LEMMA StepInvariant == IInv /\ [Next]_vars => IInv'
<1> SUFFICES ASSUME IInv, [Next]_vars PROVE IInv'
  OBVIOUS
<1>1. CASE Packet
  BY <1>1, LoseStep, DropUnsyncedStep, TooManyLostStep, InconsistentFlagStep, OversizedStep,
     StoreStep DEF Packet
<1>2. CASE AbandonFrame
  BY <1>2, AbandonFrameStep
<1>3. CASE \E split \in BOOLEAN : Start(split)
  BY <1>3, StartStep
<1>4. CASE Stop
  BY <1>4, StopStep
<1>5. CASE \E b \in UserBufs \cup {NULL} : SetBuffer(b)
  BY <1>5, SetBufferStep
<1>6. CASE UNCHANGED vars
  BY <1>6, StutterStep
<1>7. QED
  BY <1>1, <1>2, <1>3, <1>4, <1>5, <1>6 DEF Next

-----------------------------------------------------------------------------
(* The theorems. *)

\* The inductive invariant holds in every reachable state of the stream.
THEOREM InductiveInvariant == Spec => []IInv
BY InitInvariant, StepInvariant, PTL DEF Spec

\* Every variable of packet_stream keeps its range; in particular
\* stream_process() never copies a packet outside the frame buffer
\* (pkt_num \in Slots), however packets are lost.
THEOREM TypeCorrect == Spec => []TypeOK
BY InductiveInvariant, PTL DEF IInv

\* stream_process() counts no more packets into a frame than fit before the
\* position of the next one.
THEOREM CountsCorrect == Spec => []CountsBehindPosition
BY InductiveInvariant, PTL DEF IInv

\* A running stream is never without a buffer to copy into, whatever the
\* client did with freenect_set_depth_buffer() and start/stop before.
THEOREM BuffersPresent == Spec => []RunningHasBuffers
BY InductiveInvariant, PTL DEF IInv

\* All of this together is what stream_process() leaves behind after each packet.
THEOREM StreamInvariant == Spec => []StreamInv
BY TypeCorrect, CountsCorrect, BuffersPresent, PTL DEF StreamInv

\* A frame delivered with valid_pkts = pkts_per_frame is the picture of one
\* camera frame, for every frame size, sequence-number width and pattern of
\* loss of fewer than SeqMod packets in a row.
THEOREM CompleteFramesAreIntact == Spec => []CompleteFrameIntact
BY InductiveInvariant, PTL DEF IInv

-----------------------------------------------------------------------------
(* PacketStream implements FrameDelivery. *)

\* What a step may do to the frame the client was given last.
InOrder ==
  \/ delivered' = delivered
  \/ /\ delivered'.ts \in delivered.ts .. camFrame
     /\ delivered'.valid = PktsPerFrame => delivered'.ts > delivered.ts

\* A frame cut short by a gap: the newest one stored, and not complete.
LEMMA GapInOrder ==
  ASSUME IInv, Accepted, running' = running,
         Finish(LossEndsFrame, mem, ValidAfterGap, TimestampAfterGap, cut)
  PROVE  InOrder
<1>1. running /\ mem \in [Buffers -> [Slots -> Parts]] /\ cut \in SUBSET Slots
  BY DEF Accepted, OnWire, TypeOK, IInv
<1>2. /\ ~LossEndsFrame => delivered' = delivered
      /\ LossEndsFrame => delivered' = [parts |-> mem[raw_buf], valid |-> ValidAfterGap,
                                        ts |-> TimestampAfterGap, split |-> split_bufs, cut |-> cut]
  BY <1>1, AcceptedFacts, FinishFacts DEF IInv
<1>3. CASE LossEndsFrame
  <2>1. delivered'.valid = got_pkts /\ delivered'.ts = last_timestamp /\ got_pkts # PktsPerFrame
    BY <1>2, <1>3, AcceptedFacts, PacketAssumption DEF IInv, ValidAfterGap, TimestampAfterGap
  <2>2. QED
    BY <2>1 DEF InOrder, IInv, TypeOK, TimestampsOrdered, Frames
<1>4. QED
  BY <1>2, <1>3 DEF InOrder

\* A frame completed by its EOF: newer than the one delivered before if
\* nothing of it is missing.
LEMMA StoreInOrder ==
  ASSUME IInv, NEW short \in BOOLEAN, Store(short)
  PROVE  InOrder
<1> USE DEF IInv
<1> DEFINE m == [mem EXCEPT ![raw_buf][Position] = Data(short)]
           eof == Hdr.flag = "eof"
           v == IF eof THEN Got + 1 ELSE ValidAfterGap
           t == IF eof THEN Hdr.timestamp ELSE TimestampAfterGap
           frame == eof \/ LossEndsFrame
           now == CutBefore \cup (IF short THEN {Position} ELSE {})
           c == IF eof THEN now ELSE cut
<1>1. Accepted /\ HeaderFits /\ OnWire /\ running' = running /\ Finish(frame, m, v, t, c)
  BY DEF Store, Accepted
<1>2. running /\ raw_buf \in Buffers
  BY <1>1 DEF OnWire, RunningHasBuffers
<1>3. /\ Position \in Slots /\ Got \in 0 .. Position /\ Position \in Int
      /\ eof => Position = LastSlot
      /\ LossEndsFrame => ~eof /\ synced /\ got_pkts < PktsPerFrame
      /\ Position = 0 <=> camSlot = 0
  BY <1>1, AcceptedFacts, HeaderFacts, PacketAssumption DEF Slots, LastSlot
<1>4. m \in [Buffers -> [Slots -> Parts]]
  BY <1>2, <1>3 DEF TypeOK, Data, Parts, Frames
<1>5. v \in 0 .. PktsPerFrame /\ t \in Frames /\ frame \in BOOLEAN
      /\ now \in SUBSET Slots /\ c \in SUBSET Slots
  <2>1. Got + 1 \in 0 .. PktsPerFrame
    BY <1>3, PacketAssumption DEF Slots
  <2>2. ValidAfterGap \in 0 .. PktsPerFrame /\ TimestampAfterGap \in Frames
        /\ LossEndsFrame \in BOOLEAN
    BY <1>1, AcceptedFacts
  <2>3. Hdr.timestamp \in Frames
    BY PacketAssumption DEF Hdr, TypeOK, Frames
  <2>4. now \in SUBSET Slots /\ cut \in SUBSET Slots
    BY <1>3 DEF CutBefore, TypeOK
  <2>5. QED
    BY <2>1, <2>2, <2>3, <2>4
<1>6. /\ ~frame => delivered' = delivered
      /\ frame => delivered' = [parts |-> m[raw_buf], valid |-> v, ts |-> t,
                                split |-> split_bufs, cut |-> c]
  <2> HIDE DEF m, v, t, c, frame
  <2>1. QED
    BY <1>1, <1>2, <1>4, <1>5, FinishFacts
<1>7. delivered.ts <= last_timestamp /\ last_timestamp <= camFrame
      /\ delivered.ts \in Int /\ last_timestamp \in Int /\ camFrame \in Int
  BY DEF TimestampsOrdered, TypeOK, Frames
<1>8. CASE eof
  <2>1. delivered'.ts = camFrame /\ delivered'.valid = Got + 1
    BY <1>6, <1>8 DEF Hdr
  <2>2. ASSUME Got + 1 = PktsPerFrame PROVE delivered.ts < camFrame
    <3>1. Got = Position /\ Position > 0
      BY <1>3, <1>8, <2>2, PacketAssumption DEF LastSlot
    <3>2. synced /\ unseen = 0 /\ pkt_num = Position /\ got_pkts = Got
      BY <1>1, <3>1, AcceptedFacts
    <3>3. delivered.ts < last_timestamp
      BY <1>2, <3>1, <3>2 DEF PrefixOfOneFrame
    <3>4. QED
      BY <1>7, <3>3
  <2>3. QED
    BY <1>7, <2>1, <2>2 DEF InOrder
<1>9. CASE LossEndsFrame
  <2>1. delivered'.valid = got_pkts /\ delivered'.ts = last_timestamp /\ got_pkts # PktsPerFrame
    BY <1>3, <1>6, <1>9, PacketAssumption DEF ValidAfterGap, TimestampAfterGap, TypeOK
  <2>2. QED
    BY <1>7, <2>1 DEF InOrder
<1>10. CASE ~frame
  BY <1>6, <1>10 DEF InOrder
<1>11. QED
  BY <1>8, <1>9, <1>10

\* Every step keeps deliveries in order and the camera within one frame.
LEMMA EveryStepInOrder ==
  ASSUME IInv, [Next]_vars
  PROVE  InOrder /\ camFrame' \in {camFrame, camFrame + 1}
<1>1. CASE Lose \/ DropUnsynced \/ TooManyLost
  BY <1>1, AdvanceFacts DEF IInv, Lose, DropUnsynced, TooManyLost, InOrder, assembly
<1>2. CASE InconsistentFlag \/ Oversized
  <2>1. Accepted /\ OnWire /\ Advance /\ running' = running
        /\ Finish(LossEndsFrame, mem, ValidAfterGap, TimestampAfterGap, cut)
    BY <1>2 DEF InconsistentFlag, Oversized, Accepted
  <2>2. QED
    BY <2>1, GapInOrder, AdvanceFacts DEF IInv
<1>3. CASE \E short \in BOOLEAN : Store(short)
  <2>1. OnWire /\ Advance
    BY <1>3 DEF Store, Accepted
  <2>2. QED
    BY <1>3, <2>1, StoreInOrder, AdvanceFacts DEF IInv
<1>4. CASE AbandonFrame \/ Stop \/ (\E b \in UserBufs \cup {NULL} : SetBuffer(b))
           \/ UNCHANGED vars
  BY <1>4 DEF AbandonFrame, Stop, SetBuffer, vars, camera, InOrder
<1>5. CASE \E split \in BOOLEAN : Start(split)
  BY <1>5 DEF Start, InOrder
<1>6. QED
  BY <1>1, <1>2, <1>3, <1>4, <1>5 DEF Next, Packet

\* Initial states are initial states of FrameDelivery.
LEMMA InitRefines == Init => Delivery!Init
<1> SUFFICES ASSUME Init PROVE Delivery!Init
  OBVIOUS
<1>1. Promised = FALSE
  BY PacketAssumption DEF Init, Promised
<1>2. Intact = FALSE
  <2>1. 1 \in Slots /\ delivered.split /\ delivered.ts = 0 /\ delivered.parts[1] = <<0, 0>>
        /\ delivered.cut = {}
    BY PacketAssumption DEF Init, Slots, Unwritten, Garbage
  <2>2. QED
    BY <2>1 DEF Intact
<1>3. QED
  BY <1>1, <1>2 DEF Init, Delivery!Init

\* Steps are steps of FrameDelivery, or leave its variables unchanged.
LEMMA StepRefines == IInv /\ IInv' /\ [Next]_vars => [Delivery!Next]_(Delivery!vars)
<1> SUFFICES ASSUME IInv, IInv', [Next]_vars PROVE [Delivery!Next]_(Delivery!vars)
  OBVIOUS
<1> DEFINE g == [ts |-> delivered.ts, complete |-> Promised, intact |-> Intact]
<1>1. InOrder /\ camFrame' \in {camFrame, camFrame + 1}
  BY EveryStepInOrder
<1>2. Promised' => Intact'
  BY DEF IInv, CompleteFrameIntact
<1>3. CASE delivered' = delivered
  <2>1. g' = g
    BY <1>3 DEF Promised, Intact
  <2>2. QED
    BY <1>1, <2>1 DEF Delivery!Next, Delivery!vars, Delivery!Capture
<1>4. CASE delivered' # delivered
  <2>1. delivered'.ts \in delivered.ts .. camFrame /\ (Promised' => delivered'.ts > delivered.ts)
    BY <1>1, <1>4 DEF InOrder, Promised
  <2>2. Promised' \in BOOLEAN /\ Intact' \in BOOLEAN
    BY DEF Promised, Intact
  <2>3. Delivery!Give
    BY <1>2, <2>1, <2>2 DEF Delivery!Give
  <2>4. QED
    BY <1>1, <2>3 DEF Delivery!Next, Delivery!Capture
<1>5. QED
  BY <1>3, <1>4

\* The packet handler of cameras.c, with loss, resynchronisation and buffers
\* changed under way, gives its client what FrameDelivery promises.
THEOREM StreamImplementsDelivery == Spec => ImplementsFrameDelivery
<1>1. Init => Delivery!Init
  BY InitRefines
<1>2. IInv /\ IInv' /\ [Next]_vars => [Delivery!Next]_(Delivery!vars)
  BY StepRefines
<1>3. QED
  BY <1>1, <1>2, InductiveInvariant, PTL DEF Spec, ImplementsFrameDelivery, Delivery!Spec

-----------------------------------------------------------------------------
(* Nothing newer than the frame's timestamp, but for one packet. *)

\* No buffer holds a part newer than the last packet that was stored.
NothingNewer == \A b \in Buffers, s \in Slots : mem[b][s][1] <= last_timestamp

\* The conversions and the client's buffer changes only move contents around.
LEMMA FinishMoves ==
  ASSUME TypeOK, RunningHasBuffers, running,
         NEW frame \in BOOLEAN, NEW m \in [Buffers -> [Slots -> Parts]],
         NEW v, NEW t, NEW c, Finish(frame, m, v, t, c)
  PROVE  \A b \in Buffers : \E d \in Buffers : mem'[b] = m[d]
<1>1. raw_buf \in Buffers /\ proc_buf \in Buffers
  BY DEF RunningHasBuffers
<1>2. mem' = Convert(m) \/ mem' = m
  BY DEF Finish, Deliver
<1>3. \A b \in Buffers : Convert(m)[b] = m[b] \/ Convert(m)[b] = m[raw_buf]
  BY <1>1 DEF Convert
<1>4. QED
  BY <1>1, <1>2, <1>3

\* A part's frame is a number.
LEMMA PartFrames ==
  ASSUME NEW m \in [Buffers -> [Slots -> Parts]], NEW b \in Buffers, NEW s \in Slots
  PROVE  m[b][s][1] \in Int
<1>1. m[b][s] \in Parts
  OBVIOUS
<1>2. QED
  BY <1>1, PacketAssumption DEF Parts, Frames

\* Without a copy, a frame that ends in a gap is as old as all the rest.
LEMMA GapNotNewer ==
  ASSUME IInv, NothingNewer, AtMostOneNewerPart, Accepted, running' = running,
         last_timestamp' = last_timestamp,
         Finish(LossEndsFrame, mem, ValidAfterGap, TimestampAfterGap, cut)
  PROVE  NothingNewer' /\ AtMostOneNewerPart'
<1> USE DEF IInv
<1>1. running /\ mem \in [Buffers -> [Slots -> Parts]] /\ raw_buf \in Buffers
      /\ cut \in SUBSET Slots
      /\ last_timestamp \in Int
  BY PacketAssumption DEF Accepted, OnWire, TypeOK, RunningHasBuffers, Frames
<1>2. /\ \A b \in Buffers : \E d \in Buffers : mem'[b] = mem[d]
      /\ LossEndsFrame \in BOOLEAN
      /\ ~LossEndsFrame => delivered' = delivered
      /\ LossEndsFrame => delivered' = [parts |-> mem[raw_buf], valid |-> ValidAfterGap,
                                        ts |-> TimestampAfterGap, split |-> split_bufs, cut |-> cut]
  BY <1>1, AcceptedFacts, FinishFacts, FinishMoves
<1>3. NothingNewer'
  BY <1>2 DEF NothingNewer
<1>4. CASE LossEndsFrame
  <2>1. delivered'.parts = mem[raw_buf] /\ delivered'.ts = last_timestamp
    BY <1>2, <1>4 DEF TimestampAfterGap
  <2>2. \A s \in Slots : mem[raw_buf][s][1] \in Int /\ mem[raw_buf][s][1] <= last_timestamp
    BY <1>1, PartFrames DEF NothingNewer
  <2>3. QED
    BY <1>1, <1>3, <2>1, <2>2 DEF AtMostOneNewerPart
<1>5. CASE ~LossEndsFrame
  BY <1>2, <1>3, <1>5 DEF AtMostOneNewerPart
<1>6. QED
  BY <1>2, <1>4, <1>5

\* The copy comes before the frame that ended in the gap is given out: the
\* packet copied is the one newer part.
LEMMA StoreNotNewer ==
  ASSUME IInv, NothingNewer, AtMostOneNewerPart, NEW short \in BOOLEAN, Store(short)
  PROVE  NothingNewer' /\ AtMostOneNewerPart'
<1> USE DEF IInv
<1> DEFINE m == [mem EXCEPT ![raw_buf][Position] = Data(short)]
           eof == Hdr.flag = "eof"
           v == IF eof THEN Got + 1 ELSE ValidAfterGap
           t == IF eof THEN Hdr.timestamp ELSE TimestampAfterGap
           frame == eof \/ LossEndsFrame
           now == CutBefore \cup (IF short THEN {Position} ELSE {})
           c == IF eof THEN now ELSE cut
<1>1. /\ Accepted /\ HeaderFits /\ running' = running /\ last_timestamp' = camFrame
      /\ Finish(frame, m, v, t, c)
  BY DEF Store, Hdr
<1>2. /\ running /\ raw_buf \in Buffers /\ mem \in [Buffers -> [Slots -> Parts]]
      /\ Position \in Slots /\ Position \in Int
      /\ last_timestamp \in Int /\ camFrame \in Int /\ last_timestamp <= camFrame
      /\ camFrame \in Frames /\ camSlot \in Slots
  BY <1>1, AcceptedFacts, PacketAssumption
     DEF Accepted, OnWire, TypeOK, RunningHasBuffers, Frames, Slots, TimestampsOrdered
<1>3. /\ m \in [Buffers -> [Slots -> Parts]]
      /\ m[raw_buf] = [mem[raw_buf] EXCEPT ![Position] = Data(short)]
      /\ \A b \in Buffers : b # raw_buf => m[b] = mem[b]
      /\ mem[raw_buf] \in [Slots -> Parts]
  BY <1>2 DEF Data, Parts
<1>4. v \in 0 .. PktsPerFrame /\ t \in Frames /\ frame \in BOOLEAN /\ c \in SUBSET Slots
  <2>1. Got + 1 \in 0 .. PktsPerFrame /\ ValidAfterGap \in 0 .. PktsPerFrame
        /\ TimestampAfterGap \in Frames /\ LossEndsFrame \in BOOLEAN
    BY <1>1, <1>2, AcceptedFacts, PacketAssumption DEF Slots
  <2>2. c \in SUBSET Slots
    BY <1>2 DEF CutBefore, TypeOK
  <2>3. QED
    BY <1>2, <2>1, <2>2 DEF Hdr
<1>5. /\ \A b \in Buffers : \E d \in Buffers : mem'[b] = m[d]
      /\ ~frame => delivered' = delivered
      /\ frame => delivered' = [parts |-> m[raw_buf], valid |-> v, ts |-> t,
                                split |-> split_bufs, cut |-> c]
  <2> HIDE DEF m, v, t, c, frame
  <2>1. QED
    BY <1>1, <1>2, <1>3, <1>4, FinishFacts, FinishMoves
<1>6. \A b \in Buffers, s \in Slots : m[b][s][1] \in Int /\ m[b][s][1] <= camFrame
  <2> SUFFICES ASSUME NEW b \in Buffers, NEW s \in Slots
               PROVE  m[b][s][1] \in Int /\ m[b][s][1] <= camFrame
    OBVIOUS
  <2>1. mem[b][s][1] \in Int /\ mem[b][s][1] <= camFrame
    BY <1>2, PartFrames DEF NothingNewer
  <2>2. m[b][s] = mem[b][s] \/ m[b][s] = Data(short)
    BY <1>2, <1>3
  <2> HIDE DEF m
  <2>3. QED
    BY <1>2, <2>1, <2>2 DEF Data
<1>7. NothingNewer'
  <2> HIDE DEF m
  <2>1. QED
    BY <1>1, <1>5, <1>6 DEF NothingNewer
<1>8. AtMostOneNewerPart'
  <2>1. CASE eof
    <3>1. delivered'.parts = m[raw_buf] /\ delivered'.ts = camFrame
      BY <1>5, <2>1 DEF Hdr
    <3> HIDE DEF m
    <3>2. QED
      BY <1>2, <1>6, <3>1 DEF AtMostOneNewerPart
  <2>2. CASE ~eof /\ LossEndsFrame
    <3>1. delivered'.parts = m[raw_buf] /\ delivered'.ts = last_timestamp
      BY <1>5, <2>2 DEF TimestampAfterGap
    <3>2. \A s \in Slots : m[raw_buf][s][1] > last_timestamp => s = Position
      <4>1. \A s \in Slots : mem[raw_buf][s][1] \in Int
                             /\ mem[raw_buf][s][1] <= last_timestamp
        BY <1>2, PartFrames DEF NothingNewer
      <4>2. \A s \in Slots : s # Position => m[raw_buf][s] = mem[raw_buf][s]
        BY <1>2, <1>3
      <4> HIDE DEF m
      <4>3. QED
        BY <1>2, <4>1, <4>2
    <3> HIDE DEF m
    <3>3. QED
      BY <3>1, <3>2 DEF AtMostOneNewerPart
  <2>3. CASE ~frame
    BY <1>5, <2>3 DEF AtMostOneNewerPart
  <2>4. QED
    BY <2>1, <2>2, <2>3
<1>9. QED
  BY <1>7, <1>8

LEMMA NothingNewerInit == Init => NothingNewer /\ AtMostOneNewerPart
<1> SUFFICES ASSUME Init PROVE NothingNewer /\ AtMostOneNewerPart
  OBVIOUS
<1>1. \A s \in Slots : Unwritten[s] = <<0, 0>>
  BY DEF Unwritten, Garbage
<1>2. QED
  BY <1>1 DEF Init, NothingNewer, AtMostOneNewerPart

LEMMA NothingNewerStep ==
  ASSUME IInv, NothingNewer, AtMostOneNewerPart, [Next]_vars
  PROVE  NothingNewer' /\ AtMostOneNewerPart'
<1>1. CASE \E short \in BOOLEAN : Store(short)
  BY <1>1, StoreNotNewer
<1>2. CASE InconsistentFlag
  BY <1>2, GapNotNewer DEF InconsistentFlag, Accepted
<1>3. CASE Oversized
  BY <1>3, GapNotNewer DEF Oversized, Accepted
<1>4. ASSUME NEW split \in BOOLEAN, Start(split)
      PROVE  NothingNewer' /\ AtMostOneNewerPart'
  <2>1. mem' = [mem EXCEPT ![LibBuf] = Unwritten, ![RawBuf] = Unwritten]
        /\ last_timestamp' = last_timestamp /\ delivered' = delivered
    BY <1>4 DEF Start
  <2>2. mem \in [Buffers -> [Slots -> Parts]] /\ 0 <= last_timestamp
    BY PacketAssumption DEF IInv, TypeOK, Frames
  <2>3. \A b \in Buffers : mem'[b] = mem[b] \/ mem'[b] = Unwritten
    BY <2>1, <2>2
  <2>4. \A s \in Slots : Unwritten[s] = <<0, 0>>
    BY DEF Unwritten, Garbage
  <2>5. \A b \in Buffers, s \in Slots : mem'[b][s][1] <= last_timestamp
    BY <2>2, <2>3, <2>4 DEF NothingNewer
  <2>6. QED
    BY <2>1, <2>5 DEF NothingNewer, AtMostOneNewerPart
<1>5. CASE UNCHANGED <<mem, last_timestamp, delivered>>
  BY <1>5 DEF NothingNewer, AtMostOneNewerPart
<1>6. CASE Lose \/ DropUnsynced \/ TooManyLost \/ AbandonFrame \/ Stop
  BY <1>5, <1>6 DEF Lose, DropUnsynced, TooManyLost, AbandonFrame, Stop, assembly
<1>7. ASSUME NEW b \in UserBufs \cup {NULL}, SetBuffer(b)
      PROVE  NothingNewer' /\ AtMostOneNewerPart'
  BY <1>5, <1>7 DEF SetBuffer, assembly
<1>8. CASE UNCHANGED vars
  BY <1>5, <1>8 DEF vars, assembly
<1>9. QED
  BY <1>1, <1>2, <1>3, <1>4, <1>6, <1>7, <1>8 DEF Next, Packet

\* What depth_process() and video_process() hand out is never newer than its
\* timestamp says, but for the packet that revealed a loss: for every frame
\* size and every pattern of loss.
THEOREM OnlyOnePartIsNewer == Spec => []AtMostOneNewerPart
<1>1. Spec => [](NothingNewer /\ AtMostOneNewerPart)
  BY InductiveInvariant, NothingNewerInit, NothingNewerStep, PTL DEF Spec
<1>2. QED
  BY <1>1, PTL

-----------------------------------------------------------------------------
(* Recovery: packets that arrive in a row bring the stream back. *)

\* The host expects the very packet the camera sends next.
InStep == synced /\ pkt_num = camSlot

\* After some packets in a row: a synced host has seen everything sent since,
\* and starts frames where the camera does.  It is not in step only while the
\* frame goes on in which the run began, or whose start it spent on
\* resynchronising; once in step from a frame's start it has all of it, and a
\* whole frame in the run has been delivered complete.
CleanRun ==
  clean > 0 =>
    /\ synced => unseen = 0 /\ (pkt_num = 0 <=> camSlot = 0)
    /\ ~InStep => clean <= IF camSlot = 0 THEN PktsPerFrame ELSE camSlot
    /\ InStep /\ clean >= camSlot => got_pkts = pkt_num
    /\ clean > PktsPerFrame + camSlot => delivered.valid = PktsPerFrame

\* One more packet arrived.
OneMore ==
  /\ camSlot = LastSlot => camSlot' = 0
  /\ camSlot # LastSlot => camSlot' = camSlot + 1
  /\ clean' \in 1 .. clean + 1

LEMMA ArrivedAdvances ==
  ASSUME TypeOK, OnWire, Advance, Arrived
  PROVE  OneMore
BY AdvanceFacts, PacketAssumption DEF Arrived, TypeOK, OneMore

\* In a run the host has lost nothing: the packet has the number it expects.
LEMMA RunFacts ==
  ASSUME IInv, CleanRun, clean > 0, synced
  PROVE  /\ Lost = 0 /\ ~LossEndsFrame
         /\ Position = pkt_num /\ Got = got_pkts
         /\ InStep => HeaderFits
<1>1. Lost = 0
  BY LostIsUnseen DEF IInv, CleanRun
<1>2. pkt_num \in Int /\ camSlot \in Slots /\ pkt_num \in Slots
  BY DEF IInv, TypeOK, Slots
<1>3. ~LossEndsFrame /\ Position = pkt_num /\ Got = got_pkts
  BY <1>1, <1>2 DEF LossEndsFrame, Position, Got
<1>4. InStep => HeaderFits
  BY <1>2, <1>3, PacketAssumption DEF InStep, HeaderFits, Hdr, Flag, Slots, LastSlot
<1>5. QED
  BY <1>1, <1>3, <1>4

\* A packet that leaves the stream unsynced costs the frame it belongs to and
\* no other: in a run that is where the host was out of step already.
LEMMA UnsyncedInRun ==
  ASSUME TypeOK, CleanRun, OneMore, synced' = FALSE,
         clean > 0 => ~InStep /\ camSlot # 0
  PROVE  CleanRun'
<1>1. clean \in Int /\ clean >= 0 /\ camSlot \in Int /\ camSlot >= 0
  BY DEF TypeOK, Slots
<1>2. clean <= camSlot
  BY <1>1 DEF CleanRun
<1>3. clean' \in Int /\ clean' <= IF camSlot' = 0 THEN PktsPerFrame ELSE camSlot'
  BY <1>1, <1>2, PacketAssumption DEF OneMore, LastSlot
<1>4. camSlot' \in Int /\ camSlot' >= 0
  BY <1>1 DEF OneMore
<1>5. ASSUME NEW c \in Int, NEW k \in Int, k >= 0,
             c <= IF k = 0 THEN PktsPerFrame ELSE k
      PROVE  ~(c > PktsPerFrame + k)
  BY <1>5, PacketAssumption
<1>6. ~(clean' > PktsPerFrame + camSlot')
  BY <1>3, <1>4, <1>5
<1>7. ~InStep'
  BY DEF InStep
<1>8. QED
  BY <1>3, <1>6, <1>7 DEF CleanRun

\* A packet stored: the host stays in step, or gets there with the frame's
\* start, and an EOF in step completes a frame of which nothing is missing.
LEMMA StoreInRun ==
  ASSUME IInv, CleanRun, NEW short \in BOOLEAN, Store(short)
  PROVE  CleanRun'
<1> USE DEF IInv
<1> DEFINE m == [mem EXCEPT ![raw_buf][Position] = Data(short)]
           eof == Hdr.flag = "eof"
           v == IF eof THEN Got + 1 ELSE ValidAfterGap
           t == IF eof THEN Hdr.timestamp ELSE TimestampAfterGap
           frame == eof \/ LossEndsFrame
           now == CutBefore \cup (IF short THEN {Position} ELSE {})
           c == IF eof THEN now ELSE cut
<1>1. /\ Accepted /\ HeaderFits /\ OnWire /\ Advance /\ Arrived
      /\ running' = running /\ synced' = TRUE /\ unseen' = 0
      /\ pkt_num' = (IF eof THEN 0 ELSE Position + 1)
      /\ got_pkts' = (IF eof THEN 0 ELSE Got + 1)
      /\ Finish(frame, m, v, t, c)
  BY DEF Store, Accepted
<1>2. OneMore /\ clean' \in Int
  BY <1>1, ArrivedAdvances DEF OneMore
<1>3. /\ Position \in Int /\ Position >= 0 /\ Got \in Int /\ Got >= 0 /\ Got <= Position
      /\ eof <=> camSlot = LastSlot
      /\ Position = 0 <=> camSlot = 0
      /\ eof => Position = LastSlot
      /\ clean \in Int /\ clean >= 0 /\ camSlot \in Int /\ camSlot >= 0
      /\ camSlot <= LastSlot /\ LastSlot > 0 /\ LastSlot = PktsPerFrame - 1
      /\ LastSlot \in Int /\ PktsPerFrame \in Int /\ PktsPerFrame > 1
  BY <1>1, AcceptedFacts, HeaderFacts, PacketAssumption DEF TypeOK, Slots, LastSlot
<1>4. eof => camSlot' = 0 /\ pkt_num' = 0 /\ got_pkts' = 0
  BY <1>1, <1>2, <1>3 DEF OneMore
<1>5. ~eof => camSlot' = camSlot + 1 /\ pkt_num' = Position + 1 /\ got_pkts' = Got + 1
  BY <1>1, <1>2, <1>3 DEF OneMore
<1>6. clean' <= clean + 1
  BY <1>2 DEF OneMore
<1>7. /\ eof => delivered'.valid = Got + 1
      /\ ~frame => delivered' = delivered
  <2>1. m \in [Buffers -> [Slots -> Parts]]
    <3>1. Position \in Slots /\ raw_buf \in Buffers /\ Data(short) \in Parts
      BY <1>1, AcceptedFacts, PacketAssumption
         DEF OnWire, RunningHasBuffers, TypeOK, Data, Parts, Frames
    <3>2. QED
      BY <3>1 DEF TypeOK
  <2>2. v \in 0 .. PktsPerFrame /\ t \in Frames /\ frame \in BOOLEAN /\ c \in SUBSET Slots
    <3>1. ValidAfterGap \in 0 .. PktsPerFrame /\ TimestampAfterGap \in Frames
          /\ LossEndsFrame \in BOOLEAN /\ Position \in Slots
      BY <1>1, AcceptedFacts
    <3>2. Got + 1 \in 0 .. PktsPerFrame /\ Hdr.timestamp \in Frames
      BY <1>3, <3>1, PacketAssumption DEF Slots, Hdr, TypeOK, Frames
    <3>3. c \in SUBSET Slots
      BY <3>1 DEF CutBefore, TypeOK
    <3>4. QED
      BY <3>1, <3>2, <3>3
  <2>3. /\ ~frame => delivered' = delivered
        /\ frame => delivered'.valid = v
    <3> HIDE DEF m, v, t, c, frame
    <3>1. QED
      BY <1>1, <2>1, <2>2, FinishFacts DEF OnWire
  <2>4. QED
    BY <2>3
<1> HIDE DEF m, v, t, eof
\* The run begins, or the start of a frame synchronises.
<1>8. CASE clean = 0
  <2>1. clean' = 1
    BY <1>2, <1>8 DEF OneMore
  <2>2. CASE eof
    <3>1. ~(clean' > PktsPerFrame + camSlot')
      BY <1>3, <1>4, <2>1, <2>2
    <3>2. InStep'
      BY <1>1, <1>4, <2>2 DEF InStep
    <3>3. QED
      BY <1>1, <1>4, <2>2, <3>1, <3>2 DEF CleanRun
  <2>3. CASE ~eof
    <3>1. ~(clean' > PktsPerFrame + camSlot') /\ clean' <= camSlot'
      BY <1>3, <1>5, <2>1, <2>3
    <3>2. pkt_num' # 0 /\ camSlot' # 0
      BY <1>3, <1>5, <2>3
    <3>3. clean' >= camSlot' => got_pkts' = pkt_num'
      <4>1. SUFFICES ASSUME clean' >= camSlot' PROVE got_pkts' = pkt_num'
        OBVIOUS
      <4>2. camSlot = 0
        BY <1>3, <1>5, <2>1, <2>3, <4>1
      <4>3. QED
        BY <1>3, <1>5, <2>3, <4>2
    <3>4. QED
      BY <1>1, <3>1, <3>2, <3>3 DEF CleanRun
  <2>4. QED
    BY <2>2, <2>3
<1>9. CASE clean > 0 /\ ~synced
  <2>1. Position = 0 /\ Got = 0 /\ camSlot = 0 /\ ~eof
    BY <1>3, <1>9 DEF Position
  <2>2. clean <= PktsPerFrame
    BY <1>9, <2>1 DEF CleanRun, InStep
  <2>3. InStep' /\ pkt_num' = 1 /\ got_pkts' = 1 /\ camSlot' = 1
    BY <1>1, <1>5, <2>1 DEF InStep
  <2>4. ~(clean' > PktsPerFrame + camSlot')
    BY <1>2, <1>3, <1>6, <2>2, <2>3
  <2>5. QED
    BY <1>1, <2>3, <2>4 DEF CleanRun
\* In the run, and synced: nothing is lost.
<1>10. CASE clean > 0 /\ synced
  <2>1. ~LossEndsFrame /\ Position = pkt_num /\ Got = got_pkts
    BY <1>10, RunFacts
  <2>2. ~InStep => camSlot # 0 /\ clean <= camSlot
    BY <1>3, <1>10, <2>1 DEF CleanRun, InStep
  <2>3. CASE eof
    <3>1. clean' > PktsPerFrame => delivered'.valid = PktsPerFrame
      <4>1. SUFFICES ASSUME clean' > PktsPerFrame PROVE delivered'.valid = PktsPerFrame
        OBVIOUS
      <4>2. clean >= PktsPerFrame /\ InStep
        BY <1>2, <1>3, <1>6, <2>2, <2>3, <4>1, PacketAssumption
      <4>3. clean >= camSlot /\ pkt_num = LastSlot
        BY <1>3, <2>1, <2>3, <4>2
      <4>4. got_pkts = pkt_num
        BY <1>10, <4>2, <4>3 DEF CleanRun
      <4>5. QED
        BY <1>3, <1>7, <2>1, <2>3, <4>3, <4>4
    <3>2. InStep' /\ (clean' > PktsPerFrame + camSlot' => delivered'.valid = PktsPerFrame)
      BY <1>1, <1>3, <1>4, <2>3, <3>1 DEF InStep
    <3>3. QED
      BY <1>1, <1>4, <2>3, <3>2 DEF CleanRun
  <2>4. CASE ~eof
    <3>1. delivered' = delivered
      BY <1>7, <2>1, <2>4 DEF frame
    <3>2. pkt_num' = pkt_num + 1 /\ got_pkts' = got_pkts + 1 /\ camSlot' = camSlot + 1
      BY <1>5, <2>1, <2>4
    <3>3. ~InStep' => clean' <= camSlot'
      BY <1>1, <1>2, <1>3, <1>6, <1>10, <2>1, <2>2, <3>2 DEF InStep
    <3>4. InStep' /\ clean' >= camSlot' => got_pkts' = pkt_num'
      <4>1. SUFFICES ASSUME InStep', clean' >= camSlot' PROVE got_pkts = pkt_num
        BY <3>2
      <4>2. InStep /\ clean >= camSlot
        BY <1>2, <1>3, <1>6, <1>10, <2>1, <3>2, <4>1 DEF InStep
      <4>3. QED
        BY <1>10, <4>2 DEF CleanRun
    <3>5. clean' > PktsPerFrame + camSlot' => delivered'.valid = PktsPerFrame
      <4>1. SUFFICES ASSUME clean' > PktsPerFrame + camSlot'
                     PROVE  delivered.valid = PktsPerFrame
        BY <3>1
      <4>2. clean > PktsPerFrame + camSlot
        BY <1>2, <1>3, <1>6, <3>2, <4>1
      <4>3. QED
        BY <1>10, <4>2 DEF CleanRun
    <3>6. pkt_num' # 0 /\ camSlot' # 0
      BY <1>3, <2>1, <3>2
    <3>7. QED
      BY <1>1, <3>3, <3>4, <3>5, <3>6 DEF CleanRun
  <2>5. QED
    BY <2>3, <2>4
<1>11. QED
  BY <1>3, <1>8, <1>9, <1>10

LEMMA CleanRunStep ==
  ASSUME IInv, CleanRun, [Next]_vars
  PROVE  CleanRun'
<1> USE DEF IInv
<1>1. CASE \E short \in BOOLEAN : Store(short)
  BY <1>1, StoreInRun
<1>2. CASE DropUnsynced
  <2>1. TypeOK /\ OneMore /\ synced' = FALSE /\ ~synced /\ camSlot # 0
    BY <1>2, ArrivedAdvances DEF DropUnsynced, assembly, Hdr, Flag, TypeOK
  <2>2. QED
    BY <2>1, UnsyncedInRun DEF InStep
<1>3. CASE TooManyLost
  <2>1. TypeOK /\ OneMore /\ synced' = FALSE /\ Lost > MaxLost
    BY <1>3, ArrivedAdvances DEF TooManyLost
  <2>2. ~(clean > 0)
    <3>1. clean > 0 => Lost = 0
      BY LostIsUnseen DEF CleanRun
    <3>2. QED
      BY <2>1, <3>1, PacketAssumption
  <2>3. QED
    BY <2>1, <2>2, UnsyncedInRun
<1>4. CASE InconsistentFlag
  <2>1. TypeOK /\ Accepted /\ OneMore /\ synced' = FALSE /\ ~HeaderFits
    BY <1>4, ArrivedAdvances DEF InconsistentFlag, Accepted
  <2>2. synced
    BY <2>1 DEF Accepted, HeaderFits, Position
  <2>3. clean > 0 => ~InStep /\ camSlot # 0
    <3>1. clean > 0 => ~InStep
      BY <2>1, <2>2, RunFacts
    <3>2. QED
      BY <2>2, <3>1 DEF CleanRun, InStep
  <2>4. QED
    BY <2>1, <2>3, UnsyncedInRun
\* The run is broken.
<1>5. CASE clean' = 0
  BY <1>5 DEF CleanRun
<1>6. CASE Lose \/ Oversized \/ AbandonFrame \/ \E split \in BOOLEAN : Start(split)
  BY <1>5, <1>6 DEF Lose, Oversized, AbandonFrame, Start
\* The client's calls do not touch it.
<1>7. CASE UNCHANGED <<clean, camSlot, synced, unseen, pkt_num, got_pkts, delivered>>
  BY <1>7 DEF CleanRun, InStep
<1>8. CASE Stop \/ (\E b \in UserBufs \cup {NULL} : SetBuffer(b)) \/ UNCHANGED vars
  BY <1>7, <1>8 DEF Stop, SetBuffer, vars, camera, assembly
<1>9. QED
  BY <1>1, <1>2, <1>3, <1>4, <1>6, <1>8 DEF Next, Packet

\* Two frames' worth of packets in order and intact bring any stream back to
\* the camera's position with a complete frame delivered, whatever state the
\* losses before had left stream_process() in.
THEOREM TwoFramesRecover == Spec => []RecoversInTwoFrames
<1>1. Init => CleanRun
  BY DEF Init, CleanRun
<1>2. Spec => [](IInv /\ CleanRun)
  BY <1>1, InductiveInvariant, CleanRunStep, PTL DEF Spec
<1>3. IInv /\ CleanRun => RecoversInTwoFrames
  <2>1. SUFFICES ASSUME IInv, CleanRun, clean = 2 * PktsPerFrame
                 PROVE  /\ InStep /\ got_pkts = pkt_num
                        /\ delivered.valid = PktsPerFrame
    BY DEF RecoversInTwoFrames, InStep
  <2>2. camSlot \in Int /\ camSlot >= 0 /\ camSlot < PktsPerFrame
    BY PacketAssumption, <2>1 DEF IInv, TypeOK, Slots
  <2>3. clean > 0 /\ clean > PktsPerFrame /\ clean >= camSlot
        /\ clean > PktsPerFrame + camSlot
    BY <2>1, <2>2, PacketAssumption
  <2>4. QED
    BY <2>1, <2>2, <2>3, PacketAssumption DEF CleanRun
<1>4. QED
  BY <1>2, <1>3, PTL
=============================================================================
