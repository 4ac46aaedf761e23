---------------------------- MODULE MediaProofs ----------------------------
(***************************************************************************)
(* What a client is given of what came over the bus.                        *)
(*                                                                          *)
(* Samples, for every cycle length, window boundaries, counter width and    *)
(* number of channels allowed by AudioAssumption: the counters of outgoing  *)
(* packets agree with the number of packets, and no sample of a channel is  *)
(* given to the client twice, or overwritten before it was given.           *)
(*                                                                          *)
(* Pictures, for every size and every frame of bytes: the pixels are cut    *)
(* out of the bytes, interpolated and converted as their reference          *)
(* definitions say; for all tables of a calibration, the nearest of several *)
(* depths wins, and depths, millimetres and colours of one point agree.     *)
(***************************************************************************)
EXTENDS Audio, Registration, WellFoundedInduction, TLAPS

-----------------------------------------------------------------------------
(* Division and remainder of a successor. *)

\* A number is determined by its quotient and remainder.
LEMMA Quotient ==
  ASSUME NEW d \in Nat, d > 0, NEW q \in Nat, NEW r \in 0 .. d - 1
  PROVE  /\ (q * d + r) \div d = q
         /\ (q * d + r) % d = r
OBVIOUS

\* ... and has them.
LEMMA QuotientExists ==
  ASSUME NEW d \in Nat, d > 0, NEW n \in Nat
  PROVE  /\ n \div d \in Nat /\ n % d \in 0 .. d - 1
         /\ n = (n \div d) * d + (n % d)
<1>1. n % d \in 0 .. d - 1
  OBVIOUS
<1>2. n \div d \in Nat
  OBVIOUS
<1>3. n = (n \div d) * d + (n % d)
  OBVIOUS
<1>4. QED
  BY <1>1, <1>2, <1>3

\* Counting one further stays in the cycle or begins the next.
LEMMA NextInCycle ==
  ASSUME NEW d \in Nat, d > 0, NEW n \in Nat
  PROVE  /\ (n % d) + 1 < d => (n + 1) % d = (n % d) + 1 /\ (n + 1) \div d = n \div d
         /\ (n % d) + 1 = d => (n + 1) % d = 0 /\ (n + 1) \div d = (n \div d) + 1
<1> DEFINE q == n \div d
           r == n % d
<1>1. q \in Nat /\ r \in 0 .. d - 1 /\ n = q * d + r
  BY QuotientExists
<1>2. CASE r + 1 < d
  <2>1. n + 1 = q * d + (r + 1) /\ r + 1 \in 0 .. d - 1
    BY <1>1, <1>2
  <2>2. QED
    BY <1>1, <1>2, <2>1, Quotient
<1>3. CASE r + 1 = d
  <2>1. n + 1 = (q + 1) * d + 0
    BY <1>1, <1>3
  <2>2. QED
    BY <1>1, <1>3, <2>1, Quotient
<1>4. QED
  BY <1>1, <1>2, <1>3

\* The remainder of a successor is that of the successor of the remainder.
LEMMA NextRemainder ==
  ASSUME NEW d \in Nat, d > 1, NEW n \in Nat
  PROVE  ((n % d) + 1) % d = (n + 1) % d
<1>1. ASSUME NEW r \in 0 .. d - 1
      PROVE  /\ r + 1 < d => (r + 1) % d = r + 1
             /\ r + 1 = d => (r + 1) % d = 0
             /\ r + 1 < d \/ r + 1 = d
  OBVIOUS
<1>2. n % d \in 0 .. d - 1
  BY QuotientExists
<1> d > 0
  OBVIOUS
<1>3. (n % d) + 1 < d => (n + 1) % d = (n % d) + 1
  BY NextInCycle
<1>4. (n % d) + 1 = d => (n + 1) % d = 0
  BY NextInCycle
<1>5. QED
  BY <1>1, <1>2, <1>3, <1>4

-----------------------------------------------------------------------------
(* The packets sent. *)

\* Preparing a packet keeps the counters in step with the number of packets.
LEMMA OutPacketStep ==
  ASSUME IInv, OutPacket
  PROVE  TypeOK' /\ OutFollowsCount'
<1> DEFINE cycle == outs \div SeqEnd
           third == Third(out_seq)
<1>1. /\ TypeOK /\ outs \in Nat /\ outs' = outs + 1 /\ outs < MaxOut
      /\ out_seq = outs % SeqEnd /\ out_window_parity = third
      /\ out_counter_within_window = out_seq - Begin(third)
      /\ out_window = (3 * cycle + third) % WindowMod
  BY DEF IInv, OutFollowsCount, OutPacket, TypeOK
<1>2. cycle \in Nat /\ out_seq \in 0 .. SeqEnd - 1
  BY <1>1, QuotientExists, AudioAssumption
<1>3. /\ out_seq + 1 < SeqEnd => outs' % SeqEnd = out_seq + 1 /\ outs' \div SeqEnd = cycle
      /\ out_seq + 1 = SeqEnd => outs' % SeqEnd = 0 /\ outs' \div SeqEnd = cycle + 1
  BY <1>1, NextInCycle, AudioAssumption
<1>4. out_seq' = outs' % SeqEnd
  BY <1>1, <1>2, <1>3, AudioAssumption DEF OutPacket
<1>5. third \in 0 .. 2
  BY DEF Third
<1>6. (((3 * cycle + third) % WindowMod) + 1) % WindowMod = (3 * cycle + third + 1) % WindowMod
  <2>1. \A n \in Nat : ((n % WindowMod) + 1) % WindowMod = (n + 1) % WindowMod
    BY NextRemainder, AudioAssumption
  <2>2. 3 * cycle + third \in Nat
    BY <1>2, <1>5
  <2> HIDE DEF cycle, third
  <2>3. QED
    BY <2>1, <2>2
<1>7. /\ out_window_parity' = Third(out_seq')
      /\ out_counter_within_window' = out_seq' - Begin(Third(out_seq'))
  BY <1>1, <1>2, AudioAssumption DEF OutPacket, WindowEnds, NextParity, Third, Begin
<1>8. out_window' = (3 * (outs' \div SeqEnd) + Third(out_seq')) % WindowMod
  <2>1. CASE out_seq + 1 = SeqEnd
    <3>1. out_seq' = 0 /\ WindowEnds /\ third = 2 /\ Third(out_seq') = 0
      BY <1>2, <2>1, AudioAssumption DEF OutPacket, WindowEnds, Third
    <3>2. outs' \div SeqEnd = cycle + 1 /\ out_window' = (out_window + 1) % WindowMod
      BY <1>3, <2>1, <3>1 DEF OutPacket
    <3>3. 3 * (cycle + 1) + 0 = 3 * cycle + third + 1
      BY <1>2, <3>1
    <3>4. QED
      BY <1>1, <1>6, <3>1, <3>2, <3>3
  <2>2. CASE out_seq + 1 \in {First, Second}
    <3>1. WindowEnds /\ out_seq + 1 < SeqEnd /\ out_seq' = out_seq + 1
          /\ Third(out_seq') = third + 1
      BY <1>2, <2>2, AudioAssumption DEF OutPacket, WindowEnds, Third
    <3>2. outs' \div SeqEnd = cycle /\ out_window' = (out_window + 1) % WindowMod
      BY <1>3, <3>1 DEF OutPacket
    <3>3. 3 * cycle + (third + 1) = 3 * cycle + third + 1
      BY <1>2, <1>5
    <3>4. QED
      BY <1>1, <1>6, <3>1, <3>2, <3>3
  <2>3. CASE out_seq + 1 \notin {First, Second, SeqEnd}
    <3>1. ~WindowEnds /\ out_seq + 1 < SeqEnd /\ out_seq' = out_seq + 1
          /\ Third(out_seq') = third
      BY <1>2, <2>3, AudioAssumption DEF OutPacket, WindowEnds, Third
    <3>2. outs' \div SeqEnd = cycle /\ out_window' = out_window
      BY <1>3, <3>1 DEF OutPacket
    <3>3. QED
      BY <1>1, <3>1, <3>2
  <2>4. QED
    BY <2>1, <2>2, <2>3
<1>9. TypeOK'
  <2>1. out_seq' \in 0 .. SeqEnd - 1
    BY <1>2, AudioAssumption DEF OutPacket
  <2>2. out_window_parity' \in 0 .. 2 /\ out_counter_within_window' \in 0 .. SeqEnd - 1
    <3>1. ASSUME NEW q \in 0 .. SeqEnd - 1
          PROVE  Third(q) \in 0 .. 2 /\ q - Begin(Third(q)) \in 0 .. SeqEnd - 1
      BY AudioAssumption DEF Third, Begin
    <3>2. QED
      BY <1>7, <2>1, <3>1
  <2>3. \A w \in Nat : w % WindowMod \in 0 .. WindowMod - 1
    BY QuotientExists, AudioAssumption
  <2>4. out_window' \in 0 .. WindowMod - 1
    BY <1>1, <2>3, AudioAssumption DEF OutPacket, TypeOK
  <2>5. UNCHANGED <<life, in, mic>> /\ outs' \in 0 .. MaxOut
    BY <1>1, AudioAssumption DEF OutPacket
  <2>6. QED
    BY <1>1, <2>1, <2>2, <2>4, <2>5 DEF TypeOK, life, in, mic
<1>10. QED
  BY <1>4, <1>7, <1>8, <1>9 DEF OutFollowsCount

-----------------------------------------------------------------------------
(* The microphones. *)

\* What the counters of the microphones can be after a step.
LEMMA AdvanceFacts ==
  ASSUME IInv, Sending, Advance
  PROVE  /\ micWindow' \in 1 .. MaxWindow + 1 /\ micChannel' \in 1 .. LastChannel
         /\ micWindow <= micWindow'
BY AudioAssumption DEF IInv, TypeOK, Sending, Advance, LastChannel

\* A packet that arrives: everything older has been given before it is
\* overwritten.
LEMMA InPacketStep ==
  ASSUME IInv, InPacket
  PROVE  IInv'
<1>1. /\ TypeOK /\ SamplesReachClient /\ BuffersLive /\ StopClean /\ DeviceAhead
      /\ given' = Given /\ in_window' = micWindow /\ part' = Copy(part)
      /\ micWindow <= MaxWindow /\ UNCHANGED <<life, out>>
  BY DEF IInv, InPacket, Sending
<1>2. /\ micWindow \in 1 .. MaxWindow /\ in_window \in 0 .. MaxWindow /\ in_window <= micWindow
      /\ part \in [Channels -> 0 .. MaxWindow] /\ given \in [Channels -> 0 .. MaxWindow]
  BY <1>1, AudioAssumption DEF TypeOK, DeviceAhead
<1>3. part' \in [Channels -> 0 .. MaxWindow] /\ given' \in [Channels -> 0 .. MaxWindow]
  BY <1>1, <1>2 DEF Copy, Given
<1>4. micWindow' \in 1 .. MaxWindow + 1 /\ micChannel' \in 1 .. LastChannel
      /\ micWindow <= micWindow'
  BY AdvanceFacts DEF InPacket
<1>5. TypeOK'
  BY <1>1, <1>2, <1>3, <1>4 DEF TypeOK, life, out
<1>6. OutFollowsCount'
  BY <1>1 DEF IInv, OutFollowsCount, out
<1>7. DeviceAhead' /\ BuffersLive' /\ StopClean'
  BY <1>1, <1>4 DEF DeviceAhead, BuffersLive, StopClean, life
<1>8. SamplesReachClient'
  <2> SUFFICES ASSUME NEW c \in Channels
               PROVE  /\ part'[c] <= micWindow
                      /\ part'[c] < micWindow => given'[c] = part'[c]
                      /\ part'[c] = micWindow /\ micWindow > 0 => given'[c] < micWindow
    BY <1>1 DEF SamplesReachClient
  <2>1. /\ part[c] <= in_window
        /\ part[c] < in_window => given[c] = part[c]
        /\ part[c] = in_window /\ in_window > 0 => given[c] < in_window
        /\ part[c] \in 0 .. MaxWindow /\ given[c] \in 0 .. MaxWindow
    BY <1>1, <1>2 DEF SamplesReachClient
  <2>2. part'[c] = IF c = micChannel THEN micWindow ELSE part[c]
    BY <1>1, <1>2 DEF Copy
  <2>3. given'[c] = IF micWindow # in_window THEN part[c] ELSE given[c]
    BY <1>1 DEF Given
  <2>4. QED
    BY <1>2, <2>1, <2>2, <2>3
<1>9. QED
  BY <1>5, <1>6, <1>7, <1>8 DEF IInv

-----------------------------------------------------------------------------

\* Nothing sent: every counter is zero.
LEMMA FirstPacket ==
  /\ 0 % SeqEnd = 0 /\ 0 \div SeqEnd = 0
  /\ Third(0) = 0 /\ Begin(0) = 0 /\ (3 * 0 + 0) % WindowMod = 0
<1>1. 0 % SeqEnd = 0 /\ 0 \div SeqEnd = 0 /\ 0 % WindowMod = 0
  BY AudioAssumption
<1>2. Third(0) = 0 /\ Begin(0) = 0
  BY AudioAssumption DEF Third, Begin
<1>3. QED
  BY <1>1, <1>2

\* freenect_start_audio() begins with the invariant.
LEMMA StartStep ==
  ASSUME IInv, Start
  PROVE  IInv'
<1>1. TypeOK'
  BY AudioAssumption DEF IInv, TypeOK, Start, mic, Silence
<1>2. OutFollowsCount'
  <2>1. outs' = 0 /\ out_seq' = 0 /\ out_window' = 0 /\ out_window_parity' = 0
        /\ out_counter_within_window' = 0
    BY DEF Start
  <2>2. QED
    BY <2>1, FirstPacket DEF OutFollowsCount
<1>3. SamplesReachClient' /\ BuffersLive' /\ StopClean' /\ DeviceAhead'
  BY AudioAssumption
     DEF IInv, TypeOK, Start, SamplesReachClient, BuffersLive, StopClean, DeviceAhead, Silence, mic
<1>4. QED
  BY <1>1, <1>2, <1>3 DEF IInv

\* The invariant holds at first, ...
LEMMA InitInvariant == Init => IInv
<1> SUFFICES ASSUME Init PROVE IInv
  OBVIOUS
<1>1. TypeOK
  <2>1. Silence \in [Channels -> 0 .. MaxWindow]
    BY AudioAssumption DEF Silence
  <2>2. /\ 0 \in 0 .. WindowMod - 1 /\ 0 \in 0 .. SeqEnd - 1 /\ 0 \in 0 .. 2
        /\ 0 \in 0 .. MaxOut /\ 0 \in 0 .. MaxWindow
        /\ 1 \in 1 .. MaxWindow + 1 /\ 1 \in 1 .. LastChannel
    BY AudioAssumption DEF LastChannel
  <2>3. QED
    BY <2>1, <2>2, Zenon DEF Init, TypeOK
<1>2. OutFollowsCount
  <2>1. outs = 0 /\ out_seq = 0 /\ out_window = 0 /\ out_window_parity = 0
        /\ out_counter_within_window = 0
    BY DEF Init
  <2>2. QED
    BY <2>1, FirstPacket DEF OutFollowsCount
<1>3. SamplesReachClient /\ BuffersLive /\ StopClean /\ DeviceAhead
  BY DEF Init, SamplesReachClient, BuffersLive, StopClean, DeviceAhead, Silence
<1>4. QED
  BY <1>1, <1>2, <1>3 DEF IInv

\* ... and every step keeps it.
LEMMA StepInvariant == IInv /\ [Next]_vars => IInv'
<1> SUFFICES ASSUME IInv, [Next]_vars PROVE IInv'
  OBVIOUS
<1>1. CASE Start
  BY <1>1, StartStep
<1>2. CASE StopIn
  BY <1>2
     DEF IInv, TypeOK, OutFollowsCount, SamplesReachClient, BuffersLive, StopClean, DeviceAhead, StopIn,
              out, in, mic
<1>3. CASE StopOut
  <2>1. ~in_iso
    BY <1>3 DEF IInv, StopClean, StopOut
  <2>2. QED
    BY <1>3, <2>1 DEF IInv, TypeOK, OutFollowsCount, SamplesReachClient, BuffersLive, DeviceAhead,
                      StopClean, StopOut, out, in, mic
<1>4. CASE OutPacket
  <2>1. SamplesReachClient' /\ BuffersLive' /\ StopClean' /\ DeviceAhead'
    BY <1>4
       DEF IInv, SamplesReachClient, BuffersLive, StopClean, DeviceAhead, OutPacket, life, in, mic
  <2>2. QED
    BY <1>4, <2>1, OutPacketStep DEF IInv
<1>5. CASE LosePacket
  <2>1. /\ micWindow' \in 1 .. MaxWindow + 1 /\ micChannel' \in 1 .. LastChannel
        /\ micWindow <= micWindow' /\ UNCHANGED <<life, out, in>>
    BY <1>5, AdvanceFacts DEF LosePacket
  <2>2. TypeOK'
    BY <2>1 DEF IInv, TypeOK, life, out, in
  <2>3. DeviceAhead'
    BY <2>1, AudioAssumption DEF IInv, TypeOK, DeviceAhead, in
  <2>4. OutFollowsCount' /\ SamplesReachClient' /\ BuffersLive' /\ StopClean'
    BY <2>1 DEF IInv, OutFollowsCount, SamplesReachClient, BuffersLive, StopClean, life, out, in
  <2>5. QED
    BY <2>2, <2>3, <2>4 DEF IInv
<1>6. CASE InPacket
  BY <1>6, InPacketStep
<1>7. CASE UNCHANGED vars
  BY <1>7 DEF IInv, TypeOK, OutFollowsCount, SamplesReachClient, BuffersLive, StopClean,
              DeviceAhead, vars, life, out, in, mic
<1>8. QED
  BY <1>1, <1>2, <1>3, <1>4, <1>5, <1>6, <1>7 DEF Next

\* The conjunction of the properties and DeviceAhead is an invariant of audio.
THEOREM InductiveInvariant == Spec => []IInv
BY InitInvariant, StepInvariant, PTL DEF Spec

\* The counters of prepare_iso_out_data() keep their ranges.
THEOREM TypeCorrect == Spec => []TypeOK
<1>1. IInv => TypeOK
  BY DEF IInv
<1>2. QED
  BY <1>1, InductiveInvariant, PTL

\* Window, parity and position in the window of prepare_iso_out_data() are
\* those of the number of packets, through every wrap.
THEOREM CountersFollowPackets == Spec => []OutFollowsCount
<1>1. IInv => OutFollowsCount
  BY DEF IInv
<1>2. QED
  BY <1>1, InductiveInvariant, PTL

\* freenect_stop_audio() frees no buffer iso_in_callback() may still use.
THEOREM BuffersOutliveTransfers == Spec => []BuffersLive
<1>1. IInv => BuffersLive
  BY DEF IInv
<1>2. QED
  BY <1>1, InductiveInvariant, PTL

\* The three facts together, for every packet of either direction.
THEOREM AudioInvariant == Spec => []AudioInv
BY TypeCorrect, CountersFollowPackets, BuffersOutliveTransfers, PTL DEF AudioInv

\* iso_in_callback() gives the samples that arrive to the client before it
\* overwrites them, whatever the bus loses of the others.
THEOREM SamplesReachTheClient == Spec => []SamplesReachClient
<1>1. IInv => SamplesReachClient
  BY DEF IInv
<1>2. QED
  BY <1>1, InductiveInvariant, PTL

-----------------------------------------------------------------------------
(* Bits, bytes and packed pixels. *)

\* The frames of a size: functions from 0 to their bytes.
Bytes == 0 .. 255
Frames(size) == [0 .. size - 1 -> Bytes]

\* The weights of the bits of a byte.
LEMMA PowersOfTwo ==
  /\ 2^(7 - 0) = 128 /\ 2^(7 - 1) = 64 /\ 2^(7 - 2) = 32 /\ 2^(7 - 3) = 16
  /\ 2^(7 - 4) = 8 /\ 2^(7 - 5) = 4 /\ 2^(7 - 6) = 2 /\ 2^(7 - 7) = 1
  /\ \A m \in 0 .. 7 : 2^(7 - m) \in {1, 2, 4, 8, 16, 32, 64, 128}
<1> DEFINE weight(m) == 2^(7 - m)
<1>1. /\ weight(0) = 128 /\ weight(1) = 64 /\ weight(2) = 32 /\ weight(3) = 16
      /\ weight(4) = 8 /\ weight(5) = 4 /\ weight(6) = 2 /\ weight(7) = 1
  OBVIOUS
<1>2. \A m \in 0 .. 7 : weight(m) \in {1, 2, 4, 8, 16, 32, 64, 128}
  <2> HIDE DEF weight
  <2>1. QED
    BY <1>1
<1>3. QED
  BY <1>1, <1>2

\* A bit of a frame is a digit.
LEMMA BitIsDigit ==
  ASSUME NEW size \in Nat, NEW raw \in Frames(size), NEW j \in 0 .. 8 * size - 1
  PROVE  Bit(raw, j) \in 0 .. 1
<1>1. raw[j \div 8] \in 0 .. 255
  <2>1. j \div 8 \in 0 .. size - 1
    OBVIOUS
  <2>2. QED
    BY <2>1 DEF Frames, Bytes
<1>2. j % 8 \in 0 .. 7
  OBVIOUS
<1>3. \A m \in 0 .. 7 : 2^(7 - m) \in {1, 2, 4, 8, 16, 32, 64, 128}
  BY PowersOfTwo
<1>4. \A r \in 0 .. 255, p \in {1, 2, 4, 8, 16, 32, 64, 128} : (r \div p) % 2 \in 0 .. 1
  OBVIOUS
<1>5. 2^(7 - (j % 8)) \in {1, 2, 4, 8, 16, 32, 64, 128}
  BY <1>2, <1>3
<1>6. QED
  BY <1>1, <1>4, <1>5 DEF Bit

\* A byte is the sum of its bits, each with its weight.
LEMMA ByteIsBits ==
  ASSUME NEW size \in Nat, NEW raw \in Frames(size), NEW b \in 0 .. size - 1
  PROVE  /\ raw[b] = 128 * Bit(raw, 8 * b) + 64 * Bit(raw, 8 * b + 1) + 32 * Bit(raw, 8 * b + 2)
                     + 16 * Bit(raw, 8 * b + 3) + 8 * Bit(raw, 8 * b + 4) + 4 * Bit(raw,
                        8 * b + 5)
                     + 2 * Bit(raw, 8 * b + 6) + Bit(raw, 8 * b + 7)
<1>1. raw[b] \in 0 .. 255
  BY DEF Frames, Bytes
<1>2. ASSUME NEW k \in 0 .. 7 PROVE Bit(raw, 8 * b + k) = (raw[b] \div 2^(7 - k)) % 2
  <2>1. (8 * b + k) \div 8 = b /\ (8 * b + k) % 8 = k
    OBVIOUS
  <2>2. QED
    BY <2>1 DEF Bit
<1>3. /\ Bit(raw, 8 * b) = (raw[b] \div 128) % 2
      /\ Bit(raw, 8 * b + 1) = (raw[b] \div 64) % 2
      /\ Bit(raw, 8 * b + 2) = (raw[b] \div 32) % 2
      /\ Bit(raw, 8 * b + 3) = (raw[b] \div 16) % 2
      /\ Bit(raw, 8 * b + 4) = (raw[b] \div 8) % 2
      /\ Bit(raw, 8 * b + 5) = (raw[b] \div 4) % 2
      /\ Bit(raw, 8 * b + 6) = (raw[b] \div 2) % 2
      /\ Bit(raw, 8 * b + 7) = raw[b] % 2
  <2>2. 8 * b + 0 = 8 * b /\ raw[b] \div 1 = raw[b]
    BY <1>1
  <2>3. \A k \in 0 .. 7 : Bit(raw, 8 * b + k) = (raw[b] \div 2^(7 - k)) % 2
    BY <1>2
  <2>4. QED
    BY <2>2, <2>3, PowersOfTwo
<1>4. \A r \in 0 .. 255 :
        r = 128 * ((r \div 128) % 2) + 64 * ((r \div 64) % 2) + 32 * ((r \div 32) % 2)
            + 16 * ((r \div 16) % 2) + 8 * ((r \div 8) % 2) + 4 * ((r \div 4) % 2)
            + 2 * ((r \div 2) % 2) + (r % 2)
  <2> SUFFICES ASSUME NEW r \in 0 .. 255
               PROVE  r = 128 * ((r \div 128) % 2) + 64 * ((r \div 64) % 2)
                          + 32 * ((r \div 32) % 2) + 16 * ((r \div 16) % 2)
                          + 8 * ((r \div 8) % 2) + 4 * ((r \div 4) % 2)
                          + 2 * ((r \div 2) % 2) + (r % 2)
    OBVIOUS
  <2>1. r = 2 * (r \div 2) + (r % 2)
    OBVIOUS
  <2>2. r \div 2 = 2 * (r \div 4) + ((r \div 2) % 2)
    OBVIOUS
  <2>3. r \div 4 = 2 * (r \div 8) + ((r \div 4) % 2)
    OBVIOUS
  <2>4. r \div 8 = 2 * (r \div 16) + ((r \div 8) % 2)
    OBVIOUS
  <2>5. r \div 16 = 2 * (r \div 32) + ((r \div 16) % 2)
    OBVIOUS
  <2>6. r \div 32 = 2 * (r \div 64) + ((r \div 32) % 2)
    OBVIOUS
  <2>7. r \div 64 = 2 * (r \div 128) + ((r \div 64) % 2)
    OBVIOUS
  <2>8. (r \div 128) % 2 = r \div 128
    OBVIOUS
  <2>9. QED
    BY <2>1, <2>2, <2>3, <2>4, <2>5, <2>6, <2>7, <2>8
<1>5. QED
  BY <1>1, <1>3, <1>4

\* The numbers that 8, 10 and 11 bits make.
Eight(raw, at) ==
  128 * Bit(raw, at) + 64 * Bit(raw, at + 1) + 32 * Bit(raw, at + 2) + 16 * Bit(raw, at + 3)
    + 8 * Bit(raw, at + 4) + 4 * Bit(raw, at + 5) + 2 * Bit(raw, at + 6) + Bit(raw, at + 7)
Ten(raw, at) == 4 * Eight(raw, at) + 2 * Bit(raw, at + 8) + Bit(raw, at + 9)
Eleven(raw, at) == 2 * Ten(raw, at) + Bit(raw, at + 10)

\* Eight bits put together are made of these bits ...
LEMMA EightBits ==
  ASSUME NEW raw, NEW at \in Nat, \A k \in 0 .. 7 : Bit(raw, at + k) \in 0 .. 1
  PROVE  MadeOf(Eight(raw, at), raw, at, 8)
<1> DEFINE d(k) == Bit(raw, at + k)
           v == Eight(raw, at)
           weight(k) == 2^(8 - 1 - k)
<1>1. \A k \in 0 .. 7 : d(k) \in 0 .. 1
  OBVIOUS
<1>2. v = 128 * d(0) + 64 * d(1) + 32 * d(2) + 16 * d(3) + 8 * d(4) + 4 * d(5) + 2 * d(6) + d(7)
  BY DEF Eight
<1>3. /\ weight(0) = 128 /\ weight(1) = 64 /\ weight(2) = 32 /\ weight(3) = 16
      /\ weight(4) = 8 /\ weight(5) = 4 /\ weight(6) = 2 /\ weight(7) = 1 /\ 2^8 = 256
  OBVIOUS
<1> HIDE DEF d, v, weight
<1>4. v \in 0 .. 255
  BY <1>1, <1>2
<1>5. (v \div 128) % 2 = d(0)
  BY <1>1, <1>2
<1>6. (v \div 64) % 2 = d(1)
  BY <1>1, <1>2
<1>7. (v \div 32) % 2 = d(2)
  BY <1>1, <1>2
<1>8. (v \div 16) % 2 = d(3)
  BY <1>1, <1>2
<1>9. (v \div 8) % 2 = d(4)
  BY <1>1, <1>2
<1>10. (v \div 4) % 2 = d(5)
  BY <1>1, <1>2
<1>11. (v \div 2) % 2 = d(6)
  BY <1>1, <1>2
<1>12. (v \div 1) % 2 = d(7)
  BY <1>1, <1>2
<1>13. \A k \in 0 .. 7 : (v \div weight(k)) % 2 = d(k)
  <2>1. \A k \in 0 .. 7 : k \in {0, 1, 2, 3, 4, 5, 6, 7}
    OBVIOUS
  <2>2. QED
    BY <1>3, <1>5, <1>6, <1>7, <1>8, <1>9, <1>10, <1>11, <1>12, <2>1
<1>14. QED
  BY <1>3, <1>4, <1>13 DEF MadeOf, d, v, weight

\* ... and so is what has one bit more, ...
LEMMA OneBitMore ==
  ASSUME NEW raw, NEW at \in Nat, NEW width \in {8, 9, 10}, NEW v, MadeOf(v, raw, at, width),
         Bit(raw, at + width) \in 0 .. 1
  PROVE  MadeOf(2 * v + Bit(raw, at + width), raw, at, width + 1)
<1> DEFINE d == Bit(raw, at + width)
           weight(k) == 2^k
<1>1. /\ weight(0) = 1 /\ weight(1) = 2 /\ weight(2) = 4 /\ weight(3) = 8 /\ weight(4) = 16
      /\ weight(5) = 32 /\ weight(6) = 64 /\ weight(7) = 128 /\ weight(8) = 256
      /\ weight(9) = 512 /\ weight(10) = 1024 /\ weight(11) = 2048
  OBVIOUS
<1>2. /\ v \in 0 .. weight(width) - 1
      /\ \A k \in 0 .. width - 1 : (v \div weight(width - 1 - k)) % 2 = Bit(raw, at + k)
  BY DEF MadeOf
<1> HIDE DEF d, weight
<1>3. 2 * v + d \in 0 .. weight(width + 1) - 1 /\ v \in Nat /\ d \in 0 .. 1
  BY <1>1, <1>2 DEF d
<1>4. ((2 * v + d) \div weight(0)) % 2 = d
  BY <1>1, <1>3
<1>5. ASSUME NEW k \in 0 .. width - 1
      PROVE  ((2 * v + d) \div weight(width - k)) % 2 = Bit(raw, at + k)
  <2>1. \A p \in {1, 2, 4, 8, 16, 32, 64, 128, 256, 512} : (2 * v + d) \div (2 * p) = v \div p
    <3> TAKE p \in {1, 2, 4, 8, 16, 32, 64, 128, 256, 512}
    <3>1. QED
      BY <1>3
  <2>2. /\ weight(width - 1 - k) \in {1, 2, 4, 8, 16, 32, 64, 128, 256, 512}
        /\ weight(width - k) = 2 * weight(width - 1 - k)
    <3>1. width - 1 - k \in {0, 1, 2, 3, 4, 5, 6, 7, 8, 9} /\ width - k = (width - 1 - k) + 1
      OBVIOUS
    <3>2. \A j \in {0, 1, 2, 3, 4, 5, 6, 7, 8, 9} :
            /\ weight(j) \in {1, 2, 4, 8, 16, 32, 64, 128, 256, 512}
            /\ weight(j + 1) = 2 * weight(j)
      BY <1>1
    <3>3. QED
      BY <3>1, <3>2
  <2>3. QED
    BY <1>2, <2>1, <2>2
<1>6. \A k \in 0 .. width : ((2 * v + d) \div weight(width - k)) % 2 = Bit(raw, at + k)
  BY <1>4, <1>5 DEF d
<1>7. QED
  BY <1>3, <1>6 DEF MadeOf, d, weight

\* ... up to ten ...
LEMMA TenBits ==
  ASSUME NEW raw, NEW at \in Nat, \A k \in 0 .. 9 : Bit(raw, at + k) \in 0 .. 1
  PROVE  MadeOf(Ten(raw, at), raw, at, 10)
<1>1. MadeOf(Eight(raw, at), raw, at, 8)
  BY EightBits
<1>2. MadeOf(2 * Eight(raw, at) + Bit(raw, at + 8), raw, at, 9)
  BY <1>1, OneBitMore
<1>3. MadeOf(2 * (2 * Eight(raw, at) + Bit(raw, at + 8)) + Bit(raw, at + 9), raw, at, 10)
  BY <1>2, OneBitMore
<1>4. Eight(raw, at) \in Int /\ Bit(raw, at + 8) \in Int /\ Bit(raw, at + 9) \in Int
  BY <1>1 DEF MadeOf
<1>5. 2 * (2 * Eight(raw, at) + Bit(raw, at + 8)) + Bit(raw, at + 9) = Ten(raw, at)
  BY <1>4 DEF Ten
<1>6. QED
  BY <1>3, <1>5

\* ... and eleven of them.
LEMMA ElevenBits ==
  ASSUME NEW raw, NEW at \in Nat, \A k \in 0 .. 10 : Bit(raw, at + k) \in 0 .. 1
  PROVE  MadeOf(Eleven(raw, at), raw, at, 11)
<1>1. MadeOf(Ten(raw, at), raw, at, 10)
  BY TenBits
<1>2. QED
  BY <1>1, OneBitMore DEF Eleven

\* A mask of eleven bits leaves the eleven lowest.
LEMMA LastBits == \A h \in Nat, v \in 0 .. 2047 : (2048 * h + v) % 2048 = v
OBVIOUS

\* unpack_8_pixels(): each of the eight is its eleven bits.
LEMMA UnrolledPixels ==
  ASSUME NEW size \in Nat, NEW raw \in Frames(size), NEW b \in Nat, b + 10 < size,
         NEW i \in 0 .. 7
  PROVE  Unpack8(raw, b)[i] = Eleven(raw, 8 * b + 11 * i)
<1> DEFINE at == 8 * b
           bit(k) == Bit(raw, at + k)
<1>1. \A k \in 0 .. 87 : bit(k) \in 0 .. 1
  <2> TAKE k \in 0 .. 87
  <2>1. at + k \in 0 .. 8 * size - 1
    OBVIOUS
  <2>2. QED
    BY <2>1, BitIsDigit
<1>2. raw[b] = 128 * bit(0) + 64 * bit(1) + 32 * bit(2) + 16 * bit(3)
                + 8 * bit(4) + 4 * bit(5) + 2 * bit(6) + bit(7)
  <2>1. b \in 0 .. size - 1 /\ at + 0 = 8 * b
    OBVIOUS
  <2>2. QED
    BY <2>1, ByteIsBits
<1>3. raw[b + 1] = 128 * bit(8) + 64 * bit(9) + 32 * bit(10) + 16 * bit(11)
                + 8 * bit(12) + 4 * bit(13) + 2 * bit(14) + bit(15)
  <2>1. b + 1 \in 0 .. size - 1 /\ 8 * (b + 1) = at + 8
    OBVIOUS
  <2>2. QED
    BY <2>1, ByteIsBits
<1>4. raw[b + 2] = 128 * bit(16) + 64 * bit(17) + 32 * bit(18) + 16 * bit(19)
                + 8 * bit(20) + 4 * bit(21) + 2 * bit(22) + bit(23)
  <2>1. b + 2 \in 0 .. size - 1 /\ 8 * (b + 2) = at + 16
    OBVIOUS
  <2>2. QED
    BY <2>1, ByteIsBits
<1>5. raw[b + 3] = 128 * bit(24) + 64 * bit(25) + 32 * bit(26) + 16 * bit(27)
                + 8 * bit(28) + 4 * bit(29) + 2 * bit(30) + bit(31)
  <2>1. b + 3 \in 0 .. size - 1 /\ 8 * (b + 3) = at + 24
    OBVIOUS
  <2>2. QED
    BY <2>1, ByteIsBits
<1>6. raw[b + 4] = 128 * bit(32) + 64 * bit(33) + 32 * bit(34) + 16 * bit(35)
                + 8 * bit(36) + 4 * bit(37) + 2 * bit(38) + bit(39)
  <2>1. b + 4 \in 0 .. size - 1 /\ 8 * (b + 4) = at + 32
    OBVIOUS
  <2>2. QED
    BY <2>1, ByteIsBits
<1>7. raw[b + 5] = 128 * bit(40) + 64 * bit(41) + 32 * bit(42) + 16 * bit(43)
                + 8 * bit(44) + 4 * bit(45) + 2 * bit(46) + bit(47)
  <2>1. b + 5 \in 0 .. size - 1 /\ 8 * (b + 5) = at + 40
    OBVIOUS
  <2>2. QED
    BY <2>1, ByteIsBits
<1>8. raw[b + 6] = 128 * bit(48) + 64 * bit(49) + 32 * bit(50) + 16 * bit(51)
                + 8 * bit(52) + 4 * bit(53) + 2 * bit(54) + bit(55)
  <2>1. b + 6 \in 0 .. size - 1 /\ 8 * (b + 6) = at + 48
    OBVIOUS
  <2>2. QED
    BY <2>1, ByteIsBits
<1>9. raw[b + 7] = 128 * bit(56) + 64 * bit(57) + 32 * bit(58) + 16 * bit(59)
                + 8 * bit(60) + 4 * bit(61) + 2 * bit(62) + bit(63)
  <2>1. b + 7 \in 0 .. size - 1 /\ 8 * (b + 7) = at + 56
    OBVIOUS
  <2>2. QED
    BY <2>1, ByteIsBits
<1>10. raw[b + 8] = 128 * bit(64) + 64 * bit(65) + 32 * bit(66) + 16 * bit(67)
                + 8 * bit(68) + 4 * bit(69) + 2 * bit(70) + bit(71)
  <2>1. b + 8 \in 0 .. size - 1 /\ 8 * (b + 8) = at + 64
    OBVIOUS
  <2>2. QED
    BY <2>1, ByteIsBits
<1>11. raw[b + 9] = 128 * bit(72) + 64 * bit(73) + 32 * bit(74) + 16 * bit(75)
                + 8 * bit(76) + 4 * bit(77) + 2 * bit(78) + bit(79)
  <2>1. b + 9 \in 0 .. size - 1 /\ 8 * (b + 9) = at + 72
    OBVIOUS
  <2>2. QED
    BY <2>1, ByteIsBits
<1>12. raw[b + 10] = 128 * bit(80) + 64 * bit(81) + 32 * bit(82) + 16 * bit(83)
                + 8 * bit(84) + 4 * bit(85) + 2 * bit(86) + bit(87)
  <2>1. b + 10 \in 0 .. size - 1 /\ 8 * (b + 10) = at + 80
    OBVIOUS
  <2>2. QED
    BY <2>1, ByteIsBits
<1> DEFINE pixel(k) == Eleven(raw, at + k)
           u(k) == Unpack8(raw, b)[k]
<1>13. \A k \in Int : k \in 0 .. 77 =>
         pixel(k) = 1024 * bit(k) + 512 * bit(k + 1) + 256 * bit(k + 2) + 128 * bit(k + 3)
                    + 64 * bit(k + 4) + 32 * bit(k + 5) + 16 * bit(k + 6) + 8 * bit(k + 7)
                    + 4 * bit(k + 8) + 2 * bit(k + 9) + bit(k + 10)
  <2> TAKE k \in Int
  <2> HAVE k \in 0 .. 77
  <2>1. \A j \in 0 .. 10 : at + k + j = at + (k + j) /\ bit(k + j) \in 0 .. 1
    BY <1>1
  <2> HIDE DEF at
  <2>2. QED
    BY <2>1 DEF Eleven, Ten, Eight
<1>14. /\ u(0) = raw[b] * 8 + raw[b+1] \div 32
       /\ u(1) = (raw[b+1] * 64 + raw[b+2] \div 4) % 2048
       /\ u(2) = (raw[b+2] * 512 + raw[b+3] * 2 + raw[b+4] \div 128) % 2048
       /\ u(3) = (raw[b+4] * 16 + raw[b+5] \div 16) % 2048
       /\ u(4) = (raw[b+5] * 128 + raw[b+6] \div 2) % 2048
       /\ u(5) = (raw[b+6] * 1024 + raw[b+7] * 4 + raw[b+8] \div 64) % 2048
       /\ u(6) = (raw[b+8] * 32 + raw[b+9] \div 8) % 2048
       /\ u(7) = (raw[b+9] * 256 + raw[b+10]) % 2048
  BY DEF Unpack8
<1> HIDE DEF at, bit, u, pixel
<1>15. \A k \in Int : k \in 0 .. 77 => pixel(k) \in 0 .. 2047
  <2> TAKE k \in Int
  <2> HAVE k \in 0 .. 77
  <2>1. \A j \in 0 .. 10 : bit(k + j) \in 0 .. 1
    BY <1>1
  <2>2. QED
    BY <1>13, <2>1
<1>16. u(0) = pixel(0)
  BY <1>1, <1>2, <1>3, <1>13, <1>14
<1>17. u(1) = pixel(11)
  <2> DEFINE high == 4 * bit(8) + 2 * bit(9) + bit(10)
  <2>1. raw[b+1] * 64 = 2048 * high + 1024 * bit(11) + 512 * bit(12) + 256 * bit(13)
                      + 128 * bit(14) + 64 * bit(15)
    <3>1. /\ bit(8) \in 0 .. 1 /\ bit(9) \in 0 .. 1 /\ bit(10) \in 0 .. 1 /\ bit(11) \in 0 .. 1
          /\ bit(12) \in 0 .. 1 /\ bit(13) \in 0 .. 1 /\ bit(14) \in 0 .. 1
             /\ bit(15) \in 0 .. 1
      BY <1>1
    <3>2. QED
      BY <1>3, <3>1
  <2>2. raw[b+2] \div 4 = 32 * bit(16) + 16 * bit(17) + 8 * bit(18) + 4 * bit(19) + 2 * bit(20)
                        + bit(21)
    <3>1. /\ bit(16) \in 0 .. 1 /\ bit(17) \in 0 .. 1 /\ bit(18) \in 0 .. 1
          /\ bit(19) \in 0 .. 1
          /\ bit(20) \in 0 .. 1 /\ bit(21) \in 0 .. 1 /\ bit(22) \in 0 .. 1
             /\ bit(23) \in 0 .. 1
      BY <1>1
    <3>2. QED
      BY <1>4, <3>1
  <2>3. high \in Nat
    BY <1>1
  <2>4. raw[b+1] * 64 + raw[b+2] \div 4 = 2048 * high + pixel(11)
    <3>1. /\ bit(11) \in Int /\ bit(12) \in Int /\ bit(13) \in Int /\ bit(14) \in Int
          /\ bit(15) \in Int /\ bit(16) \in Int /\ bit(17) \in Int /\ bit(18) \in Int
          /\ bit(19) \in Int /\ bit(20) \in Int /\ bit(21) \in Int
      BY <1>1
    <3>2. pixel(11) = 1024 * bit(11) + 512 * bit(12) + 256 * bit(13) + 128 * bit(14)
                    + 64 * bit(15) + 32 * bit(16)
                       + 16 * bit(17) + 8 * bit(18) + 4 * bit(19) + 2 * bit(20) + bit(21)
      BY <1>13
    <3> HIDE DEF high
    <3>3. QED
      BY <2>1, <2>2, <2>3, <3>1, <3>2
  <2> HIDE DEF high
  <2>5. pixel(11) \in 0 .. 2047
    BY <1>15
  <2>6. QED
    BY <1>14, <2>3, <2>4, <2>5, LastBits
<1>18. u(2) = pixel(22)
  <2> DEFINE high == 32 * bit(16) + 16 * bit(17) + 8 * bit(18) + 4 * bit(19) + 2 * bit(20) + bit(21)
  <2>1. raw[b+2] * 512 = 2048 * high + 1024 * bit(22) + 512 * bit(23)
    <3>1. /\ bit(16) \in 0 .. 1 /\ bit(17) \in 0 .. 1 /\ bit(18) \in 0 .. 1
          /\ bit(19) \in 0 .. 1
          /\ bit(20) \in 0 .. 1 /\ bit(21) \in 0 .. 1 /\ bit(22) \in 0 .. 1
             /\ bit(23) \in 0 .. 1
      BY <1>1
    <3>2. QED
      BY <1>4, <3>1
  <2>2. raw[b+3] * 2 = 256 * bit(24) + 128 * bit(25) + 64 * bit(26) + 32 * bit(27) + 16 * bit(28)
                     + 8 * bit(29) + 4 * bit(30) + 2 * bit(31)
    <3>1. /\ bit(24) \in 0 .. 1 /\ bit(25) \in 0 .. 1 /\ bit(26) \in 0 .. 1
          /\ bit(27) \in 0 .. 1
          /\ bit(28) \in 0 .. 1 /\ bit(29) \in 0 .. 1 /\ bit(30) \in 0 .. 1
             /\ bit(31) \in 0 .. 1
      BY <1>1
    <3>2. QED
      BY <1>5, <3>1
  <2>3. raw[b+4] \div 128 = bit(32)
    <3>1. /\ bit(32) \in 0 .. 1 /\ bit(33) \in 0 .. 1 /\ bit(34) \in 0 .. 1
          /\ bit(35) \in 0 .. 1
          /\ bit(36) \in 0 .. 1 /\ bit(37) \in 0 .. 1 /\ bit(38) \in 0 .. 1
             /\ bit(39) \in 0 .. 1
      BY <1>1
    <3>2. QED
      BY <1>6, <3>1
  <2>4. high \in Nat
    BY <1>1
  <2>5. raw[b+2] * 512 + raw[b+3] * 2 + raw[b+4] \div 128 = 2048 * high + pixel(22)
    <3>1. /\ bit(22) \in Int /\ bit(23) \in Int /\ bit(24) \in Int /\ bit(25) \in Int
          /\ bit(26) \in Int /\ bit(27) \in Int /\ bit(28) \in Int /\ bit(29) \in Int
          /\ bit(30) \in Int /\ bit(31) \in Int /\ bit(32) \in Int
      BY <1>1
    <3>2. pixel(22) = 1024 * bit(22) + 512 * bit(23) + 256 * bit(24) + 128 * bit(25)
                    + 64 * bit(26) + 32 * bit(27)
                       + 16 * bit(28) + 8 * bit(29) + 4 * bit(30) + 2 * bit(31) + bit(32)
      BY <1>13
    <3> HIDE DEF high
    <3>3. QED
      BY <2>1, <2>2, <2>3, <2>4, <3>1, <3>2
  <2> HIDE DEF high
  <2>6. pixel(22) \in 0 .. 2047
    BY <1>15
  <2>7. QED
    BY <1>14, <2>4, <2>5, <2>6, LastBits
<1>19. u(3) = pixel(33)
  <2> DEFINE high == bit(32)
  <2>1. raw[b+4] * 16 = 2048 * high + 1024 * bit(33) + 512 * bit(34) + 256 * bit(35)
                      + 128 * bit(36) + 64 * bit(37) + 32 * bit(38) + 16 * bit(39)
    <3>1. /\ bit(32) \in 0 .. 1 /\ bit(33) \in 0 .. 1 /\ bit(34) \in 0 .. 1
          /\ bit(35) \in 0 .. 1
          /\ bit(36) \in 0 .. 1 /\ bit(37) \in 0 .. 1 /\ bit(38) \in 0 .. 1
             /\ bit(39) \in 0 .. 1
      BY <1>1
    <3>2. QED
      BY <1>6, <3>1
  <2>2. raw[b+5] \div 16 = 8 * bit(40) + 4 * bit(41) + 2 * bit(42) + bit(43)
    <3>1. /\ bit(40) \in 0 .. 1 /\ bit(41) \in 0 .. 1 /\ bit(42) \in 0 .. 1
          /\ bit(43) \in 0 .. 1
          /\ bit(44) \in 0 .. 1 /\ bit(45) \in 0 .. 1 /\ bit(46) \in 0 .. 1
             /\ bit(47) \in 0 .. 1
      BY <1>1
    <3>2. QED
      BY <1>7, <3>1
  <2>3. high \in Nat
    BY <1>1
  <2>4. raw[b+4] * 16 + raw[b+5] \div 16 = 2048 * high + pixel(33)
    <3>1. /\ bit(33) \in Int /\ bit(34) \in Int /\ bit(35) \in Int /\ bit(36) \in Int
          /\ bit(37) \in Int /\ bit(38) \in Int /\ bit(39) \in Int /\ bit(40) \in Int
          /\ bit(41) \in Int /\ bit(42) \in Int /\ bit(43) \in Int
      BY <1>1
    <3>2. pixel(33) = 1024 * bit(33) + 512 * bit(34) + 256 * bit(35) + 128 * bit(36)
                    + 64 * bit(37) + 32 * bit(38)
                       + 16 * bit(39) + 8 * bit(40) + 4 * bit(41) + 2 * bit(42) + bit(43)
      BY <1>13
    <3>3. bit(32) \in Int
      BY <1>1
    <3>4. QED
      BY <2>1, <2>2, <3>1, <3>2, <3>3
  <2> HIDE DEF high
  <2>5. pixel(33) \in 0 .. 2047
    BY <1>15
  <2>6. QED
    BY <1>14, <2>3, <2>4, <2>5, LastBits
<1>20. u(4) = pixel(44)
  <2> DEFINE high == 8 * bit(40) + 4 * bit(41) + 2 * bit(42) + bit(43)
  <2>1. raw[b+5] * 128 = 2048 * high + 1024 * bit(44) + 512 * bit(45) + 256 * bit(46)
                       + 128 * bit(47)
    <3>1. /\ bit(40) \in 0 .. 1 /\ bit(41) \in 0 .. 1 /\ bit(42) \in 0 .. 1
          /\ bit(43) \in 0 .. 1
          /\ bit(44) \in 0 .. 1 /\ bit(45) \in 0 .. 1 /\ bit(46) \in 0 .. 1
             /\ bit(47) \in 0 .. 1
      BY <1>1
    <3>2. QED
      BY <1>7, <3>1
  <2>2. raw[b+6] \div 2 = 64 * bit(48) + 32 * bit(49) + 16 * bit(50) + 8 * bit(51) + 4 * bit(52)
                        + 2 * bit(53) + bit(54)
    <3>1. /\ bit(48) \in 0 .. 1 /\ bit(49) \in 0 .. 1 /\ bit(50) \in 0 .. 1
          /\ bit(51) \in 0 .. 1
          /\ bit(52) \in 0 .. 1 /\ bit(53) \in 0 .. 1 /\ bit(54) \in 0 .. 1
             /\ bit(55) \in 0 .. 1
      BY <1>1
    <3>2. QED
      BY <1>8, <3>1
  <2>3. high \in Nat
    BY <1>1
  <2>4. raw[b+5] * 128 + raw[b+6] \div 2 = 2048 * high + pixel(44)
    <3>1. /\ bit(44) \in Int /\ bit(45) \in Int /\ bit(46) \in Int /\ bit(47) \in Int
          /\ bit(48) \in Int /\ bit(49) \in Int /\ bit(50) \in Int /\ bit(51) \in Int
          /\ bit(52) \in Int /\ bit(53) \in Int /\ bit(54) \in Int
      BY <1>1
    <3>2. pixel(44) = 1024 * bit(44) + 512 * bit(45) + 256 * bit(46) + 128 * bit(47)
                    + 64 * bit(48) + 32 * bit(49)
                       + 16 * bit(50) + 8 * bit(51) + 4 * bit(52) + 2 * bit(53) + bit(54)
      BY <1>13
    <3> HIDE DEF high
    <3>3. QED
      BY <2>1, <2>2, <2>3, <3>1, <3>2
  <2> HIDE DEF high
  <2>5. pixel(44) \in 0 .. 2047
    BY <1>15
  <2>6. QED
    BY <1>14, <2>3, <2>4, <2>5, LastBits
<1>21. u(5) = pixel(55)
  <2> DEFINE high == 64 * bit(48) + 32 * bit(49) + 16 * bit(50) + 8 * bit(51) + 4 * bit(52) + 2 * bit(53) + bit(54)
  <2>1. raw[b+6] * 1024 = 2048 * high + 1024 * bit(55)
    <3>1. /\ bit(48) \in 0 .. 1 /\ bit(49) \in 0 .. 1 /\ bit(50) \in 0 .. 1
          /\ bit(51) \in 0 .. 1
          /\ bit(52) \in 0 .. 1 /\ bit(53) \in 0 .. 1 /\ bit(54) \in 0 .. 1
             /\ bit(55) \in 0 .. 1
      BY <1>1
    <3>2. QED
      BY <1>8, <3>1
  <2>2. raw[b+7] * 4 = 512 * bit(56) + 256 * bit(57) + 128 * bit(58) + 64 * bit(59) + 32 * bit(60)
                     + 16 * bit(61) + 8 * bit(62) + 4 * bit(63)
    <3>1. /\ bit(56) \in 0 .. 1 /\ bit(57) \in 0 .. 1 /\ bit(58) \in 0 .. 1
          /\ bit(59) \in 0 .. 1
          /\ bit(60) \in 0 .. 1 /\ bit(61) \in 0 .. 1 /\ bit(62) \in 0 .. 1
             /\ bit(63) \in 0 .. 1
      BY <1>1
    <3>2. QED
      BY <1>9, <3>1
  <2>3. raw[b+8] \div 64 = 2 * bit(64) + bit(65)
    <3>1. /\ bit(64) \in 0 .. 1 /\ bit(65) \in 0 .. 1 /\ bit(66) \in 0 .. 1
          /\ bit(67) \in 0 .. 1
          /\ bit(68) \in 0 .. 1 /\ bit(69) \in 0 .. 1 /\ bit(70) \in 0 .. 1
             /\ bit(71) \in 0 .. 1
      BY <1>1
    <3>2. QED
      BY <1>10, <3>1
  <2>4. high \in Nat
    BY <1>1
  <2>5. raw[b+6] * 1024 + raw[b+7] * 4 + raw[b+8] \div 64 = 2048 * high + pixel(55)
    <3>1. /\ bit(55) \in Int /\ bit(56) \in Int /\ bit(57) \in Int /\ bit(58) \in Int
          /\ bit(59) \in Int /\ bit(60) \in Int /\ bit(61) \in Int /\ bit(62) \in Int
          /\ bit(63) \in Int /\ bit(64) \in Int /\ bit(65) \in Int
      BY <1>1
    <3>2. pixel(55) = 1024 * bit(55) + 512 * bit(56) + 256 * bit(57) + 128 * bit(58)
                    + 64 * bit(59) + 32 * bit(60)
                       + 16 * bit(61) + 8 * bit(62) + 4 * bit(63) + 2 * bit(64) + bit(65)
      BY <1>13
    <3> HIDE DEF high
    <3>3. QED
      BY <2>1, <2>2, <2>3, <2>4, <3>1, <3>2
  <2> HIDE DEF high
  <2>6. pixel(55) \in 0 .. 2047
    BY <1>15
  <2>7. QED
    BY <1>14, <2>4, <2>5, <2>6, LastBits
<1>22. u(6) = pixel(66)
  <2> DEFINE high == 2 * bit(64) + bit(65)
  <2>1. raw[b+8] * 32 = 2048 * high + 1024 * bit(66) + 512 * bit(67) + 256 * bit(68)
                      + 128 * bit(69) + 64 * bit(70) + 32 * bit(71)
    <3>1. /\ bit(64) \in 0 .. 1 /\ bit(65) \in 0 .. 1 /\ bit(66) \in 0 .. 1
          /\ bit(67) \in 0 .. 1
          /\ bit(68) \in 0 .. 1 /\ bit(69) \in 0 .. 1 /\ bit(70) \in 0 .. 1
             /\ bit(71) \in 0 .. 1
      BY <1>1
    <3>2. QED
      BY <1>10, <3>1
  <2>2. raw[b+9] \div 8 = 16 * bit(72) + 8 * bit(73) + 4 * bit(74) + 2 * bit(75) + bit(76)
    <3>1. /\ bit(72) \in 0 .. 1 /\ bit(73) \in 0 .. 1 /\ bit(74) \in 0 .. 1
          /\ bit(75) \in 0 .. 1
          /\ bit(76) \in 0 .. 1 /\ bit(77) \in 0 .. 1 /\ bit(78) \in 0 .. 1
             /\ bit(79) \in 0 .. 1
      BY <1>1
    <3>2. QED
      BY <1>11, <3>1
  <2>3. high \in Nat
    BY <1>1
  <2>4. raw[b+8] * 32 + raw[b+9] \div 8 = 2048 * high + pixel(66)
    <3>1. /\ bit(66) \in Int /\ bit(67) \in Int /\ bit(68) \in Int /\ bit(69) \in Int
          /\ bit(70) \in Int /\ bit(71) \in Int /\ bit(72) \in Int /\ bit(73) \in Int
          /\ bit(74) \in Int /\ bit(75) \in Int /\ bit(76) \in Int
      BY <1>1
    <3>2. pixel(66) = 1024 * bit(66) + 512 * bit(67) + 256 * bit(68) + 128 * bit(69)
                    + 64 * bit(70) + 32 * bit(71)
                       + 16 * bit(72) + 8 * bit(73) + 4 * bit(74) + 2 * bit(75) + bit(76)
      BY <1>13
    <3> HIDE DEF high
    <3>3. QED
      BY <2>1, <2>2, <2>3, <3>1, <3>2
  <2> HIDE DEF high
  <2>5. pixel(66) \in 0 .. 2047
    BY <1>15
  <2>6. QED
    BY <1>14, <2>3, <2>4, <2>5, LastBits
<1>23. u(7) = pixel(77)
  <2> DEFINE high == 16 * bit(72) + 8 * bit(73) + 4 * bit(74) + 2 * bit(75) + bit(76)
  <2>1. raw[b+9] * 256 = 2048 * high + 1024 * bit(77) + 512 * bit(78) + 256 * bit(79)
    <3>1. /\ bit(72) \in 0 .. 1 /\ bit(73) \in 0 .. 1 /\ bit(74) \in 0 .. 1
          /\ bit(75) \in 0 .. 1
          /\ bit(76) \in 0 .. 1 /\ bit(77) \in 0 .. 1 /\ bit(78) \in 0 .. 1
             /\ bit(79) \in 0 .. 1
      BY <1>1
    <3>2. QED
      BY <1>11, <3>1
  <2>2. raw[b+10] = 128 * bit(80) + 64 * bit(81) + 32 * bit(82) + 16 * bit(83) + 8 * bit(84)
                  + 4 * bit(85) + 2 * bit(86) + bit(87)
    <3>1. /\ bit(80) \in 0 .. 1 /\ bit(81) \in 0 .. 1 /\ bit(82) \in 0 .. 1
          /\ bit(83) \in 0 .. 1
          /\ bit(84) \in 0 .. 1 /\ bit(85) \in 0 .. 1 /\ bit(86) \in 0 .. 1
             /\ bit(87) \in 0 .. 1
      BY <1>1
    <3>2. QED
      BY <1>12, <3>1
  <2>3. high \in Nat
    BY <1>1
  <2>4. raw[b+9] * 256 + raw[b+10] = 2048 * high + pixel(77)
    <3>1. /\ bit(77) \in Int /\ bit(78) \in Int /\ bit(79) \in Int /\ bit(80) \in Int
          /\ bit(81) \in Int /\ bit(82) \in Int /\ bit(83) \in Int /\ bit(84) \in Int
          /\ bit(85) \in Int /\ bit(86) \in Int /\ bit(87) \in Int
      BY <1>1
    <3>2. pixel(77) = 1024 * bit(77) + 512 * bit(78) + 256 * bit(79) + 128 * bit(80)
                    + 64 * bit(81) + 32 * bit(82)
                       + 16 * bit(83) + 8 * bit(84) + 4 * bit(85) + 2 * bit(86) + bit(87)
      BY <1>13
    <3>3. bit(72) \in Int /\ bit(73) \in Int /\ bit(74) \in Int /\ bit(75) \in Int /\ bit(76) \in Int
      BY <1>1
    <3>4. QED
      BY <2>1, <2>2, <3>1, <3>2, <3>3
  <2> HIDE DEF high
  <2>5. pixel(77) \in 0 .. 2047
    BY <1>15
  <2>6. QED
    BY <1>14, <2>3, <2>4, <2>5, LastBits
<1>24. u(i) = pixel(11 * i)
  <2>1. i \in {0, 1, 2, 3, 4, 5, 6, 7}
    OBVIOUS
  <2>2. QED
    BY <1>16, <1>17, <1>18, <1>19, <1>20, <1>21, <1>22, <1>23, <2>1
<1>25. QED
  BY <1>24 DEF at, u, pixel

-----------------------------------------------------------------------------
(* Where a pixel of the aligned picture goes. *)

\* The depths a camera sees, 0 for none.
Millimetres == {ToMm(r) : r \in Raws}

\* A depth in millimetres is a number.
LEMMA MillimetresAreNumbers == Millimetres \subseteq Nat
BY RegistrationAssumption DEF Millimetres, ToMm

\* C's quotient of what is inside a range, and of what lies beyond its end.
LEMMA QuotientInRange ==
  ASSUME NEW a \in Int, NEW d \in Nat \ {0}, NEW q \in Nat
  PROVE  /\ TDiv(a, d) \in Int
         /\ 0 <= a /\ a < d * q => TDiv(a, d) \in 0 .. q - 1
         /\ d * q <= a => q <= TDiv(a, d)
<1>1. ASSUME 0 <= a
      PROVE  a \div d \in Nat /\ a % d \in 0 .. d - 1 /\ a = d * (a \div d) + (a % d)
  BY <1>1
<1>2. TDiv(a, d) \in Int
  BY DEF TDiv
<1>3. ASSUME 0 <= a, a < d * q PROVE TDiv(a, d) \in 0 .. q - 1
  BY <1>1, <1>3 DEF TDiv
<1>4. ASSUME d * q <= a PROVE q <= TDiv(a, d)
  BY <1>1, <1>4 DEF TDiv
<1>5. QED
  BY <1>2, <1>3, <1>4

\* Row and column inside the picture make one of its pixels.
LEMMA PlaceInPicture ==
  ASSUME NEW y \in 0 .. DY - 1, NEW x \in 0 .. DX - 1
  PROVE  y * DX + x \in Pixels
<1>1. y * DX <= (DY - 1) * DX
  BY RegistrationAssumption
<1>2. y * DX + x \in Nat
  BY RegistrationAssumption
<1>3. (DY - 1) * DX + DX = DX * DY
  BY RegistrationAssumption
<1>4. y * DX \in Int /\ (DY - 1) * DX \in Int /\ DX * DY \in Int /\ DX \in Int
  BY RegistrationAssumption
<1>5. QED
  BY <1>1, <1>2, <1>3, <1>4 DEF Pixels

\* The line of an entry of the table is a number.
LEMMA LineIsNumber ==
  ASSUME NEW s \in Calibrations, NEW i \in Pixels
  PROVE  TableEntry(s, i)[2] \in Int
<1> DEFINE ny == Scale * (i \div DX) + s.shifts[i][2] + Scale
<1>1. ny \in Int
  <2>1. s.shifts[i][2] \in Int
    BY ShiftsAssumption DEF Calibrations
  <2>2. i \in Int /\ i \div DX \in Int
    BY RegistrationAssumption DEF Pixels
  <2>3. Scale * (i \div DX) \in Int
    BY <2>2, RegistrationAssumption
  <2>4. QED
    BY <2>1, <2>3, RegistrationAssumption
<1>2. TableEntry(s, i)[2] = TDiv(ny, Scale)
  BY DEF TableEntry
<1> HIDE DEF ny
<1>3. QED
  BY <1>1, <1>2, RegistrationAssumption DEF TDiv

\* A pixel is aimed at some index, whatever the tables.
LEMMA AimedInMemory ==
  ASSUME NEW s \in Calibrations, NEW i \in Pixels, NEW d \in Millimetres, Aimed(s, i, d)
  PROVE  Target(s, i, d) \in Memory
<1> DEFINE column == Column(TableEntry(s, i), DepthToRgb[d])
           index == TableEntry(s, i)[2] * DX + column - TargetOffset(s)
<1>1. column \in Int /\ TableEntry(s, i)[2] \in Int
  BY LineIsNumber, RegistrationAssumption DEF Aimed, InPicture
<1>2. TargetOffset(s) \in Int
  <2>1. s.start \in Nat /\ DY \in Nat
    BY RegistrationAssumption DEF Calibrations
  <2>2. \A a, b \in Nat : a * b \in Int
    OBVIOUS
  <2>3. QED
    BY <2>1, <2>2 DEF TargetOffset
<1>3. index \in Int
  <2>1. DX \in Int /\ \A a, b \in Int : a * b \in Int
    BY RegistrationAssumption
  <2>2. TableEntry(s, i)[2] * DX \in Int
    BY <1>1, <2>1
  <2> HIDE DEF column
  <2>3. QED
    BY <1>1, <1>2, <2>2
<1>4. Words \in Nat \ {0}
  BY RegistrationAssumption
<1>5. Target(s, i, d) = index % Words
  BY DEF Target
<1> HIDE DEF index
<1>6. QED
  BY <1>3, <1>4, <1>5 DEF Memory

\* The pixels of the picture are not the index that says there is none.
LEMMA PixelsInMemory == Pixels \subseteq Memory /\ Unmapped \notin Pixels
BY RegistrationAssumption DEF Pixels, Memory, Unmapped

\* Of a regular camera, one the table put out of the picture stays out of it.
LEMMA AimedAtPixels ==
  ASSUME NEW s \in Calibrations, NEW i \in Pixels, NEW d \in Millimetres, Aimed(s, i, d),
         s.start = 0, DepthToRgb[d] >= -(Scale * DX)
  PROVE  /\ Target(s, i, d) \in Pixels
         /\ Target(s, i, d) = TableEntry(s, i)[2] * DX + Column(TableEntry(s, i), DepthToRgb[d])
<1> DEFINE nx == Scale * (i % DX) + s.shifts[i][1] + Scale
           ny == Scale * (i \div DX) + s.shifts[i][2] + Scale
           e == TableEntry(s, i)
           shift == DepthToRgb[d]
           column == Column(e, shift)
<1>1. d \in 1 .. MaxMetric - 1
  BY MillimetresAreNumbers, RegistrationAssumption DEF Aimed
<1>2. shift \in Int /\ shift >= -(Scale * DX)
  <2>1. \E r \in Raws \ {NoRaw} : RawToMm[r] = d
    BY <1>1 DEF Millimetres, ToMm
  <2>2. d \in DOMAIN DepthToRgb
    BY <1>1, <2>1, RegistrationAssumption
  <2>3. QED
    BY <2>2, RegistrationAssumption
<1>3. nx \in Int /\ ny \in Int
  <2>1. s.shifts[i][1] \in Int /\ s.shifts[i][2] \in Int
    BY ShiftsAssumption DEF Calibrations
  <2>2. i \in Int /\ i % DX \in Int /\ i \div DX \in Int
    BY RegistrationAssumption DEF Pixels
  <2>3. Scale * (i % DX) \in Int /\ Scale * (i \div DX) \in Int
    BY <2>2, RegistrationAssumption
  <2>4. QED
    BY <2>1, <2>3, RegistrationAssumption
<1>4. column \in 0 .. DX - 1
  BY DEF Aimed, InPicture
<1>5. /\ e[1] = IF nx < 0 \/ ny < 0 \/ nx >= Scale * DX \/ ny >= Scale * DY
                THEN 2 * Scale * DX ELSE nx
      /\ e[2] = TDiv(ny, Scale)
  BY DEF TableEntry
<1> HIDE DEF nx, ny, e, shift
<1>6. column = TDiv(e[1] + shift, Scale)
  BY DEF Column
<1> HIDE DEF column
<1>7. Scale \in Nat \ {0} /\ DX \in Nat \ {0} /\ DY \in Nat \ {0}
  BY RegistrationAssumption
<1>8. ~(nx < 0 \/ ny < 0 \/ nx >= Scale * DX \/ ny >= Scale * DY)
  <2> SUFFICES ASSUME nx < 0 \/ ny < 0 \/ nx >= Scale * DX \/ ny >= Scale * DY
               PROVE  FALSE
    OBVIOUS
  <2>1. e[1] = 2 * Scale * DX
    BY <1>5
  <2>2. Scale * DX \in Int /\ e[1] = Scale * DX + Scale * DX
    BY <1>7, <2>1
  <2>3. e[1] + shift \in Int /\ Scale * DX <= e[1] + shift
    BY <1>2, <2>2
  <2>4. DX <= column
    BY <1>6, <1>7, <2>3, QuotientInRange
  <2>5. QED
    BY <1>4, <1>7, <2>4
<1>9. e[2] \in 0 .. DY - 1
  <2>1. Scale * DY \in Int
    BY <1>7
  <2>2. 0 <= ny /\ ny < Scale * DY
    BY <1>3, <1>7, <1>8, <2>1
  <2>3. QED
    BY <1>3, <1>5, <1>7, <2>2, QuotientInRange
<1>10. e[2] * DX + column \in Pixels
  BY <1>4, <1>9, PlaceInPicture
<1>11. Target(s, i, d) = (e[2] * DX + column - TargetOffset(s)) % Words
  BY DEF Target, e, column, shift
<1>12. TargetOffset(s) = 0
  BY RegistrationAssumption DEF TargetOffset
<1>13. \A p \in Pixels : (p - 0) % Words = p
  <2>1. \A p \in Pixels : p \in Nat /\ p < Words
    BY RegistrationAssumption DEF Pixels
  <2>2. Words \in Nat \ {0}
    BY RegistrationAssumption
  <2>3. QED
    BY <2>1, <2>2
<1>14. Target(s, i, d) = e[2] * DX + column
  <2> DEFINE p == e[2] * DX + column
  <2>1. p \in Pixels
    BY <1>10
  <2>2. column - 0 = column
    BY <1>4
  <2>3. Target(s, i, d) = p % Words
    BY <1>11, <1>12, <2>2
  <2> HIDE DEF p
  <2>4. (p - 0) % Words = p /\ p - 0 = p
    BY <1>13, <2>1 DEF Pixels
  <2>5. QED
    BY <2>3, <2>4 DEF p
<1>15. QED
  BY <1>10, <1>14 DEF e, column, shift

\* A set of numbers has a least one.
LEMMA LeastNumber ==
  ASSUME NEW T, T \subseteq Nat, T # {}
  PROVE  \E m \in T : \A x \in T : m <= x
<1> DEFINE R == OpToRel(<, Nat)
<1>1. \A x, m \in Nat : <<x, m>> \in R <=> x < m
  BY DEF OpToRel
<1>2. IsWellFoundedOn(R, Nat)
  BY NatLessThanWellFounded
<1> HIDE DEF R
<1>3. PICK m \in T : \A x \in T : ~(<<x, m>> \in R)
  BY <1>2, WFMin
<1>4. \A x \in T : m <= x
  <2>1. \A x \in T : ~(x < m) /\ x \in Nat /\ m \in Nat
    BY <1>1, <1>3
  <2>2. QED
    BY <2>1
<1>5. QED
  BY <1>4

\* Two functions that start the same and go on the same are the same.
GoOnTheSame(f, g, N) == f[0] = g[0] /\ \A n \in 1 .. N : f[n - 1] = g[n - 1] => f[n] = g[n]

\* Two functions that begin alike and go on alike are the same.
LEMMA SameRecursion ==
  ASSUME NEW N \in Nat, NEW f, NEW g, GoOnTheSame(f, g, N), NEW i \in 0 .. N
  PROVE  f[i] = g[i]
<1> DEFINE T == {n \in 0 .. N : f[n] # g[n]}
<1>1. SUFFICES ASSUME T # {} PROVE FALSE
  OBVIOUS
<1>2. T \subseteq Nat
  OBVIOUS
<1> HIDE DEF T
<1>3. PICK m \in T : \A x \in T : m <= x
  BY <1>1, <1>2, LeastNumber
<1> USE DEF T
<1>4. m \in 0 .. N /\ f[m] # g[m]
  BY <1>3
<1>5. m \in 1 .. N
  BY <1>4 DEF GoOnTheSame
<1>6. f[m - 1] # g[m - 1]
  BY <1>4, <1>5 DEF GoOnTheSame
<1>7. m - 1 \in T
  BY <1>5, <1>6
<1> HIDE DEF T
<1>8. QED
  BY <1>3, <1>5, <1>7

-----------------------------------------------------------------------------
(* The nearest of the depths that fall on a pixel. *)

\* The least of the depths, 0 if there is none.
Nearest(depths) ==
  IF depths = {} THEN 0 ELSE CHOOSE d \in depths : \A e \in depths : d <= e

\* The nearest is one of the depths, and none is nearer.
LEMMA NearestOfDepths ==
  ASSUME NEW depths, depths \subseteq Nat \ {0}, depths # {}
  PROVE  Nearest(depths) \in depths /\ \A e \in depths : Nearest(depths) <= e
<1>1. \E d \in depths : \A e \in depths : d <= e
  BY LeastNumber
<1>2. QED
  BY <1>1 DEF Nearest

\* There is only one.
LEMMA NearestIsLeast ==
  ASSUME NEW depths, depths \subseteq Nat \ {0}, NEW d \in depths, \A e \in depths : d <= e
  PROVE  Nearest(depths) = d
<1>1. Nearest(depths) \in depths /\ Nearest(depths) <= d
  BY NearestOfDepths
<1>2. d <= Nearest(depths) /\ d \in Nat /\ Nearest(depths) \in Nat
  BY <1>1
<1>3. QED
  BY <1>1, <1>2

\* One more depth replaces the nearest so far as the loop says.
LEMMA OneDepthMore ==
  ASSUME NEW depths, depths \subseteq Nat \ {0}, NEW d \in Nat \ {0}
  PROVE  Nearest(depths \cup {d}) = IF Nearer(Nearest(depths), d) THEN d ELSE Nearest(depths)
<1>1. CASE depths = {}
  <2>1. Nearest({d}) = d
    BY NearestIsLeast
  <2>2. Nearest(depths) = 0 /\ depths \cup {d} = {d}
    BY <1>1 DEF Nearest
  <2>3. QED
    BY <2>1, <2>2 DEF Nearer
<1>2. CASE depths # {}
  <2> DEFINE n == Nearest(depths)
  <2>1. n \in depths /\ \A e \in depths : n <= e
    BY <1>2, NearestOfDepths
  <2>2. n \in Nat \ {0} /\ \A e \in depths : e \in Nat
    BY <2>1
  <2> HIDE DEF n
  <2>3. CASE n > d
    <3>1. \A e \in depths \cup {d} : d <= e
      BY <2>1, <2>2, <2>3
    <3>2. depths \cup {d} \subseteq Nat \ {0} /\ d \in depths \cup {d}
      OBVIOUS
    <3>3. Nearest(depths \cup {d}) = d
      BY <3>1, <3>2, NearestIsLeast
    <3>4. QED
      BY <2>3, <3>3 DEF Nearer, n
  <2>4. CASE ~(n > d)
    <3>1. \A e \in depths \cup {d} : n <= e
      BY <2>1, <2>2, <2>4
    <3>2. depths \cup {d} \subseteq Nat \ {0} /\ n \in depths \cup {d}
      BY <2>1
    <3>3. Nearest(depths \cup {d}) = n
      BY <3>1, <3>2, NearestIsLeast
    <3>4. QED
      BY <2>2, <2>4, <3>3 DEF Nearer, n
  <2>5. QED
    BY <2>3, <2>4
<1>3. QED
  BY <1>1, <1>2

\* The depths of the first n pixels that fall on pixel t.
Seen(s, mm, n, t) ==
  {mm[i] : i \in {j \in 0 .. n - 1 : Aimed(s, j, mm[j]) /\ Target(s, j, mm[j]) = t}}

\* What falls on a pixel is a depth, never 0.
LEMMA SeenIsDepth ==
  ASSUME NEW s, NEW mm \in [Pixels -> Millimetres], NEW n \in 0 .. DX * DY, NEW t
  PROVE  Seen(s, mm, n, t) \subseteq Nat \ {0}
<1>1. \A j \in 0 .. n - 1 : mm[j] \in Nat
  <2>1. \A j \in 0 .. n - 1 : j \in Pixels
    BY RegistrationAssumption DEF Pixels
  <2>2. QED
    BY <2>1, MillimetresAreNumbers
<1>2. QED
  BY <1>1 DEF Seen, Aimed

\* One more pixel adds its depth where it is aimed.
LEMMA OnePixelMore ==
  ASSUME NEW s, NEW mm, NEW n \in Nat, NEW t
  PROVE  Seen(s, mm, n + 1, t) = IF Aimed(s, n, mm[n]) /\ Target(s, n, mm[n]) = t
                                 THEN Seen(s, mm, n, t) \cup {mm[n]} ELSE Seen(s, mm, n, t)
<1> DEFINE falls(j) == Aimed(s, j, mm[j]) /\ Target(s, j, mm[j]) = t
           here(k) == {j \in 0 .. k - 1 : falls(j)}
<1>1. \A k : Seen(s, mm, k, t) = {mm[i] : i \in here(k)}
  BY DEF Seen
<1> HIDE DEF falls
<1>2. here(n + 1) = IF falls(n) THEN here(n) \cup {n} ELSE here(n)
  <2>1. \A j : j \in 0 .. n <=> j \in 0 .. n - 1 \/ j = n
    OBVIOUS
  <2>2. 0 .. (n + 1) - 1 = 0 .. n
    OBVIOUS
  <2>3. QED
    BY <2>1, <2>2
<1> HIDE DEF here
<1>3. {mm[i] : i \in here(n) \cup {n}} = {mm[i] : i \in here(n)} \cup {mm[n]}
  OBVIOUS
<1>4. QED
  BY <1>1, <1>2, <1>3 DEF falls

\* What the buffer holds after n pixels, according to the property and to the loop.
Shown(s, mm, n) == [t \in Memory |-> Nearest(Seen(s, mm, n, t))]
Put(o, s, mm, i) ==
  IF Aimed(s, i, mm[i]) /\ Nearer(o[Target(s, i, mm[i])], mm[i])
  THEN [o EXCEPT ![Target(s, i, mm[i])] = mm[i]] ELSE o

\* A round of the loop of freenect_apply_registration() keeps the nearest.
LEMMA PutShows ==
  ASSUME NEW s \in Calibrations, NEW mm \in [Pixels -> Millimetres], NEW n \in Pixels
  PROVE  Put(Shown(s, mm, n), s, mm, n) = Shown(s, mm, n + 1)
<1> DEFINE c == Target(s, n, mm[n])
           o == Shown(s, mm, n)
           d == mm[n]
<1>1. n \in Nat /\ n \in 0 .. DX * DY
  BY RegistrationAssumption DEF Pixels
<1>2. \A t : Seen(s, mm, n + 1, t) = IF Aimed(s, n, d) /\ c = t
                                     THEN Seen(s, mm, n, t) \cup {d} ELSE Seen(s, mm, n, t)
  BY <1>1, OnePixelMore
<1>3. CASE ~Aimed(s, n, d)
  BY <1>2, <1>3 DEF Put, Shown
<1>4. CASE Aimed(s, n, d)
  <2>1. d \in Nat \ {0}
    BY <1>4, MillimetresAreNumbers DEF Aimed
  <2>2. c \in Memory
    BY <1>4, AimedInMemory
  <2>3. Seen(s, mm, n, c) \subseteq Nat \ {0}
    BY <1>1, SeenIsDepth
  <2>4. Nearest(Seen(s, mm, n + 1, c)) = IF Nearer(o[c], d) THEN d ELSE o[c]
    BY <1>2, <1>4, <2>1, <2>2, <2>3, OneDepthMore DEF Shown
  <2>5. \A t \in Memory \ {c} : Nearest(Seen(s, mm, n + 1, t)) = o[t]
    BY <1>2 DEF Shown
  <2>6. o = [t \in Memory |-> Nearest(Seen(s, mm, n, t))]
    BY DEF Shown
  <2>7. Put(o, s, mm, n) = IF Nearer(o[c], d) THEN [o EXCEPT ![c] = d] ELSE o
    BY <1>4 DEF Put
  <2>8. Shown(s, mm, n + 1) = [t \in Memory |-> Nearest(Seen(s, mm, n + 1, t))]
    BY DEF Shown
  <2> HIDE DEF o, c, d
  <2>9. CASE Nearer(o[c], d)
    BY <2>2, <2>4, <2>5, <2>6, <2>7, <2>8, <2>9 DEF o
  <2>10. CASE ~Nearer(o[c], d)
    BY <2>2, <2>4, <2>5, <2>6, <2>7, <2>8, <2>10 DEF o
  <2>11. QED
    BY <2>9, <2>10
<1>5. QED
  BY <1>3, <1>4

\* The loop of freenect_apply_registration() leaves the nearest depth everywhere.
LEMMA NearestIsShown ==
  ASSUME NEW s \in Calibrations, NEW mm \in [Pixels -> Millimetres]
  PROVE  ApplyRegistration(s, mm) = Shown(s, mm, DX * DY)
<1> DEFINE E(h) == [n \in 0 .. DX * DY |->
                      IF n = 0 THEN [t \in Memory |-> 0] ELSE Put(h[n - 1], s, mm, n - 1)]
           buffer == CHOOSE h : h = E(h)
           g == [n \in 0 .. DX * DY |-> Shown(s, mm, n)]
<1>1. DX * DY \in Nat
  BY RegistrationAssumption
<1>2. ApplyRegistration(s, mm) = buffer[DX * DY]
  BY DEF ApplyRegistration, Put
<1>3. \A n \in 1 .. DX * DY : n - 1 \in Pixels /\ n - 1 \in 0 .. DX * DY /\ (n - 1) + 1 = n
  BY <1>1 DEF Pixels
<1>4. g[0] = [t \in Memory |-> 0]
  <2>1. \A t : Seen(s, mm, 0, t) = {}
    BY DEF Seen
  <2>2. Shown(s, mm, 0) = [t \in Memory |-> 0]
    BY <2>1 DEF Shown, Nearest
  <2>3. QED
    BY <1>1, <2>2
<1>5. \A n \in 1 .. DX * DY : g[n] = Put(g[n - 1], s, mm, n - 1)
  BY <1>1, <1>3, PutShows
<1>6. g = E(g)
  <2> DEFINE e(n) == IF n = 0 THEN [t \in Memory |-> 0] ELSE Put(g[n - 1], s, mm, n - 1)
  <2>1. \A n \in 0 .. DX * DY : g[n] = e(n)
    <3>1. \A n \in 0 .. DX * DY : n = 0 \/ n \in 1 .. DX * DY
      BY <1>1
    <3> HIDE DEF g
    <3>2. QED
      BY <1>4, <1>5, <3>1
  <2>2. g = [n \in 0 .. DX * DY |-> g[n]]
    OBVIOUS
  <2> HIDE DEF g, e
  <2>3. g = [n \in 0 .. DX * DY |-> e(n)]
    BY <2>1, <2>2, Zenon
  <2>4. QED
    BY <2>3 DEF e
<1>7. buffer = E(buffer)
  BY <1>6
<1> HIDE DEF buffer, g
<1>8. /\ buffer[0] = [t \in Memory |-> 0]
      /\ \A n \in 1 .. DX * DY : buffer[n] = Put(buffer[n - 1], s, mm, n - 1)
  BY <1>1, <1>7
<1>9. GoOnTheSame(buffer, g, DX * DY)
  BY <1>4, <1>5, <1>8 DEF GoOnTheSame
<1>10. buffer[DX * DY] = g[DX * DY]
  BY <1>1, <1>9, SameRecursion
<1>11. QED
  BY <1>1, <1>2, <1>10 DEF g

\* Of a regular camera all is aimed at pixels.
LEMMA RegularAims ==
  ASSUME NEW s \in Calibrations, NEW mm \in [Pixels -> Millimetres], Regular(s, mm),
         NEW i \in Pixels, Aimed(s, i, mm[i])
  PROVE  /\ Target(s, i, mm[i]) \in Pixels
         /\ Target(s, i, mm[i]) =
              TableEntry(s, i)[2] * DX + Column(TableEntry(s, i), DepthToRgb[mm[i]])
<1>1. mm[i] \in Millimetres /\ mm[i] \in 1 .. MaxMetric - 1
  <2>1. mm[i] \in Millimetres /\ mm[i] \in Nat
    BY MillimetresAreNumbers
  <2>2. mm[i] # 0 /\ mm[i] < MaxMetric /\ MaxMetric \in Nat
    BY RegistrationAssumption DEF Aimed
  <2>3. QED
    BY <2>1, <2>2
<1>2. s.start = 0 /\ DepthToRgb[mm[i]] >= -(Scale * DX)
  BY <1>1 DEF Regular, NoLargeShift
<1>3. QED
  BY <1>1, <1>2, AimedAtPixels

\* Of what falls on a pixel of the frame, the nearest.
LEMMA ShownIsNearest ==
  ASSUME NEW s \in Calibrations, NEW mm \in [Pixels -> Millimetres], NEW t
  PROVE  /\ Seen(s, mm, DX * DY, t) =
              {mm[i] : i \in {j \in Pixels : Aimed(s, j, mm[j]) /\ Target(s, j, mm[j]) = t}}
         /\ Regular(s, mm) /\ t \in Memory \ Pixels => ApplyRegistration(s, mm)[t] = 0
         /\ t \in Memory => ApplyRegistration(s, mm)[t] = Nearest(Seen(s, mm, DX * DY, t))
<1>1. ApplyRegistration(s, mm) = Shown(s, mm, DX * DY)
  BY NearestIsShown
<1>2. Seen(s, mm, DX * DY, t) =
        {mm[i] : i \in {j \in Pixels : Aimed(s, j, mm[j]) /\ Target(s, j, mm[j]) = t}}
  BY DEF Seen, Pixels
<1>3. t \in Memory => ApplyRegistration(s, mm)[t] = Nearest(Seen(s, mm, DX * DY, t))
  BY <1>1 DEF Shown
<1>4. ASSUME t \notin Pixels, Regular(s, mm) PROVE Seen(s, mm, DX * DY, t) = {}
  <2>1. \A j \in Pixels : Aimed(s, j, mm[j]) => Target(s, j, mm[j]) # t
    BY <1>4, RegularAims
  <2>2. QED
    BY <1>2, <2>1
<1>5. Regular(s, mm) /\ t \in Memory \ Pixels => ApplyRegistration(s, mm)[t] = 0
  BY <1>3, <1>4 DEF Nearest
<1>6. QED
  BY <1>2, <1>3, <1>5

\* The depth a client is given in millimetres, where it is not cut off, is that which
\* the aligned picture shows.
LEMMA DepthOfPixel ==
  ASSUME NEW mm \in [Pixels -> Millimetres], NEW i \in Pixels
  PROVE  /\ DepthToMm(mm)[i] \in 0 .. MaxMetric
         /\ DepthToMm(mm)[i] = 0 <=> mm[i] = 0
         /\ DepthToMm(mm)[i] < MaxMetric <=> mm[i] < MaxMetric
         /\ mm[i] < MaxMetric => DepthToMm(mm)[i] = mm[i]
<1>1. mm[i] \in Nat /\ MaxMetric \in Nat \ {0}
  BY MillimetresAreNumbers, RegistrationAssumption
<1>2. DepthToMm(mm)[i] = IF mm[i] < MaxMetric THEN mm[i] ELSE MaxMetric
  BY DEF DepthToMm
<1>3. QED
  BY <1>1, <1>2

\* Where freenect_map_rgb_to_depth() looks, for a pixel with a depth in range.
LEMMA MappedWhereShown ==
  ASSUME NEW s \in Calibrations, NEW mm \in [Pixels -> Millimetres], NEW junk \in Int,
         NEW i \in Pixels, mm[i] < MaxMetric, Regular(s, mm)
  PROVE  /\ Aimed(s, i, mm[i]) => MapTo(s, DepthToMm(mm), junk, i) = Target(s, i, mm[i])
         /\ ~Aimed(s, i, mm[i]) => MapTo(s, DepthToMm(mm), junk, i) = Unmapped
<1>1. DepthToMm(mm)[i] = mm[i]
  BY DepthOfPixel
<1>2. s.start = 0 /\ TargetOffset(s) = 0
  BY RegistrationAssumption DEF Regular, TargetOffset
<1>3. ASSUME Aimed(s, i, mm[i])
      PROVE  MapTo(s, DepthToMm(mm), junk, i) = Target(s, i, mm[i])
  <2> DEFINE line == TableEntry(s, i)[2]
             column == Column(TableEntry(s, i), DepthToRgb[mm[i]])
  <2>1. MapTo(s, DepthToMm(mm), junk, i) = ((line - TargetOffset(s)) * DX + column) % Words
    BY <1>1, <1>3 DEF MapTo, ShiftAt, Aimed
  <2>2. Target(s, i, mm[i]) = (line * DX + column - TargetOffset(s)) % Words
    BY DEF Target
  <2>3. line \in Int /\ column \in Int
    BY <1>3, LineIsNumber, RegistrationAssumption DEF Aimed, InPicture
  <2> HIDE DEF line, column
  <2>4. (line - 0) * DX + column = line * DX + column - 0
    BY <2>3, RegistrationAssumption
  <2>5. QED
    BY <1>2, <2>1, <2>2, <2>4
<1>4. ~Aimed(s, i, mm[i]) => MapTo(s, DepthToMm(mm), junk, i) = Unmapped
  BY <1>1 DEF MapTo, ShiftAt, Aimed
<1>5. QED
  BY <1>3, <1>4

\* It looks up the same depth as the aligned picture shows there, whatever junk takes
\* pixels beyond the largest depth to the same place.
LEMMA BufferIsShown ==
  ASSUME NEW s \in Calibrations, NEW mm \in [Pixels -> Millimetres], NEW junk \in Int,
         NEW i \in Pixels, mm[i] < MaxMetric, Aimed(s, i, mm[i]), Regular(s, mm),
         NEW near, near = {DepthToMm(mm)[j] : j \in {j \in Pixels :
                             MapTo(s, DepthToMm(mm), junk, j) = Target(s, i, mm[i])}}
  PROVE  /\ Nearest(near) = ApplyRegistration(s, mm)[Target(s, i, mm[i])]
         /\ Nearest(near) \in Nat /\ Nearest(near) <= mm[i]
<1> DEFINE c == Target(s, i, mm[i])
           seen == Seen(s, mm, DX * DY, c)
           depth == DepthToMm(mm)
           map(j) == MapTo(s, depth, junk, j)
<1>1. c \in Pixels /\ c \in Memory /\ c # Unmapped
  <2>1. c \in Pixels
    BY RegularAims
  <2>2. QED
    BY <2>1, PixelsInMemory
<1>2. seen = {mm[j] : j \in {j \in Pixels : Aimed(s, j, mm[j]) /\ Target(s, j, mm[j]) = c}}
  BY ShownIsNearest
<1>3. near = {depth[j] : j \in {j \in Pixels : map(j) = c}}
  OBVIOUS
<1>4. ASSUME NEW j \in Pixels, mm[j] < MaxMetric
      PROVE  /\ depth[j] = mm[j]
             /\ map(j) = c <=> Aimed(s, j, mm[j]) /\ Target(s, j, mm[j]) = c
  <2>1. depth[j] = mm[j]
    BY <1>4, DepthOfPixel
  <2>2. /\ Aimed(s, j, mm[j]) => map(j) = Target(s, j, mm[j])
        /\ ~Aimed(s, j, mm[j]) => map(j) = Unmapped
    BY <1>4, MappedWhereShown
  <2>3. QED
    BY <1>1, <2>1, <2>2
<1>5. ASSUME NEW j \in Pixels, ~(mm[j] < MaxMetric)
      PROVE  depth[j] = MaxMetric
  BY <1>5 DEF DepthToMm
<1>6. near \subseteq Nat \ {0}
  <2>1. \A j \in Pixels : map(j) = c => depth[j] # 0
    BY <1>1 DEF MapTo
  <2>2. \A j \in Pixels : depth[j] \in Nat
    BY DepthOfPixel, RegistrationAssumption
  <2> HIDE DEF depth, map, c
  <2>3. QED
    BY <1>3, <2>1, <2>2
<1>7. seen \subseteq near /\ seen \subseteq 1 .. MaxMetric - 1
  <2>1. \A j \in Pixels : Aimed(s, j, mm[j]) => mm[j] \in 1 .. MaxMetric - 1
    <3>1. \A d \in Nat : d # 0 /\ d < MaxMetric => d \in 1 .. MaxMetric - 1
      BY RegistrationAssumption
    <3>2. \A j \in Pixels : mm[j] \in Nat
      BY MillimetresAreNumbers
    <3>3. QED
      BY <3>1, <3>2 DEF Aimed
  <2>2. \A j \in Pixels : Aimed(s, j, mm[j]) => mm[j] < MaxMetric
    BY DEF Aimed
  <2> HIDE DEF depth, map, c, seen
  <2>3. QED
    BY <1>2, <1>3, <1>4, <2>1, <2>2
<1>8. mm[i] \in seen
  BY <1>2
<1>9. \A d \in near : d \in seen \/ d = MaxMetric
  <2> HIDE DEF depth, map, c, seen
  <2>1. QED
    BY <1>2, <1>3, <1>4, <1>5
<1>10. Nearest(seen) \in seen /\ \A e \in seen : Nearest(seen) <= e
  <2>1. seen \subseteq Nat \ {0} /\ seen # {}
    BY <1>7, <1>8
  <2> HIDE DEF seen
  <2>2. QED
    BY <2>1, NearestOfDepths
<1> DEFINE n == Nearest(seen)
<1>11. n \in near /\ n \in 1 .. MaxMetric - 1 /\ MaxMetric \in Nat
  BY <1>7, <1>10, RegistrationAssumption
<1>12. \A d \in near : n <= d
  <2> HIDE DEF seen
  <2>1. QED
    BY <1>9, <1>10, <1>11
<1>13. Nearest(near) = n
  <2> HIDE DEF n
  <2>1. QED
    BY <1>6, <1>11, <1>12, NearestIsLeast
<1>14. ApplyRegistration(s, mm)[c] = n
  BY <1>1, ShownIsNearest
<1>15. n \in Nat /\ n <= mm[i]
  BY <1>8, <1>10, <1>11
<1>16. QED
  BY <1>13, <1>14, <1>15

\* The bytes of a depth picture, every pixel of which is a depth the camera sends.
PackedDepth ==
  {raw \in Frames(11 * ((DX * DY) \div 8)) :
     \A i \in Pixels : Packed11To16(raw, DX * DY)[i] \in Raws}

\* convert_packed11_to_16bit(): pixel i is the eleven bits from 11 * i on.
LEMMA ElevenBitPixels ==
  ASSUME NEW n \in Nat, n % 8 = 0, NEW raw \in Frames(11 * (n \div 8)), NEW i \in 0 .. n - 1
  PROVE  MadeOf(Packed11To16(raw, n)[i], raw, 11 * i, 11)
<1> DEFINE b == 11 * (i \div 8)
           size == 11 * (n \div 8)
<1>1. i = 8 * (i \div 8) + (i % 8) /\ i % 8 \in 0 .. 7 /\ i \div 8 \in Nat
  OBVIOUS
<1>2. i \div 8 < n \div 8 /\ n = 8 * (n \div 8) /\ n \div 8 \in Nat
  <2>1. n = 8 * (n \div 8) /\ n \div 8 \in Nat
    OBVIOUS
  <2>2. QED
    BY <1>1, <2>1
<1>3. size \in Nat /\ b \in Nat /\ b + 10 < size
  BY <1>1, <1>2
<1>4. 8 * b + 11 * (i % 8) = 11 * i
  BY <1>1
<1>5. raw \in Frames(size)
  OBVIOUS
<1>6. \A k \in 0 .. 10 : 11 * i + k \in 0 .. 8 * size - 1
  BY <1>1, <1>2
<1> HIDE DEF b, size
<1>7. Unpack8(raw, b)[i % 8] = Eleven(raw, 8 * b + 11 * (i % 8))
  BY <1>1, <1>3, <1>5, UnrolledPixels
<1>8. Packed11To16(raw, n)[i] = Unpack8(raw, b)[i % 8]
  BY DEF Packed11To16, b
<1>9. \A k \in 0 .. 10 : Bit(raw, 11 * i + k) \in 0 .. 1
  BY <1>3, <1>5, <1>6, BitIsDigit
<1>10. MadeOf(Eleven(raw, 11 * i), raw, 11 * i, 11)
  BY <1>9, ElevenBits
<1>11. QED
  BY <1>4, <1>7, <1>8, <1>10

\* What is known of a picture that needed the tables.
AlignedInv ==
  /\ pic.fmt \in {"REGISTERED", "MM", "mapped"} =>
       pic.cal \in Calibrations /\ pic.mm \in [Pixels -> Millimetres]
  /\ pic.fmt = "REGISTERED" => pic.out = ApplyRegistration(pic.cal, pic.mm)
  /\ pic.fmt = "MM" => /\ pic.out = DepthToMm(pic.mm)
                       /\ \A i \in Pixels : \E r \in Raws : /\ MadeOf(r, pic.raw, 11 * i, 11)
                                                            /\ pic.mm[i] = ToMm(r)
  /\ pic.fmt = "mapped" => /\ pic.depth = DepthToMm(pic.mm)
                           /\ \E junk \in Int : pic.out = MapRgb(pic.cal, pic.depth, junk)

\* depth_process() makes the aligned pictures of the frame and the tables, ...
LEMMA AlignedStays ==
  ASSUME NEW fmt \in {"REGISTERED", "MM"}, NEW raw \in PackedDepth, NEW s \in Calibrations,
         AlignedFrame(fmt, raw, s)
  PROVE  AlignedInv'
<1> DEFINE mm == [i \in Pixels |-> ToMm(Packed11To16(raw, DX * DY)[i])]
<1>1. mm \in [Pixels -> Millimetres]
  BY DEF PackedDepth, Millimetres
<1>2. \A i \in Pixels : \E r \in Raws : MadeOf(r, raw, 11 * i, 11) /\ mm[i] = ToMm(r)
  <2> TAKE i \in Pixels
  <2>1. DX * DY \in Nat /\ (DX * DY) % 8 = 0 /\ i \in 0 .. DX * DY - 1
    BY RegistrationAssumption DEF Pixels
  <2>2. raw \in Frames(11 * ((DX * DY) \div 8)) /\ Packed11To16(raw, DX * DY)[i] \in Raws
    BY DEF PackedDepth
  <2>3. MadeOf(Packed11To16(raw, DX * DY)[i], raw, 11 * i, 11)
    BY <2>1, <2>2, ElevenBitPixels
  <2>4. mm[i] = ToMm(Packed11To16(raw, DX * DY)[i])
    OBVIOUS
  <2> HIDE DEF mm
  <2>5. QED
    BY <2>2, <2>3, <2>4
<1>3. pic' = [fmt |-> fmt, raw |-> raw, cal |-> s, mm |-> mm,
              out |-> IF fmt = "REGISTERED" THEN ApplyRegistration(s, mm) ELSE DepthToMm(mm)]
  BY DEF AlignedFrame
<1> HIDE DEF mm
<1>4. QED
  BY <1>1, <1>2, <1>3 DEF AlignedInv

\* ... and freenect_map_rgb_to_depth() the mapped ones of these.
LEMMA MappedStays ==
  ASSUME AlignedInv, NEW junk \in Int, MapRgbToDepth(junk)
  PROVE  AlignedInv'
BY DEF AlignedInv, MapRgbToDepth

\* A picture made by freenect_apply_depth_to_mm() has the depths of the frame.
LEMMA MillimetresFollow == AlignedInv => MillimetresRight
<1> SUFFICES ASSUME AlignedInv, pic.fmt = "MM", NEW i \in Pixels
             PROVE  \E r \in Raws :
                      /\ MadeOf(r, pic.raw, 11 * i, 11)
                      /\ pic.out[i] \in 0 .. MaxMetric
                      /\ r = NoRaw => pic.out[i] = 0
                      /\ r # NoRaw /\ RawToMm[r] < MaxMetric => pic.out[i] = RawToMm[r]
  BY DEF MillimetresRight
<1>1. pic.mm \in [Pixels -> Millimetres] /\ pic.out = DepthToMm(pic.mm)
  BY DEF AlignedInv
<1>2. PICK r \in Raws : MadeOf(r, pic.raw, 11 * i, 11) /\ pic.mm[i] = ToMm(r)
  BY DEF AlignedInv
<1>3. /\ pic.out[i] \in 0 .. MaxMetric
      /\ pic.mm[i] < MaxMetric => pic.out[i] = pic.mm[i]
  BY <1>1, DepthOfPixel
<1>4. 0 < MaxMetric
  BY RegistrationAssumption
<1>5. QED
  BY <1>2, <1>3, <1>4 DEF ToMm

\* One made by freenect_apply_registration() has the nearest, and of a regular camera
\* nothing outside.
LEMMA NearestFollows == AlignedInv => TargetsInFrame /\ NearestWins
<1> SUFFICES ASSUME AlignedInv, pic.fmt = "REGISTERED" PROVE TargetsInFrame /\ NearestWins
  BY DEF TargetsInFrame, NearestWins
<1> DEFINE s == pic.cal
           mm == pic.mm
<1>1. s \in Calibrations /\ mm \in [Pixels -> Millimetres] /\ pic.out = ApplyRegistration(s, mm)
  BY DEF AlignedInv
<1> HIDE DEF s, mm
<1>2. TargetsInFrame
  <2>1. ASSUME Regular(s, mm), NEW t \in Memory \ Pixels PROVE pic.out[t] = 0
    BY <1>1, <2>1, ShownIsNearest
  <2>2. QED
    BY <2>1 DEF TargetsInFrame, s, mm
<1>3. ASSUME NEW t \in Pixels, NEW here,
             here = {mm[i] : i \in {j \in Pixels : Aimed(s, j, mm[j]) /\ Target(s, j, mm[j]) = t}}
      PROVE  IF here = {} THEN pic.out[t] = 0
             ELSE pic.out[t] \in here /\ \A d \in here : pic.out[t] <= d
  <2>1. t \in Memory
    BY PixelsInMemory
  <2>2. here = Seen(s, mm, DX * DY, t) /\ pic.out[t] = Nearest(here)
    <3>1. here = Seen(s, mm, DX * DY, t)
      BY <1>1, <1>3, ShownIsNearest
    <3>2. ApplyRegistration(s, mm)[t] = Nearest(Seen(s, mm, DX * DY, t))
      BY <1>1, <2>1, ShownIsNearest
    <3>3. QED
      BY <1>1, <3>1, <3>2
  <2>3. here \subseteq Nat \ {0}
    <3>1. DX * DY \in 0 .. DX * DY
      BY RegistrationAssumption
    <3>2. QED
      BY <1>1, <2>2, <3>1, SeenIsDepth
  <2>4. here = {} => Nearest(here) = 0
    BY DEF Nearest
  <2>5. QED
    BY <2>2, <2>3, <2>4, NearestOfDepths
<1>4. NearestWins
  BY <1>3 DEF NearestWins, s, mm
<1>5. QED
  BY <1>2, <1>4

\* One made by freenect_map_rgb_to_depth() has its colours where that one has the depths.
LEMMA MapFollows == AlignedInv => MapInverse
<1> SUFFICES ASSUME AlignedInv, pic.fmt = "mapped", Regular(pic.cal, pic.mm) PROVE MapsBack
  BY DEF MapInverse
<1> DEFINE s == pic.cal
           mm == pic.mm
           depth == DepthToMm(mm)
           reg == ApplyRegistration(s, mm)
<1>1. s \in Calibrations /\ mm \in [Pixels -> Millimetres] /\ pic.depth = depth
      /\ Regular(s, mm)
  BY DEF AlignedInv
<1>2. PICK junk \in Int : pic.out = MapRgb(s, depth, junk)
  BY DEF AlignedInv
<1> SUFFICES ASSUME NEW i \in Pixels, pic.depth[i] \in 1 .. MaxMetric - 1
             PROVE  /\ pic.out[i].from # "outside"
                    /\ pic.out[i].from = "rgb" => reg[pic.out[i].at] = pic.depth[i]
                    /\ pic.out[i].from = "old" => reg[Target(s, i, pic.depth[i])] < pic.depth[i]
                    /\ pic.out[i].from = "black" => ~Aimed(s, i, pic.depth[i])
  BY DEF MapsBack
<1> DEFINE d == mm[i]
           c == Target(s, i, d)
           map == [j \in Pixels |-> MapTo(s, depth, junk, j)]
           near == [k \in Pixels |-> {depth[j] : j \in {j \in Pixels : map[j] = k}}]
           zBuffer == [k \in Pixels |->
                         IF near[k] = {} THEN 0
                         ELSE CHOOSE e \in near[k] : \A f \in near[k] : e <= f]
<1> HIDE DEF s, mm
<1>3. d \in Nat /\ MaxMetric \in Nat
  BY <1>1, MillimetresAreNumbers, RegistrationAssumption
<1>4. depth[i] = d /\ d < MaxMetric
  BY <1>1, <1>3, DepthOfPixel
<1>5. /\ Aimed(s, i, d) => map[i] = c
      /\ ~Aimed(s, i, d) => map[i] = Unmapped
  BY <1>1, <1>4, MappedWhereShown
<1>6. pic.out[i] = IF map[i] = Unmapped THEN [from |-> "black"]
                   ELSE IF map[i] \notin Pixels THEN [from |-> "outside"]
                   ELSE IF depth[i] <= zBuffer[map[i]] THEN [from |-> "rgb", at |-> map[i]]
                   ELSE [from |-> "old"]
  <2> DEFINE got(j) == IF map[j] = Unmapped THEN [from |-> "black"]
                       ELSE IF map[j] \notin Pixels THEN [from |-> "outside"]
                       ELSE IF depth[j] <= zBuffer[map[j]] THEN [from |-> "rgb", at |-> map[j]]
                       ELSE [from |-> "old"]
  <2>1. MapRgb(s, depth, junk) = [j \in Pixels |-> got(j)]
    BY DEF MapRgb
  <2> HIDE DEF got, depth
  <2>2. pic.out[i] = got(i)
    BY <1>2, <2>1
  <2>3. QED
    BY <2>2 DEF got
<1>7. CASE ~Aimed(s, i, d)
  <2>1. pic.out[i] = [from |-> "black"]
    BY <1>5, <1>6, <1>7
  <2>2. pic.out[i].from = "black"
    BY <2>1
  <2>3. QED
    BY <1>1, <1>4, <1>7, <2>2
<1>8. CASE Aimed(s, i, d)
  <2>1. c \in Pixels /\ c # Unmapped /\ map[i] = c
    <3>1. c \in Pixels
      BY <1>1, <1>8, RegularAims
    <3>2. c # Unmapped
      BY <3>1, PixelsInMemory
    <3>3. QED
      BY <1>5, <1>8, <3>1, <3>2
  <2>2. near[c] = {depth[j] : j \in {j \in Pixels : MapTo(s, depth, junk, j) = c}}
    BY <2>1
  <2>3. zBuffer[c] = Nearest(near[c])
    BY <2>1 DEF Nearest
  <2> HIDE DEF near, zBuffer, map
  <2>4. zBuffer[c] = reg[c] /\ reg[c] \in Nat /\ reg[c] <= d
    BY <1>1, <1>4, <1>8, <2>2, <2>3, BufferIsShown
  <2>5. CASE d <= zBuffer[c]
    <3>1. pic.out[i] = [from |-> "rgb", at |-> c]
      BY <1>4, <1>6, <2>1, <2>5
    <3>2. reg[c] = d
      BY <1>3, <2>4, <2>5
    <3>3. QED
      BY <1>1, <1>4, <3>1, <3>2
  <2>6. CASE ~(d <= zBuffer[c])
    <3>1. pic.out[i] = [from |-> "old"]
      BY <1>4, <1>6, <2>1, <2>6
    <3>2. reg[c] < d
      BY <1>3, <2>4, <2>6
    <3>3. QED
      BY <1>1, <1>4, <3>1, <3>2
  <2>7. QED
    BY <2>5, <2>6
<1>9. QED
  BY <1>7, <1>8

-----------------------------------------------------------------------------
(* Ten-bit pixels: the loops with a shift buffer. *)

\* What bits a byte is made of, and bytes a buffer.
ByteOf(x, b0, b1, b2, b3, b4, b5, b6, b7) ==
  x = 128 * b0 + 64 * b1 + 32 * b2 + 16 * b3 + 8 * b4 + 4 * b5 + 2 * b6 + b7
Holds(buffer, h, x, y) == buffer = h * 65536 + x * 256 + y

\* Fields of ten bits, and of the upper eight of them, in two bytes below what else
\* the buffer holds.
Fields(buffer, b0, b1, b2, b3, b4, b5, b6, b7, b8, b9, b10, b11, b12, b13, b14, b15) ==
  /\ (buffer \div 64) % 1024 = 512 * b0 + 256 * b1 + 128 * b2 + 64 * b3 + 32 * b4 + 16 * b5
                             + 8 * b6 + 4 * b7 + 2 * b8 + b9
  /\ (buffer \div 256) % 256 = 128 * b0 + 64 * b1 + 32 * b2 + 16 * b3 + 8 * b4 + 4 * b5 + 2 * b6
                             + b7
  /\ (buffer \div 16) % 1024 = 512 * b2 + 256 * b3 + 128 * b4 + 64 * b5 + 32 * b6 + 16 * b7
                             + 8 * b8 + 4 * b9 + 2 * b10 + b11
  /\ (buffer \div 64) % 256 = 128 * b2 + 64 * b3 + 32 * b4 + 16 * b5 + 8 * b6 + 4 * b7 + 2 * b8 + b9
  /\ (buffer \div 4) % 1024 = 512 * b4 + 256 * b5 + 128 * b6 + 64 * b7 + 32 * b8 + 16 * b9
                            + 8 * b10 + 4 * b11 + 2 * b12 + b13
  /\ (buffer \div 16) % 256 = 128 * b4 + 64 * b5 + 32 * b6 + 16 * b7 + 8 * b8 + 4 * b9 + 2 * b10
                            + b11
  /\ (buffer \div 1) % 1024 = 512 * b6 + 256 * b7 + 128 * b8 + 64 * b9 + 32 * b10 + 16 * b11
                            + 8 * b12 + 4 * b13 + 2 * b14 + b15
  /\ (buffer \div 4) % 256 = 128 * b6 + 64 * b7 + 32 * b8 + 16 * b9 + 8 * b10 + 4 * b11 + 2 * b12
                           + b13

\* The fields are found by shift and mask, whatever else the buffer holds.
LEMMA TenBitFields ==
  ASSUME NEW h \in Nat,
         NEW b0 \in 0 .. 1, NEW b1 \in 0 .. 1, NEW b2 \in 0 .. 1, NEW b3 \in 0 .. 1,
         NEW b4 \in 0 .. 1, NEW b5 \in 0 .. 1, NEW b6 \in 0 .. 1, NEW b7 \in 0 .. 1,
         NEW b8 \in 0 .. 1, NEW b9 \in 0 .. 1, NEW b10 \in 0 .. 1, NEW b11 \in 0 .. 1,
         NEW b12 \in 0 .. 1, NEW b13 \in 0 .. 1, NEW b14 \in 0 .. 1, NEW b15 \in 0 .. 1,
         NEW x, ByteOf(x, b0, b1, b2, b3, b4, b5, b6, b7),
         NEW y, ByteOf(y, b8, b9, b10, b11, b12, b13, b14, b15),
         NEW buffer, Holds(buffer, h, x, y)
  PROVE  Fields(buffer, b0, b1, b2, b3, b4, b5, b6, b7, b8, b9, b10, b11, b12, b13, b14, b15)
<1>1. buffer = 65536 * h + 32768 * b0 + 16384 * b1 + 8192 * b2 + 4096 * b3 + 2048 * b4 + 1024 * b5
               + 512 * b6 + 256 * b7 + 128 * b8 + 64 * b9 + 32 * b10 + 16 * b11
               + 8 * b12 + 4 * b13 + 2 * b14 + b15
  BY DEF ByteOf, Holds
<1>2. (buffer \div 64) % 1024 = 512 * b0 + 256 * b1 + 128 * b2 + 64 * b3 + 32 * b4 + 16 * b5
                              + 8 * b6 + 4 * b7 + 2 * b8 + b9
  <2>1. PICK v \in 0 .. 1023 : v = 512 * b0 + 256 * b1 + 128 * b2 + 64 * b3 + 32 * b4 + 16 * b5
                                 + 8 * b6 + 4 * b7 + 2 * b8 + b9
    OBVIOUS
  <2>2. PICK above \in Nat : above = h
    OBVIOUS
  <2>3. PICK below \in 0 .. 63 : below = 32 * b10 + 16 * b11 + 8 * b12 + 4 * b13 + 2 * b14 + b15
    OBVIOUS
  <2>4. buffer = 64 * (1024 * above + v) + below
    BY <1>1, <2>1, <2>2, <2>3
  <2>5. buffer \div 64 = 1024 * above + v
    BY <2>4
  <2>6. (1024 * above + v) % 1024 = v
    OBVIOUS
  <2>7. QED
    BY <2>1, <2>5, <2>6
<1>3. (buffer \div 256) % 256 = 128 * b0 + 64 * b1 + 32 * b2 + 16 * b3 + 8 * b4 + 4 * b5 + 2 * b6
                              + b7
  <2>1. PICK v \in 0 .. 255 : v = 128 * b0 + 64 * b1 + 32 * b2 + 16 * b3 + 8 * b4 + 4 * b5
                                + 2 * b6 + b7
    OBVIOUS
  <2>2. PICK above \in Nat : above = h
    OBVIOUS
  <2>3. PICK below \in 0 .. 255 : below = 128 * b8 + 64 * b9 + 32 * b10 + 16 * b11 + 8 * b12
                                        + 4 * b13 + 2 * b14 + b15
    OBVIOUS
  <2>4. buffer = 256 * (256 * above + v) + below
    BY <1>1, <2>1, <2>2, <2>3
  <2>5. buffer \div 256 = 256 * above + v
    BY <2>4
  <2>6. (256 * above + v) % 256 = v
    OBVIOUS
  <2>7. QED
    BY <2>1, <2>5, <2>6
<1>4. (buffer \div 16) % 1024 = 512 * b2 + 256 * b3 + 128 * b4 + 64 * b5 + 32 * b6 + 16 * b7
                              + 8 * b8 + 4 * b9 + 2 * b10 + b11
  <2>1. PICK v \in 0 .. 1023 : v = 512 * b2 + 256 * b3 + 128 * b4 + 64 * b5 + 32 * b6 + 16 * b7
                                 + 8 * b8 + 4 * b9 + 2 * b10 + b11
    OBVIOUS
  <2>2. PICK above \in Nat : above = 4 * h + 2 * b0 + b1
    OBVIOUS
  <2>3. PICK below \in 0 .. 15 : below = 8 * b12 + 4 * b13 + 2 * b14 + b15
    OBVIOUS
  <2>4. buffer = 16 * (1024 * above + v) + below
    BY <1>1, <2>1, <2>2, <2>3
  <2>5. buffer \div 16 = 1024 * above + v
    BY <2>4
  <2>6. (1024 * above + v) % 1024 = v
    OBVIOUS
  <2>7. QED
    BY <2>1, <2>5, <2>6
<1>5. (buffer \div 64) % 256 = 128 * b2 + 64 * b3 + 32 * b4 + 16 * b5 + 8 * b6 + 4 * b7 + 2 * b8
                             + b9
  <2>1. PICK v \in 0 .. 255 : v = 128 * b2 + 64 * b3 + 32 * b4 + 16 * b5 + 8 * b6 + 4 * b7
                                + 2 * b8 + b9
    OBVIOUS
  <2>2. PICK above \in Nat : above = 4 * h + 2 * b0 + b1
    OBVIOUS
  <2>3. PICK below \in 0 .. 63 : below = 32 * b10 + 16 * b11 + 8 * b12 + 4 * b13 + 2 * b14 + b15
    OBVIOUS
  <2>4. buffer = 64 * (256 * above + v) + below
    BY <1>1, <2>1, <2>2, <2>3
  <2>5. buffer \div 64 = 256 * above + v
    BY <2>4
  <2>6. (256 * above + v) % 256 = v
    OBVIOUS
  <2>7. QED
    BY <2>1, <2>5, <2>6
<1>6. (buffer \div 4) % 1024 = 512 * b4 + 256 * b5 + 128 * b6 + 64 * b7 + 32 * b8 + 16 * b9
                             + 8 * b10 + 4 * b11 + 2 * b12 + b13
  <2>1. PICK v \in 0 .. 1023 : v = 512 * b4 + 256 * b5 + 128 * b6 + 64 * b7 + 32 * b8 + 16 * b9
                                 + 8 * b10 + 4 * b11 + 2 * b12 + b13
    OBVIOUS
  <2>2. PICK above \in Nat : above = 16 * h + 8 * b0 + 4 * b1 + 2 * b2 + b3
    OBVIOUS
  <2>3. PICK below \in 0 .. 3 : below = 2 * b14 + b15
    OBVIOUS
  <2>4. buffer = 4 * (1024 * above + v) + below
    BY <1>1, <2>1, <2>2, <2>3
  <2>5. buffer \div 4 = 1024 * above + v
    BY <2>4
  <2>6. (1024 * above + v) % 1024 = v
    OBVIOUS
  <2>7. QED
    BY <2>1, <2>5, <2>6
<1>7. (buffer \div 16) % 256 = 128 * b4 + 64 * b5 + 32 * b6 + 16 * b7 + 8 * b8 + 4 * b9 + 2 * b10
                             + b11
  <2>1. PICK v \in 0 .. 255 : v = 128 * b4 + 64 * b5 + 32 * b6 + 16 * b7 + 8 * b8 + 4 * b9
                                + 2 * b10 + b11
    OBVIOUS
  <2>2. PICK above \in Nat : above = 16 * h + 8 * b0 + 4 * b1 + 2 * b2 + b3
    OBVIOUS
  <2>3. PICK below \in 0 .. 15 : below = 8 * b12 + 4 * b13 + 2 * b14 + b15
    OBVIOUS
  <2>4. buffer = 16 * (256 * above + v) + below
    BY <1>1, <2>1, <2>2, <2>3
  <2>5. buffer \div 16 = 256 * above + v
    BY <2>4
  <2>6. (256 * above + v) % 256 = v
    OBVIOUS
  <2>7. QED
    BY <2>1, <2>5, <2>6
<1>8. (buffer \div 1) % 1024 = 512 * b6 + 256 * b7 + 128 * b8 + 64 * b9 + 32 * b10 + 16 * b11
                             + 8 * b12 + 4 * b13 + 2 * b14 + b15
  <2>1. PICK v \in 0 .. 1023 : v = 512 * b6 + 256 * b7 + 128 * b8 + 64 * b9 + 32 * b10 + 16 * b11
                                 + 8 * b12 + 4 * b13 + 2 * b14 + b15
    OBVIOUS
  <2>2. PICK above \in Nat : above = 64 * h + 32 * b0 + 16 * b1 + 8 * b2 + 4 * b3 + 2 * b4 + b5
    OBVIOUS
  <2>3. PICK below \in 0 .. 0 : below = 0
    OBVIOUS
  <2>4. buffer = 1 * (1024 * above + v) + below
    BY <1>1, <2>1, <2>2, <2>3
  <2>5. buffer \div 1 = 1024 * above + v
    BY <2>4
  <2>6. (1024 * above + v) % 1024 = v
    OBVIOUS
  <2>7. QED
    BY <2>1, <2>5, <2>6
<1>9. (buffer \div 4) % 256 = 128 * b6 + 64 * b7 + 32 * b8 + 16 * b9 + 8 * b10 + 4 * b11 + 2 * b12
                            + b13
  <2>1. PICK v \in 0 .. 255 : v = 128 * b6 + 64 * b7 + 32 * b8 + 16 * b9 + 8 * b10 + 4 * b11
                                + 2 * b12 + b13
    OBVIOUS
  <2>2. PICK above \in Nat : above = 64 * h + 32 * b0 + 16 * b1 + 8 * b2 + 4 * b3 + 2 * b4 + b5
    OBVIOUS
  <2>3. PICK below \in 0 .. 3 : below = 2 * b14 + b15
    OBVIOUS
  <2>4. buffer = 4 * (256 * above + v) + below
    BY <1>1, <2>1, <2>2, <2>3
  <2>5. buffer \div 4 = 256 * above + v
    BY <2>4
  <2>6. (256 * above + v) % 256 = v
    OBVIOUS
  <2>7. QED
    BY <2>1, <2>5, <2>6
<1>10. QED
  BY <1>2, <1>3, <1>4, <1>5, <1>6, <1>7, <1>8, <1>9 DEF Fields

\* Ten bits from place c of the pattern on, and the upper eight of them.
CutOut(buffer, raw, m, c) ==
  /\ (buffer \div 2^(6 - 2 * c)) % 1024 = Ten(raw, 8 * m + 2 * c)
  /\ (buffer \div 2^(8 - 2 * c)) % 256 = Eight(raw, 8 * m + 2 * c)

\* What shift and mask cut out of two bytes are the bits of the frame.
LEMMA TenOfTwoBytes ==
  ASSUME NEW size \in Nat, NEW raw \in Frames(size), NEW m \in Nat, m + 1 < size,
         NEW h \in Nat, NEW buffer, Holds(buffer, h, raw[m], raw[m + 1]),
         NEW c \in 0 .. 3
  PROVE  CutOut(buffer, raw, m, c)
<1>1. \A k \in 0 .. 15 : Bit(raw, 8 * m + k) \in 0 .. 1
  <2>1. \A k \in 0 .. 15 : 8 * m + k \in 0 .. 8 * size - 1
    OBVIOUS
  <2>2. QED
    BY <2>1, BitIsDigit
<1>2. PICK b0 \in 0 .. 1 : b0 = Bit(raw, 8 * m + 0)
  BY <1>1
<1>3. PICK b1 \in 0 .. 1 : b1 = Bit(raw, 8 * m + 1)
  BY <1>1
<1>4. PICK b2 \in 0 .. 1 : b2 = Bit(raw, 8 * m + 2)
  BY <1>1
<1>5. PICK b3 \in 0 .. 1 : b3 = Bit(raw, 8 * m + 3)
  BY <1>1
<1>6. PICK b4 \in 0 .. 1 : b4 = Bit(raw, 8 * m + 4)
  BY <1>1
<1>7. PICK b5 \in 0 .. 1 : b5 = Bit(raw, 8 * m + 5)
  BY <1>1
<1>8. PICK b6 \in 0 .. 1 : b6 = Bit(raw, 8 * m + 6)
  BY <1>1
<1>9. PICK b7 \in 0 .. 1 : b7 = Bit(raw, 8 * m + 7)
  BY <1>1
<1>10. PICK b8 \in 0 .. 1 : b8 = Bit(raw, 8 * m + 8)
  BY <1>1
<1>11. PICK b9 \in 0 .. 1 : b9 = Bit(raw, 8 * m + 9)
  BY <1>1
<1>12. PICK b10 \in 0 .. 1 : b10 = Bit(raw, 8 * m + 10)
  BY <1>1
<1>13. PICK b11 \in 0 .. 1 : b11 = Bit(raw, 8 * m + 11)
  BY <1>1
<1>14. PICK b12 \in 0 .. 1 : b12 = Bit(raw, 8 * m + 12)
  BY <1>1
<1>15. PICK b13 \in 0 .. 1 : b13 = Bit(raw, 8 * m + 13)
  BY <1>1
<1>16. PICK b14 \in 0 .. 1 : b14 = Bit(raw, 8 * m + 14)
  BY <1>1
<1>17. PICK b15 \in 0 .. 1 : b15 = Bit(raw, 8 * m + 15)
  BY <1>1
<1>18. 8 * m + 0 = 8 * m
  OBVIOUS
<1>19. ByteOf(raw[m], b0, b1, b2, b3, b4, b5, b6, b7)
  <2>1. m \in 0 .. size - 1
    OBVIOUS
  <2>2. QED
    BY <1>2, <1>3, <1>4, <1>5, <1>6, <1>7, <1>8, <1>9, <1>18, <2>1, ByteIsBits DEF ByteOf
<1>20. ByteOf(raw[m + 1], b8, b9, b10, b11, b12, b13, b14, b15)
  <2>1. m + 1 \in 0 .. size - 1 /\ 8 * (m + 1) = 8 * m + 8
    OBVIOUS
  <2>2. QED
    BY <1>10, <1>11, <1>12, <1>13, <1>14, <1>15, <1>16, <1>17, <2>1, ByteIsBits DEF ByteOf
<1>21. Fields(buffer, b0, b1, b2, b3, b4, b5, b6, b7, b8, b9, b10, b11, b12, b13, b14, b15)
  BY <1>19, <1>20, TenBitFields
<1>22. \A j \in 0 .. 6, k \in 0 .. 9 : 8 * m + j + k = 8 * m + (j + k)
  OBVIOUS
<1>23. /\ Eight(raw, 8 * m + 0) = 128 * b0 + 64 * b1 + 32 * b2 + 16 * b3 + 8 * b4 + 4 * b5
                                + 2 * b6 + b7
       /\ Ten(raw, 8 * m + 0) = 512 * b0 + 256 * b1 + 128 * b2 + 64 * b3 + 32 * b4 + 16 * b5
                              + 8 * b6 + 4 * b7 + 2 * b8 + b9
  BY <1>2, <1>3, <1>4, <1>5, <1>6, <1>7, <1>8, <1>9, <1>10, <1>11, <1>22 DEF Eight, Ten
<1>24. /\ Eight(raw, 8 * m + 2) = 128 * b2 + 64 * b3 + 32 * b4 + 16 * b5 + 8 * b6 + 4 * b7
                                + 2 * b8 + b9
       /\ Ten(raw, 8 * m + 2) = 512 * b2 + 256 * b3 + 128 * b4 + 64 * b5 + 32 * b6 + 16 * b7
                              + 8 * b8 + 4 * b9 + 2 * b10 + b11
  BY <1>4, <1>5, <1>6, <1>7, <1>8, <1>9, <1>10, <1>11, <1>12, <1>13, <1>22 DEF Eight, Ten
<1>25. /\ Eight(raw, 8 * m + 4) = 128 * b4 + 64 * b5 + 32 * b6 + 16 * b7 + 8 * b8 + 4 * b9
                                + 2 * b10 + b11
       /\ Ten(raw, 8 * m + 4) = 512 * b4 + 256 * b5 + 128 * b6 + 64 * b7 + 32 * b8 + 16 * b9
                              + 8 * b10 + 4 * b11 + 2 * b12 + b13
  BY <1>6, <1>7, <1>8, <1>9, <1>10, <1>11, <1>12, <1>13, <1>14, <1>15, <1>22 DEF Eight, Ten
<1>26. /\ Eight(raw, 8 * m + 6) = 128 * b6 + 64 * b7 + 32 * b8 + 16 * b9 + 8 * b10 + 4 * b11
                                + 2 * b12 + b13
       /\ Ten(raw, 8 * m + 6) = 512 * b6 + 256 * b7 + 128 * b8 + 64 * b9 + 32 * b10 + 16 * b11
                              + 8 * b12 + 4 * b13 + 2 * b14 + b15
  BY <1>8, <1>9, <1>10, <1>11, <1>12, <1>13, <1>14, <1>15, <1>16, <1>17, <1>22 DEF Eight, Ten
<1> DEFINE weight(k) == 2^k
           ten(k) == Ten(raw, 8 * m + k)
           eight(k) == Eight(raw, 8 * m + k)
<1>27. /\ weight(0) = 1 /\ weight(2) = 4 /\ weight(4) = 16 /\ weight(6) = 64 /\ weight(8) = 256
  OBVIOUS
<1>28. /\ (buffer \div weight(6)) % 1024 = ten(0)
       /\ (buffer \div weight(8)) % 256 = eight(0)
  BY <1>21, <1>23, <1>27 DEF Fields
<1>29. /\ (buffer \div weight(4)) % 1024 = ten(2)
       /\ (buffer \div weight(6)) % 256 = eight(2)
  BY <1>21, <1>24, <1>27 DEF Fields
<1>30. /\ (buffer \div weight(2)) % 1024 = ten(4)
       /\ (buffer \div weight(4)) % 256 = eight(4)
  BY <1>21, <1>25, <1>27 DEF Fields
<1>31. /\ (buffer \div weight(0)) % 1024 = ten(6)
       /\ (buffer \div weight(2)) % 256 = eight(6)
  BY <1>21, <1>26, <1>27 DEF Fields
<1> HIDE DEF weight, ten, eight
<1>32. /\ (buffer \div weight(6 - 2 * c)) % 1024 = ten(2 * c)
       /\ (buffer \div weight(8 - 2 * c)) % 256 = eight(2 * c)
  <2>1. c \in {0, 1, 2, 3}
    OBVIOUS
  <2>2. QED
    BY <1>28, <1>29, <1>30, <1>31, <2>1
<1>33. QED
  BY <1>32 DEF weight, ten, eight, CutOut

\* How things are when element i, four to five bytes, has been read into the buffer:
\* the last three bytes are in it, of the first two there are only these.
ByteBefore(raw, src) == IF src = 2 THEN 0 ELSE raw[src - 3]
HeldAt(raw, src) == ByteBefore(raw, src) * 65536 + raw[src - 2] * 256 + raw[src - 1]
SourceAt(i) == 5 * (i \div 4) + (i % 4) + 2
AfterElement(raw, i) ==
  [buffer |-> HeldAt(raw, SourceAt(i)), bitsIn |-> 16 - 2 * (i % 4), src |-> SourceAt(i)]

\* Shifting in a byte drops the first of the last three.
LEMMA ByteShiftedIn ==
  ASSUME NEW size \in Nat, NEW raw \in Frames(size), NEW src \in 2 .. size - 1
  PROVE  (HeldAt(raw, src) % 65536) * 256 + raw[src] = HeldAt(raw, src + 1)
<1>1. src - 2 \in 0 .. size - 1 /\ src - 1 \in 0 .. size - 1 /\ src \in 0 .. size - 1
  OBVIOUS
<1>2. PICK x \in Bytes : x = raw[src - 2]
  BY <1>1 DEF Frames
<1>3. PICK y \in Bytes : y = raw[src - 1]
  BY <1>1 DEF Frames
<1>4. PICK z \in Bytes : z = raw[src]
  BY <1>1 DEF Frames
<1>5. PICK h \in Nat : h = ByteBefore(raw, src)
  <2>1. ASSUME src # 2 PROVE raw[src - 3] \in Bytes
    <3>1. src - 3 \in 0 .. size - 1
      BY <2>1
    <3>2. QED
      BY <3>1 DEF Frames
  <2>2. QED
    BY <2>1 DEF ByteBefore, Bytes
<1>6. HeldAt(raw, src) = h * 65536 + x * 256 + y
  BY <1>2, <1>3, <1>5, SMT DEF HeldAt
<1>7. (h * 65536 + x * 256 + y) % 65536 = x * 256 + y
  BY SMT DEF Bytes
<1>8. ByteBefore(raw, src + 1) = x /\ (src + 1) - 2 = src - 1 /\ (src + 1) - 1 = src
  <2>1. src + 1 # 2 /\ (src + 1) - 3 = src - 2 /\ (src + 1) - 2 = src - 1 /\ (src + 1) - 1 = src
    OBVIOUS
  <2>2. QED
    BY <1>2, <2>1 DEF ByteBefore
<1>9. HeldAt(raw, src + 1) = x * 65536 + y * 256 + z
  BY <1>3, <1>4, <1>8, SMT DEF HeldAt
<1>10. (x * 256 + y) * 256 + z = x * 65536 + y * 256 + z
  BY SMT DEF Bytes
<1>11. QED
  BY <1>4, <1>6, <1>7, <1>9, <1>10, SMT

\* The bytes of each element lie in the frame.
LEMMA SourceThere ==
  ASSUME NEW size \in Nat, NEW n \in Nat, 10 * n <= 8 * size, NEW i \in 0 .. n - 1
  PROVE  /\ SourceAt(i) \in 2 .. size /\ i % 4 \in 0 .. 3
         /\ i = 4 * (i \div 4) + (i % 4) /\ i \div 4 \in Nat
<1>1. i % 4 \in 0 .. 3 /\ i = 4 * (i \div 4) + (i % 4) /\ i \div 4 \in Nat
  OBVIOUS
<1>2. \A q \in Nat, c \in 0 .. 3 : 10 * (4 * q + c + 1) <= 8 * size => 5 * q + c + 2 <= size
  OBVIOUS
<1>3. 10 * (i + 1) <= 8 * size
  OBVIOUS
<1>4. QED
  BY <1>1, <1>2, <1>3 DEF SourceAt

\* The first element is read with two bytes, ...
LEMMA FirstElement ==
  ASSUME NEW size \in Nat, NEW raw \in Frames(size), 10 <= 8 * size
  PROVE  Fill([buffer |-> 0, bitsIn |-> 0, src |-> 0], raw, 10) = AfterElement(raw, 0)
<1>1. raw[0] \in 0 .. 255 /\ raw[1] \in 0 .. 255
  <2>1. 0 \in 0 .. size - 1 /\ 1 \in 0 .. size - 1
    OBVIOUS
  <2>2. QED
    BY <2>1 DEF Frames, Bytes
<1> DEFINE st0 == [buffer |-> 0, bitsIn |-> 0, src |-> 0]
           st1 == [buffer |-> raw[0], bitsIn |-> 8, src |-> 1]
           st2 == [buffer |-> raw[0] * 256 + raw[1], bitsIn |-> 16, src |-> 2]
<1>2. ShiftIn(st0, raw) = st1
  BY <1>1 DEF ShiftIn
<1>3. ShiftIn(st1, raw) = st2
  BY <1>1 DEF ShiftIn
<1>4. Fill(st0, raw, 10) = st2
  BY <1>2, <1>3 DEF Fill
<1>5. SourceAt(0) = 2
  BY DEF SourceAt
<1>6. HeldAt(raw, 2) = raw[0] * 256 + raw[1]
  BY <1>1 DEF HeldAt, ByteBefore
<1>7. QED
  BY <1>4, <1>5, <1>6 DEF AfterElement

\* ... and each other one with one byte or two.
LEMMA NextElement ==
  ASSUME NEW size \in Nat, NEW raw \in Frames(size), NEW n \in Nat, 10 * n <= 8 * size,
         NEW i \in 1 .. n - 1, NEW before, before = AfterElement(raw, i - 1)
  PROVE  Fill([before EXCEPT !.bitsIn = before.bitsIn - 10], raw, 10) = AfterElement(raw, i)
<1> DEFINE src == SourceAt(i - 1)
           left == 6 - 2 * ((i - 1) % 4)
           st == [before EXCEPT !.bitsIn = before.bitsIn - 10]
           now(k) == [buffer |-> HeldAt(raw, src + k), bitsIn |-> left + 8 * k, src |-> src + k]
<1>1. i - 1 \in 0 .. n - 1 /\ i \in 0 .. n - 1
  OBVIOUS
<1>2. src \in 2 .. size /\ (i - 1) % 4 \in 0 .. 3 /\ SourceAt(i) \in 2 .. size
  BY <1>1, SourceThere
<1>3. st = [buffer |-> HeldAt(raw, src), bitsIn |-> left, src |-> src]
  BY <1>2 DEF AfterElement
<1>4. /\ (i - 1) % 4 # 3 => SourceAt(i) = src + 1 /\ i % 4 = ((i - 1) % 4) + 1
      /\ (i - 1) % 4 = 3 => SourceAt(i) = src + 2 /\ i % 4 = 0
  BY DEF SourceAt
<1> HIDE DEF src, left, st
<1>5. ASSUME NEW k \in 0 .. 1, src + k \in 2 .. size - 1
      PROVE  ShiftIn(now(k), raw) = now(k + 1)
  <2>1. (HeldAt(raw, src + k) % 65536) * 256 + raw[src + k] = HeldAt(raw, src + k + 1)
    BY <1>5, ByteShiftedIn
  <2>2. left + 8 * k + 8 = left + 8 * (k + 1) /\ src + k + 1 = src + (k + 1)
    BY <1>2 DEF left
  <2>3. QED
    BY <2>1, <2>2 DEF ShiftIn
<1>6. left \in {6, 4, 2, 0}
  BY <1>2 DEF left
<1>7. st = now(0)
  BY <1>2, <1>3, <1>6
<1>8. CASE (i - 1) % 4 # 3
  <2>1. ShiftIn(now(0), raw) = now(1)
    BY <1>2, <1>4, <1>5, <1>8
  <2>2. now(0).bitsIn < 10 /\ ~(now(1).bitsIn < 10)
    BY <1>2, <1>6, <1>8 DEF left
  <2> HIDE DEF now
  <2>3. Fill(st, raw, 10) = now(1)
    BY <1>7, <2>1, <2>2 DEF Fill
  <2>4. now(1) = AfterElement(raw, i)
    BY <1>2, <1>4, <1>8 DEF now, AfterElement, left
  <2>5. QED
    BY <2>3, <2>4 DEF st
<1>9. CASE (i - 1) % 4 = 3
  <2>1. ShiftIn(now(0), raw) = now(1) /\ ShiftIn(now(1), raw) = now(2)
    BY <1>2, <1>4, <1>5, <1>9
  <2>2. now(0).bitsIn < 10 /\ now(1).bitsIn < 10
    BY <1>2, <1>6, <1>9 DEF left
  <2> HIDE DEF now
  <2>3. Fill(st, raw, 10) = now(2)
    BY <1>7, <2>1, <2>2 DEF Fill
  <2>4. now(2) = AfterElement(raw, i)
    BY <1>2, <1>4, <1>9 DEF now, AfterElement, left
  <2>5. QED
    BY <2>3, <2>4 DEF st
<1>10. QED
  BY <1>8, <1>9

\* The outer loop: after every element things are as AfterElement says.
LEMMA ElementsFollow ==
  ASSUME NEW size \in Nat, NEW raw \in Frames(size), NEW n \in Nat, 10 * n <= 8 * size,
         NEW i \in 0 .. n - 1
  PROVE  Elements(raw, 10, n)[i] = AfterElement(raw, i)
<1> DEFINE st0 == [buffer |-> 0, bitsIn |-> 0, src |-> 0]
           step(h, k) == Fill(IF k = 0 THEN st0
                              ELSE [h[k - 1] EXCEPT !.bitsIn = h[k - 1].bitsIn - 10], raw, 10)
           E(h) == [k \in 0 .. n - 1 |-> step(h, k)]
           element == CHOOSE h : h = E(h)
           g == [k \in 0 .. n - 1 |-> AfterElement(raw, k)]
<1>1. Elements(raw, 10, n) = element
  BY DEF Elements
<1>2. \A k \in 0 .. n - 1 : g[k] = step(g, k)
  <2> TAKE k \in 0 .. n - 1
  <2>1. CASE k = 0
    <3>1. 10 <= 8 * size
      OBVIOUS
    <3>2. Fill(st0, raw, 10) = AfterElement(raw, 0)
      BY <3>1, FirstElement
    <3>3. QED
      BY <2>1, <3>2
  <2>2. CASE k # 0
    <3>1. k \in 1 .. n - 1 /\ k - 1 \in 0 .. n - 1
      BY <2>2
    <3>2. g[k - 1] = AfterElement(raw, k - 1)
      BY <3>1
    <3> HIDE DEF g
    <3>3. Fill([g[k - 1] EXCEPT !.bitsIn = g[k - 1].bitsIn - 10], raw, 10) = AfterElement(raw, k)
      BY <3>1, <3>2, NextElement
    <3>4. QED
      BY <2>2, <3>3 DEF g
  <2>3. QED
    BY <2>1, <2>2
<1>3. g = E(g)
  <2>1. g = [k \in 0 .. n - 1 |-> g[k]]
    OBVIOUS
  <2> HIDE DEF g, step
  <2>2. QED
    BY <1>2, <2>1, Zenon
<1>4. element = E(element)
  <2> HIDE DEF g, step
  <2>1. QED
    BY <1>3
<1>5. \A k \in 0 .. n - 1 : element[k] = step(element, k)
  <2> HIDE DEF element, step
  <2>1. QED
    BY <1>4
<1>6. GoOnTheSame(element, g, n - 1)
  <2> HIDE DEF element, g
  <2>1. element[0] = g[0]
    <3>1. 0 \in 0 .. n - 1
      OBVIOUS
    <3>2. QED
      BY <1>2, <1>5, <3>1
  <2>2. ASSUME NEW k \in 1 .. n - 1, element[k - 1] = g[k - 1] PROVE element[k] = g[k]
    <3>1. k \in 0 .. n - 1 /\ k # 0
      OBVIOUS
    <3>2. step(element, k) = step(g, k)
      BY <2>2, <3>1
    <3> HIDE DEF step
    <3>3. QED
      BY <1>2, <1>5, <3>1, <3>2
  <2>3. QED
    BY <2>1, <2>2 DEF GoOnTheSame
<1> HIDE DEF element
<1>7. element[i] = g[i]
  <2> HIDE DEF g
  <2>1. n - 1 \in Nat
    OBVIOUS
  <2>2. QED
    BY <1>6, <2>1, SameRecursion
<1>8. QED
  BY <1>1, <1>7

\* convert_packed_to_16bit() and convert_packed_to_8bit(): element i is the ten bits
\* from 10 * i on, or the first eight of them.
LEMMA TenBitPixels ==
  ASSUME NEW size \in Nat, NEW raw \in Frames(size), NEW n \in Nat, 10 * n <= 8 * size,
         NEW i \in 0 .. n - 1
  PROVE  /\ MadeOf(PackedTo16(raw, 10, n)[i], raw, 10 * i, 10)
         /\ MadeOf(PackedTo8(raw, 10, n)[i], raw, 10 * i, 8)
<1> DEFINE c == i % 4
           m == 5 * (i \div 4) + c
           st == AfterElement(raw, i)
           shift == st.bitsIn
<1>1. /\ c \in 0 .. 3 /\ m \in Nat /\ m + 2 \in 2 .. size
      /\ SourceAt(i) = m + 2 /\ 8 * m + 2 * c = 10 * i
  BY SourceThere DEF SourceAt
<1>2. st.bitsIn - 10 = 6 - 2 * c /\ st.bitsIn - 8 = 8 - 2 * c /\ st.buffer = HeldAt(raw, m + 2)
  BY <1>1 DEF AfterElement
<1> HIDE DEF st, c, m
<1>3. Elements(raw, 10, n)[i] = st
  BY ElementsFollow DEF st
<1>4. /\ PackedTo16(raw, 10, n)[i] = (st.buffer \div 2^(st.bitsIn - 10)) % 2^10
      /\ PackedTo8(raw, 10, n)[i] = (st.buffer \div 2^(st.bitsIn - 8)) % 256
  BY <1>3 DEF PackedTo16, PackedTo8
<1>5. PICK h \in Nat : h = ByteBefore(raw, m + 2)
  <2>1. ASSUME m # 0 PROVE raw[m - 1] \in Bytes
    <3>1. m - 1 \in 0 .. size - 1
      BY <1>1, <2>1
    <3>2. QED
      BY <3>1 DEF Frames
  <2>2. (m + 2 = 2 <=> m = 0) /\ (m + 2) - 3 = m - 1
    BY <1>1
  <2>3. QED
    BY <2>1, <2>2 DEF ByteBefore, Bytes
<1>6. Holds(st.buffer, h, raw[m], raw[m + 1])
  <2>1. (m + 2) - 2 = m /\ (m + 2) - 1 = m + 1
    BY <1>1
  <2>2. QED
    BY <1>2, <1>5, <2>1 DEF Holds, HeldAt
<1>7. CutOut(st.buffer, raw, m, c)
  <2>1. m + 1 < size
    BY <1>1
  <2>2. QED
    BY <1>1, <1>6, <2>1, TenOfTwoBytes
<1>8. 2^10 = 1024
  OBVIOUS
<1>9. PackedTo16(raw, 10, n)[i] = Ten(raw, 10 * i) /\ PackedTo8(raw, 10, n)[i] = Eight(raw, 10 * i)
  BY <1>1, <1>2, <1>4, <1>7, <1>8 DEF CutOut
<1>10. \A k \in 0 .. 9 : Bit(raw, 10 * i + k) \in 0 .. 1
  <2>1. \A k \in 0 .. 9 : 10 * i + k \in 0 .. 8 * size - 1
    OBVIOUS
  <2>2. QED
    BY <2>1, BitIsDigit
<1>11. 10 * i \in Nat
  OBVIOUS
<1>12. QED
  BY <1>9, <1>10, <1>11, TenBits, EightBits

-----------------------------------------------------------------------------
(* Bayer pictures. *)

\* The shift buffer at a column: the neighbours, mirrored at the border.
Neighbours(line, x) == <<line[Mirror(x - 1, W)], line[x], line[Mirror(x + 1, W)]>>

\* The shift buffers of convert_bayer_to_rgb() hold a column and its neighbours.
LEMMA ShiftBufferFollows ==
  ASSUME NEW line, NEW x \in 0 .. W - 1
  PROVE  ShiftBuffer(line)[x] = Neighbours(line, x)
<1> DEFINE step(h, k) == IF k = 0 THEN <<line[1], line[0], line[1]>>
                         ELSE <<h[k-1][2], h[k-1][3], IF k < W - 1 THEN line[k+1] ELSE h[k-1][2]>>
           E(h) == [k \in 0 .. W - 1 |-> step(h, k)]
           buf == CHOOSE h : h = E(h)
           g == [k \in 0 .. W - 1 |-> Neighbours(line, k)]
<1>0. W \in Nat /\ W > 1
  BY ConversionsAssumption
<1>1. ShiftBuffer(line) = buf
  BY DEF ShiftBuffer
<1>2. \A k \in 0 .. W - 1 : g[k] = step(g, k)
  <2> TAKE k \in 0 .. W - 1
  <2>1. CASE k = 0
    <3>1. Mirror(k - 1, W) = 1 /\ Mirror(k + 1, W) = 1
      BY <1>0, <2>1 DEF Mirror
    <3>2. QED
      BY <2>1, <3>1 DEF Neighbours
  <2>2. CASE k # 0
    <3>1. k - 1 \in 0 .. W - 1 /\ k - 1 + 1 = k
      BY <1>0, <2>2
    <3>2. g[k-1] = <<line[Mirror(k - 1 - 1, W)], line[k-1], line[Mirror(k - 1 + 1, W)]>>
      BY <3>1 DEF Neighbours
    <3>3. /\ Mirror(k, W) = k /\ Mirror(k - 1, W) = k - 1
          /\ Mirror(k + 1, W) = IF k < W - 1 THEN k + 1 ELSE k - 1
      BY <1>0, <2>2 DEF Mirror
    <3> HIDE DEF g
    <3>4. g[k-1][2] = line[k-1] /\ g[k-1][3] = line[k]
      BY <3>1, <3>2, <3>3
    <3>5. g[k] = Neighbours(line, k)
      BY DEF g
    <3>6. step(g, k) = <<line[k-1], line[k], IF k < W - 1 THEN line[k+1] ELSE line[k-1]>>
      BY <2>2, <3>4
    <3>7. QED
      BY <3>3, <3>5, <3>6 DEF Neighbours
  <2>3. QED
    BY <2>1, <2>2
<1>3. g = E(g)
  <2>1. g = [k \in 0 .. W - 1 |-> g[k]]
    OBVIOUS
  <2> HIDE DEF g, step
  <2>2. QED
    BY <1>2, <2>1, Zenon
<1>4. buf = E(buf)
  <2> HIDE DEF g, step
  <2>1. QED
    BY <1>3
<1>5. \A k \in 0 .. W - 1 : buf[k] = step(buf, k)
  <2> HIDE DEF buf, step
  <2>1. QED
    BY <1>4
<1>6. GoOnTheSame(buf, g, W - 1)
  <2> HIDE DEF buf, g
  <2>1. buf[0] = g[0]
    <3>1. 0 \in 0 .. W - 1
      BY <1>0
    <3>2. QED
      BY <1>2, <1>5, <3>1
  <2>2. ASSUME NEW k \in 1 .. W - 1, buf[k - 1] = g[k - 1] PROVE buf[k] = g[k]
    <3>1. k \in 0 .. W - 1 /\ k # 0
      BY <1>0
    <3>2. step(buf, k) = step(g, k)
      BY <2>2, <3>1
    <3> HIDE DEF step
    <3>3. QED
      BY <1>2, <1>5, <3>1, <3>2
  <2>3. QED
    BY <2>1, <2>2 DEF GoOnTheSame
<1> HIDE DEF buf
<1>7. buf[x] = g[x]
  <2> HIDE DEF g
  <2>1. W - 1 \in Nat
    BY <1>0
  <2>2. QED
    BY <1>6, <2>1, SameRecursion
<1>8. QED
  BY <1>1, <1>7

\* The lines above and below are those of the mirrored picture.
LEMMA LinesAreMirrored ==
  ASSUME NEW y \in 0 .. H - 1
  PROVE  PrevLine(y) = Mirror(y - 1, H) /\ NextLine(y) = Mirror(y + 1, H)
BY ConversionsAssumption DEF PrevLine, NextLine, Mirror

\* A mirrored place is inside the picture.
LEMMA MirrorInside ==
  ASSUME NEW n \in Nat \ {0, 1}, NEW i \in -1 .. n
  PROVE  Mirror(i, n) \in 0 .. n - 1
BY DEF Mirror

\* A mean of two, rounded down ...
LEMMA MeanOfTwo ==
  ASSUME NEW a \in Nat, NEW b \in Nat
  PROVE  Avg(a, b) \in Nat /\ Avg(a, b) = (a + b) \div 2 /\ 2 * Avg(a, b) \in {a + b, a + b - 1}
BY DEF Avg

\* ... and of two such means: at most one smaller than the mean of four.
LEMMA MeanOfFour ==
  ASSUME NEW a \in Nat, NEW b \in Nat, NEW c \in Nat, NEW d \in Nat
  PROVE  /\ a + b + c + d - 4 <= 4 * Avg(Avg(a, b), Avg(c, d))
         /\ 4 * Avg(Avg(a, b), Avg(c, d)) <= a + b + c + d
<1>1. PICK m \in Nat : m = Avg(a, b) /\ 2 * m \in {a + b, a + b - 1}
  BY MeanOfTwo
<1>2. PICK n \in Nat : n = Avg(c, d) /\ 2 * n \in {c + d, c + d - 1}
  BY MeanOfTwo
<1>3. PICK p \in Nat : p = Avg(m, n) /\ 2 * p \in {m + n, m + n - 1}
  BY MeanOfTwo
<1>4. QED
  BY <1>1, <1>2, <1>3

\* The value at a place of the mirrored picture.
Around(raw, x, y, dx, dy) == raw[Mirror(y + dy, H) * W + Mirror(x + dx, W)]

\* ... is a byte of the frame.
LEMMA AroundIsByte ==
  ASSUME NEW raw \in Frames(W * H), NEW x \in 0 .. W - 1, NEW y \in 0 .. H - 1,
         NEW dx \in -1 .. 1, NEW dy \in -1 .. 1
  PROVE  Around(raw, x, y, dx, dy) \in Nat
<1>1. W \in Nat \ {0, 1} /\ H \in Nat \ {0, 1} /\ x + dx \in -1 .. W /\ y + dy \in -1 .. H
  BY ConversionsAssumption
<1>2. PICK mx \in 0 .. W - 1 : mx = Mirror(x + dx, W)
  BY <1>1, MirrorInside
<1>3. PICK my \in 0 .. H - 1 : my = Mirror(y + dy, H)
  BY <1>1, MirrorInside
<1>4. my * W + mx \in 0 .. W * H - 1
  <2>1. my * W <= (H - 1) * W /\ my * W \in Nat
    BY <1>1
  <2>2. (H - 1) * W + W = W * H
    BY <1>1
  <2>3. (H - 1) * W \in Int /\ W * H \in Int
    BY <1>1
  <2>4. QED
    BY <1>1, <2>1, <2>2, <2>3
<1>5. raw[my * W + mx] \in Nat
  <2>1. raw[my * W + mx] \in Bytes
    BY <1>4 DEF Frames
  <2>2. QED
    BY <2>1 DEF Bytes
<1>6. QED
  BY <1>2, <1>3, <1>5 DEF Around

\* What the two shift buffers hold at a pixel.
LEMMA PixelSurroundings ==
  ASSUME NEW raw \in Frames(W * H), NEW x \in 0 .. W - 1, NEW y \in 0 .. H - 1,
         NEW i, i \in 0 .. W * H - 1, i % W = x, i \div W = y
  PROVE  BayerToRgb(raw)[i] =
           BayerPixel(<<Around(raw, x, y, -1, 0), Around(raw, x, y, 0, 0),
                        Around(raw, x, y, 1, 0)>>,
                      <<Avg(Around(raw, x, y, -1, -1), Around(raw, x, y, -1, 1)),
                        Avg(Around(raw, x, y, 0, -1), Around(raw, x, y, 0, 1)),
                        Avg(Around(raw, x, y, 1, -1), Around(raw, x, y, 1, 1))>>,
                      y % 2 = 1, x % 2 = 1)
<1> DEFINE line(r) == [k \in 0 .. W - 1 |-> raw[r * W + k]]
           mean(r) == [k \in 0 .. W - 1 |-> Avg(line(PrevLine(r))[k], line(NextLine(r))[k])]
           hVals == [r \in 0 .. H - 1 |-> ShiftBuffer(line(r))]
           vSums == [r \in 0 .. H - 1 |-> ShiftBuffer(mean(r))]
           pixel(j) == BayerPixel(hVals[j \div W][j % W], vSums[j \div W][j % W],
                                  (j \div W) % 2 = 1, (j % W) % 2 = 1)
<1>1. BayerToRgb(raw) = [j \in 0 .. W * H - 1 |-> pixel(j)]
  BY DEF BayerToRgb
<1>2. BayerToRgb(raw)[i] = pixel(i)
  <2> HIDE DEF pixel
  <2>1. QED
    BY <1>1
<1>3. pixel(i) = BayerPixel(hVals[y][x], vSums[y][x], y % 2 = 1, x % 2 = 1)
  OBVIOUS
<1>4. /\ Mirror(x, W) = x /\ Mirror(y, H) = y /\ x + 0 = x /\ y + 0 = y
      /\ x - 1 = x + -1 /\ y - 1 = y + -1
  BY ConversionsAssumption DEF Mirror
<1>5. /\ Mirror(x - 1, W) \in 0 .. W - 1 /\ Mirror(x + 1, W) \in 0 .. W - 1
      /\ W \in Nat \ {0, 1} /\ H \in Nat \ {0, 1}
  BY ConversionsAssumption, MirrorInside
<1>6. hVals[y][x] = Neighbours(line(y), x) /\ vSums[y][x] = Neighbours(mean(y), x)
  <2>1. hVals[y] = ShiftBuffer(line(y)) /\ vSums[y] = ShiftBuffer(mean(y))
    OBVIOUS
  <2> HIDE DEF line, mean, hVals, vSums
  <2>2. QED
    BY <2>1, ShiftBufferFollows
<1>7. Neighbours(line(y), x) =
        <<Around(raw, x, y, -1, 0), Around(raw, x, y, 0, 0), Around(raw, x, y, 1, 0)>>
  <2>1. \A k \in 0 .. W - 1 : line(y)[k] = raw[y * W + k]
    OBVIOUS
  <2> HIDE DEF line
  <2>2. QED
    BY <1>4, <1>5, <2>1 DEF Neighbours, Around
<1>8. Neighbours(mean(y), x) =
        <<Avg(Around(raw, x, y, -1, -1), Around(raw, x, y, -1, 1)),
          Avg(Around(raw, x, y, 0, -1), Around(raw, x, y, 0, 1)),
          Avg(Around(raw, x, y, 1, -1), Around(raw, x, y, 1, 1))>>
  <2>1. \A r, k : k \in 0 .. W - 1 => line(r)[k] = raw[r * W + k]
    OBVIOUS
  <2>2. \A k \in 0 .. W - 1 : mean(y)[k] = Avg(line(PrevLine(y))[k], line(NextLine(y))[k])
    OBVIOUS
  <2> HIDE DEF line, mean
  <2>3. \A k \in 0 .. W - 1 :
          mean(y)[k] = Avg(raw[Mirror(y + -1, H) * W + k], raw[Mirror(y + 1, H) * W + k])
    BY <1>4, <2>1, <2>2, LinesAreMirrored
  <2>4. QED
    BY <1>4, <1>5, <2>3 DEF Neighbours, Around
<1>9. QED
  BY <1>2, <1>3, <1>6, <1>7, <1>8

\* convert_bayer_to_rgb() gives every pixel the colours of its place in the pattern.
LEMMA ColoursAreRight ==
  ASSUME pic.fmt = "RGB" => pic.raw \in Frames(W * H) /\ pic.out = BayerToRgb(pic.raw)
  PROVE  BayerRight
<1> SUFFICES ASSUME pic.fmt = "RGB", NEW i \in DOMAIN pic.out
             PROVE  LET x == i % W
                        y == i \div W
                        at(dx, dy) == pic.raw[Mirror(y + dy, H) * W + Mirror(x + dx, W)]
                        across == at(-1, 0) + at(1, 0)
                        updown == at(0, -1) + at(0, 1)
                        diag == at(-1, -1) + at(1, -1) + at(-1, 1) + at(1, 1)
                        Two(c, s) == c = s \div 2
                        Four(c, s) == s - 4 <= 4 * c /\ 4 * c <= s
                        own == IF y % 2 = 0 THEN pic.out[i][1] ELSE pic.out[i][3]
                        other == IF y % 2 = 0 THEN pic.out[i][3] ELSE pic.out[i][1]
                    IN  IF (x + y) % 2 = 0
                        THEN pic.out[i][2] = at(0, 0) /\ Two(own, across) /\ Two(other, updown)
                        ELSE own = at(0, 0) /\ Four(pic.out[i][2], across + updown) /\ Four(other, diag)
  BY Zenon DEF BayerRight
<1> DEFINE raw == pic.raw
<1>1. raw \in Frames(W * H) /\ pic.out = BayerToRgb(raw) /\ i \in 0 .. W * H - 1
  BY DEF BayerToRgb
<1>2. W \in Nat \ {0, 1} /\ H \in Nat \ {0, 1}
  BY ConversionsAssumption
<1> HIDE DEF raw
<1>3. PICK x \in 0 .. W - 1 : x = i % W
  BY <1>1, <1>2
<1>4. PICK y \in 0 .. H - 1 : y = i \div W
  <2>1. i \in Nat /\ i < W * H
    BY <1>1, <1>2
  <2>2. i \div W \in Nat /\ i = W * (i \div W) + (i % W) /\ i % W \in 0 .. W - 1
    BY <1>2, <2>1
  <2>3. i \div W < H
    <3> SUFFICES ASSUME H <= i \div W  PROVE FALSE
      BY <1>2, <2>2
    <3>1. PICK q \in Nat : q = i \div W
      BY <2>2
    <3>2. PICK more \in Nat : q = H + more
      <4>1. q - H \in Nat /\ q = H + (q - H)
        BY <1>2, <3>1
      <4>2. QED
        BY <4>1
    <3>3. W * q = W * H + W * more
      BY <1>2, <3>2
    <3>4. W * more \in Nat /\ W * H \in Nat
      BY <1>2
    <3>5. i = W * q + (i % W) /\ i % W \in Nat
      BY <2>2, <3>1
    <3>6. W * H \in Nat => \A a \in Nat, b \in Nat : ~(W * H + a + b < W * H)
      OBVIOUS
    <3>7. i = W * H + W * more + (i % W)
      BY <3>3, <3>5
    <3>8. QED
      BY <2>1, <3>4, <3>5, <3>6, <3>7
  <2>4. QED
    BY <1>2, <2>2, <2>3
<1>5. \A dx \in -1 .. 1, dy \in -1 .. 1 : Around(raw, x, y, dx, dy) \in Nat
  BY <1>1, AroundIsByte
<1>6. PICK a \in Nat : a = Around(raw, x, y, -1, -1)
  BY <1>5
<1>7. PICK b \in Nat : b = Around(raw, x, y, 0, -1)
  BY <1>5
<1>8. PICK c \in Nat : c = Around(raw, x, y, 1, -1)
  BY <1>5
<1>9. PICK d \in Nat : d = Around(raw, x, y, -1, 0)
  BY <1>5
<1>10. PICK e \in Nat : e = Around(raw, x, y, 0, 0)
  BY <1>5
<1>11. PICK f \in Nat : f = Around(raw, x, y, 1, 0)
  BY <1>5
<1>12. PICK g \in Nat : g = Around(raw, x, y, -1, 1)
  BY <1>5
<1>13. PICK h \in Nat : h = Around(raw, x, y, 0, 1)
  BY <1>5
<1>14. PICK j \in Nat : j = Around(raw, x, y, 1, 1)
  BY <1>5
<1>15. pic.out[i] = BayerPixel(<<d, e, f>>, <<Avg(a, g), Avg(b, h), Avg(c, j)>>,
                               y % 2 = 1, x % 2 = 1)
  BY <1>1, <1>3, <1>4, <1>6, <1>7, <1>8, <1>9, <1>10, <1>11, <1>12, <1>13, <1>14, PixelSurroundings
<1> DEFINE own == IF y % 2 = 0 THEN pic.out[i][1] ELSE pic.out[i][3]
           other == IF y % 2 = 0 THEN pic.out[i][3] ELSE pic.out[i][1]
<1>16. CASE (x + y) % 2 = 0
  <2>1. (y % 2 = 1 <=> x % 2 = 1) /\ (y % 2 = 0 <=> ~(y % 2 = 1))
    BY <1>16
  <2>2. pic.out[i][2] = e /\ own = Avg(d, f) /\ other = Avg(b, h)
    BY <1>15, <2>1 DEF BayerPixel
  <2>3. Avg(d, f) = (d + f) \div 2 /\ Avg(b, h) = (b + h) \div 2
    BY DEF Avg
  <2>4. QED
    BY <1>3, <1>4, <1>6, <1>7, <1>8, <1>9, <1>10, <1>11, <1>12, <1>13, <1>14, <1>16, <2>2, <2>3
       DEF Around, raw
<1>17. CASE ~((x + y) % 2 = 0)
  <2>1. (y % 2 = 1 <=> ~(x % 2 = 1)) /\ (y % 2 = 0 <=> ~(y % 2 = 1))
    BY <1>17
  <2>2. /\ pic.out[i][2] = Avg(Avg(d, f), Avg(b, h)) /\ own = e
        /\ other = Avg(Avg(a, g), Avg(c, j))
    BY <1>15, <2>1 DEF BayerPixel
  <2>3. /\ d + f + b + h - 4 <= 4 * Avg(Avg(d, f), Avg(b, h))
        /\ 4 * Avg(Avg(d, f), Avg(b, h)) <= d + f + b + h
    BY MeanOfFour
  <2>4. /\ a + g + c + j - 4 <= 4 * Avg(Avg(a, g), Avg(c, j))
        /\ 4 * Avg(Avg(a, g), Avg(c, j)) <= a + g + c + j
    BY MeanOfFour
  <2>5. d + f + b + h = (d + f) + (b + h) /\ a + g + c + j = a + c + g + j
    OBVIOUS
  <2>6. QED
    BY <1>3, <1>4, <1>6, <1>7, <1>8, <1>9, <1>10, <1>11, <1>12, <1>13, <1>14, <1>17, <2>2, <2>3, <2>4, <2>5
       DEF Around, raw
<1>18. QED
  BY <1>16, <1>17

-----------------------------------------------------------------------------
(* Colours from luminance and chrominance. *)

\* The whole number is within three of the exact one, in thousandths.
Close(x, exact) == exact - 3000 <= 1000 * x /\ 1000 * x <= exact + 3000
InRange(exact) == IF exact < 0 THEN 0 ELSE IF exact > 255000 THEN 255000 ELSE exact

\* C's quotient by 1000 is off by less than one.
LEMMA TruncationIsClose ==
  ASSUME NEW a \in Int
  PROVE  /\ TDiv(a, 1000) \in Int
         /\ a - 999 <= 1000 * TDiv(a, 1000) /\ 1000 * TDiv(a, 1000) <= a + 999
<1>1. CASE a >= 0
  <2>1. PICK q \in Int : q = a \div 1000
    OBVIOUS
  <2>2. 1000 * q <= a /\ a <= 1000 * q + 999
    BY <2>1
  <2>3. TDiv(a, 1000) = q
    BY <1>1, <2>1 DEF TDiv
  <2>4. QED
    BY <2>2, <2>3
<1>2. CASE a < 0
  <2>1. PICK q \in Int : q = (-a) \div 1000
    OBVIOUS
  <2>2. 1000 * q <= -a /\ -a <= 1000 * q + 999
    BY <2>1
  <2>3. TDiv(a, 1000) = -q
    BY <1>2, <2>1 DEF TDiv
  <2>4. QED
    BY <2>2, <2>3
<1>3. QED
  BY <1>1, <1>2

\* What is close stays close when both are brought into range.
LEMMA ClampingIsClose ==
  ASSUME NEW x \in Int, NEW e \in Int, Close(x, e)
  PROVE  Clamp255(x) \in 0 .. 255 /\ Close(Clamp255(x), InRange(e))
<1>1. 1000 * x <= e + 3000 /\ e <= 1000 * x + 3000
  BY SMT DEF Close
<1>2. PICK r \in Int : r = InRange(e) /\ 0 <= r /\ r <= 255000
  BY SMT DEF InRange
<1>3. CASE x < 0
  <2>1. Clamp255(x) = 0 /\ r <= 3000
    BY <1>1, <1>2, <1>3, SMT DEF Clamp255, InRange
  <2>2. QED
    BY <1>2, <2>1, SMT DEF Close
<1>4. CASE x > 255
  <2>1. Clamp255(x) = 255 /\ r >= 252000
    BY <1>1, <1>2, <1>4, SMT DEF Clamp255, InRange
  <2>2. QED
    BY <1>2, <2>1, SMT DEF Close
<1>5. CASE x \in 0 .. 255
  <2>1. Clamp255(x) = x
    BY <1>5, SMT DEF Clamp255
  <2>2. 1000 * x <= r + 3000 /\ r <= 1000 * x + 3000
    BY <1>1, <1>2, <1>5, SMT DEF InRange
  <2>3. QED
    BY <1>2, <1>5, <2>1, <2>2, SMT DEF Close
<1>6. QED
  BY <1>3, <1>4, <1>5, SMT

\* The bytes of a pixel lie in the frame.
LEMMA BytesOfPixel ==
  ASSUME NEW n \in Nat, n % 2 = 0, NEW raw \in Frames(2 * n), NEW p \in 0 .. n - 1,
         NEW at, at = 4 * (p \div 2)
  PROVE  raw[at] \in Int /\ raw[at + 2] \in Int /\ raw[at + 1 + 2 * (p % 2)] \in Int
<1>1. PICK half \in Nat : n = 2 * half
  <2>1. n \div 2 \in Nat /\ n = 2 * (n \div 2)
    OBVIOUS
  <2>2. QED
    BY <2>1
<1>2. PICK q \in Nat : q = p \div 2
  OBVIOUS
<1>3. PICK odd \in 0 .. 1 : odd = p % 2
  OBVIOUS
<1>4. p = 2 * q + odd
  BY <1>2, <1>3
<1>5. /\ at \in 0 .. 2 * n - 1 /\ at + 2 \in 0 .. 2 * n - 1
      /\ at + 1 + 2 * odd \in 0 .. 2 * n - 1
  BY <1>1, <1>2, <1>4
<1>6. raw[at] \in Bytes /\ raw[at + 2] \in Bytes /\ raw[at + 1 + 2 * odd] \in Bytes
  BY <1>5 DEF Frames
<1>7. QED
  BY <1>3, <1>6 DEF Bytes

\* What convert_uyvy_to_rgb() makes of luminance and chrominance, and the exact value.
Mixed(k, y, u, v) ==
  CASE k % 3 = 0 -> TDiv(y, 1000) + TDiv(v * 1596, 1000)
    [] k % 3 = 1 -> TDiv(y, 1000) - TDiv(v * 813, 1000) - TDiv(u * 391, 1000)
    [] OTHER -> TDiv(y, 1000) + TDiv(u * 2018, 1000)
Exact(k, y, u, v) ==
  CASE k % 3 = 0 -> y + v * 1596
    [] k % 3 = 1 -> y - v * 813 - u * 391
    [] OTHER -> y + u * 2018

\* Two or three quotients together are off by less than three.
LEMMA MixedIsClose ==
  ASSUME NEW k \in Nat, NEW y \in Int, NEW u \in Int, NEW v \in Int
  PROVE  /\ Mixed(k, y, u, v) \in Int /\ Exact(k, y, u, v) \in Int
         /\ Close(Mixed(k, y, u, v), Exact(k, y, u, v))
<1>1. PICK l \in Int : l = TDiv(y, 1000) /\ y - 999 <= 1000 * l /\ 1000 * l <= y + 999
  BY TruncationIsClose, SMT
<1>2. CASE k % 3 = 0
  <2>1. PICK b \in Int : b = v * 1596
    BY SMT
  <2>2. PICK s \in Int : s = TDiv(b, 1000) /\ b - 999 <= 1000 * s /\ 1000 * s <= b + 999
    BY TruncationIsClose, SMT
  <2>3. Mixed(k, y, u, v) = l + s /\ Exact(k, y, u, v) = y + b
    BY <1>1, <1>2, <2>1, <2>2, SMT DEF Mixed, Exact
  <2>4. QED
    BY <1>1, <2>2, <2>3, SMT DEF Close
<1>3. CASE k % 3 = 1
  <2>1. PICK b \in Int, c \in Int : b = v * 813 /\ c = u * 391
    BY SMT
  <2>2. PICK s \in Int : s = TDiv(b, 1000) /\ b - 999 <= 1000 * s /\ 1000 * s <= b + 999
    BY TruncationIsClose, SMT
  <2>3. PICK t \in Int : t = TDiv(c, 1000) /\ c - 999 <= 1000 * t /\ 1000 * t <= c + 999
    BY TruncationIsClose, SMT
  <2>4. Mixed(k, y, u, v) = l - s - t /\ Exact(k, y, u, v) = y - b - c
    BY <1>1, <1>3, <2>1, <2>2, <2>3, SMT DEF Mixed, Exact
  <2>5. QED
    BY <1>1, <2>2, <2>3, <2>4, SMT DEF Close
<1>4. CASE k % 3 \notin {0, 1}
  <2>1. PICK b \in Int : b = u * 2018
    BY SMT
  <2>2. PICK s \in Int : s = TDiv(b, 1000) /\ b - 999 <= 1000 * s /\ 1000 * s <= b + 999
    BY TruncationIsClose, SMT
  <2>3. Mixed(k, y, u, v) = l + s /\ Exact(k, y, u, v) = y + b
    BY <1>1, <1>4, <2>1, <2>2, SMT DEF Mixed, Exact
  <2>4. QED
    BY <1>1, <2>2, <2>3, SMT DEF Close
<1>5. QED
  BY <1>2, <1>3, <1>4, SMT

\* convert_uyvy_to_rgb() gives colours close to the exact ones.
LEMMA YuvFollows ==
  ASSUME pic.fmt = "YUV_RGB" =>
           \E n \in Nat : n % 2 = 0 /\ pic.raw \in Frames(2 * n) /\ pic.out = UyvyToRgb(pic.raw, n)
  PROVE  YuvRight
<1> DEFINE at(k) == 4 * (k \div 6)
           U(k) == pic.raw[at(k)] - 128
           V(k) == pic.raw[at(k) + 2] - 128
           Y(k) == (pic.raw[at(k) + 1 + 2 * ((k \div 3) % 2)] - 16) * 1164
           Right(k) == /\ pic.out[k] \in 0 .. 255
                       /\ Close(pic.out[k], InRange(Exact(k, Y(k), U(k), V(k))))
<1>1. (pic.fmt = "YUV_RGB" => \A k \in DOMAIN pic.out : Right(k)) => YuvRight
  BY SMT DEF YuvRight, Close, InRange, Exact
<1> SUFFICES ASSUME pic.fmt = "YUV_RGB", NEW k \in DOMAIN pic.out PROVE Right(k)
  <2> HIDE DEF Right
  <2>1. QED
    BY <1>1, SMT
<1>2. PICK n \in Nat : n % 2 = 0 /\ pic.raw \in Frames(2 * n) /\ pic.out = UyvyToRgb(pic.raw, n)
  BY SMT
<1>3. k \in 0 .. 3 * n - 1
  BY <1>2, SMT DEF UyvyToRgb
<1>4. PICK p \in 0 .. n - 1 : p = k \div 3
  BY <1>2, <1>3, SMT
<1>5. k \in Nat /\ at(k) = 4 * (p \div 2)
  BY <1>3, <1>4, SMT
<1> HIDE DEF at
<1>6. /\ pic.raw[at(k)] \in Int /\ pic.raw[at(k) + 2] \in Int
      /\ pic.raw[at(k) + 1 + 2 * (p % 2)] \in Int
  BY <1>2, <1>5, BytesOfPixel
<1>8. U(k) \in Int /\ V(k) \in Int /\ Y(k) \in Int
  BY <1>4, <1>6, SMT
<1>9. pic.out[k] = Clamp255(Mixed(k, Y(k), U(k), V(k)))
  BY <1>2, <1>3, <1>4, <1>5, SMT DEF UyvyToRgb, Mixed
<1> HIDE DEF U, V, Y
<1>10. /\ Mixed(k, Y(k), U(k), V(k)) \in Int /\ Exact(k, Y(k), U(k), V(k)) \in Int
       /\ Close(Mixed(k, Y(k), U(k), V(k)), Exact(k, Y(k), U(k), V(k)))
  BY <1>5, <1>8, MixedIsClose, Zenon
<1>11. QED
  BY <1>9, <1>10, ClampingIsClose, Zenon

-----------------------------------------------------------------------------
(* The pictures one after another. *)

\* The pictures of a camera whose frames hold any bytes, and those of the depth camera
\* any depths; the client maps colours to the depths it was given last.
Colours ==
  \/ \E raw \in Frames(W * H) : VideoFrame("RGB", raw, W * H)
  \/ \E n \in Nat : n % 2 = 0 /\ \E raw \in Frames(2 * n) : VideoFrame("YUV_RGB", raw, n)
\* Ten-bit pixels, as many as the frame has bits for.
Packed ==
  \E size \in Nat, n \in Nat : \E raw \in Frames(size) :
    /\ 10 * n <= 8 * size
    /\ \/ \E fmt \in {"IR_10BIT", "IR_8BIT"} : VideoFrame(fmt, raw, n)
       \/ DepthFrame("10BIT", raw, n)
\* Eleven-bit pixels, in groups of eight.
Unrolled ==
  \E n \in Nat : /\ n % 8 = 0
                 /\ \E raw \in Frames(11 * (n \div 8)) : DepthFrame("11BIT", raw, n)
\* The formats that are not converted.
AsTheyCame ==
  \E size \in Nat, n \in Nat : \E raw \in Frames(size) :
    \/ \E fmt \in {"BAYER", "YUV_RAW", "IR_10BIT_PACKED"} : VideoFrame(fmt, raw, n)
    \/ \E fmt \in {"11BIT_PACKED", "10BIT_PACKED"} : DepthFrame(fmt, raw, n)
Aligned ==
  \E fmt \in {"REGISTERED", "MM"}, raw \in PackedDepth, s \in Calibrations : AlignedFrame(fmt, raw, s)
Mapped == \E junk \in Int : MapRgbToDepth(junk)
\* A picture follows another one in any format: a client may change modes in between.
PicturesNext == Colours \/ Packed \/ Unrolled \/ AsTheyCame \/ Aligned \/ Mapped
PicturesSpec == pic = NoPic /\ [][PicturesNext]_pic

\* A picture was made of a frame of its format.
ConvertedInv ==
  /\ pic.fmt = "RGB" => pic.raw \in Frames(W * H) /\ pic.out = BayerToRgb(pic.raw)
  /\ pic.fmt = "YUV_RGB" =>
       \E n \in Nat : n % 2 = 0 /\ pic.raw \in Frames(2 * n) /\ pic.out = UyvyToRgb(pic.raw, n)
  /\ pic.fmt = "11BIT" =>
       \E n \in Nat : /\ n % 8 = 0 /\ pic.raw \in Frames(11 * (n \div 8))
                      /\ pic.out = Packed11To16(pic.raw, n)
  /\ pic.fmt \in {"10BIT", "IR_10BIT", "IR_8BIT"} =>
       \E size \in Nat, n \in Nat :
         /\ 10 * n <= 8 * size /\ pic.raw \in Frames(size)
         /\ pic.out = IF pic.fmt = "IR_8BIT" THEN PackedTo8(pic.raw, 10, n)
                      ELSE PackedTo16(pic.raw, 10, n)
\* The inductive invariant of the pictures.
PicturesInv == ConvertedInv /\ AlignedInv

\* Every pixel of an unpacked picture is its bits of the frame.
LEMMA UnpackFollows == ConvertedInv => UnpackExact
<1> SUFFICES ASSUME ConvertedInv, pic.fmt \in {"11BIT", "10BIT", "IR_10BIT", "IR_8BIT"},
                    NEW i \in DOMAIN pic.out
             PROVE  MadeOf(pic.out[i], pic.raw, i * (IF pic.fmt = "11BIT" THEN 11 ELSE 10),
                           IF pic.fmt = "IR_8BIT" THEN 8
                           ELSE IF pic.fmt = "11BIT" THEN 11 ELSE 10)
  BY Zenon DEF UnpackExact
<1>1. CASE pic.fmt = "11BIT"
  <2>1. PICK n \in Nat : /\ n % 8 = 0 /\ pic.raw \in Frames(11 * (n \div 8))
                         /\ pic.out = Packed11To16(pic.raw, n)
    BY <1>1 DEF ConvertedInv
  <2>2. i \in 0 .. n - 1
    BY <2>1 DEF Packed11To16
  <2>3. MadeOf(pic.out[i], pic.raw, 11 * i, 11)
    BY <2>1, <2>2, ElevenBitPixels
  <2>4. 11 * i = i * 11
    BY <2>2
  <2>5. QED
    BY <1>1, <2>3, <2>4
<1>2. CASE pic.fmt # "11BIT"
  <2>1. PICK size \in Nat, n \in Nat :
          /\ 10 * n <= 8 * size /\ pic.raw \in Frames(size)
          /\ pic.out = IF pic.fmt = "IR_8BIT" THEN PackedTo8(pic.raw, 10, n)
                       ELSE PackedTo16(pic.raw, 10, n)
    BY <1>2 DEF ConvertedInv
  <2>2. i \in 0 .. n - 1
    BY <2>1 DEF PackedTo8, PackedTo16
  <2>3. /\ MadeOf(PackedTo16(pic.raw, 10, n)[i], pic.raw, 10 * i, 10)
        /\ MadeOf(PackedTo8(pic.raw, 10, n)[i], pic.raw, 10 * i, 8)
    BY <2>1, <2>2, TenBitPixels
  <2>4. 10 * i = i * 10
    BY <2>2
  <2>5. QED
    BY <1>2, <2>1, <2>3, <2>4
<1>3. QED
  BY <1>1, <1>2

\* There is no picture at first, ...
LEMMA FirstPicture == pic = NoPic => PicturesInv
BY DEF NoPic, PicturesInv, ConvertedInv, AlignedInv

\* ... and each is made of its frame.
LEMMA NextPicture == PicturesInv /\ [PicturesNext]_pic => PicturesInv'
<1> SUFFICES ASSUME PicturesInv, [PicturesNext]_pic PROVE PicturesInv'
  OBVIOUS
<1>1. CASE Colours
  <2>1. CASE \E raw \in Frames(W * H) : VideoFrame("RGB", raw, W * H)
    <3>1. PICK raw \in Frames(W * H) : VideoFrame("RGB", raw, W * H)
      BY <2>1
    <3>2. pic' = [fmt |-> "RGB", raw |-> raw, out |-> BayerToRgb(raw)]
      BY <3>1 DEF VideoFrame
    <3>3. QED
      BY <3>2 DEF PicturesInv, ConvertedInv, AlignedInv
  <2>2. CASE \E n \in Nat : n % 2 = 0 /\ \E raw \in Frames(2 * n) : VideoFrame("YUV_RGB", raw, n)
    <3>1. PICK n \in Nat : n % 2 = 0 /\ \E raw \in Frames(2 * n) : VideoFrame("YUV_RGB", raw, n)
      BY <2>2
    <3>2. PICK raw \in Frames(2 * n) : VideoFrame("YUV_RGB", raw, n)
      BY <3>1
    <3>3. pic' = [fmt |-> "YUV_RGB", raw |-> raw, out |-> UyvyToRgb(raw, n)]
      BY <3>2 DEF VideoFrame
    <3>4. QED
      BY <3>1, <3>3 DEF PicturesInv, ConvertedInv, AlignedInv
  <2>3. QED
    BY <1>1, <2>1, <2>2 DEF Colours
<1>2. CASE Packed
  <2> DEFINE Made(raw, n) == \/ \E fmt \in {"IR_10BIT", "IR_8BIT"} : VideoFrame(fmt, raw, n)
                             \/ DepthFrame("10BIT", raw, n)
  <2>0. PICK size \in Nat, n \in Nat : \E raw \in Frames(size) : 10 * n <= 8 * size /\ Made(raw, n)
    BY <1>2 DEF Packed
  <2>1. PICK raw \in Frames(size) : 10 * n <= 8 * size /\ Made(raw, n)
    BY <2>0
  <2>2. PICK fmt \in {"10BIT", "IR_10BIT", "IR_8BIT"} :
          pic' = [fmt |-> fmt, raw |-> raw,
                  out |-> IF fmt = "IR_8BIT" THEN PackedTo8(raw, 10, n) ELSE PackedTo16(raw, 10, n)]
    BY <2>1 DEF VideoFrame, DepthFrame
  <2>3. QED
    BY <2>1, <2>2 DEF PicturesInv, ConvertedInv, AlignedInv
<1>3. CASE Unrolled
  <2>1. PICK n \in Nat :
          n % 8 = 0 /\ \E raw \in Frames(11 * (n \div 8)) : DepthFrame("11BIT", raw, n)
    BY <1>3 DEF Unrolled
  <2>2. PICK raw \in Frames(11 * (n \div 8)) : DepthFrame("11BIT", raw, n)
    BY <2>1
  <2>3. pic' = [fmt |-> "11BIT", raw |-> raw, out |-> Packed11To16(raw, n)]
    BY <2>2 DEF DepthFrame
  <2>4. QED
    BY <2>1, <2>3 DEF PicturesInv, ConvertedInv, AlignedInv
<1>4. CASE AsTheyCame
  <2>1. pic'.fmt \in {"BAYER", "YUV_RAW", "IR_10BIT_PACKED", "11BIT_PACKED", "10BIT_PACKED"}
    BY <1>4 DEF AsTheyCame, VideoFrame, DepthFrame
  <2>2. QED
    BY <2>1 DEF PicturesInv, ConvertedInv, AlignedInv
<1>5. CASE Aligned
  <2>1. PICK fmt \in {"REGISTERED", "MM"}, raw \in PackedDepth, s \in Calibrations :
          AlignedFrame(fmt, raw, s)
    BY <1>5 DEF Aligned
  <2>2. AlignedInv'
    BY <2>1, AlignedStays
  <2>3. pic'.fmt = fmt
    BY <2>1 DEF AlignedFrame
  <2>4. QED
    BY <2>2, <2>3 DEF PicturesInv, ConvertedInv
<1>6. CASE Mapped
  <2>1. PICK junk \in Int : MapRgbToDepth(junk)
    BY <1>6 DEF Mapped
  <2>2. AlignedInv'
    BY <2>1, MappedStays DEF PicturesInv
  <2>3. pic'.fmt = "mapped"
    BY <2>1 DEF MapRgbToDepth
  <2>4. QED
    BY <2>2, <2>3 DEF PicturesInv, ConvertedInv
<1>7. CASE UNCHANGED pic
  BY <1>7 DEF PicturesInv, ConvertedInv, AlignedInv
<1>8. QED
  BY <1>1, <1>2, <1>3, <1>4, <1>5, <1>6, <1>7 DEF PicturesNext

\* depth_process(), video_process() and freenect_map_rgb_to_depth() make every picture of
\* the frame it belongs to, with the tables of its camera.
THEOREM PicturesFollow == PicturesSpec => []PicturesInv
BY FirstPicture, NextPicture, PTL DEF PicturesSpec

\* Whatever the bytes of a frame and its size, the unrolled and the general loops of
\* cameras.c give each pixel exactly its bits, and the colours made of Bayer and YUV
\* pictures are those of their reference definitions.
THEOREM EveryPixelExact == PicturesSpec => []PixelsExact
<1>1. PicturesInv => PixelsExact
  <2> SUFFICES ASSUME PicturesInv PROVE PixelsExact
    OBVIOUS
  <2>1. UnpackExact
    BY UnpackFollows DEF PicturesInv
  <2>2. BayerRight
    BY ColoursAreRight DEF PicturesInv, ConvertedInv
  <2>3. YuvRight
    BY YuvFollows DEF PicturesInv, ConvertedInv
  <2>4. QED
    BY <2>1, <2>2, <2>3 DEF PixelsExact
<1>2. QED
  BY <1>1, PicturesFollow, PTL

\* For all tables and paddings, freenect_apply_registration() shows the nearest depth that
\* falls on each pixel, and freenect_apply_depth_to_mm() gives each depth the camera saw.  For
\* those of a camera that pads nothing and of a frame no depth of which shifts a pixel by more
\* than the width, freenect_apply_registration() writes only inside its buffer, and
\* freenect_map_rgb_to_depth() takes a colour from where the registered picture shows that
\* depth, whatever the junk past the end of the table.
THEOREM EveryDepthInPlace == PicturesSpec => []RegistrationRight
<1>1. PicturesInv => RegistrationRight
  BY NearestFollows, MillimetresFollow, MapFollows DEF PicturesInv, RegistrationRight
<1>2. QED
  BY <1>1, PicturesFollow, PTL
=============================================================================
