------------------------------- MODULE Audio -------------------------------
(***************************************************************************)
(* Audio of an open device (src/src/audio.c): freenect_start_audio() and    *)
(* freenect_stop_audio(), the counters of the packets sent to the device    *)
(* (prepare_iso_out_data()) and the microphone samples received from it     *)
(* (iso_in_callback()).                                                     *)
(*                                                                          *)
(* Samples are abstracted to the window they belong to.  The device sends   *)
(* the channels of its windows in order; the bus loses any of them.  The    *)
(* client has set its callback.                                             *)
(***************************************************************************)
EXTENDS Integers

CONSTANTS
  First, Second, SeqEnd,  \* out_seq at which a window ends: 0x2b, 0x56, 0x80
  WindowMod,              \* out_window is a uint16_t: 2^16
  SampleChannels,         \* channels 1 .. SampleChannels have samples: 9; one more has none
  MaxOut,                 \* bound: packets sent since the start
  MaxWindow               \* bound: windows of the microphones

ASSUME AudioAssumption ==
  /\ First \in Nat /\ Second \in Nat /\ SeqEnd \in Nat
  /\ 0 < First /\ First < Second /\ Second < SeqEnd
  /\ WindowMod \in Nat /\ WindowMod > 1
  /\ SampleChannels \in Nat \ {0} /\ MaxOut \in Nat /\ MaxWindow \in Nat

Channels == 1 .. SampleChannels
LastChannel == SampleChannels + 1

VARIABLES
  running, op,
  in_iso, out_iso,    \* the transfers of either direction exist
  bufs,               \* mic_buffer[] and cancelled_buffer exist
  out_window, out_seq, out_counter_within_window, out_window_parity,
  in_window,
  part,               \* [channel -> the window whose samples its buffer holds]
  \* history
  outs,               \* packets prepared since the start
  given,              \* [channel -> what the last callback found in its buffer]
  \* the device
  micWindow, micChannel

out == <<out_window, out_seq, out_counter_within_window, out_window_parity, outs>>
in == <<in_window, part, given>>
mic == <<micWindow, micChannel>>
life == <<running, op, in_iso, out_iso, bufs>>
vars == <<life, out, in, mic>>

Silence == [c \in Channels |-> 0]

Init ==
  /\ running = FALSE /\ op = "app" /\ in_iso = FALSE /\ out_iso = FALSE /\ bufs = FALSE
  /\ out_window = 0 /\ out_seq = 0 /\ out_counter_within_window = 0
  /\ out_window_parity = 0 /\ outs = 0
  /\ in_window = 0 /\ part = Silence /\ given = Silence
  /\ micWindow = 1 /\ micChannel = 1

-----------------------------------------------------------------------------
(* freenect_start_audio(), freenect_stop_audio(). *)

\* Buffers, counters, then both directions of transfers, whose errors the code
\* handles and fnusb_start_iso() never returns.
Start ==
  /\ op = "app" /\ ~running
  /\ running' = TRUE /\ bufs' = TRUE /\ in_iso' = TRUE /\ out_iso' = TRUE
  /\ out_window' = 0 /\ out_seq' = 0 /\ out_counter_within_window' = 0
  /\ out_window_parity' = 0 /\ outs' = 0
  /\ in_window' = 0 /\ part' = Silence /\ given' = Silence
  /\ UNCHANGED <<op, mic>>

\* Mutant: the buffers are freed before the transfers are stopped.
MutStopIn ==
  /\ op = "app" /\ running
  /\ running' = FALSE /\ bufs' = FALSE /\ op' = "stopping"
  /\ UNCHANGED <<in_iso, out_iso, out, in, mic>>

\* The first fnusb_stop_iso(): it handles events, so packets are still sent ...
StopIn ==
  /\ op = "app" /\ running
  /\ running' = FALSE /\ in_iso' = FALSE /\ op' = "stopping"
  /\ UNCHANGED <<out_iso, bufs, out, in, mic>>

\* ... until the second one is over and the buffers are freed.
StopOut ==
  /\ op = "stopping"
  /\ out_iso' = FALSE /\ bufs' = FALSE /\ op' = "app"
  /\ UNCHANGED <<running, in_iso, out, in, mic>>

-----------------------------------------------------------------------------
(* prepare_iso_out_data(): the counters after a packet. *)

\* Mutants: the fall through of case 0x80 is missing; the parity never starts again.
MutWindowEnds == out_seq + 1 \in {First, Second}
MutNextParity == out_window_parity + 1

\* A window ends when out_seq gets to one of three values, the last of which
\* also begins the numbers again.
WindowEnds == out_seq + 1 \in {First, Second, SeqEnd}
NextParity == IF out_window_parity + 1 = 3 THEN 0 ELSE out_window_parity + 1

OutPacket ==
  /\ out_iso /\ outs < MaxOut
  /\ outs' = outs + 1
  /\ out_seq' = IF out_seq + 1 = SeqEnd THEN 0 ELSE out_seq + 1
  /\ IF WindowEnds
     THEN /\ out_counter_within_window' = 0
          /\ out_window' = (out_window + 1) % WindowMod
          /\ out_window_parity' = NextParity
     ELSE /\ out_counter_within_window' = out_counter_within_window + 1
          /\ UNCHANGED <<out_window, out_window_parity>>
  /\ UNCHANGED <<life, in, mic>>

-----------------------------------------------------------------------------
(* The microphones. *)

\* The device goes on to its next channel, or to the next window.
Advance ==
  IF micChannel = LastChannel
  THEN micChannel' = 1 /\ micWindow' = micWindow + 1
  ELSE micChannel' = micChannel + 1 /\ micWindow' = micWindow

Sending == micWindow <= MaxWindow

\* Lost on the bus, of a strange length or without the magic number; or nobody
\* listens.
LosePacket ==
  /\ Sending
  /\ Advance
  /\ UNCHANGED <<life, out, in>>

\* The samples are copied; the last channel has none.
Copy(p) == IF micChannel \in Channels THEN [p EXCEPT ![micChannel] = micWindow] ELSE p

\* Mutant: the callback comes after the copy.
MutGiven == IF micWindow # in_window THEN Copy(part) ELSE given

\* The first packet of another window ends the one before: the client is called.
Given == IF micWindow # in_window THEN part ELSE given

\* iso_in_callback().
InPacket ==
  /\ in_iso /\ Sending
  /\ given' = Given
  /\ in_window' = micWindow
  /\ part' = Copy(part)
  /\ Advance
  /\ UNCHANGED <<life, out>>

Next == Start \/ StopIn \/ StopOut \/ OutPacket \/ LosePacket \/ InPacket

Spec == Init /\ [][Next]_vars

-----------------------------------------------------------------------------
(* Properties. *)

\* Which of the three windows of a cycle a packet number belongs to, and the
\* number at which that window begins.
Third(seq) == IF seq < First THEN 0 ELSE IF seq < Second THEN 1 ELSE 2
Begin(third) == IF third = 0 THEN 0 ELSE IF third = 1 THEN First ELSE Second

\* Every counter keeps its width: out_seq never gets to 0x80, the parity never
\* to 3, and the position in a window never outgrows the cycle.
TypeOK ==
  /\ running \in BOOLEAN /\ in_iso \in BOOLEAN /\ out_iso \in BOOLEAN /\ bufs \in BOOLEAN
  /\ op \in {"app", "stopping"}
  /\ out_window \in 0 .. WindowMod - 1 /\ out_seq \in 0 .. SeqEnd - 1
  /\ out_counter_within_window \in 0 .. SeqEnd - 1 /\ out_window_parity \in 0 .. 2
  /\ outs \in 0 .. MaxOut
  /\ in_window \in 0 .. MaxWindow
  /\ part \in [Channels -> 0 .. MaxWindow] /\ given \in [Channels -> 0 .. MaxWindow]
  /\ micWindow \in 1 .. MaxWindow + 1 /\ micChannel \in 1 .. LastChannel

\* What the three counters and the parity say agrees with the number of packets sent:
\* cycles of SeqEnd packets, three windows in each, and the position counted
\* from the beginning of the window.
OutFollowsCount ==
  LET cycle == outs \div SeqEnd
      third == Third(outs % SeqEnd)
  IN
  /\ out_seq = outs % SeqEnd
  /\ out_window_parity = third
  /\ out_counter_within_window = out_seq - Begin(third)
  /\ out_window = (3 * cycle + third) % WindowMod

\* Samples that arrive reach the client, whatever the bus loses around them:
\* those of older windows were in the callback that ended their window, before
\* anything was written over them, and those of the current one in none yet.
\* (Nothing clears the buffers: a channel that lost a whole window gives its
\* older samples again, and the client cannot tell.)
SamplesReachClient ==
  \A c \in Channels :
    /\ part[c] <= in_window
    /\ part[c] < in_window => given[c] = part[c]
    /\ part[c] = in_window /\ in_window > 0 => given[c] < in_window

\* While packets can arrive, and their samples are copied, the buffers exist.
BuffersLive == in_iso => bufs

\* The counters of both directions have their types, those of what is sent agree
\* with each other, and buffers outlive the transfers.
AudioInv == TypeOK /\ OutFollowsCount /\ BuffersLive

-----------------------------------------------------------------------------
(* What makes them inductive: the device is never behind, and the buffers are
   only freed once no more packets arrive. *)
DeviceAhead == in_window <= micWindow
StopClean == op = "stopping" => ~in_iso

IInv ==
  TypeOK /\ OutFollowsCount /\ SamplesReachClient /\ BuffersLive /\ DeviceAhead /\ StopClean
=============================================================================
