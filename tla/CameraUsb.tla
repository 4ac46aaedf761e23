----------------------------- MODULE CameraUsb -----------------------------
(***************************************************************************)
(* The life of a camera device and of the isochronous transfers of its two  *)
(* streams: freenect_start_depth/video, freenect_stop_depth/video,          *)
(* freenect_process_events and freenect_close_device (src/src/cameras.c,    *)
(* src/src/core.c) over fnusb_start_iso, iso_callback and fnusb_stop_iso    *)
(* (src/src/usb_libusb10.c).                                                *)
(*                                                                          *)
(* The library runs in one thread.  libusb calls iso_callback() only from   *)
(* inside a call that handles events: freenect_process_events, but also the *)
(* control transfers of write_register() while a stream is started or       *)
(* stopped, and the loop of fnusb_stop_iso().  `op` says where the thread   *)
(* is; callbacks of both streams may run wherever events are handled.       *)
(***************************************************************************)
EXTENDS Integers, FiniteSets

CONSTANTS
  Xfers,              \* transfers of a stream: NUM_XFERS of them
  MaxRunningAtClose   \* the client closes with at most this many streams on

ASSUME XferAssumption == IsFiniteSet(Xfers) /\ MaxRunningAtClose \in Nat

Streams == {"depth", "video"}

\* "none": no transfer (not allocated, or freed); "idle": allocated, not
\* submitted, and never to call back again; "flying": submitted; "cancelling":
\* submitted and cancelled; the others: finished, callback not yet run.
Finished == {"completed", "cancelled", "nodevice", "error"}
Pending == {"flying", "cancelling"} \cup Finished
XferStates == {"none", "idle"} \cup Pending

VARIABLES
  present,      \* environment: the camera is plugged in
  opened,       \* the freenect_device exists and its handle is open
  device_dead,  \* usb_cam.device_dead
  running,      \* [stream -> packet_stream.running]
  bufs,         \* [stream -> the frame buffers of stream_init() exist]
  live,         \* [stream -> fnusb_isoc_stream.xfers and .buffer exist]
  dead,         \* [stream -> fnusb_isoc_stream.dead]
  dead_xfers,   \* [stream -> fnusb_isoc_stream.dead_xfers]
  xfer,         \* [stream -> [transfer -> its state]]
  op,           \* what the thread is doing
  cur,          \* the stream being started or stopped
  todo,         \* streams still to be stopped by this call
  closing       \* freenect_close_device() is on the stack

streams == <<running, bufs, live, dead, dead_xfers, xfer>>
control == <<op, cur, todo, closing>>
vars == <<present, opened, device_dead, streams, control>>

num_xfers == Cardinality(Xfers)
RunningStreams == {s \in Streams : running[s]}

Init ==
  /\ present = TRUE
  /\ opened = FALSE
  /\ device_dead = FALSE
  /\ running = [s \in Streams |-> FALSE]
  /\ bufs = [s \in Streams |-> FALSE]
  /\ live = [s \in Streams |-> FALSE]
  /\ dead = [s \in Streams |-> FALSE]
  /\ dead_xfers = [s \in Streams |-> 0]
  /\ xfer = [s \in Streams |-> [x \in Xfers |-> "none"]]
  /\ op = "app" /\ cur = "depth" /\ todo = {} /\ closing = FALSE

-----------------------------------------------------------------------------
(* The bus: what libusb and the kernel do with a submitted transfer. *)

\* A submitted transfer comes back: with data, with a transient error, because
\* it was cancelled, or because the device is gone.
Return(s, x) ==
  /\ \/ /\ xfer[s][x] \in {"flying", "cancelling"} /\ present
        /\ \E st \in {"completed", "error"} : xfer' = [xfer EXCEPT ![s][x] = st]
     \/ /\ xfer[s][x] \in {"flying", "cancelling"} /\ ~present
        /\ \E st \in {"nodevice", "cancelled"} : xfer' = [xfer EXCEPT ![s][x] = st]
     \/ /\ xfer[s][x] = "cancelling" /\ present
        /\ xfer' = [xfer EXCEPT ![s][x] = "cancelled"]
  /\ UNCHANGED <<present, opened, device_dead, running, bufs, live, dead, dead_xfers,
                 control>>

Unplug ==
  /\ present
  /\ present' = FALSE
  /\ UNCHANGED <<opened, device_dead, streams, control>>

-----------------------------------------------------------------------------
(* iso_callback(): one action per case of the switch. *)

HandlingEvents == op \in {"events", "starting", "quiescing", "draining"}

\* Mutant: dead_xfers not incremented.
MutBury(s, x) ==
  /\ xfer' = [xfer EXCEPT ![s][x] = "idle"]
  /\ UNCHANGED dead_xfers

\* The transfer ends its life: dead_xfers++.
Bury(s, x) ==
  /\ xfer' = [xfer EXCEPT ![s][x] = "idle"]
  /\ dead_xfers' = [dead_xfers EXCEPT ![s] = @ + 1]

\* Mutant: a transfer that could not be submitted again is not counted dead.
MutResubmit(s, x) ==
  \/ /\ present
     /\ \E st \in {"flying", "idle"} : xfer' = [xfer EXCEPT ![s][x] = st]
     /\ UNCHANGED <<dead_xfers, device_dead>>
  \/ /\ ~present
     /\ Bury(s, x)
     /\ device_dead' = TRUE

\* libusb_submit_transfer() at the end of a callback: it succeeds, fails for
\* some reason of the host's, or fails because the device is gone.
Resubmit(s, x) ==
  \/ /\ present
     /\ xfer' = [xfer EXCEPT ![s][x] = "flying"]
     /\ UNCHANGED <<dead_xfers, device_dead>>
  \/ /\ present
     /\ Bury(s, x)
     /\ UNCHANGED device_dead
  \/ /\ ~present
     /\ Bury(s, x)
     /\ device_dead' = TRUE

\* strm->dead: fnusb_stop_iso() is waiting for it.
CallbackDead(s, x) ==
  /\ HandlingEvents /\ xfer[s][x] \in Finished /\ dead[s]
  /\ Bury(s, x)
  /\ UNCHANGED <<present, opened, device_dead, running, bufs, live, dead, control>>

\* LIBUSB_TRANSFER_COMPLETED and the default case: data, if any, goes to
\* depth_process() / video_process(), then the transfer is submitted again.
CallbackData(s, x) ==
  /\ HandlingEvents /\ xfer[s][x] \in {"completed", "error"} /\ ~dead[s]
  /\ Resubmit(s, x)
  /\ UNCHANGED <<present, opened, running, bufs, live, dead, control>>

\* Mutant: the device is not marked dead.
MutCallbackGone(s, x) ==
  /\ HandlingEvents /\ xfer[s][x] \in {"nodevice", "cancelled"} /\ ~dead[s]
  /\ Bury(s, x)
  /\ UNCHANGED <<present, opened, device_dead, running, bufs, live, dead, control>>

\* LIBUSB_TRANSFER_NO_DEVICE, and a cancellation nobody asked for.
CallbackGone(s, x) ==
  /\ HandlingEvents /\ xfer[s][x] \in {"nodevice", "cancelled"} /\ ~dead[s]
  /\ Bury(s, x)
  /\ device_dead' = TRUE
  /\ UNCHANGED <<present, opened, running, bufs, live, dead, control>>

iso_callback(s, x) == CallbackDead(s, x) \/ CallbackData(s, x) \/ CallbackGone(s, x)

-----------------------------------------------------------------------------
(* The client's calls. *)

\* freenect_open_device(): a zeroed freenect_device and an open handle.
Open ==
  /\ op = "app" /\ ~opened /\ present
  /\ opened' = TRUE /\ device_dead' = FALSE
  /\ dead' = [s \in Streams |-> FALSE]
  /\ dead_xfers' = [s \in Streams |-> 0]
  /\ UNCHANGED <<present, running, bufs, live, xfer, control>>

\* Mutant: dead_xfers not reset by fnusb_start_iso().
MutStartIso(s, ok) ==
  /\ op = "app" /\ opened /\ ~running[s]
  /\ present \/ ok = {}
  /\ bufs' = [bufs EXCEPT ![s] = TRUE]
  /\ live' = [live EXCEPT ![s] = TRUE]
  /\ dead' = [dead EXCEPT ![s] = FALSE]
  /\ xfer' = [xfer EXCEPT ![s] = [x \in Xfers |-> IF x \in ok THEN "flying" ELSE "idle"]]
  /\ dead_xfers' = [dead_xfers EXCEPT ![s] = @ + Cardinality(Xfers \ ok)]
  /\ op' = "starting" /\ cur' = s
  /\ UNCHANGED <<present, opened, device_dead, running, todo, closing>>

\* freenect_start_depth/video(), up to the registers: stream_init(), then
\* fnusb_start_iso(), which submits what it can, counts the rest as dead and
\* returns 0.
StartIso(s, ok) ==
  /\ op = "app" /\ opened /\ ~running[s]
  /\ present \/ ok = {}
  /\ bufs' = [bufs EXCEPT ![s] = TRUE]
  /\ live' = [live EXCEPT ![s] = TRUE]
  /\ dead' = [dead EXCEPT ![s] = FALSE]
  /\ xfer' = [xfer EXCEPT ![s] = [x \in Xfers |-> IF x \in ok THEN "flying" ELSE "idle"]]
  /\ dead_xfers' = [dead_xfers EXCEPT ![s] = Cardinality(Xfers \ ok)]
  /\ op' = "starting" /\ cur' = s
  /\ UNCHANGED <<present, opened, device_dead, running, todo, closing>>

\* The write_register() calls are over: running = 1, return 0.
StartDone ==
  /\ op = "starting"
  /\ running' = [running EXCEPT ![cur] = TRUE]
  /\ op' = "app"
  /\ UNCHANGED <<present, opened, device_dead, bufs, live, dead, dead_xfers, xfer,
                 cur, todo, closing>>

\* freenect_stop_depth/video() called by the client.
Stop(s) ==
  /\ op = "app" /\ opened /\ running[s]
  /\ op' = "stopping" /\ todo' = {s}
  /\ UNCHANGED <<present, opened, device_dead, streams, cur, closing>>

\* freenect_process_events(): events are handled ...
Events ==
  /\ op = "app" /\ opened
  /\ op' = "events"
  /\ UNCHANGED <<present, opened, device_dead, streams, cur, todo, closing>>

\* ... until fnusb_process_events_timeout() returns; a device marked dead has
\* its streams stopped.
EventsDone ==
  /\ op = "events"
  /\ IF device_dead THEN op' = "stopping" /\ todo' = Streams
                    ELSE op' = "app" /\ todo' = {}
  /\ UNCHANGED <<present, opened, device_dead, streams, cur, closing>>

\* freenect_camera_teardown(): it returns after the first stream it stops.
Teardown ==
  IF running["depth"] THEN {"depth"} ELSE IF running["video"] THEN {"video"} ELSE {}

\* freenect_close_device(), and freenect_shutdown() with a device open.
Close ==
  /\ op = "app" /\ opened
  /\ Cardinality(RunningStreams) <= MaxRunningAtClose
  /\ op' = "stopping" /\ todo' = Teardown /\ closing' = TRUE
  /\ UNCHANGED <<present, opened, device_dead, streams, cur>>

-----------------------------------------------------------------------------
(* freenect_stop_depth/video(), for each stream of todo, video first. *)

Stoppable(s) == op = "stopping" /\ s \in todo /\ (s = "depth" => "video" \notin todo)

\* if (!running) return -1;
StopIdle(s) ==
  /\ Stoppable(s) /\ ~running[s]
  /\ todo' = todo \ {s}
  /\ UNCHANGED <<present, opened, device_dead, streams, op, cur, closing>>

\* Mutant: running left set while the transfers are cancelled.
MutStopCamera(s) ==
  /\ Stoppable(s) /\ running[s]
  /\ op' = "quiescing" /\ cur' = s /\ todo' = todo \ {s}
  /\ UNCHANGED <<present, opened, device_dead, streams, closing>>

\* running = 0, then the register write that stops the camera.
StopCamera(s) ==
  /\ Stoppable(s) /\ running[s]
  /\ running' = [running EXCEPT ![s] = FALSE]
  /\ op' = "quiescing" /\ cur' = s /\ todo' = todo \ {s}
  /\ UNCHANGED <<present, opened, device_dead, bufs, live, dead, dead_xfers, xfer,
                 closing>>

\* fnusb_stop_iso(): dead = 1, and every transfer is cancelled.
StopIso ==
  /\ op = "quiescing"
  /\ dead' = [dead EXCEPT ![cur] = TRUE]
  /\ xfer' = [xfer EXCEPT ![cur] =
       [x \in Xfers |-> IF @[x] = "flying" THEN "cancelling" ELSE @[x]]]
  /\ op' = "draining"
  /\ UNCHANGED <<present, opened, device_dead, running, bufs, live, dead_xfers,
                 cur, todo, closing>>

\* The loop is over: transfers and buffers are freed, then stream_freebufs().
Freed(s, x) == IF xfer[s][x] \in Pending THEN xfer[s][x] ELSE "none"

\* Mutant: the loop ends one callback early.
MutStopDone ==
  /\ op = "draining" /\ dead_xfers[cur] + 1 >= num_xfers
  /\ live' = [live EXCEPT ![cur] = FALSE]
  /\ bufs' = [bufs EXCEPT ![cur] = FALSE]
  /\ xfer' = [xfer EXCEPT ![cur] = [x \in Xfers |-> Freed(cur, x)]]
  /\ op' = "stopping"
  /\ UNCHANGED <<present, opened, device_dead, running, dead, dead_xfers,
                 cur, todo, closing>>

StopDone ==
  /\ op = "draining" /\ dead_xfers[cur] >= num_xfers
  /\ live' = [live EXCEPT ![cur] = FALSE]
  /\ bufs' = [bufs EXCEPT ![cur] = FALSE]
  /\ xfer' = [xfer EXCEPT ![cur] = [x \in Xfers |-> Freed(cur, x)]]
  /\ op' = "stopping"
  /\ UNCHANGED <<present, opened, device_dead, running, dead, dead_xfers,
                 cur, todo, closing>>

\* Nothing left to stop: return, or close the handle and free the device.
CallDone ==
  /\ op = "stopping" /\ todo = {}
  /\ op' = "app" /\ closing' = FALSE
  /\ opened' = ~closing
  /\ running' = [s \in Streams |-> running[s] /\ ~closing]
  /\ UNCHANGED <<present, device_dead, bufs, live, dead, dead_xfers, xfer,
                 cur, todo>>

-----------------------------------------------------------------------------

Call ==
  \/ Open \/ Events \/ Close
  \/ \E s \in Streams : Stop(s) \/ (\E ok \in SUBSET Xfers : StartIso(s, ok))

Progress ==
  \/ StartDone \/ EventsDone \/ StopIso \/ StopDone \/ CallDone
  \/ \E s \in Streams : StopIdle(s) \/ StopCamera(s)

Next ==
  \/ Call \/ Progress \/ Unplug
  \/ \E s \in Streams, x \in Xfers : Return(s, x) \/ iso_callback(s, x)

\* A cancelled transfer, or one of a device that is gone, comes back; events
\* that are being handled get handled; calls go on; and the client keeps
\* calling freenect_process_events().
Fairness ==
  /\ \A s \in Streams, x \in Xfers :
       WF_vars(Return(s, x) /\ (~present \/ xfer[s][x] = "cancelling"))
       /\ SF_vars(iso_callback(s, x))
  /\ WF_vars(Progress)
  /\ SF_vars(Events)

Spec == Init /\ [][Next]_vars
FairSpec == Spec /\ Fairness

-----------------------------------------------------------------------------
(* Properties. *)

\* Counters stay within NUM_XFERS and every field keeps its type, over any
\* sequence of calls, callbacks and failures.
TypeOK ==
  /\ present \in BOOLEAN /\ opened \in BOOLEAN /\ device_dead \in BOOLEAN
  /\ running \in [Streams -> BOOLEAN] /\ bufs \in [Streams -> BOOLEAN]
  /\ live \in [Streams -> BOOLEAN] /\ dead \in [Streams -> BOOLEAN]
  /\ dead_xfers \in [Streams -> 0 .. num_xfers]
  /\ xfer \in [Streams -> [Xfers -> XferStates]]
  /\ op \in {"app", "events", "starting", "stopping", "quiescing", "draining"}
  /\ cur \in Streams /\ todo \in SUBSET Streams /\ closing \in BOOLEAN

Idle(s) == {x \in Xfers : xfer[s][x] = "idle"}

\* dead_xfers is exactly the number of transfers that will never call back
\* again, whichever mixture of failed submissions, errors, cancellations and
\* disconnection killed them: fnusb_stop_iso() neither waits for one that is
\* dead nor forgets one that is not.
DeadXfersExact ==
  \A s \in Streams : live[s] => dead_xfers[s] = Cardinality(Idle(s))

\* No transfer is in the hands of libusb once its stream was freed: neither
\* its buffer, nor the fnusb_isoc_stream its callback will use, is freed under
\* it.
NoFreeInFlight ==
  \A s \in Streams, x \in Xfers :
    xfer[s][x] \in Pending => live[s] /\ opened

\* A callback that may hand packets to the stream (running, not dead) finds
\* the buffers of the stream, and the transfers it resubmits, still there.
CallbacksFindBuffers ==
  \A s \in Streams : running[s] => bufs[s] /\ live[s] /\ ~dead[s]

\* The accounts of the transfers are exact, and callbacks find what they use.
UsbInv == TypeOK /\ DeadXfersExact /\ CallbacksFindBuffers

-----------------------------------------------------------------------------
(* What makes NoFreeInFlight inductive. *)

\* Transfers exist exactly while the stream is live, and only on an open device.
TransfersWhileLive ==
  \A s \in Streams :
    /\ live[s] => opened /\ \A x \in Xfers : xfer[s][x] # "none"
    /\ ~live[s] => \A x \in Xfers : xfer[s][x] = "none"

\* A live stream that is not running is being started or stopped.
LiveOrUnderWay ==
  /\ \A s \in Streams : live[s] /\ ~running[s] =>
       op \in {"starting", "quiescing", "draining"} /\ cur = s
  /\ op \in {"starting", "quiescing", "draining"} => live[cur] /\ ~running[cur]
  /\ op = "starting" => bufs[cur] /\ ~dead[cur]

\* A device is closed only when every stream still running is to be stopped.
ClosingStopsAll ==
  closing => op \in {"stopping", "quiescing", "draining"} /\ RunningStreams \subseteq todo

IInv ==
  /\ TypeOK /\ DeadXfersExact /\ CallbacksFindBuffers
  /\ TransfersWhileLive /\ LiveOrUnderWay /\ ClosingStopsAll

-----------------------------------------------------------------------------

\* fnusb_stop_iso() returns: its loop never waits for a callback that does
\* not come.
StopReturns == (op = "draining") ~> (op = "app")

\* An unplugged camera is noticed by a client that handles events: a stream
\* with a transfer still alive is stopped.
UnplugStopsStream ==
  \A s \in Streams :
    (~present /\ running[s] /\ \E x \in Xfers : xfer[s][x] \in Pending) ~> ~running[s]
=============================================================================
