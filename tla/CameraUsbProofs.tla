-------------------------- MODULE CameraUsbProofs --------------------------
(***************************************************************************)
(* For any number of transfers per stream: dead_xfers is exact, so that     *)
(* fnusb_stop_iso() frees nothing libusb still holds, as long as the client *)
(* closes a device with at most one stream running.  And of the modes: the  *)
(* frames of a running stream fit its buffers, and the camera's registers   *)
(* follow the streams.                                                      *)
(***************************************************************************)
EXTENDS CameraUsb, Modes, FiniteSetTheorems, SequenceTheorems, WellFoundedInduction, TLAPS

\* The idle transfers are a finite set, no larger than all of them; as many
\* means all of them.
LEMMA IdleFacts ==
  ASSUME NEW s
  PROVE  /\ IsFiniteSet(Idle(s)) /\ Cardinality(Idle(s)) \in 0 .. num_xfers
         /\ num_xfers \in Nat
         /\ Cardinality(Idle(s)) >= num_xfers => Idle(s) = Xfers
<1>1. Idle(s) \in SUBSET Xfers
  BY DEF Idle
<1>2. /\ IsFiniteSet(Idle(s)) /\ Cardinality(Idle(s)) <= Cardinality(Xfers)
      /\ Cardinality(Xfers) = Cardinality(Idle(s)) => Xfers = Idle(s)
  BY <1>1, FS_Subset, XferAssumption
<1>3. Cardinality(Xfers) \in Nat /\ Cardinality(Idle(s)) \in Nat
  BY <1>2, FS_CardinalityType, XferAssumption
<1>4. QED
  BY <1>2, <1>3 DEF num_xfers

\* A transfer libusb holds belongs to a live stream of an open device.
LEMMA PendingIsLive ==
  ASSUME IInv, NEW s \in Streams, NEW x \in Xfers, xfer[s][x] \in Pending
  PROVE  live[s] /\ opened /\ xfer[s][x] # "idle"
BY DEF IInv, TransfersWhileLive, TypeOK, Pending, Finished

-----------------------------------------------------------------------------
(* Transfers that change hands, and transfers that die. *)

\* A pending transfer stays pending: no count changes.
LEMMA MoveStep ==
  ASSUME IInv, NEW s \in Streams, NEW x \in Xfers, xfer[s][x] \in Pending,
         NEW v \in Pending, xfer' = [xfer EXCEPT ![s][x] = v],
         UNCHANGED <<opened, running, bufs, live, dead, dead_xfers, control>>
  PROVE  /\ xfer' \in [Streams -> [Xfers -> XferStates]]
         /\ DeadXfersExact' /\ CallbacksFindBuffers'
         /\ TransfersWhileLive' /\ LiveOrUnderWay' /\ ClosingStopsAll'
<1>1. xfer \in [Streams -> [Xfers -> XferStates]]
  BY DEF IInv, TypeOK
<1>2. xfer' \in [Streams -> [Xfers -> XferStates]]
  BY <1>1 DEF XferStates
<1>3. \A r \in Streams : Idle(r)' = Idle(r)
  BY <1>1, PendingIsLive DEF Idle, Pending, Finished
<1>4. DeadXfersExact'
  BY <1>3 DEF IInv, DeadXfersExact
<1>5. TransfersWhileLive'
  BY <1>1, PendingIsLive DEF IInv, TransfersWhileLive, Pending, Finished
<1>6. QED
  BY <1>2, <1>4, <1>5 DEF IInv, CallbacksFindBuffers, LiveOrUnderWay, ClosingStopsAll,
                          RunningStreams, control

\* A pending transfer dies and is counted.
LEMMA BuryStep ==
  ASSUME IInv, NEW s \in Streams, NEW x \in Xfers, xfer[s][x] \in Pending, Bury(s, x),
         UNCHANGED <<opened, running, bufs, live, dead, control>>
  PROVE  /\ xfer' \in [Streams -> [Xfers -> XferStates]]
         /\ dead_xfers' \in [Streams -> 0 .. num_xfers]
         /\ DeadXfersExact' /\ CallbacksFindBuffers'
         /\ TransfersWhileLive' /\ LiveOrUnderWay' /\ ClosingStopsAll'
<1>1. /\ xfer \in [Streams -> [Xfers -> XferStates]]
      /\ dead_xfers \in [Streams -> 0 .. num_xfers]
      /\ xfer' = [xfer EXCEPT ![s][x] = "idle"]
      /\ dead_xfers' = [dead_xfers EXCEPT ![s] = @ + 1]
  BY DEF IInv, TypeOK, Bury
<1>2. xfer' \in [Streams -> [Xfers -> XferStates]]
  BY <1>1 DEF XferStates
<1>3. x \notin Idle(s) /\ Idle(s)' = Idle(s) \cup {x}
  BY <1>1, PendingIsLive DEF Idle
<1>4. \A r \in Streams : r # s => Idle(r)' = Idle(r)
  BY <1>1 DEF Idle
<1>5. dead_xfers[s] = Cardinality(Idle(s))
  BY PendingIsLive DEF IInv, DeadXfersExact
<1>6. Cardinality(Idle(s)') = Cardinality(Idle(s)) + 1
  BY <1>3, IdleFacts, FS_AddElement
<1>7. Idle(s)' \in SUBSET Xfers
  BY DEF Idle
<1>8. Cardinality(Idle(s)') \in 0 .. num_xfers
  <2>1. Cardinality(Idle(s)') <= num_xfers
    BY <1>7, FS_Subset, XferAssumption DEF num_xfers
  <2>2. QED
    BY <2>1, <1>6, IdleFacts
<1>9. dead_xfers'[s] = Cardinality(Idle(s)')
  BY <1>1, <1>5, <1>6
<1>10. dead_xfers' \in [Streams -> 0 .. num_xfers]
  BY <1>1, <1>8, <1>9
<1>11. DeadXfersExact'
  <2>1. SUFFICES ASSUME NEW r \in Streams, live[r]
                 PROVE  dead_xfers'[r] = Cardinality(Idle(r)')
    BY DEF DeadXfersExact
  <2>2. CASE r = s
    BY <1>9, <2>2
  <2>3. CASE r # s
    BY <1>1, <1>4, <2>1, <2>3 DEF IInv, DeadXfersExact
  <2>4. QED
    BY <2>2, <2>3
<1>12. TransfersWhileLive'
  BY <1>1, PendingIsLive DEF IInv, TransfersWhileLive
<1>13. QED
  BY <1>2, <1>10, <1>11, <1>12 DEF IInv, CallbacksFindBuffers, LiveOrUnderWay,
       ClosingStopsAll, RunningStreams, control

-----------------------------------------------------------------------------
(* IInv is inductive. *)

LEMMA ReturnStep ==
  ASSUME IInv, NEW s \in Streams, NEW x \in Xfers, Return(s, x)
  PROVE  IInv'
<1>1. xfer[s][x] \in Pending
  BY DEF Return, Pending
<1>2. PICK v \in Pending : xfer' = [xfer EXCEPT ![s][x] = v]
  BY DEF Return, Pending, Finished
<1>3. UNCHANGED <<opened, running, bufs, live, dead, dead_xfers, control>>
  BY DEF Return
<1>4. QED
  BY <1>1, <1>2, <1>3, MoveStep DEF IInv, Return, TypeOK, control

LEMMA CallbackStep ==
  ASSUME IInv, NEW s \in Streams, NEW x \in Xfers, iso_callback(s, x)
  PROVE  IInv'
<1>1. xfer[s][x] \in Pending
  BY DEF iso_callback, CallbackDead, CallbackData, CallbackGone, Pending, Finished
<1>2. UNCHANGED <<present, opened, running, bufs, live, dead, control>>
      /\ device_dead' \in BOOLEAN
  BY DEF iso_callback, CallbackDead, CallbackData, CallbackGone, Resubmit, IInv, TypeOK
<1>3. CASE Bury(s, x)
  BY <1>1, <1>2, <1>3, BuryStep DEF IInv, TypeOK, control
<1>4. CASE xfer' = [xfer EXCEPT ![s][x] = "flying"] /\ UNCHANGED dead_xfers
  <2>1. "flying" \in Pending
    BY DEF Pending
  <2>2. QED
    BY <1>1, <1>2, <1>4, <2>1, MoveStep DEF IInv, TypeOK, control
<1>5. QED
  BY <1>3, <1>4 DEF iso_callback, CallbackDead, CallbackData, CallbackGone, Resubmit

LEMMA StartIsoStep ==
  ASSUME IInv, NEW s \in Streams, NEW ok \in SUBSET Xfers, StartIso(s, ok)
  PROVE  IInv'
<1>1. /\ op = "app" /\ opened /\ ~running[s] /\ op' = "starting" /\ cur' = s
      /\ bufs' = [bufs EXCEPT ![s] = TRUE] /\ live' = [live EXCEPT ![s] = TRUE]
      /\ dead' = [dead EXCEPT ![s] = FALSE]
      /\ xfer' = [xfer EXCEPT ![s] = [x \in Xfers |-> IF x \in ok THEN "flying" ELSE "idle"]]
      /\ dead_xfers' = [dead_xfers EXCEPT ![s] = Cardinality(Xfers \ ok)]
      /\ UNCHANGED <<present, opened, device_dead, running, todo, closing>>
  BY DEF StartIso
<1>2. TypeOK
  BY DEF IInv
<1>3. Idle(s)' = Xfers \ ok /\ \A r \in Streams : r # s => Idle(r)' = Idle(r)
  BY <1>1, <1>2 DEF Idle, TypeOK
<1>4. Cardinality(Xfers \ ok) \in 0 .. num_xfers
  <2>1. IsFiniteSet(Xfers \ ok) /\ Cardinality(Xfers \ ok) <= num_xfers
    BY FS_Subset, XferAssumption DEF num_xfers
  <2>2. QED
    BY <2>1, FS_CardinalityType, XferAssumption DEF num_xfers
<1>5. TypeOK'
  <2>1. xfer' \in [Streams -> [Xfers -> XferStates]]
    BY <1>1, <1>2 DEF TypeOK, XferStates, Pending
  <2>2. dead_xfers' \in [Streams -> 0 .. num_xfers]
    BY <1>1, <1>2, <1>4 DEF TypeOK
  <2>3. QED
    BY <1>1, <1>2, <2>1, <2>2 DEF TypeOK
<1>6. DeadXfersExact'
  BY <1>1, <1>2, <1>3 DEF IInv, DeadXfersExact, TypeOK
<1>7. CallbacksFindBuffers'
  BY <1>1, <1>2 DEF IInv, CallbacksFindBuffers, TypeOK
<1>8. TransfersWhileLive'
  BY <1>1, <1>2 DEF IInv, TransfersWhileLive, TypeOK
<1>9. LiveOrUnderWay'
  BY <1>1, <1>2 DEF IInv, LiveOrUnderWay, TypeOK
<1>10. ClosingStopsAll'
  BY <1>1 DEF IInv, ClosingStopsAll
<1>11. QED
  BY <1>5, <1>6, <1>7, <1>8, <1>9, <1>10 DEF IInv

\* Steps that change neither transfers nor counts.
LEMMA ControlStep ==
  ASSUME IInv, UNCHANGED <<live, bufs, dead, dead_xfers, xfer, opened, running>>
  PROVE  DeadXfersExact' /\ CallbacksFindBuffers' /\ TransfersWhileLive'
<1>1. \A s : Idle(s)' = Idle(s)
  BY DEF Idle
<1>2. QED
  BY <1>1 DEF IInv, DeadXfersExact, CallbacksFindBuffers, TransfersWhileLive

LEMMA CallStep ==
  ASSUME IInv, Events \/ EventsDone \/ Unplug \/ (\E s \in Streams : Stop(s) \/ StopIdle(s))
  PROVE  IInv'
<1>1. UNCHANGED <<live, bufs, dead, dead_xfers, xfer, opened, running>>
  BY DEF Events, EventsDone, Unplug, Stop, StopIdle, streams
<1>2. TypeOK' /\ LiveOrUnderWay' /\ ClosingStopsAll'
  <2>1. CASE Events
    BY <2>1 DEF Events, IInv, TypeOK, LiveOrUnderWay, ClosingStopsAll, RunningStreams, streams
  <2>2. CASE EventsDone
    BY <2>2 DEF EventsDone, IInv, TypeOK, LiveOrUnderWay, ClosingStopsAll, RunningStreams, streams
  <2>3. CASE Unplug
    BY <2>3 DEF Unplug, IInv, TypeOK, LiveOrUnderWay, ClosingStopsAll, RunningStreams,
                streams, control
  <2>4. CASE \E s \in Streams : Stop(s)
    BY <2>4 DEF Stop, IInv, TypeOK, LiveOrUnderWay, ClosingStopsAll, RunningStreams, streams
  <2>5. CASE \E s \in Streams : StopIdle(s)
    BY <2>5 DEF StopIdle, Stoppable, IInv, TypeOK, LiveOrUnderWay, ClosingStopsAll,
                RunningStreams, streams
  <2>6. QED
    BY <2>1, <2>2, <2>3, <2>4, <2>5
<1>3. QED
  BY <1>1, <1>2, ControlStep DEF IInv

\* freenect_camera_teardown() stops one stream: enough if one is running.
LEMMA CloseStep ==
  ASSUME IInv, MaxRunningAtClose <= 1, Close
  PROVE  IInv'
<1>1. UNCHANGED <<live, bufs, dead, dead_xfers, xfer, opened, running>>
  BY DEF Close, streams
<1>2. RunningStreams \subseteq Teardown
  <2>1. SUFFICES ASSUME running["depth"], running["video"] PROVE FALSE
    BY DEF RunningStreams, Teardown, Streams, IInv, TypeOK
  <2>2. RunningStreams = {"depth"} \cup {"video"}
    BY <2>1 DEF RunningStreams, Streams
  <2>3. IsFiniteSet({"depth"}) /\ Cardinality({"depth"}) = 1
    BY FS_Singleton
  <2>4. Cardinality(RunningStreams) = 2
    BY <2>2, <2>3, FS_AddElement
  <2>5. QED
    BY <2>4, XferAssumption DEF Close
<1>3. RunningStreams' = RunningStreams
  BY <1>1 DEF RunningStreams
<1>4. Teardown \in SUBSET Streams
  BY DEF Teardown, Streams
<1>5. TypeOK' /\ LiveOrUnderWay'
  BY <1>4 DEF Close, IInv, TypeOK, LiveOrUnderWay, streams
<1>6. ClosingStopsAll'
  BY <1>2, <1>3 DEF Close, ClosingStopsAll
<1>7. QED
  BY <1>1, <1>5, <1>6, ControlStep DEF IInv

LEMMA OpenStep ==
  ASSUME IInv, Open
  PROVE  IInv'
<1>1. \A s \in Streams : ~live[s] /\ ~running[s]
  BY DEF Open, IInv, TransfersWhileLive, CallbacksFindBuffers, TypeOK
<1>2. TypeOK'
  <2>1. 0 \in 0 .. num_xfers
    BY FS_CardinalityType, XferAssumption DEF num_xfers
  <2>2. QED
    BY <2>1 DEF Open, IInv, TypeOK, control
<1>3. QED
  BY <1>1, <1>2 DEF Open, IInv, DeadXfersExact, CallbacksFindBuffers, TransfersWhileLive,
       LiveOrUnderWay, ClosingStopsAll, RunningStreams, control

LEMMA StartDoneStep ==
  ASSUME IInv, StartDone
  PROVE  IInv'
<1>1. TypeOK'
  BY DEF StartDone, IInv, TypeOK
<1>2. \A s : Idle(s)' = Idle(s)
  BY DEF Idle, StartDone
<1>3. DeadXfersExact' /\ TransfersWhileLive'
  BY <1>2 DEF StartDone, IInv, DeadXfersExact, TransfersWhileLive
<1>4. QED
  BY <1>1, <1>3 DEF StartDone, IInv, TypeOK, CallbacksFindBuffers, LiveOrUnderWay,
                    ClosingStopsAll

LEMMA StopCameraStep ==
  ASSUME IInv, NEW s \in Streams, StopCamera(s)
  PROVE  IInv'
<1>1. TypeOK'
  BY DEF StopCamera, Stoppable, IInv, TypeOK
<1>2. \A r : Idle(r)' = Idle(r)
  BY DEF Idle, StopCamera
<1>3. DeadXfersExact' /\ TransfersWhileLive'
  BY <1>2 DEF StopCamera, IInv, DeadXfersExact, TransfersWhileLive
<1>4. CallbacksFindBuffers' /\ LiveOrUnderWay'
  BY DEF StopCamera, Stoppable, IInv, TypeOK, CallbacksFindBuffers, LiveOrUnderWay
<1>5. ClosingStopsAll'
  BY DEF StopCamera, Stoppable, IInv, TypeOK, ClosingStopsAll, RunningStreams
<1>6. QED
  BY <1>1, <1>3, <1>4, <1>5 DEF IInv

LEMMA StopIsoStep ==
  ASSUME IInv, StopIso
  PROVE  IInv'
<1>1. TypeOK
  BY DEF IInv
<1>2. xfer' = [xfer EXCEPT ![cur] =
                 [x \in Xfers |-> IF xfer[cur][x] = "flying" THEN "cancelling" ELSE xfer[cur][x]]]
  BY <1>1 DEF StopIso, TypeOK
<1>3. xfer' \in [Streams -> [Xfers -> XferStates]]
  BY <1>1, <1>2 DEF TypeOK, XferStates, Pending
<1>4. TypeOK'
  BY <1>1, <1>3 DEF StopIso, TypeOK
<1>5. \A s \in Streams : Idle(s)' = Idle(s)
  BY <1>1, <1>2 DEF Idle, TypeOK
<1>6. DeadXfersExact'
  BY <1>5 DEF StopIso, IInv, DeadXfersExact
<1>7. TransfersWhileLive'
  BY <1>1, <1>2 DEF StopIso, IInv, TransfersWhileLive, TypeOK
<1>8. CallbacksFindBuffers' /\ LiveOrUnderWay' /\ ClosingStopsAll'
  BY <1>1 DEF StopIso, IInv, TypeOK, CallbacksFindBuffers, LiveOrUnderWay, ClosingStopsAll,
              RunningStreams
<1>9. QED
  BY <1>4, <1>6, <1>7, <1>8 DEF IInv

\* fnusb_stop_iso() leaves its loop only when every transfer is idle.
LEMMA StopDoneStep ==
  ASSUME IInv, StopDone
  PROVE  IInv'
<1>1. TypeOK /\ cur \in Streams /\ live[cur]
  BY DEF IInv, TypeOK, StopDone, LiveOrUnderWay
<1>2. Idle(cur) = Xfers
  <2>1. Cardinality(Idle(cur)) >= num_xfers
    BY <1>1 DEF IInv, DeadXfersExact, StopDone
  <2>2. QED
    BY <2>1, IdleFacts
<1>3. xfer' = [xfer EXCEPT ![cur] = [x \in Xfers |-> "none"]]
  <2>1. \A x \in Xfers : Freed(cur, x) = "none"
    BY <1>2 DEF Freed, Idle, Pending, Finished
  <2>2. QED
    BY <2>1 DEF StopDone
<1>4. TypeOK'
  <2>1. xfer' \in [Streams -> [Xfers -> XferStates]]
    BY <1>1, <1>3 DEF TypeOK, XferStates
  <2>2. QED
    BY <1>1, <2>1 DEF StopDone, TypeOK
<1>5. \A s \in Streams : s # cur => Idle(s)' = Idle(s)
  BY <1>1, <1>3 DEF Idle, TypeOK
<1>6. DeadXfersExact'
  BY <1>1, <1>5 DEF StopDone, IInv, DeadXfersExact, TypeOK
<1>7. TransfersWhileLive'
  BY <1>1, <1>3 DEF StopDone, IInv, TransfersWhileLive, TypeOK
<1>8. CallbacksFindBuffers' /\ LiveOrUnderWay' /\ ClosingStopsAll'
  BY <1>1 DEF StopDone, IInv, TypeOK, CallbacksFindBuffers, LiveOrUnderWay, ClosingStopsAll,
              RunningStreams
<1>9. QED
  BY <1>4, <1>6, <1>7, <1>8 DEF IInv

\* When a device is freed, no stream of it is live any more.
LEMMA CallDoneStep ==
  ASSUME IInv, CallDone
  PROVE  IInv'
<1>1. TypeOK /\ op = "stopping" /\ todo = {}
  BY DEF IInv, CallDone
<1>2. \A s : Idle(s)' = Idle(s)
  BY DEF Idle, CallDone
<1>3. DeadXfersExact'
  BY <1>2 DEF IInv, CallDone, DeadXfersExact
<1>4. TypeOK'
  BY <1>1 DEF CallDone, TypeOK
<1>5. CASE ~closing
  <2>1. running' = running /\ opened' = TRUE
    BY <1>1, <1>5 DEF CallDone, TypeOK
  <2>2. QED
    BY <1>1, <1>3, <1>4, <2>1, <1>5 DEF CallDone, IInv, CallbacksFindBuffers, TransfersWhileLive,
         LiveOrUnderWay, ClosingStopsAll
<1>6. CASE closing
  <2>1. \A s \in Streams : ~running[s] /\ ~live[s]
    BY <1>1, <1>6 DEF IInv, ClosingStopsAll, RunningStreams, LiveOrUnderWay
  <2>2. \A s \in Streams : ~running'[s] /\ live' = live /\ xfer' = xfer /\ closing' = FALSE
                            /\ op' = "app"
    BY <2>1 DEF CallDone
  <2>3. QED
    BY <1>3, <1>4, <2>1, <2>2 DEF IInv, CallbacksFindBuffers, TransfersWhileLive,
         LiveOrUnderWay, ClosingStopsAll, Streams
<1>7. QED
  BY <1>1, <1>5, <1>6 DEF TypeOK

LEMMA StutterStep ==
  ASSUME IInv, UNCHANGED vars
  PROVE  IInv'
<1>1. UNCHANGED <<live, bufs, dead, dead_xfers, xfer, opened, running>>
  BY DEF vars, streams
<1>2. TypeOK' /\ LiveOrUnderWay' /\ ClosingStopsAll'
  BY DEF vars, streams, control, IInv, TypeOK, LiveOrUnderWay, ClosingStopsAll, RunningStreams
<1>3. QED
  BY <1>1, <1>2, ControlStep DEF IInv

LEMMA InitInvariant == Init => IInv
<1> SUFFICES ASSUME Init PROVE IInv
  OBVIOUS
<1>1. TypeOK
  <2>1. 0 \in 0 .. num_xfers
    BY FS_CardinalityType, XferAssumption DEF num_xfers
  <2>2. QED
    BY <2>1 DEF Init, TypeOK, XferStates, Streams
<1>2. QED
  BY <1>1 DEF Init, IInv, DeadXfersExact, CallbacksFindBuffers, TransfersWhileLive,
       LiveOrUnderWay, ClosingStopsAll, Streams

LEMMA StepInvariant ==
  ASSUME MaxRunningAtClose <= 1
  PROVE  IInv /\ [Next]_vars => IInv'
<1> SUFFICES ASSUME IInv, [Next]_vars PROVE IInv'
  OBVIOUS
<1>1. CASE Call
  BY <1>1, OpenStep, CallStep, CloseStep, StartIsoStep DEF Call
<1>2. CASE Progress
  BY <1>2, StartDoneStep, CallStep, StopIsoStep, StopDoneStep, CallDoneStep, StopCameraStep
     DEF Progress
<1>3. CASE Unplug
  BY <1>3, CallStep
<1>4. CASE \E s \in Streams, x \in Xfers : Return(s, x) \/ iso_callback(s, x)
  BY <1>4, ReturnStep, CallbackStep
<1>5. CASE UNCHANGED vars
  BY <1>5, StutterStep
<1>6. QED
  BY <1>1, <1>2, <1>3, <1>4, <1>5 DEF Next

-----------------------------------------------------------------------------
(* The theorems. *)

\* The inductive invariant holds if the client closes a device with at most
\* one stream running.
THEOREM InductiveInvariant ==
  ASSUME MaxRunningAtClose <= 1
  PROVE  Spec => []IInv
BY InitInvariant, StepInvariant, PTL DEF Spec

\* fnusb_stop_iso() waits for exactly the transfers that will still call
\* back, for any number of transfers.
THEOREM DeadXfersAreExact ==
  ASSUME MaxRunningAtClose <= 1
  PROVE  Spec => []DeadXfersExact
BY InductiveInvariant, PTL DEF IInv

\* Neither fnusb_stop_iso() nor freenect_close_device() frees what libusb
\* still holds.
THEOREM NothingFreedInFlight ==
  ASSUME MaxRunningAtClose <= 1
  PROVE  Spec => []NoFreeInFlight
<1>1. IInv => NoFreeInFlight
  BY PendingIsLive DEF NoFreeInFlight
<1>2. QED
  BY <1>1, InductiveInvariant, PTL

\* Packets handed to a stream from a callback find its buffers allocated.
THEOREM BuffersOutliveCallbacks ==
  ASSUME MaxRunningAtClose <= 1
  PROVE  Spec => []CallbacksFindBuffers
BY InductiveInvariant, PTL DEF IInv

\* The accounts of fnusb_start_iso(), iso_callback() and fnusb_stop_iso() hold
\* together, with the types of what they count.
THEOREM UsbInvariant ==
  ASSUME MaxRunningAtClose <= 1
  PROVE  Spec => []UsbInv
<1>1. IInv => UsbInv
  BY DEF IInv, UsbInv
<1>2. QED
  BY <1>1, InductiveInvariant, PTL

-----------------------------------------------------------------------------
(* The modes of the two streams (module Modes).                              *)

ModesSpec(formats) == ModesInit /\ [][ModesNext(formats)]_modeVars

VideoMode(m) ==
  /\ m.res \in {"medium", "high"}
  /\ m.fmt \in {"RGB", "BAYER", "YUV_RGB", "YUV_RAW"} \cup IR
  /\ m.fmt \notin Aligned /\ m.bytes \in Nat
  /\ 8 * m.bytes = m.w * m.h * (m.bits + m.pad)
  /\ m.w = IF m.res = "high" THEN 1280 ELSE 640
  /\ m.h = IF m.res = "high" THEN 1024 ELSE IF m.fmt \in IR THEN 488 ELSE 480
  /\ m.fmt \in {"YUV_RGB", "YUV_RAW"} => m.res = "medium"
  /\ m.fmt = "BAYER" => m.bits + m.pad = 8
  /\ m.fmt = "IR_10BIT_PACKED" => m.bits + m.pad = 10
  /\ m.fmt = "YUV_RAW" => m.bits + m.pad = 16

LEMMA VideoModes == \A m \in SupportedVideo : VideoMode(m)
<1>1. /\ VideoMode(Mode("RGB", "high", 1280, 1024, 24, 0, 1280*1024*3))
      /\ VideoMode(Mode("RGB", "medium", 640, 480, 24, 0, 640*480*3))
      /\ VideoMode(Mode("BAYER", "high", 1280, 1024, 8, 0, 1280*1024))
      /\ VideoMode(Mode("BAYER", "medium", 640, 480, 8, 0, 640*480))
      /\ VideoMode(Mode("IR_8BIT", "high", 1280, 1024, 8, 0, 1280*1024))
      /\ VideoMode(Mode("IR_8BIT", "medium", 640, 488, 8, 0, 640*488))
  BY DEF VideoMode, Mode, IR, Aligned
<1>2. /\ VideoMode(Mode("IR_10BIT", "high", 1280, 1024, 10, 6, 1280*1024*2))
      /\ VideoMode(Mode("IR_10BIT", "medium", 640, 488, 10, 6, 640*488*2))
      /\ VideoMode(Mode("IR_10BIT_PACKED", "high", 1280, 1024, 10, 0, (1280*1024*10) \div 8))
      /\ VideoMode(Mode("IR_10BIT_PACKED", "medium", 640, 488, 10, 0, (640*488*10) \div 8))
      /\ VideoMode(Mode("YUV_RGB", "medium", 640, 480, 24, 0, 640*480*3))
      /\ VideoMode(Mode("YUV_RAW", "medium", 640, 480, 16, 0, 640*480*2))
  BY DEF VideoMode, Mode, IR, Aligned
<1>3. QED
  BY <1>1, <1>2 DEF SupportedVideo

DepthFormats == {"11BIT", "10BIT", "11BIT_PACKED", "10BIT_PACKED", "REGISTERED", "MM"}
DepthMode(m) ==
  /\ m.res = "medium" /\ m.fmt \in DepthFormats /\ m.w = 640 /\ m.h = 480
  /\ m.bytes \in Nat /\ 8 * m.bytes = m.w * m.h * (m.bits + m.pad)
  /\ m.fmt \in Aligned => m.bits + m.pad = 16
  /\ m.bits = 10 <=> m.fmt \in {"10BIT", "10BIT_PACKED"}
  /\ m.fmt = "11BIT" => m.bits + m.pad = 16
  /\ m.fmt = "10BIT_PACKED" => m.bits + m.pad = 10
  /\ m.fmt = "11BIT_PACKED" => m.bits + m.pad = 11

LEMMA DepthModes == \A m \in SupportedDepth : DepthMode(m)
<1>1. /\ DepthMode(Mode("11BIT", "medium", 640, 480, 11, 5, 640*480*2))
      /\ DepthMode(Mode("10BIT", "medium", 640, 480, 10, 6, 640*480*2))
      /\ DepthMode(Mode("11BIT_PACKED", "medium", 640, 480, 11, 0, (640*480*11) \div 8))
      /\ DepthMode(Mode("10BIT_PACKED", "medium", 640, 480, 10, 0, (640*480*10) \div 8))
      /\ DepthMode(Mode("REGISTERED", "medium", 640, 480, 16, 0, 640*480*2))
      /\ DepthMode(Mode("MM", "medium", 640, 480, 16, 0, 640*480*2))
  BY DEF DepthMode, Mode, Aligned, DepthFormats
<1>2. QED
  BY <1>1 DEF SupportedDepth

\* What the tables find.
LEMMA FindIsFound ==
  ASSUME NEW modes, NEW res, NEW fmt, NEW x \in modes, x.fmt = fmt, x.res = res
  PROVE  /\ Find(modes, res, fmt) \in modes
         /\ Find(modes, res, fmt).fmt = fmt /\ Find(modes, res, fmt).res = res
BY DEF Find

LEMMA DepthBuffers ==
  ASSUME NEW m \in SupportedDepth
  PROVE  /\ DepthRaw(m) \in Nat /\ DepthProc(m) \in Nat
         /\ 8 * DepthProc(m) = m.w * m.h * (m.bits + m.pad)
         /\ DepthRaw(m) # 0 => 8 * DepthRaw(m) = m.w * m.h * PackedBits(m.fmt)
<1> DEFINE a == Find(SupportedDepth, "medium", "11BIT")
           b == Find(SupportedDepth, "medium", "11BIT_PACKED")
           c == Find(SupportedDepth, "medium", "10BIT_PACKED")
<1>1. /\ Mode("11BIT", "medium", 640, 480, 11, 5, 640*480*2) \in SupportedDepth
      /\ Mode("11BIT_PACKED", "medium", 640, 480, 11, 0, (640*480*11) \div 8) \in SupportedDepth
      /\ Mode("10BIT_PACKED", "medium", 640, 480, 10, 0, (640*480*10) \div 8) \in SupportedDepth
  BY DEF SupportedDepth
<1>2. a \in SupportedDepth /\ a.fmt = "11BIT"
  BY <1>1, FindIsFound DEF Mode
<1>3. b \in SupportedDepth /\ b.fmt = "11BIT_PACKED"
  BY <1>1, FindIsFound DEF Mode
<1>4. c \in SupportedDepth /\ c.fmt = "10BIT_PACKED"
  BY <1>1, FindIsFound DEF Mode
<1>5. /\ DepthMode(m) /\ DepthProc(m) = IF m.fmt \in Aligned THEN a.bytes ELSE m.bytes
      /\ DepthRaw(m) = IF m.fmt = "10BIT" THEN c.bytes
                       ELSE IF m.fmt \in {"11BIT"} \cup Aligned THEN b.bytes ELSE 0
  BY DepthModes DEF DepthProc, DepthRaw, RawDepthFormat, DepthMode, DepthFormats, Aligned
<1> HIDE DEF a, b, c
<1>6. a.bytes = 640*480*2 /\ b.bytes = (640*480*11) \div 8 /\ c.bytes = (640*480*10) \div 8
  <2>1. DepthMode(a) /\ DepthMode(b) /\ DepthMode(c)
    BY <1>2, <1>3, <1>4, DepthModes
  <2>2. 8 * a.bytes = 640*480*16 /\ a.bytes \in Nat
    BY <2>1, <1>2 DEF DepthMode
  <2>3. 8 * b.bytes = 640*480*11 /\ b.bytes \in Nat
    BY <2>1, <1>3 DEF DepthMode
  <2>4. 8 * c.bytes = 640*480*10 /\ c.bytes \in Nat
    BY <2>1, <1>4 DEF DepthMode
  <2>5. QED
    BY <2>2, <2>3, <2>4
<1>7. 8 * DepthProc(m) = m.w * m.h * (m.bits + m.pad)
  BY <1>5, <1>6 DEF DepthMode
<1>8. DepthRaw(m) # 0 => 8 * DepthRaw(m) = m.w * m.h * PackedBits(m.fmt)
  BY <1>5, <1>6 DEF DepthMode, PackedBits, Aligned
<1>9. QED
  BY <1>5, <1>6, <1>7, <1>8 DEF DepthMode

LEMMA VideoBuffers ==
  ASSUME NEW m \in SupportedVideo
  PROVE  /\ VideoRaw(m) \in Nat
         /\ VideoRaw(m) # 0 => 8 * VideoRaw(m) = m.w * m.h * PackedBits(m.fmt)
<1>1. VideoMode(m)
  BY VideoModes
<1>2. DOMAIN RawFormat = {"RGB", "IR_8BIT", "IR_10BIT", "YUV_RGB"}
      /\ RawFormat["RGB"] = "BAYER" /\ RawFormat["IR_8BIT"] = "IR_10BIT_PACKED"
      /\ RawFormat["IR_10BIT"] = "IR_10BIT_PACKED" /\ RawFormat["YUV_RGB"] = "YUV_RAW"
  BY DEF RawFormat
<1>3. CASE m.fmt = "RGB"
  <2> DEFINE f == Find(SupportedVideo, m.res, "BAYER")
  <2>1. /\ Mode("BAYER", "high", 1280, 1024, 8, 0, 1280*1024) \in SupportedVideo
        /\ Mode("BAYER", "medium", 640, 480, 8, 0, 640*480) \in SupportedVideo
    BY DEF SupportedVideo
  <2>2. f \in SupportedVideo /\ f.fmt = "BAYER" /\ f.res = m.res
    BY <1>1, <2>1, FindIsFound DEF Mode, VideoMode
  <2>3. VideoRaw(m) = f.bytes
    BY <1>2, <1>3 DEF VideoRaw
  <2> HIDE DEF f
  <2>4. VideoMode(f)
    BY <2>2, VideoModes
  <2>5. 8 * f.bytes = f.w * f.h * 8 /\ f.w = m.w /\ f.h = m.h /\ f.bytes \in Nat
    BY <1>1, <1>3, <2>2, <2>4 DEF VideoMode, IR
  <2>6. QED
    BY <1>3, <2>3, <2>5 DEF PackedBits
<1>4. CASE m.fmt \in {"IR_8BIT", "IR_10BIT"}
  <2> DEFINE f == Find(SupportedVideo, m.res, "IR_10BIT_PACKED")
  <2>1. /\ Mode("IR_10BIT_PACKED", "high", 1280, 1024, 10, 0, (1280*1024*10) \div 8)
             \in SupportedVideo
        /\ Mode("IR_10BIT_PACKED", "medium", 640, 488, 10, 0, (640*488*10) \div 8)
             \in SupportedVideo
    BY DEF SupportedVideo
  <2>2. f \in SupportedVideo /\ f.fmt = "IR_10BIT_PACKED" /\ f.res = m.res
    BY <1>1, <2>1, FindIsFound DEF Mode, VideoMode
  <2>3. VideoRaw(m) = f.bytes
    BY <1>2, <1>4 DEF VideoRaw
  <2> HIDE DEF f
  <2>4. VideoMode(f)
    BY <2>2, VideoModes
  <2>5. 8 * f.bytes = f.w * f.h * 10 /\ f.w = m.w /\ f.h = m.h /\ f.bytes \in Nat
    BY <1>1, <1>4, <2>2, <2>4 DEF VideoMode, IR
  <2>6. QED
    BY <1>4, <2>3, <2>5 DEF PackedBits
<1>5. CASE m.fmt = "YUV_RGB"
  <2> DEFINE f == Find(SupportedVideo, m.res, "YUV_RAW")
  <2>1. Mode("YUV_RAW", "medium", 640, 480, 16, 0, 640*480*2) \in SupportedVideo
    BY DEF SupportedVideo
  <2>2. f \in SupportedVideo /\ f.fmt = "YUV_RAW" /\ f.res = m.res
    BY <1>1, <1>5, <2>1, FindIsFound DEF Mode, VideoMode
  <2>3. VideoRaw(m) = f.bytes
    BY <1>2, <1>5 DEF VideoRaw
  <2> HIDE DEF f
  <2>4. VideoMode(f)
    BY <2>2, VideoModes
  <2>5. 8 * f.bytes = f.w * f.h * 16 /\ f.w = m.w /\ f.h = m.h /\ f.bytes \in Nat
    BY <1>1, <1>5, <2>2, <2>4 DEF VideoMode, IR
  <2>6. QED
    BY <1>5, <2>3, <2>5 DEF PackedBits
<1>6. CASE m.fmt \notin {"RGB", "IR_8BIT", "IR_10BIT", "YUV_RGB"}
  BY <1>2, <1>6 DEF VideoRaw
<1>7. QED
  BY <1>3, <1>4, <1>5, <1>6

(* Registers. *)

Pairs == Registers \X (0 .. 30)

\* The last command for a register that reaches the camera decides its value.
LEMMA Written ==
  ASSUME NEW s, NEW k, Write(s, k), NEW j \in DOMAIN s, DOMAIN s \subseteq Int, j # k,
         s[j][1] \in Registers,
         \A i \in DOMAIN s : i > j => s[i][1] # s[j][1]
  PROVE  regs'[s[j][1]] = s[j][2]
<1> DEFINE on == {i \in DOMAIN s \ {k} : s[i][1] = s[j][1]}
<1>1. j \in on /\ \A i \in on : j >= i
  OBVIOUS
<1>2. Max(on) = j
  <2> HIDE DEF on
  <2>1. on \subseteq Int
    BY DEF on
  <2>2. QED
    BY <1>1, <2>1 DEF Max
<1>3. on # {} /\ regs'[s[j][1]] = IF on = {} THEN regs[s[j][1]] ELSE s[Max(on)][2]
  BY <1>1 DEF Write
<1>4. QED
  BY <1>2, <1>3

LEMMA NotWritten ==
  ASSUME NEW s, NEW k, Write(s, k), NEW r \in Registers, \A i \in DOMAIN s : s[i][1] # r
  PROVE  regs'[r] = regs[r]
<1>1. {i \in DOMAIN s \ {k} : s[i][1] = r} = {}
  OBVIOUS
<1>2. QED
  BY <1>1 DEF Write

LEMMA LeastNumber ==
  ASSUME NEW T, T \subseteq Nat, T # {}
  PROVE  \E m \in T : \A x \in T : m <= x
<1> DEFINE R == OpToRel(<, Nat)
<1>1. \A x, m \in Nat : <<x, m>> \in R <=> x < m
  BY DEF OpToRel
<1>2. IsWellFoundedOn(R, Nat)
  BY NatLessThanWellFounded
<1> HIDE DEF R
<1>3. PICK m \in T : \A x \in T : ~(<<x, m>> \in R)
  BY <1>2, WFMin
<1>4. \A x \in T : m <= x
  <2>1. \A x \in T : ~(x < m) /\ x \in Nat /\ m \in Nat
    BY <1>1, <1>3
  <2>2. QED
    BY <2>1
<1>5. QED
  BY <1>4

LEMMA WrittenType ==
  ASSUME NEW s, NEW k, Write(s, k), regs \in [Registers -> 0 .. 30],
         NEW n \in Nat, DOMAIN s = 1 .. n, \A i \in DOMAIN s : s[i][2] \in 0 .. 30
  PROVE  regs' \in [Registers -> 0 .. 30]
<1>1. ASSUME NEW r \in Registers PROVE regs'[r] \in 0 .. 30
  <2> DEFINE on == {i \in DOMAIN s \ {k} : s[i][1] = r}
  <2>1. regs'[r] = IF on = {} THEN regs[r] ELSE s[Max(on)][2]
    BY DEF Write
  <2>2. CASE on # {}
    <3>1. PICK m \in on : \A i \in on : m >= i
      <4> DEFINE T == {n - i : i \in on}
      <4>1. T \subseteq Nat /\ T # {}
        BY <2>2
      <4> HIDE DEF T
      <4>2. PICK t \in T : \A x \in T : t <= x
        BY <4>1, LeastNumber
      <4>3. PICK m \in on : t = n - m
        BY DEF T
      <4>4. ASSUME NEW i \in on PROVE m >= i
        <5>1. n - i \in T
          BY DEF T
        <5>2. n - m <= n - i
          BY <4>2, <4>3, <5>1
        <5>3. QED
          BY <5>2
      <4>5. QED
        BY <4>4
    <3>2. Max(on) \in on
      <4> HIDE DEF on
      <4>1. QED
        BY <3>1 DEF Max
    <3>3. QED
      BY <2>1, <2>2, <3>2
  <2>3. QED
    BY <2>1, <2>2
<1>2. QED
  BY <1>1 DEF Write

LEMMA DepthStartWrites ==
  ASSUME NEW m \in SupportedDepth, NEW k, Write(StartDepthWrites(m), k),
         regs \in [Registers -> 0 .. 30]
  PROVE  /\ regs' \in [Registers -> 0 .. 30]
         /\ k = 0 => /\ regs'["06"] = 2 /\ regs'["13"] = 1 /\ regs'["14"] = 30
                     /\ regs'["12"] = IF m.bits = 10 THEN 2 ELSE 3
         /\ \A r \in {"05", "0c", "0d", "0e", "19", "1a", "1b"} : regs'[r] = regs[r]
<1> DEFINE s == StartDepthWrites(m)
<1>1. /\ DOMAIN s = 1 .. 7
      /\ s[1] = <<"105", 0>> /\ s[2] = <<"06", 0>> /\ s[4] = <<"13", 1>>
      /\ s[5] = <<"14", 30>> /\ s[6] = <<"06", 2>> /\ s[7] = <<"17", 0>>
      /\ s[3][1] = "12" /\ s[3][2] = IF m.bits = 10 THEN 2 ELSE 3
  BY DepthModes DEF StartDepthWrites, DepthMode
<1>2. DOMAIN s \subseteq Int /\ Write(s, k)
  BY <1>1
<1> HIDE DEF s
<1>3. regs' \in [Registers -> 0 .. 30]
  <2>1. \A i \in 1 .. 7 : s[i][2] \in 0 .. 30
    BY <1>1
  <2>2. QED
    BY <1>1, <1>2, <2>1, WrittenType
<1>4. ASSUME k = 0, NEW j \in {3, 4, 5, 6} PROVE regs'[s[j][1]] = s[j][2]
  <2>1. j \in DOMAIN s /\ j # k /\ s[j][1] \in Registers
    BY <1>1, <1>4 DEF Registers
  <2>2. \A i \in DOMAIN s : i > j => s[i][1] # s[j][1]
    BY <1>1, <1>4
  <2>3. QED
    BY <1>2, <2>1, <2>2, Written
<1>5. ASSUME NEW r \in {"05", "0c", "0d", "0e", "19", "1a", "1b"} PROVE regs'[r] = regs[r]
  <2>1. r \in Registers /\ \A i \in DOMAIN s : s[i][1] # r
    BY <1>1 DEF Registers
  <2>2. QED
    BY <1>2, <2>1, NotWritten
<1>6. k = 0 => /\ regs'["06"] = 2 /\ regs'["13"] = 1 /\ regs'["14"] = 30
              /\ regs'["12"] = IF m.bits = 10 THEN 2 ELSE 3
  BY <1>1, <1>4
<1>7. QED
  BY <1>3, <1>5, <1>6

LEMMA OneWrite ==
  ASSUME NEW r \in Registers, NEW k, Write(<<<<r, 0>>>>, k), regs \in [Registers -> 0 .. 30]
  PROVE  /\ regs' \in [Registers -> 0 .. 30]
         /\ k = 0 => regs'[r] = 0
         /\ \A o \in Registers \ {r} : regs'[o] = regs[o]
<1> DEFINE s == <<<<r, 0>>>>
<1>1. DOMAIN s = 1 .. 1 /\ s[1] = <<r, 0>>
  OBVIOUS
<1>2. DOMAIN s \subseteq Int /\ Write(s, k)
  BY <1>1
<1> HIDE DEF s
<1>3. regs' \in [Registers -> 0 .. 30]
  <2>1. \A i \in 1 .. 1 : s[i][2] \in 0 .. 30
    BY <1>1
  <2>2. QED
    BY <1>1, <1>2, <2>1, WrittenType
<1>4. ASSUME k = 0 PROVE regs'[r] = 0
  <2>1. 1 \in DOMAIN s /\ 1 # k /\ s[1][1] \in Registers
        /\ \A i \in DOMAIN s : i > 1 => s[i][1] # s[1][1]
    BY <1>1, <1>4
  <2>2. regs'[s[1][1]] = s[1][2]
    BY <1>2, <2>1, Written
  <2>3. QED
    BY <1>1, <2>2
<1>5. ASSUME NEW o \in Registers \ {r} PROVE regs'[o] = regs[o]
  <2>1. \A i \in DOMAIN s : s[i][1] # o
    BY <1>1
  <2>2. QED
    BY <1>2, <2>1, NotWritten
<1>6. QED
  BY <1>3, <1>4, <1>5

LEMMA PictureFacts ==
  ASSUME NEW m \in SupportedVideo
  PROVE  \E b \in {<<"19", "1a", "1b">>, <<"0c", "0d", "0e">>}, x, y, z \in 0 .. 30 :
           Picture(m) = <<<<b[1], x>>, <<b[2], y>>, <<b[3], z>>>>
<1>1. CASE m.fmt \in {"YUV_RGB", "YUV_RAW"}
  <2>1. Picture(m) = <<<<"0c", 5>>, <<"0d", 1>>, <<"0e", 15>>>>
    BY <1>1 DEF Picture
  <2>2. QED
    BY <2>1
<1>2. CASE m.fmt \notin {"YUV_RGB", "YUV_RAW"}
  <2>1. PICK b \in {<<"19", "1a", "1b">>, <<"0c", "0d", "0e">>} :
          Picture(m) = IF m.res = "high" THEN <<<<b[1], 0>>, <<b[2], 2>>, <<b[3], 15>>>>
                       ELSE <<<<b[1], 0>>, <<b[2], 1>>, <<b[3], 30>>>>
    BY <1>2 DEF Picture
  <2>2. PICK x, y, z \in 0 .. 30 : Picture(m) = <<<<b[1], x>>, <<b[2], y>>, <<b[3], z>>>>
    <3>1. CASE m.res = "high"
      <4>1. Picture(m) = <<<<b[1], 0>>, <<b[2], 2>>, <<b[3], 15>>>>
        BY <2>1, <3>1
      <4>2. QED
        BY <4>1
    <3>2. CASE m.res # "high"
      <4>1. Picture(m) = <<<<b[1], 0>>, <<b[2], 1>>, <<b[3], 30>>>>
        BY <2>1, <3>2
      <4>2. QED
        BY <4>1
    <3>3. QED
      BY <3>1, <3>2
  <2>3. QED
    BY <2>2
<1>3. QED
  BY <1>1, <1>2

\* What joining sequences of a and b elements gives.
IsJoin(r, S, p, q, a, b) ==
  /\ r \in Seq(S) /\ Len(r) = a + b
  /\ \A i \in 1 .. a : r[i] = p[i]
  /\ \A i \in 1 .. b : r[a + i] = q[i]

LEMMA Joined ==
  ASSUME NEW S, NEW p \in Seq(S), NEW q \in Seq(S), NEW a, NEW b, Len(p) = a, Len(q) = b
  PROVE  IsJoin(p \o q, S, p, q, a, b)
<1>1. /\ p \o q \in Seq(S) /\ Len(p \o q) = Len(p) + Len(q)
      /\ Len(p) \in Nat /\ Len(q) \in Nat
  BY ConcatProperties
<1>2. \A i \in 1 .. Len(p) + Len(q) :
        (p \o q)[i] = IF i <= Len(p) THEN p[i] ELSE q[i - Len(p)]
  BY ConcatProperties
<1>3. ASSUME NEW i \in 1 .. a PROVE (p \o q)[i] = p[i]
  BY <1>1, <1>2
<1>4. ASSUME NEW i \in 1 .. b PROVE (p \o q)[a + i] = q[i]
  <2>1. a + i \in 1 .. Len(p) + Len(q) /\ ~(a + i <= Len(p)) /\ (a + i) - Len(p) = i
    BY <1>1
  <2>2. QED
    BY <1>2, <2>1
<1>5. QED
  BY <1>1, <1>3, <1>4 DEF IsJoin

\* Of a stream's commands those after the workaround are its own.
LEMMA VideoStartWrites ==
  ASSUME NEW m \in SupportedVideo, NEW k \in Nat, NEW ok \in BOOLEAN,
         Write((IF HighIR(m) THEN Workaround ELSE << >>)
                 \o (IF ok THEN StartVideoWrites(m) ELSE << >>), k),
         regs \in [Registers -> 0 .. 30]
  PROVE  /\ regs' \in [Registers -> 0 .. 30]
         /\ ~ok => \A r \in {"05", "0c", "0d", "0e", "19", "1a", "1b"} : regs'[r] = regs[r]
         /\ ok /\ (k = 0 \/ k <= IF HighIR(m) THEN 4 ELSE 0) =>
              /\ regs'["05"] = IF m.fmt \in IR THEN 3 ELSE 1
              /\ \A i \in 1 .. 3 : regs'[Picture(m)[i][1]] = Picture(m)[i][2]
         /\ ~HighIR(m) => \A r \in {"06", "12", "13", "14"} : regs'[r] = regs[r]
         /\ HighIR(m) /\ (k = 0 \/ k > 4) => regs'["06"] = 0
<1> DEFINE first == IF HighIR(m) THEN Workaround ELSE << >>
           n == IF HighIR(m) THEN 4 ELSE 0
           tail == IF m.fmt \in IR THEN <<<<"105", 0>>, <<"05", 3>>, <<"48", 0>>>>
                   ELSE <<<<"05", 1>>, <<"47", 0>>>>
           t == IF m.fmt \in IR THEN 3 ELSE 2
           own == IF ok THEN StartVideoWrites(m) ELSE << >>
           o == IF ok THEN 3 + t ELSE 0
           s == first \o own
           W == Registers \X (0 .. 30)
<1>0. /\ \A r \in Registers, v \in 0 .. 30 : <<r, v>> \in W
      /\ \A w \in W : w[2] \in 0 .. 30
  OBVIOUS
<1> HIDE DEF W
<1>1. /\ first \in Seq(W) /\ Len(first) = n
      /\ HighIR(m) => /\ first[1] = <<"13", 1>> /\ first[2] = <<"14", 30>>
                      /\ first[3] = <<"06", 2>> /\ first[4] = <<"06", 0>>
  <2>1. <<"13", 1>> \in W /\ <<"14", 30>> \in W /\ <<"06", 2>> \in W /\ <<"06", 0>> \in W
    BY <1>0 DEF Registers
  <2>2. Workaround \in Seq(W) /\ Len(Workaround) = 4
    BY <2>1 DEF Workaround
  <2>3. /\ Workaround[1] = <<"13", 1>> /\ Workaround[2] = <<"14", 30>>
        /\ Workaround[3] = <<"06", 2>> /\ Workaround[4] = <<"06", 0>>
    BY DEF Workaround
  <2>4. CASE HighIR(m)
    <3>1. first = Workaround /\ n = 4
      BY <2>4
    <3> HIDE DEF first, n
    <3>2. QED
      BY <2>2, <2>3, <2>4, <3>1
  <2>5. CASE ~HighIR(m)
    <3>1. first = << >> /\ n = 0
      BY <2>5
    <3> HIDE DEF first, n
    <3>2. QED
      BY <2>5, <3>1
  <2>6. QED
    BY <2>4, <2>5
<1>2. PICK b \in {<<"19", "1a", "1b">>, <<"0c", "0d", "0e">>}, x, y, z \in 0 .. 30 :
        Picture(m) = <<<<b[1], x>>, <<b[2], y>>, <<b[3], z>>>>
  BY PictureFacts
<1>3. /\ Picture(m) \in Seq(W) /\ Len(Picture(m)) = 3
      /\ \A i \in 1 .. 3 : Picture(m)[i][1] = b[i]
  <2>1. b[1] \in Registers /\ b[2] \in Registers /\ b[3] \in Registers
    BY DEF Registers
  <2>2. <<b[1], x>> \in W /\ <<b[2], y>> \in W /\ <<b[3], z>> \in W
    BY <1>0, <2>1
  <2>3. Picture(m) \in Seq(W) /\ Len(Picture(m)) = 3
    BY <1>2, <2>2
  <2>4. /\ Picture(m)[1] = <<b[1], x>> /\ Picture(m)[2] = <<b[2], y>>
        /\ Picture(m)[3] = <<b[3], z>>
    BY <1>2
  <2>5. QED
    BY <2>3, <2>4
<1>4. /\ tail \in Seq(W) /\ Len(tail) = t
      /\ m.fmt \in IR => /\ tail[1] = <<"105", 0>> /\ tail[2] = <<"05", 3>>
                         /\ tail[3] = <<"48", 0>>
      /\ m.fmt \notin IR => /\ tail[1] = <<"05", 1>>
                            /\ tail[2] = <<"47", 0>>
  <2>1. /\ <<"105", 0>> \in W /\ <<"05", 3>> \in W /\ <<"48", 0>> \in W
        /\ <<"05", 1>> \in W /\ <<"47", 0>> \in W
    BY <1>0 DEF Registers
  <2>2. CASE m.fmt \in IR
    <3>1. tail = <<<<"105", 0>>, <<"05", 3>>, <<"48", 0>>>> /\ t = 3
      BY <2>2
    <3> HIDE DEF tail, t
    <3>2. QED
      BY <2>1, <2>2, <3>1
  <2>3. CASE m.fmt \notin IR
    <3>1. tail = <<<<"05", 1>>, <<"47", 0>>>> /\ t = 2
      BY <2>3
    <3> HIDE DEF tail, t
    <3>2. QED
      BY <2>1, <2>3, <3>1
  <2>4. QED
    BY <2>2, <2>3
<1>5. StartVideoWrites(m) = Picture(m) \o tail
  BY DEF StartVideoWrites
<1>6. /\ n \in {0, 4} /\ t \in {2, 3}
      /\ HighIR(m) => n = 4
      /\ m.fmt \in IR => t = 3
  OBVIOUS
<1>6a. ~HighIR(m) => n = 0
  OBVIOUS
<1>6b. m.fmt \notin IR => t = 2
  OBVIOUS
<1> HIDE DEF first, tail
<1>7. /\ own \in Seq(W) /\ Len(own) = o
      /\ ok => /\ \A i \in 1 .. 3 : own[i] = Picture(m)[i]
               /\ \A i \in 1 .. t : own[3 + i] = tail[i]
  <2>1. CASE ok
    <3>1. own = Picture(m) \o tail /\ o = 3 + t
      BY <1>5, <2>1
    <3> HIDE DEF own, o, t, s, n
    <3>2. IsJoin(Picture(m) \o tail, W, Picture(m), tail, 3, t)
      BY <1>3, <1>4, Joined
    <3>3. QED
      BY <3>1, <3>2 DEF IsJoin
  <2>2. CASE ~ok
    BY <2>2
  <2>3. QED
    BY <2>1, <2>2
<1>8. o \in Nat /\ (ok => o = 3 + t) /\ (~ok => o = 0)
  BY <1>6
<1> HIDE DEF own, n, o, t
<1>9. /\ s \in Seq(W) /\ DOMAIN s = 1 .. (n + o)
      /\ \A i \in 1 .. n : s[i] = first[i]
      /\ \A i \in 1 .. o : s[n + i] = own[i]
  <2>1. IsJoin(s, W, first, own, n, o)
    BY <1>1, <1>7, Joined
  <2> HIDE DEF s
  <2>2. QED
    BY <1>6, <1>8, <2>1 DEF IsJoin
<1>10. Write(s, k)
  BY DEF own, first
<1> HIDE DEF s
<1>11. DOMAIN s \subseteq Int /\ n + o \in Nat
  BY <1>6, <1>8, <1>9
<1>12. regs' \in [Registers -> 0 .. 30]
  <2>1. \A i \in 1 .. (n + o) : s[i] \in W
    BY <1>9, <1>11
  <2>2a. \A i \in 1 .. (n + o) : s[i][2] \in 0 .. 30
    BY <1>0, <2>1
  <2>2. QED
    BY <1>9, <1>10, <1>11, <2>2a, WrittenType
\* Which registers are written, and where.
<1>13. ASSUME NEW i \in DOMAIN s, i <= n
       PROVE  HighIR(m) /\ s[i][1] \in {"13", "14", "06"}
  <2>1. HighIR(m) /\ n = 4
    BY <1>6, <1>6a, <1>9, <1>13
  <2>2. i \in {1, 2, 3, 4} /\ s[i] = first[i]
    BY <1>9, <1>13, <2>1
  <2>3. QED
    BY <1>1, <2>1, <2>2
<1>14. ASSUME NEW i \in DOMAIN s, i > n
       PROVE  /\ ok
              /\ \/ i \in (n + 1) .. (n + 3) /\ s[i] = Picture(m)[i - n] /\ s[i][1] = b[i - n]
                 \/ i \in (n + 4) .. (n + o) /\ s[i] = tail[i - n - 3]
                    /\ s[i][1] \in {"105", "05", "48", "47"}
  <2>1. PICK q \in 1 .. o : i = n + q /\ s[i] = own[q]
    <3>1. i - n \in 1 .. o /\ i = n + (i - n)
      BY <1>6, <1>8, <1>9, <1>14
    <3>2. QED
      BY <1>9, <3>1
  <2>2. ok /\ o = 3 + t /\ q = i - n
    BY <1>6, <1>8, <2>1
  <2>3. CASE q \in 1 .. 3
    BY <1>3, <1>6, <1>7, <2>1, <2>2, <2>3
  <2>4. CASE q > 3
    <3>1. PICK u \in 1 .. t : q = 3 + u
      <4>1. q \in Int /\ q <= 3 + t /\ t \in Int
        BY <1>6, <2>1, <2>2
      <4>2. q - 3 \in 1 .. t /\ q = 3 + (q - 3)
        BY <2>4, <4>1
      <4>3. QED
        BY <4>2
    <3>2. own[q] = tail[u] /\ u = i - n - 3
      BY <1>6, <1>7, <2>1, <2>2, <3>1
    <3>3. tail[u][1] \in {"105", "05", "48", "47"}
      BY <1>4, <1>6, <1>6b, <3>1
    <3>4. i \in (n + 4) .. (n + o)
      BY <1>6, <1>8, <2>1, <2>4
    <3>5. QED
      BY <2>1, <2>2, <3>2, <3>3, <3>4
  <2>5. QED
    BY <2>1, <2>3, <2>4
<1>15. ASSUME ~ok, NEW r \in {"05", "0c", "0d", "0e", "19", "1a", "1b"}
       PROVE  regs'[r] = regs[r]
  <2>1. r \in Registers /\ \A i \in DOMAIN s : s[i][1] # r
    BY <1>6, <1>9, <1>13, <1>14, <1>15 DEF Registers
  <2>2. QED
    BY <1>10, <2>1, NotWritten
<1>16. ASSUME ~HighIR(m), NEW r \in {"06", "12", "13", "14"}
       PROVE  regs'[r] = regs[r]
  <2>1. r \in Registers
    BY DEF Registers
  <2>2. ASSUME NEW i \in DOMAIN s PROVE s[i][1] # r
    <3>1. i > n
      BY <1>6a, <1>9, <1>16
    <3>2. s[i][1] \in {"105", "05", "48", "47"} \/ \E q \in 1 .. 3 : s[i][1] = b[q]
      BY <1>6, <1>14, <3>1
    <3>3. QED
      BY <3>2
  <2>3. QED
    BY <1>10, <2>1, <2>2, NotWritten
<1>17. ASSUME HighIR(m), k = 0 \/ k > 4 PROVE regs'["06"] = 0
  <2>1. n = 4 /\ 4 \in DOMAIN s /\ s[4] = <<"06", 0>> /\ 4 # k
    BY <1>1, <1>6, <1>8, <1>9, <1>17
  <2>2. ASSUME NEW i \in DOMAIN s, i > 4 PROVE s[i][1] # "06"
    <3>1. s[i][1] \in {"105", "05", "48", "47"} \/ \E q \in 1 .. 3 : s[i][1] = b[q]
      BY <1>14, <2>1, <2>2
    <3>2. QED
      BY <3>1
  <2>3. s[4][1] \in Registers /\ s[4][1] = "06" /\ s[4][2] = 0
    BY <2>1 DEF Registers
  <2>4. regs'[s[4][1]] = s[4][2]
    BY <1>10, <1>11, <2>1, <2>2, <2>3, Written
  <2>5. QED
    BY <2>3, <2>4
<1>18. ASSUME ok, k = 0 \/ k <= IF HighIR(m) THEN 4 ELSE 0, NEW i \in 1 .. 3
       PROVE  regs'[Picture(m)[i][1]] = Picture(m)[i][2]
  <2> DEFINE j == n + i
  <2>1. j \in DOMAIN s /\ s[j] = Picture(m)[i] /\ s[j][1] = b[i] /\ j # k
    BY <1>3, <1>6, <1>6a, <1>7, <1>8, <1>9, <1>18
  <2>2. ASSUME NEW v \in DOMAIN s, v > j PROVE s[v][1] # b[i]
    <3>1. \/ v \in (n + 1) .. (n + 3) /\ s[v][1] = b[v - n]
          \/ s[v][1] \in {"105", "05", "48", "47"}
      BY <1>6, <1>9, <1>14, <2>2
    <3>2. b[i] \notin {"105", "05", "48", "47"}
      OBVIOUS
    <3>3. v \in (n + 1) .. (n + 3) => b[v - n] # b[i]
      <4>1. v \in (n + 1) .. (n + 3) => v - n \in 1 .. 3 /\ v - n # i
        BY <1>6, <2>2
      <4>2. \A q \in 1 .. 3 : q # i => b[q] # b[i]
        OBVIOUS
      <4>3. QED
        BY <4>1, <4>2
    <3>4. QED
      BY <3>1, <3>2, <3>3
  <2>3. s[j][1] \in Registers
    BY <2>1 DEF Registers
  <2> HIDE DEF j
  <2>4. regs'[s[j][1]] = s[j][2]
    BY <1>10, <1>11, <2>1, <2>2, <2>3, Written
  <2>5. QED
    BY <2>1, <2>4
<1>19. ASSUME ok, k = 0 \/ k <= IF HighIR(m) THEN 4 ELSE 0
       PROVE  regs'["05"] = IF m.fmt \in IR THEN 3 ELSE 1
  <2> DEFINE u == IF m.fmt \in IR THEN 2 ELSE 1
             j == n + 3 + u
  <2>1. u \in 1 .. t /\ tail[u] = <<"05", IF m.fmt \in IR THEN 3 ELSE 1>>
        /\ \A q \in 1 .. t : q > u => tail[q][1] # "05"
    BY <1>4, <1>6, <1>6b
  <2>1a. u \in {1, 2}
    OBVIOUS
  <2> HIDE DEF u
  <2>2. j \in DOMAIN s /\ j # k /\ s[j] = tail[u]
    <3>1. 3 + u \in 1 .. o /\ j = n + (3 + u)
      BY <1>6, <1>8, <1>19, <2>1, <2>1a
    <3>2. s[j] = own[3 + u] /\ own[3 + u] = tail[u]
      BY <1>7, <1>9, <1>19, <2>1, <3>1
    <3>3. j \in DOMAIN s /\ j # k
      BY <1>6, <1>6a, <1>8, <1>9, <1>19, <2>1a, <3>1
    <3>4. QED
      BY <3>2, <3>3
  <2>3. ASSUME NEW v \in DOMAIN s, v > j PROVE s[v][1] # "05"
    <3>1. v \in (n + 4) .. (n + o) /\ s[v] = tail[v - n - 3]
      BY <1>6, <1>8, <1>9, <1>14, <2>1a, <2>3
    <3>2. v - n - 3 \in 1 .. t /\ v - n - 3 > u
      BY <1>6, <1>8, <1>19, <2>1a, <2>3, <3>1
    <3>3. QED
      BY <2>1, <3>1, <3>2
  <2>4. s[j][1] \in Registers /\ s[j][1] = "05"
    BY <2>1, <2>2 DEF Registers
  <2> HIDE DEF j
  <2>5. regs'[s[j][1]] = s[j][2]
    BY <1>10, <1>11, <2>2, <2>3, <2>4, Written
  <2>6. QED
    BY <2>1, <2>2, <2>4, <2>5
<1>20. QED
  BY <1>12, <1>15, <1>16, <1>17, <1>18, <1>19

(* The inductive invariant. *)

StreamOf(S) == [mode : S, running : BOOLEAN, raw : Nat, proc : Nat]

ModeTypes ==
  /\ inited \in {"no", "yes", "failed"}
  /\ fetched \subseteq {"pad", "zero_plane", "const_shift"}
  /\ video \in StreamOf(SupportedVideo) /\ depth \in StreamOf(SupportedDepth)
  /\ reg_info \in {"zero"} \cup Resolutions /\ tables \in {"none", "zero"} \cup Resolutions
  /\ regs \in [Registers -> 0 .. 30]
  /\ stale \subseteq {"video", "depth", "reg_info"} /\ lost \in 0 .. MaxLost

\* Of one stream: its buffers are those of its mode.
Fits(s) ==
  /\ 8 * s.proc = s.mode.w * s.mode.h * (s.mode.bits + s.mode.pad)
  /\ s.raw # 0 => 8 * s.raw = s.mode.w * s.mode.h * PackedBits(s.mode.fmt)
BuffersFit ==
  /\ video.running => Fits(video)
  /\ depth.running => Fits(depth)
  /\ depth.running /\ depth.mode.fmt \in Aligned => tables # "none"

VideoFollows ==
  /\ regs["05"] = IF ~video.running THEN 0 ELSE IF video.mode.fmt \in IR THEN 3 ELSE 1
  /\ video.running => \A i \in 1 .. 3 :
       regs[Picture(video.mode)[i][1]] = Picture(video.mode)[i][2]
DepthFollows ==
  /\ regs["06"] = IF depth.running THEN 2 ELSE 0
  /\ depth.running => /\ regs["12"] = IF depth.mode.bits = 10 THEN 2 ELSE 3
                      /\ regs["13"] = 1 /\ regs["14"] = 30

ModesIInv ==
  /\ ModeTypes /\ Calibrated /\ BuffersFit
  /\ inited = "no" => video.mode.res = "medium"
  /\ "video" \notin stale => VideoFollows
  /\ "depth" \notin stale => DepthFollows

\* The registers one stream is told by, the other's commands leave alone.
VideoRegisters == {"05", "0c", "0d", "0e", "19", "1a", "1b"}
DepthRegisters == {"06", "12", "13", "14"}

LEMMA OwnRegisters ==
  ASSUME NEW m \in SupportedVideo
  PROVE  \A i \in 1 .. 3 : Picture(m)[i][1] \in VideoRegisters
<1>1. PICK b \in {<<"19", "1a", "1b">>, <<"0c", "0d", "0e">>}, x, y, z \in 0 .. 30 :
        Picture(m) = <<<<b[1], x>>, <<b[2], y>>, <<b[3], z>>>>
  BY PictureFacts
<1>2. /\ Picture(m)[1] = <<b[1], x>> /\ Picture(m)[2] = <<b[2], y>>
      /\ Picture(m)[3] = <<b[3], z>>
  BY <1>1
<1>3. QED
  BY <1>2 DEF VideoRegisters

LEMMA VideoUntouched ==
  ASSUME ModeTypes, VideoFollows, UNCHANGED video,
         \A r \in VideoRegisters : regs'[r] = regs[r]
  PROVE  VideoFollows'
<1>1. video.mode \in SupportedVideo
  BY DEF ModeTypes, StreamOf
<1>2. regs'["05"] = regs["05"]
  BY DEF VideoRegisters
<1>3. \A i \in 1 .. 3 :
        regs'[Picture(video.mode)[i][1]] = regs[Picture(video.mode)[i][1]]
  BY <1>1, OwnRegisters
<1>4. QED
  BY <1>2, <1>3 DEF VideoFollows

LEMMA DepthUntouched ==
  ASSUME DepthFollows, UNCHANGED depth, \A r \in DepthRegisters : regs'[r] = regs[r]
  PROVE  DepthFollows'
BY DEF DepthFollows, DepthRegisters

LEMMA Counted ==
  ASSUME lost \in 0 .. MaxLost, NEW n \in Nat, NEW k \in Losing(n), Count(k)
  PROVE  lost' \in 0 .. MaxLost /\ k \in 0 .. n
BY ModesAssumption DEF Losing, Count

LEMMA CameraInitStep ==
  ASSUME ModesIInv, NEW k \in Losing(4), CameraInit(k)
  PROVE  ModesIInv'
<1>1. lost' \in 0 .. MaxLost /\ k \in 0 .. 4
  BY Counted DEF ModesIInv, ModeTypes, CameraInit
<1>2. reg_info' \in {"zero"} \cup Resolutions
  BY DEF ModesIInv, ModeTypes, CameraInit, FetchRegInfo, Resolutions
<1>3. /\ inited' \in {"no", "yes", "failed"}
      /\ fetched' \subseteq {"pad", "zero_plane", "const_shift"}
      /\ UNCHANGED <<video, depth, tables, regs>> /\ inited' # "no"
      /\ stale' \in {stale, stale \ {"reg_info"}, stale \cup {"reg_info"}}
  BY DEF CameraInit, StaleInfo, FetchRegPadInfo, FetchZeroPlaneInfo, FetchRegConstShift
<1>4. ModeTypes'
  BY <1>1, <1>2, <1>3 DEF ModesIInv, ModeTypes
<1>5. Calibrated'
  BY <1>1 DEF Calibrated, ModesIInv, CameraInit, FetchRegInfo, StaleInfo, FetchRegPadInfo,
              FetchZeroPlaneInfo, FetchRegConstShift
<1>6. QED
  BY <1>3, <1>4, <1>5 DEF ModesIInv, BuffersFit, Fits, VideoFollows, DepthFollows

LEMMA SetVideoModeStep ==
  ASSUME ModesIInv, NEW m \in SupportedVideo, NEW k \in Losing(1), SetVideoMode(m, k)
  PROVE  ModesIInv'
<1>1. lost' \in 0 .. MaxLost /\ k \in 0 .. 1
  BY Counted DEF ModesIInv, ModeTypes, SetVideoMode
<1>2. /\ ~video.running /\ video' = [video EXCEPT !.mode = m] /\ inited = "yes"
      /\ FetchRegInfo(m.res, k) /\ StaleInfo(k)
      /\ UNCHANGED <<inited, fetched, depth, tables, regs>>
  BY DEF SetVideoMode
<1>3. video' \in StreamOf(SupportedVideo) /\ ~video'.running /\ video'.mode = m
  BY <1>2 DEF ModesIInv, ModeTypes, StreamOf
<1>4. reg_info' \in {"zero"} \cup Resolutions
  BY VideoModes DEF ModesIInv, ModeTypes, SetVideoMode, FetchRegInfo, Resolutions, VideoMode
<1>5. ModeTypes'
  BY <1>1, <1>2, <1>3, <1>4 DEF ModesIInv, ModeTypes, StaleInfo
<1>6. VideoFollows <=> VideoFollows'
  BY <1>2, <1>3 DEF VideoFollows
<1>7. Calibrated'
  BY <1>1, <1>2, <1>3 DEF ModesIInv, Calibrated, FetchRegInfo, StaleInfo
<1>8. BuffersFit' /\ (DepthFollows <=> DepthFollows')
  BY <1>2, <1>3 DEF ModesIInv, BuffersFit, Fits, DepthFollows
<1>9. QED
  BY <1>2, <1>3, <1>5, <1>6, <1>7, <1>8 DEF ModesIInv, StaleInfo

LEMMA SetDepthModeStep ==
  ASSUME ModesIInv, NEW m \in SupportedDepth, SetDepthMode(m)
  PROVE  ModesIInv'
<1>1. /\ ~depth.running /\ depth' = [depth EXCEPT !.mode = m]
      /\ UNCHANGED <<inited, fetched, video, reg_info, tables, regs, stale, lost>>
  BY DEF SetDepthMode
<1>2. depth' \in StreamOf(SupportedDepth) /\ ~depth'.running
  BY <1>1 DEF ModesIInv, ModeTypes, StreamOf
<1>3. ModeTypes'
  BY <1>1, <1>2 DEF ModesIInv, ModeTypes
<1>4. VideoFollows <=> VideoFollows'
  BY <1>1 DEF VideoFollows
<1>5. DepthFollows <=> DepthFollows'
  BY <1>1, <1>2 DEF DepthFollows
<1>6. QED
  BY <1>1, <1>2, <1>3, <1>4, <1>5 DEF ModesIInv, Calibrated, BuffersFit, Fits

LEMMA StartVideoStep ==
  ASSUME ModesIInv, NEW ok \in BOOLEAN, NEW k \in Nat, StartVideo(ok, k)
  PROVE  ModesIInv'
<1> DEFINE m == video.mode
           first == IF HighIR(m) THEN Workaround ELSE << >>
           w == first \o IF ok THEN StartVideoWrites(m) ELSE << >>
           n == IF HighIR(m) THEN 4 ELSE 0
<1>1. ModeTypes /\ m \in SupportedVideo /\ regs \in [Registers -> 0 .. 30]
  BY DEF ModesIInv, ModeTypes, StreamOf
<1>2. /\ ~video.running /\ (HighIR(m) => ~depth.running)
      /\ video' = [video EXCEPT !.running = ok, !.raw = VideoRaw(m), !.proc = m.bytes]
      /\ Write(w, k) /\ Count(k) /\ k \in Losing(Len(w))
      /\ stale' = (IF k = 0 THEN stale \ (IF ok THEN {"video"} ELSE {})
                   ELSE stale \cup (IF k <= Len(first) THEN {"depth"} ELSE {"video"}))
      /\ UNCHANGED <<inited, fetched, depth, reg_info, tables>>
  BY DEF StartVideo, MayStartVideo
<1>3. Len(first) = n
  <2>1. Len(Workaround) = 4
    BY DEF Workaround
  <2>2. QED
    BY <2>1
<1>4. /\ regs' \in [Registers -> 0 .. 30]
      /\ ~ok => \A r \in VideoRegisters : regs'[r] = regs[r]
      /\ ok /\ (k = 0 \/ k <= n) =>
           /\ regs'["05"] = IF m.fmt \in IR THEN 3 ELSE 1
           /\ \A i \in 1 .. 3 : regs'[Picture(m)[i][1]] = Picture(m)[i][2]
      /\ ~HighIR(m) => \A r \in DepthRegisters : regs'[r] = regs[r]
      /\ HighIR(m) /\ (k = 0 \/ k > 4) => regs'["06"] = 0
  <2>1. Write(w, k)
    BY <1>2
  <2> USE DEF VideoRegisters, DepthRegisters
  <2>2. QED
    BY <1>1, <2>1, VideoStartWrites
<1> HIDE DEF w
<1>5. video' \in StreamOf(SupportedVideo) /\ video'.running = ok /\ video'.mode = m
      /\ video'.raw = VideoRaw(m) /\ video'.proc = m.bytes
  <2>1. VideoRaw(m) \in Nat /\ m.bytes \in Nat /\ video \in StreamOf(SupportedVideo)
    BY <1>1, VideoModes, VideoBuffers DEF ModeTypes, VideoMode
  <2>2. video' = [video EXCEPT !.running = ok, !.raw = VideoRaw(m), !.proc = m.bytes]
    BY <1>2
  <2>3. QED
    BY <2>1, <2>2 DEF StreamOf
<1>6. lost' \in 0 .. MaxLost /\ k <= Len(w) /\ stale' \subseteq {"video", "depth", "reg_info"}
  BY <1>1, <1>2, ModesAssumption DEF ModeTypes, Losing, Count
<1>7. ModeTypes'
  BY <1>1, <1>2, <1>4, <1>5, <1>6 DEF ModeTypes
<1>8. BuffersFit'
  <2>1. Fits(video')
    BY <1>1, <1>5, VideoModes, VideoBuffers DEF Fits, VideoMode
  <2>2. QED
    BY <1>2, <2>1 DEF ModesIInv, BuffersFit, Fits
<1>9. ASSUME "video" \notin stale' PROVE VideoFollows'
  <2>1. CASE ok
    <3>1. k = 0 \/ k <= n
      BY <1>2, <1>3, <1>9
    <3>2. QED
      BY <1>4, <1>5, <2>1, <3>1 DEF VideoFollows
  <2>2. CASE ~ok
    <3>1. "video" \notin stale
      BY <1>2, <1>9, <2>2
    <3>2. regs["05"] = 0
      BY <1>2, <3>1 DEF ModesIInv, VideoFollows
    <3>3. regs'["05"] = 0
      BY <1>4, <2>2, <3>2 DEF VideoRegisters
    <3>4. QED
      BY <1>5, <2>2, <3>3 DEF VideoFollows
  <2>3. QED
    BY <2>1, <2>2
<1>10. ASSUME "depth" \notin stale' PROVE DepthFollows'
  <2>1. "depth" \notin stale /\ (k = 0 \/ k > n)
    BY <1>2, <1>3, <1>10
  <2>2. DepthFollows
    BY <2>1 DEF ModesIInv
  <2>3. CASE HighIR(m)
    <3>1. regs'["06"] = 0 /\ ~depth.running
      BY <1>2, <1>4, <2>1, <2>3
    <3>2. QED
      BY <1>2, <3>1 DEF DepthFollows
  <2>4. CASE ~HighIR(m)
    BY <1>2, <1>4, <2>2, <2>4, DepthUntouched
  <2>5. QED
    BY <2>3, <2>4
<1>11. Calibrated' /\ (inited' = "no" => video'.mode.res = "medium")
  BY <1>2, <1>5 DEF ModesIInv, Calibrated
<1>12. QED
  BY <1>7, <1>8, <1>9, <1>10, <1>11 DEF ModesIInv

LEMMA StartDepthStep ==
  ASSUME ModesIInv, NEW ok \in BOOLEAN, NEW k \in Nat, StartDepth(ok, k)
  PROVE  ModesIInv'
<1> DEFINE m == depth.mode
           w == IF ok THEN StartDepthWrites(m) ELSE << >>
<1>1. ModeTypes /\ m \in SupportedDepth /\ regs \in [Registers -> 0 .. 30]
  BY DEF ModesIInv, ModeTypes, StreamOf
<1>2. /\ ~depth.running
      /\ depth' = [depth EXCEPT !.running = ok, !.raw = DepthRaw(m), !.proc = DepthProc(m)]
      /\ tables' = IF m.fmt \in Aligned THEN reg_info ELSE tables
      /\ Write(w, k) /\ Count(k) /\ k \in Losing(Len(w))
      /\ stale' = IF ~ok THEN stale
                  ELSE IF k = 0 THEN stale \ {"depth"} ELSE stale \cup {"depth"}
      /\ UNCHANGED <<inited, fetched, video, reg_info>>
  BY DEF StartDepth, InitRegistration
<1>3. /\ regs' \in [Registers -> 0 .. 30]
      /\ \A r \in VideoRegisters : regs'[r] = regs[r]
      /\ ok /\ k = 0 => /\ regs'["06"] = 2 /\ regs'["13"] = 1 /\ regs'["14"] = 30
                        /\ regs'["12"] = IF m.bits = 10 THEN 2 ELSE 3
      /\ ~ok => regs'["06"] = regs["06"]
  <2>1. CASE ok
    <3>1. Write(StartDepthWrites(m), k)
      BY <1>2, <2>1
    <3>2. QED
      BY <1>1, <2>1, <3>1, DepthStartWrites DEF VideoRegisters
  <2>2. CASE ~ok
    <3>1. w = << >> /\ DOMAIN w = 1 .. 0
      BY <2>2
    <3> HIDE DEF w
    <3>2. \A r \in Registers : regs'[r] = regs[r]
      BY <1>2, <3>1, NotWritten
    <3>3. regs' \in [Registers -> 0 .. 30]
      <4>1. \A i \in 1 .. 0 : w[i][2] \in 0 .. 30
        OBVIOUS
      <4>2. 0 \in Nat /\ Write(w, k)
        BY <1>2
      <4>3. QED
        BY <1>1, <3>1, <4>1, <4>2, WrittenType
    <3>4. QED
      BY <2>2, <3>2, <3>3 DEF VideoRegisters, Registers
  <2>3. QED
    BY <2>1, <2>2
<1> HIDE DEF w
<1>4. depth' \in StreamOf(SupportedDepth) /\ depth'.running = ok /\ depth'.mode = m
      /\ depth'.raw = DepthRaw(m) /\ depth'.proc = DepthProc(m)
  BY <1>1, <1>2, DepthBuffers DEF ModeTypes, StreamOf
<1>5. lost' \in 0 .. MaxLost /\ stale' \subseteq {"video", "depth", "reg_info"}
      /\ tables' \in {"none", "zero"} \cup Resolutions
  BY <1>1, <1>2, ModesAssumption DEF ModeTypes, Losing, Count
<1>6. ModeTypes'
  BY <1>1, <1>2, <1>3, <1>4, <1>5 DEF ModeTypes
<1>7. BuffersFit'
  <2>1. Fits(depth')
    BY <1>1, <1>4, DepthBuffers DEF Fits
  <2>2. m.fmt \in Aligned => tables' # "none"
    BY <1>1, <1>2 DEF ModeTypes, Resolutions
  <2>3. QED
    BY <1>2, <1>4, <2>1, <2>2 DEF ModesIInv, BuffersFit, Fits
<1>8. ASSUME "video" \notin stale' PROVE VideoFollows'
  <2>1. VideoFollows
    BY <1>2, <1>8 DEF ModesIInv
  <2>2. QED
    BY <1>1, <1>2, <1>3, <2>1, VideoUntouched
<1>9. ASSUME "depth" \notin stale' PROVE DepthFollows'
  <2>1. CASE ok
    <3>1. k = 0
      BY <1>2, <1>9, <2>1
    <3>2. QED
      BY <1>3, <1>4, <2>1, <3>1 DEF DepthFollows
  <2>2. CASE ~ok
    <3>1. regs["06"] = 0
      BY <1>2, <1>9, <2>2 DEF ModesIInv, DepthFollows
    <3>2. QED
      BY <1>3, <1>4, <2>2, <3>1 DEF DepthFollows
  <2>3. QED
    BY <2>1, <2>2
<1>10. Calibrated' /\ (inited' = "no" => video'.mode.res = "medium")
  BY <1>2 DEF ModesIInv, Calibrated
<1>11. QED
  BY <1>6, <1>7, <1>8, <1>9, <1>10 DEF ModesIInv

LEMMA StopVideoStep ==
  ASSUME ModesIInv, NEW k \in Nat, StopVideo(k)
  PROVE  ModesIInv'
<1>1. ModeTypes /\ regs \in [Registers -> 0 .. 30] /\ "05" \in Registers
  BY DEF ModesIInv, ModeTypes, Registers
<1>2. /\ video' = [video EXCEPT !.running = FALSE, !.raw = 0, !.proc = 0]
      /\ Write(<<<<"05", 0>>>>, k) /\ Count(k) /\ k \in Losing(1)
      /\ stale' = IF k = 0 THEN stale \ {"video"} ELSE stale \cup {"video"}
      /\ UNCHANGED <<inited, fetched, depth, reg_info, tables>>
  BY DEF StopVideo
<1>3. /\ regs' \in [Registers -> 0 .. 30]
      /\ k = 0 => regs'["05"] = 0
      /\ \A o \in Registers \ {"05"} : regs'[o] = regs[o]
  BY <1>1, <1>2, OneWrite
<1>4. video' \in StreamOf(SupportedVideo) /\ ~video'.running
  BY <1>1, <1>2 DEF ModeTypes, StreamOf
<1>5. lost' \in 0 .. MaxLost /\ stale' \subseteq {"video", "depth", "reg_info"}
  BY <1>1, <1>2, ModesAssumption DEF ModeTypes, Losing, Count
<1>6. ModeTypes'
  BY <1>1, <1>2, <1>3, <1>4, <1>5 DEF ModeTypes
<1>7. BuffersFit' /\ Calibrated' /\ (inited' = "no" => video'.mode.res = "medium")
  BY <1>2, <1>4 DEF ModesIInv, ModeTypes, StreamOf, BuffersFit, Fits, Calibrated
<1>8. ASSUME "video" \notin stale' PROVE VideoFollows'
  BY <1>2, <1>3, <1>4, <1>8 DEF VideoFollows
<1>9. ASSUME "depth" \notin stale' PROVE DepthFollows'
  <2>1. DepthFollows
    BY <1>2, <1>9 DEF ModesIInv
  <2>2. \A r \in DepthRegisters : regs'[r] = regs[r]
    BY <1>3 DEF DepthRegisters, Registers
  <2>3. QED
    BY <1>2, <2>1, <2>2, DepthUntouched
<1>10. QED
  BY <1>6, <1>7, <1>8, <1>9 DEF ModesIInv

LEMMA StopDepthStep ==
  ASSUME ModesIInv, NEW k \in Nat, StopDepth(k)
  PROVE  ModesIInv'
<1>1. ModeTypes /\ regs \in [Registers -> 0 .. 30] /\ "06" \in Registers
  BY DEF ModesIInv, ModeTypes, Registers
<1>2. /\ depth' = [depth EXCEPT !.running = FALSE, !.raw = 0, !.proc = 0]
      /\ tables' = "none"
      /\ Write(<<<<"06", 0>>>>, k) /\ Count(k) /\ k \in Losing(1)
      /\ stale' = IF k = 0 THEN stale \ {"depth"} ELSE stale \cup {"depth"}
      /\ UNCHANGED <<inited, fetched, video, reg_info>>
  BY DEF StopDepth, DestroyRegistration
<1>3. /\ regs' \in [Registers -> 0 .. 30]
      /\ k = 0 => regs'["06"] = 0
      /\ \A o \in Registers \ {"06"} : regs'[o] = regs[o]
  BY <1>1, <1>2, OneWrite
<1>4. depth' \in StreamOf(SupportedDepth) /\ ~depth'.running
  BY <1>1, <1>2 DEF ModeTypes, StreamOf
<1>5. lost' \in 0 .. MaxLost /\ stale' \subseteq {"video", "depth", "reg_info"}
  BY <1>1, <1>2, ModesAssumption DEF ModeTypes, Losing, Count
<1>6. ModeTypes'
  BY <1>1, <1>2, <1>3, <1>4, <1>5 DEF ModeTypes
<1>7. BuffersFit' /\ Calibrated' /\ (inited' = "no" => video'.mode.res = "medium")
  BY <1>2, <1>4 DEF ModesIInv, ModeTypes, StreamOf, BuffersFit, Fits, Calibrated
<1>8. ASSUME "video" \notin stale' PROVE VideoFollows'
  <2>1. VideoFollows
    BY <1>2, <1>8 DEF ModesIInv
  <2>2. \A r \in VideoRegisters : regs'[r] = regs[r]
    BY <1>3 DEF VideoRegisters, Registers
  <2>3. QED
    BY <1>1, <1>2, <2>1, <2>2, VideoUntouched
<1>9. ASSUME "depth" \notin stale' PROVE DepthFollows'
  BY <1>2, <1>3, <1>4, <1>9 DEF DepthFollows
<1>10. QED
  BY <1>6, <1>7, <1>8, <1>9 DEF ModesIInv

LEMMA ModesStart == ModesInit => ModesIInv
<1> SUFFICES ASSUME ModesInit PROVE ModesIInv
  OBVIOUS
<1>1. /\ Mode("RGB", "medium", 640, 480, 24, 0, 640*480*3) \in SupportedVideo
      /\ Mode("11BIT", "medium", 640, 480, 11, 5, 640*480*2) \in SupportedDepth
  BY DEF SupportedVideo, SupportedDepth
<1>2. /\ Find(SupportedVideo, "medium", "RGB") \in SupportedVideo
      /\ Find(SupportedVideo, "medium", "RGB").res = "medium"
      /\ Find(SupportedDepth, "medium", "11BIT") \in SupportedDepth
  BY <1>1, FindIsFound DEF Mode
<1>3. /\ video \in StreamOf(SupportedVideo) /\ ~video.running /\ video.mode.res = "medium"
      /\ depth \in StreamOf(SupportedDepth) /\ ~depth.running
  BY <1>2 DEF ModesInit, Stopped, StreamOf
<1>4. ModeTypes
  BY <1>3, ModesAssumption DEF ModesInit, ModeTypes
<1>5. regs["05"] = 0 /\ regs["06"] = 0
  BY DEF ModesInit, Registers
<1>6. QED
  BY <1>3, <1>4, <1>5
     DEF ModesInit, ModesIInv, Calibrated, BuffersFit, VideoFollows, DepthFollows

LEMMA ModesStep ==
  ASSUME NEW formats
  PROVE  ModesIInv /\ [ModesNext(formats)]_modeVars => ModesIInv'
<1> SUFFICES ASSUME ModesIInv, [ModesNext(formats)]_modeVars PROVE ModesIInv'
  OBVIOUS
<1>1. CASE UNCHANGED modeVars
  BY <1>1 DEF ModesIInv, modeVars, ModeTypes, Calibrated, BuffersFit, Fits, VideoFollows,
              DepthFollows
<1>2. CASE \E k \in Losing(4) : CameraInit(k)
  BY <1>2, CameraInitStep
<1>3. CASE \E m \in SupportedVideo, k \in Losing(1) : m.fmt \in formats /\ SetVideoMode(m, k)
  BY <1>3, SetVideoModeStep
<1>4. CASE \E m \in SupportedDepth : m.fmt \in formats /\ SetDepthMode(m)
  BY <1>4, SetDepthModeStep
<1>5. CASE \E ok \in BOOLEAN, k \in 0 .. 10 : StartVideo(ok, k)
  BY <1>5, StartVideoStep
<1>6. CASE \E ok \in BOOLEAN, k \in 0 .. 7 : StartDepth(ok, k)
  BY <1>6, StartDepthStep
<1>7. CASE \E k \in 0 .. 1 : StopVideo(k)
  BY <1>7, StopVideoStep
<1>8. CASE \E k \in 0 .. 1 : StopDepth(k)
  BY <1>8, StopDepthStep
<1>9. QED
  BY <1>1, <1>2, <1>3, <1>4, <1>5, <1>6, <1>7, <1>8 DEF ModesNext

LEMMA ModesInvariant ==
  ASSUME NEW CONSTANT formats
  PROVE  ModesSpec(formats) => []ModesIInv
<1>1. ModesIInv /\ [ModesNext(formats)]_modeVars => ModesIInv'
  BY ModesStep
<1>2. QED
  BY <1>1, ModesStart, PTL DEF ModesSpec

\* A running stream's frames fit the buffers made for them; and a camera in use has
\* the constants whose fetch is checked, and those of registration for its video mode
\* unless fetching these failed.  Whatever formats a client uses, in whatever order modes
\* are set and streams started, and however many commands are lost.
THEOREM FramesFitBuffers ==
  ASSUME NEW CONSTANT formats
  PROVE  ModesSpec(formats) => []ModesInv
<1>1. ModesIInv => ModesInv
  <2> SUFFICES ASSUME ModesIInv PROVE ModesInv
    OBVIOUS
  <2>1. ModesTypeOK
    BY DEF ModesIInv, ModeTypes, ModesTypeOK, StreamOf
  <2>2. video.running => video.mode.fmt \notin Aligned
    BY VideoModes DEF ModesIInv, ModeTypes, StreamOf, VideoMode
  <2>3. FrameFits
    BY <2>2 DEF ModesIInv, BuffersFit, Fits, FrameFits
  <2>4. QED
    BY <2>1, <2>3 DEF ModesIInv, ModesInv
<1>2. QED
  BY <1>1, ModesInvariant, PTL

\* The camera's registers say of each stream whether it runs, and in which mode,
\* as the library does, until a command of its last start or stop is lost.
THEOREM RegistersFollow ==
  ASSUME NEW CONSTANT formats
  PROVE  ModesSpec(formats) => []CameraFollows
<1>1. ModesIInv => CameraFollows
  BY DEF ModesIInv, VideoFollows, DepthFollows, CameraFollows
<1>2. QED
  BY <1>1, ModesInvariant, PTL
=============================================================================
