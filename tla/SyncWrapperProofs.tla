------------------------- MODULE SyncWrapperProofs -------------------------
(***************************************************************************)
(* For any number of clients and run loop threads.  Whatever fails, the     *)
(* shared variables keep their types, pending_runloop_tasks its count and   *)
(* the rings their buffers.  When nothing fails but the start of a stream,  *)
(* freenect_sync_stop() is not called under a call, every mode asked for    *)
(* can be set up and each stream is asked for in one mode only, there is    *)
(* one run loop, nobody waits in vain, the buffer a client holds is its     *)
(* own, and a ring is a Mailbox.                                            *)
(***************************************************************************)
EXTENDS SyncWrapper, FiniteSetTheorems, TLAPS

-----------------------------------------------------------------------------
(* The inductive invariant under every failure. *)

\* TypeOK says it of the values only.
TimesAreFunctions == timestamp \in [Rings -> Int] /\ frame \in [Rings -> Int]

\* Who is in a section that holds runloop_lock is its holder.
LockHeld ==
  /\ \A c \in Clients :
       pc[c] \in {"start", "alloc", "ring", "change", "changing", "task"} => runloop_lock = c
  /\ \A l \in Loops : loop[l] \in {"events", "stopping", "closing"} => runloop_lock = l

\* setup_kinect() has a kinect once alloc_kinect() is behind it, and changes
\* the mode of a stream that was stopped.
SetupHasKinect == \A c \in Clients : pc[c] \in {"ring", "change", "changing"} => kinect
ChangingStopped == \A c \in Clients : pc[c] = "changing" => ~streaming[want[c].ring]

\* While its callback is on the stack the stream runs, its lock holder handles
\* events, and the frame, of the stream's mode, is in the buffer being filled.
FrameInPlace ==
  /\ cb # NULL => HandlingEvents
  /\ \A r \in Rings : cb = r =>
       /\ streaming[r]
       /\ content[r][bufs[r][2]] = frame[r] /\ kind[r][bufs[r][2]] = dev_fmt[r]

\* A stream that runs is in the mode of its ring.
ModesAgree == \A r \in Rings : streaming[r] => dev_fmt[r] = fmt[r]

ModeInv == FrameInPlace /\ ModesAgree /\ FrameOfMode

RingInv ==
  TypeOK /\ TimesAreFunctions /\ PendingExact /\ LockHeld /\ SetupHasKinect /\ ChangingStopped
     /\ RingIntact

-----------------------------------------------------------------------------
(* The inductive invariant when calls do not fail. *)

\* One mode per stream, each of which can be set up; stop is not called under
\* a call; of the failures only that of freenect_start_*(), which is ignored.
Orderly ==
  /\ \A p, q \in Requests \cup {TaskRequest} : p.ring = q.ring => p.fmt = q.fmt
  /\ \A q \in Requests \cup {TaskRequest} : q.fmt \notin Refused
  /\ ~ConcurrentStop
  /\ Faults \subseteq {"start"}

\* The one call under way while the run loop is being stopped is the stop.
StopIsAlone ==
  \A c \in Clients : pc[c] = "stop" =>
    /\ ~thread_running /\ joining[c] = thread
    /\ \A d \in Clients \ {c} : pc[d] = "idle"
    /\ \A r \in Rings : held[r] = NULL

\* The run loop is the thread last created; it runs until a stop, and only a
\* stop makes it end.
LoopIsThread ==
  /\ \A l \in Loops : loop[l] # "none" => l = thread
  /\ thread_running => thread \in Loops /\ Alive(thread)
  /\ \A l \in Loops :
       /\ loop[l] \in {"stopping", "closing", "done"} => \E c \in Clients : pc[c] = "stop"
       /\ ~thread_running /\ loop[l] # "none" => \E c \in Clients : pc[c] = "stop"
  /\ \A c \in Clients : pc[c] = "alloc" => thread_running

\* No call takes an error path.
NoErrors == \A c \in Clients : pc[c] \notin {"dec_join", "dec_error", "join"}

\* Where a kinect is needed there is one, where a frame is awaited a mode.
KinectThere ==
  /\ \A c \in Clients :
       pc[c] \in {"ring", "change", "changing", "dec", "get", "asleep",
                  "inc_task", "enter_task", "task"} => kinect
  /\ \A c \in Clients : pc[c] \in {"dec", "get", "asleep"} => fmt[want[c].ring] # NoMode
  /\ \A c \in Clients : pc[c] \in {"get", "asleep"} => ~want[c].task

\* A ring has no mode but the one asked for, and gets it when it has none.
OneMode ==
  /\ \A r \in Rings : fmt[r] # NoMode =>
       \E q \in Requests \cup {TaskRequest} : q.ring = r /\ q.fmt = fmt[r]
  /\ \A c \in Clients : pc[c] = "changing" => fmt[want[c].ring] = NoMode

\* What a client holds is the first buffer of a ring that is set up.
HeldIsFirst == \A r \in Rings : held[r] # NULL => fmt[r] # NoMode /\ held[r] = bufs[r][0]

CallInv ==
  /\ RingInv
  /\ StopIsAlone /\ LoopIsThread /\ NoErrors /\ KinectThere /\ OneMode
  /\ NoLostWakeup /\ HeldIsFirst

BoxInv == CallInv /\ ModeInv

-----------------------------------------------------------------------------
(* What requests are, and who counts as a pending task. *)

LEMMA RequestFacts ==
  ASSUME NEW q \in Requests \cup {TaskRequest}
  PROVE  q.ring \in Rings /\ q.fmt \in Modes \cup {DefaultMode} /\ q.fmt # NoMode
BY SyncAssumption DEF TaskRequest, Rings, Modes, DefaultMode, NoMode

LEMMA FrameFacts ==
  ASSUME NEW r \in Rings
  PROVE  /\ FrameNumbers(r) \subseteq Nat /\ 0 \in FrameNumbers(r)
         /\ \A n \in Int : (n + 1) % FrameMod[r] \in FrameNumbers(r)
BY SyncAssumption DEF FrameNumbers

\* Exchanging two buffers of a ring leaves rings of buffers.
Exchanged(r, i, j) == [bufs EXCEPT ![r][i] = bufs[r][j], ![r][j] = bufs[r][i]]

LEMMA ExchangeType ==
  ASSUME bufs \in [Rings -> [Slots -> Pointers]],
         NEW r \in Rings, NEW i \in Slots, NEW j \in Slots, i # j
  PROVE  Exchanged(r, i, j) \in [Rings -> [Slots -> Pointers]]
<1> DEFINE f == [bufs[r] EXCEPT ![i] = bufs[r][j], ![j] = bufs[r][i]]
<1>1. Exchanged(r, i, j) = [bufs EXCEPT ![r] = f]
  BY DEF Exchanged
<1>2. f \in [Slots -> Pointers]
  OBVIOUS
<1>3. QED
  BY <1>1, <1>2

\* What sync_get() and producer_cb_inner() make of the ring they exchange buffers in.
LEMMA TakeFacts ==
  ASSUME TypeOK, NEW c \in Clients, TakeFrame(c)
  PROVE  LET r == want[c].ring IN
         /\ r \in Rings /\ bufs' \in [Rings -> [Slots -> Pointers]]
         /\ bufs'[r][0] = bufs[r][1] /\ bufs'[r][1] = bufs[r][0] /\ bufs'[r][2] = bufs[r][2]
         /\ \A q \in Rings \ {r} : bufs'[q] = bufs[q]
<1> DEFINE r == want[c].ring
<1>1. bufs' = Exchanged(r, 0, 1)
  BY DEF TakeFrame, Exchanged
<1>2. want[c] \in Requests \cup {TaskRequest} /\ bufs \in [Rings -> [Slots -> Pointers]]
  BY DEF TypeOK
<1>3. r \in Rings
  BY <1>2, RequestFacts
<1>4. 0 \in Slots /\ 1 \in Slots /\ 2 \in Slots /\ 0 # 1 /\ 2 # 0 /\ 2 # 1
  BY DEF Slots
<1>5. /\ bufs' \in [Rings -> [Slots -> Pointers]]
      /\ bufs'[r][0] = bufs[r][1] /\ bufs'[r][1] = bufs[r][0] /\ bufs'[r][2] = bufs[r][2]
      /\ \A q \in Rings \ {r} : bufs'[q] = bufs[q]
  <2>1. bufs' \in [Rings -> [Slots -> Pointers]]
    BY <1>1, <1>2, <1>3, <1>4, ExchangeType
  <2>2. QED
    BY <1>1, <1>2, <1>3, <1>4, <2>1 DEF Exchanged
<1>6. QED
  BY <1>3, <1>5

LEMMA ProduceFacts ==
  ASSUME TypeOK, NEW r \in Rings, Produce(r)
  PROVE  /\ bufs' \in [Rings -> [Slots -> Pointers]]
         /\ bufs'[r][0] = bufs[r][0] /\ bufs'[r][1] = bufs[r][2] /\ bufs'[r][2] = bufs[r][1]
         /\ \A q \in Rings \ {r} : bufs'[q] = bufs[q]
         /\ {bufs'[r][k] : k \in Slots} = {bufs[r][k] : k \in Slots}
<1>1. bufs' = Exchanged(r, 1, 2)
  BY DEF Produce, Exchanged
<1>2. bufs \in [Rings -> [Slots -> Pointers]]
  BY DEF TypeOK
<1>3. 1 \in Slots /\ 2 \in Slots /\ 0 \in Slots /\ 1 # 2 /\ 0 # 1 /\ 0 # 2
  BY DEF Slots
<1>4. /\ bufs' \in [Rings -> [Slots -> Pointers]]
      /\ bufs'[r][0] = bufs[r][0] /\ bufs'[r][1] = bufs[r][2] /\ bufs'[r][2] = bufs[r][1]
      /\ \A q \in Rings \ {r} : bufs'[q] = bufs[q]
  <2>1. bufs' \in [Rings -> [Slots -> Pointers]]
    BY <1>1, <1>2, <1>3, ExchangeType
  <2>2. QED
    BY <1>1, <1>2, <1>3, <2>1 DEF Exchanged
<1>5. {bufs'[r][k] : k \in Slots} = {bufs[r][k] : k \in Slots}
  BY <1>4 DEF Slots
<1>6. QED
  BY <1>4, <1>5

Pending == {c \in Clients : pc[c] \in InTask}

LEMMA CountFacts ==
  ASSUME NEW S \in SUBSET Clients
  PROVE  /\ IsFiniteSet(S)
         /\ Cardinality(S) \in 0 .. Cardinality(Clients)
         /\ \A c \in S : Cardinality(S) > 0
<1>1. IsFiniteSet(S) /\ Cardinality(S) <= Cardinality(Clients)
  BY FS_Subset, SyncAssumption
<1>2. Cardinality(S) \in Nat /\ Cardinality(Clients) \in Nat
  BY <1>1, FS_CardinalityType, SyncAssumption
<1>3. Cardinality(S) = 0 <=> S = {}
  BY <1>1, FS_EmptySet
<1>4. QED
  BY <1>1, <1>2, <1>3

LEMMA PendingFacts ==
  IsFiniteSet(Pending) /\ Cardinality(Pending) \in 0 .. Cardinality(Clients)
<1>1. Pending \in SUBSET Clients
  BY DEF Pending
<1>2. QED
  BY <1>1, CountFacts

\* The count does not change when a client stays in, or out of, a task.
LEMMA PendingStays ==
  ASSUME pc \in [Clients -> Labels], PendingExact, UNCHANGED pending,
         NEW c \in Clients, NEW label, Goto(c, label), pc[c] \in InTask <=> label \in InTask
  PROVE  PendingExact'
<1>1. Pending' = Pending
  BY DEF Pending, Goto
<1>2. QED
  BY <1>1 DEF PendingExact, Pending

LEMMA PendingGrows ==
  ASSUME pc \in [Clients -> Labels], PendingExact, pending' = pending + 1,
         NEW c \in Clients, NEW label, Goto(c, label), pc[c] \notin InTask, label \in InTask
  PROVE  PendingExact'
<1>1. Pending' = Pending \cup {c} /\ c \notin Pending
  BY DEF Pending, Goto
<1>2. Cardinality(Pending') = Cardinality(Pending) + 1
  BY <1>1, PendingFacts, FS_AddElement
<1>3. QED
  BY <1>2 DEF PendingExact, Pending

LEMMA PendingShrinks ==
  ASSUME pc \in [Clients -> Labels], PendingExact, pending' = pending - 1,
         NEW c \in Clients, NEW label, Goto(c, label), pc[c] \in InTask, label \notin InTask
  PROVE  PendingExact'
<1>1. Pending' = Pending \ {c} /\ c \in Pending
  BY DEF Pending, Goto
<1>2. Cardinality(Pending') = Cardinality(Pending) - 1
  BY <1>1, PendingFacts, FS_RemoveElement
<1>3. QED
  BY <1>2 DEF PendingExact, Pending

LEMMA PendingExactStep ==
  ASSUME TypeOK, PendingExact, [Next]_vars
  PROVE  PendingExact'
<1> USE DEF Labels, InTask, Serve
<1>0. pc \in [Clients -> Labels]
  BY DEF TypeOK
<1>1. ASSUME UNCHANGED <<pc, pending>> PROVE PendingExact'
  BY <1>1 DEF PendingExact
<1>2. ASSUME NEW c \in Clients, Stop(c) PROVE PendingExact'
  BY <1>0, <1>2, PendingStays DEF Stop
<1>3. ASSUME NEW c \in Clients, ClientStep(c) PROVE PendingExact'
  <2>1. CASE Check(c) \/ Join(c) \/ AwaitFrame(c) \/ TakeFrame(c)
    BY <1>0, <2>1, PendingStays DEF Check, Join, AwaitFrame, TakeFrame, Leave, shared
  <2>2. CASE Enter(c) \/ LockRing(c) \/ KeepMode(c) \/ StopStream(c) \/ ChangeMode(c) \/ Task(c)
    BY <1>0, <2>2, PendingStays
    DEF Enter, LockRing, KeepMode, StopStream, ChangeMode, Task, shared
  <2>3. CASE StartLoop(c) \/ AllocKinect(c)
    BY <1>0, <2>3, PendingStays DEF StartLoop, AllocKinect
  <2>4. CASE Inc(c)
    BY <1>0, <2>4, PendingGrows DEF Inc
  <2>5. CASE Dec(c) \/ DecJoin(c) \/ DecReturn(c)
    BY <1>0, <2>5, PendingShrinks DEF Dec, DecJoin, DecReturn, DecPending, Leave
  <2>6. QED
    BY <1>3, <2>1, <2>2, <2>3, <2>4, <2>5 DEF ClientStep
<1>4. ASSUME NEW c \in Clients, NEW q \in Requests, Call(c, q) PROVE PendingExact'
  BY <1>0, <1>4, PendingStays DEF Call, shared
<1>5. ASSUME NEW l \in Loops, LoopStep(l) PROVE PendingExact'
  BY <1>5, <1>1 DEF LoopStep, LoopWait, LoopLock, LoopTurn, LoopFails, LoopStopsVideo, LoopEnds,
                    shared, client
<1>6. ASSUME NEW r \in Rings, CallBack(r) PROVE PendingExact'
  BY <1>6, <1>1 DEF CallBack, shared, client
<1>7. ASSUME NEW r \in Rings, Produce(r) PROVE PendingExact'
  <2>1. UNCHANGED pending
    BY <1>7 DEF Produce, shared
  <2>2. CASE UNCHANGED pc
    BY <1>1, <2>1, <2>2
  <2>3. ASSUME NEW c \in Asleep(r), Goto(c, "get") PROVE PendingExact'
    BY <1>0, <2>1, <2>3, PendingStays DEF Asleep
  <2>4. QED
    BY <1>7, <2>2, <2>3 DEF Produce, WakeClient
<1>8. CASE UNCHANGED vars
  BY <1>1, <1>8 DEF vars, client, shared
<1>9. QED
  BY <1>2, <1>3, <1>4, <1>5, <1>6, <1>7, <1>8 DEF Next

-----------------------------------------------------------------------------
(* RingInv is inductive. *)

\* Whatever a step does to the pending tasks, the other types are kept.
LEMMA TypeStep ==
  ASSUME TypeOK, TimesAreFunctions, PendingExact, [Next]_vars
  PROVE  TypeOK' /\ TimesAreFunctions'
<1> USE RequestFacts, FrameFacts
    DEF TypeOK, TimesAreFunctions, Labels, Pointers, Slots, Serve, Goto, vars, shared, ring,
       device, client
<1>0. pending' \in 0 .. Cardinality(Clients)
  <2>1. Pending' \in SUBSET Clients
    BY DEF Pending
  <2>2. Cardinality(Pending') \in 0 .. Cardinality(Clients)
    BY <2>1, CountFacts
  <2>3. QED
    BY <2>2, PendingExactStep DEF PendingExact, Pending
<1>1. ASSUME NEW c \in Clients, Stop(c) PROVE TypeOK' /\ TimesAreFunctions'
  BY <1>1 DEF Stop
<1>2. ASSUME NEW c \in Clients, ClientStep(c) PROVE TypeOK' /\ TimesAreFunctions'
  <2>1. CASE Check(c)
    BY <2>1 DEF Check, NeedsSetup
  <2>2. CASE Join(c)
    BY <2>2 DEF Join, Leave
  <2>3. CASE Inc(c)
    BY <1>0, <2>3 DEF Inc
  <2>4. CASE Enter(c)
    BY <2>4 DEF Enter
  <2>5. CASE Dec(c)
    BY <1>0, <2>5 DEF Dec, DecPending, WakeLoop
  <2>6. CASE DecJoin(c)
    BY <1>0, <2>6 DEF DecJoin, DecPending, WakeLoop
  <2>7. CASE DecReturn(c)
    BY <1>0, <2>7 DEF DecReturn, DecPending, WakeLoop, Leave
  <2>8. CASE StartLoop(c)
    BY <2>8 DEF StartLoop
  <2>9. CASE AllocKinect(c)
    BY <2>9 DEF AllocKinect
  <2>10. CASE LockRing(c)
    BY <2>10 DEF LockRing
  <2>11. CASE KeepMode(c)
    BY <2>11 DEF KeepMode
  <2>12. CASE StopStream(c)
    BY <2>12 DEF StopStream
  <2>13. CASE ChangeMode(c)
    <3> DEFINE r == want[c].ring
    <3>1. r \in Rings /\ want[c].fmt \in Modes \cup {DefaultMode}
      OBVIOUS
    <3>2. NoBufs \in [Slots -> Pointers] /\ FreshBufs \in [Slots -> Pointers]
      BY DEF NoBufs, FreshBufs, Buffers
    <3>3. bufs' \in [Rings -> [Slots -> Pointers]]
      BY <2>13, <3>1, <3>2 DEF ChangeMode
    <3>4. dev_buf' \in [Rings -> Pointers]
      BY <2>13, <3>1, <3>3 DEF ChangeMode
    <3>5. /\ streaming' \in [Rings -> BOOLEAN]
          /\ fmt' \in [Rings -> Modes \cup {NoMode, DefaultMode}]
      BY <2>13, <3>1 DEF ChangeMode
    <3>6. timestamp' \in [Rings -> Int] /\ \A q \in Rings : timestamp'[q] \in FrameNumbers(q)
      BY <2>13, <3>1 DEF ChangeMode
    <3>7. NoFrames \in [Buffers -> Modes \cup {NoMode, DefaultMode}]
      BY DEF NoFrames
    <3>8. /\ dev_fmt' \in [Rings -> Modes \cup {NoMode, DefaultMode}]
          /\ kind' \in [Rings -> [Buffers -> Modes \cup {NoMode, DefaultMode}]]
      BY <2>13, <3>1, <3>7 DEF ChangeMode
    <3>9. QED
      BY <2>13, <3>1, <3>3, <3>4, <3>5, <3>6, <3>8 DEF ChangeMode
  <2>14. CASE TakeFrame(c)
    <3> DEFINE r == want[c].ring
    <3>1. r \in Rings /\ bufs[r] \in [Slots -> Pointers]
      OBVIOUS
    <3>2. bufs' \in [Rings -> [Slots -> Pointers]]
      BY <2>14, TakeFacts
    <3>3. held' \in [Rings -> Pointers]
      BY <2>14, <3>1 DEF TakeFrame
    <3>4. QED
      BY <2>14, <3>1, <3>2, <3>3 DEF TakeFrame, Leave
  <2>15. CASE AwaitFrame(c)
    BY <2>15 DEF AwaitFrame
  <2>16. CASE Task(c)
    BY <2>16 DEF Task
  <2>17. QED
    BY <1>2, <2>1, <2>2, <2>3, <2>4, <2>5, <2>6, <2>7, <2>8, <2>9, <2>10, <2>11, <2>12,
       <2>13, <2>14, <2>15, <2>16 DEF ClientStep
<1>3. ASSUME NEW c \in Clients, NEW q \in Requests, Call(c, q)
      PROVE TypeOK' /\ TimesAreFunctions'
  BY <1>3 DEF Call
<1>4. ASSUME NEW l \in Loops, LoopStep(l) PROVE TypeOK' /\ TimesAreFunctions'
  <2>1. CASE LoopWait(l) \/ LoopLock(l) \/ LoopTurn(l)
    BY <2>1 DEF LoopWait, LoopLock, LoopTurn
  <2>2. CASE LoopFails(l) \/ LoopStopsVideo(l)
    BY <2>2 DEF LoopFails, LoopStopsVideo
  <2>3. CASE LoopEnds(l)
    <3>1. bufs' \in [Rings -> [Slots -> Pointers]]
      BY <2>3 DEF LoopEnds, NoBufs
    <3>2. timestamp' \in [Rings -> Int] /\ \A q \in Rings : timestamp'[q] \in FrameNumbers(q)
      BY <2>3 DEF LoopEnds
    <3>3. NoFrames \in [Buffers -> Modes \cup {NoMode, DefaultMode}]
      BY DEF NoFrames
    <3>4. /\ dev_fmt' \in [Rings -> Modes \cup {NoMode, DefaultMode}]
          /\ kind' \in [Rings -> [Buffers -> Modes \cup {NoMode, DefaultMode}]]
      BY <2>3, <3>3 DEF LoopEnds
    <3>5. QED
      BY <2>3, <3>1, <3>2, <3>4 DEF LoopEnds
  <2>4. QED
    BY <1>4, <2>1, <2>2, <2>3 DEF LoopStep
<1>5. ASSUME NEW r \in Rings, CallBack(r) PROVE TypeOK' /\ TimesAreFunctions'
  <2>1. frame[r] \in Int /\ frame' = [frame EXCEPT ![r] = (frame[r] + 1) % FrameMod[r]]
    BY <1>5 DEF CallBack
  <2>2. frame'[r] \in FrameNumbers(r) /\ frame'[r] \in Nat
    BY <2>1
  <2>3. frame' \in [Rings -> Int] /\ \A q \in Rings : frame'[q] \in FrameNumbers(q)
    BY <2>1, <2>2
  <2>4. content' = [content EXCEPT ![r] = [content[r] EXCEPT ![dev_buf[r]] = frame'[r]]]
    BY <1>5 DEF CallBack
  <2>5. content' \in [Rings -> [Buffers -> Nat]]
    BY <2>2, <2>4
  <2>6. kind' = [kind EXCEPT ![r] = [kind[r] EXCEPT ![dev_buf[r]] = dev_fmt[r]]]
    BY <1>5 DEF CallBack
  <2>7. kind' \in [Rings -> [Buffers -> Modes \cup {NoMode, DefaultMode}]]
    BY <2>6
  <2>8. QED
    BY <1>5, <2>3, <2>5, <2>7 DEF CallBack
<1>6. ASSUME NEW r \in Rings, Produce(r) PROVE TypeOK' /\ TimesAreFunctions'
  <2>1. bufs[r] \in [Slots -> Pointers]
    OBVIOUS
  <2>2. bufs' \in [Rings -> [Slots -> Pointers]]
    BY <1>6, ProduceFacts
  <2>6. dev_buf' \in [Rings -> Pointers]
    BY <1>6, <2>1 DEF Produce
  <2>3. pc' \in [Clients -> Labels]
    BY <1>6 DEF Produce, WakeClient, Asleep
  <2>4. timestamp' \in [Rings -> Int] /\ \A q \in Rings : timestamp'[q] \in FrameNumbers(q)
    BY <1>6 DEF Produce
  <2>5. QED
    BY <1>6, <2>2, <2>3, <2>4, <2>6 DEF Produce
<1>7. CASE UNCHANGED vars
  BY <1>7
<1>8. QED
  BY <1>1, <1>2, <1>3, <1>4, <1>5, <1>6, <1>7 DEF Next

\* runloop_lock is taken when it is free and given back by its holder.
LEMMA LockHeldStep ==
  ASSUME TypeOK, LockHeld, [Next]_vars
  PROVE  LockHeld'
<1> USE SyncAssumption DEF TypeOK, LockHeld, Serve, Goto, vars, shared, ring, device, client
<1>1. ASSUME NEW c \in Clients, Stop(c) PROVE LockHeld'
  BY <1>1 DEF Stop
<1>2. ASSUME NEW c \in Clients, ClientStep(c) PROVE LockHeld'
  <2>1. CASE Check(c)
    BY <2>1 DEF Check, NeedsSetup
  <2>2. CASE Join(c)
    BY <2>2 DEF Join, Leave
  <2>3. CASE Inc(c)
    BY <2>3 DEF Inc
  <2>4. CASE Enter(c)
    BY <2>4 DEF Enter
  <2>5. CASE Dec(c)
    BY <2>5 DEF Dec, DecPending, WakeLoop
  <2>6. CASE DecJoin(c)
    BY <2>6 DEF DecJoin, DecPending, WakeLoop
  <2>7. CASE DecReturn(c)
    BY <2>7 DEF DecReturn, DecPending, WakeLoop, Leave
  <2>8. CASE StartLoop(c)
    <3>1. /\ \A d \in Clients \ {c} : pc'[d] = pc[d]
          /\ runloop_lock' \in {runloop_lock, NULL} /\ runloop_lock = c
      BY <2>8 DEF StartLoop
    <3>2. runloop_lock' = NULL => pc'[c] = "dec_error" /\ UNCHANGED loop
      BY <2>8, <3>1 DEF StartLoop
    <3>3. \A l \in Loops : loop'[l] = loop[l] \/ loop'[l] = "wait"
      BY <2>8 DEF StartLoop
    <3>4. QED
      BY <3>1, <3>2, <3>3
  <2>9. CASE AllocKinect(c)
    <3>1. \A d \in Clients \ {c} : pc'[d] = pc[d]
      BY <2>9 DEF AllocKinect
    <3>2. UNCHANGED loop /\ runloop_lock' \in {runloop_lock, NULL} /\ runloop_lock = c
      BY <2>9 DEF AllocKinect
    <3>3. runloop_lock' = NULL => pc'[c] \in {"dec_join", "dec_error"}
      BY <2>9, <3>2 DEF AllocKinect
    <3>4. QED
      BY <3>1, <3>2, <3>3
  <2>10. CASE LockRing(c)
    BY <2>10 DEF LockRing
  <2>11. CASE KeepMode(c)
    BY <2>11 DEF KeepMode
  <2>12. CASE StopStream(c)
    BY <2>12 DEF StopStream
  <2>13. CASE ChangeMode(c)
    BY <2>13 DEF ChangeMode
  <2>14. CASE TakeFrame(c)
    BY <2>14 DEF TakeFrame, Leave
  <2>15. CASE AwaitFrame(c)
    BY <2>15 DEF AwaitFrame
  <2>16. CASE Task(c)
    BY <2>16 DEF Task
  <2>17. QED
    BY <1>2, <2>1, <2>2, <2>3, <2>4, <2>5, <2>6, <2>7, <2>8, <2>9, <2>10, <2>11, <2>12, <2>13,
       <2>14, <2>15, <2>16 DEF ClientStep
<1>3. ASSUME NEW c \in Clients, NEW q \in Requests, Call(c, q) PROVE LockHeld'
  BY <1>3 DEF Call
<1>4. ASSUME NEW l \in Loops, LoopStep(l) PROVE LockHeld'
  <2>1. CASE LoopWait(l) \/ LoopLock(l) \/ LoopTurn(l)
    BY <2>1 DEF LoopWait, LoopLock, LoopTurn
  <2>2. CASE LoopFails(l) \/ LoopStopsVideo(l)
    BY <2>2 DEF LoopFails, LoopStopsVideo
  <2>3. CASE LoopEnds(l)
    <3>1. /\ runloop_lock = l /\ UNCHANGED pc
          /\ loop'[l] = "done" /\ \A m \in Loops \ {l} : loop'[m] = loop[m]
      BY <2>3 DEF LoopEnds
    <3>2. QED
      BY <3>1
  <2>4. QED
    BY <1>4, <2>1, <2>2, <2>3 DEF LoopStep
<1>5. ASSUME NEW r \in Rings, CallBack(r) PROVE LockHeld'
  BY <1>5 DEF CallBack
<1>6. ASSUME NEW r \in Rings, Produce(r) PROVE LockHeld'
  BY <1>6 DEF Produce, WakeClient, Asleep
<1>7. CASE UNCHANGED vars
  BY <1>7
<1>8. QED
  BY <1>1, <1>2, <1>3, <1>4, <1>5, <1>6, <1>7 DEF Next

\* The kinect is freed, and a stream started, only by the holder of the lock.
LEMMA SetupStep ==
  ASSUME TypeOK, LockHeld, SetupHasKinect, ChangingStopped, [Next]_vars
  PROVE  SetupHasKinect' /\ ChangingStopped'
<1> USE SyncAssumption, RequestFacts
    DEF TypeOK, LockHeld, SetupHasKinect, ChangingStopped, Serve, Goto, vars, shared, ring,
    device, client
<1>1. ASSUME NEW c \in Clients, Stop(c) PROVE SetupHasKinect' /\ ChangingStopped'
  BY <1>1 DEF Stop
<1>2. ASSUME NEW c \in Clients, ClientStep(c) PROVE SetupHasKinect' /\ ChangingStopped'
  <2>1. CASE Check(c)
    BY <2>1 DEF Check, NeedsSetup
  <2>2. CASE Join(c)
    BY <2>2 DEF Join, Leave
  <2>3. CASE Inc(c)
    BY <2>3 DEF Inc
  <2>4. CASE Enter(c)
    BY <2>4 DEF Enter
  <2>5. CASE Dec(c)
    BY <2>5 DEF Dec, DecPending, WakeLoop
  <2>6. CASE DecJoin(c)
    BY <2>6 DEF DecJoin, DecPending, WakeLoop
  <2>7. CASE DecReturn(c)
    BY <2>7 DEF DecReturn, DecPending, WakeLoop, Leave
  <2>8. CASE StartLoop(c)
    BY <2>8 DEF StartLoop
  <2>9. CASE AllocKinect(c)
    BY <2>9 DEF AllocKinect
  <2>10. CASE LockRing(c)
    BY <2>10 DEF LockRing
  <2>11. CASE KeepMode(c)
    BY <2>11 DEF KeepMode
  <2>12. CASE StopStream(c)
    BY <2>12 DEF StopStream
  <2>13. CASE ChangeMode(c)
    BY <2>13 DEF ChangeMode
  <2>14. CASE TakeFrame(c)
    BY <2>14 DEF TakeFrame, Leave
  <2>15. CASE AwaitFrame(c)
    BY <2>15 DEF AwaitFrame
  <2>16. CASE Task(c)
    BY <2>16 DEF Task
  <2>17. QED
    BY <1>2, <2>1, <2>2, <2>3, <2>4, <2>5, <2>6, <2>7, <2>8, <2>9, <2>10, <2>11, <2>12, <2>13,
       <2>14, <2>15, <2>16 DEF ClientStep
<1>3. ASSUME NEW c \in Clients, NEW q \in Requests, Call(c, q)
      PROVE SetupHasKinect' /\ ChangingStopped'
  BY <1>3 DEF Call
<1>4. ASSUME NEW l \in Loops, LoopStep(l) PROVE SetupHasKinect' /\ ChangingStopped'
  <2>1. CASE LoopWait(l) \/ LoopLock(l) \/ LoopTurn(l)
    BY <2>1 DEF LoopWait, LoopLock, LoopTurn
  <2>2. CASE LoopFails(l) \/ LoopStopsVideo(l) \/ LoopEnds(l)
    BY <2>2 DEF LoopFails, LoopStopsVideo, LoopEnds
  <2>3. QED
    BY <1>4, <2>1, <2>2 DEF LoopStep
<1>5. ASSUME NEW r \in Rings, CallBack(r) PROVE SetupHasKinect' /\ ChangingStopped'
  BY <1>5 DEF CallBack
<1>6. ASSUME NEW r \in Rings, Produce(r) PROVE SetupHasKinect' /\ ChangingStopped'
  BY <1>6 DEF Produce, WakeClient, Asleep
<1>7. CASE UNCHANGED vars
  BY <1>7
<1>8. QED
  BY <1>1, <1>2, <1>3, <1>4, <1>5, <1>6, <1>7 DEF Next


\* The part of RingIntact that is about one ring.
Intact(r) ==
  /\ fmt[r] # NoMode => kinect /\ {bufs[r][i] : i \in Slots} = Buffers
  /\ streaming[r] => fmt[r] # NoMode /\ dev_buf[r] = bufs[r][2]

LEMMA IntactSame ==
  ASSUME NEW r \in Rings, Intact(r), kinect' = kinect, fmt'[r] = fmt[r], bufs'[r] = bufs[r],
         streaming'[r] \in {streaming[r], FALSE}, dev_buf'[r] = dev_buf[r]
  PROVE  Intact(r)'
<1>1. {bufs'[r][i] : i \in Slots} = {bufs[r][i] : i \in Slots}
  OBVIOUS
<1>2. QED
  BY <1>1 DEF Intact

\* A ring changes its mode as a whole; buffers are only exchanged.
LEMMA RingIntactStep ==
  ASSUME RingInv, [Next]_vars
  PROVE  RingIntact'
<1> USE DEF vars, shared, ring, device, client
<1>0. TypeOK /\ SetupHasKinect /\ ChangingStopped /\ \A r \in Rings : Intact(r)
  BY DEF RingInv, RingIntact, Intact
<1> SUFFICES ASSUME NEW q \in Rings PROVE Intact(q)'
  BY DEF RingIntact, Intact
<1>1. ASSUME UNCHANGED <<bufs, fmt, dev_buf>>, streaming'[q] \in {streaming[q], FALSE},
             kinect' = kinect
      PROVE  Intact(q)'
  BY <1>0, <1>1, IntactSame
<1>2. ASSUME NEW c \in Clients, ClientStep(c) PROVE Intact(q)'
  <2> DEFINE r == want[c].ring
             ok == want[c].fmt \notin Refused
  <2>1. CASE Check(c) \/ Join(c) \/ Inc(c) \/ Enter(c) \/ Dec(c) \/ DecJoin(c) \/ DecReturn(c)
    BY <1>1, <2>1 DEF Check, Join, Inc, Enter, Dec, DecJoin, DecReturn
  <2>2. CASE StartLoop(c) \/ LockRing(c) \/ KeepMode(c) \/ AwaitFrame(c) \/ Task(c)
    BY <1>1, <2>2 DEF StartLoop, LockRing, KeepMode, AwaitFrame, Task
  <2>3. CASE AllocKinect(c)
    <3>1. CASE kinect' = kinect
      BY <1>1, <2>3, <3>1 DEF AllocKinect
    <3>2. CASE kinect' # kinect
      BY <1>0, <2>3, <3>2 DEF AllocKinect, Intact
    <3>3. QED
      BY <3>1, <3>2
  <2>4. CASE StopStream(c)
    BY <1>0, <1>1, <2>4 DEF StopStream, TypeOK
  <2>5. CASE ChangeMode(c)
    <3>1. /\ r \in Rings /\ want[c].fmt # NoMode /\ kinect /\ kinect' = kinect
          /\ ~streaming[r]
      BY <1>0, <2>5, RequestFacts DEF ChangeMode, TypeOK, SetupHasKinect, ChangingStopped
    <3>2. CASE q # r
      BY <1>0, <2>5, <3>1, <3>2, IntactSame DEF ChangeMode, TypeOK
    <3>3. CASE q = r /\ ok
      <4>1. bufs'[q] = FreshBufs /\ fmt'[q] # NoMode /\ dev_buf'[q] = bufs'[q][2]
        BY <1>0, <2>5, <3>1, <3>3 DEF ChangeMode, TypeOK
      <4>2. {FreshBufs[i] : i \in Slots} = Buffers
        BY DEF FreshBufs, Slots, Buffers
      <4>3. {bufs'[q][i] : i \in Slots} = Buffers
        BY <4>1, <4>2
      <4>4. QED
        BY <3>1, <4>1, <4>3 DEF Intact
    <3>4. CASE q = r /\ ~ok
      BY <1>0, <2>5, <3>1, <3>4 DEF ChangeMode, TypeOK, Intact
    <3>5. QED
      BY <3>2, <3>3, <3>4
  <2>6. CASE TakeFrame(c)
    <3>1. UNCHANGED <<kinect, fmt, streaming, dev_buf>> /\ r \in Rings
      BY <1>0, <2>6, TakeFacts DEF TakeFrame
    <3>2. CASE q # r
      BY <1>0, <2>6, <3>1, <3>2, TakeFacts, IntactSame DEF TypeOK
    <3>3. CASE q = r
      <4>1. bufs'[q][0] = bufs[q][1] /\ bufs'[q][1] = bufs[q][0] /\ bufs'[q][2] = bufs[q][2]
        BY <1>0, <2>6, <3>3, TakeFacts
      <4>2. {bufs'[q][k] : k \in Slots} = {bufs[q][k] : k \in Slots}
        BY <4>1 DEF Slots
      <4>3. QED
        BY <1>0, <3>1, <4>1, <4>2 DEF Intact
    <3>4. QED
      BY <3>2, <3>3
  <2>7. QED
    BY <1>2, <2>1, <2>2, <2>3, <2>4, <2>5, <2>6 DEF ClientStep
<1>3. ASSUME NEW l \in Loops, LoopStep(l) PROVE Intact(q)'
  <2>1. CASE LoopEnds(l)
    BY <2>1 DEF LoopEnds, Intact
  <2>2. CASE LoopWait(l) \/ LoopLock(l) \/ LoopTurn(l) \/ LoopFails(l) \/ LoopStopsVideo(l)
    BY <1>0, <1>1, <2>2 DEF LoopWait, LoopLock, LoopTurn, LoopFails, LoopStopsVideo, TypeOK
  <2>3. QED
    BY <1>3, <2>1, <2>2 DEF LoopStep
<1>4. ASSUME NEW r \in Rings, Produce(r) PROVE Intact(q)'
  <2>1. UNCHANGED <<kinect, fmt, streaming>>
    BY <1>4 DEF Produce
  <2>2. CASE q # r
    <3>1. dev_buf'[q] = dev_buf[q]
      BY <1>0, <1>4, <2>2 DEF Produce, TypeOK
    <3>2. QED
      BY <1>0, <1>4, <2>1, <2>2, <3>1, ProduceFacts, IntactSame
  <2>3. CASE q = r
    <3>1. dev_buf'[q] = bufs'[q][2]
      BY <1>0, <1>4, <2>3, ProduceFacts DEF Produce, TypeOK
    <3>2. QED
      BY <1>0, <1>4, <2>1, <2>3, <3>1, ProduceFacts DEF Intact
  <2>4. QED
    BY <2>2, <2>3
<1>5. CASE \E c \in Clients : Stop(c) \/ \E p \in Requests : Call(c, p)
  BY <1>1, <1>5 DEF Stop, Call
<1>6. CASE \E r \in Rings : CallBack(r)
  BY <1>1, <1>6 DEF CallBack
<1>7. CASE UNCHANGED vars
  BY <1>1, <1>7
<1>8. QED
  BY <1>2, <1>3, <1>4, <1>5, <1>6, <1>7 DEF Next

LEMMA RingInvInit == Init => RingInv
<1>1. SUFFICES ASSUME Init PROVE RingInv
  OBVIOUS
<1>2. TypeOK /\ TimesAreFunctions
  <2>1. 0 \in 0 .. Cardinality(Clients)
    BY FS_CardinalityType, SyncAssumption
  <2>2. bufs \in [Rings -> [Slots -> Pointers]] /\ content \in [Rings -> [Buffers -> Nat]]
    BY <1>1 DEF Init, NoBufs, Pointers
  <2>3. /\ TimesAreFunctions
        /\ \A r \in Rings : timestamp[r] \in FrameNumbers(r) /\ frame[r] \in FrameNumbers(r)
    BY <1>1, FrameFacts DEF Init, TimesAreFunctions
  <2>4. pc \in [Clients -> Labels] /\ want \in [Clients -> Requests \cup {TaskRequest}]
    BY <1>1 DEF Init, Labels
  <2>5. kind \in [Rings -> [Buffers -> Modes \cup {NoMode, DefaultMode}]]
    BY <1>1 DEF Init, NoFrames
  <2>6. QED
    BY <1>1, <2>1, <2>2, <2>3, <2>4, <2>5 DEF Init, TypeOK, Pointers
<1>3. PendingExact
  <2>1. {c \in Clients : pc[c] \in InTask} = {}
    BY <1>1 DEF Init, InTask
  <2>2. QED
    BY <1>1, <2>1, FS_EmptySet DEF Init, PendingExact
<1>4. LockHeld /\ SetupHasKinect /\ ChangingStopped /\ RingIntact
  BY <1>1 DEF Init, LockHeld, SetupHasKinect, ChangingStopped, RingIntact
<1>5. QED
  BY <1>2, <1>3, <1>4 DEF RingInv

LEMMA RingInvStep == RingInv /\ [Next]_vars => RingInv'
BY PendingExactStep, TypeStep, LockHeldStep, SetupStep, RingIntactStep DEF RingInv

LEMMA RingInvariant == Spec => []RingInv
BY RingInvInit, RingInvStep, PTL DEF Spec

\* Through failing calls, unplugged devices and a stop under a call, the shared
\* variables and the threads' locals keep their types, and pending_runloop_tasks
\* is the number of clients between pending_runloop_tasks_inc() and _dec(): the
\* assertions of both hold, for any number of clients.
THEOREM TasksAreCounted == Spec => []SharedInv
<1>1. RingInv => SharedInv
  BY DEF RingInv, SharedInv
<1>2. QED
  BY <1>1, RingInvariant, PTL

\* producer_cb_inner()'s assert(data == buf->bufs[2]) holds: a stream that runs
\* fills the third buffer of a ring that has its three buffers, of a kinect that
\* is open, whatever fails and whoever changes the mode.
THEOREM RingsStayIntact == Spec => []RingIntact
<1>1. RingInv => RingIntact
  BY DEF RingInv
<1>2. QED
  BY <1>1, RingInvariant, PTL

\* Three buffers, all different.
LEMMA BufferFacts ==
  ASSUME RingIntact, NEW r \in Rings, fmt[r] # NoMode
  PROVE  /\ bufs[r][0] \in Buffers /\ bufs[r][1] \in Buffers /\ bufs[r][2] \in Buffers
         /\ bufs[r][0] # bufs[r][1] /\ bufs[r][0] # bufs[r][2] /\ bufs[r][1] # bufs[r][2]
<1>1. {bufs[r][0], bufs[r][1], bufs[r][2]} = {"A", "B", "C"}
  BY DEF RingIntact, Slots, Buffers
<1>2. QED
  BY <1>1 DEF Buffers

\* The buffer being filled is exchanged by producer_cb_inner() only, and nobody
\* leaves libfreenect under a callback.
LEMMA FrameInPlaceStep ==
  ASSUME TypeOK, LockHeld, RingIntact, FrameInPlace, [Next]_vars
  PROVE  FrameInPlace'
<1> USE DEF vars, shared, ring, device, client, Goto
<1> DEFINE Filling(r) == cb = r => 
            /\ streaming[r]
            /\ content[r][bufs[r][2]] = frame[r] /\ kind[r][bufs[r][2]] = dev_fmt[r]
<1>0. /\ cb \in Rings \cup {NULL} /\ NULL \notin Rings
      /\ bufs \in [Rings -> [Slots -> Pointers]] /\ pc \in [Clients -> Labels]
      /\ loop \in [Loops -> {"none", "wait", "asleep", "lock", "events", "stopping",
                             "closing", "done"}]
  BY DEF TypeOK, Rings, NULL
<1>1. ASSUME UNCHANGED <<cb, frame, content, dev_fmt, kind>>, \A r \in Rings : bufs'[r][2] = bufs[r][2],
             cb # NULL => HandlingEvents' /\ UNCHANGED streaming
      PROVE  FrameInPlace'
  BY <1>0, <1>1 DEF FrameInPlace
<1>2. ASSUME cb' = NULL PROVE FrameInPlace'
  BY <1>0, <1>2 DEF FrameInPlace
<1>3. ASSUME UNCHANGED runloop_lock,
             \A c \in Clients : pc[c] \in {"changing", "task"} => pc'[c] = pc[c],
             \A l \in Loops : loop[l] \in {"events", "closing"} => loop'[l] = loop[l]
      PROVE  cb # NULL => HandlingEvents'
  BY <1>3 DEF FrameInPlace, HandlingEvents
<1>4. ASSUME NEW c \in Clients, pc[c] \in {"start", "alloc", "ring", "change"} PROVE cb = NULL
  BY <1>4, SyncAssumption DEF FrameInPlace, HandlingEvents, LockHeld
<1>5. ASSUME runloop_lock = NULL PROVE cb = NULL
  BY <1>5, SyncAssumption DEF FrameInPlace, HandlingEvents
<1>6. ASSUME NEW c \in Clients, ClientStep(c) PROVE FrameInPlace'
  <2>1. CASE Check(c) \/ Inc(c) \/ AwaitFrame(c)
    <3>1. cb # NULL => HandlingEvents'
      BY <1>0, <1>3, <2>1 DEF Check, Inc, AwaitFrame
    <3>2. QED
      BY <1>1, <2>1, <3>1 DEF Check, Inc, AwaitFrame
  <2>2. CASE Dec(c) \/ DecJoin(c) \/ DecReturn(c) \/ Join(c)
    <3>1. cb # NULL => HandlingEvents'
      BY <1>0, <1>3, <2>2
      DEF Dec, DecJoin, DecReturn, Join, Leave, DecPending, WakeLoop
    <3>2. QED
      BY <1>1, <2>2, <3>1 DEF Dec, DecJoin, DecReturn, Join
  <2>3. CASE TakeFrame(c)
    <3>1. cb # NULL => HandlingEvents'
      BY <1>0, <1>3, <2>3 DEF TakeFrame, Leave
    <3>2. \A r \in Rings : bufs'[r][2] = bufs[r][2]
      BY <2>3, TakeFacts
    <3>3. QED
      BY <1>1, <2>3, <3>1, <3>2 DEF TakeFrame
  <2>4. CASE Enter(c)
    BY <1>2, <1>5, <2>4 DEF Enter
  <2>5. CASE StartLoop(c) \/ AllocKinect(c) \/ LockRing(c) \/ KeepMode(c) \/ StopStream(c)
    BY <1>2, <1>4, <2>5 DEF StartLoop, AllocKinect, LockRing, KeepMode, StopStream
  <2>6. CASE ChangeMode(c) \/ Task(c)
    BY <1>2, <2>6 DEF ChangeMode, Task
  <2>7. QED
    BY <1>6, <2>1, <2>2, <2>3, <2>4, <2>5, <2>6 DEF ClientStep
<1>7. ASSUME NEW l \in Loops, LoopStep(l) PROVE FrameInPlace'
  <2>1. CASE LoopWait(l)
    <3>1. cb # NULL => HandlingEvents'
      BY <1>0, <1>3, <2>1 DEF LoopWait
    <3>2. QED
      BY <1>1, <2>1, <3>1 DEF LoopWait
  <2>2. CASE LoopLock(l)
    BY <1>2, <1>5, <2>2 DEF LoopLock
  <2>3. CASE LoopTurn(l) \/ LoopFails(l) \/ LoopEnds(l)
    BY <1>2, <2>3 DEF LoopTurn, LoopFails, LoopEnds
  <2>4. CASE LoopStopsVideo(l)
    <3>1. cb = NULL
      BY <2>4, SyncAssumption DEF LoopStopsVideo, FrameInPlace, HandlingEvents, LockHeld
    <3>2. QED
      BY <1>2, <2>4, <3>1 DEF LoopStopsVideo
  <2>5. QED
    BY <1>7, <2>1, <2>2, <2>3, <2>4 DEF LoopStep
<1>8. ASSUME NEW r \in Rings, CallBack(r) PROVE FrameInPlace'
  <2>1. dev_buf[r] = bufs[r][2] /\ bufs[r][2] \in Buffers
    BY <1>8, BufferFacts DEF CallBack, RingIntact
  <2>2. content' = [content EXCEPT ![r] = [content[r] EXCEPT ![dev_buf[r]] = frame'[r]]]
    BY <1>8 DEF CallBack
  <2>3. content'[r][bufs[r][2]] = frame'[r]
    BY <2>1, <2>2 DEF TypeOK
  <2>4. cb' = r /\ streaming'[r] /\ UNCHANGED <<bufs, dev_fmt>> /\ HandlingEvents'
    BY <1>8 DEF CallBack, HandlingEvents
  <2>5. kind' = [kind EXCEPT ![r] = [kind[r] EXCEPT ![dev_buf[r]] = dev_fmt[r]]]
    BY <1>8 DEF CallBack
  <2>6. kind'[r][bufs[r][2]] = dev_fmt[r]
    BY <2>1, <2>5 DEF TypeOK
  <2>7. QED
    BY <2>3, <2>4, <2>6 DEF FrameInPlace
<1>9. CASE \E r \in Rings : Produce(r)
  BY <1>2, <1>9 DEF Produce
<1>10. ASSUME NEW c \in Clients, Stop(c) \/ \E q \in Requests : Call(c, q) PROVE FrameInPlace'
  <2>1. cb # NULL => HandlingEvents'
    BY <1>0, <1>3, <1>10 DEF Stop, Call
  <2>2. QED
    BY <1>1, <1>10, <2>1 DEF Stop, Call
<1>11. CASE UNCHANGED vars
  BY <1>11 DEF FrameInPlace, HandlingEvents
<1>12. QED
  BY <1>6, <1>7, <1>8, <1>9, <1>10, <1>11 DEF Next

\* The part of FrameOfMode and ModesAgree that is about one ring.
RingOfMode(r) ==
  /\ streaming[r] => dev_fmt[r] = fmt[r]
  /\ fmt[r] # NoMode /\ valid[r] => kind[r][bufs[r][1]] = fmt[r]

\* A ring is thrown away with its mode, and nothing but producer_cb_inner(),
\* of the mode the stream runs in, puts a frame into it.
LEMMA RingOfModeStep ==
  ASSUME RingInv, FrameInPlace, NEW q \in Rings, RingOfMode(q), [Next]_vars
  PROVE  RingOfMode(q)'
<1> USE DEF vars, shared, ring, device, client
<1>0. TypeOK /\ RingIntact /\ ChangingStopped
  BY DEF RingInv
<1>1. ASSUME UNCHANGED <<fmt, dev_fmt, kind, valid, bufs>>, streaming'[q] \in {streaming[q], FALSE}
      PROVE  RingOfMode(q)'
  BY <1>1 DEF RingOfMode
<1>2. ASSUME NEW c \in Clients, ClientStep(c) PROVE RingOfMode(q)'
  <2> DEFINE r == want[c].ring
             ok == want[c].fmt \notin Refused
  <2>1. CASE Check(c) \/ Join(c) \/ Inc(c) \/ Enter(c) \/ Dec(c) \/ DecJoin(c) \/ DecReturn(c)
    BY <1>1, <2>1 DEF Check, Join, Inc, Enter, Dec, DecJoin, DecReturn
  <2>2. CASE StartLoop(c) \/ LockRing(c) \/ KeepMode(c) \/ AwaitFrame(c) \/ Task(c)
    BY <1>1, <2>2 DEF StartLoop, LockRing, KeepMode, AwaitFrame, Task
  <2>3. CASE AllocKinect(c)
    <3>1. CASE kinect' = kinect
      BY <1>1, <2>3, <3>1 DEF AllocKinect
    <3>2. CASE kinect' # kinect
      BY <1>0, <2>3, <3>2 DEF AllocKinect, RingIntact, RingOfMode
    <3>3. QED
      BY <3>1, <3>2
  <2>4. CASE StopStream(c)
    BY <1>0, <1>1, <2>4 DEF StopStream, TypeOK
  <2>5. CASE ChangeMode(c)
    <3>1. r \in Rings /\ ~streaming[r]
      BY <1>0, <2>5, RequestFacts DEF ChangeMode, TypeOK, ChangingStopped
    <3>2. CASE q # r
      <4>1. /\ fmt'[q] = fmt[q] /\ dev_fmt'[q] = dev_fmt[q] /\ kind'[q] = kind[q]
            /\ valid'[q] = valid[q] /\ bufs'[q] = bufs[q] /\ streaming'[q] = streaming[q]
        BY <1>0, <2>5, <3>1, <3>2 DEF ChangeMode, TypeOK
      <4>2. QED
        BY <4>1 DEF RingOfMode
    <3>3. CASE q = r
      <4>1. ~valid'[q] /\ (streaming'[q] => ok)
        BY <1>0, <2>5, <3>1, <3>3 DEF ChangeMode, TypeOK
      <4>2. ok => dev_fmt'[q] = fmt'[q]
        BY <1>0, <2>5, <3>1, <3>3 DEF ChangeMode, TypeOK
      <4>3. QED
        BY <4>1, <4>2 DEF RingOfMode
    <3>4. QED
      BY <3>2, <3>3
  <2>6. CASE TakeFrame(c)
    <3>1. UNCHANGED <<fmt, dev_fmt, kind, streaming>> /\ r \in Rings
      BY <1>0, <2>6, TakeFacts DEF TakeFrame
    <3>2. CASE q # r
      <4>1. valid'[q] = valid[q] /\ bufs'[q] = bufs[q]
        BY <1>0, <2>6, <3>1, <3>2, TakeFacts DEF TakeFrame, TypeOK
      <4>2. QED
        BY <3>1, <4>1 DEF RingOfMode
    <3>3. CASE q = r
      <4>1. ~valid'[q]
        BY <1>0, <2>6, <3>3 DEF TakeFrame, TypeOK
      <4>2. QED
        BY <3>1, <4>1 DEF RingOfMode
    <3>4. QED
      BY <3>2, <3>3
  <2>7. QED
    BY <1>2, <2>1, <2>2, <2>3, <2>4, <2>5, <2>6 DEF ClientStep
<1>3. ASSUME NEW l \in Loops, LoopStep(l) PROVE RingOfMode(q)'
  <2>1. CASE LoopEnds(l)
    BY <2>1 DEF LoopEnds, RingOfMode
  <2>2. CASE LoopWait(l) \/ LoopLock(l) \/ LoopTurn(l) \/ LoopFails(l) \/ LoopStopsVideo(l)
    BY <1>0, <1>1, <2>2 DEF LoopWait, LoopLock, LoopTurn, LoopFails, LoopStopsVideo, TypeOK
  <2>3. QED
    BY <1>3, <2>1, <2>2 DEF LoopStep
<1>4. ASSUME NEW r \in Rings, CallBack(r) PROVE RingOfMode(q)'
  <2>1. UNCHANGED <<fmt, dev_fmt, valid, bufs, streaming>>
    BY <1>4 DEF CallBack
  <2>2. kind' = [kind EXCEPT ![r] = [kind[r] EXCEPT ![dev_buf[r]] = dev_fmt[r]]]
    BY <1>4 DEF CallBack
  <2>3. CASE q # r
    BY <1>0, <2>1, <2>2, <2>3 DEF RingOfMode, TypeOK
  <2>4. CASE q = r
    <3>1. fmt[q] # NoMode /\ dev_buf[q] = bufs[q][2]
      BY <1>0, <1>4, <2>4 DEF CallBack, RingIntact
    <3>2. bufs[q][1] # bufs[q][2] /\ bufs[q][1] \in Buffers
      BY <1>0, <3>1, BufferFacts
    <3>3. kind'[q][bufs[q][1]] = kind[q][bufs[q][1]]
      BY <1>0, <2>2, <2>4, <3>1, <3>2 DEF TypeOK
    <3>4. QED
      BY <2>1, <3>3 DEF RingOfMode
  <2>5. QED
    BY <2>3, <2>4
<1>5. ASSUME NEW r \in Rings, Produce(r) PROVE RingOfMode(q)'
  <2>1. UNCHANGED <<fmt, dev_fmt, kind, streaming>>
    BY <1>5 DEF Produce
  <2>2. CASE q # r
    <3>1. bufs'[q] = bufs[q] /\ valid'[q] = valid[q]
      BY <1>0, <1>5, <2>2, ProduceFacts DEF Produce, TypeOK
    <3>2. QED
      BY <2>1, <3>1 DEF RingOfMode
  <2>3. CASE q = r
    <3>1. streaming[q] /\ kind[q][bufs[q][2]] = dev_fmt[q] /\ bufs'[q][1] = bufs[q][2]
      BY <1>0, <1>5, <2>3, ProduceFacts DEF Produce, FrameInPlace
    <3>2. QED
      BY <2>1, <3>1 DEF RingOfMode
  <2>4. QED
    BY <2>2, <2>3
<1>6. CASE \E c \in Clients : Stop(c) \/ \E p \in Requests : Call(c, p)
  BY <1>1, <1>6 DEF Stop, Call
<1>7. CASE UNCHANGED vars
  BY <1>1, <1>7
<1>8. QED
  BY <1>2, <1>3, <1>4, <1>5, <1>6, <1>7 DEF Next

LEMMA ModeInvInit == Init => ModeInv
BY DEF Init, ModeInv, FrameInPlace, ModesAgree, FrameOfMode, Rings, NULL

LEMMA ModeInvStep == RingInv /\ ModeInv /\ [Next]_vars => ModeInv'
<1>1. SUFFICES ASSUME RingInv, ModeInv, [Next]_vars PROVE ModeInv'
  OBVIOUS
<1>2. FrameInPlace'
  BY <1>1, FrameInPlaceStep DEF RingInv, ModeInv
<1>3. ASSUME NEW q \in Rings PROVE RingOfMode(q)'
  BY <1>1, RingOfModeStep DEF ModeInv, RingOfMode, ModesAgree, FrameOfMode
<1>4. QED
  BY <1>2, <1>3 DEF ModeInv, RingOfMode, ModesAgree, FrameOfMode

\* No callback of one mode and no sync_get() in another share a frame: what a ring
\* can give was sent in the ring's mode, for any clients, modes, failures and stops.
THEOREM FramesFitRing == Spec => []FrameOfMode
<1>1. ModeInv => FrameOfMode
  BY DEF ModeInv
<1>2. QED
  BY <1>1, RingInvariant, ModeInvInit, ModeInvStep, PTL DEF Spec

-----------------------------------------------------------------------------
(* CallInv is inductive when calls are orderly. *)

LEMMA OrderlyFacts ==
  ASSUME Orderly
  PROVE  /\ ConcurrentStop = FALSE
         /\ "init" \notin Faults /\ "open" \notin Faults /\ "unplug" \notin Faults
BY DEF Orderly

\* A stop waits for the calls, and calls for the stop.
LEMMA StopIsAloneStep ==
  ASSUME Orderly, TypeOK, StopIsAlone, NoErrors, [Next]_vars
  PROVE  StopIsAlone' /\ NoErrors'
<1> USE SyncAssumption, OrderlyFacts
    DEF TypeOK, StopIsAlone, NoErrors, Serve, Goto, vars, shared, ring, device, client
<1>1. ASSUME NEW c \in Clients, Stop(c) PROVE StopIsAlone' /\ NoErrors'
  BY <1>1 DEF Stop
<1>2. ASSUME NEW c \in Clients, ClientStep(c) PROVE StopIsAlone' /\ NoErrors'
  <2>1. CASE Check(c)
    BY <2>1 DEF Check, NeedsSetup
  <2>2. CASE Join(c)
    BY <2>2 DEF Join, Leave
  <2>3. CASE Inc(c)
    BY <2>3 DEF Inc
  <2>4. CASE Enter(c)
    BY <2>4 DEF Enter
  <2>5. CASE Dec(c)
    BY <2>5 DEF Dec, DecPending, WakeLoop
  <2>6. CASE DecJoin(c)
    BY <2>6 DEF DecJoin, DecPending, WakeLoop
  <2>7. CASE DecReturn(c)
    BY <2>7 DEF DecReturn, DecPending, WakeLoop, Leave
  <2>8. CASE StartLoop(c)
    <3>1. \A d \in Clients : pc[d] # "stop"
      BY <2>8 DEF StartLoop
    <3>2. pc' = [pc EXCEPT ![c] = "alloc"]
      BY <2>8 DEF StartLoop
    <3>3. QED
      BY <3>1, <3>2
  <2>9. CASE AllocKinect(c)
    BY <2>9 DEF AllocKinect
  <2>10. CASE LockRing(c)
    BY <2>10 DEF LockRing
  <2>11. CASE KeepMode(c)
    BY <2>11 DEF KeepMode
  <2>12. CASE StopStream(c)
    BY <2>12 DEF StopStream
  <2>13. CASE ChangeMode(c)
    BY <2>13 DEF ChangeMode
  <2>14. CASE TakeFrame(c)
    BY <2>14 DEF TakeFrame, Leave
  <2>15. CASE AwaitFrame(c)
    BY <2>15 DEF AwaitFrame
  <2>16. CASE Task(c)
    BY <2>16 DEF Task
  <2>17. QED
    BY <1>2, <2>1, <2>2, <2>3, <2>4, <2>5, <2>6, <2>7, <2>8, <2>9, <2>10, <2>11, <2>12, <2>13,
       <2>14, <2>15, <2>16 DEF ClientStep
<1>3. ASSUME NEW c \in Clients, NEW q \in Requests, Call(c, q) PROVE StopIsAlone' /\ NoErrors'
  BY <1>3 DEF Call
<1>4. ASSUME NEW l \in Loops, LoopStep(l) PROVE StopIsAlone' /\ NoErrors'
  <2>1. CASE LoopWait(l) \/ LoopLock(l) \/ LoopTurn(l)
    BY <2>1 DEF LoopWait, LoopLock, LoopTurn
  <2>2. CASE LoopFails(l) \/ LoopStopsVideo(l) \/ LoopEnds(l)
    BY <2>2 DEF LoopFails, LoopStopsVideo, LoopEnds
  <2>3. QED
    BY <1>4, <2>1, <2>2 DEF LoopStep
<1>5. ASSUME NEW r \in Rings, CallBack(r) PROVE StopIsAlone' /\ NoErrors'
  BY <1>5 DEF CallBack
<1>6. ASSUME NEW r \in Rings, Produce(r) PROVE StopIsAlone' /\ NoErrors'
  BY <1>6 DEF Produce, WakeClient, Asleep
<1>7. CASE UNCHANGED vars
  BY <1>7
<1>8. QED
  BY <1>1, <1>2, <1>3, <1>4, <1>5, <1>6, <1>7 DEF Next

\* A run loop is created when there is none, and ends only by a stop.
LEMMA LoopIsThreadStep ==
  ASSUME Orderly, TypeOK, StopIsAlone, LoopIsThread, NoErrors, [Next]_vars
  PROVE  LoopIsThread'
<1> USE SyncAssumption, OrderlyFacts
    DEF TypeOK, StopIsAlone, LoopIsThread, NoErrors, Alive, Serve, Goto, vars, shared, ring,
    device, client
<1>1. ASSUME NEW c \in Clients, Stop(c) PROVE LoopIsThread'
  BY <1>1 DEF Stop
<1>2. ASSUME NEW c \in Clients, ClientStep(c) PROVE LoopIsThread'
  <2>1. CASE Check(c)
    BY <2>1 DEF Check, NeedsSetup
  <2>2. CASE Join(c)
    BY <2>2 DEF Join, Leave
  <2>3. CASE Inc(c)
    BY <2>3 DEF Inc
  <2>4. CASE Enter(c)
    BY <2>4 DEF Enter
  <2>5. CASE Dec(c)
    BY <2>5 DEF Dec, DecPending, WakeLoop
  <2>6. CASE DecJoin(c)
    BY <2>6 DEF DecJoin, DecPending, WakeLoop
  <2>7. CASE DecReturn(c)
    BY <2>7 DEF DecReturn, DecPending, WakeLoop, Leave
  <2>8. CASE StartLoop(c)
    <3>1. \A d \in Clients : pc[d] # "stop"
      BY <2>8 DEF StartLoop
    <3>2. CASE thread_running
      BY <2>8, <3>1, <3>2 DEF StartLoop
    <3>3. CASE ~thread_running
      <4>1. \A l \in Loops : loop[l] = "none"
        BY <3>1, <3>3
      <4>2. PICK l \in Loops : thread' = l /\ loop' = [loop EXCEPT ![l] = "wait"]
        BY <2>8, <3>3 DEF StartLoop
      <4>3. thread_running' = TRUE
        BY <2>8 DEF StartLoop
      <4>4. QED
        BY <4>1, <4>2, <4>3
    <3>4. QED
      BY <3>2, <3>3
  <2>9. CASE AllocKinect(c)
    BY <2>9 DEF AllocKinect
  <2>10. CASE LockRing(c)
    BY <2>10 DEF LockRing
  <2>11. CASE KeepMode(c)
    BY <2>11 DEF KeepMode
  <2>12. CASE StopStream(c)
    BY <2>12 DEF StopStream
  <2>13. CASE ChangeMode(c)
    BY <2>13 DEF ChangeMode
  <2>14. CASE TakeFrame(c)
    BY <2>14 DEF TakeFrame, Leave
  <2>15. CASE AwaitFrame(c)
    BY <2>15 DEF AwaitFrame
  <2>16. CASE Task(c)
    BY <2>16 DEF Task
  <2>17. QED
    BY <1>2, <2>1, <2>2, <2>3, <2>4, <2>5, <2>6, <2>7, <2>8, <2>9, <2>10, <2>11, <2>12, <2>13,
       <2>14, <2>15, <2>16 DEF ClientStep
<1>3. ASSUME NEW c \in Clients, NEW q \in Requests, Call(c, q) PROVE LoopIsThread'
  BY <1>3 DEF Call
<1>4. ASSUME NEW l \in Loops, LoopStep(l) PROVE LoopIsThread'
  <2>1. CASE LoopWait(l) \/ LoopLock(l) \/ LoopTurn(l)
    BY <2>1 DEF LoopWait, LoopLock, LoopTurn
  <2>2. CASE LoopFails(l) \/ LoopStopsVideo(l) \/ LoopEnds(l)
    BY <2>2 DEF LoopFails, LoopStopsVideo, LoopEnds
  <2>3. QED
    BY <1>4, <2>1, <2>2 DEF LoopStep
<1>5. ASSUME NEW r \in Rings, CallBack(r) PROVE LoopIsThread'
  BY <1>5 DEF CallBack
<1>6. ASSUME NEW r \in Rings, Produce(r) PROVE LoopIsThread'
  BY <1>6 DEF Produce, WakeClient, Asleep
<1>7. CASE UNCHANGED vars
  BY <1>7
<1>8. QED
  BY <1>1, <1>2, <1>3, <1>4, <1>5, <1>6, <1>7 DEF Next

\* The kinect and the modes go away with the run loop only.
LEMMA KinectThereStep ==
  ASSUME Orderly, TypeOK, StopIsAlone, LoopIsThread, NoErrors, KinectThere, RingIntact,
     [Next]_vars
  PROVE  KinectThere'
<1> USE SyncAssumption, OrderlyFacts, RequestFacts
    DEF TypeOK, StopIsAlone, LoopIsThread, NoErrors, KinectThere, Serve, Goto, vars, shared,
    ring, device, client
<1>1. ASSUME NEW c \in Clients, Stop(c) PROVE KinectThere'
  BY <1>1 DEF Stop
<1>2. ASSUME NEW c \in Clients, ClientStep(c) PROVE KinectThere'
  <2>1. CASE Check(c)
    BY <2>1 DEF Check, NeedsSetup
  <2>2. CASE Join(c)
    BY <2>2 DEF Join, Leave
  <2>3. CASE Inc(c)
    BY <2>3 DEF Inc
  <2>4. CASE Enter(c)
    BY <2>4 DEF Enter
  <2>5. CASE Dec(c)
    BY <2>5 DEF Dec, DecPending, WakeLoop
  <2>6. CASE DecJoin(c)
    BY <2>6 DEF DecJoin, DecPending, WakeLoop
  <2>7. CASE DecReturn(c)
    BY <2>7 DEF DecReturn, DecPending, WakeLoop, Leave
  <2>8. CASE StartLoop(c)
    BY <2>8 DEF StartLoop
  <2>9. CASE AllocKinect(c)
    BY <2>9 DEF AllocKinect
  <2>10. CASE LockRing(c)
    BY <2>10 DEF LockRing
  <2>11. CASE KeepMode(c)
    BY <2>11 DEF KeepMode
  <2>12. CASE StopStream(c)
    BY <2>12 DEF StopStream
  <2>13. CASE ChangeMode(c)
    <3>1. want[c].fmt \notin Refused /\ want[c].fmt # NoMode /\ want[c].ring \in Rings
      BY <2>13 DEF ChangeMode, Orderly
    <3>2. fmt' = [fmt EXCEPT ![want[c].ring] = want[c].fmt] /\ UNCHANGED <<kinect, want>>
      BY <2>13, <3>1 DEF ChangeMode
    <3>3. pc' = [pc EXCEPT ![c] = "dec"] /\ kinect
      BY <2>13 DEF ChangeMode
    <3>4. \A d \in Clients : want[d].ring \in Rings
      OBVIOUS
    <3>5. QED
      BY <3>1, <3>2, <3>3, <3>4
  <2>14. CASE TakeFrame(c)
    BY <2>14 DEF TakeFrame, Leave
  <2>15. CASE AwaitFrame(c)
    BY <2>15 DEF AwaitFrame
  <2>16. CASE Task(c)
    BY <2>16 DEF Task
  <2>17. QED
    BY <1>2, <2>1, <2>2, <2>3, <2>4, <2>5, <2>6, <2>7, <2>8, <2>9, <2>10, <2>11, <2>12, <2>13,
       <2>14, <2>15, <2>16 DEF ClientStep
<1>3. ASSUME NEW c \in Clients, NEW q \in Requests, Call(c, q) PROVE KinectThere'
  BY <1>3 DEF Call
<1>4. ASSUME NEW l \in Loops, LoopStep(l) PROVE KinectThere'
  <2>1. CASE LoopWait(l) \/ LoopLock(l) \/ LoopTurn(l)
    BY <2>1 DEF LoopWait, LoopLock, LoopTurn
  <2>2. CASE LoopFails(l) \/ LoopStopsVideo(l) \/ LoopEnds(l)
    BY <2>2 DEF LoopFails, LoopStopsVideo, LoopEnds
  <2>3. QED
    BY <1>4, <2>1, <2>2 DEF LoopStep
<1>5. ASSUME NEW r \in Rings, CallBack(r) PROVE KinectThere'
  BY <1>5 DEF CallBack
<1>6. ASSUME NEW r \in Rings, Produce(r) PROVE KinectThere'
  BY <1>6 DEF Produce, WakeClient, Asleep
<1>7. CASE UNCHANGED vars
  BY <1>7
<1>8. QED
  BY <1>1, <1>2, <1>3, <1>4, <1>5, <1>6, <1>7 DEF Next

LEMMA OneModeFacts ==
  ASSUME Orderly, TypeOK, OneMode, NEW c \in Clients, fmt[want[c].ring] # NoMode
  PROVE  fmt[want[c].ring] = want[c].fmt
<1>1. want[c] \in Requests \cup {TaskRequest} /\ want[c].ring \in Rings
  BY RequestFacts DEF TypeOK
<1>2. PICK q \in Requests \cup {TaskRequest} : q.ring = want[c].ring
      /\ q.fmt = fmt[want[c].ring]
  BY <1>1 DEF OneMode
<1>3. QED
  BY <1>1, <1>2 DEF Orderly

\* A ring is set up once, in its one mode.
LEMMA OneModeStep ==
  ASSUME Orderly, TypeOK, LockHeld, OneMode, [Next]_vars
  PROVE  OneMode'
<1> USE DEF vars, shared, ring, device, client, Goto, Serve, TypeOK
<1>1. ASSUME UNCHANGED fmt,
             \A d \in Clients : pc'[d] = "changing" => pc[d] = "changing" /\ want'[d] = want[d]
      PROVE  OneMode'
  BY <1>1 DEF OneMode
<1>2. ASSUME NEW c \in Clients, ClientStep(c) PROVE OneMode'
  <2>1. CASE Check(c) \/ Join(c) \/ Inc(c) \/ Enter(c) \/ Dec(c) \/ DecJoin(c) \/ DecReturn(c)
    BY <1>1, <2>1 DEF Check, Join, Inc, Enter, Dec, DecJoin, DecReturn, Leave
  <2>2. CASE StartLoop(c) \/ AllocKinect(c) \/ LockRing(c)
    BY <1>1, <2>2 DEF StartLoop, AllocKinect, LockRing
  <2>3. CASE KeepMode(c) \/ TakeFrame(c) \/ AwaitFrame(c) \/ Task(c)
    BY <1>1, <2>3 DEF KeepMode, TakeFrame, AwaitFrame, Task, Leave
  <2>4. CASE StopStream(c)
    <3>1. fmt[want[c].ring] = NoMode
      BY <2>4, OneModeFacts DEF StopStream
    <3>2. UNCHANGED <<fmt, want>> /\ \A d \in Clients \ {c} : pc'[d] = pc[d]
      BY <2>4 DEF StopStream
    <3>3. QED
      BY <3>1, <3>2 DEF OneMode
  <2>5. CASE ChangeMode(c)
    <3>1. want[c] \in Requests \cup {TaskRequest} /\ want[c].ring \in Rings
      BY RequestFacts
    <3>2. fmt' = [fmt EXCEPT ![want[c].ring] = want[c].fmt] /\ UNCHANGED want
      BY <2>5, <3>1 DEF ChangeMode, Orderly
    <3>3. \A d \in Clients : pc'[d] # "changing"
      BY <2>5 DEF ChangeMode, LockHeld
    <3>4. QED
      BY <3>1, <3>2, <3>3 DEF OneMode
  <2>6. QED
    BY <1>2, <2>1, <2>2, <2>3, <2>4, <2>5 DEF ClientStep
<1>3. ASSUME NEW l \in Loops, LoopStep(l) PROVE OneMode'
  <2>1. CASE LoopEnds(l)
    <3>1. \A r \in Rings : fmt'[r] = NoMode
      BY <2>1 DEF LoopEnds
    <3>2. \A d \in Clients : want'[d].ring \in Rings
      BY <2>1, RequestFacts DEF LoopEnds
    <3>3. QED
      BY <3>1, <3>2 DEF OneMode
  <2>2. CASE LoopWait(l) \/ LoopLock(l) \/ LoopTurn(l) \/ LoopFails(l) \/ LoopStopsVideo(l)
    BY <1>1, <2>2 DEF LoopWait, LoopLock, LoopTurn, LoopFails, LoopStopsVideo
  <2>3. QED
    BY <1>3, <2>1, <2>2 DEF LoopStep
<1>4. ASSUME NEW r \in Rings, CallBack(r) \/ Produce(r) PROVE OneMode'
  BY <1>1, <1>4 DEF CallBack, Produce, WakeClient, Asleep
<1>5. ASSUME NEW c \in Clients, Stop(c) \/ \E q \in Requests : Call(c, q) PROVE OneMode'
  BY <1>1, <1>5 DEF Stop, Call
<1>6. CASE UNCHANGED vars
  BY <1>1, <1>6
<1>7. QED
  BY <1>2, <1>3, <1>4, <1>5, <1>6 DEF Next

\* The first buffer changes hands by sync_get() only.
LEMMA HeldIsFirstStep ==
  ASSUME Orderly, TypeOK, StopIsAlone, LoopIsThread, KinectThere, OneMode, HeldIsFirst,
     [Next]_vars
  PROVE  HeldIsFirst'
<1> USE DEF vars, shared, ring, device, client, HeldIsFirst
<1>1. ASSUME UNCHANGED <<fmt, bufs>>, \A r \in Rings : held'[r] \in {held[r], NULL}
      PROVE  HeldIsFirst'
  BY <1>1
<1>2. ASSUME NEW c \in Clients, ClientStep(c) PROVE HeldIsFirst'
  <2>1. CASE Check(c) \/ Join(c) \/ Inc(c) \/ Enter(c) \/ Dec(c) \/ DecJoin(c) \/ DecReturn(c)
    BY <1>1, <2>1 DEF Check, Join, Inc, Enter, Dec, DecJoin, DecReturn
  <2>2. CASE StartLoop(c) \/ AllocKinect(c) \/ LockRing(c)
    BY <1>1, <2>2 DEF StartLoop, AllocKinect, LockRing
  <2>3. CASE KeepMode(c) \/ StopStream(c) \/ AwaitFrame(c) \/ Task(c)
    BY <1>1, <2>3 DEF KeepMode, StopStream, AwaitFrame, Task
  <2>4. CASE ChangeMode(c)
    <3>1. want[c].ring \in Rings /\ fmt[want[c].ring] = NoMode
      BY <2>4, RequestFacts DEF ChangeMode, OneMode, TypeOK
    <3>2. held[want[c].ring] = NULL
      BY <3>1
    <3>3. UNCHANGED held /\ \A r \in Rings \ {want[c].ring} : fmt'[r] = fmt[r]
          /\ bufs'[r] = bufs[r]
      BY <2>4, <3>1 DEF ChangeMode, TypeOK
    <3>4. QED
      BY <3>2, <3>3
  <2>5. CASE TakeFrame(c)
    <3>1. fmt[want[c].ring] # NoMode /\ UNCHANGED fmt
      BY <2>5 DEF TakeFrame, KinectThere
    <3>2. held' = [held EXCEPT ![want[c].ring] = bufs[want[c].ring][1]]
      BY <2>5 DEF TakeFrame
    <3>3. QED
      BY <2>5, <3>1, <3>2, TakeFacts DEF TypeOK
  <2>6. QED
    BY <1>2, <2>1, <2>2, <2>3, <2>4, <2>5 DEF ClientStep
<1>3. ASSUME NEW l \in Loops, LoopStep(l) PROVE HeldIsFirst'
  <2>1. CASE LoopEnds(l)
    <3>1. \A r \in Rings : held'[r] = NULL
      BY <2>1 DEF LoopEnds, LoopIsThread, StopIsAlone
    <3>2. QED
      BY <3>1
  <2>2. CASE LoopWait(l) \/ LoopLock(l) \/ LoopTurn(l) \/ LoopFails(l) \/ LoopStopsVideo(l)
    BY <1>1, <2>2 DEF LoopWait, LoopLock, LoopTurn, LoopFails, LoopStopsVideo
  <2>3. QED
    BY <1>3, <2>1, <2>2 DEF LoopStep
<1>4. ASSUME NEW r \in Rings, CallBack(r) PROVE HeldIsFirst'
  BY <1>1, <1>4 DEF CallBack
<1>5. ASSUME NEW r \in Rings, Produce(r) PROVE HeldIsFirst'
  <2>1. UNCHANGED <<fmt, held>>
    BY <1>5 DEF Produce
  <2>2. QED
    BY <1>5, <2>1, ProduceFacts
<1>6. ASSUME NEW c \in Clients, Stop(c) \/ \E q \in Requests : Call(c, q) PROVE HeldIsFirst'
  BY <1>1, <1>6 DEF Stop, Call, TypeOK
<1>7. CASE UNCHANGED vars
  BY <1>1, <1>7
<1>8. QED
  BY <1>2, <1>3, <1>4, <1>5, <1>6, <1>7 DEF Next

\* The run loop sleeps while a task is pending: the last task wakes the one loop.
LEMMA LoopAwakeStep ==
  ASSUME TypeOK, PendingExact, LoopIsThread, NoLostWakeup, [Next]_vars
  PROVE  \A l \in Loops : loop'[l] = "asleep" => pending' > 0
<1> USE DEF vars, shared, ring, device, client
<1> DEFINE Awake == \A l \in Loops : loop[l] = "asleep" => pending > 0
<1>1. /\ Awake /\ loop \in [Loops -> {"none", "wait", "asleep", "lock", "events", "stopping",
                                      "closing", "done"}]
      /\ pending \in Nat
  BY FS_CardinalityType, SyncAssumption DEF TypeOK, NoLostWakeup
<1>2. ASSUME pending' = pending, \A l \in Loops : loop'[l] = "asleep" => loop[l] = "asleep"
      PROVE  Awake'
  BY <1>1, <1>2
<1>3. ASSUME NEW c \in Clients, pc[c] \in InTask, DecPending PROVE Awake'
  <2>1. pending > 0
    BY <1>3, CountFacts DEF PendingExact
  <2>2. CASE pending' # 0
    BY <1>1, <1>3, <2>1, <2>2 DEF DecPending
  <2>3. CASE pending' = 0
    <3>1. \A l \in Loops : loop[l] = "asleep" => l = thread
      BY DEF LoopIsThread
    <3>2. \A l \in Loops : loop'[l] # "asleep"
      BY <1>1, <1>3, <2>3, <3>1 DEF DecPending, WakeLoop
    <3>3. QED
      BY <3>2
  <2>4. QED
    BY <2>2, <2>3
<1>4. ASSUME NEW c \in Clients, ClientStep(c) PROVE Awake'
  <2>1. CASE Check(c) \/ Enter(c) \/ AllocKinect(c) \/ LockRing(c)
    BY <1>2, <2>1 DEF Check, Enter, AllocKinect, LockRing
  <2>2. CASE KeepMode(c) \/ StopStream(c) \/ ChangeMode(c) \/ TakeFrame(c)
    BY <1>2, <2>2 DEF KeepMode, StopStream, ChangeMode, TakeFrame
  <2>3. CASE AwaitFrame(c) \/ Task(c)
    BY <1>2, <2>3 DEF AwaitFrame, Task
  <2>4. CASE Join(c) \/ StartLoop(c)
    BY <1>1, <1>2, <2>4 DEF Join, StartLoop
  <2>5. CASE Inc(c)
    BY <1>1, <2>5 DEF Inc
  <2>6. CASE Dec(c) \/ DecJoin(c) \/ DecReturn(c)
    BY <1>3, <2>6 DEF Dec, DecJoin, DecReturn, InTask
  <2>7. QED
    BY <1>4, <2>1, <2>2, <2>3, <2>4, <2>5, <2>6 DEF ClientStep
<1>5. ASSUME NEW l \in Loops, LoopStep(l) PROVE Awake'
  <2>1. CASE LoopWait(l)
    BY <1>1, <2>1 DEF LoopWait
  <2>2. CASE LoopLock(l) \/ LoopTurn(l) \/ LoopFails(l) \/ LoopStopsVideo(l) \/ LoopEnds(l)
    BY <1>1, <1>2, <2>2 DEF LoopLock, LoopTurn, LoopFails, LoopStopsVideo, LoopEnds
  <2>3. QED
    BY <1>5, <2>1, <2>2 DEF LoopStep
<1>6. CASE UNCHANGED <<pending, loop>>
  BY <1>2, <1>6
<1>7. QED
  BY <1>4, <1>5, <1>6 DEF Next, Stop, Call, CallBack, Produce

\* A frame that is waited for was signalled to somebody who has not yet looked.
Served(r) ==
  valid[r] /\ Asleep(r) # {} => \E c \in Clients : pc[c] = "get" /\ want[c].ring = r

LEMMA ServedStep ==
  ASSUME Orderly, TypeOK, LoopIsThread, KinectThere, NoErrors, StopIsAlone, NoLostWakeup,
         [Next]_vars, NEW r \in Rings
  PROVE  Served(r)'
<1> USE DEF vars, shared, ring, device, client, Goto, Serve, TypeOK
<1>1. Served(r)
  BY DEF NoLostWakeup, Served
<1>2. ASSUME valid'[r] => valid[r],
             \A c \in Clients :
               /\ pc'[c] = "asleep" => pc[c] = "asleep" /\ want'[c] = want[c]
               /\ pc[c] = "get" => pc'[c] = "get" /\ want'[c] = want[c]
      PROVE  Served(r)'
  BY <1>1, <1>2 DEF Served, Asleep
<1>3. ASSUME NEW c \in Clients, ClientStep(c) PROVE Served(r)'
  <2>1. CASE Check(c) \/ Join(c) \/ Inc(c) \/ Enter(c) \/ Dec(c) \/ DecJoin(c) \/ DecReturn(c)
    BY <1>2, <2>1 DEF Check, Join, Inc, Enter, Dec, DecJoin, DecReturn, Leave
  <2>2. CASE StartLoop(c) \/ LockRing(c)
    BY <1>2, <2>2 DEF StartLoop, LockRing
  <2>3. CASE KeepMode(c) \/ StopStream(c) \/ Task(c)
    BY <1>2, <2>3 DEF KeepMode, StopStream, Task
  <2>4. CASE AllocKinect(c)
    <3>1. CASE kinect
      BY <1>2, <2>4, <3>1 DEF AllocKinect
    <3>2. CASE ~kinect
      <4>1. \A d \in Clients : pc[d] # "asleep"
        BY <3>2 DEF KinectThere
      <4>2. \A d \in Clients : pc'[d] # "asleep"
        BY <2>4, <4>1 DEF AllocKinect
      <4>3. QED
        BY <4>2 DEF Served, Asleep
    <3>3. QED
      BY <3>1, <3>2
  <2>5. CASE ChangeMode(c)
    BY <1>2, <2>5 DEF ChangeMode
  <2>6. CASE TakeFrame(c)
    <3>1. CASE want[c].ring = r
      <4>1. ~valid'[r]
        BY <2>6, <3>1 DEF TakeFrame
      <4>2. QED
        BY <4>1 DEF Served
    <3>2. CASE want[c].ring # r
      BY <1>1, <2>6, <3>2 DEF TakeFrame, Leave, Served, Asleep
    <3>3. QED
      BY <3>1, <3>2
  <2>7. CASE AwaitFrame(c)
    <3>1. CASE want[c].ring = r
      BY <2>7, <3>1 DEF AwaitFrame, Served
    <3>2. CASE want[c].ring # r
      BY <1>1, <2>7, <3>2 DEF AwaitFrame, Served, Asleep
    <3>3. QED
      BY <3>1, <3>2
  <2>8. QED
    BY <1>3, <2>1, <2>2, <2>3, <2>4, <2>5, <2>6, <2>7 DEF ClientStep
<1>4. ASSUME NEW l \in Loops, LoopStep(l) PROVE Served(r)'
  BY <1>2, <1>4
  DEF LoopStep, LoopWait, LoopLock, LoopTurn, LoopFails, LoopStopsVideo, LoopEnds
<1>5. ASSUME NEW q \in Rings, Produce(q) PROVE Served(r)'
  <2>1. UNCHANGED want /\ WakeClient(q) /\ \A p \in Rings \ {q} : valid'[p] = valid[p]
    BY <1>5 DEF Produce
  <2>2. CASE q = r
    <3>1. CASE Asleep(r) = {} /\ UNCHANGED pc
      BY <2>1, <3>1 DEF Served, Asleep
    <3>2. ASSUME NEW c \in Asleep(r), Goto(c, "get") PROVE Served(r)'
      BY <2>1, <3>2 DEF Served, Asleep
    <3>3. QED
      BY <2>1, <2>2, <3>1, <3>2 DEF WakeClient
  <2>3. CASE q # r
    BY <1>1, <1>2, <2>1, <2>3 DEF WakeClient, Asleep
  <2>4. QED
    BY <2>2, <2>3
<1>6. ASSUME NEW c \in Clients, Stop(c) \/ \E q \in Requests : Call(c, q) PROVE Served(r)'
  BY <1>2, <1>6 DEF Stop, Call
<1>7. CASE (\E q \in Rings : CallBack(q)) \/ UNCHANGED vars
  BY <1>2, <1>7 DEF CallBack
<1>8. QED
  BY <1>3, <1>4, <1>5, <1>6, <1>7 DEF Next

LEMMA NoLostWakeupStep ==
  ASSUME CallInv, Orderly, [Next]_vars
  PROVE  NoLostWakeup'
BY LoopAwakeStep, ServedStep DEF CallInv, RingInv, NoLostWakeup, Served

LEMMA CallInvInit == Init => BoxInv
<1>1. SUFFICES ASSUME Init PROVE BoxInv
  OBVIOUS
<1>2. RingInv
  BY <1>1, RingInvInit
<1>3. StopIsAlone /\ LoopIsThread /\ NoErrors /\ KinectThere /\ OneMode
  BY <1>1, RequestFacts DEF Init, StopIsAlone, LoopIsThread, NoErrors, KinectThere, OneMode
<1>4. NoLostWakeup /\ HeldIsFirst
  BY <1>1 DEF Init, NoLostWakeup, HeldIsFirst
<1>5. ModeInv
  BY <1>1, ModeInvInit
<1>6. QED
  BY <1>2, <1>3, <1>4, <1>5 DEF BoxInv, CallInv

LEMMA CallInvStep == Orderly /\ CallInv /\ [Next]_vars => CallInv'
<1>1. SUFFICES ASSUME Orderly, CallInv, [Next]_vars PROVE CallInv'
  OBVIOUS
<1> USE <1>1
<1>2. RingInv'
  BY RingInvStep DEF CallInv
<1>3. StopIsAlone' /\ NoErrors' /\ LoopIsThread'
  BY StopIsAloneStep, LoopIsThreadStep DEF CallInv, RingInv
<1>4. KinectThere' /\ OneMode'
  BY KinectThereStep, OneModeStep DEF CallInv, RingInv
<1>5. NoLostWakeup' /\ HeldIsFirst'
  BY NoLostWakeupStep, HeldIsFirstStep DEF CallInv, RingInv
<1>6. QED
  BY <1>2, <1>3, <1>4, <1>5 DEF CallInv

LEMMA BoxInvariant ==
  ASSUME Orderly
  PROVE  Spec => []BoxInv
<1>1. BoxInv /\ [Next]_vars => BoxInv'
  BY CallInvStep, ModeInvStep DEF BoxInv, CallInv
<1>2. QED
  BY <1>1, CallInvInit, PTL DEF Spec

\* However many threads call, there is never a second run loop: init_thread()
\* runs under runloop_lock, and freenect_sync_stop() joins the thread.
THEOREM OneRunloopAtMost ==
  ASSUME Orderly
  PROVE  Spec => []OneRunloop
<1>1. BoxInv => OneRunloop
  <2>1. SUFFICES ASSUME BoxInv PROVE OneRunloop
    OBVIOUS
  <2>2. {l \in Loops : Alive(l)} \subseteq {thread}
    BY <2>1 DEF BoxInv, CallInv, LoopIsThread, Alive
  <2>3. Cardinality({l \in Loops : Alive(l)}) <= Cardinality({thread})
    BY <2>2, FS_Singleton, FS_Subset
  <2>4. QED
    BY <2>3, FS_Singleton DEF OneRunloop
<1>2. QED
  BY <1>1, BoxInvariant, PTL

\* sync_get() and the tasks use kinects[index] without asking again whether it
\* is there; it is.
THEOREM KinectIsFound ==
  ASSUME Orderly
  PROVE  Spec => []CallsFindKinect
<1>1. BoxInv => CallsFindKinect
  BY DEF BoxInv, CallInv, KinectThere, CallsFindKinect
<1>2. QED
  BY <1>1, BoxInvariant, PTL

\* No wakeup is lost, however the signals of the run loop, of its callbacks and of
\* the pending tasks interleave with going to sleep; setup_kinect() leaves a run
\* loop, and a client waits only for frames of a ring that was set up.
THEOREM NobodyWaitsInVain ==
  ASSUME Orderly
  PROVE  Spec => []NothingAwaitedInVain
<1>1. BoxInv => NothingAwaitedInVain
  <2>1. SUFFICES ASSUME BoxInv PROVE NothingAwaitedInVain
    OBVIOUS
  <2>2. NoLostWakeup
    BY <2>1 DEF BoxInv, CallInv
  <2>3. StartsRunloop
    BY <2>1 DEF BoxInv, CallInv, LoopIsThread, StartsRunloop
  <2>4. ErrorReported
    BY <2>1 DEF BoxInv, CallInv, KinectThere, ErrorReported
  <2>5. QED
    BY <2>2, <2>3, <2>4 DEF NothingAwaitedInVain
<1>2. QED
  BY <1>1, BoxInvariant, PTL

\* The buffer a client was given is the first of its ring until the function is
\* called again: the camera never fills it and no setup frees it.
THEOREM HeldBufferIsOwn ==
  ASSUME Orderly
  PROVE  Spec => []HeldBufferValid
<1>1. BoxInv => HeldBufferValid
  BY BufferFacts DEF BoxInv, CallInv, RingInv, RingIntact, HeldIsFirst, HeldBufferValid
<1>2. QED
  BY <1>1, BoxInvariant, PTL

-----------------------------------------------------------------------------
(* A ring is a Mailbox. *)

LEMMA BoxStep ==
  ASSUME Orderly, BoxInv, [Next]_vars
  PROVE  [Box!Next]_(Box!vars)
<1> USE DEF vars, shared, ring, device, client, Box!Next, Box!vars
<1> DEFINE v == "video"
<1>0. /\ v \in Rings /\ TypeOK /\ TimesAreFunctions /\ RingIntact /\ HeldIsFirst /\ FrameInPlace
      /\ KinectThere /\ StopIsAlone
  BY DEF BoxInv, CallInv, RingInv, ModeInv, Rings
<1>1. ASSUME fmt'[v] = fmt[v], valid'[v] = valid[v], timestamp'[v] = timestamp[v],
             bufs'[v] = bufs[v], content'[v] = content[v]
      PROVE  Slot(v)' = Slot(v)
  BY <1>1 DEF Slot
<1>2. ASSUME held'[v] = held[v], content'[v] = content[v] PROVE Taken(v)' = Taken(v)
  BY <1>2 DEF Taken
<1>3. ASSUME held'[v] = NULL PROVE Taken(v)' = <<>>
  BY <1>3 DEF Taken
<1>4. ASSUME ~valid'[v] \/ fmt'[v] = NoMode PROVE Slot(v)' = <<>>
  BY <1>4 DEF Slot
<1>5. ASSUME UNCHANGED <<fmt, valid, timestamp, bufs, content, held>>
      PROVE  UNCHANGED Box!vars
  BY <1>1, <1>2, <1>5
<1>6. ASSUME NEW c \in Clients, ClientStep(c) PROVE [Box!Next]_(Box!vars)
  <2>1. CASE Check(c) \/ Join(c) \/ Inc(c) \/ Enter(c) \/ Dec(c) \/ DecJoin(c) \/ DecReturn(c)
    BY <1>5, <2>1 DEF Check, Join, Inc, Enter, Dec, DecJoin, DecReturn
  <2>2. CASE StartLoop(c) \/ LockRing(c) \/ KeepMode(c) \/ StopStream(c) \/ AwaitFrame(c)
        \/ Task(c)
    BY <1>5, <2>2 DEF StartLoop, LockRing, KeepMode, StopStream, AwaitFrame, Task
  <2>3. CASE AllocKinect(c)
    <3>1. CASE UNCHANGED valid
      BY <1>5, <2>3, <3>1 DEF AllocKinect
    <3>2. CASE ~kinect
      <4>1. fmt[v] = NoMode /\ fmt'[v] = NoMode
        BY <1>0, <2>3, <3>2 DEF AllocKinect, RingIntact
      <4>2. Slot(v)' = Slot(v)
        BY <1>4, <4>1 DEF Slot
      <4>3. Taken(v)' = Taken(v)
        BY <1>2, <2>3 DEF AllocKinect
      <4>4. QED
        BY <4>2, <4>3
    <3>3. QED
      BY <2>3, <3>1, <3>2 DEF AllocKinect
  <2>4. CASE ChangeMode(c)
    <3>1. Taken(v)' = Taken(v)
      BY <1>2, <2>4 DEF ChangeMode
    <3>2. CASE want[c].ring = v
      <4>1. ~valid'[v]
        BY <1>0, <2>4, <3>2 DEF ChangeMode, TypeOK
      <4>2. Box!Clear
        BY <1>4, <3>1, <4>1 DEF Box!Clear, Box!Empty
      <4>3. QED
        BY <4>2
    <3>3. CASE want[c].ring # v
      <4>1. /\ fmt'[v] = fmt[v] /\ valid'[v] = valid[v] /\ timestamp'[v] = timestamp[v]
            /\ bufs'[v] = bufs[v] /\ content'[v] = content[v]
        BY <1>0, <2>4, <3>3 DEF ChangeMode, TypeOK, TimesAreFunctions
      <4>2. QED
        BY <1>1, <3>1, <4>1
    <3>4. QED
      BY <3>2, <3>3
  <2>5. CASE TakeFrame(c)
    <3>1. CASE want[c].ring = v
      <4>1. fmt[v] # NoMode /\ valid[v] /\ bufs[v][1] # NULL
        BY <1>0, <2>5, <3>1, BufferFacts DEF TakeFrame, KinectThere, Buffers, NULL
      <4>2. held'[v] = bufs[v][1] /\ ~valid'[v] /\ UNCHANGED content
        BY <1>0, <2>5, <3>1 DEF TakeFrame, TypeOK
      <4>3. Slot(v) = <<content[v][bufs[v][1]], timestamp[v]>>
        BY <4>1 DEF Slot
      <4>4. Taken(v)' = <<content[v][bufs[v][1]]>>
        BY <4>1, <4>2 DEF Taken
      <4>5. Box!Take
        BY <1>4, <4>2, <4>3, <4>4 DEF Box!Take, Box!Empty
      <4>6. QED
        BY <4>5
    <3>2. CASE want[c].ring # v
      <4>1. v \in Rings \ {want[c].ring}
        BY <1>0, <3>2
      <4>2. bufs'[v] = bufs[v]
        BY <1>0, <2>5, <4>1, TakeFacts
      <4>3. valid'[v] = valid[v] /\ held'[v] = held[v] /\ UNCHANGED <<fmt, timestamp, content>>
        BY <1>0, <2>5, <3>2 DEF TakeFrame, TypeOK
      <4>4. QED
        BY <1>1, <1>2, <4>2, <4>3
    <3>3. QED
      BY <3>1, <3>2
  <2>6. QED
    BY <1>6, <2>1, <2>2, <2>3, <2>4, <2>5 DEF ClientStep
<1>7. ASSUME NEW l \in Loops, LoopStep(l) PROVE [Box!Next]_(Box!vars)
  <2>1. CASE LoopEnds(l)
    <3>1. Taken(v)' = Taken(v)
      BY <1>2, <2>1 DEF LoopEnds
    <3>2. Box!Clear
      BY <1>0, <1>4, <2>1, <3>1 DEF LoopEnds, Box!Clear, Box!Empty
    <3>3. QED
      BY <3>2
  <2>2. CASE LoopWait(l) \/ LoopLock(l) \/ LoopTurn(l) \/ LoopFails(l) \/ LoopStopsVideo(l)
    BY <1>5, <2>2 DEF LoopWait, LoopLock, LoopTurn, LoopFails, LoopStopsVideo
  <2>3. QED
    BY <1>7, <2>1, <2>2 DEF LoopStep
<1>8. ASSUME NEW r \in Rings, CallBack(r) PROVE [Box!Next]_(Box!vars)
  <2>1. UNCHANGED <<fmt, valid, timestamp, bufs, held>>
    BY <1>8 DEF CallBack
  <2>2. CASE r # v
    <3>1. content'[v] = content[v]
      BY <1>0, <1>8, <2>2 DEF CallBack, TypeOK
    <3>2. QED
      BY <1>1, <1>2, <2>1, <3>1
  <2>3. CASE r = v
    <3>1. fmt[v] # NoMode /\ dev_buf[v] = bufs[v][2]
      BY <1>0, <1>8, <2>3 DEF CallBack, RingIntact
    <3>2. content' = [content EXCEPT ![v] = [content[v] EXCEPT ![bufs[v][2]] = frame'[v]]]
      BY <1>8, <2>3, <3>1 DEF CallBack
    <3>3. \A b \in Buffers : b # bufs[v][2] => content'[v][b] = content[v][b]
      BY <1>0, <3>2 DEF TypeOK
    <3>4. content'[v][bufs[v][1]] = content[v][bufs[v][1]]
      BY <1>0, <3>1, <3>3, BufferFacts
    <3>5. held[v] # NULL => content'[v][held[v]] = content[v][held[v]]
      BY <1>0, <3>1, <3>3, BufferFacts DEF HeldIsFirst
    <3>6. Slot(v)' = Slot(v) /\ Taken(v)' = Taken(v)
      BY <2>1, <3>4, <3>5 DEF Slot, Taken
    <3>7. QED
      BY <3>6
  <2>4. QED
    BY <2>2, <2>3
<1>9. ASSUME NEW r \in Rings, Produce(r) PROVE [Box!Next]_(Box!vars)
  <2>1. UNCHANGED <<fmt, content, held>>
    BY <1>9 DEF Produce
  <2>2. Taken(v)' = Taken(v)
    BY <1>2, <2>1
  <2>3. CASE r # v
    <3>1. bufs'[v] = bufs[v]
      BY <1>0, <1>9, <2>3, ProduceFacts
    <3>2. valid'[v] = valid[v] /\ timestamp'[v] = timestamp[v]
      BY <1>0, <1>9, <2>3 DEF Produce, TypeOK, TimesAreFunctions
    <3>3. QED
      BY <1>1, <2>1, <2>2, <3>1, <3>2
  <2>4. CASE r = v
    <3>1. cb = v /\ fmt[v] # NoMode /\ content[v][bufs[v][2]] = frame[v]
      BY <1>0, <1>9, <2>4 DEF Produce, FrameInPlace, RingIntact
    <3>2. valid'[v] /\ timestamp'[v] = frame[v]
      BY <1>0, <1>9, <2>4 DEF Produce, TypeOK, TimesAreFunctions
    <3>3. bufs'[v][1] = bufs[v][2]
      BY <1>0, <1>9, <2>4, ProduceFacts
    <3>4. Slot(v)' = <<frame[v], frame[v]>>
      BY <2>1, <3>1, <3>2, <3>3 DEF Slot
    <3>5. frame[v] \in FrameNumbers(v)
      BY <1>0 DEF TypeOK
    <3>6. Box!Put
      BY <2>2, <3>4, <3>5 DEF Box!Put
    <3>7. QED
      BY <3>6
  <2>5. QED
    BY <2>3, <2>4
<1>10. ASSUME NEW c \in Clients, Stop(c) \/ \E q \in Requests : Call(c, q)
       PROVE  [Box!Next]_(Box!vars)
  <2>1. held'[v] \in {held[v], NULL} /\ UNCHANGED <<fmt, valid, timestamp, bufs, content>>
    BY <1>0, <1>10 DEF Stop, Call, TypeOK
  <2>2. Slot(v)' = Slot(v)
    BY <1>1, <2>1
  <2>3. CASE held'[v] = held[v]
    BY <1>2, <2>1, <2>2, <2>3
  <2>4. CASE held'[v] = NULL
    <3>1. Box!Release
      BY <1>3, <2>2, <2>4 DEF Box!Release, Box!Empty
    <3>2. QED
      BY <3>1
  <2>5. QED
    BY <2>1, <2>3, <2>4
<1>11. CASE UNCHANGED vars
  BY <1>5, <1>11
<1>12. QED
  BY <1>6, <1>7, <1>8, <1>9, <1>10, <1>11 DEF Next

\* Calls, callbacks, modes and stops of any number of threads make of a ring a
\* place for one frame: each is given once, newest first, with its own timestamp,
\* and what was given stays as it was until it is given up.
THEOREM RingIsMailbox ==
  ASSUME Orderly
  PROVE  Spec => ImplementsMailbox
<1>1. Init => Box!Init
  BY DEF Init, Box!Init, Box!Empty, Slot, Taken, Rings
<1>2. BoxInv /\ [Next]_vars => [Box!Next]_(Box!vars)
  BY BoxStep
<1>3. QED
  BY <1>1, <1>2, BoxInvariant, PTL DEF Spec, ImplementsMailbox, Box!Spec
=============================================================================
