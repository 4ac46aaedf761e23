---------------------------- MODULE SyncWrapper ----------------------------
(***************************************************************************)
(* The synchronous wrapper, wrappers/c_sync/libfreenect_sync.c: client       *)
(* threads ask for frames or run small tasks; a run loop thread, started by  *)
(* the first of them, handles USB events and fills a ring of three buffers   *)
(* per stream.                                                               *)
(*                                                                          *)
(* One kinect (one index).  A format with a resolution is a mode.  Each      *)
(* action is a piece of code between two points where another thread can    *)
(* interfere: a lock taken, an unlocked read, a wait.  Frame callbacks run   *)
(* in whichever thread is inside libfreenect, that is, in the holder of      *)
(* runloop_lock.                                                             *)
(***************************************************************************)
EXTENDS Integers, FiniteSets

CONSTANTS
  Clients,         \* client threads
  Loops,           \* bound: run loop threads that exist at once
  Requests,        \* what clients ask for: [ring, fmt, task] records
  Refused,         \* modes alloc_buffer_ring_*() refuses
  Faults,          \* what may fail: subset of {"init", "open", "start", "unplug"}
  ConcurrentStop,  \* may freenect_sync_stop() be called while others are in a call?
  FrameMod         \* bound: frames of a ring are numbered modulo FrameMod[ring]

NULL == "NULL"
NoMode == "-1"       \* fmt and res of a ring without buffers
Rings == {"video", "depth"}
Slots == 0 .. 2      \* bufs[0]: the client's, bufs[1]: the latest, bufs[2]: being filled
Buffers == {"A", "B", "C"}
Modes == {q.fmt : q \in Requests}
FrameNumbers(r) == 0 .. FrameMod[r] - 1

\* What runloop_enter() asks setup_kinect() for.
DefaultMode == "11bit"
TaskRequest == [ring |-> "depth", fmt |-> DefaultMode, task |-> TRUE]

ASSUME SyncAssumption ==
  /\ \A q \in Requests : q.ring \in Rings /\ (q.task => q = TaskRequest)
  /\ NoMode \notin Modes
  /\ FrameMod \in [Rings -> Nat \ {0}]
  /\ Faults \subseteq {"init", "open", "start", "unplug"}
  /\ ConcurrentStop \in BOOLEAN
  /\ Clients \cap Loops = {} /\ NULL \notin Clients \cup Loops
  /\ IsFiniteSet(Clients) /\ IsFiniteSet(Loops)

VARIABLES
  \* shared by all threads
  thread_running, thread, ctx,
  kinect,          \* kinects[index] # NULL
  runloop_lock,    \* its holder
  pending,         \* pending_runloop_tasks
  \* buffer_ring_t, per ring
  ring_lock, bufs, timestamp, valid, fmt,
  \* libfreenect, per stream
  streaming,       \* the stream runs
  dev_buf,         \* the buffer it fills
  cb,              \* the ring whose frame callback is on the stack
  frame,           \* the number of the last frame
  content,         \* the frame in each buffer
  dev_fmt,         \* the mode the stream was set to
  kind,            \* the mode of the frame in each buffer
  \* threads
  pc, want, started, joining, loop,
  held             \* per ring: the buffer last returned, until the next call

ring == <<ring_lock, bufs, timestamp, valid, fmt>>
device == <<streaming, dev_buf, cb, frame, content, dev_fmt, kind>>
shared == <<thread_running, thread, ctx, kinect, runloop_lock, pending>>
client == <<pc, want, started, joining, held>>
vars == <<shared, ring, device, client, loop>>

NoBufs == [i \in Slots |-> NULL]
NoFrames == [b \in Buffers |-> NoMode]
FreshBufs == [i \in Slots |-> IF i = 0 THEN "A" ELSE IF i = 1 THEN "B" ELSE "C"]

Init ==
  /\ thread_running = FALSE /\ thread = NULL /\ ctx = "NULL"
  /\ kinect = FALSE /\ runloop_lock = NULL /\ pending = 0
  /\ ring_lock = [r \in Rings |-> NULL]
  /\ bufs = [r \in Rings |-> NoBufs]
  /\ timestamp = [r \in Rings |-> 0]
  /\ valid = [r \in Rings |-> FALSE]
  /\ fmt = [r \in Rings |-> NoMode]
  /\ streaming = [r \in Rings |-> FALSE]
  /\ dev_buf = [r \in Rings |-> NULL]
  /\ cb = NULL
  /\ frame = [r \in Rings |-> 0]
  /\ content = [r \in Rings |-> [b \in Buffers |-> 0]]
  /\ dev_fmt = [r \in Rings |-> NoMode]
  /\ kind = [r \in Rings |-> NoFrames]
  /\ pc = [c \in Clients |-> "idle"]
  /\ want = [c \in Clients |-> TaskRequest]
  /\ started = [c \in Clients |-> FALSE]
  /\ joining = [c \in Clients |-> NULL]
  /\ loop = [l \in Loops |-> "none"]
  /\ held = [r \in Rings |-> NULL]

Goto(c, label) == pc' = [pc EXCEPT ![c] = label]

\* The call returns; its arguments and locals end with it.
Leave(c) ==
  /\ Goto(c, "idle")
  /\ want' = [want EXCEPT ![c] = TaskRequest]
  /\ started' = [started EXCEPT ![c] = FALSE]
  /\ joining' = [joining EXCEPT ![c] = NULL]

Alive(l) == loop[l] \notin {"none", "done"}

-----------------------------------------------------------------------------
(* Calls. *)

\* The client enters freenect_sync_get_video/depth(), or one of the tasks
\* (tilt, led, camera_to_world).  A frame returned before is given up.
Call(c, q) ==
  /\ pc[c] = "idle"
  /\ ConcurrentStop \/ \A d \in Clients : pc[d] # "stop"
  /\ want' = [want EXCEPT ![c] = q]
  /\ held' = IF q.task THEN held ELSE [held EXCEPT ![q.ring] = NULL]
  /\ Goto(c, "check")
  /\ UNCHANGED <<shared, ring, device, started, joining, loop>>

\* The test before setup_kinect(), made without a lock.
NeedsSetup(c) ==
  \/ ~thread_running \/ ~kinect
  \/ ~want[c].task /\ fmt[want[c].ring] # want[c].fmt

\* What follows once the kinect is there: the task, or sync_get().
Serve(c) == IF want[c].task THEN "inc_task" ELSE "get"

Check(c) ==
  /\ pc[c] = "check"
  /\ Goto(c, IF NeedsSetup(c) THEN "inc" ELSE Serve(c))
  /\ UNCHANGED <<shared, ring, device, want, started, joining, held, loop>>

\* Mutant: stop without joining the thread.
MutStop(c) ==
  /\ pc[c] = "idle" /\ thread_running
  /\ ConcurrentStop \/ \A d \in Clients : pc[d] = "idle"
  /\ thread_running' = FALSE
  /\ held' = [r \in Rings |-> NULL]
  /\ UNCHANGED <<thread, ctx, kinect, runloop_lock, pending, ring, device,
                 pc, want, started, joining, loop>>

\* freenect_sync_stop(): thread_running = 0, no lock, then join.  The buffers
\* returned before go with the run loop.
Stop(c) ==
  /\ pc[c] = "idle" /\ thread_running
  /\ ConcurrentStop \/ \A d \in Clients : pc[d] = "idle"
  /\ thread_running' = FALSE
  /\ joining' = [joining EXCEPT ![c] = thread]
  /\ held' = [r \in Rings |-> NULL]
  /\ Goto(c, "stop")
  /\ UNCHANGED <<thread, ctx, kinect, runloop_lock, pending, ring, device,
                 want, started, loop>>

\* pthread_join() returns; of a thread that never was (init_thread() failed and
\* left thread_running set) it does not.
Join(c) ==
  /\ pc[c] \in {"join", "stop"} /\ joining[c] # NULL /\ loop[joining[c]] = "done"
  /\ loop' = [loop EXCEPT ![joining[c]] = "none"]
  /\ Leave(c)
  /\ UNCHANGED <<shared, ring, device, held>>

-----------------------------------------------------------------------------
(* Pending tasks and the run loop lock. *)

\* pending_runloop_tasks_inc().
Inc(c) ==
  /\ pc[c] \in {"inc", "inc_task"}
  /\ pending' = pending + 1
  /\ Goto(c, IF pc[c] = "inc" THEN "enter" ELSE "enter_task")
  /\ UNCHANGED <<thread_running, thread, ctx, kinect, runloop_lock, ring, device,
                 want, started, joining, held, loop>>

\* pthread_mutex_lock(&runloop_lock).
Enter(c) ==
  /\ pc[c] \in {"enter", "enter_task"} /\ runloop_lock = NULL
  /\ runloop_lock' = c
  /\ Goto(c, IF pc[c] = "enter" THEN "start" ELSE "task")
  /\ UNCHANGED <<thread_running, thread, ctx, kinect, pending, ring, device,
                 want, started, joining, held, loop>>

\* pthread_cond_signal(): one of the run loops asleep, if any, wakes.
WakeLoop ==
  \/ \E l \in Loops : loop[l] = "asleep" /\ loop' = [loop EXCEPT ![l] = "wait"]
  \/ (\A l \in Loops : loop[l] # "asleep") /\ UNCHANGED loop

\* Mutant: the run loop is not signalled.
MutDecPending == pending' = pending - 1 /\ UNCHANGED loop

\* pending_runloop_tasks_dec().
DecPending ==
  /\ pending' = pending - 1
  /\ IF pending' = 0 THEN WakeLoop ELSE UNCHANGED loop

\* setup_kinect() goes on to the client's business ...
Dec(c) ==
  /\ pc[c] = "dec"
  /\ DecPending
  /\ Goto(c, Serve(c))
  /\ UNCHANGED <<thread_running, thread, ctx, kinect, runloop_lock, ring, device,
                 want, started, joining, held>>

\* ... or has failed and first joins the thread it started ...
DecJoin(c) ==
  /\ pc[c] = "dec_join"
  /\ DecPending
  /\ joining' = [joining EXCEPT ![c] = thread]
  /\ Goto(c, "join")
  /\ UNCHANGED <<thread_running, thread, ctx, kinect, runloop_lock, ring, device,
                 want, started, held>>

\* ... or the call is over: the task is done, or setup_kinect() failed.
DecReturn(c) ==
  /\ pc[c] \in {"dec_task", "dec_error"}
  /\ DecPending
  /\ Leave(c)
  /\ UNCHANGED <<thread_running, thread, ctx, kinect, runloop_lock, ring, device, held>>

-----------------------------------------------------------------------------
(* setup_kinect(), with runloop_lock held. *)

\* if (!thread_running) init_thread(), which sets thread_running first and
\* leaves it set when freenect_init() or pthread_create() fails.
StartLoop(c) ==
  /\ pc[c] = "start"
  /\ started' = [started EXCEPT ![c] = ~thread_running]
  /\ thread_running' = TRUE
  /\ \/ /\ thread_running
        /\ Goto(c, "alloc")
        /\ UNCHANGED <<thread, ctx, runloop_lock, loop>>
     \/ /\ ~thread_running
        /\ \E l \in Loops :
             /\ loop[l] = "none"
             /\ thread' = l
             /\ loop' = [loop EXCEPT ![l] = "wait"]
        /\ ctx' = "live"
        /\ Goto(c, "alloc")
        /\ UNCHANGED runloop_lock
     \/ /\ ~thread_running /\ "init" \in Faults
        /\ ctx' \in {"NULL", "live"}
        /\ runloop_lock' = NULL
        /\ Goto(c, "dec_error")
        /\ UNCHANGED <<thread, loop>>
  /\ UNCHANGED <<kinect, pending, ring, device, want, joining, held>>

\* Mutant: the error return leaves the task pending.
MutAllocKinect(c) ==
  /\ pc[c] = "alloc"
  /\ \/ /\ kinect
        /\ Goto(c, "ring")
        /\ UNCHANGED <<thread_running, kinect, runloop_lock, valid, want, started, joining>>
     \/ /\ ~kinect
        /\ kinect' = TRUE
        /\ valid' \in [Rings -> BOOLEAN]
        /\ Goto(c, "ring")
        /\ UNCHANGED <<thread_running, runloop_lock, want, started, joining>>
     \/ /\ ~kinect /\ "open" \in Faults
        /\ runloop_lock' = NULL
        /\ Leave(c)
        /\ UNCHANGED <<thread_running, kinect, valid>>
  /\ UNCHANGED <<thread, ctx, pending, ring_lock, bufs, timestamp, fmt, device, held, loop>>

\* if (!kinects[index]) alloc_kinect(): the rings get no buffers and no
\* format; their `valid` is whatever malloc() returned.  If it fails, a run
\* loop started above is brought back.
AllocKinect(c) ==
  /\ pc[c] = "alloc"
  /\ \/ /\ kinect
        /\ Goto(c, "ring")
        /\ UNCHANGED <<thread_running, kinect, runloop_lock, valid>>
     \/ /\ ~kinect
        /\ kinect' = TRUE
        /\ valid' \in [Rings -> BOOLEAN]
        /\ Goto(c, "ring")
        /\ UNCHANGED <<thread_running, runloop_lock>>
     \/ /\ ~kinect /\ "open" \in Faults
        /\ thread_running' = (thread_running /\ ~started[c])
        /\ runloop_lock' = NULL
        /\ Goto(c, IF started[c] THEN "dec_join" ELSE "dec_error")
        /\ UNCHANGED <<kinect, valid>>
  /\ UNCHANGED <<thread, ctx, pending, ring_lock, bufs, timestamp, fmt, device,
                 want, started, joining, held, loop>>

LockRing(c) ==
  /\ pc[c] = "ring" /\ ring_lock[want[c].ring] = NULL
  /\ ring_lock' = [ring_lock EXCEPT ![want[c].ring] = c]
  /\ Goto(c, "change")
  /\ UNCHANGED <<shared, bufs, timestamp, valid, fmt, device,
                 want, started, joining, held, loop>>

\* The ring has the right mode already: unlock both.
KeepMode(c) ==
  LET r == want[c].ring IN
  /\ pc[c] = "change" /\ fmt[r] = want[c].fmt
  /\ ring_lock' = [ring_lock EXCEPT ![r] = NULL]
  /\ runloop_lock' = NULL
  /\ Goto(c, "dec")
  /\ UNCHANGED <<thread_running, thread, ctx, kinect, pending, bufs, timestamp, valid,
                 fmt, device, want, started, joining, held, loop>>

\* change_video_format() / change_depth_format(): the stream is stopped ...
StopStream(c) ==
  LET r == want[c].ring IN
  /\ pc[c] = "change" /\ fmt[r] # want[c].fmt
  /\ streaming' = [streaming EXCEPT ![r] = FALSE]
  /\ Goto(c, "changing")
  /\ UNCHANGED <<shared, ring, dev_buf, cb, frame, content, dev_fmt, kind,
                 want, started, joining, held, loop>>

\* Mutant: the ring keeps its frame.
MutChangeMode(c) ==
  LET r == want[c].ring
      ok == want[c].fmt \notin Refused
  IN
  /\ pc[c] = "changing" /\ cb = NULL
  /\ bufs' = [bufs EXCEPT ![r] = IF ok THEN FreshBufs ELSE NoBufs]
  /\ timestamp' = [timestamp EXCEPT ![r] = 0]
  /\ fmt' = [fmt EXCEPT ![r] = IF ok THEN want[c].fmt ELSE NoMode]
  /\ dev_buf' = IF ok THEN [dev_buf EXCEPT ![r] = bufs'[r][2]] ELSE dev_buf
  /\ dev_fmt' = IF ok THEN [dev_fmt EXCEPT ![r] = want[c].fmt] ELSE dev_fmt
  /\ kind' = [kind EXCEPT ![r] = NoFrames]
  /\ \/ ok /\ streaming' = [streaming EXCEPT ![r] = TRUE]
     \/ (~ok \/ "start" \in Faults) /\ UNCHANGED streaming
  /\ ring_lock' = [ring_lock EXCEPT ![r] = NULL]
  /\ runloop_lock' = NULL
  /\ Goto(c, "dec")
  /\ UNCHANGED <<thread_running, thread, ctx, kinect, pending, valid, cb, frame, content,
                 want, started, joining, held, loop>>

\* ... its ring freed and, unless the mode is refused, allocated again, the
\* last buffer given to the device and the stream started.  setup_kinect()
\* unlocks and returns 0 whatever came of it.
ChangeMode(c) ==
  LET r == want[c].ring
      ok == want[c].fmt \notin Refused
  IN
  /\ pc[c] = "changing" /\ cb = NULL
  /\ bufs' = [bufs EXCEPT ![r] = IF ok THEN FreshBufs ELSE NoBufs]
  /\ timestamp' = [timestamp EXCEPT ![r] = 0]
  /\ valid' = [valid EXCEPT ![r] = FALSE]
  /\ fmt' = [fmt EXCEPT ![r] = IF ok THEN want[c].fmt ELSE NoMode]
  /\ dev_buf' = IF ok THEN [dev_buf EXCEPT ![r] = bufs'[r][2]] ELSE dev_buf
  /\ dev_fmt' = IF ok THEN [dev_fmt EXCEPT ![r] = want[c].fmt] ELSE dev_fmt
  /\ kind' = [kind EXCEPT ![r] = NoFrames]
  /\ \/ ok /\ streaming' = [streaming EXCEPT ![r] = TRUE]
     \/ (~ok \/ "start" \in Faults) /\ UNCHANGED streaming
  /\ ring_lock' = [ring_lock EXCEPT ![r] = NULL]
  /\ runloop_lock' = NULL
  /\ Goto(c, "dec")
  /\ UNCHANGED <<thread_running, thread, ctx, kinect, pending, cb, frame, content,
                 want, started, joining, held, loop>>

-----------------------------------------------------------------------------
(* Frames and tasks. *)

\* Mutants: the buffers are not exchanged; the frame stays valid.
MutTakeNoSwap(c) ==
  LET r == want[c].ring IN
  /\ pc[c] = "get" /\ kinect /\ ring_lock[r] = NULL /\ valid[r]
  /\ valid' = [valid EXCEPT ![r] = FALSE]
  /\ held' = [held EXCEPT ![r] = bufs[r][1]]
  /\ Leave(c)
  /\ UNCHANGED <<shared, ring_lock, bufs, timestamp, fmt, device, loop>>
MutTakeKeepsValid(c) ==
  LET r == want[c].ring IN
  /\ pc[c] = "get" /\ kinect /\ ring_lock[r] = NULL /\ valid[r]
  /\ bufs' = [bufs EXCEPT ![r][0] = bufs[r][1], ![r][1] = bufs[r][0]]
  /\ held' = [held EXCEPT ![r] = bufs[r][1]]
  /\ Leave(c)
  /\ UNCHANGED <<shared, ring_lock, timestamp, valid, fmt, device, loop>>

\* sync_get(): take the frame in the middle buffer ...
TakeFrame(c) ==
  LET r == want[c].ring IN
  /\ pc[c] = "get" /\ kinect /\ ring_lock[r] = NULL /\ valid[r]
  /\ bufs' = [bufs EXCEPT ![r][0] = bufs[r][1], ![r][1] = bufs[r][0]]
  /\ valid' = [valid EXCEPT ![r] = FALSE]
  /\ held' = [held EXCEPT ![r] = bufs[r][1]]
  /\ Leave(c)
  /\ UNCHANGED <<shared, ring_lock, timestamp, fmt, device, loop>>

\* ... or wait for one.
AwaitFrame(c) ==
  LET r == want[c].ring IN
  /\ pc[c] = "get" /\ kinect /\ ring_lock[r] = NULL /\ ~valid[r]
  /\ Goto(c, "asleep")
  /\ UNCHANGED <<shared, ring, device, want, started, joining, held, loop>>

\* Mutant: runloop_exit() forgets the pending task.
MutTask(c) ==
  /\ pc[c] = "task" /\ kinect /\ cb = NULL
  /\ runloop_lock' = NULL
  /\ Leave(c)
  /\ UNCHANGED <<thread_running, thread, ctx, kinect, pending, ring, device, held, loop>>

\* The task is over: runloop_exit() unlocks.
Task(c) ==
  /\ pc[c] = "task" /\ kinect /\ cb = NULL
  /\ runloop_lock' = NULL
  /\ Goto(c, "dec_task")
  /\ UNCHANGED <<thread_running, thread, ctx, kinect, pending, ring, device,
                 want, started, joining, held, loop>>

\* The thread inside libfreenect may be handling events.
HandlingEvents ==
  \/ \E c \in Clients : runloop_lock = c /\ pc[c] \in {"changing", "task"}
  \/ \E l \in Loops : runloop_lock = l /\ loop[l] \in {"events", "closing"}

\* A frame is complete in the stream's buffer; the callback is called.
CallBack(r) ==
  /\ HandlingEvents /\ cb = NULL /\ streaming[r]
  /\ cb' = r
  /\ frame' = [frame EXCEPT ![r] = (@ + 1) % FrameMod[r]]
  /\ content' = [content EXCEPT ![r][dev_buf[r]] = frame'[r]]
  /\ kind' = [kind EXCEPT ![r][dev_buf[r]] = dev_fmt[r]]
  /\ UNCHANGED <<shared, ring, streaming, dev_buf, dev_fmt, client, loop>>

\* pthread_cond_signal(&buf->cb_cond): one client waiting on r wakes.
Asleep(r) == {c \in Clients : pc[c] = "asleep" /\ want[c].ring = r}
WakeClient(r) ==
  \/ \E c \in Asleep(r) : Goto(c, "get")
  \/ Asleep(r) = {} /\ UNCHANGED pc

\* Mutant: the device keeps its buffer.
MutProduce(r) ==
  /\ cb = r /\ ring_lock[r] = NULL
  /\ bufs' = [bufs EXCEPT ![r][1] = bufs[r][2], ![r][2] = bufs[r][1]]
  /\ timestamp' = [timestamp EXCEPT ![r] = frame[r]]
  /\ valid' = [valid EXCEPT ![r] = TRUE]
  /\ WakeClient(r)
  /\ cb' = NULL
  /\ UNCHANGED <<shared, ring_lock, fmt, streaming, dev_buf, frame, content, dev_fmt, kind,
                 want, started, joining, held, loop>>

\* producer_cb_inner(), once it has the ring's lock.
Produce(r) ==
  /\ cb = r /\ ring_lock[r] = NULL
  /\ bufs' = [bufs EXCEPT ![r][1] = bufs[r][2], ![r][2] = bufs[r][1]]
  /\ dev_buf' = [dev_buf EXCEPT ![r] = bufs[r][1]]
  /\ timestamp' = [timestamp EXCEPT ![r] = frame[r]]
  /\ valid' = [valid EXCEPT ![r] = TRUE]
  /\ WakeClient(r)
  /\ cb' = NULL
  /\ UNCHANGED <<shared, ring_lock, fmt, streaming, frame, content, dev_fmt, kind,
                 want, started, joining, held, loop>>

-----------------------------------------------------------------------------
(* init(): the run loop thread. *)

\* Mutant: the run loop does not wait for pending tasks.
MutLoopWait(l) ==
  /\ loop[l] = "wait"
  /\ loop' = [loop EXCEPT ![l] = "lock"]
  /\ UNCHANGED <<shared, ring, device, client>>

\* pending_runloop_tasks_wait_zero().
LoopWait(l) ==
  /\ loop[l] = "wait"
  /\ loop' = [loop EXCEPT ![l] = IF pending = 0 THEN "lock" ELSE "asleep"]
  /\ UNCHANGED <<shared, ring, device, client>>

\* Lock, and test thread_running.
LoopLock(l) ==
  /\ loop[l] = "lock" /\ runloop_lock = NULL
  /\ runloop_lock' = l
  /\ loop' = [loop EXCEPT ![l] = IF thread_running THEN "events" ELSE "stopping"]
  /\ UNCHANGED <<thread_running, thread, ctx, kinect, pending, ring, device, client>>

\* Mutant: the loop goes on only if process_events() > 0.
MutLoopTurn(l) ==
  /\ loop[l] = "events" /\ cb = NULL
  /\ loop' = [loop EXCEPT ![l] = "stopping"]
  /\ UNCHANGED <<shared, ring, device, client>>

\* freenect_process_events() returned, without error ...
LoopTurn(l) ==
  /\ loop[l] = "events" /\ cb = NULL
  /\ runloop_lock' = NULL
  /\ loop' = [loop EXCEPT ![l] = "wait"]
  /\ UNCHANGED <<thread_running, thread, ctx, kinect, pending, ring, device, client>>

\* ... or with one: the device is gone and its streams are stopped.
LoopFails(l) ==
  /\ loop[l] = "events" /\ cb = NULL /\ "unplug" \in Faults
  /\ streaming' = [r \in Rings |-> FALSE]
  /\ loop' = [loop EXCEPT ![l] = "stopping"]
  /\ UNCHANGED <<shared, ring, dev_buf, cb, frame, content, dev_fmt, kind, client>>

\* After the loop: stop video, then depth (whose frames may still come while
\* video is being stopped), close, free the rings and the kinect, shut down.
LoopStopsVideo(l) ==
  /\ loop[l] = "stopping"
  /\ streaming' = [streaming EXCEPT !["video"] = FALSE]
  /\ loop' = [loop EXCEPT ![l] = "closing"]
  /\ UNCHANGED <<shared, ring, dev_buf, cb, frame, content, dev_fmt, kind, client>>

LoopEnds(l) ==
  /\ loop[l] = "closing" /\ cb = NULL
  /\ streaming' = [r \in Rings |-> FALSE]
  /\ bufs' = [r \in Rings |-> NoBufs]
  /\ timestamp' = [r \in Rings |-> 0]
  /\ valid' = [r \in Rings |-> FALSE]
  /\ fmt' = [r \in Rings |-> NoMode]
  /\ dev_fmt' = [r \in Rings |-> NoMode]
  /\ kind' = [r \in Rings |-> NoFrames]
  /\ kinect' = FALSE
  /\ ctx' = "freed"
  /\ runloop_lock' = NULL
  /\ loop' = [loop EXCEPT ![l] = "done"]
  /\ UNCHANGED <<thread_running, thread, pending, ring_lock, dev_buf, cb, frame, content, client>>

-----------------------------------------------------------------------------

ClientStep(c) ==
  \/ Check(c) \/ Join(c) \/ Inc(c) \/ Enter(c) \/ Dec(c) \/ DecJoin(c) \/ DecReturn(c)
  \/ StartLoop(c) \/ AllocKinect(c) \/ LockRing(c) \/ KeepMode(c)
  \/ StopStream(c) \/ ChangeMode(c) \/ TakeFrame(c) \/ AwaitFrame(c) \/ Task(c)

LoopStep(l) ==
  \/ LoopWait(l) \/ LoopLock(l) \/ LoopTurn(l) \/ LoopFails(l)
  \/ LoopStopsVideo(l) \/ LoopEnds(l)

Next ==
  \/ \E c \in Clients : Stop(c) \/ ClientStep(c) \/ (\E q \in Requests : Call(c, q))
  \/ \E l \in Loops : LoopStep(l)
  \/ \E r \in Rings : CallBack(r) \/ Produce(r)

\* A thread inside libfreenect gets out again: the call waits for a transfer of
\* its own, or for some event, not for frames to stop coming.
LeaveLibrary(c) == ChangeMode(c) \/ Task(c)
LoopLeaves(l) == LoopTurn(l) \/ LoopEnds(l)

\* Threads are scheduled, and a running camera goes on sending frames, which
\* freenect_process_events() waits for.  Nothing is assumed of who gets a lock.
Fairness ==
  /\ \A c \in Clients : WF_vars(ClientStep(c)) /\ SF_vars(LeaveLibrary(c))
  /\ \A l \in Loops : WF_vars(LoopStep(l)) /\ SF_vars(LoopLeaves(l))
  /\ \A r \in Rings : WF_vars(Produce(r)) /\ SF_vars(CallBack(r))

Spec == Init /\ [][Next]_vars
FairSpec == Spec /\ Fairness

-----------------------------------------------------------------------------
(* Properties. *)

Labels == {"idle", "check", "inc", "enter", "start", "alloc", "ring", "change", "changing",
           "dec", "dec_join", "dec_error", "join", "stop", "get", "asleep",
           "inc_task", "enter_task", "task", "dec_task"}
Pointers == Buffers \cup {NULL}

\* Every shared variable and every thread keeps its type through all failures;
\* pending_runloop_tasks stays between 0 and the number of clients.
TypeOK ==
  /\ thread_running \in BOOLEAN /\ thread \in Loops \cup {NULL}
  /\ ctx \in {"NULL", "live", "freed"} /\ kinect \in BOOLEAN
  /\ runloop_lock \in Clients \cup Loops \cup {NULL} /\ pending \in 0 .. Cardinality(Clients)
  /\ ring_lock \in [Rings -> Clients \cup {NULL}]
  /\ bufs \in [Rings -> [Slots -> Pointers]]
  /\ \A r \in Rings : timestamp[r] \in FrameNumbers(r) /\ frame[r] \in FrameNumbers(r)
  /\ content \in [Rings -> [Buffers -> Nat]]
  /\ valid \in [Rings -> BOOLEAN] /\ fmt \in [Rings -> Modes \cup {NoMode, DefaultMode}]
  /\ dev_fmt \in [Rings -> Modes \cup {NoMode, DefaultMode}]
  /\ kind \in [Rings -> [Buffers -> Modes \cup {NoMode, DefaultMode}]]
  /\ streaming \in [Rings -> BOOLEAN] /\ dev_buf \in [Rings -> Pointers]
  /\ cb \in Rings \cup {NULL}
  /\ pc \in [Clients -> Labels] /\ want \in [Clients -> Requests \cup {TaskRequest}]
  /\ started \in [Clients -> BOOLEAN] /\ joining \in [Clients -> Loops \cup {NULL}]
  /\ loop \in [Loops -> {"none", "wait", "asleep", "lock", "events", "stopping",
                           "closing", "done"}]
  /\ held \in [Rings -> Pointers]

\* The ring always has its three buffers, the device fills the third of them
\* (producer_cb_inner() asserts it: data == buf->bufs[2]), and only the ring of
\* an open kinect is filled, through every change of mode, failure and stop.
RingIntact ==
  \A r \in Rings :
    /\ fmt[r] # NoMode => kinect /\ {bufs[r][i] : i \in Slots} = Buffers
    /\ streaming[r] => fmt[r] # NoMode /\ dev_buf[r] = bufs[r][2]

\* pending_runloop_tasks counts the clients between inc and dec, so it never
\* becomes negative (the assertions of both functions) and reaches zero.
InTask == {"enter", "start", "alloc", "ring", "change", "changing", "dec", "dec_join",
           "dec_error", "enter_task", "task", "dec_task"}
PendingExact == pending = Cardinality({c \in Clients : pc[c] \in InTask})

\* No wakeup is lost: a run loop sleeps only while a task is pending, and
\* clients sleep next to a finished frame only if one of them was woken for it.
NoLostWakeup ==
  /\ \A l \in Loops : loop[l] = "asleep" => pending > 0
  /\ \A r \in Rings :
       valid[r] /\ Asleep(r) # {} => \E c \in Clients : pc[c] = "get" /\ want[c].ring = r

\* Once setup_kinect() is past the test of thread_running there is a run loop
\* ("starts the runloop if it isn't running").
StartsRunloop == \A c \in Clients : pc[c] = "alloc" => \E l \in Loops : Alive(l)

\* ... and never a second one.
OneRunloop == Cardinality({l \in Loops : Alive(l)}) <= 1

\* A call that got past setup_kinect() finds its kinect: kinects[index] is
\* used without a lock in sync_get(), and after it was tested in tasks.
CallsFindKinect ==
  \A c \in Clients : pc[c] \in {"get", "asleep", "task"} => kinect

\* The buffer last returned to a client is neither freed nor written to until
\* the function is called again.
HeldBufferValid ==
  \A r \in Rings : held[r] # NULL =>
    held[r] = bufs[r][0] /\ (streaming[r] => dev_buf[r] # held[r])

\* A frame that can be given to a client was sent in the mode its ring has now
\* (it is read as one, and the buffer is of that size), although modes change
\* between a callback and sync_get(), in threads that share no lock with it.
FrameOfMode ==
  \A r \in Rings : fmt[r] # NoMode /\ valid[r] => kind[r][bufs[r][1]] = fmt[r]

\* A client waits for a frame only of a ring that was set up: a mode that
\* cannot be set up is reported.
ErrorReported == \A c \in Clients : pc[c] = "asleep" => fmt[want[c].ring] # NoMode

\* No thread waits for what cannot come: a signal that was given before it slept,
\* a run loop that is not there, the frames of a ring that was not set up.
NothingAwaitedInVain == NoLostWakeup /\ StartsRunloop /\ ErrorReported

\* The types and the count of pending tasks survive every failure.
SharedInv == TypeOK /\ PendingExact

\* Every call returns: also one that changes the mode, which handles events with
\* the ring locked, and whose thread would wait for itself if a callback of that
\* ring came.
CallReturns == \A c \in Clients : pc[c] # "idle" ~> pc[c] = "idle"

\* A ring (here the video one; both run the same code) implements a Mailbox: the
\* client gets the latest frame, once, with its own timestamp, and what it got
\* does not change while it may use it.
Slot(r) ==
  IF fmt[r] # NoMode /\ valid[r] THEN <<content[r][bufs[r][1]], timestamp[r]>> ELSE <<>>
Taken(r) == IF held[r] = NULL THEN <<>> ELSE <<content[r][held[r]]>>
Box == INSTANCE Mailbox WITH
  Frames <- FrameNumbers("video"), slot <- Slot("video"), taken <- Taken("video")
ImplementsMailbox == Box!Spec
=============================================================================
