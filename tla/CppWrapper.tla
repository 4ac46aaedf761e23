---------------------------- MODULE CppWrapper ----------------------------
(* The C++ wrapper: Freenect, which owns the context and a thread that         *)
(* processes its events, and FreenectDevice, which remembers the formats it    *)
(* set and owns the video buffer the library writes into.  The client's calls  *)
(* and the thread's callbacks share the devices without a lock; what keeps     *)
(* them apart is that freenect_stop_*() waits for the stream's transfers, a    *)
(* callback in progress included.  freenect_close_device() stops one of two    *)
(* running streams only, and leaves the transfers of the other one.            *)
EXTENDS Integers, FiniteSets

CONSTANTS Ids,        \* the indices of the devices on the bus
          Found,      \* the modes freenect_find_*_mode() finds valid, for each stream
          Garbage     \* what the uninitialised formats of a new object may hold

Streams == {"video", "depth"}
Mode(f, r) == [format |-> f, resolution |-> r]
Default == [video |-> Mode("RGB", "MEDIUM"), depth |-> Mode("11BIT", "MEDIUM")]

\* The modes the constructor sets are ones the library has.
Modes == [format : STRING, resolution : STRING]
ASSUME CppAssumption ==
  /\ Garbage \subseteq [Streams -> STRING]
  /\ \A s \in Streams : Found[s] \subseteq Modes /\ Default[s] \in Found[s]

None == [here |-> FALSE]       \* no entry in m_devices
Dangling == [here |-> TRUE]    \* an entry whose object has been deleted

VARIABLES m_devices,  \* what the map holds for each index
          m_stop,
          thread,     \* where the thread that processes events is
          at,         \* the callback it is in, or the device it looks at
          client,     \* where the client is in ~Freenect()
          changing,   \* the device, and the depth format it is about to remember
          orphans,    \* whether transfers of a closed device are left
          fate        \* "alive", or how the process ended

cppVars == <<m_devices, m_stop, thread, at, client, changing, orphans, fate>>

Nothing == <<>>
Freed == <<"freed", "freed">>
Alive(d) == d \notin {None, Dangling}

----------------------------------------------------------------------------
(* FreenectDevice.  An operation is a function from the object to the object  *)
(* and whether it threw.                                                      *)

Done(d) == [dev |-> d, threw |-> FALSE]
Thrown(d) == [dev |-> d, threw |-> TRUE]

\* Starting the video also turns the camera's mirroring off.
Start(d, s, works) ==
  IF d.running[s] \/ ~works THEN Thrown(d)
  ELSE Done([d EXCEPT !.running[s] = TRUE, !.mirror = @ /\ s # "video"])
Stop(d, s) ==
  IF d.running[s] THEN Done([d EXCEPT !.running[s] = FALSE]) ELSE Thrown(d)

\* A new buffer for the pictures, another one than the last.
WithBuffer(d, s) ==
  IF s = "video" THEN LET b == 1 + (d.buffer % 2) IN [d EXCEPT !.buffer = b, !.libBuffer = b] ELSE d

Remembered(d, s, m) == [d EXCEPT !.mode[s] = m]

\* A mutant of Restarted: the library keeps its mode.
MutRestarted(d, s, m, works) ==
  LET stopped == Stop(d, s)
      set == WithBuffer(IF s = "video" THEN Remembered(stopped.dev, s, m) ELSE stopped.dev, s)
  IN  CASE m = d.mode[s] -> Done(d)
        [] m # d.mode[s] /\ m \notin Found[s] -> Thrown(stopped.dev)
        [] OTHER -> Done(IF stopped.threw THEN set ELSE Start(set, s, works).dev)

\* setVideoFormat() and setDepthFormat() up to the restart: stop, set the mode,
\* start again.  Whether the stream could be started again is not looked at.  The
\* video format is remembered before the restart, the depth format after it.
Restarted(d, s, m, works) ==
  LET stopped == Stop(d, s)
      forced == [stopped.dev EXCEPT !.inForce[s] = m]
      set == WithBuffer(IF s = "video" THEN Remembered(forced, s, m) ELSE forced, s)
  IN  CASE m = d.mode[s] -> Done(d)
        [] m # d.mode[s] /\ m \notin Found[s] -> Thrown(stopped.dev)
        [] OTHER -> Done(IF stopped.threw THEN set ELSE Start(set, s, works).dev)

\* The whole call, where no callback can come between.
SetFormat(d, s, m, works) ==
  LET r == Restarted(d, s, m, works)
  IN  IF r.threw THEN r ELSE Done(Remembered(r.dev, s, m))

\* The constructor, after freenect_open_device() has chosen its default modes.
NewDevice(garbage) ==
  LET opened == [mode |-> [s \in Streams |-> Mode(garbage[s], "MEDIUM")],
                 inForce |-> Default, running |-> [s \in Streams |-> FALSE],
                 buffer |-> 0, libBuffer |-> 0, mirror |-> FALSE, balance |-> FALSE]
      video == SetFormat(opened, "video", Mode("RGB", "MEDIUM"), TRUE).dev
  IN  SetFormat(video, "depth", Mode("11BIT", "MEDIUM"), TRUE).dev

----------------------------------------------------------------------------
(* Freenect, called by a client that is not in its destructor.                *)

Callable == fate = "alive" /\ client = "idle" /\ changing = Nothing

InCallback(id, s) == thread = "callback" /\ at = <<id, s>>

\* freenect_close_device() of the object d: the camera's teardown stops its depth,
\* or else its video, and waits for that stream's callback.  The thread may be in
\* the other's, or looking at the device, whose memory is freed.
Close(id, d) ==
  /\ ~InCallback(id, IF d.running["depth"] THEN "depth" ELSE "video")
  /\ orphans' = (orphans \/ \A s \in Streams : d.running[s])
  /\ at' = IF at # Nothing /\ at[1] = id THEN Freed ELSE at
  /\ UNCHANGED <<m_stop, thread, client, changing, fate>>

DoubleDelete ==
  /\ fate' = "double delete"
  /\ UNCHANGED <<m_devices, m_stop, thread, at, client, changing, orphans>>

CppInit ==
  /\ m_devices = [id \in Ids |-> None] /\ m_stop = FALSE
  /\ thread = "waiting" /\ at = Nothing /\ client = "idle" /\ fate = "alive"
  /\ changing = Nothing /\ orphans = FALSE

\* The constructor may throw; a new entry is then not made, an old one dangles.
Constructed(id) ==
  \/ \E g \in Garbage : m_devices' = [m_devices EXCEPT ![id] = NewDevice(g)]
  \/ m_devices' = [m_devices EXCEPT ![id] = IF @ = None THEN None ELSE Dangling]

\* A device already there is deleted first.
CreateDevice(id) ==
  /\ Callable
  /\ \/ m_devices[id] = Dangling /\ DoubleDelete
     \/ /\ m_devices[id] = None /\ Constructed(id)
        /\ UNCHANGED <<m_stop, thread, at, client, changing, orphans, fate>>
     \/ Alive(m_devices[id]) /\ Close(id, m_devices[id]) /\ Constructed(id)

Delete(id) ==
  \/ m_devices[id] = Dangling /\ DoubleDelete
  \/ /\ Alive(m_devices[id]) /\ Close(id, m_devices[id])
     /\ m_devices' = [m_devices EXCEPT ![id] = None]

DeleteDevice(id) == Callable /\ Delete(id)

StartStream(id, s, works) ==
  /\ Callable /\ Alive(m_devices[id])
  /\ m_devices' = [m_devices EXCEPT ![id] = Start(@, s, works).dev]
  /\ UNCHANGED <<m_stop, thread, at, client, changing, orphans, fate>>

StopStream(id, s) ==
  /\ Callable /\ Alive(m_devices[id]) /\ ~InCallback(id, s)
  /\ m_devices' = [m_devices EXCEPT ![id] = Stop(@, s).dev]
  /\ UNCHANGED <<m_stop, thread, at, client, changing, orphans, fate>>

\* The new object, and the depth format that is left to remember.
Change(id, d) ==
  /\ m_devices' = [m_devices EXCEPT ![id] = d]
  /\ changing' = IF d.mode["depth"] = d.inForce["depth"] THEN Nothing
                 ELSE <<id, d.inForce["depth"]>>
  /\ UNCHANGED <<m_stop, thread, at, client, orphans, fate>>

ChangeFormat(id, s, m, works) ==
  /\ Callable /\ Alive(m_devices[id])
  /\ m = m_devices[id].mode[s] \/ ~InCallback(id, s)
  /\ Change(id, Restarted(m_devices[id], s, m, works).dev)

\* setDepthFormat() after the restart.
Remember ==
  /\ fate = "alive" /\ changing # Nothing /\ changing' = Nothing
  /\ m_devices' = [m_devices EXCEPT ![changing[1]] = Remembered(@, "depth", changing[2])]
  /\ UNCHANGED <<m_stop, thread, at, client, orphans, fate>>

\* ~Freenect(): tell the thread to stop, delete the devices, wait for the thread.
Destroy ==
  /\ Callable /\ client' = "deleting" /\ m_stop' = TRUE
  /\ UNCHANGED <<m_devices, thread, at, changing, orphans, fate>>

DeleteNext ==
  /\ fate = "alive" /\ client = "deleting"
  /\ \/ \E id \in Ids : Delete(id)
     \/ /\ \A id \in Ids : m_devices[id] = None
        /\ client' = "joining"
        /\ UNCHANGED <<m_devices, m_stop, thread, at, changing, orphans, fate>>

Join ==
  /\ fate = "alive" /\ client = "joining" /\ thread = "ended" /\ client' = "closed"
  /\ UNCHANGED <<m_devices, m_stop, thread, at, changing, orphans, fate>>

----------------------------------------------------------------------------
(* The thread: freenect_process_events_timeout() until m_stop.  It handles    *)
(* the transfers, then looks at every device of the context (the model: at    *)
(* any one of them) for one that was unplugged.                               *)

\* A mutant of LoopTest.
MutLoopTest == "waiting"

LoopTest == IF m_stop THEN "ended" ELSE "waiting"

Callback(id, s) ==
  /\ fate = "alive" /\ thread = "waiting"
  /\ Alive(m_devices[id]) /\ m_devices[id].running[s]
  /\ thread' = "callback" /\ at' = <<id, s>>
  /\ UNCHANGED <<m_devices, m_stop, client, changing, orphans>>

\* The memory the thread works on may be freed.
Touch == IF at = Freed THEN fate' \in {"alive", "crashed"} ELSE fate' = fate

CallbackReturns ==
  /\ fate = "alive" /\ thread = "callback" /\ thread' = "waiting" /\ at' = Nothing
  /\ Touch /\ UNCHANGED <<m_devices, m_stop, client, changing, orphans>>

\* A transfer of a device that was closed is reported: nothing it works on is there.
OrphanCallback ==
  /\ fate = "alive" /\ thread = "waiting" /\ orphans /\ fate' = "crashed"
  /\ UNCHANGED <<m_devices, m_stop, thread, at, client, changing, orphans>>

EventsHandled ==
  /\ fate = "alive" /\ thread = "waiting"
  /\ UNCHANGED <<m_devices, m_stop, client, changing, orphans, fate>>
  /\ \/ \E id \in Ids : Alive(m_devices[id]) /\ thread' = "walking" /\ at' = <<id>>
     \/ (\A id \in Ids : ~Alive(m_devices[id])) /\ thread' = LoopTest /\ at' = at

Walk ==
  /\ fate = "alive" /\ thread = "walking" /\ thread' = LoopTest /\ at' = Nothing
  /\ Touch /\ UNCHANGED <<m_devices, m_stop, client, changing, orphans>>

\* An error of libusb other than LIBUSB_ERROR_INTERRUPTED, which an unplugged
\* camera is too: the exception leaves the thread's function.
EventError ==
  /\ fate = "alive" /\ thread = "walking" /\ fate' = "terminated"
  /\ UNCHANGED <<m_devices, m_stop, thread, at, client, changing, orphans>>

----------------------------------------------------------------------------

\* The formats the object remembers are the modes in force, also when the
\* constructor skipped setting a format because the uninitialised member happened
\* to hold it, and after a format that was refused; but for the depth format
\* between the restart of its stream and the end of setDepthFormat(), when the
\* callbacks get pictures of the format that is remembered next.
FormatsAgree == \A id \in Ids : Alive(m_devices[id]) =>
  IF changing # Nothing /\ changing[1] = id
  THEN Remembered(m_devices[id], "depth", changing[2]).mode = m_devices[id].inForce
  ELSE m_devices[id].mode = m_devices[id].inForce

\* The library writes pictures into the buffer the object owns now (0 is a buffer
\* of the library's own), never into one that reset() has deleted.
BufferOwned == \A id \in Ids :
  Alive(m_devices[id]) => m_devices[id].libBuffer = m_devices[id].buffer

\* The wrapper's state is of its types.
CppTypeOK ==
  /\ \A id \in Ids : m_devices[id] \in {None, Dangling} \/ m_devices[id].buffer \in 0 .. 2
  /\ m_stop \in BOOLEAN /\ thread \in {"waiting", "callback", "walking", "ended"}
  /\ client \in {"idle", "deleting", "joining", "closed"} /\ orphans \in BOOLEAN
  /\ changing # Nothing => client = "idle" /\ Alive(m_devices[changing[1]])
  /\ fate \in {"alive", "crashed", "no stream", "double delete", "terminated"}

\* The wrapper's safety: what its objects remember of formats and buffers is what
\* the library uses.
CppInv == CppTypeOK /\ FormatsAgree /\ BufferOwned
=============================================================================
