--------------------------- MODULE OpenNIDriver ---------------------------
(* The OpenNI2 driver: a registry of devices over the C++ wrapper, and for     *)
(* each device a colour and a depth stream that turn the wrapper's callbacks   *)
(* into OpenNI frames.  OpenNI calls the driver in its own thread, the frames  *)
(* are built in the wrapper's.                                                 *)
EXTENDS CppWrapper

CONSTANTS X, Y,        \* the resolution of the picture (640 by 480)
          Requested,   \* the video modes an application asks for
          Croppings,   \* the croppings it sets
          Word,        \* an unsigned int is less (2^32)
          Wrap,        \* the device's clock wraps there (2^32 ticks)
          Elapsed,     \* the ticks between two frames a stream builds, wraps included
          MaxStamp     \* bounds the timestamps

PixelFormats ==
  {"1_MM", "100_UM", "SHIFT_9_2", "SHIFT_9_3", "RGB888", "YUV422", "GRAY8", "GRAY16", "JPEG",
   "YUYV"}
OniModes == [format : PixelFormats, x : 0 .. Word - 1, y : 0 .. Word - 1, fps : Nat]
Crops == [enabled : BOOLEAN, x : Nat, y : Nat, w : Nat, h : Nat]
\* Unaligned depth in millimetres is a mode the library has.
ASSUME OniAssumption ==
  /\ Word \in Nat \ {0} /\ X \in 0 .. Word - 1 /\ Y \in 0 .. Word - 1
  /\ Requested \subseteq OniModes /\ Croppings \subseteq Crops
  /\ Wrap \in Nat \ {0} /\ Elapsed \subseteq Nat /\ MaxStamp \in Nat
  /\ Mode("MM", "MEDIUM") \in Found["depth"]

OniMode(f, x, y, fps) == [format |-> f, x |-> x, y |-> y, fps |-> fps]
Supported == [video |-> OniMode("RGB888", X, Y, 30), depth |-> OniMode("1_MM", X, Y, 30)]
Whole == [enabled |-> FALSE, x |-> 0, y |-> 0, w |-> X, h |-> Y]
NoStream == [mode |-> "none"]
NoFrame == [stream |-> "none"]

VARIABLES devices,    \* the indices the driver knows, and whether each is open
          streams,    \* a device's stream objects, NoStream for a NULL pointer
          creating,   \* the stream createStream() has built and not stored yet
          setting,    \* the mode setVideoMode() has set and not stored yet
          building,   \* the frame the callback in progress builds
          frame,      \* the frame last given to OpenNI, until the next callback
          refused,    \* whether the camera refused a flag
          user,       \* who uses the wrapper: "OpenNI", or a program without the driver
          uses        \* the streams the application creates

oniVars == <<cppVars, devices, streams, creating, setting, building, frame, refused>>
driver == <<devices, streams, creating, setting, building, frame, refused>>

Open(id) == id \in DOMAIN devices /\ devices[id]

\* std::map finds a mode that is neither less nor greater: of the same area.
Matches(m, k) == m.x * m.y = k.x * k.y

NewStream(s) ==
  [mode |-> Supported[s], running |-> FALSE, crop |-> Whole, mirror |-> FALSE,
   prev |-> 0, registered |-> FALSE]

\* setVideoMode() of either stream up to the restart: the object, the device, and
\* whether the mode is stored in the object afterwards.  The depth stream tries
\* FREENECT_DEPTH_REGISTERED first when it is asked to align depth to colour, and
\* falls back on unaligned depth.
Format(st, s) ==
  IF s = "video" THEN "RGB" ELSE IF st.registered THEN "REGISTERED" ELSE "MM"

SetVideoMode(st, d, s, m, works) ==
  LET try(t, e) == Restarted(e, s, Mode(Format(t, s), "MEDIUM"), works)
      first == try(st, d)
      plain == [st EXCEPT !.registered = FALSE]
      again == try(plain, first.dev)
  IN  CASE ~Matches(m, Supported[s]) -> [st |-> st, dev |-> d, ok |-> FALSE]
        [] Matches(m, Supported[s]) /\ ~first.threw -> [st |-> st, dev |-> first.dev,
           ok |-> TRUE]
        [] OTHER -> [st |-> plain, dev |-> again.dev, ok |-> st.registered /\ ~again.threw]

----------------------------------------------------------------------------
(* The driver.                                                                *)

OniInit ==
  /\ CppInit /\ devices = <<>> /\ building = NoFrame
  /\ creating = NoStream /\ setting = Nothing
  /\ streams = [id \in Ids |-> [s \in Streams |-> NoStream]]
  /\ frame = NoFrame /\ refused = FALSE

\* A device is opened and closed again, while the thread may come to look at it.
Probed ==
  \/ UNCHANGED <<thread, at>>
  \/ thread = "waiting" /\ thread' = "walking" /\ at' = Freed

Initialize ==
  /\ Callable /\ devices = <<>> /\ devices' = [id \in Ids |-> FALSE] /\ Probed
  /\ UNCHANGED <<m_devices, m_stop, client, changing, orphans, fate, streams, creating,
                 setting, building, frame, refused>>

Ready(id) ==
  Callable /\ creating = NoStream /\ setting = Nothing /\ id \in DOMAIN devices

\* An open that throws leaves the registry as it was.
DeviceOpen(id) ==
  /\ Ready(id) /\ ~Open(id) /\ CreateDevice(id)
  /\ devices' = [devices EXCEPT ![id] = Alive(m_devices'[id])]
  /\ UNCHANGED <<streams, creating, setting, building, frame, refused>>

\* destroyStream() throws when the stream is not running, as after a format
\* whose restart failed; out of ~Device() that ends the process.
Stuck(id, s) == streams[id][s] # NoStream /\ ~m_devices[id].running[s]
Stopped(id) == [m_devices[id] EXCEPT !.running =
                  [s \in Streams |-> @[s] /\ streams[id][s] = NoStream]]
Gone(id) == [streams EXCEPT ![id] = [s \in Streams |-> NoStream]]

\* ~Device() stops its streams before ~FreenectDevice() closes the device: no
\* transfer is left.
DeviceClose(id) ==
  /\ Ready(id) /\ Open(id) /\ \A s \in Streams : ~InCallback(id, s)
  /\ IF \E s \in Streams : Stuck(id, s)
     THEN /\ fate' = "terminated"
          /\ UNCHANGED <<m_devices, m_stop, thread, at, client, changing, orphans>>
          /\ UNCHANGED <<devices, streams>>
     ELSE /\ Close(id, Stopped(id)) /\ m_devices' = [m_devices EXCEPT ![id] = None]
          /\ devices' = [devices EXCEPT ![id] = FALSE] /\ streams' = Gone(id)
  /\ UNCHANGED <<creating, setting, building, frame, refused>>

\* tryDevice() opens the device and closes it; one that is open it only closes.
TryDevice(id) ==
  \/ DeviceClose(id)
  \/ /\ Ready(id) /\ ~Open(id) /\ Probed
     /\ UNCHANGED <<m_devices, m_stop, client, changing, orphans, fate, driver>>

\* shutdown() deletes the devices that are left, which is DeviceClose of each,
\* and forgets them all; then ~Freenect().
CloseAll ==
  /\ Callable /\ creating = NoStream /\ setting = Nothing
  /\ \A id \in DOMAIN devices : ~Open(id)
  /\ Destroy /\ devices' = <<>>
  /\ UNCHANGED <<streams, creating, setting, building, frame, refused>>

\* The constructor of a stream sets its mode and starts it; the pointer the
\* callback uses is stored after it has returned.
CreateStream(id, s, works) ==
  /\ Ready(id) /\ Open(id) /\ streams[id][s] = NoStream /\ s \in uses
  /\ LET set == SetVideoMode(NewStream(s), m_devices[id], s, Supported[s], TRUE)
         begun == Start(Remembered(set.dev, s, set.dev.inForce[s]), s, works)
     IN  /\ m_devices' = [m_devices EXCEPT ![id] = begun.dev]
         /\ creating' = IF begun.threw THEN NoStream
                        ELSE [mode |-> "built", id |-> id, s |-> s, st |-> set.st]
  /\ UNCHANGED <<m_stop, thread, at, client, changing, orphans, fate>>
  /\ UNCHANGED <<devices, streams, setting, building, frame, refused>>

StoreStream ==
  /\ Callable /\ creating # NoStream
  /\ streams' = [streams EXCEPT ![creating.id][creating.s] = creating.st]
  /\ creating' = NoStream /\ UNCHANGED <<cppVars, devices, setting, building, frame, refused>>

\* A mutant of DestroyStream: it does not wait for a callback in progress.
MutDestroyBusy(id, s) ==
  /\ Ready(id) /\ Open(id) /\ streams[id][s] # NoStream /\ ~Stuck(id, s)
  /\ m_devices' = [m_devices EXCEPT ![id] = Stop(@, s).dev]
  /\ streams' = [streams EXCEPT ![id][s] = NoStream]
  /\ UNCHANGED <<m_stop, thread, at, client, changing, orphans, fate, devices, creating,
                 setting, building, frame, refused>>

DestroyStream(id, s) ==
  /\ Ready(id) /\ Open(id) /\ streams[id][s] # NoStream /\ ~Stuck(id, s)
  /\ StopStream(id, s) /\ streams' = [streams EXCEPT ![id][s] = NoStream]
  /\ UNCHANGED <<devices, creating, setting, building, frame, refused>>

----------------------------------------------------------------------------
(* A stream's operations and properties.                                      *)

Usable(id, s) == Ready(id) /\ Open(id) /\ streams[id][s] # NoStream

Set(id, s, st) ==
  /\ streams' = [streams EXCEPT ![id][s] = st]
  /\ UNCHANGED <<devices, creating, building, frame>>

StartStop(id, s, b) ==
  /\ Usable(id, s) /\ Set(id, s, [streams[id][s] EXCEPT !.running = b])
  /\ UNCHANGED <<cppVars, setting, refused>>

\* setVideoMode() of the stream object st, with callbacks of the stream from its
\* restart on.
SettingMode(id, s, st, m, works) ==
  LET set == SetVideoMode(st, m_devices[id], s, m, works)
  IN  /\ set.dev = m_devices[id] \/ ~InCallback(id, s)
      /\ Set(id, s, set.st) /\ Change(id, set.dev)
      /\ setting' = IF set.ok THEN <<id, s, m>> ELSE Nothing
      /\ UNCHANGED refused

SetMode(id, s, m, works) == Usable(id, s) /\ SettingMode(id, s, streams[id][s], m, works)

\* The format and the mode are stored.
StoreMode ==
  /\ setting # Nothing /\ setting' = Nothing
  /\ IF changing # Nothing THEN Remember ELSE fate = "alive" /\ UNCHANGED cppVars
  /\ streams' = [streams EXCEPT ![setting[1]][setting[2]].mode = setting[3]]
  /\ UNCHANGED <<devices, creating, building, frame, refused>>

\* The device passes the property to its depth stream, there or not.
SetRegistration(id, b, works) ==
  /\ Ready(id) /\ Open(id)
  /\ LET st == streams[id]["depth"]
     IN  IF st = NoStream
         THEN /\ fate' = "crashed"
              /\ UNCHANGED <<m_devices, m_stop, thread, at, client, changing, orphans, driver>>
         ELSE SettingMode(id, "depth", [st EXCEPT !.registered = b], st.mode, works)

\* Any cropping is taken, also one the picture has not.
SetCropping(id, s, c) ==
  /\ Usable(id, s) /\ Set(id, s, [streams[id][s] EXCEPT !.crop = c])
  /\ UNCHANGED <<cppVars, setting, refused>>

\* The colour stream has the camera mirror its pictures; the depth stream does
\* it when it copies them.
SetMirroring(id, s, b, works) ==
  /\ Usable(id, s) /\ Set(id, s, [streams[id][s] EXCEPT !.mirror = b])
  /\ m_devices' = IF s = "video"
     /\ works THEN [m_devices EXCEPT ![id].mirror = b] ELSE m_devices
  /\ refused' = (refused \/ (s = "video" /\ ~works))
  /\ UNCHANGED <<setting, m_stop, thread, at, client, changing, orphans, fate>>

\* AUTO_WHITE_BALANCE and AUTO_EXPOSURE, which both set the same flag.
SetBalance(id, b, works) ==
  /\ Usable(id, "video") /\ UNCHANGED <<streams, devices, creating, setting, building, frame>>
  /\ m_devices' = IF works THEN [m_devices EXCEPT ![id].balance = b] ELSE m_devices
  /\ refused' = (refused \/ ~works)
  /\ UNCHANGED <<m_stop, thread, at, client, changing, orphans, fate>>

----------------------------------------------------------------------------
(* Frames, in the wrapper's thread.                                           *)

\* A mutant of Stamp.
MutStamp(prev, ts) == IF ts < prev THEN Wrap + ts ELSE ts

\* The 32-bit clock of the device carried on in 64 bits.
Stamp(prev, ts) == IF ts < prev THEN prev + ((ts - (prev % Wrap)) % Wrap) ELSE ts

\* buildFrame(), up to populateFrame(): nothing for a stream that is not running.
Build(id, s, dt) ==
  LET st == streams[id][s]
      stamp == Stamp(st.prev, (st.prev + dt) % Wrap)
  IN  /\ Callback(id, s) /\ frame' = NoFrame
      /\ UNCHANGED <<devices, creating, setting, refused>>
      /\ IF st = NoStream THEN fate' = "no stream" /\ UNCHANGED <<streams, building>>
         ELSE /\ fate' = fate
              /\ st.running => stamp <= MaxStamp
              /\ IF st.running
                 THEN /\ streams' = [streams EXCEPT ![id][s].prev = stamp]
                      /\ building' = [stream |-> s, mode |-> st.mode, elapsed |-> dt]
                 ELSE UNCHANGED <<streams, building>>

\* populateFrame() reads the stream's mode and cropping again.
Populate ==
  /\ CallbackReturns /\ building' = NoFrame
  /\ UNCHANGED <<devices, streams, creating, setting, refused>>
  /\ frame' = IF building = NoFrame THEN frame
              ELSE LET st == streams[at[1]][at[2]]
                       crop == IF st.crop.enabled /\ building.stream = "depth" THEN st.crop
                               ELSE [Whole EXCEPT !.w = building.mode.x, !.h = building.mode.y]
                   IN  [stream |-> building.stream, same |-> st.mode = building.mode,
                        crop |-> crop, line |-> st.mode.x, rows |-> st.mode.y,
                        mirror |-> st.mirror /\ building.stream = "depth"]

\* The pixel of the source that ends up at i in the frame: after every line of
\* the cropping the source skips what is left of the line, an unsigned number.
Copied(f, i) ==
  LET skip == (f.line - f.crop.w) % Word
      x == i % f.crop.w
      y == i \div f.crop.w
  IN  f.crop.x + f.crop.y * f.line + y * (f.crop.w + skip) + x

OniNext ==
  \/ Initialize \/ CloseAll \/ StoreStream \/ StoreMode \/ Populate
  \/ (DeleteNext \/ Join \/ EventsHandled \/ Walk \/ EventError) /\ UNCHANGED driver
  \/ \E id \in Ids :
       \/ DeviceOpen(id) \/ DeviceClose(id) \/ TryDevice(id)
       \/ \E s \in Streams : DestroyStream(id, s) \/ (\E dt \in Elapsed : Build(id, s, dt))
       \/ \E s \in Streams, b \in BOOLEAN :
            StartStop(id, s, b) \/ CreateStream(id, s, b)
       \/ \E s \in Streams, works \in BOOLEAN :
            \/ \E m \in Requested : SetMode(id, s, m, works)
            \/ \E b \in BOOLEAN : SetMirroring(id, s, b, works)
       \/ \E b, works \in BOOLEAN : SetRegistration(id, b, works) \/ SetBalance(id, b, works)
       \/ \E c \in Croppings : SetCropping(id, "depth", c)
----------------------------------------------------------------------------

\* The driver's state is of its types, and OpenNI's handle of a device is NULL
\* exactly when the wrapper has none: open, close, tryDevice() and failed opens
\* keep the two maps together, and no entry of the wrapper dangles.
OniTypeOK == user = "OpenNI" =>
  /\ \A id \in Ids : Alive(m_devices[id]) <=> Open(id)
  /\ \A id \in Ids : m_devices[id] # Dangling
  /\ \A id \in Ids, s \in Streams : streams[id][s] # NoStream =>
       streams[id][s].prev \in 0 .. MaxStamp /\ streams[id][s].running \in BOOLEAN

\* A callback in progress has its device and its stream: neither is deleted
\* under it, whatever the application closes meanwhile.
NothingDeletedUnderCallback ==
  user = "OpenNI" /\ fate = "alive" /\ thread = "callback" =>
    Alive(m_devices[at[1]]) /\ streams[at[1]][at[2]] # NoStream

\* A callback finds no stream only while createStream() is between starting the
\* stream and storing the pointer, never after destroyStream() or an open.
NoStreamOnlyInCreation ==
  fate = "no stream" =>
    creating # NoStream /\ at = <<creating.id, creating.s>>

\* A frame's pixels, width by height, are as many as the device sends, whatever
\* mode the application asked for and was granted.
AreaKept == \A id \in Ids, s \in Streams :
  streams[id][s] # NoStream => streams[id][s].mode.x * streams[id][s].mode.y = X * Y

\* Depth is aligned to colour in the camera's mode exactly when the stream says
\* so, also after a request that was refused.
RegistrationTold == \A id \in Ids :
  streams[id]["depth"] # NoStream =>
    (streams[id]["depth"].registered <=> m_devices[id].inForce["depth"].format = "REGISTERED")

\* The camera mirrors its pictures when the colour stream says they are, unless
\* it refused a flag.
MirrorTold == \A id \in Ids :
  streams[id]["video"] # NoStream /\ ~refused =>
    (m_devices[id].mirror <=> streams[id]["video"].mirror)

\* The cropping is one the picture has.
Fits(f) == f.crop.x + f.crop.w <= f.line /\ f.crop.y + f.crop.h <= f.rows

\* A depth frame that is not mirrored is the cropping of the picture, taken from
\* the pixels the camera sent, when the application set a cropping the picture has
\* and no other mode while it was built.
CroppingExact ==
  frame # NoFrame /\ frame.same /\ ~frame.mirror /\ Fits(frame) =>
    \A i \in 0 .. frame.crop.w * frame.crop.h - 1 :
      /\ Copied(frame, i) =
           (frame.crop.y + (i \div frame.crop.w)) * frame.line + frame.crop.x + (i % frame.crop.w)
      /\ Copied(frame, i) < X * Y

\* A frame's timestamp is later than the frame's before it by the time that
\* passed, when the device's clock did not come round without a frame: of the time
\* a stream stands still, whole rounds of the clock are lost.
TimeKept ==
  [][\A id \in Ids, s \in Streams :
       /\ streams[id][s] # NoStream /\ streams'[id][s] # NoStream
       /\ streams'[id][s].prev # streams[id][s].prev
       => streams'[id][s].prev = streams[id][s].prev + (building'.elapsed % Wrap)]_oniVars

\* The driver's safety: nothing is missing or deleted under a callback, and what
\* the streams say of their frames is so.
OniInv ==
  /\ OniTypeOK /\ NothingDeletedUnderCallback /\ NoStreamOnlyInCreation
  /\ AreaKept /\ RegistrationTold /\ MirrorTold /\ CroppingExact
=============================================================================
