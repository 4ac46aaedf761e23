# A TLA+ model of libfreenect

libfreenect drives the Kinect: it opens the camera, motor and audio devices over
libusb, assembles isochronous packets into depth and video frames and hands them
to a client's callbacks.  This directory holds TLA+ modules of the parts where
its correctness is hard to see and hard to test, the TLC runs over small
instances, and TLAPS proofs for every value of the parameters.

## 1. Inventory

| Part | State | Operations | Talks to |
|---|---|---|---|
| **Packet streams** `src/cameras.c` 76-293, 377-416, 617-662 | `packet_stream`: `synced`, `seq`, `pkt_num`, `got_pkts`, `valid_pkts`, timestamps, four buffer pointers | `stream_process`, `stream_init`, `stream_freebufs`, `stream_setbuf`, `depth_process`, `video_process` | called for each packet from `iso_callback`; calls the client's frame callback, which may call `stream_setbuf` |
| **Isochronous transfers** `src/usb_libusb10.c` 726-892 | `fnusb_isoc_stream`: transfers, `dead`, `dead_xfers`; `device_dead` | `fnusb_start_iso`, `iso_callback`, `fnusb_stop_iso` | libusb; `stream_process` |
| **Device lifecycle** `src/core.c`, `src/cameras.c` 841-1087, 1275-1295 | `running` of each stream | start, stop, process events, close | transfers, register writes |
| **Device list, subdevices, enumeration** `src/core.c`, `src/usb_libusb10.c` 60-720 | the context's devices, `enabled_subdevices`, handles of camera, motor and audio | count, list, select subdevices, open by index or serial number, find siblings behind a hub, wait for a device that restarts, close, shutdown | libusb, loader |
| **Firmware loader** `src/loader.c` | tag, address, pages left | `upload_firmware*`, `get_reply` | bulk transfers of the audio device |
| **Camera commands** `src/flags.c` | `cam_tag` | `send_cmd`, register reads and writes, flags, exposure, brightness | control transfers of the camera |
| **Motor, LED, accelerometer** `src/tilt.c` | last tilt state; `tag_seq`, `tag_next_ack` for all devices | update of the state, tilt, LED, in two protocols | motor, or audio device |
| **Camera modes** `src/cameras.c` 44-75, 663-1240 | mode of each stream, registration constants, whether the streams run | `freenect_camera_init`, set mode, start and stop with their register writes and buffers | commands, packet streams, registration |
| **Pixel conversions** `src/cameras.c` 295-376, 418-616 | none | unpacking of 10 and 11 bits, Bayer and YUV to RGB | packet streams |
| **Registration** `src/registration.c` | `raw_to_mm_shift`, `depth_to_rgb_shift`, `registration_table` | depth in millimetres, aligned depth, colours mapped to depth | modes, packet streams |
| **Audio** `src/audio.c` | sequence and window counters, buffers of microphone samples | `iso_in_callback`, `iso_out_callback`, start, stop | transfers, client's callbacks |
| **Synchronous wrapper** `wrappers/c_sync/libfreenect_sync.c` | run loop thread, `thread_running`, `pending_runloop_tasks`, `runloop_lock`, `kinects[]`, a ring of three buffers per stream | get video/depth, tilt/LED tasks, stop, the run loop, producer callbacks | client threads; libfreenect's events and callbacks |
| **fakenect** `fakenect/*.c` | recorder: `running`, the index file, `last_timestamp`; player: place in the index, time it began, pictures kept | recording until a signal; playing as a replacement of the library | files, the client |
| **C++ wrapper** `wrappers/cpp/libfreenect.hpp` | `m_devices`, `m_stop`, the thread; each device's formats and buffers | create and delete devices, start, stop, set format, the thread's loop | the library, whose callbacks run in its thread |
| **OpenNI2 driver** `OpenNI2-FreenectDriver/src` | OpenNI's map of devices, a stream object per sensor, its mode, cropping, mirroring, last timestamp | open, close, create and destroy streams, properties, building frames | C++ wrapper, OpenNI |
| **libusb-1.0 emulation** `platform/windows/libusb10emu` | devices, handles and references; per endpoint a thread and two lists of transfers; a pool of events | submit, cancel, handle events, device lists, open, close, exit | libusb-win32, libfreenect |
| **Other bindings, examples** | little of their own | adapters, demonstrations | the C interface |

What is hard in this code:

* The bus loses packets, the sequence number is eight bits, and a gap may span
  the end of a frame.  One call of `stream_process` then ends one frame and
  begins another.
* `fnusb_stop_iso` frees memory that libusb writes to, and knows that it may
  only from a count kept by callbacks in five different branches.
* Every control transfer handles events, so callbacks run inside calls that
  start and stop streams, sometimes under a lock of the synchronous wrapper.
* A command to the camera is answered some time later, if at all, and what
  matches answers with questions is a tag that is not always advanced.  Motors have no
  match at all.
* Opening a Kinect opens three USB devices, each of which can fail, and one of
  which may be told to restart under another identity.  The errors of the registers that start and stop a
  camera are dropped, so library and camera may differ.
* Packed pixels begin anywhere in a byte, pictures have edges, and registration adds
  offsets to positions.
* A recording may end in the middle of a line, or lack its data.
* The C++ wrapper's thread uses devices and buffers that the client replaces and deletes,
  and the OpenNI2 driver its own streams while they are constructed.
* The emulation of libusb moves transfers between lists in two threads, and waits
  for a thread that may be ending.
* The synchronous wrapper has three kinds of lock, a thread that ends by itself, a thread that is
  ended, tests made without a lock, and waits that must not be missed.

`PROJECT.json` lists these hazards line by line with the properties that cover
them, and the components that are not modelled.

## 2. The modules

| Module | Models |
|---|---|
| `PacketStream` | one stream of the camera: every way through `stream_process`, delivery, buffers, start and stop |
| `FrameDelivery` | what a stream promises: abstract specification implemented by `PacketStream` |
| `PacketStreamProofs` | TLAPS proofs about `PacketStream` |
| `CameraUsb` | an open camera: both streams' transfers, the client's calls, callbacks, an unplugged device |
| `CameraUsbProofs` | TLAPS proofs about `CameraUsb` and `Modes` |
| `SyncWrapper` | client threads, run loop, locks, rings of the synchronous wrapper |
| `Mailbox` | what a ring promises: abstract specification implemented by `SyncWrapper` |
| `SyncWrapperProofs` | TLAPS proofs about `SyncWrapper`, that it implements `Mailbox` among them |
| `Audio` | start and stop of audio, the counters of packets sent, the microphone windows received |
| `CamCommand` | commands to the camera: `send_cmd` with late and missing replies, and the calls made of them |
| `Motor` | tilt, LED and state in both protocols, for several devices at once |
| `CommandProofs` | TLAPS proofs about `CamCommand` and `Motor` |
| `Loader` | the upload of a firmware image |
| `Devices` | enumeration, opening, closing; uses `Loader` for the upload that opening may need |
| `DeviceProofs` | TLAPS proofs about `Devices` and `Loader` |
| `Modes` | the mode tables, camera initialisation, start and stop of streams with registers and buffers |
| `Conversions` | the pixels of every format |
| `Registration` | aligned depth, millimetres, colours mapped to depth; uses `Conversions` |
| `MediaProofs` | TLAPS proofs about what a client is given of the bytes: `Audio`, `Conversions` and `Registration` |
| `Recorder` | the recorder: what is in its files after any end |
| `Player` | the player over what the recorder left; implements `Tape` |
| `Tape` | what a recording promises: abstract specification |
| `CppWrapper` | the C++ wrapper's objects and its thread |
| `OpenNIDriver` | the OpenNI2 driver over `CppWrapper` |
| `DriverProofs` | TLAPS proofs about both |
| `EmuTransfers` | the transfers, threads and events of the libusb emulation, under the stream calls of libfreenect |
| `EmuDevices` | its registry of devices and handles, and the lengths of packets |
| `EmulationProofs` | TLAPS proofs about both, and about `Recorder` and `Player` |
| `MCPacketStream`, `MCCameraUsb`, `MCSyncWrapper`, `MCAudio` | values of the constants for TLC |
| `MCControl` | composes `CamCommand`, `Motor` and `Devices` with `Loader` |
| `MCImages` | composes `Modes` with `Registration` and `Conversions` |
| `MCRecording` | composes `Recorder` and `Player`, one after the other over the same files |
| `MCOpenNI`, `MCLibusbEmu` | compose the wrapper with a program or the driver, and the two sides of the emulation |

Operators named `Mut...` are deliberately wrong variants of the definition that
follows them.  They are used by no specification; each is there to show that
some property notices the mistake.  `PROJECT.json` names one for each property a
run checks; the others break the further parts of the invariants that are conjunctions.

An invariant called `...Inv` is the conjunction of the named parts before it: the
module's types and what they mean together.

### PacketStream

The variables are the fields of `packet_stream`, the camera's position
(`camFrame`, `camSlot`, `camSeq`) and the contents of the buffers.  A frame's
bytes are abstracted to the packet they came from, so that "the right data in the
right place" can be stated.  The camera is the environment: `Lose` is a packet
lost on the bus, empty, shorter than a header or without its magic number (they all return
before anything is changed), `AbandonFrame` a camera that gives a frame up.  The other packet actions
are the ways through `stream_process`: `DropUnsynced`, `TooManyLost`,
`InconsistentFlag`, `Oversized` and `Store`.  A packet with less data than expected is stored like
any other, as the code does after a warning: its place then holds what is left over
(`Data(short)`), and `cut` remembers which packets of the frame came so.  Each of them carries out the whole call,
including the conversion and the frame callback of `depth_process` or
`video_process`, in which the client may hand over another buffer (`Deliver`).
`stream_setbuf` has both its branches and its error return.
`split_bufs` says whether the format is converted from a raw buffer or delivered
as received.  `Oversized` repeats a peculiarity of the code: `seq` is not moved
past the packet that is dropped, so the next one counts it as lost.

### CameraUsb

`xfer` gives the state of each transfer of each stream.  `op` says
where libfreenect's only thread is: in the client (`app`), handling events, in the
register writes that start (`starting`) or stop (`quiescing`) a camera, in the
loop of `fnusb_stop_iso` (`draining`), or between the calls that stop several
streams (`stopping`).  Callbacks of both streams may run in each of the states in
which events are handled.  `iso_callback` is split along its switch:
`CallbackDead`, `CallbackData` with `Resubmit`, `CallbackGone`.
`EventsDone` includes the loop of `freenect_process_events_timeout` that stops the
streams of a dead device.  libusb is the environment (`Return`, `Unplug`).
`Close` is `freenect_close_device`, whose teardown stops one stream only;
`MaxRunningAtClose` bounds how many are on when a client calls it.

### SyncWrapper

Each action is the code between two points where another thread may interfere: a
lock taken, a read without a lock, a wait on a condition variable.  A client goes
through `Check`, `Inc`, `Enter`, `StartLoop`, `AllocKinect`, `LockRing`,
`KeepMode` or `StopStream` and `ChangeMode`, `Dec`, then `TakeFrame`,
`AwaitFrame` or a `Task`.  A run loop goes through `LoopWait`, `LoopLock`,
`LoopTurn` and ends with `LoopStopsVideo` and `LoopEnds`.  A frame callback
(`CallBack`, `Produce`) runs in whichever thread is inside libfreenect, that is,
the holder of `runloop_lock`.  Which of several threads gets a lock or a signal is open.
`valid` starts with any value, as in the memory `malloc` returned.  `kind` is the mode a frame was sent in,
against which `fmt`, the mode of a ring, is held.
`Faults` selects what may fail: `freenect_init` or `pthread_create`, opening the
device, starting a stream, and `freenect_process_events` when the device is
gone.  A call whose kinect has been freed under it has no further action: what the
code would do then is undefined, and `CallsFindKinect` says where it happens.

### Audio

`OutPacket` is one packet prepared by `prepare_iso_out_data`: only the counters
are kept, not the bytes made from them.  Samples are abstracted to the number of the
window they belong to, so `part` says which window each channel's buffer holds and
`given` what the client's last callback found there.  The device sends its
channels in order (`Advance`) and the bus loses any of them (`LosePacket`, also
the packets that `iso_in_callback` refuses).  The last channel has no
samples; it only tells windows apart, and the code reports it as invalid.  Each of the two
`fnusb_stop_iso` handles events, so packets are still sent between `StopIn` and
`StopOut`.  The client has set its callback before the start.
Windows received are numbered without wrapping: a loss of exactly 65536 of them
would go unnoticed.

### CamCommand, Motor

A call of `CamCommand` is a list of register writes (`todo`), some of them computed from a
register that is read first.  `Send` and `Reply` are the two transfers of
`send_cmd`; the camera (`Execute`) carries commands out in order and queues a reply
to each.  `SendFails` and `InputFails` are the transfers that fail.  The code
then leaves the tag alone, and an input that fails returns what the *output* returned,
so that the caller goes on with a reply it was never given; `InputFails` says so.  A call returns what its last write does (`Written`): 0 for the
camera's own registers, the length of the reply for those of the image sensor.

In `Motor` a call to an older device is one step (`Control`), one to a newer device a
command, the data of an answer and an acknowledgement.  `tag_seq` and `tag_next_ack` are
static in the code, one pair for all devices.  An answer that comes after its
timeout stays in the device and is taken for that of the next command: `late` remembers it,
and `UpdateTrue` promises nothing after it; `AcksBehindCommands` does.

### Loader, Devices

An image is its length and the length its header declares.  A page is a command, chunks,
and a reply that is read and not looked at.  `Devices` runs the same actions when an
open finds an audio device without firmware (`Uploading`), waits for it to
come back (`Look`, `GiveUp`), and counts what is open *at the bus*
(`handles`, `claimed`), so that a handle that is lost is seen.  `KeptAlive` is the audio device that
`fnusb_keep_alive_led` resets for a newer camera; `wants` and `after` are what a client had selected, and whether a newer
Kinect was opened before, when a device was opened.  `Failure` is what every
failed call of an open leads to.  `SerialOf` and `Listed` are the listing of attributes with the cameras
it skips, `FindSibling` the search at a camera's hub.

### Modes, Conversions, Registration

`Modes` has the real tables of modes, sizes in bytes, and the registers that a start
or stop writes.  Any one of the commands of an action may be lost, as the code drops their
errors: `stale` are the streams whose last start or stop was hit, and `reg_info` when its last
fetch was.  The
registration tables are known by the resolution they were made for.

`Conversions` and `Registration` work on real pixels, of small frames in the run, and each is
compared with a definition of what a pixel is: bits of a number, distances in the Bayer
pattern, the point nearest to the camera.  The factors of the registration, which the code
computes with doubles, are constants; so are the lines the camera pads its picture with (`StartLines`), from
which `TargetOffset` comes.  An index below zero is what the code's 32 bits make of it, here modulo `Words`,
and memory outside of the picture is modelled, so that what is written there shows.  `MapRgbToDepth` takes a parameter for what lies past the end
of `depth_to_rgb_shift`, which the code reads for depths of the largest value.

### Recorder, Player, Tape

`Recorder` is the loop of `fakenect-record` with its signal.  `Kill` leaves as many whole
lines on disk as stdio had written, the last one perhaps cut off, and of a file that was open as much as had been
flushed.  A full disk leaves empty and short files and cuts the index; if a file cannot even be made, the recorder exits
(`NoFile`), its last line without a file.  A disk that is once full for the index stays so.  `Player` plays what is there, one line for each
`freenect_process_events`; `FileOf` is what it finds of a line.  Time is in
units of the recording: `spacing` is the time between two lines as played, `gap` as recorded, `spent`
what of it was the client's.  `Tape` is a position on a sequence of pictures, the pictures
shown, and a tilt state; `PlaysTape` maps the lines that can be read to it.

### CppWrapper, OpenNIDriver

The wrapper's thread is waiting for events, in a callback, walking over the list of
devices (the end of `freenect_process_events_timeout`), or ended.  `m_devices` is the
map of the wrapper; an object holds the formats it remembers and those in force, its buffer and the one the library
writes to.  An operation of an object is a function that also says whether it threw.  A change of format is two
steps where the code has callbacks in between: `Restarted`, up to the new start of the stream, and `Remember`, which stores
the depth format (that of the video is stored before the start); `StoreMode` is the same of the driver's `video_mode`.
Closing a device stops one of its streams only (`Close`): if both ran, transfers are left behind (`orphans`),
whose callbacks find freed memory (`OrphanCallback`); the driver's `~Device` stops its streams first.  `fate` is how the process
ends where an exception leaves a thread or a destructor, or a pointer is
`NULL`.  The driver's `CreateStream` and `StoreStream` are two steps, because callbacks
come in between; building a frame (`Build`, `Populate`) is two as well, because the mode may
be changed meanwhile.  `Copied` is where in the picture a cropped pixel comes from; any cropping is taken, and what is left of a
line is skipped in unsigned arithmetic, modulo `Word`.

### EmuTransfers, EmuDevices

`ep` has for each endpoint its two lists, its thread, its three events and the
phase of libfreenect's stream; `usb` is a transfer at libusb-win32.  The client
handles events in three waits (`HandleEvents`, `Awake`, `Allow`, `Delivered`).
The reaping thread is `Attach`, `Top`, `Deliver`, one of four `Reap...` actions, `Wait`, `Exit`, `Leave`.  The lists have no lock.  What two operations on one that meet leave behind, a node in
no list, in two, or out of reach, is not followed: the thread is then "wild" (`GoneWild`) and nothing is claimed
of it.  It is wild too when a client has freed the transfer that it cancels after the callback for a lost device (the thread is
"losing" from that callback until its lists are empty, `LoseRest`).  `lost` marks an unplugged device.  `EmuDevices` counts
the references to each record, has `libusb_exit` count a record's handles before it closes them (`ExitCount`,
`ExitClose`), and recovers the lengths of a transfer's packets from
bytes that were cleared before.

## 3. The runs

| Run | Checks | Instance |
|---|---|---|
| `packet_stream` | counts, buffers, complete frames, newer parts, recovery, `FrameDelivery` | 4 packets per frame, of which the third may come short, numbers modulo 6, at most 2 lost before resynchronising, gaps of up to 5, 3 frames, one client buffer |
| `camera_usb` | exact `dead_xfers`, nothing freed in flight, buffers present (`UsbInv`), stops return, unplugging is noticed | 2 streams, 2 transfers each, at most one stream on at close |
| `camera_close_both` | violated: `NoFreeInFlight` | the same, both streams on at close |
| `sync_clients` | no deadlock, no lost wakeup, one run loop, kinect found, returned buffer left alone | 2 clients, both streams and tasks, no failures |
| `sync_faults` | ring of buffers and pending count survive, frames are of their ring's mode | 2 clients, mode changes by tasks, a refused mode, every failure, stops at any time |
| `sync_live` | calls return (a callback that waited for its own thread would end one), `Mailbox` | 1 client changing between two video modes and tasks, open failures |
| `audio` | counters, samples that arrive are given, buffers present | windows of 3, 3 and 2 packets, window numbers modulo 4, 25 packets sent, 2 channels with samples, 3 windows received |
| `control` | commands return, results are so, flags and handles are kept, only whole firmware is launched | two Kinects of different models on one bus, an image of 5 units in pages of 4, one failing call, 2 opens, 2 tries; tags modulo 3 and one failing transfer for the camera; 3 motors, of which two take commands, one of those closed |
| `images` | buffers fit, registers follow, pixels are exact, registration is right | the real tables of modes, one lost command; Bayer pictures of 4 by 4, packed rows of 8 and 16 pixels with any two different from the rest, depth of 4 by 2, cameras that pad no or one line, a depth that shifts by more than the width |
| `recording` | `Tape`, bad ends have their reason, looping | 3 files of any kind, the recorder killed or the disk full at any of them, a client that is late by one unit |
| `openni` | formats and buffers agree, callbacks find their objects, frames and times are right, the destructor ends | one device; a program with both streams, or OpenNI with one stream or both; pictures of 3 by 2, a clock that wraps at 4, frames 3 or 7 ticks apart |
| `libusbemu` | lists, references and lengths, and every wait ends | one endpoint with three transfers, every failure; two devices, 2 lists, 2 handles; transfers of 3 packets |

Why the bounds are enough.  *Packets*: with the numbers above a gap can stay in a
frame, end exactly at its last packet, cross into the next frame, be one more
than the limit, and wrap the sequence number; in the code they are 5 and 256 for
frames of some two hundred packets.  Three frames let a disturbance begin in one,
be recovered from in the next, and a complete frame follow.  One packet in the middle may come
short, after a gap or before one, in a complete frame or not; the
theorems hold for all values and any short packets.  *Transfers*: two per stream is the smallest number
at which some are dead while others live; the theorems hold for any number.  *Clients*: each race
found needs two.  `Loops` has two members wherever a second run loop could be
started.  Frames of a ring are numbered modulo `FrameMod`: 1 where
contents do not matter, 2 for `Mailbox`, where a frame written over another one
must differ from it.  *Audio*: 25 packets are three cycles of eight and one more, in which
the window number wraps twice at different places of a cycle; three windows
received let one be lost altogether between two others.

*Control*: three tags are enough for one command to be answered by the reply of the one
before; one failure is enough for a tag not to be advanced.  The image ends inside its second page, and
of three motors one has no tags, one uses them, one finds its device closed.  Two opens of two Kinects on a bus
are the smallest number at which one disturbs the other.  The client does one of the three at a
time: they share nothing but the device.  *Images*: a packed value is cut out at every
position of its eight, and two pixels that differ at all pairs of places show one that takes bits of
another; a 4 by 4 Bayer picture has corners, edges and an inside of each colour. One depth shifts a pixel by more than
the width, others by less to either side, and the table has columns outside of the picture.
*Recording*: three files have a first, a last and one between.  *OpenNI*: 2 rows and 3 columns tell
width from height; two frames may pass a wrap, and 7 ticks are more than one round.  The cropping fits in the
picture's own mode and not in the turned one.  An application with both streams
takes the pictures as they come (`Unadorned`: no cropping, mirroring, automatic balance or refused flag), since these are of
one stream each.  *Emulation*: three transfers have a first in a list, one between, and a last.  With two endpoints, two
threads that leave in turn can keep `libusb_handle_events` going round, which no fairness
of the code excludes, so liveness is checked for one.

Deadlock is checked in `sync_clients` and `sync_live`.  It is not in
`packet_stream` (the camera's frames end at the bound), in `camera_usb` (an
unplugged, closed camera is the end), in `audio` (the packets end at the bounds), in `sync_faults` (see *Findings*: after
some failures calls do hang), in `camera_close_both`, which looks for one violation, and in the five runs after
`audio`, whose devices, files and processes come to an end at the bounds or by
what happens to them.

### Fairness

`camera_usb`: a transfer that was cancelled, or whose device is gone, is
returned (libusb promises it); events that libusb has are handled while a call
handles events; a call goes on; and the client keeps calling
`freenect_process_events`, as the documentation requires.  Nothing is assumed of
transfers that complete, of errors, or of the camera.

`sync_live`: threads are scheduled (weak fairness); a call inside libfreenect
comes back, although callbacks keep coming, because it waits for a transfer of its own
(strong fairness of leaving); a running camera keeps sending frames.  Nothing is
assumed of which thread gets a lock, which is why pending tasks exist
in the code, and `CallReturns` shows that they do their work for one client.  With several
clients, one can take every frame another waits for, and the code makes no
promise.

`control`: a camera answers what it gets (`Execute`, weakly fair) and the
transfers of a call in progress end; the same for the steps of an open.  Nothing is assumed to
succeed.

`recording`: a client goes on calling `freenect_process_events`.

`openni`: callbacks return, and `libusb` returns from waiting within its timeout.
Events end again and again although new ones come, and stopping a stream, which
clears its `running` flag first, ends with its last callback (both strongly fair).

`libusbemu`: threads are scheduled, requests complete in their time with data or without, a
waiting thread is released by its event.  Strong fairness is for what must be done in a
moment that comes again and again: taking a lock that is free now and then, and a thread
that leaves while no client is handling events.

## 4. What is proved

The theorems are listed in `PROJECT.json`; each module of proofs says at its head what it is about.
They hold for every value of the constants that the assumptions named in
the modules allow (`...Assumption`: types, and what is said below).  An invariant a run checks is
seldom inductive; what each proof adds to it is the account of *why* the code is right.

**PacketStream** (`PacketStreamProofs`), for every `PktsPerFrame`, `SeqMod`,
`MaxLost`, number of frames and set of buffers with `PktsPerFrame > MaxLost + 1` and `MaxGap <
SeqMod` (while synced fewer packets are lost in a row than the sequence numbers
can tell apart; a loss of exactly 256 is invisible to the code), and also for a client that
changes buffers at any moment (`SwapAnyTime`):

* `StreamInvariant`: types, counts and buffers (`TypeCorrect`, `CountsCorrect`,
  `BuffersPresent`);
* `CompleteFramesAreIntact`: a frame delivered as complete is all of one camera frame, in
  order, with that frame's timestamp, but for the bytes its own short packets did not bring: what
  those of earlier frames left is gone;
* `OnlyOnePartIsNewer`: of what is delivered at most one packet is newer than the timestamp says;
* `TwoFramesRecover`: after two whole frames without a loss a frame is delivered as complete;
* `StreamImplementsDelivery`: `PacketStream` implements `FrameDelivery`.

The inductive invariant `IInv` adds three facts to the properties.
`SeqTracksCamera`: the difference of the sequence numbers is the number of
packets not accounted for, so `Lost` computes it.  `TimestampsOrdered`: the
camera is ahead of what is stored, which is ahead of what was delivered.
`PrefixOfOneFrame`: if nothing is missing so far, the buffer holds the beginning of
one undelivered frame, and the camera goes on from there.  The case that matters is `Store` after
a gap (lemmas `LostIsUnseen`, `AcceptedFacts`, `StoreStep`); a gap makes `got_pkts`
fall behind `pkt_num` for the rest of the frame, so a frame that reaches its
last packet with all counted had no gap.  For the newer part: no buffer holds anything newer than
the last packet stored (`NothingNewer`).  For recovery (`CleanRun`): after some packets in a row a synced
host has seen all that was sent and starts frames where the camera does; it is out of step only in the
frame in which the run began, or in the one whose start it spent on resynchronising.

**CameraUsb** (`CameraUsbProofs`), for any finite number of transfers:
`UsbInvariant` (types, `DeadXfersAreExact`, `BuffersOutliveCallbacks`) and `NothingFreedInFlight`, if at most one stream is
on when the device is closed (`MaxRunningAtClose <= 1`).
Its `IInv` adds
`TransfersWhileLive` (transfers exist exactly while the stream's memory does),
`LiveOrUnderWay` (a stream with memory that is not running is the one being started
or stopped) and `ClosingStopsAll` (whatever still runs during a close is yet to
be stopped).  The counting steps rest on cardinalities of finite sets.

**Modes** (also in `CameraUsbProofs`), for any formats a client uses and however many
commands are lost: `FramesFitBuffers` (`ModesInv`) and `RegistersFollow` (`CameraFollows`).
`ModesIInv` says that the calibration is there (the registration's own constants unless their fetch failed), that buffers are of the mode's size, and that the registers
follow each stream that is not `stale`.  A register has what the last command that was not lost wrote to it
(`Written`, `NotWritten`); that no command of one stream is to a register of the other's is `OwnRegisters`.

**SyncWrapper** (`SyncWrapperProofs`), for any clients, requests and
frame numbers.  Whatever fails, stops at any time included: `TasksAreCounted` (`SharedInv`) and `RingsStayIntact`
(`RingIntact`), by `RingInv`; and `FramesFitRing` (`FrameOfMode`), by `ModeInv`: a callback under way is of the
mode its stream was started in, which is the ring's as long as that has one, and a ring forgets its frame when its mode changes.  The other theorems assume `Orderly`: one mode per stream, which the library does
not refuse; no stop under another thread's call; and of the failures only that of `freenect_start_*`, whose result
the wrapper ignores.  Without it they are false: the *Findings* say how, so these theorems tell how far the wrapper may be
relied on.  They are `OneRunloopAtMost`, `KinectIsFound`, `NobodyWaitsInVain`,
`HeldBufferIsOwn`, and `RingIsMailbox`, step by step.  `CallInv` adds that whoever stops the run loop is
alone (`StopIsAlone`), that the run loop is the thread last created (`LoopIsThread`), that no
error path is taken (`NoErrors`), that a ring has the mode asked for (`OneMode`), and that no
waiting client's frame has come and gone (`NoLostWakeup`); `BoxInv` adds where the frame of a callback under way is.

**Audio** (`MediaProofs`), for every `0 < First < Second < SeqEnd`, `WindowMod > 1`
and number of channels: `AudioInvariant` (types, `CountersFollowPackets`,
`BuffersOutliveTransfers`) and `SamplesReachTheClient`.  The counters follow from two lemmas on the quotient and
remainder of a successor (`NextInCycle`, `NextRemainder`), and a case for each
place where a window can end.  `IInv` adds `DeviceAhead` (the device never sends a window
older than the current one, without which samples could be overwritten before they were given) and
`StopClean` (no packets arrive once the first direction is stopped).

**Conversions and Registration** (also in `MediaProofs`), for pictures of every size and, but for what is said here, every
byte: `EveryPixelExact` (`PixelsExact`) and `EveryDepthInPlace` (`RegistrationRight`), of the behaviour `PicturesSpec`: pictures of any
formats one after another, with colours mapped to the last one in millimetres.  What is assumed of a frame is what
the code relies on: Bayer pictures are two by two at least, YUV pictures have an even number of pixels, frames of
eleven bits come in groups of eight pixels, those of ten bits are long enough for the pixels asked for, and a pixel
of a depth picture that is aligned holds one of the depths of the table (`PackedDepth`).  `PicturesInv` says that the
last picture was made of its frame by the conversion of its format.  The rest is about these conversions:

* A number is made of the bits of the frame (`MadeOf`) if each shift, mask and division picks the right ones: for the
  unrolled loop pixel by pixel (`UnrolledPixels`), for the general loops by what the buffer holds after
  each element, a pattern of five bytes that comes again every four elements (`AfterElement`, `ElementsFollow`).
* The shift buffers of a line hold a pixel and its neighbours, mirrored at the border (`ShiftBufferFollows`), so that
  each colour is a mean of the right ones (`PixelSurroundings`, `MeanOfFour`).
* Each quotient of a YUV colour is off by less than one, so three are by less than three (`MixedIsClose`).
* After n pixels the buffer of the registered picture holds the nearest of the first n (`Shown`, `PutShows`), for every
  camera and any shifts.  That a target is in the picture (`AimedAtPixels`), and that the z-buffer of
  `freenect_map_rgb_to_depth` is the same picture (`BufferIsShown`), where the depth is below the largest, is so for
  frames that are `Regular`: the camera pads nothing, and no depth of the frame shifts a pixel by more than the width.

**CamCommand** (`CommandProofs`), for any calls of the kinds in `CallsAssumption` (any flags, times and
values): `BrightnessKeepsRange`, whatever fails; `CommandsAreSafe` (`CamInv`); `OtherFlagsStay` (`OnlyNamedFlag`).
`CamFacts` carries the range through commands under way.  `InStep` is why results are true while nothing failed: at
any moment the camera holds the one command of the call, or its answer, or neither.

**Motor** (also in `CommandProofs`), for any motors, angles and time-outs: `TiltKeepsRange` and `MotorsAreSafe` (`MotorInv`).
That acknowledgements stay behind commands needs them counted over all devices, where they are on their way
(`AckFacts`, on cardinalities of unions): the tags are static, one pair for all.  `CallFacts` is what is under way while
no answer is late.

**Devices and Loader** (`DeviceProofs`), for every bus, files, images and any number of failures:
`OnlyWholeFirmware` (`LoaderInv`), `SelectedGetsOpened` (`SelectedIsOpen`), `NoHandleIsLost`, `SerialIsRight`; and for a bus
no two of whose audio devices share a serial number (`DistinctSerials`), `KinectsAreWhole` and with it all of `DevicesAreSafe`
(`DevInv`).  Without that, a device that restarted is mistaken for one of the same number.  `DevFacts` has for
each stage of an open what is open by then (`StageHolds`), and counts handles (`HandlesCounted`); the sums run over
the devices of the context.  The order in which the bus is searched is that of the least index,
which needs well-founded induction (`MinFacts`).

**CppWrapper and OpenNIDriver** (`DriverProofs`), for any devices, any application, any modes the library has
(`CppAssumption`, `OniAssumption`: what an application asks for is of OpenNI's types, and the library finds the one
mode the driver itself asks for) and any garbage in a new object: `WrapperIsSafe` (`CppInv`),
also under the driver's calls (`WrapperIsSafeUnderDriver`), `DriverIsSafe` (`OniInv`) and `TimeGoesOn` (`TimeKept`, of a clock of any
width).  `DriverFacts`: every entry of the map is an object whose memory agrees with the library
(`Agreeing`) or, of the format of depth, will once it is remembered, and the thread in a callback is at a device that is there, with a
stream unless that stream is being created.  `CroppingExact` is about croppings that the picture has, of a frame during which no mode
was set; `TimeKept` holds modulo a round of the clock, whatever time a stream stood still.

**EmuTransfers and EmuDevices** (`EmulationProofs`), for any endpoints, transfers, devices, lists and handles, sizes of packets
and every fault: `TransfersAreSafe` (`EmuInv`) and `ReferencesAndLengths` (`EmuDevInv`).  `TransfersInv` says of each endpoint
which list each of its transfers is in, by its state, unless its thread is wild.  A record counts the lists by a bijection between
what `Append` and `RemoveAt` leave (`CountAppend`, `CountRemove`).  The lengths are right because
what remains after some packets is the sum of those that follow; a transfer that brings nothing
keeps its lengths, which is why they must have been cleared.

**Recorder, Player, Tape** (also in `EmulationProofs`), for recordings of any length and fate and any
client that keeps to the formats fakenect has (`PlayableFormats`): `RecordingsPlay` (`PlayerInv`), and, when recordings are
played in a loop, `RecordingIsTape`: `Player` implements `Tape`.  A player that does not loop stops after
the last line, which `Tape` does not do.  `OnTape` says that the place in the index is before the first line
that cannot be played, if there is one.  What makes `RecordingsPlay` worth proving is the recorder that was stopped
by its signal with room on the disk: its recording has no bad end at all but for an aligned picture without the device's constants.

The installed provers cannot use the library's induction theorems.  Where a proof needs induction, it is done by
the least counterexample: every set of numbers has a least member (`LeastNumber`), and two functions
that start the same and go on the same are the same (`SameRecursion`), which is how the loops over a frame are followed.

What proving changed in the models, each a place where the small instance had hidden a mistake or a gap:

* `Devices`: `Look` opened all audio devices with the serial number waited for; the code takes one.
  `SerialOpensIt` is only true of a newer Kinect whose audio device is there: otherwise the search
  takes another's.
* `Motor`: `AcksBehindCommands` is stated by the cardinality of all that is on its way, which a proof can count.
* `Player`: the type of the position was wrong for recordings that are not looped, where it stays
  behind the last line.
* `CamCommand`, `CppWrapper`, `OpenNIDriver`, `EmuTransfers`, `EmuDevices` and `Player` got the assumptions on their
  constants that the code's types give.

* `Conversions`: the loops that unpack are recursive functions, which a proof can use.
* `Registration`: the number of pixels is a multiple of eight, the shifts are functions on the pixels, and the depth
  of which a pixel of `MillimetresRight` is made is one the camera sends.

Every invariant, action property and refinement that a passing run checks is also a theorem, under the assumptions
named above.  Only model-checked is
liveness under fairness, which is out of the prover's reach (`StopReturns`,
`UnplugStopsStream`, `CallReturns`, `CallsEnd`, `Replays`, `DestructorEnds`, `EmuCallsEnd`).

## 5. Findings

`camera_close_both` has a run: `freenect_camera_teardown` stops one stream only (`cameras.c:1284`).  The
other disagreements and surprises that were met are listed here; the models
have the behaviour of the code, and the properties except what is said here.

*Packet streams and transfers.*

* A packet shorter than expected is only warned about (`cameras.c:175`), copied as far as it goes (`cameras.c:207`) and counted: a frame
  announced as complete may hold older bytes there, and the client is not told.
* When lost packets end a frame, the packet that revealed the loss is copied before the old
  frame is delivered (`cameras.c:207`).  In formats without a second buffer a client
  that changes its buffer in the callback is given a next frame that is announced as
  whole and lacks its first part.
* `fnusb_start_iso` returns 0 when no transfer could be submitted; a stream that
  starts and fails keeps its buffers.
* The first audio callback after a start gives the client a window of silence.  After a loss the
  two halves of a microphone's samples may be of different windows, and a microphone that lost a whole window
  gives its older samples again, since nothing clears them (`audio.c:93`); the client
  is not told.  `freenect_close_device` does not stop audio (`core.c:214`).

*Synchronous wrapper.*

* The run loop ends when the device disappears and is not started again, since `thread_running`
  still says that it runs; the same after `init_thread` fails.
* With two clients and a device that cannot be opened, a second run loop may be started.
* Two clients that ask for different modes of a stream may be given each other's
  frames; a tilt or LED call can free the buffer another client was just given.
* `setup_kinect` ignores that a mode was refused, and the caller then waits for ever.
* While a mode is changed the other stream's callback takes a second ring's lock,
  against the convention at `libfreenect_sync.c:72`, without harm.

*Commands, motors, devices.*

* A write to the image sensor returns the length of the camera's reply (`flags.c:340`), so setting one of its flags, or the
  exposure, returns a positive number after a success, where `libfreenect.h:670` and `698` say 0.
* An input transfer that fails makes `send_cmd` return the result of the output
  (`flags.c:228`), so a register read returns a reply it never got.
* Opening a newer Kinect takes the motor out of the context's enabled subdevices and puts audio
  in, also for the older Kinects opened later (`usb_libusb10.c:436`, `449`), which then have an audio device instead of
  a motor, although the client selected motors (`libfreenect.h:312`).
  By default audio is not enabled, other than `libfreenect.h:312` says.
* If the audio device does not come back in ten tries everything is closed, and the open
  returns 0.  A failing `fnusb_open_subdevices` returns -1 with the device still in the
  context's list (`core.c:173`).  A handle is lost when the device found is not the one looked for
  (`usb_libusb10.c:668`).  While one audio device restarts, that of another Kinect may be taken for
  it (`usb_libusb10.c:146`).
* A firmware file too small for a header returns `-errno`, which may be 0 (`loader.c:248`).
* `freenect_open_device_by_camera_serial` uses its place in a list that skips cameras
  (`core.c:193`).

*Modes, registration.*

* Of a camera that pads its picture `freenect_map_rgb_to_depth` is not the inverse that `registration.c:355` says it is: the
  offset is taken from a pixel's line (378), in the registered picture from its index (151).
* The error of fetching `reg_info` is dropped (`cameras.c:1179`, `1265`): a camera in use may register with constants that
  are zero or of an older mode.
* A depth that shifts a pixel by more than the width of the picture brings one that left it above back into it, or before it: no check
  is made of the index that is written to (`registration.c:154`).
* A video mode set while depth runs changes `reg_info` and not the tables
  (`registration.c:423`).  Starting depth does not look for high resolution infrared, although starting
  that looks for depth (`cameras.c:946`).
* `freenect_map_rgb_to_depth` reads one past `depth_to_rgb_shift` for depths of the
  largest value (`registration.c:377`), leaves occluded pixels unwritten, and needs tables
  that only aligned depth makes.

*Recording.*

* The time spent in a recorder's callback becomes part of the recorded distances.  The ffmpeg callback for
  pictures writes lines of depth (`record.c:183`), and its padding reads past the
  frame (`record.c:140`).  A failing `open_index` leads to `fclose(NULL)` (`record.c:410`).
* The player reads a file that is too short into a buffer of the right size, and copies
  all of it (`fakenect.c:251`).  An empty file ends the recording for this time round.  `REGISTERED` and `MM`
  without `device.json` use tables that are not there.  Infrared
  brightness is 0 to 49, not 1 to 50 as `libfreenect.h:707` says.
* `freenect_shutdown` does not close the index, and the place in it is kept.

*C++ wrapper and OpenNI2 driver.*

* A callback finds no stream while `createStream` has not stored it yet (`DeviceDriver.cpp:75`).
* The event thread walks the list of devices while the client frees one (`core.c:84`).
* An unplugged camera makes the thread throw, which ends the process (`libfreenect.hpp:245`); a
  `createDevice` that throws leaves an entry that the destructor deletes again (`libfreenect.hpp:215`).
  Whether a stream started again after a change is not looked at, and stopping it later throws.
* `setDepthFormat` stores the format after it has started the stream again (`libfreenect.hpp:135`): a callback in between sees pictures
  of the new format, while `getDepthFormat` still tells the old one; the same of the driver's `video_mode` (`DepthStream.cpp:52`).
* A device deleted with both streams on leaves its video transfers in flight (`cameras.c:1284`), which call back into freed memory:
  `deleteDevice`, `createDevice` over an old entry, and `~Freenect` all do.
* A cropping is not checked (`VideoStream.hpp:177`); one wider than the picture makes the skip of `DepthStream.cpp:81` nearly 2^32 pixels.
* A stream that stands still does not look at the clock (`VideoStream.hpp:42`): after a pause of more than some 70 s whole rounds of it
  are lost, which the comment at `VideoStream.hpp:51` does not foresee.
* `tryDevice` closes a device that is in use (`DeviceDriver.cpp:322`).  Modes are
  compared by their area only (`Utility.hpp:26`).  The registration of a device without depth stream
  goes through `NULL` (`DeviceDriver.cpp:180`).  Automatic exposure sets white balance (`ColorStream.hpp:139`).
* A mirrored depth frame is off by one, and writes one pixel past its end
  (`DepthStream.cpp:85`).

*libusb emulation.*

* `allowDeliver` is never reset, against the comment at `libusbemu.cpp:837`; threads
  deliver also without a client in `libusb_handle_events`.
* An I/O error drops the other transfers of the endpoint without their callbacks, against
  `libusbemu.cpp:581`, and `fnusb_stop_iso` waits for ever.  A transfer submitted
  just when the thread ends is stranded too (`libusbemu.cpp:718`).
* The lists of transfers have no lock (`libusbemu_internal.h:92`, `134`): an `Append` and a `Remove` that meet leave a node
  in no list or in two, so that a transfer is lost or called back twice.
* When the device is lost, a transfer is cancelled and marked after its callback (`libusbemu.cpp:887`, `888`), when a client that stops
  may have freed it.
* A callback that submits a transfer to an endpoint without thread would wait for the lock that
  `libusb_handle_events` holds (`libusbemu_internal.h:365`).
* A device list includes unplugged devices without a reference of its own.
  `libusb_exit` does not end if a handle cannot be closed, and uses a freed record if an unplugged device has two handles
  and its list was freed (`libusbemu.cpp:131`).
  `libusb_open_device_with_vid_pid` opens every device that matches and returns the last.

## 6. Not modelled

* `fakenect/parson.c` is a vendored JSON parser; `D2S.h` and `S2D.h` are tables of numbers.
* The examples and the bindings for other languages (C#, Java, Python, Ruby, ActionScript, Matlab,
  OpenCV) are demonstrations and adapters without state of their own.
* `upload_cemd_data` and `check_version_string` are called by nothing.
* The arithmetic on doubles that fills the registration tables, `freenect_camera_to_world` and the conversion to
  m/s^2 are formulas; the tables are constants of `Registration`.
* The recorder's mode that pipes into ffmpeg; chunk callbacks, which take the place of
  the copy in `stream_process`; `variable_length`, which nothing sets.
* Control and bulk transfers of the libusb emulation pass through, and `failguard.h` asks a
  developer what to do.
* Calls of the library from inside its callbacks, except for `stream_setbuf`.

## 7. Plan

Done: all modules of the table in section 2 with their runs, and proofs about all of them.

What is left to prove: `HeldBufferIsOwn` without `Orderly`'s one mode per stream, for clients that share no stream.
What no property covers yet is said in the notes of the hazards: failures of the synchronous wrapper that leave a client waiting, and late
replies that are written back.

Compositions worth adding: `PacketStream` under `CameraUsb` (a transfer's packets handed to the
stream, no packet after its buffers are gone), and several devices closed at
`freenect_shutdown` with streams on.
