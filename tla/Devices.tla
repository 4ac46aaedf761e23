------------------------------ MODULE Devices ------------------------------
(***************************************************************************)
(* Finding, opening and closing Kinects (src/src/core.c and the first half  *)
(* of src/src/usb_libusb10.c), with the upload of firmware an open makes.   *)
(*                                                                          *)
(* A Kinect is a camera, a motor (older ones) and an audio device behind a  *)
(* hub.  An open is several calls of libusb; each may fail.  What is open   *)
(* on the bus is counted, not what the code believes to be open.            *)
(***************************************************************************)
EXTENDS Loader, FiniteSets

CONSTANTS
  Bus,          \* the devices in the order libusb lists them: a sequence of
                \* [kind, hub, bus, serial]; kind is "old camera",
                \* "new camera", "motor" or "audio"; serial may be "zero", or
                \* "none" if there is no descriptor for it
  Selections,   \* inputs of freenect_select_subdevices()
  Serials,      \* inputs of freenect_open_device_by_camera_serial()
  Files,        \* what is at the places audios.bin is looked for
  Memory,       \* inputs of freenect_set_fw_address_...(), NoImage for none
  MaxTries,     \* how often a device is looked for that restarts: 10
  MaxFaults,    \* bound: calls of libusb that fail
  MaxOpens      \* bound: calls to open a device

Images == [bytes : Nat, size : Nat]

\* A hub is on one bus.
ASSUME DevicesAssumption ==
  /\ Bus \in Seq([kind : {"old camera", "new camera", "motor", "audio"},
                  hub : Nat, bus : Nat, serial : STRING])
  /\ \A d, e \in DOMAIN Bus : Bus[d].hub = Bus[e].hub => Bus[d].bus = Bus[e].bus
  /\ Files \in Seq(Images) /\ Memory \subseteq Images
  /\ MaxTries \in Nat \ {0} /\ MaxFaults \in Nat /\ MaxOpens \in Nat \ {0}

Sub == {"camera", "motor", "audio"}
D == DOMAIN Bus
Nothing == 0           \* a NULL handle

\* The members of a set of devices, in the order of the bus.
InOrder(S) == [i \in 1 .. Cardinality(S) |-> CHOOSE d \in S : Cardinality({e \in S : e < d}) = i - 1]
CameraSet == {d \in D : Bus[d].kind \in {"old camera", "new camera"}}
Cameras == InOrder(CameraSet)

VARIABLES
  enabled, fw_ptr,     \* of the context
  linked,              \* its list of devices: camera, motor, audio (or Nothing), alt
  pdev, ostage, tries, \* the device being opened
  oresult,             \* of the last open: [ok, dev, asked]
  alive,               \* the context exists
  \* the bus
  handles, claimed,    \* of each device
  mode,                \* of an audio device: "boot", "restarting", "running"
  \* history
  selected,            \* what the client selected last
  swapped,             \* the flags were changed since, by the open of a newer camera
  uploaded,            \* devices that have been sent firmware
  opens, faults        \* calls to open, calls that failed

context == <<enabled, fw_ptr, linked, alive>>
opening == <<pdev, ostage, tries, oresult>>
bus == <<handles, claimed, mode>>
devVars == <<context, opening, bus, selected, swapped, uploaded, opens, faults, loaderVars>>

-----------------------------------------------------------------------------
(* Finding devices. *)

Present == {d \in D : mode[d] # "restarting"}

\* fnusb_find_sibling_device(): the first one at the same hub, else the only
\* one on the same bus, else the only one.
\* Mutant: the hub is not compared.
MutFindSibling(camera, k, devs) ==
  LET all == {d \in devs : Bus[d].kind = k}
  IN IF all # {} THEN Min(all) ELSE Nothing
FindSibling(camera, k, devs) ==
  LET all == {d \in devs : Bus[d].kind = k}
      sameBus == {d \in all : Bus[d].bus = Bus[camera].bus}
      sameHub == {d \in sameBus : Bus[d].hub = Bus[camera].hub}
      Only(s) == IF Cardinality(s) = 1 THEN Min(s) ELSE Nothing
  IN
  IF sameHub # {} THEN Min(sameHub)
  ELSE IF Only(sameBus) # Nothing THEN Only(sameBus) ELSE Only(all)

\* fnusb_list_device_attributes(): the serial numbers, of the cameras that have
\* one and can be opened.  A newer camera has zeros, and that of its audio
\* device is taken instead, if there is one.
SerialOf(camera) ==
  LET audio == FindSibling(camera, "audio", Present)
  IN IF Bus[camera].serial = "zero" /\ audio # Nothing THEN Bus[audio].serial ELSE Bus[camera].serial
Listed(skipped) ==
  LET there == InOrder({d \in CameraSet : Bus[d].serial # "none" /\ d \notin skipped})
  IN [i \in DOMAIN there |-> SerialOf(there[i])]

-----------------------------------------------------------------------------

DevInit ==
  /\ enabled = {"motor", "camera"} /\ selected = {"motor", "camera"}
  /\ fw_ptr = NoImage /\ linked = <<>> /\ alive = TRUE
  /\ pdev = [camera |-> Nothing] /\ ostage = "idle" /\ tries = 0
  /\ oresult = [ok |-> TRUE, dev |-> [camera |-> Nothing], asked |-> "none"]
  /\ handles = [d \in D |-> 0] /\ claimed = [d \in D |-> FALSE]
  /\ mode \in [D -> {"boot", "running"}]
  /\ \A d \in D : Bus[d].kind # "audio" => mode[d] = "running"
  /\ swapped = FALSE /\ uploaded = {} /\ opens = 0 /\ faults = 0
  /\ LoaderInit

\* Mutant: without a mask.
MutKnown(subdevs) == subdevs
Known(subdevs) == subdevs \cap Sub
Select(subdevs) ==
  /\ alive /\ ostage = "idle"
  /\ enabled' = Known(subdevs) /\ selected' = Known(subdevs) /\ swapped' = FALSE
  /\ UNCHANGED <<fw_ptr, linked, alive, opening, bus, uploaded, faults, loaderVars, opens>>

SetFirmware(image) ==
  /\ alive /\ ostage = "idle"
  /\ fw_ptr' = image
  /\ UNCHANGED <<enabled, linked, alive, opening, bus, selected, swapped, uploaded, faults, loaderVars, opens>>

\* The handles a device holds, each of them claimed.
Held(dev) == {dev.camera, dev.motor, dev.audio} \ {Nothing}

\* fnusb_close_subdevices()
\* Mutant: the audio device is forgotten.
MutToClose(dev) == {dev.camera, dev.motor} \ {Nothing}
ToClose(dev) == Held(dev)
CloseSubdevices(dev) ==
  /\ handles' = [d \in D |-> IF d \in ToClose(dev) THEN handles[d] - 1 ELSE handles[d]]
  /\ claimed' = [d \in D |-> claimed[d] /\ d \notin ToClose(dev)]

\* With what fnusb_keep_alive_led() reset; and, of the history, what was
\* selected and whether the flags had been changed since.
NewDevice == [camera |-> Nothing, motor |-> Nothing, audio |-> Nothing, found |-> Nothing,
              alt |-> FALSE, does_alt |-> FALSE, devs |-> {}, waits |-> Nothing,
              reset |-> Nothing, wants |-> selected, after |-> swapped]

\* freenect_open_device()
OpenAt(index, asked) ==
  /\ oresult' = [oresult EXCEPT !.asked = asked, !.ok = index < Len(Cameras)]
  /\ IF index < Len(Cameras)
     THEN /\ pdev' = [NewDevice EXCEPT !.found = Cameras[index + 1], !.devs = Present]
          /\ ostage' = "camera"
     ELSE UNCHANGED <<pdev, ostage>>
  /\ UNCHANGED <<context, tries, bus, selected, swapped, uploaded, loaderVars>>

Open(index) ==
  /\ alive /\ ostage = "idle" /\ opens < MaxOpens /\ opens' = opens + 1
  /\ OpenAt(index, "none")
  /\ UNCHANGED faults

\* freenect_open_device_by_camera_serial(): the place in the list is taken for
\* the index of the camera.
\* Mutant: counted from one.
MutIndexOf(at) == Min(at)
IndexOf(at) == Min(at) - 1
OpenBySerial(serial) ==
  /\ alive /\ ostage = "idle" /\ opens < MaxOpens /\ opens' = opens + 1
  /\ \E skipped \in {{}} \cup {{Cameras[i]} : i \in {j \in DOMAIN Cameras : faults < MaxFaults}} :
     LET list == Listed(skipped)
         at == {i \in DOMAIN list : list[i] = serial}
     IN
     /\ faults' = faults + (IF skipped = {} THEN 0 ELSE 1)
     /\ IF at # {} THEN OpenAt(IndexOf(at), serial)
        ELSE /\ oresult' = [oresult EXCEPT !.ok = FALSE, !.asked = serial]
             /\ UNCHANGED <<context, pdev, ostage, tries, bus, selected, swapped, uploaded, loaderVars>>

\* The label failure: and the result of a call of libusb, or -1.
Failure ==
  /\ CloseSubdevices(pdev)
  /\ pdev' = [camera |-> Nothing] /\ ostage' = "idle"
  /\ oresult' = [oresult EXCEPT !.ok = FALSE]

\* One of the calls on a device fails: to open it, to detach the driver, to
\* claim it, to set it up.  What the call before opened is closed again.
CallFails == faults < MaxFaults /\ faults' = faults + 1

\* A device cannot be claimed twice.
OpensAs(k, d, more) ==
  /\ ~claimed[d]
  /\ handles' = [handles EXCEPT ![d] = @ + 1] /\ claimed' = [claimed EXCEPT ![d] = TRUE]
  /\ pdev' = [more EXCEPT ![k] = d]
  /\ UNCHANGED <<oresult, faults>>
CannotOpen(d) ==
  /\ IF claimed[d] THEN UNCHANGED faults ELSE CallFails
  /\ Failure

\* The camera.  A newer one has no motor of its own: the flag goes from the
\* context, and that of the audio device comes.  fnusb_keep_alive_led() opens,
\* resets and closes the audio device found for it, and opens it again for the
\* LED; that this fails, or that the device is claimed, changes nothing.
\* Mutant: it does not come.
MutSwap(flags) == flags \ {"motor"}
Swap(flags) ==
  (flags \ {"motor"}) \cup (IF "motor" \in flags THEN {"audio"} ELSE {})
KeptAlive(d) ==
  IF Bus[d].kind = "new camera" THEN {FindSibling(d, "audio", pdev.devs)} ELSE {}
OpenCamera ==
  /\ ostage = "camera"
  /\ LET d == pdev.found
         newer == Bus[d].kind = "new camera"
     IN
     \/ /\ "camera" \notin enabled
        /\ ostage' = "motor"
        /\ UNCHANGED <<pdev, enabled, swapped, handles, claimed, oresult, faults>>
     \/ /\ "camera" \in enabled
        /\ enabled' = IF newer THEN Swap(enabled) ELSE enabled
        /\ swapped' = (swapped \/ newer)
        /\ \E a \in {Nothing} \cup KeptAlive(d) :
             OpensAs("camera", d, [pdev EXCEPT !.does_alt = newer, !.reset = a])
        /\ ostage' = "motor"
     \/ /\ "camera" \in enabled
        /\ \E claims \in {FALSE, newer} :
             /\ enabled' = IF claims THEN Swap(enabled) ELSE enabled
             /\ swapped' = (swapped \/ claims)
        /\ CannotOpen(d)
  /\ UNCHANGED <<fw_ptr, linked, alive, tries, mode, selected, uploaded, loaderVars, opens>>

OpenMotor ==
  /\ ostage = "motor"
  /\ LET d == FindSibling(pdev.found, "motor", pdev.devs) IN
     IF "motor" \notin enabled
     THEN ostage' = "audio" /\ UNCHANGED <<pdev, oresult, handles, claimed, faults>>
     ELSE \/ d = Nothing /\ Failure /\ UNCHANGED faults
          \/ d # Nothing /\ OpensAs("motor", d, pdev) /\ ostage' = "audio"
          \/ d # Nothing /\ CannotOpen(d)
  /\ UNCHANGED <<context, tries, mode, selected, swapped, uploaded, loaderVars, opens>>

\* The audio device.  One that runs is all there is to open; one in its boot
\* loader has to be sent firmware, from memory if it was given any.
OpenAudio ==
  /\ ostage = "audio"
  /\ LET d == FindSibling(pdev.found, "audio", pdev.devs) IN
     IF "audio" \notin enabled
     THEN ostage' = "last" /\ UNCHANGED <<pdev, oresult, handles, claimed, faults, loaderVars>>
     ELSE \/ d = Nothing /\ Failure /\ UNCHANGED <<faults, loaderVars>>
          \/ /\ d # Nothing /\ mode[d] = "running"
             /\ OpensAs("audio", d, [pdev EXCEPT !.alt = pdev.does_alt])
             /\ ostage' = "last" /\ UNCHANGED loaderVars
          \/ /\ d # Nothing /\ mode[d] = "boot"
             /\ OpensAs("audio", d, pdev)
             /\ Upload(IF fw_ptr # NoImage THEN fw_ptr ELSE FirstFile(Files))
             /\ ostage' = "upload"
          \/ d # Nothing /\ CannotOpen(d) /\ UNCHANGED loaderVars
  /\ UNCHANGED <<context, tries, mode, selected, swapped, uploaded, opens>>

Uploading ==
  /\ ostage = "upload" /\ LoaderStep
  /\ UNCHANGED <<context, opening, bus, selected, swapped, uploaded, faults, opens>>
UploadFails ==
  /\ ostage = "upload" /\ BulkFails
  /\ UNCHANGED <<context, opening, bus, selected, swapped, uploaded, faults, opens>>

\* After an error, or with the device closed, to wait for it.  Launched
\* firmware makes it go away from the bus.
Uploaded ==
  /\ ostage = "upload" /\ lstage = "end"
  /\ LoaderReset
  /\ LET d == pdev.audio IN
     /\ mode' = IF launched THEN [mode EXCEPT ![d] = "restarting"] ELSE mode
     /\ IF lres < 0
        THEN Failure /\ UNCHANGED <<tries, uploaded>>
        ELSE /\ handles' = [handles EXCEPT ![d] = @ - 1] /\ claimed' = [claimed EXCEPT ![d] = FALSE]
             /\ pdev' = [pdev EXCEPT !.audio = Nothing, !.waits = d]
             /\ ostage' = "wait" /\ tries' = 0 /\ uploaded' = uploaded \cup {d}
             /\ UNCHANGED oresult
  /\ UNCHANGED <<context, selected, swapped, faults, opens>>

\* The device comes back; with firmware it cannot use, in its boot loader.
Restart(d) ==
  /\ mode[d] = "restarting"
  /\ mode' \in {[mode EXCEPT ![d] = "running"], [mode EXCEPT ![d] = "boot"]}
  /\ UNCHANGED <<context, opening, handles, claimed, selected, swapped, uploaded, faults, loaderVars, opens>>

\* A look at the list of devices.  Each audio device up to the one that is taken
\* is opened to read its serial number; one with another number is not closed.
Look ==
  /\ ostage = "wait" /\ tries < MaxTries
  /\ LET audio == {d \in D : Bus[d].kind = "audio" /\ mode[d] # "restarting"}
         serial == Bus[pdev.waits].serial
         found == {d \in audio : Bus[d].serial = serial /\ mode[d] = "running" /\ ~claimed[d]}
     IN
     \E it \in found \cup {Nothing} :
       LET seen == {d \in audio : it = Nothing \/ d <= it}
           other == {d \in seen : Bus[d].serial # serial}
       IN
       \E opened \in SUBSET other :
         /\ IF opened = other /\ found \cap seen \subseteq {it} THEN UNCHANGED faults ELSE CallFails
         /\ handles' = [d \in D |-> handles[d] + (IF d \in opened \cup {it} THEN 1 ELSE 0)]
         /\ claimed' = [d \in D |-> claimed[d] \/ d = it]
         /\ pdev' = IF it = Nothing THEN pdev ELSE [pdev EXCEPT !.audio = it, !.alt = pdev.does_alt]
         /\ ostage' = IF it = Nothing THEN "wait" ELSE "last"
  /\ tries' = tries + 1
  /\ UNCHANGED <<context, oresult, mode, selected, swapped, uploaded, loaderVars, opens>>

GiveUp ==
  /\ ostage = "wait" /\ tries = MaxTries
  /\ ostage' = "last"
  /\ UNCHANGED <<context, pdev, tries, oresult, bus, selected, swapped, uploaded, faults, loaderVars, opens>>

\* The end of it.  If something asked for is not open everything is closed,
\* but the result is still that of the last call.  The device becomes one of
\* the context's, then its camera is initialised.
AllOpen == \A k \in enabled : pdev[k] # Nothing
Last ==
  /\ ostage = "last"
  /\ IF AllOpen THEN UNCHANGED <<handles, claimed>> ELSE CloseSubdevices(pdev)
  /\ LET dev == IF AllOpen THEN pdev ELSE [pdev EXCEPT !.camera = Nothing, !.motor = Nothing, !.audio = Nothing]
     IN
     /\ linked' = Append(linked, dev)
     /\ \/ oresult' = [oresult EXCEPT !.ok = TRUE, !.dev = dev] /\ UNCHANGED faults
        \/ /\ dev.camera # Nothing /\ CallFails
           /\ oresult' = [oresult EXCEPT !.ok = FALSE, !.dev = dev]
  /\ pdev' = [camera |-> Nothing] /\ ostage' = "idle"
  /\ UNCHANGED <<enabled, fw_ptr, alive, tries, mode, selected, swapped, uploaded, loaderVars, opens>>

\* freenect_close_device()
Close(i) ==
  /\ alive /\ ostage = "idle"
  /\ CloseSubdevices(linked[i])
  /\ linked' = [j \in 1 .. Len(linked) - 1 |-> linked[IF j < i THEN j ELSE j + 1]]
  /\ UNCHANGED <<enabled, fw_ptr, alive, opening, mode, selected, swapped, uploaded, faults, loaderVars, opens>>

\* freenect_shutdown(): closes what is still open, one after another.
Shutdown ==
  /\ alive /\ ostage = "idle"
  /\ LET all == UNION {Held(linked[i]) : i \in DOMAIN linked} IN
     /\ handles' = [d \in D |-> IF d \in all THEN handles[d] - 1 ELSE handles[d]]
     /\ claimed' = [d \in D |-> claimed[d] /\ d \notin all]
  /\ alive' = FALSE /\ linked' = <<>>
  /\ UNCHANGED <<enabled, fw_ptr, opening, mode, selected, swapped, uploaded, faults, loaderVars, opens>>

DevNext ==
  \/ \E s \in Selections : Select(s)
  \/ \E image \in Memory : SetFirmware(image)
  \/ \E i \in 0 .. Len(Cameras) : Open(i)
  \/ \E s \in Serials : OpenBySerial(s)
  \/ OpenCamera \/ OpenMotor \/ OpenAudio \/ Uploading \/ UploadFails \/ Uploaded
  \/ Look \/ GiveUp \/ Last
  \/ \E d \in D : Restart(d)
  \/ \E i \in DOMAIN linked : Close(i)
  \/ Shutdown

-----------------------------------------------------------------------------
(* Properties. *)

\* Every variable has its type.
DevTypeOK ==
  /\ enabled \subseteq Sub /\ selected \subseteq Sub
  /\ ostage \in {"idle", "camera", "motor", "audio", "upload", "wait", "last"}
  /\ tries \in 0 .. MaxTries /\ faults \in 0 .. MaxFaults
  /\ mode \in [D -> {"boot", "restarting", "running"}]
  /\ handles \in [D -> Nat] /\ claimed \in [D -> BOOLEAN]

Kinect(d) == {linked[i] : i \in {j \in DOMAIN linked : d \in Held(linked[j])}}
                \cup (IF ostage # "idle" /\ d \in Held(pdev) THEN {pdev} ELSE {})

\* Whatever fails on the way: each device of the bus is open as often as the
\* context's devices hold it, no handle is lost and none is used that is closed;
\* and none is held twice.  An audio device that was opened while another one
\* was waited for to come back is the exception.
HandlesHeld ==
  \A d \in D :
    /\ claimed[d] <=> Kinect(d) # {}
    /\ Cardinality(Kinect(d)) <= 1
    /\ handles[d] >= Cardinality(Kinect(d))
    /\ \/ handles[d] = Cardinality(Kinect(d))
       \/ Bus[d].kind = "audio" /\ \E e \in uploaded : Bus[e].serial # Bus[d].serial

\* A device that takes motor commands by way of its audio device has that device
\* open, even after it restarted, and no other motor; and what a device is open
\* to, and what was reset for it, is at the hub of its camera, if there was such a
\* thing there when it was opened.
Touched(dev) == Held(dev) \cup ({dev.reset} \ {Nothing})
WholeKinects ==
  \A i \in DOMAIN linked :
    LET dev == linked[i] IN
    /\ dev.alt => dev.audio # Nothing /\ dev.does_alt
    /\ dev.does_alt => dev.motor = Nothing
    /\ \A d \in Touched(dev) :
         (\E e \in dev.devs : Bus[e].kind = Bus[d].kind /\ Bus[e].hub = Bus[dev.found].hub) =>
           Bus[d].hub = Bus[dev.found].hub

\* A device whose camera is open has everything open that was selected when it
\* was opened: for the motor of a newer Kinect the audio device, that takes motor
\* commands.  Only an older Kinect that is opened after a newer one has no motor,
\* but an audio device that cannot move it: the open of that changed what is
\* selected, against libfreenect.h:312.  Nothing else is open.
HasMotor(dev) == dev.motor # Nothing \/ dev.alt
SelectedIsOpen ==
  \A i \in DOMAIN linked :
    LET dev == linked[i] IN
    dev.camera # Nothing =>
      /\ "audio" \in dev.wants => dev.audio # Nothing
      /\ "motor" \in dev.wants => HasMotor(dev) \/ (~dev.does_alt /\ dev.after)
      /\ dev.motor # Nothing => "motor" \in dev.wants
      /\ dev.audio # Nothing /\ "audio" \notin dev.wants =>
           "motor" \in dev.wants /\ (dev.does_alt \/ dev.after)

\* A Kinect opened by its serial number is the one with that number, as long as
\* no camera is missing from the list.  Of a newer one whose audio device is not on
\* the bus when it is looked for, that of another Kinect is taken for it.
AudioAt(camera, devs) == {d \in devs : Bus[d].kind = "audio" /\ Bus[d].hub = Bus[camera].hub}
SerialOpensIt ==
  LET dev == oresult.dev IN
  ostage = "idle" /\ oresult.ok /\ oresult.asked # "none" /\ dev.camera # Nothing
    /\ faults = 0 /\ (\A d \in CameraSet : Bus[d].serial # "none")
    /\ (Bus[dev.camera].serial = "zero" => AudioAt(dev.camera, dev.devs) # {}) =>
    oresult.asked \in {Bus[d].serial : d \in {dev.camera} \cup AudioAt(dev.camera, D)}

\* Every open ends: the wait for a device that does not come back as well.
OpenEnds == ostage # "idle" ~> ostage = "idle"
DevFairness ==
  WF_devVars(OpenCamera \/ OpenMotor \/ OpenAudio \/ Uploading \/ Uploaded \/ Look \/ GiveUp \/ Last)

\* The safety of opening and closing: handles are neither lost nor shared, and
\* what is open is what was selected, of one Kinect, the one asked for.
DevInv == DevTypeOK /\ HandlesHeld /\ WholeKinects /\ SelectedIsOpen /\ SerialOpensIt
=============================================================================
