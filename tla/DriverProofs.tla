---------------------------- MODULE DriverProofs ----------------------------
(***************************************************************************)
(* The C++ wrapper and the OpenNI2 driver over it, for any devices, any     *)
(* modes the library has and any calls: what an object remembers of formats *)
(* and buffers is what the library uses, but for a depth format between the *)
(* restart of its stream and the end of the call; a callback's device and   *)
(* stream are not deleted under it; what a stream says of registration,     *)
(* mirroring and its area is so; and timestamps go on across the wraps of   *)
(* the clock.                                                               *)
(***************************************************************************)
EXTENDS OpenNIDriver, TLAPS

-----------------------------------------------------------------------------
(* FreenectDevice: its object and the library agree, whatever is done.      *)

Objects == [mode : [Streams -> Modes], inForce : [Streams -> Modes], running : [Streams -> BOOLEAN],
            buffer : 0 .. 2, libBuffer : 0 .. 2, mirror : BOOLEAN, balance : BOOLEAN]
Agreeing == {d \in Objects : d.mode = d.inForce /\ d.libBuffer = d.buffer}

\* An object whose depth format may be left to remember.
Half == {d \in Objects : d.mode["video"] = d.inForce["video"] /\ d.libBuffer = d.buffer}

LEMMA HalfFacts ==
  /\ Agreeing \subseteq Half
  /\ \A d \in Half : d.mode["depth"] = d.inForce["depth"] => d \in Agreeing
  /\ \A d \in Half :
       LET e == Remembered(d, "depth", d.inForce["depth"])
       IN  /\ e \in Agreeing /\ e.mode = d.inForce /\ e.inForce = d.inForce
           /\ e.running = d.running /\ e.mirror = d.mirror
<1>1. Streams = {"video", "depth"}  BY DEF Streams
<1>2. Agreeing \subseteq Half  BY DEF Agreeing, Half
<1>3. ASSUME NEW d \in Half, d.mode["depth"] = d.inForce["depth"]
      PROVE  d \in Agreeing
  <2>1. d.mode \in [Streams -> Modes] /\ d.inForce \in [Streams -> Modes]
    BY DEF Half, Objects
  <2>2. d.mode = d.inForce  BY <1>1, <1>3, <2>1 DEF Half
  <2>. QED  BY <2>2 DEF Half, Agreeing
<1>4. ASSUME NEW d \in Half
      PROVE  LET e == Remembered(d, "depth", d.inForce["depth"])
             IN  /\ e \in Agreeing /\ e.mode = d.inForce /\ e.inForce = d.inForce
                 /\ e.running = d.running /\ e.mirror = d.mirror
  <2> DEFINE e == Remembered(d, "depth", d.inForce["depth"])
             new == [d.mode EXCEPT !["depth"] = d.inForce["depth"]]
  <2>1. d \in Objects /\ d.libBuffer = d.buffer /\ d.mode["video"] = d.inForce["video"]
    BY DEF Half
  <2>2. new \in [Streams -> Modes] /\ new = d.inForce  BY <1>1, <2>1 DEF Objects
  <2>3. /\ e \in Objects /\ e.mode = new /\ e.inForce = d.inForce /\ e.running = d.running
        /\ e.mirror = d.mirror /\ e.libBuffer = e.buffer
    BY <2>1, <2>2 DEF Objects, Remembered
  <2>. HIDE DEF e, new
  <2>. QED  BY <2>2, <2>3 DEF Agreeing, e
<1>. QED  BY <1>2, <1>3, <1>4

LEMMA ObjectIsAlive ==
  ASSUME NEW d \in Objects
  PROVE  d # None /\ d # Dangling
<1>1. "mode" \in DOMAIN d  BY DEF Objects
<1>2. "mode" \notin DOMAIN None /\ "mode" \notin DOMAIN Dangling  BY DEF None, Dangling
<1>. QED  BY <1>1, <1>2

LEMMA StartFacts ==
  ASSUME NEW d \in Objects, NEW s \in Streams, NEW works \in BOOLEAN
  PROVE  LET r == Start(d, s, works) IN
         /\ r.dev \in Objects /\ r.threw \in BOOLEAN
         /\ r.dev.mode = d.mode /\ r.dev.inForce = d.inForce
         /\ r.dev.buffer = d.buffer /\ r.dev.libBuffer = d.libBuffer
         /\ r.threw => r.dev = d
         /\ ~r.threw => ~d.running[s]
         /\ ~r.threw /\ s = "video" => ~r.dev.mirror
         /\ s # "video" => r.dev.mirror = d.mirror
         /\ \A t \in Streams : r.dev.running[t] => d.running[t] \/ (t = s /\ ~r.threw)
<1>1. CASE d.running[s] \/ ~works
  BY <1>1 DEF Start, Thrown
<1>2. CASE ~(d.running[s] \/ ~works)
  <2> DEFINE e == [d EXCEPT !.running[s] = TRUE, !.mirror = @ /\ s # "video"]
  <2>1. Start(d, s, works) = [dev |-> e, threw |-> FALSE]  BY <1>2 DEF Start, Done
  <2>2. e \in Objects  BY DEF Objects
  <2>3. /\ e.mode = d.mode /\ e.inForce = d.inForce /\ e.buffer = d.buffer
        /\ e.libBuffer = d.libBuffer
        /\ e.mirror = (d.mirror /\ s # "video") /\ e.running = [d.running EXCEPT ![s] = TRUE]
    BY DEF Objects
  <2>4. \A t \in Streams : e.running[t] => d.running[t] \/ t = s
    BY <2>3 DEF Objects
  <2>5. d.mirror \in BOOLEAN  BY DEF Objects
  <2>6. s = "video" => ~e.mirror  BY <2>3
  <2>7. s # "video" => e.mirror = d.mirror  BY <2>3, <2>5
  <2>. HIDE DEF e
  <2>8. Start(d, s, works).dev = e /\ Start(d, s, works).threw = FALSE  BY <2>1
  <2>9. ~d.running[s]  BY <1>2
  <2>. QED  BY <2>2, <2>3, <2>4, <2>6, <2>7, <2>8, <2>9
<1>. QED  BY <1>1, <1>2

LEMMA StopFacts ==
  ASSUME NEW d \in Objects, NEW s \in Streams
  PROVE  LET r == Stop(d, s) IN
         /\ r.dev \in Objects /\ r.threw = ~d.running[s]
         /\ r.dev.mode = d.mode /\ r.dev.inForce = d.inForce
         /\ r.dev.buffer = d.buffer /\ r.dev.libBuffer = d.libBuffer /\ r.dev.mirror = d.mirror
         /\ \A t \in Streams : r.dev.running[t] => d.running[t] /\ t # s
<1>1. CASE ~d.running[s]
  BY <1>1 DEF Stop, Thrown, Objects
<1>2. CASE d.running[s]
  <2> DEFINE e == [d EXCEPT !.running[s] = FALSE]
  <2>1. Stop(d, s) = [dev |-> e, threw |-> FALSE]  BY <1>2 DEF Stop, Done
  <2>2. e \in Objects  BY DEF Objects
  <2>3. /\ e.mode = d.mode /\ e.inForce = d.inForce /\ e.buffer = d.buffer
        /\ e.libBuffer = d.libBuffer
        /\ e.mirror = d.mirror /\ e.running = [d.running EXCEPT ![s] = FALSE]
    BY DEF Objects
  <2>4. \A t \in Streams : e.running[t] => d.running[t] /\ t # s
    BY <2>3 DEF Objects
  <2>. HIDE DEF e
  <2>5. Stop(d, s).dev = e /\ Stop(d, s).threw = FALSE  BY <2>1
  <2>6. FALSE = ~d.running[s]  BY <1>2
  <2>. QED  BY <2>2, <2>3, <2>4, <2>5, <2>6
<1>. QED  BY <1>1, <1>2

LEMMA WithBufferFacts ==
  ASSUME NEW d \in Objects, NEW s \in Streams, d.libBuffer = d.buffer
  PROVE  LET e == WithBuffer(d, s) IN
         /\ e \in Objects /\ e.libBuffer = e.buffer
         /\ e.mode = d.mode /\ e.inForce = d.inForce /\ e.running = d.running
            /\ e.mirror = d.mirror
<1>1. CASE s = "video"
  <2> DEFINE b == 1 + (d.buffer % 2)
             e == [d EXCEPT !.buffer = b, !.libBuffer = b]
  <2>1. d.buffer \in 0 .. 2  BY DEF Objects
  <2>2. b \in 0 .. 2  BY <2>1
  <2>3. WithBuffer(d, s) = e  BY <1>1 DEF WithBuffer
  <2>. HIDE DEF b
  <2>4. /\ e \in Objects /\ e.libBuffer = b /\ e.buffer = b
        /\ e.mode = d.mode /\ e.inForce = d.inForce /\ e.running = d.running
           /\ e.mirror = d.mirror
    BY <2>2 DEF Objects
  <2>. QED  BY <2>3, <2>4
<1>2. CASE s # "video"
  BY <1>2 DEF WithBuffer
<1>. QED  BY <1>1, <1>2

\* setVideoFormat() and setDepthFormat() up to the restart: what r leaves of d.
FormatSet(r, d, s, m) ==
  /\ r.dev \in Half
  /\ m = d.mode[s] => r = Done(d)
  /\ r.threw <=> m # d.mode[s] /\ m \notin Found[s]
  /\ ~r.threw => r.dev.inForce = [d.mode EXCEPT ![s] = m]
  /\ r.threw => r.dev \in Agreeing
  /\ r.threw \/ s = "depth" => r.dev.mode = d.mode
  /\ s # "video" => r.dev.mirror = d.mirror
  /\ \A t \in Streams : r.dev.running[t] => d.running[t]

LEMMA RestartedFacts ==
  ASSUME NEW d \in Agreeing, NEW s \in Streams, NEW m, NEW works \in BOOLEAN
  PROVE  FormatSet(Restarted(d, s, m, works), d, s, m)
<1> USE DEF FormatSet
<1> DEFINE stopped == Stop(d, s)
           forced == [stopped.dev EXCEPT !.inForce[s] = m]
           moded == IF s = "video" THEN Remembered(forced, s, m) ELSE forced
           set == WithBuffer(moded, s)
<1>0. Streams = {"video", "depth"} /\ "video" # "depth"  BY DEF Streams
<1>1. d \in Objects /\ d.mode = d.inForce /\ d.libBuffer = d.buffer  BY DEF Agreeing
<1>2. /\ stopped.dev \in Objects /\ stopped.threw = ~d.running[s]
      /\ stopped.dev.mode = d.mode /\ stopped.dev.inForce = d.mode
      /\ stopped.dev.libBuffer = stopped.dev.buffer /\ stopped.dev.mirror = d.mirror
      /\ \A t \in Streams : stopped.dev.running[t] => d.running[t] /\ t # s
  BY <1>1, StopFacts
<1>3. CASE m = d.mode[s]
  <2>1. Restarted(d, s, m, works) = Done(d)  BY <1>3 DEF Restarted
  <2>2. d.mode = [d.mode EXCEPT ![s] = m]  BY <1>1, <1>3 DEF Objects
  <2>. QED  BY <1>1, <1>3, <2>1, <2>2, HalfFacts DEF Done
<1>4. CASE m # d.mode[s] /\ m \notin Found[s]
  <2>1. Restarted(d, s, m, works) = Thrown(stopped.dev)  BY <1>4 DEF Restarted
  <2>. HIDE DEF stopped
  <2>2. stopped.dev \in Agreeing  BY <1>2 DEF Agreeing
  <2>. QED  BY <1>2, <1>4, <2>1, <2>2, HalfFacts DEF Thrown
<1>5. CASE m # d.mode[s] /\ m \in Found[s]
  <2>1. Restarted(d, s, m, works) = Done(IF stopped.threw THEN set ELSE Start(set, s,
        works).dev)
    BY <1>5 DEF Restarted
  <2> DEFINE new == [d.mode EXCEPT ![s] = m]
             kept == IF s = "video" THEN new ELSE d.mode
  <2>2. new \in [Streams -> Modes] /\ d.mode \in [Streams -> Modes]
    <3>1. m \in Modes  BY <1>5, CppAssumption
    <3>. QED  BY <1>1, <3>1 DEF Objects
  <2>3. /\ moded \in Objects /\ moded.mode = kept /\ moded.inForce = new
        /\ moded.libBuffer = moded.buffer /\ moded.mirror = d.mirror
        /\ moded.running = stopped.dev.running
    <3>. HIDE DEF stopped
    <3>1. CASE s = "video"  BY <1>2, <2>2, <3>1 DEF Objects, Remembered
    <3>2. CASE s # "video"  BY <1>2, <2>2, <3>2 DEF Objects
    <3>. QED  BY <3>1, <3>2
  <2>4. kept["video"] = new["video"] /\ (s = "depth" => kept = d.mode)
    BY <1>0, <2>2
  <2>. HIDE DEF moded, stopped, new, kept
  <2>5. /\ set \in Objects /\ set.libBuffer = set.buffer
        /\ set.mode = kept /\ set.inForce = new /\ set.running = stopped.dev.running
        /\ set.mirror = d.mirror
    BY <2>3, WithBufferFacts
  <2>. HIDE DEF set
  <2> DEFINE r == Restarted(d, s, m, works)
  <2>0. ASSUME NEW e \in Objects, r = Done(e), e.mode = kept, e.inForce = new,
               e.libBuffer = e.buffer, s # "video" => e.mirror = d.mirror,
               \A t \in Streams : e.running[t] => d.running[t]
        PROVE  FormatSet(r, d, s, m)
    <3>1. r.dev = e /\ r.threw = FALSE  BY <2>0 DEF Done
    <3>2. e \in Half  BY <2>0, <2>4 DEF Half
    <3>. HIDE DEF r
    <3>. QED  BY <1>5, <2>0, <2>4, <3>1, <3>2 DEF new
  <2>6. CASE stopped.threw
    <3>1. r = Done(set)  BY <2>1, <2>6
    <3>. HIDE DEF r
    <3>. QED  BY <1>2, <2>0, <2>5, <3>1 DEF r
  <2>7. CASE ~stopped.threw
    <3> DEFINE e == Start(set, s, works).dev
    <3>0. set \in Objects  BY <2>5
    <3>1. /\ e \in Objects /\ e.mode = kept /\ e.inForce = new /\ e.libBuffer = e.buffer
          /\ s # "video" => e.mirror = d.mirror
          /\ \A t \in Streams : e.running[t] => stopped.dev.running[t] \/ t = s
      BY <2>5, <3>0, StartFacts DEF Objects
    <3>2. r = Done(e)  BY <2>1, <2>7
    <3>3. d.running[s]  BY <1>1, <1>2, <2>7 DEF Objects
    <3>. HIDE DEF e, r
    <3>. QED  BY <1>2, <2>0, <3>1, <3>2, <3>3 DEF r
  <2>. QED  BY <2>6, <2>7
<1>. QED  BY <1>3, <1>4, <1>5

\* The constructor.
LEMMA NewDeviceFacts ==
  ASSUME NEW g \in Garbage
  PROVE  /\ NewDevice(g) \in Agreeing /\ NewDevice(g).mode = Default
         /\ ~NewDevice(g).mirror /\ \A s \in Streams : ~NewDevice(g).running[s]
<1> DEFINE none == [s \in Streams |-> FALSE]
           modes == [s \in Streams |-> Mode(g[s], "MEDIUM")]
           Shape(d) == /\ d.inForce = Default /\ d.running = none /\ d.libBuffer = d.buffer
                       /\ d.mirror = FALSE /\ d \in Objects
           opened == [mode |-> modes, inForce |-> Default, running |-> none,
                      buffer |-> 0, libBuffer |-> 0, mirror |-> FALSE, balance |-> FALSE]
<1>1. Default \in [Streams -> Modes] /\ modes \in [Streams -> Modes]
  <2> DEFINE rgb == Mode("RGB", "MEDIUM")
             bits == Mode("11BIT", "MEDIUM")
  <2>4. rgb \in Modes /\ bits \in Modes
    <3>1. Default["video"] \in Modes /\ Default["depth"] \in Modes  BY CppAssumption DEF Streams
    <3>. QED  BY <3>1 DEF Default
  <2>0. "MEDIUM" \in STRING
    <3>1. rgb.resolution \in STRING
      <4>. HIDE DEF rgb
      <4>. QED  BY <2>4 DEF Modes
    <3>. QED  BY <3>1 DEF Mode
  <2>1. \A s \in Streams : g[s] \in STRING
    <3>1. g \in [Streams -> STRING]  BY CppAssumption
    <3>. QED  BY <3>1
  <2>2. \A f \in STRING : Mode(f, "MEDIUM") \in Modes  BY <2>0 DEF Mode, Modes
  <2>3. modes \in [Streams -> Modes]  BY <2>1, <2>2
  <2>5. Default \in [Streams -> Modes]
    <3>. HIDE DEF Mode
    <3>. QED  BY <2>4 DEF Default, Streams
  <2>. QED  BY <2>3, <2>5
<1>2. Shape(opened) /\ opened.mode = modes
  BY <1>1 DEF Objects
<1>3. ASSUME NEW d, Shape(d), NEW s \in Streams
      PROVE  LET e == SetFormat(d, s, Default[s], TRUE).dev
             IN  Shape(e) /\ e.mode = [d.mode EXCEPT ![s] = Default[s]]
  <2>1. Default[s] \in Found[s] /\ Default[s] \in Modes  BY <1>1, CppAssumption
  <2>2. CASE Default[s] = d.mode[s]
    <3>1. SetFormat(d, s, Default[s], TRUE).dev = Remembered(d, s, Default[s])
      BY <2>2 DEF SetFormat, Restarted, Done
    <3>2. d.mode = [d.mode EXCEPT ![s] = Default[s]]  BY <1>3, <2>2 DEF Objects
    <3>3. Remembered(d, s, Default[s]) = d  BY <1>3, <3>2 DEF Objects, Remembered
    <3>. QED  BY <1>3, <3>1, <3>2, <3>3
  <2>3. CASE Default[s] # d.mode[s]
    <3>1. Stop(d, s) = [dev |-> d, threw |-> TRUE]  BY <1>3 DEF Stop, Thrown
    <3> DEFINE forced == [d EXCEPT !.inForce[s] = Default[s]]
               moded == IF s = "video" THEN Remembered(forced, s, Default[s]) ELSE forced
               new == [d.mode EXCEPT ![s] = Default[s]]
               e == WithBuffer(moded, s)
    <3>2. SetFormat(d, s, Default[s], TRUE).dev = Remembered(e, s, Default[s])
      <4>1. Restarted(d, s, Default[s], TRUE) = Done(e)  BY <2>1, <2>3, <3>1 DEF Restarted
      <4>. HIDE DEF e
      <4>2. Done(e).dev = e /\ Done(e).threw = FALSE  BY DEF Done
      <4> DEFINE v == Done(Remembered(e, s, Default[s]))
      <4>3. v.dev = Remembered(e, s, Default[s])  BY DEF Done
      <4>4. SetFormat(d, s, Default[s], TRUE) = v
        <5>1. Restarted(d, s, Default[s], TRUE).threw = FALSE
              /\ Restarted(d, s, Default[s], TRUE).dev = e
          BY <4>1, <4>2
        <5>. QED  BY <5>1 DEF SetFormat
      <4>. QED  BY <4>3, <4>4
    <3>3. Shape(moded) /\ moded.mode \in {d.mode, new}
      <4>1. CASE s = "video"  BY <1>1, <1>3, <2>1, <4>1 DEF Objects, Remembered
      <4>2. CASE s # "video"  BY <1>1, <1>3, <2>1, <4>2 DEF Objects
      <4>. QED  BY <4>1, <4>2
    <3>4. moded \in Objects /\ moded.libBuffer = moded.buffer /\ moded.inForce = Default
          /\ moded.running = none /\ moded.mirror = FALSE
      BY <3>3
    <3>5. [d.mode EXCEPT ![s] = Default[s]] = new /\ [new EXCEPT ![s] = Default[s]] = new
          /\ new \in [Streams -> Modes]
      BY <1>3, <2>1 DEF Objects
    <3>. HIDE DEF moded, none, new
    <3>6. /\ e \in Objects /\ e.libBuffer = e.buffer /\ e.inForce = Default /\ e.running = none
          /\ e.mirror = FALSE /\ e.mode = moded.mode
      BY <3>4, WithBufferFacts
    <3>. HIDE DEF e
    <3> DEFINE f == Remembered(e, s, Default[s])
    <3>7. [e.mode EXCEPT ![s] = Default[s]] = new  BY <3>3, <3>5, <3>6
    <3>8. /\ f \in Objects /\ f.libBuffer = f.buffer /\ f.inForce = Default /\ f.running = none
          /\ f.mirror = FALSE /\ f.mode = new
      BY <3>5, <3>6, <3>7 DEF Objects, Remembered
    <3>. HIDE DEF f
    <3>. QED  BY <3>2, <3>8 DEF f, new
  <2>. QED  BY <2>2, <2>3
<1> DEFINE video == SetFormat(opened, "video", Mode("RGB", "MEDIUM"), TRUE).dev
<1>4. Default["video"] = Mode("RGB", "MEDIUM") /\ Default["depth"] = Mode("11BIT", "MEDIUM")
      /\ Streams = {"video", "depth"}
  BY DEF Default, Streams
<1>5. NewDevice(g) = SetFormat(video, "depth", Mode("11BIT", "MEDIUM"), TRUE).dev
  BY DEF NewDevice
<1>. HIDE DEF opened, Shape
<1>6. Shape(video) /\ video.mode = [modes EXCEPT !["video"] = Default["video"]]
  BY <1>2, <1>3, <1>4
<1>. HIDE DEF video
<1>7. /\ Shape(NewDevice(g))
      /\ NewDevice(g).mode = [video.mode EXCEPT !["depth"] = Default["depth"]]
  <2>1. Shape(video) /\ "depth" \in Streams  BY <1>4, <1>6
  <2>2. LET e == SetFormat(video, "depth", Default["depth"], TRUE).dev
        IN  Shape(e) /\ e.mode = [video.mode EXCEPT !["depth"] = Default["depth"]]
    BY <1>3, <2>1
  <2>. QED  BY <1>4, <1>5, <2>2
<1>8. NewDevice(g).mode = Default
  <2>1. modes \in [Streams -> Modes] /\ Default \in [Streams -> Modes]  BY <1>1
  <2>. HIDE DEF modes
  <2>. QED  BY <1>4, <1>6, <1>7, <2>1
<1>. QED  BY <1>7, <1>8 DEF Shape, Agreeing

-----------------------------------------------------------------------------
(* The wrapper used by a program: any calls, any modes, and its thread.     *)

ProgramNext ==
  \/ Destroy \/ DeleteNext \/ Join \/ Remember
  \/ CallbackReturns \/ OrphanCallback \/ EventsHandled \/ Walk \/ EventError
  \/ \E id \in Ids :
       \/ CreateDevice(id) \/ DeleteDevice(id)
       \/ \E s \in Streams :
            \/ StopStream(id, s)
            \/ Callback(id, s) /\ fate' = fate
            \/ \E works \in BOOLEAN :
                 \/ StartStream(id, s, works)
                 \/ \E m \in Modes : ChangeFormat(id, s, m, works)

CppSpec == CppInit /\ [][ProgramNext]_cppVars

\* Every entry of the map is an object that agrees with the library, but for the
\* one whose depth format is left to remember.
Settled == changing = Nothing /\ m_devices \in [Ids -> {None, Dangling} \cup Agreeing]
Changing(id) ==
  /\ changing = <<id, m_devices[id].inForce["depth"]>> /\ client = "idle"
  /\ m_devices[id] \in Half /\ m_devices \in [Ids -> {None, Dangling} \cup Half]
  /\ \A i \in Ids \ {id} : m_devices[i] \in {None, Dangling} \cup Agreeing
Entries == Settled \/ \E id \in Ids : Changing(id)
ThreadTypes ==
  /\ m_stop \in BOOLEAN /\ thread \in {"waiting", "callback", "walking", "ended"}
  /\ client \in {"idle", "deleting", "joining", "closed"} /\ orphans \in BOOLEAN
  /\ fate \in {"alive", "crashed", "no stream", "double delete", "terminated"}

LEMMA PairIsThere == \A x, y : <<x, y>> # Nothing
BY DEF Nothing

LEMMA EntriesAreSafe == Entries /\ ThreadTypes => CppInv
<1>. SUFFICES ASSUME Entries, ThreadTypes  PROVE CppInv
  OBVIOUS
<1>1. \A d \in Half : d \in Objects /\ d.buffer \in 0 .. 2 /\ d.libBuffer = d.buffer
  BY DEF Half, Objects
<1>2. \A d \in Agreeing : d \in Half /\ d.mode = d.inForce
  BY HalfFacts DEF Agreeing
<1>3. \A id \in Ids : m_devices[id] \in {None, Dangling} \/ m_devices[id] \in Half
  BY <1>2 DEF Entries, Settled, Changing
<1>4. changing # Nothing => \E id \in Ids : Changing(id)
  BY DEF Entries, Settled
<1>5. \A id : Changing(id) =>
        /\ changing[1] = id /\ changing[2] = m_devices[id].inForce["depth"] /\ client = "idle"
        /\ changing # Nothing /\ m_devices[id] \in Half /\ Alive(m_devices[id])
  BY <1>1, ObjectIsAlive, PairIsThere DEF Changing, Alive
<1>6. CppTypeOK  BY <1>1, <1>3, <1>4, <1>5 DEF CppTypeOK, ThreadTypes
<1>7. FormatsAgree
  <2>. SUFFICES ASSUME NEW id \in Ids, Alive(m_devices[id])
                PROVE  IF changing # Nothing /\ changing[1] = id
                       THEN Remembered(m_devices[id], "depth", changing[2]).mode
                              = m_devices[id].inForce
                       ELSE m_devices[id].mode = m_devices[id].inForce
    BY DEF FormatsAgree
  <2>1. CASE changing # Nothing /\ changing[1] = id
    <3>1. m_devices[id] \in Half /\ changing[2] = m_devices[id].inForce["depth"]
      BY <1>4, <1>5, <2>1
    <3>. QED  BY <2>1, <3>1, HalfFacts
  <2>2. CASE ~(changing # Nothing /\ changing[1] = id)
    <3>1. m_devices[id] \in {None, Dangling} \cup Agreeing
      BY <1>5, <2>2 DEF Entries, Settled, Changing
    <3>. QED  BY <1>2, <2>2, <3>1 DEF Alive
  <2>. QED  BY <2>1, <2>2
<1>8. BufferOwned  BY <1>1, <1>3 DEF BufferOwned, Alive
<1>. QED  BY <1>6, <1>7, <1>8 DEF CppInv

LEMMA EntrySet ==
  ASSUME Settled, NEW id \in Ids, NEW v \in {None, Dangling} \cup Agreeing,
         m_devices' = [m_devices EXCEPT ![id] = v], changing' = changing
  PROVE  Entries'
BY DEF Entries, Settled

\* A step that leaves the objects alone.
LEMMA EntriesKept ==
  ASSUME Entries, m_devices' = m_devices, changing' = changing, client' = client
  PROVE  Entries'
BY DEF Entries, Settled, Changing

\* A format that was set: agreed on, or left to remember.
LEMMA Changed ==
  ASSUME Settled, client = "idle", NEW id \in Ids, NEW d \in Half, Change(id, d)
  PROVE  Entries'
<1>1. /\ m_devices' = [m_devices EXCEPT ![id] = d] /\ client' = "idle"
      /\ changing' = IF d.mode["depth"] = d.inForce["depth"] THEN Nothing
                     ELSE <<id, d.inForce["depth"]>>
  BY DEF Change
<1>2. CASE d.mode["depth"] = d.inForce["depth"]
  <2>1. d \in Agreeing  BY <1>2, HalfFacts
  <2>. QED  BY <1>1, <1>2, <2>1, EntrySet DEF Settled
<1>3. CASE d.mode["depth"] # d.inForce["depth"]
  <2>1. m_devices \in [Ids -> {None, Dangling} \cup Half]  BY HalfFacts DEF Settled
  <2>2. m_devices'[id] = d /\ m_devices' \in [Ids -> {None, Dangling} \cup Half]
        /\ \A i \in Ids \ {id} : m_devices'[i] = m_devices[i]
    BY <1>1, <2>1
  <2>3. Changing(id)'  BY <1>1, <1>3, <2>2 DEF Changing, Settled
  <2>. QED  BY <2>3 DEF Entries
<1>. QED  BY <1>2, <1>3

\* The format that was left is remembered.
LEMMA RememberStep ==
  ASSUME Entries, Remember
  PROVE  Settled'
<1>1. /\ changing # Nothing /\ changing' = Nothing
      /\ m_devices' = [m_devices EXCEPT ![changing[1]] = Remembered(@, "depth", changing[2])]
  BY DEF Remember
<1>2. PICK id \in Ids : Changing(id)  BY <1>1 DEF Entries, Settled
<1>3. changing[1] = id /\ changing[2] = m_devices[id].inForce["depth"]  BY <1>2 DEF Changing
<1> DEFINE e == Remembered(m_devices[id], "depth", m_devices[id].inForce["depth"])
<1>4. m_devices' = [m_devices EXCEPT ![id] = e]  BY <1>1, <1>3
<1>5. e \in Agreeing  BY <1>2, HalfFacts DEF Changing
<1>. HIDE DEF e
<1>. QED  BY <1>1, <1>2, <1>4, <1>5 DEF Changing, Settled

LEMMA DeleteStep ==
  ASSUME Settled, ThreadTypes, NEW id \in Ids, Delete(id)
  PROVE  Entries' /\ ThreadTypes'
<1>1. CASE DoubleDelete
  BY <1>1 DEF DoubleDelete, Entries, Settled, ThreadTypes
<1>2. CASE /\ Close(id, m_devices[id]) /\ m_devices' = [m_devices EXCEPT ![id] = None]
  <2>1. /\ UNCHANGED <<m_stop, thread, client, changing, fate>> /\ orphans' \in BOOLEAN
    BY <1>2 DEF Close, ThreadTypes
  <2>2. Entries'  BY <1>2, <2>1, EntrySet
  <2>. QED  BY <2>1, <2>2 DEF ThreadTypes
<1>. QED  BY <1>1, <1>2 DEF Delete

\* What a step of the program does to the map and to the rest.
LEMMA ProgramStep ==
  ASSUME Entries, ThreadTypes, [ProgramNext]_cppVars
  PROVE  Entries' /\ ThreadTypes'
<1>. USE DEF cppVars
<1>0. changing = Nothing \/ client # "idle" => Settled
  BY PairIsThere DEF Entries, Changing
<1>a. Callable => Settled /\ client = "idle"  BY <1>0 DEF Callable
<1>b. \A id \in Ids : Settled /\ Alive(m_devices[id]) => m_devices[id] \in Agreeing
  BY DEF Settled, Alive
<1>c. \A d \in Agreeing : d \in Objects /\ d.mode = d.inForce /\ d.libBuffer = d.buffer
  BY DEF Agreeing
<1>1. CASE UNCHANGED cppVars
  BY <1>1, EntriesKept DEF ThreadTypes
<1>2. CASE Destroy
  BY <1>2, <1>a DEF Destroy, Entries, Settled, ThreadTypes
<1>3. CASE DeleteNext
  <2>1. Settled  BY <1>0, <1>3 DEF DeleteNext
  <2>2. CASE \E id \in Ids : Delete(id)  BY <2>1, <2>2, DeleteStep
  <2>3. CASE client' = "joining" /\ UNCHANGED <<m_devices, m_stop, thread, at, changing,
        orphans,
        fate>>
    BY <2>1, <2>3 DEF Entries, Settled, ThreadTypes
  <2>. QED  BY <1>3, <2>2, <2>3 DEF DeleteNext
<1>4. CASE Join
  <2>1. Settled  BY <1>0, <1>4 DEF Join
  <2>. QED  BY <1>4, <2>1 DEF Join, Entries, Settled, ThreadTypes
<1>5. CASE Remember
  <2>1. Settled'  BY <1>5, RememberStep
  <2>. QED  BY <1>5, <2>1 DEF Remember, Entries, ThreadTypes
<1>6. CASE CallbackReturns \/ OrphanCallback \/ EventsHandled \/ Walk \/ EventError
  <2>1. UNCHANGED <<m_devices, changing, client>>
    BY <1>6 DEF CallbackReturns, OrphanCallback, EventsHandled, Walk, EventError
  <2>2. ThreadTypes'
    BY <1>6 DEF CallbackReturns, OrphanCallback, EventsHandled, Walk, EventError, LoopTest,
       Touch, ThreadTypes
  <2>. QED  BY <2>1, <2>2, EntriesKept
<1>7. ASSUME NEW id \in Ids, CreateDevice(id)
      PROVE  Entries' /\ ThreadTypes'
  <2>1. Settled  BY <1>7, <1>a DEF CreateDevice
  <2>2. \A g \in Garbage : NewDevice(g) \in Agreeing  BY NewDeviceFacts
  <2>3. ASSUME Constructed(id), changing' = changing  PROVE Entries'
    <3>1. CASE \E g \in Garbage : m_devices' = [m_devices EXCEPT ![id] = NewDevice(g)]
      BY <2>1, <2>2, <2>3, <3>1, EntrySet
    <3>2. CASE m_devices' = [m_devices EXCEPT ![id] = IF @ = None THEN None ELSE Dangling]
      BY <2>1, <2>3, <3>2, EntrySet
    <3>. QED  BY <2>3, <3>1, <3>2 DEF Constructed
  <2>4. CASE DoubleDelete
    BY <2>1, <2>4 DEF DoubleDelete, Entries, Settled, ThreadTypes
  <2>5. CASE Constructed(id) /\ UNCHANGED <<m_stop, thread, at, client, changing, orphans,
        fate>>
    BY <2>3, <2>5 DEF ThreadTypes
  <2>6. CASE Constructed(id) /\ Close(id, m_devices[id])
    <3>1. UNCHANGED <<m_stop, thread, client, changing, fate>> /\ orphans' \in BOOLEAN
      BY <2>6 DEF Close, ThreadTypes
    <3>. QED  BY <2>3, <2>6, <3>1 DEF ThreadTypes
  <2>. QED  BY <1>7, <2>4, <2>5, <2>6 DEF CreateDevice
<1>8. ASSUME NEW id \in Ids, DeleteDevice(id)
      PROVE  Entries' /\ ThreadTypes'
  BY <1>8, <1>a, DeleteStep DEF DeleteDevice
<1>9. ASSUME NEW id \in Ids, NEW s \in Streams, StopStream(id, s)
      PROVE  Entries' /\ ThreadTypes'
  <2>1. ThreadTypes'  BY <1>9 DEF StopStream, ThreadTypes
  <2>2. Settled /\ m_devices[id] \in Objects /\ m_devices[id] \in Agreeing
    BY <1>9, <1>a, <1>b, <1>c DEF StopStream
  <2>3. Stop(m_devices[id], s).dev \in Agreeing
    BY <1>c, <2>2, StopFacts DEF Agreeing
  <2>. QED  BY <1>9, <2>1, <2>2, <2>3, EntrySet DEF StopStream
<1>10. ASSUME NEW id \in Ids, NEW s \in Streams, Callback(id, s), fate' = fate
       PROVE  Entries' /\ ThreadTypes'
  BY <1>10, EntriesKept DEF Callback, ThreadTypes
<1>11. ASSUME NEW id \in Ids, NEW s \in Streams, NEW works \in BOOLEAN,
              StartStream(id, s, works)
       PROVE  Entries' /\ ThreadTypes'
  <2>1. ThreadTypes'  BY <1>11 DEF StartStream, ThreadTypes
  <2>2. Settled /\ m_devices[id] \in Objects /\ m_devices[id] \in Agreeing
    BY <1>11, <1>a, <1>b, <1>c DEF StartStream
  <2>3. Start(m_devices[id], s, works).dev \in Agreeing
    <3> DEFINE d == m_devices[id]
               e == Start(d, s, works).dev
    <3>1. d \in Objects /\ d.mode = d.inForce /\ d.libBuffer = d.buffer  BY <1>c, <2>2
    <3>. HIDE DEF d
    <3>2. e \in Objects /\ e.mode = d.mode /\ e.inForce = d.inForce
          /\ e.buffer = d.buffer /\ e.libBuffer = d.libBuffer
      BY <3>1, StartFacts
    <3>. QED  BY <3>1, <3>2 DEF Agreeing, d
  <2>. QED  BY <1>11, <2>1, <2>2, <2>3, EntrySet DEF StartStream
<1>12. ASSUME NEW id \in Ids, NEW s \in Streams, NEW works \in BOOLEAN, NEW m \in Modes,
              ChangeFormat(id, s, m, works)
       PROVE  Entries' /\ ThreadTypes'
  <2> DEFINE d == Restarted(m_devices[id], s, m, works).dev
  <2>1. Settled /\ client = "idle" /\ m_devices[id] \in Agreeing /\ Change(id, d)
    BY <1>12, <1>a, <1>b DEF ChangeFormat
  <2>2. d \in Half  BY <2>1, RestartedFacts DEF FormatSet
  <2>3. ThreadTypes'  BY <2>1 DEF Change, ThreadTypes
  <2>. HIDE DEF d
  <2>. QED  BY <2>1, <2>2, <2>3, Changed
<1>. QED
  BY <1>1, <1>2, <1>3, <1>4, <1>5, <1>6, <1>7, <1>8, <1>9, <1>10, <1>11, <1>12 DEF ProgramNext

\* Whatever a program calls and whatever fails, what the wrapper's objects
\* remember of formats and buffers is what the library uses: the formats are the
\* modes in force, or, after a depth stream was restarted, the one in force is the
\* one setDepthFormat() remembers next; and the library never writes into a buffer
\* that was deleted.
THEOREM WrapperIsSafe == CppSpec => []CppInv
<1>1. CppInit => Entries /\ ThreadTypes
  BY DEF CppInit, Entries, Settled, ThreadTypes
<1>2. Entries /\ ThreadTypes /\ [ProgramNext]_cppVars => (Entries /\ ThreadTypes)'
  BY ProgramStep
<1>. QED  BY <1>1, <1>2, EntriesAreSafe, PTL DEF CppSpec

-----------------------------------------------------------------------------
(* The driver's arithmetic: its 64-bit clock and the lines of a cropping.   *)

LEMMA Remainder ==
  ASSUME NEW f \in Nat \ {0}, NEW q \in Int, NEW r \in 0 .. f - 1, NEW n, n = f * q + r
  PROVE  n % f = r
<1>1. (f * q + r) % f = r  OBVIOUS
<1>. QED  BY <1>1

LEMMA Split ==
  ASSUME NEW v \in Nat, NEW f \in Nat \ {0}
  PROVE  \E q \in Nat, r \in 0 .. f - 1 : v = f * q + r
<1> DEFINE q == v \div f
           r == v - f * q
<1>1. q \in Nat  OBVIOUS
<1>2. v >= f * q /\ v < f * q + f  OBVIOUS
<1>3. f * q \in Nat  BY <1>1
<1>4. r \in 0 .. f - 1  BY <1>2, <1>3
<1>5. v = f * q + r  BY <1>3
<1>. QED  BY <1>1, <1>4, <1>5

\* The clock goes on by the ticks that passed, when they are fewer than it has.
LEMMA StampWithin ==
  ASSUME NEW prev \in Nat, NEW dt \in 0 .. Wrap - 1
  PROVE  Stamp(prev, (prev + dt) % Wrap) = prev + dt
<1>1. Wrap \in Nat \ {0}  BY OniAssumption
<1>2. PICK q \in Nat, r \in 0 .. Wrap - 1 : prev = Wrap * q + r  BY <1>1, Split
<1> DEFINE ts == (prev + dt) % Wrap
           p == Wrap * q
<1>3. p \in Nat /\ prev = p + r  BY <1>1, <1>2
<1>4. prev % Wrap = r  BY <1>1, <1>2, Remainder
<1>5. CASE r + dt < Wrap
  <2>1. r + dt \in 0 .. Wrap - 1 /\ prev + dt = Wrap * q + (r + dt)  BY <1>1, <1>2, <1>3, <1>5
  <2>2. ts = r + dt
    <3> DEFINE n == prev + dt
               rest == r + dt
    <3>. HIDE DEF n, rest
    <3>1. rest \in 0 .. Wrap - 1 /\ n = Wrap * q + rest  BY <2>1 DEF n, rest
    <3>2. n % Wrap = rest  BY <1>1, <3>1, Remainder
    <3>. QED  BY <3>2 DEF n, rest
  <2>3. (ts - (prev % Wrap)) % Wrap = dt
    <3>1. ts - (prev % Wrap) = Wrap * 0 + dt  BY <1>1, <1>4, <2>2
    <3>. QED  BY <1>1, <3>1, Remainder
  <2>4. ts >= prev => ts = prev + dt
    BY <1>1, <1>3, <2>2
  <2>. HIDE DEF ts
  <2>5. ts \in Nat  BY <1>1, <2>2
  <2>. QED  BY <2>3, <2>4, <2>5 DEF Stamp, ts
<1>6. CASE r + dt >= Wrap
  <2>1. r + dt - Wrap \in 0 .. Wrap - 1  BY <1>1, <1>6
  <2>2. prev + dt = Wrap * (q + 1) + (r + dt - Wrap)  BY <1>1, <1>2
  <2>3. ts = r + dt - Wrap
    <3> DEFINE n == prev + dt
               rest == r + dt - Wrap
               k == q + 1
    <3>. HIDE DEF n, rest, k
    <3>1. k \in Int /\ rest \in 0 .. Wrap - 1 /\ n = Wrap * k + rest
      BY <2>1, <2>2 DEF n, rest, k
    <3>2. n % Wrap = rest  BY <1>1, <3>1, Remainder
    <3>. QED  BY <3>2 DEF n, rest
  <2>4. (ts - (prev % Wrap)) % Wrap = dt
    <3>1. ts - (prev % Wrap) = Wrap * (-1) + dt  BY <1>1, <1>4, <2>3
    <3>. QED  BY <1>1, <3>1, Remainder
  <2>5. ts < prev  BY <1>1, <1>3, <2>3
  <2>. HIDE DEF ts
  <2>. QED  BY <2>4, <2>5 DEF Stamp, ts
<1>. QED  BY <1>1, <1>5, <1>6

\* The rounds the clock made without a frame are lost.
LEMMA StampGoesOn ==
  ASSUME NEW prev \in Nat, NEW dt \in Nat
  PROVE  Stamp(prev, (prev + dt) % Wrap) = prev + (dt % Wrap) /\ dt % Wrap \in 0 .. Wrap - 1
<1>1. Wrap \in Nat \ {0}  BY OniAssumption
<1>2. PICK p \in Nat, k \in 0 .. Wrap - 1 : dt = Wrap * p + k  BY <1>1, Split
<1>3. dt % Wrap = k  BY <1>1, <1>2, Remainder
<1>4. k \in Nat /\ prev + k \in Nat  BY <1>1
<1>5. PICK a \in Nat, b \in 0 .. Wrap - 1 : prev + k = Wrap * a + b  BY <1>1, <1>4, Split
<1>6. (prev + k) % Wrap = b
  <2> DEFINE n == prev + k
  <2>. HIDE DEF n
  <2>1. n = Wrap * a + b  BY <1>5 DEF n
  <2>2. n % Wrap = b  BY <1>1, <2>1, Remainder
  <2>. QED  BY <2>2 DEF n
<1>7. (prev + dt) % Wrap = b
  <2> DEFINE n == prev + dt
             q == p + a
  <2>1. Wrap * q = Wrap * p + Wrap * a  BY <1>1
  <2>2. Wrap * p \in Nat /\ Wrap * a \in Nat  BY <1>1
  <2>3. n = Wrap * q + b  BY <1>1, <1>2, <1>5, <2>1, <2>2
  <2>4. q \in Int /\ b \in 0 .. Wrap - 1  BY <1>1
  <2>. HIDE DEF n, q
  <2>5. n % Wrap = b  BY <1>1, <2>3, <2>4, Remainder
  <2>. QED  BY <2>5 DEF n
<1>8. Stamp(prev, (prev + k) % Wrap) = prev + k  BY StampWithin
<1>. QED  BY <1>3, <1>6, <1>7, <1>8

\* A multiple of the width, less a line's rest, is a multiple of the line.
LEMMA Lines ==
  ASSUME NEW y \in Int, NEW c \in Int, NEW w \in Int, NEW line \in Int
  PROVE  c * line + y * (w + (line - w)) = (c + y) * line
<1>1. w + (line - w) = line  OBVIOUS
<1>2. c * line + y * line = (c + y) * line  OBVIOUS
<1>. QED  BY <1>1, <1>2

\* The whole lines before one of the last's, and what is before it in its line.
LEMMA InPicture ==
  ASSUME NEW line \in Nat, NEW rows \in Nat, NEW k \in Nat, NEW c \in Nat, k < rows, c < line
  PROVE  k * line + c < line * rows
<1>1. PICK n \in Nat : rows = k + 1 + n
  <2>1. rows - (k + 1) \in Nat /\ rows = k + 1 + (rows - (k + 1))  OBVIOUS
  <2>. QED  BY <2>1
<1>2. line * rows = k * line + line + n * line  BY <1>1
<1>3. n * line \in Nat /\ k * line \in Nat  OBVIOUS
<1>. QED  BY <1>2, <1>3

Frames ==
  {f \in [stream : Streams, same : BOOLEAN, crop : Crops, line : 0 .. Word - 1, rows : Nat,
          mirror : BOOLEAN] : f.line * f.rows = X * Y}

LEMMA CopiedFacts ==
  ASSUME NEW f \in Frames, Fits(f), NEW i \in 0 .. f.crop.w * f.crop.h - 1
  PROVE  /\ Copied(f, i) = (f.crop.y + (i \div f.crop.w)) * f.line + f.crop.x + (i % f.crop.w)
         /\ Copied(f, i) < X * Y
<1> DEFINE w == f.crop.w
           h == f.crop.h
           x == i % w
           y == i \div w
<1>1. w \in Nat /\ h \in Nat /\ f.crop.x \in Nat /\ f.crop.y \in Nat /\ f.line \in 0 .. Word - 1
      /\ f.rows \in Nat /\ Word \in Nat \ {0}
  BY OniAssumption DEF Frames, Crops
<1>0. f.crop.x + w <= f.line /\ f.crop.y + h <= f.rows  BY DEF Fits
<1>2. w # 0
  <2>1. SUFFICES ASSUME w = 0  PROVE FALSE  OBVIOUS
  <2>2. w * h = 0  BY <1>1, <2>1
  <2>. QED  BY <2>2
<1>3. i \in Nat /\ i < w * h
  <2>1. w * h \in Nat  BY <1>1
  <2>. QED  BY <2>1
<1>a. w \in Nat \ {0}  BY <1>1, <1>2
<1>. HIDE DEF w, h
<1>4. x \in 0 .. w - 1 /\ y \in Nat /\ i = w * y + x
  <2>1. PICK q \in Nat, m \in 0 .. w - 1 : i = w * q + m  BY <1>a, <1>3, Split
  <2>2. i % w = m  BY <1>a, <2>1, Remainder
  <2>3. i \div w = q
    <3>1. w * q \in Nat /\ w * q <= i /\ i < w * q + w  BY <1>1, <2>1
    <3>2. (i - m) = w * q  BY <1>1, <2>1
    <3>3. w * (i \div w) + (i % w) = i /\ i \div w \in Int  BY <1>1, <1>2, <1>3
    <3>4. w * (i \div w) = w * q  BY <1>1, <2>1, <2>2, <3>3
    <3>5. \A a \in Nat \ {0}, b, c \in Int : a * b = a * c => b = c  OBVIOUS
    <3>. QED  BY <1>1, <1>2, <3>3, <3>4, <3>5
  <2>. QED  BY <2>1, <2>2, <2>3
<1>5. (f.line - w) % Word = f.line - w
  <2>1. f.line - w \in 0 .. Word - 1  BY <1>0, <1>1
  <2> DEFINE n == f.line - w
  <2>2. n = Word * 0 + n  BY <1>1, <2>1
  <2>. HIDE DEF n
  <2>3. n \in 0 .. Word - 1  BY <2>1 DEF n
  <2>4. n % Word = n  BY <1>1, <2>2, <2>3, Remainder
  <2>. QED  BY <2>4 DEF n
<1>6. Copied(f, i) = f.crop.x + f.crop.y * f.line + y * (w + (f.line - w)) + x
  BY <1>5 DEF Copied, w
<1>7. y < h
  <2>1. SUFFICES ASSUME y >= h  PROVE FALSE  BY <1>1, <1>4
  <2>2. y - h \in Nat /\ y = h + (y - h)  BY <1>1, <1>4, <2>1
  <2>3. w * y = w * h + w * (y - h) /\ w * (y - h) \in Nat  BY <1>1, <2>2
  <2>4. w * h \in Nat /\ w * y \in Nat  BY <1>1, <1>4
  <2>. QED  BY <1>1, <1>3, <1>4, <2>3, <2>4
<1>. HIDE DEF x, y
<1>8. f.crop.y * f.line + y * (w + (f.line - w)) = (f.crop.y + y) * f.line
  BY <1>1, <1>4, Lines
<1>9. f.crop.y * f.line \in Int /\ y * (w + (f.line - w)) \in Int
      /\ (f.crop.y + y) * f.line \in Int
  BY <1>1, <1>4
<1>10. \A a, b, e, k, n \in Int : a + b = e => k + a + b + n = e + k + n  OBVIOUS
<1>11. Copied(f, i) = (f.crop.y + y) * f.line + f.crop.x + x
  BY <1>1, <1>4, <1>6, <1>8, <1>9, <1>10
<1>12. Copied(f, i) < X * Y
  <2> DEFINE k == f.crop.y + y
             c == f.crop.x + x
  <2>1. k \in Nat /\ c \in Nat /\ k < f.rows /\ c < f.line  BY <1>0, <1>1, <1>4, <1>7
  <2>2. Copied(f, i) = k * f.line + c  BY <1>1, <1>4, <1>9, <1>11
  <2>. HIDE DEF k, c
  <2>3. f.line \in Nat  BY <1>1
  <2>4. k * f.line + c < f.line * f.rows  BY <1>1, <2>1, <2>3, InPicture
  <2>. QED  BY <2>2, <2>4 DEF Frames
<1>. QED  BY <1>11, <1>12 DEF x, y, w

-----------------------------------------------------------------------------
(* A stream object and the device under it.                                 *)

StreamObjects ==
  [mode : OniModes, running : BOOLEAN, crop : Crops, mirror : BOOLEAN, prev : 0 .. MaxStamp,
   registered : BOOLEAN]
FullArea(m) == m.x * m.y = X * Y

\* What the stream s of a device d says is so, unless a flag was refused.
Says(d, s, st, no) ==
  /\ FullArea(st.mode)
  /\ s = "depth" => (st.registered <=> d.inForce["depth"].format = "REGISTERED")
  /\ s = "video" /\ ~no => (d.mirror <=> st.mirror)

LEMMA StreamIsThere ==
  ASSUME NEW st \in StreamObjects
  PROVE  st # NoStream
<1>1. "prev" \in DOMAIN st  BY DEF StreamObjects
<1>2. "prev" \notin DOMAIN NoStream  BY DEF NoStream
<1>. QED  BY <1>1, <1>2

LEMMA NewStreamFacts ==
  ASSUME NEW s \in Streams
  PROVE  /\ NewStream(s) \in StreamObjects /\ FullArea(NewStream(s).mode)
     /\ ~NewStream(s).mirror
         /\ Supported[s] \in OniModes /\ Matches(Supported[s], Supported[s])
<1>1. /\ X \in 0 .. Word - 1 /\ Y \in 0 .. Word - 1 /\ X \in Nat /\ Y \in Nat
      /\ MaxStamp \in Nat /\ 30 \in Nat
  BY OniAssumption
<1>2. Supported[s] \in OniModes /\ Supported[s].x = X /\ Supported[s].y = Y
  BY <1>1 DEF Supported, OniMode, OniModes, PixelFormats, Streams
<1>3. Whole \in Crops  BY <1>1 DEF Whole, Crops
<1>. HIDE DEF Supported, Whole
<1>4. NewStream(s) \in StreamObjects  BY <1>1, <1>2, <1>3 DEF NewStream, StreamObjects
<1>5. FullArea(NewStream(s).mode)  BY <1>2 DEF FullArea, NewStream
<1>. QED  BY <1>2, <1>4, <1>5 DEF NewStream, Matches

LEMMA MatchingArea ==
  ASSUME NEW s \in Streams, NEW m, Matches(m, Supported[s])
  PROVE  FullArea(m)
<1>1. Supported[s].x = X /\ Supported[s].y = Y  BY DEF Supported, OniMode, Streams
<1>. HIDE DEF Supported
<1>. QED  BY <1>1 DEF Matches, FullArea

LEMMA AreaMatches ==
  ASSUME NEW s \in Streams, NEW m, FullArea(m)
  PROVE  Matches(m, Supported[s])
<1>1. Supported[s].x = X /\ Supported[s].y = Y  BY DEF Supported, OniMode, Streams
<1>. HIDE DEF Supported
<1>. QED  BY <1>1 DEF Matches, FullArea

\* setVideoMode() up to the restart: what it leaves of the stream and of the device.
LEMMA SetVideoModeFacts ==
  ASSUME NEW d \in Agreeing, NEW s \in Streams, NEW st \in StreamObjects, NEW m \in OniModes,
         NEW works \in BOOLEAN, d.mode["video"] = Mode("RGB", "MEDIUM")
  PROVE  LET r == SetVideoMode(st, d, s, m, works) IN
         /\ r.st \in StreamObjects /\ r.dev \in Half /\ (r.ok <=> Matches(m, Supported[s]))
         /\ r.st.mode = st.mode /\ r.st.prev = st.prev /\ r.st.mirror = st.mirror
         /\ s = "video" => r.dev = d
         /\ r.dev.mirror = d.mirror /\ r.dev.mode = d.mode
         /\ \A t \in Streams : r.dev.running[t] => d.running[t]
         /\ ~Matches(m, Supported[s]) => r.st = st /\ r.dev = d
         /\ Matches(m, Supported[s]) /\ s = "depth" =>
              (r.st.registered <=> r.dev.inForce["depth"].format = "REGISTERED")
<1> DEFINE r == SetVideoMode(st, d, s, m, works)
           plain == [st EXCEPT !.registered = FALSE]
           f == Mode(Format(st, s), "MEDIUM")
           fp == Mode(Format(plain, s), "MEDIUM")
           first == Restarted(d, s, f, works)
           again == Restarted(first.dev, s, fp, works)
<1>0. Streams = {"video", "depth"}  BY DEF Streams
<1>1. /\ plain \in StreamObjects /\ plain.registered = FALSE /\ plain.mode = st.mode
      /\ plain.prev = st.prev /\ plain.mirror = st.mirror
  BY DEF StreamObjects
<1>2. d \in Half  BY HalfFacts
<1>3. CASE ~Matches(m, Supported[s])
  <2>1. r = [st |-> st, dev |-> d, ok |-> FALSE]  BY <1>3 DEF SetVideoMode
  <2>. HIDE DEF r
  <2>2. r.st = st /\ r.dev = d /\ r.ok = FALSE  BY <2>1
  <2>. QED  BY <1>2, <1>3, <2>2 DEF r
<1>4. CASE Matches(m, Supported[s]) /\ ~first.threw
  <2>1. r = [st |-> st, dev |-> first.dev, ok |-> TRUE]
    BY <1>4 DEF SetVideoMode
  <2>2. FormatSet(first, d, s, f)  BY RestartedFacts
  <2>3. d.mode \in [Streams -> Modes]  BY DEF Agreeing, Objects
  <2>4. CASE s = "video"
    <3>1. f = d.mode[s]  BY <2>4 DEF Format
    <3>2. first = Done(d)
      <4>. HIDE DEF first, f
      <4>. QED  BY <2>2, <3>1 DEF FormatSet
    <3>3. r.st = st /\ r.dev = d /\ r.ok = TRUE  BY <2>1, <3>2 DEF Done
    <3>. HIDE DEF r, first, f
    <3>. QED  BY <1>2, <1>4, <2>4, <3>3 DEF r
  <2>5. CASE s = "depth"
    <3>1. f.format = "REGISTERED" <=> st.registered
      BY <2>5 DEF Format, Mode, StreamObjects
    <3>. HIDE DEF f, first
    <3>2. /\ first.dev \in Half /\ first.dev.mode = d.mode /\ first.dev.mirror = d.mirror
          /\ first.dev.inForce = [d.mode EXCEPT ![s] = f]
          /\ \A t \in Streams : first.dev.running[t] => d.running[t]
      BY <1>4, <2>2, <2>5 DEF FormatSet
    <3>3. first.dev.inForce["depth"] = f  BY <2>3, <2>5, <3>2
    <3>4. r.st = st /\ r.dev = first.dev /\ r.ok = TRUE  BY <2>1
    <3>. HIDE DEF r
    <3>. QED  BY <1>4, <2>5, <3>1, <3>2, <3>3, <3>4 DEF r
  <2>. QED  BY <1>0, <2>4, <2>5
<1>5. CASE Matches(m, Supported[s]) /\ first.threw
  <2>1. FormatSet(first, d, s, f)  BY RestartedFacts
  <2>2. s = "depth"
    <3>1. SUFFICES ASSUME s = "video"  PROVE FALSE  BY <1>0
    <3>2. f = d.mode[s]  BY <3>1 DEF Format
    <3>. HIDE DEF first, f
    <3>3. first = Done(d)  BY <2>1, <3>2 DEF FormatSet
    <3>. QED  BY <1>5, <3>3 DEF Done
  <2>3. fp = Mode("MM", "MEDIUM") /\ fp \in Found[s]
    BY <1>1, <2>2, OniAssumption DEF Format
  <2>4. st.registered
    <3>1. SUFFICES ASSUME ~st.registered  PROVE FALSE  OBVIOUS
    <3>2. f \in Found[s]  BY <2>2, <3>1, OniAssumption DEF Format
    <3>. HIDE DEF first, f
    <3>. QED  BY <1>5, <2>1, <3>2 DEF FormatSet
  <2>5. /\ first.dev \in Agreeing /\ first.dev.mode = d.mode /\ first.dev.mirror = d.mirror
        /\ \A t \in Streams : first.dev.running[t] => d.running[t]
    <3>. HIDE DEF first, f
    <3>. QED  BY <1>5, <2>1, <2>2 DEF FormatSet
  <2>. HIDE DEF first, fp
  <2>6. FormatSet(again, first.dev, s, fp)  BY <2>5, RestartedFacts
  <2>. HIDE DEF again
  <2>7. /\ again.dev \in Half /\ ~again.threw /\ again.dev.mode = d.mode
        /\ again.dev.inForce = [d.mode EXCEPT ![s] = fp] /\ again.dev.mirror = d.mirror
        /\ \A t \in Streams : again.dev.running[t] => d.running[t]
    BY <2>2, <2>3, <2>5, <2>6 DEF FormatSet
  <2>8. r = [st |-> plain, dev |-> again.dev, ok |-> TRUE]
    BY <1>5, <2>4, <2>7 DEF SetVideoMode, first, again, fp
  <2>. HIDE DEF plain
  <2>9. r.st = plain /\ r.dev = again.dev /\ r.ok = TRUE  BY <2>8
  <2>10. again.dev.inForce["depth"] = fp
    <3>1. d.mode \in [Streams -> Modes]  BY DEF Agreeing, Objects
    <3>. QED  BY <1>0, <2>2, <2>7, <3>1
  <2>11. fp.format # "REGISTERED"  BY <2>3 DEF Mode
  <2>. HIDE DEF r
  <2>. QED  BY <1>1, <1>5, <2>2, <2>7, <2>9, <2>10, <2>11 DEF r
<1>. QED  BY <1>3, <1>4, <1>5

-----------------------------------------------------------------------------
(* The driver: the inductive invariant.                                     *)

oniAll == <<oniVars, user, uses>>
DriverSpec ==
  /\ OniInit /\ user = "OpenNI" /\ uses \in SUBSET Streams
  /\ [][OniNext /\ UNCHANGED <<user, uses>>]_oniAll

\* The wrapper's map and the driver's agree; what the streams say is so; and a
\* camera's stream runs without an object only while its object is created.
DeviceFacts(id) ==
  /\ m_devices[id] # None <=> Open(id)
  /\ m_devices[id] # None => m_devices[id].mode["video"] = Mode("RGB", "MEDIUM")
  /\ \A s \in Streams :
       /\ streams[id][s] # NoStream => Open(id) /\ Says(m_devices[id], s, streams[id][s],
          refused)
       /\ m_devices[id] # None /\ streams[id][s] = NoStream /\ m_devices[id].running[s] =>
            creating # NoStream /\ creating.id = id /\ creating.s = s

Created ==
  \E id \in Ids, s \in Streams, st \in StreamObjects :
    /\ creating = [mode |-> "built", id |-> id, s |-> s, st |-> st]
    /\ Open(id) /\ streams[id][s] = NoStream /\ Says(m_devices[id], s, st, refused)

\* The mode setVideoMode() has set and not stored yet is one for its stream.
Setting ==
  \E id \in Ids, s \in Streams, m \in OniModes :
    setting = <<id, s, m>> /\ FullArea(m) /\ streams[id][s] # NoStream

\* A depth format is left to remember only within setVideoMode().
StateFacts ==
  /\ Entries /\ m_devices \in [Ids -> {None} \cup Half]
  /\ devices \in {<<>>} \cup [Ids -> BOOLEAN]
  /\ streams \in [Ids -> [Streams -> {NoStream} \cup StreamObjects]]
  /\ refused \in BOOLEAN /\ (client # "idle" => devices = <<>>)
  /\ \A id \in Ids : DeviceFacts(id)
  /\ creating # NoStream => Created
  /\ changing # Nothing => setting # Nothing
  /\ setting # Nothing => creating = NoStream /\ Setting

\* What the thread works on is there, and what it builds is of its types.
ThreadFacts ==
  /\ ThreadTypes
  /\ building \in {NoFrame} \cup [stream : Streams, mode : OniModes, elapsed : Elapsed]
  /\ frame \in {NoFrame} \cup Frames
  /\ thread = "callback" => \E id \in Ids, s \in Streams :
       at = <<id, s>> /\ m_devices[id] # None /\ (fate = "alive" => streams[id][s] # NoStream)
  /\ fate = "no stream" => creating # NoStream /\ at = <<creating.id, creating.s>>

DriverFacts == StateFacts /\ ThreadFacts

LEMMA NothingOpen ==
  ASSUME devices = <<>>, NEW id
  PROVE  ~Open(id)
<1>1. DOMAIN <<>> = {}  OBVIOUS
<1>. QED  BY <1>1 DEF Open

LEMMA HalfIsAlive ==
  ASSUME NEW d \in Half
  PROVE  d \in Objects /\ d # None /\ d # Dangling
<1>1. d \in Objects  BY DEF Half
<1>. QED  BY <1>1, ObjectIsAlive

\* Between its calls the driver leaves every object agreeing with the library.
LEMMA SettledMap ==
  ASSUME StateFacts, changing = Nothing
  PROVE  Settled /\ m_devices \in [Ids -> {None} \cup Agreeing]
<1>1. Settled  BY PairIsThere DEF StateFacts, Entries, Changing
<1>2. m_devices \in [Ids -> {None} \cup Half]  BY DEF StateFacts
<1>3. \A id \in Ids : m_devices[id] \in {None} \cup Agreeing
  <2>1. None # Dangling  BY DEF None, Dangling
  <2>. QED  BY <1>1, <1>2, <2>1, HalfIsAlive DEF Settled
<1>. QED  BY <1>1, <1>2, <1>3

LEMMA AgreeingMap ==
  ASSUME changing' = Nothing, m_devices' \in [Ids -> {None} \cup Agreeing]
  PROVE  Entries' /\ m_devices' \in [Ids -> {None} \cup Half]
<1>1. Settled'  BY DEF Settled
<1>. QED  BY <1>1, HalfFacts DEF Entries

\* Without an open device nothing is created, and no mode is set.
LEMMA NothingUnderWay ==
  ASSUME StateFacts, \A id \in Ids : ~Open(id)
  PROVE  creating = NoStream /\ setting = Nothing /\ changing = Nothing
BY DEF StateFacts, Created, Setting, DeviceFacts

\* A step of the thread.
LEMMA StateKept ==
  ASSUME StateFacts,
         UNCHANGED <<m_devices, changing, client, devices, streams, creating, setting, refused>>
  PROVE  StateFacts'
<1>1. Entries'  BY EntriesKept DEF StateFacts
<1>. QED  BY <1>1 DEF StateFacts, DeviceFacts, Created, Setting, Says, Open

\* A device that is open has an object.
LEMMA OpenDevice ==
  ASSUME StateFacts, NEW id \in Ids, Open(id), changing = Nothing
  PROVE  /\ m_devices[id] \in Agreeing /\ m_devices[id] \in Objects /\ Alive(m_devices[id])
         /\ m_devices[id].mode["video"] = Mode("RGB", "MEDIUM")
         /\ m_devices[id].mode = m_devices[id].inForce
         /\ devices \in [Ids -> BOOLEAN]
<1>1. m_devices[id] \in Agreeing /\ m_devices[id].mode["video"] = Mode("RGB", "MEDIUM")
  BY SettledMap DEF StateFacts, DeviceFacts
<1>2. m_devices[id] \in Objects /\ m_devices[id].mode = m_devices[id].inForce
  BY <1>1 DEF Agreeing
<1>3. devices \in [Ids -> BOOLEAN]  BY NothingOpen DEF StateFacts
<1>. QED  BY <1>1, <1>2, <1>3, ObjectIsAlive DEF Alive

\* A step that starts no callback and takes nothing from under one.
LEMMA ThreadKept ==
  ASSUME ThreadFacts, ThreadTypes', fate' # "no stream", building' = building, frame' = frame,
         \/ thread' # "callback"
         \/ /\ fate = "alive" /\ thread' = thread /\ at' = at
            /\ \A id \in Ids, s \in Streams :
                 at = <<id, s>> /\ m_devices[id] # None /\ streams[id][s] # NoStream =>
                   m_devices'[id] # None /\ streams'[id][s] # NoStream
  PROVE  ThreadFacts'
<1>1. CASE thread' # "callback"
  BY <1>1 DEF ThreadFacts
<1>2. CASE /\ fate = "alive" /\ thread' = thread /\ at' = at /\ thread = "callback"
           /\ \A id \in Ids, s \in Streams :
                at = <<id, s>> /\ m_devices[id] # None /\ streams[id][s] # NoStream =>
                  m_devices'[id] # None /\ streams'[id][s] # NoStream
  <2>1. PICK id \in Ids, s \in Streams :
          at = <<id, s>> /\ m_devices[id] # None /\ streams[id][s] # NoStream
    BY <1>2 DEF ThreadFacts
  <2>2. at' = <<id, s>> /\ m_devices'[id] # None /\ streams'[id][s] # NoStream
    BY <1>2, <2>1
  <2>. QED  BY <2>2 DEF ThreadFacts
<1>. QED  BY <1>1, <1>2

\* A step that changes one stream of an open device, and the device with it.
LEMMA OneStream ==
  ASSUME StateFacts, ThreadFacts, fate = "alive", creating = NoStream,
         NEW id \in Ids, NEW s \in Streams, Open(id), streams[id][s] # NoStream,
         NEW d \in Half, m_devices' = [m_devices EXCEPT ![id] = d], Entries',
         NEW st \in StreamObjects, streams' = [streams EXCEPT ![id][s] = st],
         UNCHANGED <<m_stop, thread, at, client, orphans, fate, devices, creating, building,
            frame>>,
         changing' # Nothing => setting' # Nothing, setting' # Nothing => Setting',
         refused' \in BOOLEAN, refused => refused',
         Says(d, s, st, refused'), d.mode["video"] = Mode("RGB", "MEDIUM"),
         \A t \in Streams \ {s} :
           /\ t = "depth" => d.inForce["depth"] = m_devices[id].inForce["depth"]
           /\ t = "video" => d.mirror = m_devices[id].mirror,
         \A t \in Streams : d.running[t] => m_devices[id].running[t]
  PROVE  StateFacts' /\ ThreadFacts'
<1>1. /\ m_devices \in [Ids -> {None} \cup Half]
      /\ streams \in [Ids -> [Streams -> {NoStream} \cup StreamObjects]]
      /\ \A i \in Ids : DeviceFacts(i)
  BY DEF StateFacts
<1>2. d # None /\ st # NoStream  BY HalfIsAlive, StreamIsThere
<1>3. m_devices' \in [Ids -> {None} \cup Half]  BY <1>1
<1>4. streams' \in [Ids -> [Streams -> {NoStream} \cup StreamObjects]]  BY <1>1
<1>5. \A i : Open(i)' = Open(i)  BY DEF Open
<1>6. m_devices'[id] = d /\ \A i \in Ids \ {id} : m_devices'[i] = m_devices[i]  BY <1>1
<1>7. /\ streams'[id][s] = st
      /\ \A t \in Streams \ {s} : streams'[id][t] = streams[id][t]
      /\ \A i \in Ids \ {id} : streams'[i] = streams[i]
  BY <1>1
<1>8. ASSUME NEW i \in Ids  PROVE DeviceFacts(i)'
  <2>1. CASE i # id
    <3>1. \A t \in Streams : Says(m_devices[i], t, streams[i][t], refused) =>
                               Says(m_devices[i], t, streams[i][t], refused')
      BY DEF Says
    <3>2. m_devices'[i] = m_devices[i] /\ streams'[i] = streams[i]  BY <1>6, <1>7, <2>1
    <3>3. DeviceFacts(i)  BY <1>1
    <3>. QED  BY <1>5, <3>1, <3>2, <3>3 DEF DeviceFacts
  <2>2. CASE i = id
    <3>0. DeviceFacts(id)  BY <1>1
    <3>1. ASSUME NEW t \in Streams, streams'[id][t] # NoStream
          PROVE  Open(id)' /\ Says(d, t, streams'[id][t], refused')
      <4>1. CASE t = s  BY <1>5, <1>7, <4>1
      <4>2. CASE t # s
        <5>1. Says(m_devices[id], t, streams[id][t], refused)
          BY <1>7, <3>0, <3>1, <4>2 DEF DeviceFacts
        <5>2. /\ t = "depth" => d.inForce["depth"] = m_devices[id].inForce["depth"]
              /\ t = "video" => d.mirror = m_devices[id].mirror
          BY <4>2
        <5>3. Says(d, t, streams[id][t], refused')  BY <5>1, <5>2 DEF Says
        <5>. QED  BY <1>5, <1>7, <4>2, <5>3
      <4>. QED  BY <4>1, <4>2
    <3>2. ASSUME NEW t \in Streams, streams'[id][t] = NoStream  PROVE ~d.running[t]
      <4>1. t # s  BY <1>2, <1>7, <3>2
      <4>2. streams[id][t] = NoStream  BY <1>7, <3>2, <4>1
      <4>. QED  BY <3>0, <4>2 DEF DeviceFacts
    <3>3. m_devices[id] # None  BY <3>0 DEF DeviceFacts
    <3>. QED  BY <1>2, <1>5, <1>6, <2>2, <3>1, <3>2 DEF DeviceFacts
  <2>. QED  BY <2>1, <2>2
<1>9. StateFacts'
  BY <1>3, <1>4, <1>8 DEF StateFacts
<1>10. ThreadFacts'
  <2>1. ThreadTypes'  BY DEF ThreadTypes, ThreadFacts
  <2>2. fate' # "no stream"  OBVIOUS
  <2>3. \A i \in Ids, t \in Streams : m_devices[i] # None /\ streams[i][t] # NoStream =>
                                        m_devices'[i] # None /\ streams'[i][t] # NoStream
    BY <1>2, <1>6, <1>7
  <2>. QED  BY <2>1, <2>2, <2>3, ThreadKept
<1>. QED  BY <1>9, <1>10

\* The same when neither a format nor a mode is left to store.
LEMMA PlainStream ==
  ASSUME StateFacts, ThreadFacts, Callable, creating = NoStream, setting = Nothing,
         NEW id \in Ids, NEW s \in Streams, Open(id), streams[id][s] # NoStream,
         NEW d \in Agreeing, m_devices' = [m_devices EXCEPT ![id] = d],
         NEW st \in StreamObjects, streams' = [streams EXCEPT ![id][s] = st],
         UNCHANGED <<m_stop, thread, at, client, changing, setting, orphans, fate, devices,
                     creating, building, frame>>,
         refused' \in BOOLEAN, refused => refused',
         Says(d, s, st, refused'), d.mode["video"] = Mode("RGB", "MEDIUM"),
         \A t \in Streams \ {s} :
           /\ t = "depth" => d.inForce["depth"] = m_devices[id].inForce["depth"]
           /\ t = "video" => d.mirror = m_devices[id].mirror,
         \A t \in Streams : d.running[t] => m_devices[id].running[t]
  PROVE  StateFacts' /\ ThreadFacts'
<1>1. fate = "alive" /\ changing = Nothing  BY DEF Callable
<1>2. d \in Half  BY HalfFacts
<1>3. Entries'  BY <1>1, SettledMap, EntrySet
<1>4. (changing' # Nothing => setting' # Nothing) /\ (setting' # Nothing => Setting')
  BY <1>1
<1>. QED  BY <1>1, <1>2, <1>3, <1>4, OneStream

\* A stream that is there says what is so of its device.
LEMMA UsableStream ==
  ASSUME StateFacts, NEW id \in Ids, NEW s \in Streams, Usable(id, s)
  PROVE  /\ Callable /\ creating = NoStream /\ setting = Nothing /\ changing = Nothing
         /\ fate = "alive" /\ client = "idle" /\ Settled
         /\ Open(id) /\ streams[id][s] # NoStream
         /\ streams[id][s] \in StreamObjects /\ Says(m_devices[id], s, streams[id][s], refused)
         /\ m_devices[id] \in Agreeing
         /\ m_devices[id].mode["video"] = Mode("RGB", "MEDIUM")
         /\ m_devices = [m_devices EXCEPT ![id] = m_devices[id]]
         /\ streams = [streams EXCEPT ![id][s] = streams[id][s]]
<1>1. /\ Callable /\ creating = NoStream /\ setting = Nothing /\ changing = Nothing
      /\ fate = "alive" /\ client = "idle" /\ Open(id) /\ streams[id][s] # NoStream
  BY DEF Usable, Ready, Callable
<1>2. DeviceFacts(id) /\ streams \in [Ids -> [Streams -> {NoStream} \cup StreamObjects]]
  BY DEF StateFacts
<1>3. Settled /\ m_devices \in [Ids -> {None} \cup Agreeing]  BY <1>1, SettledMap
<1>4. streams[id][s] \in StreamObjects /\ Says(m_devices[id], s, streams[id][s], refused)
  BY <1>1, <1>2 DEF DeviceFacts
<1>. QED  BY <1>1, <1>2, <1>3, <1>4, OpenDevice

LEMMA StartStopStep ==
  ASSUME DriverFacts, NEW id \in Ids, NEW s \in Streams, NEW b \in BOOLEAN, StartStop(id, s, b)
  PROVE  DriverFacts'
<1> DEFINE st == streams[id][s]
           new == [st EXCEPT !.running = b]
           d == m_devices[id]
<1>1. Usable(id, s) /\ streams' = [streams EXCEPT ![id][s] = new]
      /\ UNCHANGED <<m_devices, m_stop, thread, at, client, changing, setting, orphans, fate,
                     devices, creating, building, frame, refused>>
  BY DEF StartStop, Set, cppVars
<1>2. StateFacts /\ ThreadFacts /\ refused \in BOOLEAN  BY DEF DriverFacts, StateFacts
<1>3. /\ Callable /\ creating = NoStream /\ setting = Nothing /\ Open(id) /\ st # NoStream
      /\ st \in StreamObjects
      /\ Says(d, s, st, refused) /\ d \in Agreeing /\ d.mode["video"] = Mode("RGB", "MEDIUM")
      /\ m_devices = [m_devices EXCEPT ![id] = d]
  BY <1>1, <1>2, UsableStream
<1>4. new \in StreamObjects /\ new.mode = st.mode /\ new.mirror = st.mirror
      /\ new.registered = st.registered
  BY <1>3 DEF StreamObjects
<1>. HIDE DEF st, new, d
<1>5. Says(d, s, new, refused')  BY <1>1, <1>3, <1>4 DEF Says
<1>. QED  BY <1>1, <1>2, <1>3, <1>4, <1>5, PlainStream DEF DriverFacts, st, d

LEMMA SetCroppingStep ==
  ASSUME DriverFacts, NEW id \in Ids, NEW s \in Streams, NEW c \in Croppings, SetCropping(id,
     s, c)
  PROVE  DriverFacts'
<1> DEFINE st == streams[id][s]
           new == [st EXCEPT !.crop = c]
           d == m_devices[id]
<1>1. Usable(id, s) /\ streams' = [streams EXCEPT ![id][s] = new]
      /\ UNCHANGED <<m_devices, m_stop, thread, at, client, changing, setting, orphans, fate,
                     devices, creating, building, frame, refused>>
  BY DEF SetCropping, Set, cppVars
<1>2. StateFacts /\ ThreadFacts /\ refused \in BOOLEAN  BY DEF DriverFacts, StateFacts
<1>3. /\ Callable /\ creating = NoStream /\ setting = Nothing /\ Open(id) /\ st # NoStream
      /\ st \in StreamObjects
      /\ Says(d, s, st, refused) /\ d \in Agreeing /\ d.mode["video"] = Mode("RGB", "MEDIUM")
      /\ m_devices = [m_devices EXCEPT ![id] = d]
  BY <1>1, <1>2, UsableStream
<1>4. new \in StreamObjects /\ new.mode = st.mode /\ new.mirror = st.mirror
      /\ new.registered = st.registered
  <2>1. c \in Crops  BY OniAssumption
  <2>. QED  BY <1>3, <2>1 DEF StreamObjects
<1>. HIDE DEF st, new, d
<1>5. Says(d, s, new, refused')  BY <1>1, <1>3, <1>4 DEF Says
<1>. QED  BY <1>1, <1>2, <1>3, <1>4, <1>5, PlainStream DEF DriverFacts, st, d

\* setVideoMode() of a stream object as it is, or asked to align depth to colour.
LEMMA SettingModeStep ==
  ASSUME DriverFacts, NEW id \in Ids, NEW s \in Streams, Usable(id, s),
     NEW st \in StreamObjects,
         FullArea(st.mode), st.mirror = streams[id][s].mirror,
         NEW m \in OniModes, NEW works \in BOOLEAN, SettingMode(id, s, st, m, works),
         st = streams[id][s] \/ Matches(m, Supported[s])
  PROVE  DriverFacts'
<1> DEFINE d == m_devices[id]
           old == streams[id][s]
           r == SetVideoMode(st, d, s, m, works)
<1>1. /\ streams' = [streams EXCEPT ![id][s] = r.st] /\ Change(id, r.dev)
      /\ setting' = (IF r.ok THEN <<id, s, m>> ELSE Nothing)
      /\ UNCHANGED <<devices, creating, building, frame, refused>>
  BY DEF SettingMode, Set
<1>2. StateFacts /\ ThreadFacts /\ refused \in BOOLEAN  BY DEF DriverFacts, StateFacts
<1>3. /\ fate = "alive" /\ client = "idle" /\ Settled /\ creating = NoStream /\ Open(id)
      /\ old # NoStream /\ Says(d, s, old, refused)
      /\ d \in Agreeing /\ d.mode["video"] = Mode("RGB", "MEDIUM") /\ d.mode = d.inForce
      /\ streams \in [Ids -> [Streams -> {NoStream} \cup StreamObjects]]
  BY <1>2, UsableStream DEF StateFacts, Agreeing
<1>. HIDE DEF d, old
<1>4. /\ r.st \in StreamObjects /\ r.dev \in Half /\ (r.ok <=> Matches(m, Supported[s]))
      /\ r.st.mode = st.mode /\ r.st.prev = st.prev /\ r.st.mirror = st.mirror
      /\ s = "video" => r.dev = d
      /\ r.dev.mirror = d.mirror /\ r.dev.mode = d.mode
      /\ \A t \in Streams : r.dev.running[t] => d.running[t]
      /\ ~Matches(m, Supported[s]) => r.st = st /\ r.dev = d
      /\ Matches(m, Supported[s]) /\ s = "depth" =>
           (r.st.registered <=> r.dev.inForce["depth"].format = "REGISTERED")
  BY <1>3, SetVideoModeFacts
<1>. HIDE DEF r
<1>5. /\ m_devices' = [m_devices EXCEPT ![id] = r.dev]
      /\ changing' = (IF r.dev.mode["depth"] = r.dev.inForce["depth"] THEN Nothing
                      ELSE <<id, r.dev.inForce["depth"]>>)
      /\ UNCHANGED <<m_stop, thread, at, client, orphans, fate>>
  BY <1>1 DEF Change
<1>6. Entries'  BY <1>1, <1>3, <1>4, Changed
<1>7. streams'[id][s] = r.st /\ r.st # NoStream  BY <1>1, <1>3, <1>4, StreamIsThere
<1>8. changing' # Nothing => setting' # Nothing
  <2>1. ASSUME ~r.ok  PROVE changing' = Nothing  BY <1>3, <1>4, <1>5, <2>1
  <2>2. ASSUME r.ok  PROVE setting' # Nothing  BY <1>1, <2>2 DEF Nothing
  <2>. QED  BY <2>1, <2>2
<1>9. setting' # Nothing => Setting'
  <2>1. SUFFICES ASSUME r.ok  PROVE Setting'  BY <1>1
  <2>2. FullArea(m)  BY <1>4, <2>1, MatchingArea
  <2>3. setting' = <<id, s, m>> /\ streams'[id][s] # NoStream  BY <1>1, <1>7, <2>1
  <2>. QED  BY <2>2, <2>3 DEF Setting
<1>10. Says(r.dev, s, r.st, refused')
  <2>1. s = "depth" => (r.st.registered <=> r.dev.inForce["depth"].format = "REGISTERED")
    <3>1. CASE Matches(m, Supported[s])  BY <1>4, <3>1
    <3>2. CASE ~Matches(m, Supported[s])
      <4>1. r.st = old /\ r.dev = d  BY <1>4, <3>2 DEF old
      <4>. QED  BY <1>3, <4>1 DEF Says
    <3>. QED  BY <3>1, <3>2
  <2>2. s = "video" /\ ~refused => (r.dev.mirror <=> r.st.mirror)
    BY <1>3, <1>4 DEF Says, old
  <2>. QED  BY <1>1, <1>4, <2>1, <2>2 DEF Says, FullArea
<1>11. \A t \in Streams \ {s} :
         /\ t = "depth" => r.dev.inForce["depth"] = d.inForce["depth"]
         /\ t = "video" => r.dev.mirror = d.mirror
  BY <1>4 DEF Streams
<1>12. r.dev.mode["video"] = Mode("RGB", "MEDIUM")  BY <1>3, <1>4
<1>. QED
  BY <1>1, <1>2, <1>3, <1>4, <1>5, <1>6, <1>8, <1>9, <1>10, <1>11, <1>12, OneStream
     DEF DriverFacts, d, old

LEMMA SetModeStep ==
  ASSUME DriverFacts, NEW id \in Ids, NEW s \in Streams, NEW m \in Requested,
         NEW works \in BOOLEAN, SetMode(id, s, m, works)
  PROVE  DriverFacts'
<1> DEFINE st == streams[id][s]
<1>1. Usable(id, s) /\ SettingMode(id, s, st, m, works) /\ StateFacts
  BY DEF SetMode, DriverFacts
<1>2. st \in StreamObjects /\ Says(m_devices[id], s, st, refused)  BY <1>1, UsableStream
<1>3. FullArea(st.mode) /\ m \in OniModes  BY <1>2, OniAssumption DEF Says
<1>. QED  BY <1>1, <1>2, <1>3, SettingModeStep

LEMMA SetRegistrationStep ==
  ASSUME DriverFacts, NEW id \in Ids, NEW b \in BOOLEAN, NEW works \in BOOLEAN,
         SetRegistration(id, b, works)
  PROVE  DriverFacts'
<1> DEFINE st == streams[id]["depth"]
           asked == [st EXCEPT !.registered = b]
<1>0. StateFacts /\ ThreadFacts /\ "depth" \in Streams  BY DEF DriverFacts, Streams
<1>1. CASE st = NoStream
  <2>1. /\ UNCHANGED <<m_devices, m_stop, thread, at, client, changing, orphans, driver>>
        /\ fate' = "crashed" /\ fate = "alive"
    BY <1>1 DEF SetRegistration, Ready, Callable
  <2>2. StateFacts'  BY <1>0, <2>1, StateKept DEF driver
  <2>3. ThreadTypes'  BY <1>0, <2>1 DEF ThreadFacts, ThreadTypes
  <2>4. ThreadFacts'  BY <1>0, <2>1, <2>3, ThreadKept DEF driver
  <2>. QED  BY <2>2, <2>4 DEF DriverFacts
<1>2. CASE st # NoStream
  <2>1. Usable(id, "depth") /\ SettingMode(id, "depth", asked, st.mode, works)
    BY <1>2 DEF SetRegistration, Usable
  <2>2. st \in StreamObjects /\ Says(m_devices[id], "depth", st, refused)
    BY <1>0, <2>1, UsableStream
  <2>3. asked \in StreamObjects /\ asked.mode = st.mode /\ asked.mirror = st.mirror
        /\ st.mode \in OniModes
    BY <2>2 DEF StreamObjects
  <2>. HIDE DEF asked
  <2>4. FullArea(st.mode)  BY <2>2 DEF Says
  <2>5. Matches(st.mode, Supported["depth"])  BY <1>0, <2>4, AreaMatches
  <2>. QED  BY <1>0, <2>1, <2>3, <2>4, <2>5, SettingModeStep
<1>. QED  BY <1>1, <1>2

\* The format is remembered and the mode stored: the object agrees with the
\* library again.
LEMMA StoreModeStep ==
  ASSUME DriverFacts, StoreMode
  PROVE  DriverFacts'
<1>1. /\ setting # Nothing /\ setting' = Nothing
      /\ streams' = [streams EXCEPT ![setting[1]][setting[2]].mode = setting[3]]
      /\ UNCHANGED <<devices, creating, building, frame, refused>>
      /\ IF changing # Nothing THEN Remember ELSE fate = "alive" /\ UNCHANGED cppVars
  BY DEF StoreMode
<1>2. StateFacts /\ ThreadFacts  BY DEF DriverFacts
<1>3. PICK id \in Ids, s \in Streams, m \in OniModes :
        setting = <<id, s, m>> /\ FullArea(m) /\ streams[id][s] # NoStream
  BY <1>1, <1>2 DEF StateFacts, Setting
<1> DEFINE st == [streams[id][s] EXCEPT !.mode = m]
<1>4. /\ streams \in [Ids -> [Streams -> {NoStream} \cup StreamObjects]]
      /\ m_devices \in [Ids -> {None} \cup Half] /\ Entries /\ creating = NoStream
      /\ \A i \in Ids : DeviceFacts(i)
  BY <1>1, <1>2 DEF StateFacts
<1>5. streams' = [streams EXCEPT ![id][s] = st]  BY <1>1, <1>3, <1>4
<1>6. /\ st \in StreamObjects /\ st.mode = m /\ st.mirror = streams[id][s].mirror
      /\ st.registered = streams[id][s].registered
  <2> DEFINE old == streams[id][s]
  <2>1. old \in StreamObjects  BY <1>3, <1>4
  <2>. HIDE DEF old
  <2>2. LET new == [old EXCEPT !.mode = m]
        IN  /\ new \in StreamObjects /\ new.mode = m /\ new.mirror = old.mirror
            /\ new.registered = old.registered
    BY <2>1 DEF StreamObjects
  <2>. QED  BY <2>2 DEF old
<1>. HIDE DEF st
<1>7. /\ streams' \in [Ids -> [Streams -> {NoStream} \cup StreamObjects]]
      /\ streams'[id][s] = st /\ st # NoStream
      /\ \A i \in Ids, t \in Streams : i # id \/ t # s => streams'[i][t] = streams[i][t]
  BY <1>4, <1>5, <1>6, StreamIsThere
\* What is the same of every object.
<1> DEFINE Same(d, e) ==
      /\ d = None <=> e = None
      /\ d # None => /\ e.mode["video"] = d.mode["video"] /\ e.inForce = d.inForce
                     /\ e.running = d.running /\ e.mirror = d.mirror
<1>8. /\ Entries' /\ m_devices' \in [Ids -> {None} \cup Half] /\ changing' = Nothing
      /\ \A i \in Ids : Same(m_devices[i], m_devices'[i])
      /\ UNCHANGED <<m_stop, thread, at, client, orphans, fate>> /\ fate = "alive"
  <2>1. CASE changing = Nothing
    <3>1. fate = "alive" /\ UNCHANGED cppVars  BY <1>1, <2>1
    <3>. QED  BY <1>4, <2>1, <3>1, EntriesKept DEF cppVars
  <2>2. CASE changing # Nothing
    <3>0. Remember  BY <1>1, <2>2
    <3>1. PICK i \in Ids : Changing(i)  BY <1>4, <2>2 DEF Entries, Settled
    <3> DEFINE d == m_devices[i]
               e == Remembered(d, "depth", d.inForce["depth"])
    <3>2. /\ d \in Half /\ m_devices' = [m_devices EXCEPT ![i] = e] /\ changing' = Nothing
          /\ UNCHANGED <<m_stop, thread, at, client, orphans, fate>> /\ fate = "alive"
      BY <3>0, <3>1 DEF Remember, Changing
    <3>. HIDE DEF d
    <3>3. /\ e \in Agreeing /\ e.mode = d.inForce /\ e.inForce = d.inForce
          /\ e.running = d.running /\ e.mirror = d.mirror
      BY <3>2, HalfFacts
    <3>. HIDE DEF e
    <3>4. e \in Half /\ e # None /\ d # None  BY <3>2, <3>3, HalfFacts, HalfIsAlive
    <3>5. e.mode["video"] = d.mode["video"]  BY <3>2, <3>3 DEF Half
    <3>6. Settled'  BY <1>4, <3>0, RememberStep
    <3>7. /\ m_devices'[i] = e /\ m_devices' \in [Ids -> {None} \cup Half]
          /\ \A k \in Ids \ {i} : m_devices'[k] = m_devices[k]
      BY <1>4, <3>2, <3>4
    <3>8. \A k \in Ids : Same(m_devices[k], m_devices'[k])
      BY <3>3, <3>4, <3>5, <3>7 DEF d
    <3>. QED  BY <3>2, <3>6, <3>7, <3>8 DEF Entries
  <2>. QED  BY <2>1, <2>2
<1>9. \A i : Open(i)' <=> Open(i)  BY <1>1 DEF Open
<1>10. ASSUME NEW i \in Ids  PROVE DeviceFacts(i)'
  <2>1. DeviceFacts(i) /\ Same(m_devices[i], m_devices'[i])  BY <1>4, <1>8
  <2>2. ASSUME NEW t \in Streams
        PROVE  /\ streams'[i][t] = NoStream <=> streams[i][t] = NoStream
               /\ streams[i][t] # NoStream => Says(m_devices'[i], t, streams'[i][t], refused)
    <3>1. streams[i][t] # NoStream =>
            Says(m_devices[i], t, streams[i][t], refused) /\ m_devices[i] # None
      BY <2>1 DEF DeviceFacts
    <3>2. CASE i = id /\ t = s
      BY <1>3, <1>6, <1>7, <2>1, <3>1, <3>2 DEF Says
    <3>3. CASE i # id \/ t # s
      <4>1. streams'[i][t] = streams[i][t]  BY <1>7, <3>3
      <4>. QED  BY <2>1, <3>1, <4>1 DEF Says
    <3>. QED  BY <3>2, <3>3
  <2>. QED  BY <1>1, <1>9, <2>1, <2>2 DEF DeviceFacts
<1>11. StateFacts'
  BY <1>1, <1>2, <1>4, <1>7, <1>8, <1>10 DEF StateFacts
<1>12. ThreadFacts'
  <2>1. ThreadTypes'  BY <1>2, <1>8 DEF ThreadFacts, ThreadTypes
  <2>2. \A i \in Ids, t \in Streams : m_devices[i] # None /\ streams[i][t] # NoStream =>
                                        m_devices'[i] # None /\ streams'[i][t] # NoStream
    BY <1>7, <1>8
  <2>. QED  BY <1>1, <1>2, <1>8, <2>1, <2>2, ThreadKept
<1>. QED  BY <1>11, <1>12 DEF DriverFacts

LEMMA SetMirroringStep ==
  ASSUME DriverFacts, NEW id \in Ids, NEW s \in Streams, NEW b \in BOOLEAN,
     NEW works \in BOOLEAN,
         SetMirroring(id, s, b, works)
  PROVE  DriverFacts'
<1> DEFINE st == streams[id][s]
           new == [st EXCEPT !.mirror = b]
           d == m_devices[id]
           e == IF s = "video" /\ works THEN [d EXCEPT !.mirror = b] ELSE d
<1>1. Usable(id, s) /\ streams' = [streams EXCEPT ![id][s] = new]
      /\ m_devices' = (IF s = "video"
         /\ works THEN [m_devices EXCEPT ![id].mirror = b] ELSE m_devices)
      /\ refused' = (refused \/ (s = "video" /\ ~works))
      /\ UNCHANGED <<m_stop, thread, at, client, changing, setting, orphans, fate, devices,
                     creating, building, frame>>
  BY DEF SetMirroring, Set
<1>2. StateFacts /\ ThreadFacts /\ refused \in BOOLEAN  BY DEF DriverFacts, StateFacts
<1>3. /\ Callable /\ creating = NoStream /\ setting = Nothing /\ Open(id) /\ st # NoStream
      /\ st \in StreamObjects
      /\ Says(d, s, st, refused) /\ d \in Agreeing /\ d.mode["video"] = Mode("RGB", "MEDIUM")
      /\ m_devices = [m_devices EXCEPT ![id] = d]
  BY <1>1, <1>2, UsableStream
<1>4. new \in StreamObjects /\ new.mode = st.mode /\ new.mirror = b
      /\ new.registered = st.registered
  BY <1>3 DEF StreamObjects
<1>5. m_devices' = [m_devices EXCEPT ![id] = e]  BY <1>1, <1>3
<1>6. /\ e \in Agreeing /\ e.mode = d.mode /\ e.inForce = d.inForce /\ e.running = d.running
      /\ s # "video" => e = d
      /\ s = "video" /\ works => e.mirror = b
  <2>. HIDE DEF d
  <2>. QED  BY <1>3 DEF Agreeing, Objects
<1>. HIDE DEF st, new, d, e
<1>7. Says(e, s, new, refused')  BY <1>1, <1>3, <1>4, <1>6 DEF Says, Streams
<1>8. \A t \in Streams \ {s} :
        /\ t = "depth" => e.inForce["depth"] = d.inForce["depth"]
        /\ t = "video" => e.mirror = d.mirror
  BY <1>6 DEF Streams
<1>9. refused' \in BOOLEAN /\ (refused => refused')  BY <1>1, <1>2
<1>10. e.mode["video"] = Mode("RGB", "MEDIUM")
       /\ \A t \in Streams : e.running[t] => d.running[t]
  BY <1>3, <1>6
<1>. QED
  BY <1>1, <1>2, <1>3, <1>4, <1>5, <1>6, <1>7, <1>8, <1>9, <1>10, PlainStream
     DEF DriverFacts, st, d

LEMMA SetBalanceStep ==
  ASSUME DriverFacts, NEW id \in Ids, NEW b \in BOOLEAN, NEW works \in BOOLEAN,
         SetBalance(id, b, works)
  PROVE  DriverFacts'
<1> DEFINE st == streams[id]["video"]
           d == m_devices[id]
           e == IF works THEN [d EXCEPT !.balance = b] ELSE d
<1>1. Usable(id, "video") /\ streams' = streams /\ refused' = (refused \/ ~works)
      /\ m_devices' = (IF works THEN [m_devices EXCEPT ![id].balance = b] ELSE m_devices)
      /\ UNCHANGED <<m_stop, thread, at, client, changing, setting, orphans, fate, devices,
                     creating, building, frame>>
  BY DEF SetBalance
<1>2. StateFacts /\ ThreadFacts /\ refused \in BOOLEAN /\ "video" \in Streams
  BY DEF DriverFacts, StateFacts, Streams
<1>3. /\ Callable /\ creating = NoStream /\ setting = Nothing /\ Open(id) /\ st # NoStream
      /\ st \in StreamObjects
      /\ Says(d, "video", st, refused) /\ d \in Agreeing /\ d.mode["video"] = Mode("RGB",
         "MEDIUM")
      /\ m_devices = [m_devices EXCEPT ![id] = d]
         /\ streams = [streams EXCEPT ![id]["video"] = st]
  BY <1>1, <1>2, UsableStream
<1>5. m_devices' = [m_devices EXCEPT ![id] = e]
      /\ streams' = [streams EXCEPT ![id]["video"] = st]
  BY <1>1, <1>3
<1>6. /\ e \in Agreeing /\ e.mode = d.mode /\ e.inForce = d.inForce /\ e.running = d.running
      /\ e.mirror = d.mirror
  <2>. HIDE DEF d
  <2>. QED  BY <1>3 DEF Agreeing, Objects
<1>. HIDE DEF st, d, e
<1>7. Says(e, "video", st, refused')  BY <1>1, <1>3, <1>6 DEF Says
<1>8. \A t \in Streams \ {"video"} :
        /\ t = "depth" => e.inForce["depth"] = d.inForce["depth"]
        /\ t = "video" => e.mirror = d.mirror
  BY <1>6
<1>9. refused' \in BOOLEAN /\ (refused => refused')  BY <1>1, <1>2
<1>10. e.mode["video"] = Mode("RGB", "MEDIUM")
       /\ \A t \in Streams : e.running[t] => d.running[t]
  BY <1>3, <1>6
<1>. QED
  BY <1>1, <1>2, <1>3, <1>5, <1>6, <1>7, <1>8, <1>9, <1>10, PlainStream DEF DriverFacts, st, d

-----------------------------------------------------------------------------
(* The driver's devices.                                                    *)

LEMMA InitializeStep ==
  ASSUME DriverFacts, Initialize
  PROVE  DriverFacts'
<1>1. /\ Callable /\ devices = <<>> /\ devices' = [id \in Ids |-> FALSE]
      /\ UNCHANGED <<m_devices, m_stop, client, changing, orphans, fate, streams, creating,
                     setting, building, frame, refused>>
      /\ (thread' = thread /\ at' = at) \/ thread' = "walking"
  BY DEF Initialize, Probed
<1>2. StateFacts /\ ThreadFacts  BY DEF DriverFacts
<1>3. \A id \in Ids : ~Open(id) /\ ~Open(id)'  BY <1>1, NothingOpen DEF Open
<1>4. \A id \in Ids : DeviceFacts(id)'
  BY <1>1, <1>2, <1>3 DEF StateFacts, DeviceFacts
<1>5. creating = NoStream /\ setting = Nothing /\ changing = Nothing
  BY <1>2, <1>3, NothingUnderWay
<1>6. Entries'  BY <1>1, <1>2, EntriesKept DEF StateFacts
<1>7. StateFacts'  BY <1>1, <1>2, <1>4, <1>5, <1>6 DEF StateFacts, Callable
<1>8. ThreadTypes'  BY <1>1, <1>2 DEF ThreadFacts, ThreadTypes
<1>9. ThreadFacts'  BY <1>1, <1>2, <1>8, ThreadKept DEF Callable
<1>. QED  BY <1>7, <1>9 DEF DriverFacts

LEMMA CloseAllStep ==
  ASSUME DriverFacts, CloseAll
  PROVE  DriverFacts'
<1>1. /\ Callable /\ creating = NoStream /\ setting = Nothing
      /\ \A id \in DOMAIN devices : ~Open(id)
      /\ devices' = <<>> /\ client' = "deleting" /\ m_stop' = TRUE
      /\ UNCHANGED <<m_devices, thread, at, changing, orphans, fate, streams, creating, setting,
                     building, frame, refused>>
  BY DEF CloseAll, Destroy
<1>2. StateFacts /\ ThreadFacts  BY DEF DriverFacts
<1>3. \A id \in Ids : ~Open(id)  BY <1>1 DEF Open
<1>4. \A id \in Ids : ~Open(id)'
  <2>1. DOMAIN <<>> = {}  OBVIOUS
  <2>. QED  BY <1>1, <2>1 DEF Open
<1>5. \A id \in Ids : DeviceFacts(id)'
  BY <1>1, <1>2, <1>3, <1>4 DEF StateFacts, DeviceFacts
<1>6. changing = Nothing /\ m_devices \in [Ids -> {None} \cup Agreeing]
  BY <1>1, <1>2, SettledMap DEF Callable
<1>7. Entries'  BY <1>1, <1>6, AgreeingMap
<1>8. StateFacts'  BY <1>1, <1>2, <1>5, <1>6, <1>7 DEF StateFacts
<1>9. ThreadTypes'  BY <1>1, <1>2 DEF ThreadFacts, ThreadTypes
<1>10. ThreadFacts'  BY <1>1, <1>2, <1>9, ThreadKept DEF Callable
<1>. QED  BY <1>8, <1>10 DEF DriverFacts

\* While ~Freenect() runs every device is closed, and no call is under way.
LEMMA ClosingDown ==
  ASSUME StateFacts, client # "idle", client' # "idle",
         UNCHANGED <<m_devices, changing, driver>>
  PROVE  StateFacts'
<1>1. devices = <<>>  BY DEF StateFacts
<1>2. creating = NoStream /\ setting = Nothing /\ changing = Nothing
  BY <1>1, NothingOpen, NothingUnderWay
<1>3. Entries'  BY <1>2, SettledMap, AgreeingMap
<1>. QED
  BY <1>1, <1>2, <1>3 DEF StateFacts, DeviceFacts, Created, Setting, Says, Open, driver

\* When ~Freenect() runs the driver has closed every device.
LEMMA DeleteNextStep ==
  ASSUME DriverFacts, DeleteNext, UNCHANGED driver
  PROVE  DriverFacts'
<1>1. StateFacts /\ ThreadFacts  BY DEF DriverFacts
<1>2. fate = "alive" /\ client = "deleting"  BY DEF DeleteNext
<1>3. devices = <<>>  BY <1>1, <1>2 DEF StateFacts
<1>4. \A id \in Ids : m_devices[id] = None  BY <1>1, <1>3, NothingOpen
      DEF StateFacts, DeviceFacts
<1>5. /\ client' = "joining"
      /\ UNCHANGED <<m_devices, m_stop, thread, at, changing, orphans, fate>>
  <2>1. None # Dangling  BY DEF None, Dangling
  <2>2. \A id \in Ids : ~Delete(id)  BY <1>4, <2>1 DEF Delete, Alive
  <2>. QED  BY <2>2 DEF DeleteNext
<1>6. StateFacts'  BY <1>1, <1>2, <1>5, ClosingDown
<1>7. ThreadTypes'  BY <1>1, <1>2, <1>5 DEF ThreadFacts, ThreadTypes
<1>8. ThreadFacts'  BY <1>1, <1>2, <1>5, <1>7, ThreadKept DEF driver
<1>. QED  BY <1>6, <1>8 DEF DriverFacts

LEMMA ThreadStep ==
  ASSUME DriverFacts, Join \/ EventsHandled \/ Walk \/ EventError, UNCHANGED driver
  PROVE  DriverFacts'
<1>1. StateFacts /\ ThreadFacts  BY DEF DriverFacts
<1>2. /\ fate = "alive" /\ UNCHANGED <<m_devices, m_stop, changing, orphans>>
      /\ fate' \in {"alive", "crashed", "terminated"}
      /\ thread' \in {"waiting", "walking", "ended"}
  BY <1>1 DEF Join, EventsHandled, Walk, EventError, LoopTest, Touch
<1>3. StateFacts'
  <2>1. CASE Join
    <3>1. client # "idle" /\ client' # "idle"  BY <2>1 DEF Join
    <3>. QED  BY <1>1, <1>2, <3>1, ClosingDown
  <2>2. CASE EventsHandled \/ Walk \/ EventError
    <3>1. client' = client  BY <2>2 DEF EventsHandled, Walk, EventError
    <3>. QED  BY <1>1, <1>2, <3>1, StateKept DEF driver
  <2>. QED  BY <2>1, <2>2
<1>4. client' \in {"idle", "deleting", "joining", "closed"}
  BY <1>1 DEF Join, EventsHandled, Walk, EventError, ThreadFacts, ThreadTypes
<1>5. ThreadTypes'  BY <1>1, <1>2, <1>4 DEF ThreadFacts, ThreadTypes
<1>6. ThreadFacts'  BY <1>1, <1>2, <1>5, ThreadKept DEF driver
<1>. QED  BY <1>3, <1>6 DEF DriverFacts

LEMMA DeviceOpenStep ==
  ASSUME DriverFacts, NEW id \in Ids, DeviceOpen(id)
  PROVE  DriverFacts'
<1>1. /\ Callable /\ creating = NoStream /\ setting = Nothing /\ changing = Nothing
      /\ id \in DOMAIN devices /\ ~Open(id) /\ CreateDevice(id)
      /\ devices' = [devices EXCEPT ![id] = Alive(m_devices'[id])]
      /\ UNCHANGED <<streams, creating, setting, building, frame, refused>>
  BY DEF DeviceOpen, Ready, Callable
<1>2. StateFacts /\ ThreadFacts  BY DEF DriverFacts
<1>3. m_devices[id] = None /\ m_devices \in [Ids -> {None} \cup Agreeing]
      /\ devices \in {<<>>} \cup [Ids -> BOOLEAN]
  BY <1>1, <1>2, SettledMap DEF StateFacts, DeviceFacts
<1>4. devices \in [Ids -> BOOLEAN]
  <2>1. DOMAIN <<>> = {}  OBVIOUS
  <2>. QED  BY <1>1, <1>3, <2>1
<1>5. /\ UNCHANGED <<m_stop, thread, at, client, changing, orphans, fate>>
      /\ \/ \E g \in Garbage : m_devices' = [m_devices EXCEPT ![id] = NewDevice(g)]
         \/ m_devices' = [m_devices EXCEPT ![id] = IF @ = None THEN None ELSE Dangling]
  <2>1. None # Dangling  BY DEF None, Dangling
  <2>. QED  BY <1>1, <1>3, <2>1 DEF CreateDevice, Constructed, Alive
<1>6. PICK d : /\ m_devices' = [m_devices EXCEPT ![id] = d]
               /\ d = None \/ /\ d \in Agreeing /\ d.mode = Default
                              /\ \A s \in Streams : ~d.running[s]
  <2>1. CASE \E g \in Garbage : m_devices' = [m_devices EXCEPT ![id] = NewDevice(g)]
    BY <2>1, NewDeviceFacts
  <2>2. CASE m_devices' = [m_devices EXCEPT ![id] = IF @ = None THEN None ELSE Dangling]
    BY <1>3, <2>2
  <2>. QED  BY <1>5, <2>1, <2>2
<1>7. /\ m_devices'[id] = d /\ (\A i \in Ids \ {id} : m_devices'[i] = m_devices[i])
      /\ m_devices' \in [Ids -> {None} \cup Agreeing]
  BY <1>3, <1>6
<1>8. Alive(d) <=> d # None
  BY <1>6, ObjectIsAlive DEF Alive, Agreeing, None, Dangling
<1>9. /\ devices' \in [Ids -> BOOLEAN] /\ (Open(id)' <=> d # None)
      /\ \A i \in Ids \ {id} : Open(i)' <=> Open(i)
  <2>1. devices' = [devices EXCEPT ![id] = Alive(d)]  BY <1>1, <1>7
  <2>2. Alive(d) \in BOOLEAN  BY DEF Alive
  <2>3. devices' \in [Ids -> BOOLEAN]  BY <1>4, <2>1, <2>2
  <2>4. devices'[id] = Alive(d) /\ \A i \in Ids \ {id} : devices'[i] = devices[i]
    BY <1>4, <2>1
  <2>. QED  BY <1>4, <1>8, <2>3, <2>4 DEF Open
<1>10. ASSUME NEW i \in Ids  PROVE DeviceFacts(i)'
  <2>0. DeviceFacts(i)  BY <1>2 DEF StateFacts
  <2>1. CASE i # id
    BY <1>1, <1>7, <1>9, <2>0, <2>1 DEF DeviceFacts, Says
  <2>2. CASE i = id
    <3>1. \A s \in Streams : streams'[id][s] = NoStream
      BY <1>1, <2>0, <2>2 DEF DeviceFacts
    <3>2. d # None => d.mode["video"] = Mode("RGB", "MEDIUM")  BY <1>6 DEF Default
    <3>. QED  BY <1>6, <1>7, <1>9, <2>2, <3>1, <3>2 DEF DeviceFacts
  <2>. QED  BY <2>1, <2>2
<1>11. StateFacts'
  <2>1. Entries' /\ m_devices' \in [Ids -> {None} \cup Half]  BY <1>1, <1>5, <1>7, AgreeingMap
  <2>. QED  BY <1>1, <1>2, <1>5, <1>9, <1>10, <2>1 DEF StateFacts, Callable
<1>12. ThreadTypes'  BY <1>2, <1>5 DEF ThreadFacts, ThreadTypes
<1>13. ThreadFacts'
  <2>1. thread' = thread /\ at' = at  BY <1>5
  <2>2. \A i \in Ids, s \in Streams : m_devices[i] # None /\ streams[i][s] # NoStream =>
                                         m_devices'[i] # None /\ streams'[i][s] # NoStream
    BY <1>1, <1>3, <1>7
  <2>3. fate = "alive" /\ fate' = "alive"  BY <1>1, <1>5 DEF Callable
  <2>. QED  BY <1>1, <1>2, <1>12, <2>1, <2>2, <2>3, ThreadKept
<1>. QED  BY <1>11, <1>13 DEF DriverFacts

LEMMA DeviceCloseStep ==
  ASSUME DriverFacts, NEW id \in Ids, DeviceClose(id)
  PROVE  DriverFacts'
<1>1. /\ Callable /\ creating = NoStream /\ setting = Nothing /\ changing = Nothing
      /\ Open(id) /\ (\A s \in Streams : ~InCallback(id, s))
      /\ UNCHANGED <<creating, setting, building, frame, refused>>
  BY DEF DeviceClose, Ready, Callable
<1>2. StateFacts /\ ThreadFacts  BY DEF DriverFacts
<1>3. CASE \E s \in Streams : Stuck(id, s)
  <2>1. /\ fate' = "terminated"
        /\ UNCHANGED <<m_devices, m_stop, thread, at, client, changing, orphans, devices,
           streams>>
    BY <1>3 DEF DeviceClose
  <2>2. StateFacts'  BY <1>1, <1>2, <2>1, StateKept
  <2>3. ThreadTypes'  BY <1>2, <2>1 DEF ThreadFacts, ThreadTypes
  <2>4. ThreadFacts'  BY <1>1, <1>2, <2>1, <2>3, ThreadKept DEF Callable
  <2>. QED  BY <2>2, <2>4 DEF DriverFacts
<1>4. CASE ~\E s \in Streams : Stuck(id, s)
  <2>1. /\ Close(id, Stopped(id)) /\ m_devices' = [m_devices EXCEPT ![id] = None]
        /\ devices' = [devices EXCEPT ![id] = FALSE] /\ streams' = Gone(id)
    BY <1>4 DEF DeviceClose
  <2>2. devices \in [Ids -> BOOLEAN]  BY <1>1, <1>2, OpenDevice
  <2>3. /\ UNCHANGED <<m_stop, thread, client, changing, fate>>
        /\ at' = IF at # Nothing /\ at[1] = id THEN Freed ELSE at
        /\ orphans' = (orphans \/ \A s \in Streams : Stopped(id).running[s])
    BY <2>1 DEF Close
  <2>4. /\ m_devices \in [Ids -> {None} \cup Agreeing]
        /\ streams \in [Ids -> [Streams -> {NoStream} \cup StreamObjects]]
    BY <1>1, <1>2, SettledMap DEF StateFacts
  <2>5. /\ m_devices'[id] = None /\ (\A i \in Ids \ {id} : m_devices'[i] = m_devices[i])
        /\ m_devices' \in [Ids -> {None} \cup Agreeing]
    BY <2>1, <2>4
  <2>6. /\ \A s \in Streams : streams'[id][s] = NoStream
        /\ \A i \in Ids \ {id} : streams'[i] = streams[i]
        /\ streams' \in [Ids -> [Streams -> {NoStream} \cup StreamObjects]]
    BY <2>1, <2>4 DEF Gone
  <2>7. /\ devices' \in [Ids -> BOOLEAN] /\ ~Open(id)'
        /\ \A i \in Ids \ {id} : Open(i)' <=> Open(i)
    BY <2>1, <2>2 DEF Open
  <2>8. ASSUME NEW i \in Ids  PROVE DeviceFacts(i)'
    <3>1. DeviceFacts(i)  BY <1>2 DEF StateFacts
    <3>2. CASE i # id  BY <1>1, <2>5, <2>6, <2>7, <3>1, <3>2 DEF DeviceFacts, Says
    <3>3. CASE i = id  BY <2>5, <2>6, <2>7, <3>3 DEF DeviceFacts
    <3>. QED  BY <3>2, <3>3
  <2>9. StateFacts'
    <3>1. Entries' /\ m_devices' \in [Ids -> {None} \cup Half]  BY <1>1, <2>3, <2>5, AgreeingMap
    <3>. QED  BY <1>1, <1>2, <2>3, <2>6, <2>7, <2>8, <3>1 DEF StateFacts, Callable
  <2>10. ThreadTypes'  BY <1>2, <2>3 DEF ThreadFacts, ThreadTypes
  <2>11. ThreadFacts'
    <3>1. thread' # "callback" \/ (thread' = thread /\ at' = at /\ thread = "callback")
      <4>1. SUFFICES ASSUME thread = "callback"  PROVE at' = at  BY <2>3
      <4>2. PICK i \in Ids, s \in Streams : at = <<i, s>>  BY <1>2, <4>1 DEF ThreadFacts
      <4>3. i # id  BY <1>1, <4>1, <4>2 DEF InCallback
      <4>. QED  BY <2>3, <4>2, <4>3
    <3>2. ASSUME thread = "callback", NEW i \in Ids, NEW s \in Streams, at = <<i, s>>,
                 m_devices[i] # None, streams[i][s] # NoStream
          PROVE  m_devices'[i] # None /\ streams'[i][s] # NoStream
      <4>1. i # id  BY <1>1, <3>2 DEF InCallback
      <4>. QED  BY <2>5, <2>6, <3>2, <4>1
    <3>3. fate = "alive" /\ fate' = "alive"  BY <1>1, <2>3 DEF Callable
    <3>. QED  BY <1>1, <1>2, <2>10, <3>1, <3>2, <3>3, ThreadKept
  <2>. QED  BY <2>9, <2>11 DEF DriverFacts
<1>. QED  BY <1>3, <1>4

LEMMA TryDeviceStep ==
  ASSUME DriverFacts, NEW id \in Ids, TryDevice(id)
  PROVE  DriverFacts'
<1>1. CASE DeviceClose(id)
  BY <1>1, DeviceCloseStep
<1>2. CASE /\ Ready(id) /\ ~Open(id) /\ Probed
           /\ UNCHANGED <<m_devices, m_stop, client, changing, orphans, fate, driver>>
  <2>1. StateFacts /\ ThreadFacts  BY DEF DriverFacts
  <2>2. fate = "alive" /\ ((thread' = thread /\ at' = at) \/ thread' = "walking")
    BY <1>2 DEF Ready, Callable, Probed
  <2>3. StateFacts'  BY <1>2, <2>1, StateKept DEF driver
  <2>4. ThreadTypes'  BY <1>2, <2>1, <2>2 DEF ThreadFacts, ThreadTypes
  <2>5. ThreadFacts'  BY <1>2, <2>1, <2>2, <2>4, ThreadKept DEF driver
  <2>. QED  BY <2>3, <2>5 DEF DriverFacts
<1>. QED  BY <1>1, <1>2 DEF TryDevice

-----------------------------------------------------------------------------
(* The driver's streams.                                                    *)

\* createStream() up to the constructor's return: the camera's stream may run,
\* and callbacks come, before the object is stored.
LEMMA CreateStreamStep ==
  ASSUME DriverFacts, NEW id \in Ids, NEW s \in Streams, NEW works \in BOOLEAN,
         CreateStream(id, s, works)
  PROVE  DriverFacts'
<1> DEFINE d == m_devices[id]
           set == SetVideoMode(NewStream(s), d, s, Supported[s], TRUE)
           kept == Remembered(set.dev, s, set.dev.inForce[s])
           begun == Start(kept, s, works)
           built == [mode |-> "built", id |-> id, s |-> s, st |-> set.st]
<1>1. /\ Callable /\ creating = NoStream /\ setting = Nothing /\ changing = Nothing
      /\ Open(id) /\ streams[id][s] = NoStream
      /\ m_devices' = [m_devices EXCEPT ![id] = begun.dev]
      /\ creating' = (IF begun.threw THEN NoStream ELSE built)
      /\ UNCHANGED <<m_stop, thread, at, client, changing, setting, orphans, fate, devices,
                     streams, building, frame, refused>>
  BY DEF CreateStream, Ready, Callable
<1>2. StateFacts /\ ThreadFacts  BY DEF DriverFacts
<1>3. d \in Agreeing /\ d.mode["video"] = Mode("RGB", "MEDIUM")  BY <1>1, <1>2, OpenDevice
<1>4. /\ NewStream(s) \in StreamObjects /\ FullArea(NewStream(s).mode) /\ ~NewStream(s).mirror
      /\ Supported[s] \in OniModes /\ Matches(Supported[s], Supported[s])
  BY NewStreamFacts
<1>5. /\ set.st \in StreamObjects /\ set.dev \in Half /\ FullArea(set.st.mode)
      /\ ~set.st.mirror /\ (s = "video" => set.dev = d)
      /\ set.dev.mirror = d.mirror /\ set.dev.mode = d.mode
      /\ \A t \in Streams : set.dev.running[t] => d.running[t]
      /\ s = "depth" => (set.st.registered <=> set.dev.inForce["depth"].format = "REGISTERED")
  <2> DEFINE n == NewStream(s)
             m == Supported[s]
             yes == TRUE
             r == SetVideoMode(n, d, s, m, yes)
  <2>1. yes \in BOOLEAN  OBVIOUS
  <2>. HIDE DEF d, n, m, yes
  <2>2. n \in StreamObjects /\ m \in OniModes /\ FullArea(n.mode) /\ ~n.mirror /\ Matches(m,
        Supported[s])
    BY <1>4 DEF n, m
  <2>3. /\ r.st \in StreamObjects /\ r.dev \in Half /\ r.st.mode = n.mode
        /\ r.st.mirror = n.mirror /\ (s = "video" => r.dev = d)
        /\ r.dev.mirror = d.mirror /\ r.dev.mode = d.mode
        /\ \A t \in Streams : r.dev.running[t] => d.running[t]
        /\ s = "depth" => (r.st.registered <=> r.dev.inForce["depth"].format = "REGISTERED")
    BY <1>3, <2>1, <2>2, SetVideoModeFacts
  <2>4. r = set  BY DEF n, m, yes
  <2>. HIDE DEF r, set
  <2>. QED  BY <2>2, <2>3, <2>4
<1>. HIDE DEF set, d
\* setVideoFormat() and setDepthFormat() have remembered the format.
<1>6a. /\ kept \in Agreeing /\ kept.inForce = set.dev.inForce /\ kept.running = set.dev.running
       /\ kept.mirror = set.dev.mirror /\ kept.mode["video"] = Mode("RGB", "MEDIUM")
  <2> DEFINE w == set.dev
  <2>1. w \in Half /\ w.mode = d.mode /\ (s = "video" => w = d)  BY <1>5
  <2>. HIDE DEF w
  <2>2. CASE s = "depth"
    <3>1. LET e == Remembered(w, "depth", w.inForce["depth"])
          IN  /\ e \in Agreeing /\ e.mode = w.inForce /\ e.inForce = w.inForce
              /\ e.running = w.running /\ e.mirror = w.mirror
      BY <2>1, HalfFacts
    <3>2. w.inForce["video"] = w.mode["video"]  BY <2>1 DEF Half
    <3>. QED  BY <1>3, <2>1, <2>2, <3>1, <3>2 DEF w
  <2>3. CASE s = "video"
    <3>1. Remembered(w, s, w.inForce[s]) = w
      <4>1. w \in Objects /\ w.mode = w.inForce  BY <1>3, <2>1, <2>3 DEF Agreeing
      <4>. QED  BY <4>1 DEF Objects, Remembered
    <3>. QED  BY <1>3, <2>1, <2>3, <3>1 DEF w
  <2>. QED  BY <2>2, <2>3 DEF Streams
<1>. HIDE DEF kept
<1>6. /\ begun.dev \in Agreeing /\ begun.threw \in BOOLEAN
      /\ begun.dev.mode = kept.mode /\ begun.dev.inForce = set.dev.inForce
      /\ ~begun.threw /\ s = "video" => ~begun.dev.mirror
      /\ s # "video" => begun.dev.mirror = set.dev.mirror
      /\ begun.threw => begun.dev = kept
      /\ \A t \in Streams : begun.dev.running[t] =>
           set.dev.running[t] \/ (t = s /\ ~begun.threw)
  <2>1. kept \in Objects /\ kept.mode = kept.inForce /\ kept.libBuffer = kept.buffer
    BY <1>6a DEF Agreeing
  <2>2. /\ begun.dev \in Objects /\ begun.threw \in BOOLEAN
        /\ begun.dev.mode = kept.mode /\ begun.dev.inForce = kept.inForce
        /\ begun.dev.buffer = kept.buffer /\ begun.dev.libBuffer = kept.libBuffer
        /\ begun.threw => begun.dev = kept
        /\ ~begun.threw /\ s = "video" => ~begun.dev.mirror
        /\ s # "video" => begun.dev.mirror = kept.mirror
        /\ \A t \in Streams : begun.dev.running[t] =>
             kept.running[t] \/ (t = s /\ ~begun.threw)
    BY <2>1, StartFacts
  <2>. HIDE DEF begun
  <2>3. begun.dev \in Agreeing  BY <2>1, <2>2 DEF Agreeing
  <2>. QED  BY <1>6a, <2>2, <2>3
<1>. HIDE DEF begun
<1> DEFINE e == begun.dev
<1>7. /\ m_devices \in [Ids -> {None} \cup Agreeing]
      /\ streams \in [Ids -> [Streams -> {NoStream} \cup StreamObjects]]
      /\ \A i \in Ids : DeviceFacts(i)
  BY <1>1, <1>2, SettledMap DEF StateFacts
<1>8. e # None  BY <1>6, ObjectIsAlive DEF Agreeing
<1>9. /\ m_devices'[id] = e /\ (\A i \in Ids \ {id} : m_devices'[i] = m_devices[i])
      /\ m_devices' \in [Ids -> {None} \cup Agreeing]
  BY <1>1, <1>6, <1>7
<1>10. \A i : Open(i)' <=> Open(i)  BY <1>1 DEF Open
<1>11. ~begun.threw => creating' = built /\ creating' # NoStream /\ creating'.id = id
       /\ creating'.s = s
  <2>1. built.mode # NoStream.mode /\ built.id = id /\ built.s = s  BY DEF NoStream
  <2>. HIDE DEF built
  <2>. QED  BY <1>1, <2>1
<1>. HIDE DEF built
<1>12. Says(e, s, set.st, refused) \/ begun.threw
  <2>1. e.inForce = set.dev.inForce  BY <1>6
  <2>2. s = "video" /\ ~begun.threw => ~e.mirror /\ ~set.st.mirror  BY <1>5, <1>6
  <2>. HIDE DEF e
  <2>. QED  BY <1>5, <2>1, <2>2 DEF Says
<1>13. e.mode["video"] = Mode("RGB", "MEDIUM")  BY <1>6, <1>6a
<1>14. \A t \in Streams \ {s} :
         /\ t = "depth" => e.inForce["depth"] = d.inForce["depth"]
         /\ t = "video" => e.mirror = d.mirror
  BY <1>5, <1>6 DEF Streams
<1>. HIDE DEF e
<1>15. ASSUME NEW i \in Ids  PROVE DeviceFacts(i)'
  <2>0. DeviceFacts(i)  BY <1>7
  <2>1. CASE i # id
    BY <1>1, <1>9, <1>10, <2>0, <2>1 DEF DeviceFacts, Says
  <2>2. CASE i = id
    <3>1. ASSUME NEW t \in Streams, streams[id][t] # NoStream
          PROVE  Says(e, t, streams[id][t], refused)
      <4>1. t # s /\ Says(d, t, streams[id][t], refused)
        BY <1>1, <2>0, <2>2, <3>1 DEF DeviceFacts, d
      <4>. QED  BY <1>14, <4>1 DEF Says
    <3>2. ASSUME NEW t \in Streams, streams[id][t] = NoStream, e.running[t]
          PROVE  creating' # NoStream /\ creating'.id = id /\ creating'.s = t
      <4>1. ~d.running[t]
        BY <1>1, <1>8, <2>0, <2>2, <3>2, <1>3, ObjectIsAlive DEF DeviceFacts, d, Agreeing
      <4>2. t = s /\ ~begun.threw  BY <1>5, <1>6, <3>2, <4>1 DEF e
      <4>. QED  BY <1>11, <4>2
    <3>. QED  BY <1>1, <1>8, <1>9, <1>10, <1>13, <2>0, <2>2, <3>1, <3>2 DEF DeviceFacts
  <2>. QED  BY <2>1, <2>2
<1>16. creating' # NoStream => Created'
  <2>1. SUFFICES ASSUME ~begun.threw  PROVE Created'  BY <1>1
  <2>2. creating' = [mode |-> "built", id |-> id, s |-> s, st |-> set.st]
    BY <1>11, <2>1 DEF built
  <2>3. Open(id)' /\ streams'[id][s] = NoStream /\ Says(m_devices'[id], s, set.st, refused')
    BY <1>1, <1>9, <1>10, <1>12, <2>1
  <2>. QED  BY <1>5, <2>2, <2>3 DEF Created
<1>17. StateFacts'
  <2>1. Entries' /\ m_devices' \in [Ids -> {None} \cup Half]  BY <1>1, <1>9, AgreeingMap
  <2>. QED  BY <1>1, <1>2, <1>15, <1>16, <2>1 DEF StateFacts
<1>18. ThreadFacts'
  <2>1. ThreadTypes'  BY <1>1, <1>2 DEF ThreadFacts, ThreadTypes
  <2>2. fate = "alive" /\ fate' # "no stream"  BY <1>1 DEF Callable
  <2>3. \A i \in Ids, t \in Streams : m_devices[i] # None /\ streams[i][t] # NoStream =>
                                        m_devices'[i] # None /\ streams'[i][t] # NoStream
    BY <1>1, <1>8, <1>9
  <2>. QED  BY <1>1, <1>2, <2>1, <2>2, <2>3, ThreadKept
<1>. QED  BY <1>17, <1>18 DEF DriverFacts

LEMMA StoreStreamStep ==
  ASSUME DriverFacts, StoreStream
  PROVE  DriverFacts'
<1>1. /\ Callable /\ creating # NoStream /\ creating' = NoStream
      /\ streams' = [streams EXCEPT ![creating.id][creating.s] = creating.st]
      /\ UNCHANGED <<m_devices, m_stop, thread, at, client, changing, setting, orphans, fate,
                     devices, building, frame, refused>>
  BY DEF StoreStream, cppVars
<1>2. StateFacts /\ ThreadFacts  BY DEF DriverFacts
<1>3. PICK id \in Ids, s \in Streams, st \in StreamObjects :
        /\ creating.id = id /\ creating.s = s /\ creating.st = st
        /\ Open(id) /\ streams[id][s] = NoStream /\ Says(m_devices[id], s, st, refused)
  BY <1>1, <1>2 DEF StateFacts, Created
<1>4. st # NoStream  BY StreamIsThere
<1>5. /\ streams \in [Ids -> [Streams -> {NoStream} \cup StreamObjects]]
      /\ \A i \in Ids : DeviceFacts(i)
  BY <1>2 DEF StateFacts
<1>6. streams' = [streams EXCEPT ![id][s] = st]  BY <1>1, <1>3
<1>7. /\ streams' \in [Ids -> [Streams -> {NoStream} \cup StreamObjects]]
      /\ streams'[id][s] = st
      /\ \A i \in Ids, t \in Streams : i # id \/ t # s => streams'[i][t] = streams[i][t]
  BY <1>5, <1>6
<1>8. \A i : Open(i)' <=> Open(i)  BY <1>1 DEF Open
<1>9. ASSUME NEW i \in Ids, NEW t \in Streams
      PROVE  /\ streams'[i][t] # NoStream =>
                  Open(i)' /\ Says(m_devices[i], t, streams'[i][t], refused)
             /\ m_devices[i] # None /\ streams'[i][t] = NoStream => ~m_devices[i].running[t]
  <2>1. CASE i = id /\ t = s  BY <1>3, <1>4, <1>7, <1>8, <2>1
  <2>2. CASE i # id \/ t # s
    <3>1. streams'[i][t] = streams[i][t] /\ DeviceFacts(i)  BY <1>5, <1>7, <2>2
    <3>. QED  BY <1>3, <1>8, <2>2, <3>1 DEF DeviceFacts
  <2>. QED  BY <2>1, <2>2
<1>10. \A i \in Ids : DeviceFacts(i)'
  BY <1>1, <1>5, <1>8, <1>9 DEF DeviceFacts
<1>11. StateFacts'
  <2>1. setting = Nothing /\ setting' = Nothing /\ changing' = Nothing
    BY <1>1, <1>2 DEF StateFacts, Callable
  <2>2. Entries'  BY <1>1, <1>2, EntriesKept DEF StateFacts
  <2>. QED  BY <1>1, <1>2, <1>7, <1>10, <2>1, <2>2 DEF StateFacts
<1>12. ThreadFacts'
  <2>1. ThreadTypes'  BY <1>1, <1>2 DEF ThreadFacts, ThreadTypes
  <2>2. fate = "alive" /\ fate' # "no stream"  BY <1>1 DEF Callable
  <2>3. \A i \in Ids, t \in Streams : m_devices[i] # None /\ streams[i][t] # NoStream =>
                                        m_devices'[i] # None /\ streams'[i][t] # NoStream
    BY <1>1, <1>4, <1>7
  <2>. QED  BY <1>1, <1>2, <2>1, <2>2, <2>3, ThreadKept
<1>. QED  BY <1>11, <1>12 DEF DriverFacts

LEMMA DestroyStreamStep ==
  ASSUME DriverFacts, NEW id \in Ids, NEW s \in Streams, DestroyStream(id, s)
  PROVE  DriverFacts'
<1> DEFINE d == m_devices[id]
           e == Stop(d, s).dev
<1>1. /\ Callable /\ creating = NoStream /\ setting = Nothing /\ changing = Nothing
      /\ Open(id) /\ d.running[s] /\ ~InCallback(id, s)
      /\ streams' = [streams EXCEPT ![id][s] = NoStream]
      /\ m_devices' = [m_devices EXCEPT ![id] = e]
      /\ UNCHANGED <<m_stop, thread, at, client, changing, setting, orphans, fate, devices,
                     creating, building, frame, refused>>
  BY DEF DestroyStream, Ready, Stuck, StopStream, Callable
<1>2. StateFacts /\ ThreadFacts  BY DEF DriverFacts
<1>3. d \in Agreeing /\ d \in Objects /\ d.mode["video"] = Mode("RGB", "MEDIUM")
      /\ d.mode = d.inForce
  BY <1>1, <1>2, OpenDevice
<1>. HIDE DEF d
<1>4. /\ e \in Agreeing /\ e.mode = d.mode /\ e.inForce = d.inForce /\ e.mirror = d.mirror
      /\ \A t \in Streams : e.running[t] => d.running[t] /\ t # s
  <2>1. d.libBuffer = d.buffer  BY <1>3 DEF Agreeing
  <2>2. /\ e \in Objects /\ e.mode = d.mode /\ e.inForce = d.inForce
        /\ e.buffer = d.buffer /\ e.libBuffer = d.libBuffer /\ e.mirror = d.mirror
        /\ \A t \in Streams : e.running[t] => d.running[t] /\ t # s
    BY <1>3, StopFacts
  <2>. QED  BY <1>3, <2>1, <2>2 DEF Agreeing
<1>. HIDE DEF e
<1>5. e # None /\ d # None  BY <1>3, <1>4, ObjectIsAlive DEF Agreeing
<1>6. /\ m_devices \in [Ids -> {None} \cup Agreeing]
      /\ streams \in [Ids -> [Streams -> {NoStream} \cup StreamObjects]]
      /\ \A i \in Ids : DeviceFacts(i)
  BY <1>1, <1>2, SettledMap DEF StateFacts
<1>7. /\ m_devices'[id] = e /\ (\A i \in Ids \ {id} : m_devices'[i] = m_devices[i])
      /\ m_devices' \in [Ids -> {None} \cup Agreeing]
  BY <1>1, <1>4, <1>6
<1>8. /\ streams' \in [Ids -> [Streams -> {NoStream} \cup StreamObjects]]
      /\ streams'[id][s] = NoStream
      /\ \A i \in Ids, t \in Streams : i # id \/ t # s => streams'[i][t] = streams[i][t]
  BY <1>1, <1>6
<1>9. \A i : Open(i)' <=> Open(i)  BY <1>1 DEF Open
<1>10. ASSUME NEW i \in Ids  PROVE DeviceFacts(i)'
  <2>0. DeviceFacts(i)  BY <1>6
  <2>1. CASE i # id
    <3>1. \A t \in Streams : streams'[i][t] = streams[i][t]  BY <1>8, <2>1
    <3>. QED  BY <1>1, <1>7, <1>9, <2>0, <2>1, <3>1 DEF DeviceFacts
  <2>2. CASE i = id
    <3>1. ASSUME NEW t \in Streams, streams'[id][t] # NoStream
          PROVE  Says(e, t, streams'[id][t], refused)
      <4>1. t # s /\ streams'[id][t] = streams[id][t]  BY <1>8, <3>1
      <4>2. Says(d, t, streams[id][t], refused)  BY <2>0, <2>2, <3>1, <4>1 DEF DeviceFacts, d
      <4>. QED  BY <1>4, <4>1, <4>2 DEF Says
    <3>2. ASSUME NEW t \in Streams, streams'[id][t] = NoStream  PROVE ~e.running[t]
      <4>1. CASE t = s  BY <1>4, <4>1
      <4>2. CASE t # s
        <5>1. streams[id][t] = NoStream  BY <1>8, <3>2, <4>2
        <5>. QED  BY <1>1, <1>4, <1>5, <2>0, <2>2, <5>1 DEF DeviceFacts, d
      <4>. QED  BY <4>1, <4>2
    <3>. QED  BY <1>1, <1>3, <1>4, <1>5, <1>7, <1>9, <2>2, <3>1, <3>2 DEF DeviceFacts
  <2>. QED  BY <2>1, <2>2
<1>11. StateFacts'
  <2>1. Entries' /\ m_devices' \in [Ids -> {None} \cup Half]  BY <1>1, <1>7, AgreeingMap
  <2>. QED  BY <1>1, <1>2, <1>8, <1>10, <2>1 DEF StateFacts
<1>12. ThreadFacts'
  <2>1. ThreadTypes'  BY <1>1, <1>2 DEF ThreadFacts, ThreadTypes
  <2>2. fate = "alive" /\ fate' # "no stream"  BY <1>1 DEF Callable
  <2>3. ASSUME thread = "callback", NEW i \in Ids, NEW t \in Streams, at = <<i, t>>,
               m_devices[i] # None, streams[i][t] # NoStream
        PROVE  m_devices'[i] # None /\ streams'[i][t] # NoStream
    <3>1. i # id \/ t # s  BY <1>1, <2>3 DEF InCallback
    <3>. QED  BY <1>5, <1>7, <1>8, <2>3, <3>1
  <2>. QED  BY <1>1, <1>2, <2>1, <2>2, <2>3, ThreadKept
<1>. QED  BY <1>11, <1>12 DEF DriverFacts

-----------------------------------------------------------------------------
(* The driver's frames.                                                     *)

\* A callback that finds a running stream counts its time on by dt.
LEMMA BuildFacts ==
  ASSUME DriverFacts, NEW id \in Ids, NEW s \in Streams, NEW dt \in Elapsed, Build(id, s, dt),
         streams[id][s] # NoStream, streams[id][s].running
  PROVE  LET st == streams[id][s] IN
         /\ st \in StreamObjects /\ dt % Wrap \in Nat /\ st.prev + (dt % Wrap) <= MaxStamp
         /\ streams' = [streams EXCEPT ![id][s].prev = st.prev + (dt % Wrap)]
         /\ building' = [stream |-> s, mode |-> st.mode, elapsed |-> dt]
<1> DEFINE st == streams[id][s]
           stamp == Stamp(st.prev, (st.prev + dt) % Wrap)
<1>1. st \in StreamObjects  BY DEF DriverFacts, StateFacts
<1>2. st.prev \in Nat /\ dt \in Nat  BY <1>1, OniAssumption DEF StreamObjects
<1>3. stamp = st.prev + (dt % Wrap) /\ dt % Wrap \in Nat
  <2>. HIDE DEF st
  <2>1. stamp = st.prev + (dt % Wrap) /\ dt % Wrap \in 0 .. Wrap - 1  BY <1>2, StampGoesOn
  <2>. QED  BY <2>1
<1>4. /\ stamp <= MaxStamp /\ streams' = [streams EXCEPT ![id][s].prev = stamp]
      /\ building' = [stream |-> s, mode |-> st.mode, elapsed |-> dt]
  BY DEF Build
<1>. HIDE DEF stamp
<1>. QED  BY <1>1, <1>3, <1>4

LEMMA BuildStep ==
  ASSUME DriverFacts, NEW id \in Ids, NEW s \in Streams, NEW dt \in Elapsed, Build(id, s, dt)
  PROVE  DriverFacts'
<1> DEFINE st == streams[id][s]
<1>1. /\ fate = "alive" /\ thread' = "callback" /\ at' = <<id, s>>
      /\ Alive(m_devices[id]) /\ m_devices[id].running[s] /\ frame' = NoFrame
      /\ UNCHANGED <<m_devices, m_stop, client, changing, orphans, devices, creating, setting,
                     refused>>
  BY DEF Build, Callback
<1>2. StateFacts /\ ThreadFacts  BY DEF DriverFacts
<1>3. m_devices[id] # None /\ DeviceFacts(id)  BY <1>1, <1>2 DEF Alive, StateFacts
<1>4. CASE st = NoStream
  <2>1. fate' = "no stream" /\ UNCHANGED <<streams, building>>  BY <1>4 DEF Build
  <2>2. creating # NoStream /\ creating.id = id /\ creating.s = s
    BY <1>1, <1>3, <1>4 DEF DeviceFacts
  <2>3. StateFacts'  BY <1>1, <1>2, <2>1, StateKept
  <2>4. ThreadFacts'
    BY <1>1, <1>2, <1>3, <2>1, <2>2 DEF ThreadFacts, ThreadTypes
  <2>. QED  BY <2>3, <2>4 DEF DriverFacts
<1>5. CASE st # NoStream /\ ~st.running
  <2>1. fate' = fate /\ UNCHANGED <<streams, building>>  BY <1>5 DEF Build
  <2>2. StateFacts'  BY <1>1, <1>2, <2>1, StateKept
  <2>3. streams'[id][s] # NoStream /\ m_devices'[id] # None  BY <1>1, <1>3, <1>5, <2>1
  <2>4. ThreadFacts'
    BY <1>1, <1>2, <2>1, <2>3 DEF ThreadFacts, ThreadTypes
  <2>. QED  BY <2>2, <2>4 DEF DriverFacts
<1>6. CASE st # NoStream /\ st.running
  <2> DEFINE ticks == dt % Wrap
             new == [st EXCEPT !.prev = st.prev + ticks]
  <2>1. /\ st \in StreamObjects /\ ticks \in Nat /\ st.prev + ticks <= MaxStamp
        /\ streams' = [streams EXCEPT ![id][s].prev = st.prev + ticks]
        /\ building' = [stream |-> s, mode |-> st.mode, elapsed |-> dt]
    BY <1>6, BuildFacts
  <2>2. fate' = fate  BY <1>6 DEF Build
  <2>3. streams \in [Ids -> [Streams -> {NoStream} \cup StreamObjects]]  BY <1>2 DEF StateFacts
  <2>4. streams' = [streams EXCEPT ![id][s] = new]  BY <2>1, <2>3
  <2>5. /\ new \in StreamObjects /\ new.mode = st.mode /\ new.mirror = st.mirror
        /\ new.registered = st.registered
    <3>. HIDE DEF ticks
    <3>1. st.prev \in Nat /\ MaxStamp \in Nat
      BY <2>1, OniAssumption DEF StreamObjects
    <3>. QED  BY <2>1, <3>1 DEF StreamObjects
  <2>. HIDE DEF new, st, ticks
  <2>6. /\ streams' \in [Ids -> [Streams -> {NoStream} \cup StreamObjects]]
        /\ streams'[id][s] = new /\ new # NoStream
        /\ \A i \in Ids, t \in Streams : i # id \/ t # s => streams'[i][t] = streams[i][t]
    BY <2>3, <2>4, <2>5, StreamIsThere
  <2>7. \A d, t : Says(d, t, st, refused) => Says(d, t, new, refused)  BY <2>5 DEF Says
  <2>8. \A i \in Ids, t \in Streams :
          /\ streams'[i][t] = NoStream <=> streams[i][t] = NoStream
          /\ Says(m_devices[i], t, streams[i][t], refused) =>
               Says(m_devices[i], t, streams'[i][t], refused)
    <3>1. ASSUME NEW i \in Ids, NEW t \in Streams
          PROVE  /\ streams'[i][t] = NoStream <=> streams[i][t] = NoStream
                 /\ Says(m_devices[i], t, streams[i][t], refused) =>
                      Says(m_devices[i], t, streams'[i][t], refused)
      <4>1. CASE i = id /\ t = s  BY <1>6, <2>6, <2>7, <4>1 DEF st
      <4>2. CASE i # id \/ t # s  BY <2>6, <4>2
      <4>. QED  BY <4>1, <4>2
    <3>. QED  BY <3>1
  <2>9. \A i : Open(i)' <=> Open(i)  BY <1>1 DEF Open
  <2>10. ASSUME NEW i \in Ids  PROVE DeviceFacts(i)'
    <3>1. DeviceFacts(i)  BY <1>2 DEF StateFacts
    <3>. QED  BY <1>1, <2>8, <2>9, <3>1 DEF DeviceFacts
  <2>11. creating # NoStream => Created'
    <3>1. SUFFICES ASSUME creating # NoStream  PROVE Created'  OBVIOUS
    <3>2. PICK i \in Ids, t \in Streams, x \in StreamObjects :
            /\ creating = [mode |-> "built", id |-> i, s |-> t, st |-> x]
            /\ Open(i) /\ streams[i][t] = NoStream /\ Says(m_devices[i], t, x, refused)
      BY <1>2, <3>1 DEF StateFacts, Created
    <3>3. /\ creating' = [mode |-> "built", id |-> i, s |-> t, st |-> x]
          /\ Open(i)' /\ streams'[i][t] = NoStream /\ Says(m_devices'[i], t, x, refused')
      BY <1>1, <2>8, <2>9, <3>2
    <3>. QED  BY <3>3 DEF Created
  <2>12. StateFacts'
    <3>1. Entries'  BY <1>1, <1>2, EntriesKept DEF StateFacts
    <3>2. Setting => Setting'  BY <1>1, <2>8 DEF Setting
    <3>. QED  BY <1>1, <1>2, <2>6, <2>10, <2>11, <3>1, <3>2 DEF StateFacts
  <2>13. building' \in [stream : Streams, mode : OniModes, elapsed : Elapsed]
    BY <2>1 DEF StreamObjects
  <2>14. ThreadFacts'
    BY <1>1, <1>2, <1>3, <2>2, <2>6, <2>13 DEF ThreadFacts, ThreadTypes
  <2>. QED  BY <2>12, <2>14 DEF DriverFacts
<1>. QED  BY <1>4, <1>5, <1>6

LEMMA PopulateStep ==
  ASSUME DriverFacts, Populate
  PROVE  DriverFacts'
<1>1. /\ fate = "alive" /\ thread = "callback" /\ thread' = "waiting" /\ building' = NoFrame
      /\ UNCHANGED <<m_devices, m_stop, client, changing, orphans, devices, streams, creating,
                     setting, refused>>
      /\ fate' \in {"alive", "crashed"}
  BY DEF Populate, CallbackReturns, Touch
<1>2. StateFacts /\ ThreadFacts  BY DEF DriverFacts
<1>3. StateFacts'  BY <1>1, <1>2, StateKept
<1>4. PICK id \in Ids, s \in Streams : at = <<id, s>> /\ streams[id][s] # NoStream
  BY <1>1, <1>2 DEF ThreadFacts
<1> DEFINE st == streams[id][s]
           crop == IF st.crop.enabled /\ building.stream = "depth" THEN st.crop
                   ELSE [Whole EXCEPT !.w = building.mode.x, !.h = building.mode.y]
<1>5. st \in StreamObjects /\ FullArea(st.mode)  BY <1>2, <1>4 DEF StateFacts, DeviceFacts, Says
<1>6. frame' \in {NoFrame} \cup Frames
  <2>1. CASE building = NoFrame
    BY <1>2, <2>1 DEF Populate, ThreadFacts
  <2>2. CASE building # NoFrame
    <3>1. building \in [stream : Streams, mode : OniModes, elapsed : Elapsed]
      BY <1>2, <2>2 DEF ThreadFacts
    <3>2. frame' = [stream |-> building.stream, same |-> st.mode = building.mode,
                    crop |-> crop, line |-> st.mode.x, rows |-> st.mode.y,
                    mirror |-> st.mirror /\ building.stream = "depth"]
      BY <1>4, <2>2 DEF Populate
    <3>. HIDE DEF st
    <3>3. building.mode \in OniModes /\ building.stream \in Streams /\ st.mode \in OniModes
          /\ st.crop \in Crops
      BY <1>5, <3>1 DEF StreamObjects
    <3>4. /\ building.mode.x \in Nat /\ building.mode.y \in Nat
          /\ st.mode.x \in 0 .. Word - 1 /\ st.mode.y \in Nat
      BY <3>3, OniAssumption DEF OniModes
    <3>5. crop \in Crops
      BY <3>3, <3>4, OniAssumption DEF Whole, Crops
    <3>. HIDE DEF crop
    <3>6. st.mode.x * st.mode.y = X * Y  BY <1>5 DEF FullArea
    <3>. QED  BY <3>2, <3>3, <3>4, <3>5, <3>6 DEF Frames
  <2>. QED  BY <2>1, <2>2
<1>7. ThreadFacts'
  BY <1>1, <1>2, <1>6 DEF ThreadFacts, ThreadTypes
<1>. QED  BY <1>3, <1>7 DEF DriverFacts

-----------------------------------------------------------------------------
(* The theorems about the driver.                                           *)

LEMMA DriverStart ==
  ASSUME OniInit
  PROVE  DriverFacts
<1>1. /\ m_devices = [id \in Ids |-> None] /\ m_stop = FALSE /\ thread = "waiting"
      /\ client = "idle" /\ fate = "alive" /\ devices = <<>> /\ creating = NoStream
      /\ changing = Nothing /\ setting = Nothing /\ orphans = FALSE
      /\ building = NoFrame /\ frame = NoFrame /\ refused = FALSE
      /\ streams = [id \in Ids |-> [s \in Streams |-> NoStream]]
  BY DEF OniInit, CppInit
<1>2. \A id \in Ids : DeviceFacts(id)
  BY <1>1, NothingOpen DEF DeviceFacts
<1>3. StateFacts  BY <1>1, <1>2 DEF StateFacts, Entries, Settled
<1>4. ThreadFacts  BY <1>1 DEF ThreadFacts, ThreadTypes
<1>. QED  BY <1>3, <1>4 DEF DriverFacts

LEMMA DriverStep ==
  ASSUME DriverFacts, [OniNext /\ UNCHANGED <<user, uses>>]_oniAll
  PROVE  DriverFacts'
<1>1. CASE UNCHANGED oniAll
  <2>1. UNCHANGED <<m_devices, m_stop, thread, at, client, changing, setting, orphans, fate,
                    devices, streams, creating, building, frame, refused>>
    BY <1>1 DEF oniAll, oniVars, cppVars
  <2>2. StateFacts'  BY <2>1, StateKept DEF DriverFacts
  <2>3. ThreadFacts'
    BY <2>1 DEF DriverFacts, ThreadFacts, ThreadTypes
  <2>. QED  BY <2>2, <2>3 DEF DriverFacts
<1>2. CASE OniNext
  BY <1>2, InitializeStep, CloseAllStep, StoreStreamStep, StoreModeStep, PopulateStep,
     DeleteNextStep, ThreadStep, DeviceOpenStep, DeviceCloseStep, TryDeviceStep,
     DestroyStreamStep, BuildStep, StartStopStep, CreateStreamStep, SetModeStep,
        SetMirroringStep, SetRegistrationStep, SetBalanceStep,
     SetCroppingStep
     DEF OniNext, Streams
<1>. QED  BY <1>1, <1>2

LEMMA FactsAreSafe ==
  ASSUME DriverFacts
  PROVE  CppInv /\ OniInv
<1>1. StateFacts /\ ThreadFacts  BY DEF DriverFacts
<1>2. Entries /\ ThreadTypes  BY <1>1 DEF StateFacts, ThreadFacts
<1>3. \A id \in Ids : m_devices[id] # Dangling
      /\ (Alive(m_devices[id]) <=> m_devices[id] # None)
  <2>1. None # Dangling  BY DEF None, Dangling
  <2>. QED  BY <1>1, <2>1, HalfIsAlive DEF StateFacts, Alive
<1>4. \A id \in Ids, s \in Streams : streams[id][s] # NoStream =>
        streams[id][s] \in StreamObjects /\ Says(m_devices[id], s, streams[id][s], refused)
  BY <1>1 DEF StateFacts, DeviceFacts
<1>5. OniTypeOK
  <2>1. \A id \in Ids : Alive(m_devices[id]) <=> Open(id)  BY <1>1, <1>3
        DEF StateFacts, DeviceFacts
  <2>. QED  BY <1>3, <1>4, <2>1 DEF OniTypeOK, StreamObjects
<1>6. NothingDeletedUnderCallback
  BY <1>1, <1>3 DEF NothingDeletedUnderCallback, ThreadFacts
<1>7. NoStreamOnlyInCreation  BY <1>1 DEF NoStreamOnlyInCreation, ThreadFacts
<1>8. AreaKept  BY <1>4 DEF AreaKept, Says, FullArea
<1>9. RegistrationTold  BY <1>4 DEF RegistrationTold, Says, Streams
<1>10. MirrorTold  BY <1>4 DEF MirrorTold, Says, Streams
<1>11. CroppingExact
  <2>1. frame # NoFrame => frame \in Frames  BY <1>1 DEF ThreadFacts
  <2>. QED  BY <2>1, CopiedFacts DEF CroppingExact
<1>12. CppInv  BY <1>2, EntriesAreSafe
<1>. QED
  BY <1>5, <1>6, <1>7, <1>8, <1>9, <1>10, <1>11, <1>12 DEF OniInv

\* Whatever an application does with the driver, also when opens, starts, modes
\* and flags fail: no device or stream is deleted under a callback, a callback
\* misses its stream only while that stream is created, the handles of OpenNI and
\* of the wrapper agree, and what a stream says of its area, its registration and
\* its mirroring is so, between the calls and within one that changes a mode; a
\* depth frame is the cropping asked for, when the picture has it and no mode was
\* set meanwhile.
THEOREM DriverIsSafe == DriverSpec => []OniInv
<1>1. OniInit => DriverFacts  BY DriverStart
<1>2. DriverFacts /\ [OniNext /\ UNCHANGED <<user, uses>>]_oniAll => DriverFacts'  BY DriverStep
<1>3. DriverFacts => OniInv  BY FactsAreSafe
<1>. QED  BY <1>1, <1>2, <1>3, PTL DEF DriverSpec

\* Under the driver too the wrapper's objects remember what the library uses, but
\* for a depth format between the restart of its stream and the end of the call.
THEOREM WrapperIsSafeUnderDriver == DriverSpec => []CppInv
<1>1. OniInit => DriverFacts  BY DriverStart
<1>2. DriverFacts /\ [OniNext /\ UNCHANGED <<user, uses>>]_oniAll => DriverFacts'  BY DriverStep
<1>3. DriverFacts => CppInv  BY FactsAreSafe
<1>. QED  BY <1>1, <1>2, <1>3, PTL DEF DriverSpec

\* A stream's timestamp moves only with a frame that is built.
TimeMoves ==
  \A id \in Ids, s \in Streams :
    /\ streams[id][s] # NoStream /\ streams'[id][s] # NoStream
    /\ streams'[id][s].prev # streams[id][s].prev
    => streams'[id][s].prev = streams[id][s].prev + (building'.elapsed % Wrap)

\* A step that leaves the other streams alone and this one's timestamp.
LEMMA TimeStands ==
  ASSUME DriverFacts, NEW id \in Ids, NEW s \in Streams, NEW st,
         streams' = [streams EXCEPT ![id][s] = st],
         st = NoStream \/ streams[id][s] = NoStream \/ st.prev = streams[id][s].prev
  PROVE  TimeMoves
<1>1. streams \in [Ids -> [Streams -> {NoStream} \cup StreamObjects]]  BY
      DEF DriverFacts, StateFacts
<1>2. /\ streams'[id][s] = st
      /\ \A i \in Ids, t \in Streams : i # id \/ t # s => streams'[i][t] = streams[i][t]
  BY <1>1
<1>. QED  BY <1>2 DEF TimeMoves

LEMMA TimeStep ==
  ASSUME DriverFacts, OniNext
  PROVE  TimeMoves
<1>1. CASE UNCHANGED streams
  BY <1>1 DEF TimeMoves
<1>2. CASE StoreStream
  <2>1. creating # NoStream
        /\ streams' = [streams EXCEPT ![creating.id][creating.s] = creating.st]
    BY <1>2 DEF StoreStream
  <2>2. PICK id \in Ids, s \in Streams, st \in StreamObjects :
          creating.id = id /\ creating.s = s /\ creating.st = st /\ streams[id][s] = NoStream
    BY <2>1 DEF DriverFacts, StateFacts, Created
  <2>3. streams' = [streams EXCEPT ![id][s] = st]  BY <2>1, <2>2
  <2>. QED  BY <2>2, <2>3, TimeStands
<1>2a. CASE StoreMode
  <2>1. setting # Nothing
        /\ streams' = [streams EXCEPT ![setting[1]][setting[2]].mode = setting[3]]
    BY <1>2a DEF StoreMode
  <2>2. PICK id \in Ids, s \in Streams, m \in OniModes :
          setting = <<id, s, m>> /\ streams[id][s] # NoStream
    BY <2>1 DEF DriverFacts, StateFacts, Setting
  <2> DEFINE old == streams[id][s]
             new == [old EXCEPT !.mode = m]
  <2>3. old \in StreamObjects /\ streams \in [Ids -> [Streams -> {NoStream} \cup StreamObjects]]
    BY <2>2 DEF DriverFacts, StateFacts
  <2>4. streams' = [streams EXCEPT ![id][s] = new]  BY <2>1, <2>2, <2>3
  <2>5. new.prev = old.prev
    <3>. HIDE DEF old
    <3>. QED  BY <2>3 DEF StreamObjects
  <2>. HIDE DEF new
  <2>. QED  BY <2>4, <2>5, TimeStands
<1>3. ASSUME NEW id \in Ids, DeviceClose(id)  PROVE TimeMoves
  <2>1. CASE streams' = streams  BY <2>1 DEF TimeMoves
  <2>2. CASE streams' = Gone(id)
    <3>1. streams \in [Ids -> [Streams -> {NoStream} \cup StreamObjects]]  BY
          DEF DriverFacts, StateFacts
    <3>2. (\A t \in Streams : streams'[id][t] = NoStream)
          /\ \A i \in Ids \ {id} : streams'[i] = streams[i]
      BY <2>2, <3>1 DEF Gone
    <3>. QED  BY <3>2 DEF TimeMoves
  <2>. QED  BY <1>3, <2>1, <2>2 DEF DeviceClose
<1>4. ASSUME NEW id \in Ids, NEW s \in Streams, DestroyStream(id, s)  PROVE TimeMoves
  BY <1>4, TimeStands DEF DestroyStream
<1>5. ASSUME NEW id \in Ids, NEW s \in Streams, NEW dt \in Elapsed, Build(id, s, dt)
      PROVE TimeMoves
  <2>1. CASE streams[id][s] # NoStream /\ streams[id][s].running
    <3> DEFINE st == streams[id][s]
               ticks == dt % Wrap
    <3>1. /\ st \in StreamObjects
          /\ streams' = [streams EXCEPT ![id][s].prev = st.prev + ticks]
          /\ building' = [stream |-> s, mode |-> st.mode, elapsed |-> dt]
      BY <1>5, <2>1, BuildFacts
    <3>2. building'.elapsed % Wrap = ticks
      <4>. HIDE DEF st
      <4>. QED  BY <3>1
    <3>3. streams \in [Ids -> [Streams -> {NoStream} \cup StreamObjects]]  BY
          DEF DriverFacts, StateFacts
    <3>. HIDE DEF ticks
    <3>4. /\ streams'[id][s].prev = st.prev + ticks
          /\ \A i \in Ids, t \in Streams : i # id \/ t # s => streams'[i][t] = streams[i][t]
      BY <3>1, <3>3 DEF StreamObjects
    <3>5. ASSUME NEW i \in Ids, NEW t \in Streams
          PROVE  streams'[i][t].prev # streams[i][t].prev =>
                   streams'[i][t].prev = streams[i][t].prev + (building'.elapsed % Wrap)
      <4>1. CASE i = id /\ t = s  BY <3>2, <3>4, <4>1
      <4>2. CASE i # id \/ t # s  BY <3>4, <4>2
      <4>. QED  BY <4>1, <4>2
    <3>. QED  BY <3>5 DEF TimeMoves
  <2>2. CASE streams[id][s] = NoStream \/ ~streams[id][s].running
    <3>1. streams' = streams  BY <1>5, <2>2 DEF Build
    <3>. QED  BY <3>1 DEF TimeMoves
  <2>. QED  BY <2>1, <2>2
<1>6. ASSUME NEW id \in Ids, NEW s \in Streams, Usable(id, s)
      PROVE  streams[id][s] \in StreamObjects
  BY <1>6, UsableStream DEF DriverFacts
<1>7. ASSUME NEW id \in Ids, NEW s \in Streams, NEW b \in BOOLEAN, StartStop(id, s, b)
      PROVE TimeMoves
  <2> DEFINE new == [streams[id][s] EXCEPT !.running = b]
  <2>1. Usable(id, s) /\ streams' = [streams EXCEPT ![id][s] = new]  BY <1>7 DEF StartStop, Set
  <2>2. new.prev = streams[id][s].prev  BY <1>6, <2>1 DEF StreamObjects
  <2>. HIDE DEF new
  <2>. QED  BY <2>1, <2>2, TimeStands
<1>8. ASSUME NEW id \in Ids, NEW s \in Streams, NEW c \in Croppings, SetCropping(id, s, c)
      PROVE TimeMoves
  <2> DEFINE new == [streams[id][s] EXCEPT !.crop = c]
  <2>1. Usable(id, s) /\ streams' = [streams EXCEPT ![id][s] = new]  BY <1>8
        DEF SetCropping, Set
  <2>2. new.prev = streams[id][s].prev  BY <1>6, <2>1 DEF StreamObjects
  <2>. HIDE DEF new
  <2>. QED  BY <2>1, <2>2, TimeStands
<1>9. ASSUME NEW id \in Ids, NEW s \in Streams, NEW b \in BOOLEAN, NEW works \in BOOLEAN,
             SetMirroring(id, s, b, works)
      PROVE  TimeMoves
  <2> DEFINE new == [streams[id][s] EXCEPT !.mirror = b]
  <2>1. Usable(id, s) /\ streams' = [streams EXCEPT ![id][s] = new]  BY <1>9
        DEF SetMirroring, Set
  <2>2. new.prev = streams[id][s].prev  BY <1>6, <2>1 DEF StreamObjects
  <2>. HIDE DEF new
  <2>. QED  BY <2>1, <2>2, TimeStands
<1>10. ASSUME NEW id \in Ids, NEW s \in Streams, NEW st \in StreamObjects, NEW m \in OniModes,
              NEW works \in BOOLEAN, Usable(id, s), SettingMode(id, s, st, m, works),
              st.prev = streams[id][s].prev
       PROVE  TimeMoves
  <2> DEFINE d == m_devices[id]
             new == SetVideoMode(st, d, s, m, works).st
  <2>1. d \in Agreeing /\ d.mode["video"] = Mode("RGB", "MEDIUM")
    BY <1>10, UsableStream DEF DriverFacts
  <2>2. streams' = [streams EXCEPT ![id][s] = new]  BY <1>10 DEF SettingMode, Set
  <2>. HIDE DEF d
  <2>3. new.prev = streams[id][s].prev  BY <1>10, <2>1, SetVideoModeFacts
  <2>. HIDE DEF new
  <2>. QED  BY <2>2, <2>3, TimeStands
<1>11. ASSUME NEW id \in Ids, NEW s \in Streams, NEW m \in Requested, NEW works \in BOOLEAN,
              SetMode(id, s, m, works)
       PROVE  TimeMoves
  <2>1. Usable(id, s) /\ SettingMode(id, s, streams[id][s], m, works)
    BY <1>11 DEF SetMode
  <2>2. streams[id][s] \in StreamObjects  BY <2>1, UsableStream DEF DriverFacts
  <2>3. m \in OniModes  BY OniAssumption
  <2>. QED  BY <1>10, <2>1, <2>2, <2>3
<1>12. ASSUME NEW id \in Ids, NEW b \in BOOLEAN, NEW works \in BOOLEAN,
              SetRegistration(id, b, works), streams[id]["depth"] # NoStream
       PROVE  TimeMoves
  <2> DEFINE st == streams[id]["depth"]
             asked == [st EXCEPT !.registered = b]
  <2>0. "depth" \in Streams  BY DEF Streams
  <2>1. Usable(id, "depth") /\ SettingMode(id, "depth", asked, st.mode, works)
    BY <1>12 DEF SetRegistration, Usable
  <2>2. st \in StreamObjects  BY <2>0, <2>1, UsableStream DEF DriverFacts
  <2>3. asked \in StreamObjects /\ asked.prev = st.prev /\ st.mode \in OniModes
    <3>. HIDE DEF st
    <3>. QED  BY <2>2 DEF StreamObjects
  <2>. HIDE DEF asked
  <2>. QED  BY <1>10, <2>0, <2>1, <2>3
<1>13. ASSUME NEW id \in Ids, NEW b \in BOOLEAN, NEW works \in BOOLEAN, SetRegistration(id, b,
       works),
              streams[id]["depth"] = NoStream
       PROVE  UNCHANGED streams
  BY <1>13 DEF SetRegistration, driver
<1>14. ASSUME NEW id \in Ids, TryDevice(id)  PROVE TimeMoves \/ UNCHANGED streams
  BY <1>3, <1>14 DEF TryDevice, driver
<1>15. (Initialize \/ CloseAll \/ Populate \/ UNCHANGED driver) => UNCHANGED streams
  BY DEF Initialize, CloseAll, Populate, driver
<1>16. \A id \in Ids, s \in Streams, b, works \in BOOLEAN :
         DeviceOpen(id) \/ CreateStream(id, s, works) \/ SetBalance(id, b,
            works) => UNCHANGED streams
  <2>1. \A id \in Ids : DeviceOpen(id) => UNCHANGED streams  BY DEF DeviceOpen
  <2>2. ASSUME NEW id \in Ids, NEW s \in Streams, NEW works \in BOOLEAN, CreateStream(id, s,
        works)
        PROVE  UNCHANGED streams
    BY <2>2 DEF CreateStream
  <2>3. \A id \in Ids, b, works \in BOOLEAN : SetBalance(id, b, works) => UNCHANGED streams
    BY DEF SetBalance
  <2>. QED  BY <2>1, <2>2, <2>3
<1>. QED
  <2>1. "depth" \in Streams  BY DEF Streams
  <2>2. TRUE \in BOOLEAN  OBVIOUS
  <2>. HIDE DEF Streams
  <2>. QED
    BY <1>1, <1>2, <1>2a, <1>3, <1>4, <1>5, <1>7, <1>8, <1>9, <1>11, <1>12, <1>13, <1>14,
       <1>15, <1>16,
       <2>1, <2>2 DEF OniNext

\* A frame's timestamp is later than the frame's before it by the time that passed
\* less the whole rounds of the clock, whatever the clock's width and the times
\* between frames: exactly the time that passed when a frame came in each round.
THEOREM TimeGoesOn == DriverSpec => TimeKept
<1>1. OniInit => DriverFacts  BY DriverStart
<1>2. DriverFacts /\ [OniNext /\ UNCHANGED <<user, uses>>]_oniAll => DriverFacts'  BY DriverStep
<1>3. DriverFacts /\ [OniNext /\ UNCHANGED <<user, uses>>]_oniAll => [TimeMoves]_oniVars
  <2>1. UNCHANGED oniAll => UNCHANGED oniVars  BY DEF oniAll
  <2>. QED  BY <2>1, TimeStep
<1>4. TimeKept <=> [][TimeMoves]_oniVars
  BY DEF TimeKept, TimeMoves
<1>. QED  BY <1>1, <1>2, <1>3, <1>4, PTL DEF DriverSpec
=============================================================================
