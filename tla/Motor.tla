------------------------------- MODULE Motor -------------------------------
(***************************************************************************)
(* Tilt, LED and accelerometer (src/src/tilt.c).  Older devices have a      *)
(* motor of their own, driven by single control transfers; newer ones take  *)
(* commands over the bulk endpoints of the audio device, answer each with   *)
(* an acknowledgement, and are given 100 or 250 ms for it.                  *)
(*                                                                          *)
(* Angles are tenths of a degree in calls, half degrees at an older motor,  *)
(* degrees at a newer one.                                                  *)
(***************************************************************************)
EXTENDS Integers, Sequences, FiniteSets

CONSTANTS
  Motors,       \* open devices
  Alt,          \* those of them driven through the audio device
  Missing,      \* those of Alt whose audio device is not open
  Enabled,      \* is FREENECT_DEVICE_MOTOR enabled in the context?
  Angles,       \* inputs, tenths of a degree
  Leds,         \* inputs, freenect_led_options
  MaxTag,       \* bound: commands sent
  MotorFaults   \* subset of {"timeout", "status", "control"}

MaxTilt == 31   \* MAX_TILT_ANGLE, and MIN_TILT_ANGLE with a minus

ASSUME MotorAssumption ==
  /\ Alt \subseteq Motors /\ Missing \subseteq Alt /\ Enabled \in BOOLEAN
     /\ Angles \subseteq Int /\ MaxTag \in Nat
  /\ MotorFaults \subseteq {"timeout", "status", "control"}

VARIABLES
  tag_seq, tag_next_ack,    \* static: shared by all devices
  raw_tilt,                 \* raw_state.tilt_angle, of each device
  mcall, mstage, mresult,   \* the call in progress and the last result
  \* the devices
  angle, led,
  box, fifo,                \* commands and answers on the way
  \* history
  late                      \* a bulk transfer has timed out

counters == <<tag_seq, tag_next_ack>>
motorClient == <<mcall, mstage, mresult>>
motorDevice == <<angle, led, box, fifo>>
motorVars == <<counters, raw_tilt, motorClient, motorDevice, late>>

Idle == [name |-> "none"]
Update(m) == [name |-> "update", dev |-> m]
Tilt(m, a) == [name |-> "tilt", dev |-> m, angle |-> a]
Led(m, o) == [name |-> "led", dev |-> m, led |-> o]

-----------------------------------------------------------------------------
(* What is sent. *)

\* A double made an integer.
Trunc(tenths) == IF tenths >= 0 THEN tenths \div 10 ELSE -((-tenths) \div 10)

\* freenect_set_tilt_degs(): half degrees, kept within the range.
\* Mutant: doubled before it is compared with the range.
MutHalfDegrees(a) == LET b == 2 * a IN Trunc(IF b < -10 * MaxTilt THEN b ELSE IF b > 10 * MaxTilt THEN 10 * MaxTilt ELSE b)
HalfDegrees(a) ==
  Trunc(2 * (IF a < -10 * MaxTilt THEN -10 * MaxTilt ELSE IF a > 10 * MaxTilt THEN 10 * MaxTilt ELSE a))

\* freenect_set_tilt_degs_alt(): whole degrees, refused outside the range.
SafeRange(a) == Trunc(a) <= MaxTilt /\ Trunc(a) >= -MaxTilt

\* fnusb_set_led_alt(): the states of newer devices, by name.  Those without
\* an equal become the number of LED_GREEN, which there means off.
LedAlt(o) ==
  CASE o = "green" -> "green" [] o = "red" -> "red" [] o = "yellow" -> "green"
    [] o = "blink_green" -> "blink_green" [] OTHER -> "off"

-----------------------------------------------------------------------------

MotorInit ==
  /\ tag_seq = 0 /\ tag_next_ack = 0
  /\ raw_tilt = [m \in Motors |-> 0]
  /\ mcall = Idle /\ mstage = "idle" /\ mresult = [call |-> Idle, ok |-> TRUE]
  /\ angle = [m \in Motors |-> 0] /\ led = [m \in Motors |-> "green"]
  /\ box = [m \in Motors |-> <<>>] /\ fifo = [m \in Motors |-> <<>>]
  /\ late = FALSE

MotorReturn(ok) ==
  mresult' = [call |-> mcall, ok |-> ok] /\ mcall' = Idle /\ mstage' = "idle"

\* An older device: one control transfer and its result, if there is a motor.
Control(c) ==
  /\ mstage = "idle" /\ c.dev \notin Alt
  /\ \E ok \in IF Enabled /\ "control" \in MotorFaults THEN BOOLEAN ELSE {TRUE} :
     /\ mresult' = [call |-> c, ok |-> ok]
     /\ LET m == c.dev
            done == Enabled /\ ok
        IN
        /\ raw_tilt' = IF done
           /\ c.name = "update" THEN [raw_tilt EXCEPT ![m] = angle[m]] ELSE raw_tilt
        /\ angle' = IF done
           /\ c.name = "tilt" THEN [angle EXCEPT ![m] = HalfDegrees(c.angle)] ELSE angle
        /\ led' = IF done /\ c.name = "led" THEN [led EXCEPT ![m] = c.led] ELSE led
  /\ UNCHANGED <<counters, mcall, mstage, box, fifo, late>>

\* A newer one: the tag is used up when the command is made.
BeginAlt(c) ==
  /\ mstage = "idle" /\ c.dev \in Alt
  /\ IF (c.name = "tilt" /\ ~SafeRange(c.angle)) \/ c.dev \in Missing
     THEN mresult' = [call |-> c, ok |-> FALSE] /\ UNCHANGED <<tag_seq, mcall, mstage>>
     ELSE /\ tag_seq < MaxTag /\ tag_seq' = tag_seq + 1
          /\ mcall' = c /\ mstage' = "send" /\ UNCHANGED mresult
  /\ UNCHANGED <<tag_next_ack, raw_tilt, motorDevice, late>>

\* The command is sent ...
MotorSend ==
  /\ mstage = "send"
  /\ box' = [box EXCEPT ![mcall.dev] = Append(@, mcall)]
  /\ mstage' = IF mcall.name = "update" THEN "data" ELSE "ack"
  /\ UNCHANGED <<counters, raw_tilt, mcall, mresult, angle, led, fifo, late>>

\* ... or any of the transfers of a call times out.  The command may have got
\* there, and its answers may come later.
Timeout ==
  /\ mstage # "idle" /\ "timeout" \in MotorFaults
  /\ \/ UNCHANGED box
     \/ mstage = "send" /\ box' = [box EXCEPT ![mcall.dev] = Append(@, mcall)]
  /\ MotorReturn(FALSE)
  /\ late' = TRUE
  /\ UNCHANGED <<counters, raw_tilt, angle, led, fifo>>

\* Twice the angle, as older devices have it, in an int8_t.
\* Mutants: not twice; in a wider field.
MutRawTilt(t) == t
MutRawTiltWide(t) == 2 * t
RawTilt(t) == ((2 * t + 128) % 256) - 128

\* update_tilt_state_alt() takes what comes for the 104 bytes it asked for.
\* Of an acknowledgement there are too few, and the rest is not initialised.
ReadData ==
  /\ mstage = "data" /\ fifo[mcall.dev] # <<>>
  /\ LET m == mcall.dev
         a == Head(fifo[m])
     IN
     /\ \E t \in IF a.kind = "data" THEN {a.tilt} ELSE {-128, 0, 127} :
          raw_tilt' = [raw_tilt EXCEPT ![m] = RawTilt(t)]
     /\ fifo' = [fifo EXCEPT ![m] = Tail(@)]
  /\ mstage' = "ack"
  /\ UNCHANGED <<counters, mcall, mresult, angle, led, box, late>>

\* get_reply(): the tag is not compared, and an answer of another length is
\* reported but not returned as an error.
\* Mutant: every answer counts as an acknowledgement.
MutAcked(a) == 1
Acked(a) == IF a.kind = "ack" THEN 1 ELSE 0

ReadAck ==
  /\ mstage = "ack" /\ fifo[mcall.dev] # <<>>
  /\ LET m == mcall.dev
         a == Head(fifo[m])
     IN
     /\ tag_next_ack' = tag_next_ack + Acked(a)
     /\ MotorReturn(a.kind = "ack" => a.status = 0)
     /\ fifo' = [fifo EXCEPT ![m] = Tail(@)]
  /\ UNCHANGED <<tag_seq, raw_tilt, angle, led, box, late>>

\* The device carries a command out and acknowledges it, after its data.
MotorExecute(m) ==
  /\ box[m] # <<>>
  /\ LET c == Head(box[m]) IN
     \E status \in IF "status" \in MotorFaults THEN {0, 1} ELSE {0} :
       /\ angle' = IF c.name = "tilt" THEN [angle EXCEPT ![m] = Trunc(c.angle)] ELSE angle
       /\ led' = IF c.name = "led" THEN [led EXCEPT ![m] = LedAlt(c.led)] ELSE led
       /\ fifo' = [fifo EXCEPT ![m] = @ \o
            (IF c.name = "update" THEN <<[kind |-> "data", tilt |-> angle[m]]>> ELSE <<>>)
            \o <<[kind |-> "ack", status |-> status]>>]
  /\ box' = [box EXCEPT ![m] = Tail(@)]
  /\ UNCHANGED <<counters, raw_tilt, motorClient, late>>

MotorCalls == UNION {{Update(m)} \cup {Tilt(m, a) : a \in Angles} \cup {Led(m, o) : o \in Leds} : m \in Motors}

MotorNext ==
  \/ \E c \in MotorCalls : Control(c) \/ BeginAlt(c)
  \/ MotorSend \/ Timeout \/ ReadData \/ ReadAck
  \/ \E m \in Motors : MotorExecute(m)

-----------------------------------------------------------------------------
(* Properties. *)

\* Every variable has its type; a tilt that an alternative motor reports, doubled,
\* still fits the signed byte of raw_state.
MotorTypeOK ==
  /\ tag_seq \in 0 .. MaxTag /\ tag_next_ack \in 0 .. MaxTag
  /\ mcall \in MotorCalls \cup {Idle} /\ mstage \in {"idle", "send", "data", "ack"}
  /\ late \in BOOLEAN
  /\ \A m \in Motors : raw_tilt[m] \in -128 .. 127 \* int8_t

\* Where commands and acknowledgements are on their way.
Acks(m) == {i \in DOMAIN fifo[m] : fifo[m][i].kind = "ack"}
OnTheWay == UNION {({m} \X {"command"} \X DOMAIN box[m]) \cup ({m} \X {"ack"} \X Acks(m)) : m \in Motors}

\* No acknowledgement is counted that was not sent for a command: those counted,
\* those still to be read and those still to be sent are no more than the
\* commands, over all devices together, whatever times out.
AcksBehindCommands ==
  tag_next_ack + Cardinality(OnTheWay) <= tag_seq

\* No motor is sent an angle out of its range, whatever the client asks for.
TiltInRange ==
  \A m \in Motors :
    /\ angle[m] \in IF m \in Alt THEN -MaxTilt .. MaxTilt ELSE -2 * MaxTilt .. 2 * MaxTilt
    /\ \A i \in DOMAIN box[m] : box[m][i].name = "tilt" => SafeRange(box[m][i].angle)

\* As long as nothing timed out, the state an update reports is the motor's,
\* in half degrees, and no answer is left for a later call to take for its own.
UpdateTrue ==
  mstage = "idle" /\ ~late =>
    /\ \A m \in Motors : fifo[m] = <<>> /\ box[m] = <<>>
    /\ LET c == mresult.call IN
       mresult.ok /\ c.name = "update" /\ (c.dev \in Alt \/ Enabled) =>
         raw_tilt[c.dev] = IF c.dev \in Alt THEN 2 * angle[c.dev] ELSE angle[c.dev]

\* The motors' safety: their types and ranges, acknowledgements never ahead of
\* commands whatever times out, and states reported as they are.
MotorInv == MotorTypeOK /\ TiltInRange /\ AcksBehindCommands /\ UpdateTrue
=============================================================================
