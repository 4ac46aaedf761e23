----------------------------- MODULE MCControl -----------------------------
(* What a client does besides streaming: open and close devices, or give        *)
(* commands to a camera or a motor that is open.  Each has devices and tags of  *)
(* its own, so a client that does one of them is enough.                        *)
EXTENDS CamCommand, Motor, Devices

VARIABLE side
vars == <<cmdVars, motorVars, devVars, side>>

Init ==
  /\ CamInit /\ MotorInit /\ DevInit /\ side \in {"camera", "motor", "devices"}
  /\ <<k4w, format>> \in {<<TRUE, "rgb">>, <<FALSE, "ir">>}
  /\ side # "camera" => k4w
  /\ side # "devices" => \A d \in D : mode[d] = "running"

CameraSide == side = "camera" /\ CamNext /\ UNCHANGED <<motorVars, devVars, side>>
MotorSide == side = "motor" /\ MotorNext /\ UNCHANGED <<cmdVars, devVars, side>>
DevicesSide == side = "devices" /\ DevNext /\ UNCHANGED <<cmdVars, motorVars, side>>

Spec == Init /\ [][CameraSide \/ MotorSide \/ DevicesSide]_vars /\ CamFairness /\ DevFairness

MCCalls == {Flag(2, TRUE), Near(TRUE), Mirror("mirror_depth", TRUE), SetExposure(7),
            GetExposure, GetBrightness, SetBrightness(0)}
MCNearOn == <<2, 0>>
MCNearOff == <<3, 4>>
MCAngles == {-400, 315}

\* An older Kinect and a newer one on the same bus.
MCBus == <<[kind |-> "old camera", hub |-> 1, bus |-> 1, serial |-> "A"],
           [kind |-> "audio", hub |-> 1, bus |-> 1, serial |-> "B"],
           [kind |-> "motor", hub |-> 1, bus |-> 1, serial |-> "none"],
           [kind |-> "new camera", hub |-> 2, bus |-> 1, serial |-> "zero"],
           [kind |-> "audio", hub |-> 2, bus |-> 1, serial |-> "C"]>>
MCWhole == [bytes |-> 5, size |-> 5]
MCCut == [bytes |-> 3, size |-> 5]
MCFiles == <<NoImage, MCWhole>>
MCMemory == {MCCut}

\* Every command given to a camera and every open of a device returns, whatever
\* fails and for all that send_cmd() polls without a limit.
CallsEnd == CallsReturn /\ OpenEnds
=============================================================================
