--------------------------- MODULE FrameDelivery ---------------------------
(***************************************************************************)
(* What a camera stream promises its client, with no packets, buffers or    *)
(* loss in sight: frames reach the callback in the order they were taken,   *)
(* none that has not been taken, and one presented as complete is intact,   *)
(* the picture of a single frame that was never delivered before.  What a   *)
(* stream counts as intact is its own to say: PacketStream's Intact leaves  *)
(* out the parts whose packet came short.                                   *)
(***************************************************************************)
EXTENDS Naturals

VARIABLES
  shot,   \* number of the frame the camera is taking
  given   \* the last frame given to the client

vars == <<shot, given>>

Init ==
  /\ shot = 1
  /\ given = [ts |-> 0, complete |-> FALSE, intact |-> FALSE]

\* The camera moves on to its next frame.
Capture == shot' = shot + 1

\* The client is given a frame: an old one again, damaged or not, only if it
\* is not called complete.
Give ==
  \E ts \in given.ts .. shot, complete, intact \in BOOLEAN :
    /\ complete => intact /\ ts > given.ts
    /\ given' = [ts |-> ts, complete |-> complete, intact |-> intact]

\* The last packet of a frame does both at once.
Next ==
  \/ Capture /\ given' = given
  \/ Give /\ shot' = shot
  \/ Capture /\ Give

Spec == Init /\ [][Next]_vars
=============================================================================
