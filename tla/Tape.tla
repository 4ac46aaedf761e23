-------------------------------- MODULE Tape --------------------------------
(***************************************************************************)
(* What playing a recording promises: the items are gone through in their   *)
(* order, each once, and from the beginning again after the last; a picture *)
(* is shown only when its turn comes, as it was recorded; and the tilt      *)
(* state is the last one gone by.                                           *)
(***************************************************************************)
EXTENDS Integers, Sequences

VARIABLES
  tape,      \* the items: records with a type, ts and id
  at,        \* how many of them have gone by since the beginning
  shown,     \* the item of the last picture shown, its type "none" before
  tilt       \* the last tilt state, 0 before there is one

TapeInit == tape = <<>> /\ at = 0 /\ shown = [type |-> "none", ts |-> 0, id |-> 0] /\ tilt = 0

Insert == tape = <<>> /\ UNCHANGED <<at, shown, tilt>>
Item ==
  /\ at < Len(tape) /\ at' = at + 1
  /\ LET i == tape[at + 1]
     IN  \/ i.type # "a" /\ shown' \in {shown, i} /\ UNCHANGED tilt
         \/ i.type = "a" /\ tilt' = i.id /\ UNCHANGED shown
  /\ UNCHANGED tape
Rewind == at = Len(tape) /\ at' = 0 /\ UNCHANGED <<tape, shown, tilt>>

tapeVars == <<tape, at, shown, tilt>>
TapeNext == Insert \/ Item \/ Rewind
TapeSpec == TapeInit /\ [][TapeNext]_tapeVars
=============================================================================
