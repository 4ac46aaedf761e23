------------------------------ MODULE Mailbox ------------------------------
(***************************************************************************)
(* What the synchronous wrapper promises for a stream: a place for one      *)
(* frame.  A new frame replaces one that nobody took; a frame is taken once, *)
(* stamped with its own time; and what was taken stays as it is until the    *)
(* client gives it up.                                                       *)
(***************************************************************************)
EXTENDS Naturals

CONSTANT Frames

Empty == <<>>

VARIABLES
  slot,   \* Empty, or <<frame, timestamp>>
  taken   \* Empty, or <<frame>> the client has

vars == <<slot, taken>>

Init == slot = Empty /\ taken = Empty

\* A frame arrives.
Put == \E f \in Frames : slot' = <<f, f>> /\ taken' = taken

\* A client takes it.
Take == slot # Empty /\ taken' = <<slot[1]>> /\ slot' = Empty

\* A client gives up what it has, by calling again or stopping.
Release == taken' = Empty /\ slot' = slot

\* The stream is set up anew, or stopped.
Clear == slot' = Empty /\ taken' = taken

Next == Put \/ Take \/ Release \/ Clear

Spec == Init /\ [][Next]_vars
=============================================================================
