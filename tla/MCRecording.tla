----------------------------- MODULE MCRecording -----------------------------
(* A recording is made, and then played to a client. *)
EXTENDS Player

vars == <<recVars, playVars>>
Formats == {<<"11BIT", "RGB">>, <<"REGISTERED", "YUV_RAW">>}

Init == RecorderInit /\ PlayerInit
Recording == RecorderNext /\ UNCHANGED playVars
Playing == PlayerNext(Formats)
Spec == Init /\ [][Recording \/ Playing]_vars
             /\ WF_vars(\E took \in Delays : ProcessEvents(took))
=============================================================================
