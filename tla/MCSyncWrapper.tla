--------------------------- MODULE MCSyncWrapper ---------------------------
EXTENDS SyncWrapper, TLC

CONSTANTS c1, c2, l1, l2

OneClient == {c1}
TwoClients == {c1, c2}
OneLoop == {l1}
TwoLoops == {l1, l2}
Symmetry == Permutations(TwoClients) \cup Permutations(TwoLoops)

Get(r, m) == [ring |-> r, fmt |-> m, task |-> FALSE]

\* One mode per stream, and tasks.
Plain == {Get("video", "rgb"), Get("depth", DefaultMode), TaskRequest}
\* A depth mode that is not the one tasks set up.
Mixed == {Get("depth", "10bit"), TaskRequest}
\* Two modes of one stream.
TwoModes == {Get("video", "rgb"), Get("video", "ir")}
\* Two modes of video, and depth set up by tasks.
ModesAndTasks == TwoModes \cup {TaskRequest}
\* ... and a mode libfreenect supports and the wrapper refuses.
Failing == Mixed \cup {Get("video", "yuv")}
\* Frames told apart, of neither stream or of the one Mailbox is about.
Unnumbered == [r \in Rings |-> 1]
Numbered == [r \in Rings |-> IF r = "video" THEN 2 ELSE 1]
\* Modes the wrapper refuses.
MCRefused == {"yuv"}
=============================================================================
