------------------------------ MODULE MCImages ------------------------------
(* The modes of a camera, and what becomes of a frame in each of them.  A frame *)
(* is converted with nothing of the modes but its format and the tables, so a   *)
(* client changes modes or receives frames.                                     *)
EXTENDS Modes, Registration

VARIABLE uses       \* the formats the client uses; {} for one that receives frames
vars == <<modeVars, pic, uses>>

Clients ==
  {{"RGB", "IR_8BIT", "11BIT", "REGISTERED"}, {"BAYER", "IR_10BIT", "10BIT", "MM"},
   {"YUV_RGB", "IR_10BIT_PACKED", "11BIT_PACKED", "MM"},
   {"YUV_RAW", "RGB", "10BIT_PACKED", "REGISTERED"}}

\* A frame of n bytes that are all b but for at most two.
Around(n, b, Other) ==
  {[i \in 0 .. n - 1 |-> IF i = j THEN x ELSE IF i = k THEN y ELSE b] :
     j \in 0 .. n - 1, k \in 0 .. n - 1, x \in Other, y \in Other}

\* Packs eight pixels of eleven bits, the other way round from the code.
Pack8(p) ==
  [b \in 0 .. 10 |->
     LET bit(j) == (p[j \div 11] \div 2^(10 - (j % 11))) % 2
     IN  128 * bit(8*b) + 64 * bit(8*b+1) + 32 * bit(8*b+2) + 16 * bit(8*b+3) + 8 * bit(8*b+4)
           + 4 * bit(8*b+5) + 2 * bit(8*b+6) + bit(8*b+7)]
DepthFrames == {Pack8(f) : f \in Around(8, NoRaw, Raws)}

Init == ModesInit /\ pic = NoPic /\ uses \in Clients \cup {{}}

ModesSide == uses # {} /\ ModesNext(uses) /\ UNCHANGED <<pic, uses>>
Colours == \E raw \in Around(W * H, 0, {3, 254}) : VideoFrame("RGB", raw, W * H)
Yuv == \E raw \in [0 .. 3 -> {0, 16, 90, 200, 255}] : VideoFrame("YUV_RGB", raw, 2)
Infrared == \E fmt \in {"IR_10BIT", "IR_8BIT", "IR_10BIT_PACKED"}, raw \in Around(10, 53, {202}) :
              VideoFrame(fmt, raw, 8)
Depth == \/ \E raw \in Around(22, 53, {202}) : DepthFrame("11BIT", raw, 16)
         \/ \E fmt \in {"10BIT", "10BIT_PACKED"}, raw \in Around(10, 202, {53}) : DepthFrame(fmt, raw, 8)
Registered == \E fmt \in {"REGISTERED", "MM"}, raw \in DepthFrames, s \in Calibrations :
                AlignedFrame(fmt, raw, s)
Mapped == \E junk \in {-2 * Scale * DX, 0} : MapRgbToDepth(junk)

FramesSide == /\ uses = {} /\ UNCHANGED <<modeVars, uses>>
              /\ \/ pic = NoPic /\ (Colours \/ Yuv \/ Infrared \/ Depth \/ Registered)
                 \/ Mapped
Spec == Init /\ [][ModesSide \/ FramesSide]_vars

\* Depths below the largest, 100, and one above it; the nearest shifts a pixel by more
\* than the width.
MCRawToMm == [r \in {50, 100, 500, 900, 1500} |->
                CASE r = 50 -> 10 [] r = 100 -> 20 [] r = 500 -> 40 [] r = 900 -> 60 [] OTHER -> 140]
MCDepthToRgb == [d \in {10, 20, 40, 60} |->
                   CASE d = 10 -> -20 [] d = 20 -> -6 [] d = 40 -> -1 [] d = 60 -> 5]
\* In place (the offsets of one pixel undone), and turned out of the picture below.
MCShifts == {[i \in 0 .. 7 |-> <<-4, -4>>], [i \in 0 .. 7 |-> <<i - 4, IF i % 2 = 0 THEN 1 ELSE -4>>]}
=============================================================================
