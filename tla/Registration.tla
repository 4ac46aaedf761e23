---------------------------- MODULE Registration ----------------------------
(***************************************************************************)
(* Depth in millimetres, and depth aligned to the colour picture            *)
(* (src/src/registration.c).                                                *)
(*                                                                          *)
(* The frame is DX pixels by DY.  What the tables are computed from, the    *)
(* calibration of the camera, is arithmetic on doubles: it is abstracted to *)
(* the shift of every pixel and to the two tables indexed by depth, which   *)
(* are constants, as is how far the camera says its picture is padded.      *)
(* Positions are in units of 1 / Scale of a pixel, as in                    *)
(* registration_table; an index is unsigned, modulo Words.                  *)
(***************************************************************************)
EXTENDS Conversions, FiniteSets

CONSTANTS
  DX, DY,         \* DEPTH_X_RES and DEPTH_Y_RES
  Scale,          \* REG_X_VAL_SCALE
  MaxMetric,      \* DEPTH_MAX_METRIC_VALUE
  NoRaw,          \* DEPTH_NO_RAW_VALUE
  Raws,           \* the raw depths the camera sends
  RawToMm,        \* freenect_raw_to_mm(): of each of Raws but NoRaw
  DepthToRgb,     \* depth_to_rgb_shift: the shift for each depth below MaxMetric
  Shifts,         \* dx and dy of the pixels: functions to <<dx, dy>>, in units of 1 / Scale
  StartLines,     \* reg_pad_info.start_lines, as cameras may give it
  Words           \* the values of an index: 2^32

ASSUME RegistrationAssumption ==
  /\ DX \in Nat \ {0} /\ DY \in Nat \ {0} /\ (DX * DY) % 8 = 0   \* unpacked in groups of eight
  /\ Scale \in Nat \ {0} /\ MaxMetric \in Nat \ {0}
  /\ NoRaw \in Raws /\ Raws \subseteq Nat
  /\ \A r \in Raws \ {NoRaw} : RawToMm[r] \in Nat
  /\ \A d \in DOMAIN DepthToRgb : DepthToRgb[d] \in Int
  /\ StartLines \subseteq Nat /\ Words \in Nat /\ Words > 2 * DX * DY
  /\ \A d \in 1 .. MaxMetric - 1 : (\E r \in Raws \ {NoRaw} : RawToMm[r] = d) => d \in DOMAIN DepthToRgb

Pixels == 0 .. DX * DY - 1
ASSUME ShiftsAssumption == Shifts \subseteq [Pixels -> Int \X Int]
Calibrations == [shifts : Shifts, start : StartLines]
Memory == 0 .. Words - 1            \* the buffer of a picture and what an index reaches besides

\* complete_tables(): raw_to_mm_shift
\* Mutant: the value that means no depth is converted like the others.
MutToMm(r) == RawToMm[IF r # NoRaw THEN r
                      ELSE CHOOSE x \in DOMAIN RawToMm : \A y \in DOMAIN RawToMm : y <= x]
ToMm(r) == IF r = NoRaw THEN 0 ELSE RawToMm[r]

\* freenect_init_registration_table(): where pixel i goes but for its depth; a
\* pixel that leaves the picture is put two widths to the right, its line kept.
\* Mutant: one width to the right.
MutTableEntry(s, i) ==
  LET nx == Scale * (i % DX) + s.shifts[i][1] + Scale
      ny == Scale * (i \div DX) + s.shifts[i][2] + Scale
  IN  <<IF nx < 0 \/ ny < 0 \/ nx >= Scale * DX \/ ny >= Scale * DY THEN Scale * DX ELSE nx,
        TDiv(ny, Scale)>>
TableEntry(s, i) ==
  LET nx == Scale * (i % DX) + s.shifts[i][1] + Scale
      ny == Scale * (i \div DX) + s.shifts[i][2] + Scale
  IN  <<IF nx < 0 \/ ny < 0 \/ nx >= Scale * DX \/ ny >= Scale * DY THEN 2 * Scale * DX ELSE nx,
        TDiv(ny, Scale)>>

-----------------------------------------------------------------------------

\* The column of a pixel at depth d; the quotient is then taken as unsigned, so
\* that what is left of the picture is not in it either.
Column(entry, shift) == TDiv(entry[1] + shift, Scale)
InPicture(nx) == nx \in 0 .. DX - 1

\* Taken from the index of a pixel, and for the mapped picture from its line.
TargetOffset(s) == DY * s.start

\* freenect_apply_registration(): the pixels in their order, the nearest one
\* stays.  Outside of the picture memory is taken to be 0, so that what is written
\* there shows.
\* Mutant: what is farther away replaces what is nearer.
MutNearer(current, d) == current = 0 \/ current < d
Nearer(current, d) == current = 0 \/ current > d

Target(s, i, d) ==
  LET e == TableEntry(s, i)
  IN  (e[2] * DX + Column(e, DepthToRgb[d]) - TargetOffset(s)) % Words
Aimed(s, i, d) == d # 0 /\ d < MaxMetric /\ InPicture(Column(TableEntry(s, i), DepthToRgb[d]))

ApplyRegistration(s, mm) ==
  LET out[n \in 0 .. DX * DY] ==
        IF n = 0 THEN [t \in Memory |-> 0]
        ELSE LET o == out[n - 1]
                 i == n - 1
             IN  IF Aimed(s, i, mm[i]) /\ Nearer(o[Target(s, i, mm[i])], mm[i])
                 THEN [o EXCEPT ![Target(s, i, mm[i])] = mm[i]] ELSE o
  IN  out[DX * DY]

\* freenect_apply_depth_to_mm()
DepthToMm(mm) == [i \in Pixels |-> IF mm[i] < MaxMetric THEN mm[i] ELSE MaxMetric]

\* depth_process() when a frame is complete.
\* (the depth formats that need no tables unpack as above)
DepthFrame(fmt, raw, n) ==
  pic' = [fmt |-> fmt, raw |-> raw,
          out |-> CASE fmt = "11BIT" -> Packed11To16(raw, n)
                    [] fmt = "10BIT" -> PackedTo16(raw, 10, n)
                    [] OTHER -> raw]
AlignedFrame(fmt, raw, s) ==
  LET mm == [i \in Pixels |-> ToMm(Packed11To16(raw, DX * DY)[i])]
  IN  pic' = [fmt |-> fmt, raw |-> raw, cal |-> s, mm |-> mm,
              out |-> IF fmt = "REGISTERED" THEN ApplyRegistration(s, mm) ELSE DepthToMm(mm)]

-----------------------------------------------------------------------------

\* freenect_map_rgb_to_depth() over a picture in millimetres.  A depth of
\* MaxMetric, where freenect_apply_depth_to_mm() puts all that is farther, is one
\* past the end of depth_to_rgb_shift: what is read there is any junk.
Unmapped == Words - 1       \* -1, as an index
ShiftAt(d, junk) == IF d < MaxMetric THEN DepthToRgb[d] ELSE junk
\* Mutant: the shift for the depth is left out.
MutMapTo(s, mm, junk, i) ==
  LET e == TableEntry(s, i)
  IN  IF mm[i] = 0 \/ ~InPicture(Column(e, 0)) THEN Unmapped
      ELSE ((e[2] - TargetOffset(s)) * DX + Column(e, 0)) % Words
MapTo(s, mm, junk, i) ==
  LET e == TableEntry(s, i)
      cx == Column(e, ShiftAt(mm[i], junk))
  IN  IF mm[i] = 0 \/ ~InPicture(cx) THEN Unmapped
      ELSE ((e[2] - TargetOffset(s)) * DX + cx) % Words

\* Which pixel of the colour picture each pixel gets, "black" if it has no depth or
\* leaves the picture; an occluded pixel keeps what the client's buffer held, "old".
\* A pixel that junk sends outside both arrays takes whatever lies there.
MapRgb(s, mm, junk) ==
  LET map == [i \in Pixels |-> MapTo(s, mm, junk, i)]
      \* zBuffer: 0 for a pixel nothing was mapped to
      near == [c \in Pixels |-> {mm[i] : i \in {j \in Pixels : map[j] = c}}]
      zBuffer == [c \in Pixels |->
                    IF near[c] = {} THEN 0 ELSE CHOOSE d \in near[c] : \A e \in near[c] : d <= e]
  IN  [i \in Pixels |->
         IF map[i] = Unmapped THEN [from |-> "black"]
         ELSE IF map[i] \notin Pixels THEN [from |-> "outside"]
         ELSE IF mm[i] <= zBuffer[map[i]] THEN [from |-> "rgb", at |-> map[i]]
         ELSE [from |-> "old"]]

\* The client maps the colours to the depth picture it was given last.
MapRgbToDepth(junk) ==
  /\ pic.fmt = "MM"
  /\ pic' = [fmt |-> "mapped", raw |-> pic.raw, cal |-> pic.cal, mm |-> pic.mm,
             depth |-> pic.out, out |-> MapRgb(pic.cal, pic.out, junk)]

-----------------------------------------------------------------------------
(* Properties. *)

\* The camera pads nothing, and no depth of the frame shifts a pixel to the left by
\* more than the width of the picture.
NoLargeShift(mm) ==
  \A i \in Pixels : mm[i] \in 1 .. MaxMetric - 1 => DepthToRgb[mm[i]] >= -(Scale * DX)
Regular(s, mm) == s.start = 0 /\ NoLargeShift(mm)

\* All of a registered picture lies inside its buffer: no pixel that has left the
\* picture above or below comes back into it by the shift for its depth, so that
\* freenect_apply_registration() writes to nothing else; of a camera that pads nothing
\* and whose shifts are less than the width.
TargetsInFrame ==
  pic.fmt = "REGISTERED" /\ Regular(pic.cal, pic.mm) => \A t \in Memory \ Pixels : pic.out[t] = 0

\* A registered pixel is the nearest of the depths that fall on it, 0 if there is
\* none, whatever the order in which they come, the camera's padding and its shifts.
NearestWins ==
  pic.fmt = "REGISTERED" => \A t \in Pixels :
    LET here == {pic.mm[i] : i \in {j \in Pixels : /\ Aimed(pic.cal, j, pic.mm[j])
                                                   /\ Target(pic.cal, j, pic.mm[j]) = t}}
    IN  IF here = {} THEN pic.out[t] = 0
        ELSE pic.out[t] \in here /\ \A d \in here : pic.out[t] <= d

\* A picture in millimetres has a depth exactly where the camera saw one, none
\* above the largest.
MillimetresRight ==
  pic.fmt = "MM" => \A i \in Pixels :
    \E r \in Raws :
        /\ MadeOf(r, pic.raw, 11 * i, 11)
        /\ pic.out[i] \in 0 .. MaxMetric
        /\ r = NoRaw => pic.out[i] = 0
        /\ r # NoRaw /\ RawToMm[r] < MaxMetric => pic.out[i] = RawToMm[r]

\* freenect_map_rgb_to_depth() is the inverse of the registered picture, as its
\* comment says: a pixel with a depth in range takes its colour from the very place
\* where the registered picture of the same frame shows that pixel's depth, and one
\* that is left alone is hidden there by a nearer one.  Not so of a camera that pads
\* its picture: the offset is taken from a pixel's index there, from its line here.
MapsBack ==
  LET reg == ApplyRegistration(pic.cal, pic.mm)
  IN  \A i \in Pixels : pic.depth[i] \in 1 .. MaxMetric - 1 =>
        /\ pic.out[i].from # "outside"
        /\ pic.out[i].from = "rgb" => reg[pic.out[i].at] = pic.depth[i]
        /\ pic.out[i].from = "old" => reg[Target(pic.cal, i, pic.depth[i])] < pic.depth[i]
        /\ pic.out[i].from = "black" => ~Aimed(pic.cal, i, pic.depth[i])
MapInverse == pic.fmt = "mapped" /\ Regular(pic.cal, pic.mm) => MapsBack

\* The nearest of several pixels wins, and depth in millimetres is that of the frame;
\* of a regular camera aligned depth stays in the picture, and colours mapped to depth
\* are those of the same point.
RegistrationRight == TargetsInFrame /\ NearestWins /\ MillimetresRight /\ MapInverse
=============================================================================
