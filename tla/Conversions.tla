---------------------------- MODULE Conversions ----------------------------
(***************************************************************************)
(* What becomes of a complete frame (src/src/cameras.c): depth_process()    *)
(* and video_process() convert it into the format the client asked for.     *)
(*                                                                          *)
(* A frame is a function from 0 to its bytes.  The pixels are the real      *)
(* ones, the frames small.  Shifts and masks are written as arithmetic: the *)
(* parts that are combined with | never overlap.                            *)
(***************************************************************************)
EXTENDS Integers, Sequences

CONSTANTS W, H           \* width and height of a Bayer picture

ASSUME ConversionsAssumption == W \in Nat \ {0, 1} /\ H \in Nat \ {0, 1}

VARIABLE pic             \* the last picture handed out: [fmt, raw, out]

NoPic == [fmt |-> "none", raw |-> <<>>, out |-> <<>>]

-----------------------------------------------------------------------------
(* Unpacking. *)

\* unpack_8_pixels(), and a round of convert_packed11_to_16bit()
\* Mutant: the mask of a pixel that begins inside a byte is forgotten.
MutUnpack8(r, b) ==
  [i \in 0 .. 7 |-> CASE i = 0 -> r[b] * 8 + r[b+1] \div 32
                      [] i = 4 -> r[b+5] * 128 + r[b+6] \div 2
                      [] OTHER -> (r[b+9] * 256 + r[b+10]) % 2048]
Unpack8(r, b) ==
  [i \in 0 .. 7 |->
     CASE i = 0 -> r[b] * 8 + r[b+1] \div 32
       [] i = 1 -> (r[b+1] * 64 + r[b+2] \div 4) % 2048
       [] i = 2 -> (r[b+2] * 512 + r[b+3] * 2 + r[b+4] \div 128) % 2048
       [] i = 3 -> (r[b+4] * 16 + r[b+5] \div 16) % 2048
       [] i = 4 -> (r[b+5] * 128 + r[b+6] \div 2) % 2048
       [] i = 5 -> (r[b+6] * 1024 + r[b+7] * 4 + r[b+8] \div 64) % 2048
       [] i = 6 -> (r[b+8] * 32 + r[b+9] \div 8) % 2048
       [] i = 7 -> (r[b+9] * 256 + r[b+10]) % 2048]

\* convert_packed11_to_16bit(): n pixels, n a multiple of 8.
Packed11To16(raw, n) == [i \in 0 .. n - 1 |-> Unpack8(raw, 11 * (i \div 8))[i % 8]]

\* The inner loop of convert_packed_to_16bit() and convert_packed_to_8bit(): bytes
\* are shifted into the buffer until it holds the vw bits of an element, of which
\* there are at most 16.  Of the 32 bits of the buffer no more than 24 are used.
ShiftIn(st, raw) ==
  [buffer |-> (st.buffer % 65536) * 256 + raw[st.src], bitsIn |-> st.bitsIn + 8, src |-> st.src + 1]
Fill(st, raw, vw) ==
  LET more(t) == IF t.bitsIn < vw THEN ShiftIn(t, raw) ELSE t
  IN  more(more(st))

\* The outer loop: how things are when element i has been read into the buffer.
Elements(raw, vw, n) ==
  LET element[i \in 0 .. n - 1] ==
        Fill(IF i = 0 THEN [buffer |-> 0, bitsIn |-> 0, src |-> 0]
             ELSE [element[i - 1] EXCEPT !.bitsIn = element[i - 1].bitsIn - vw], raw, vw)
  IN  element

PackedTo16(raw, vw, n) ==
  LET element == Elements(raw, vw, n)
  IN  [i \in 0 .. n - 1 |-> (element[i].buffer \div 2^(element[i].bitsIn - vw)) % 2^vw]
PackedTo8(raw, vw, n) ==
  LET element == Elements(raw, vw, n)
  IN  [i \in 0 .. n - 1 |-> (element[i].buffer \div 2^(element[i].bitsIn - 8)) % 256]

-----------------------------------------------------------------------------
(* Colours. *)

\* C's division rounds towards zero.
TDiv(a, b) == IF a >= 0 THEN a \div b ELSE -((-a) \div b)
\* Mutant: a value below the range wraps around.
MutClamp255(x) == IF x > 255 THEN 255 ELSE x % 256
Clamp255(x) == IF x < 0 THEN 0 ELSE IF x > 255 THEN 255 ELSE x

\* convert_uyvy_to_rgb(): the bytes of two pixels are u, y1, v, y2.
UyvyToRgb(raw, n) ==
  [k \in 0 .. 3 * n - 1 |->
     LET p == k \div 3
         at == 4 * (p \div 2)
         u == raw[at] - 128
         v == raw[at + 2] - 128
         y == TDiv((raw[at + 1 + 2 * (p % 2)] - 16) * 1164, 1000)
     IN  Clamp255(CASE k % 3 = 0 -> y + TDiv(v * 1596, 1000)
                    [] k % 3 = 1 -> y - TDiv(v * 813, 1000) - TDiv(u * 391, 1000)
                    [] OTHER -> y + TDiv(u * 2018, 1000))]

\* convert_bayer_to_rgb().  hVals[x] and vSums[x] are the shift buffers at column
\* x, as <<previous, current, next>>: of this line, and of the averages of the
\* lines above and below.
Avg(a, b) == (a + b) \div 2
ShiftBuffer(line) ==
  LET buf[x \in 0 .. W - 1] ==
        IF x = 0 THEN <<line[1], line[0], line[1]>>
        ELSE <<buf[x-1][2], buf[x-1][3], IF x < W - 1 THEN line[x+1] ELSE buf[x-1][2]>>
  IN  buf

\* The lines above and below, mirrored at the border.
\* Mutant: the line below the last one is the last one itself.
MutNextLine(y) == IF y < H - 1 THEN y + 1 ELSE y
PrevLine(y) == IF y > 0 THEN y - 1 ELSE y + 1
NextLine(y) == IF y < H - 1 THEN y + 1 ELSE y - 1

BayerPixel(h, v, yOdd, xOdd) ==
  LET hSum == Avg(h[1], h[3])
      cross == Avg(hSum, v[2])
      corners == Avg(v[1], v[3])
  IN  CASE ~yOdd /\ ~xOdd -> <<hSum, h[2], v[2]>>
        [] ~yOdd /\ xOdd -> <<h[2], cross, corners>>
        [] yOdd /\ ~xOdd -> <<corners, cross, h[2]>>
        [] yOdd /\ xOdd -> <<v[2], h[2], hSum>>

BayerToRgb(raw) ==
  LET line(y) == [x \in 0 .. W - 1 |-> raw[y * W + x]]
      hVals == [y \in 0 .. H - 1 |-> ShiftBuffer(line(y))]
      vSums == [y \in 0 .. H - 1 |->
                  ShiftBuffer([x \in 0 .. W - 1 |->
                                 Avg(line(PrevLine(y))[x], line(NextLine(y))[x])])]
  IN  [i \in 0 .. W * H - 1 |->
         LET x == i % W
             y == i \div W
         IN  BayerPixel(hVals[y][x], vSums[y][x], y % 2 = 1, x % 2 = 1)]

\* video_process() when a frame is complete; the other formats are handed out as
\* they came.
VideoFrame(fmt, raw, n) ==
  pic' = [fmt |-> fmt, raw |-> raw,
          out |-> CASE fmt = "RGB" -> BayerToRgb(raw)
                    [] fmt = "IR_10BIT" -> PackedTo16(raw, 10, n)
                    [] fmt = "IR_8BIT" -> PackedTo8(raw, 10, n)
                    [] fmt = "YUV_RGB" -> UyvyToRgb(raw, n)
                    [] OTHER -> raw]

-----------------------------------------------------------------------------
(* Properties. *)

\* A number is made of the frame's bits from number at on, most significant first.
Bit(raw, j) == (raw[j \div 8] \div 2^(7 - (j % 8))) % 2
MadeOf(value, raw, at, width) ==
  /\ value \in 0 .. 2^width - 1
  /\ \A k \in 0 .. width - 1 : (value \div 2^(width - 1 - k)) % 2 = Bit(raw, at + k)

\* Unpacking loses no bit and mixes no pixels: pixel i is bits i*vw .. i*vw+vw-1 of
\* the frame, in the unrolled loop and in the general ones, whatever the place of
\* the pixel in its bytes; eight-bit pictures keep the upper eight bits.
UnpackExact ==
  LET vw == IF pic.fmt = "11BIT" THEN 11 ELSE 10
  IN  pic.fmt \in {"11BIT", "10BIT", "IR_10BIT", "IR_8BIT"} =>
        \A i \in DOMAIN pic.out :
          MadeOf(pic.out[i], pic.raw, i * vw, IF pic.fmt = "IR_8BIT" THEN 8 ELSE vw)

\* Every colour of every pixel is what the comment in convert_bayer_to_rgb() gives
\* for its place in the pattern, borders mirrored: the pixel's own value, the mean
\* of two neighbours rounded down, or the mean of four, which the two roundings
\* make at most one smaller.
Mirror(i, n) == IF i < 0 THEN 1 ELSE IF i >= n THEN n - 2 ELSE i
BayerRight ==
  pic.fmt = "RGB" => \A i \in DOMAIN pic.out :
    LET x == i % W
        y == i \div W
        at(dx, dy) == pic.raw[Mirror(y + dy, H) * W + Mirror(x + dx, W)]
        across == at(-1, 0) + at(1, 0)
        updown == at(0, -1) + at(0, 1)
        diag == at(-1, -1) + at(1, -1) + at(-1, 1) + at(1, 1)
        Two(c, s) == c = s \div 2
        Four(c, s) == s - 4 <= 4 * c /\ 4 * c <= s
        \* red in even lines and blue in odd ones, and the other
        own == IF y % 2 = 0 THEN pic.out[i][1] ELSE pic.out[i][3]
        other == IF y % 2 = 0 THEN pic.out[i][3] ELSE pic.out[i][1]
    IN  IF (x + y) % 2 = 0
        THEN pic.out[i][2] = at(0, 0) /\ Two(own, across) /\ Two(other, updown)
        ELSE own = at(0, 0) /\ Four(pic.out[i][2], across + updown) /\ Four(other, diag)

\* Colours made from YUV are bytes, and within three steps of the exact value
\* brought into range, for every combination of luminance and chrominance.
YuvRight ==
  pic.fmt = "YUV_RGB" => \A k \in DOMAIN pic.out :
    LET at == 4 * (k \div 6)
        u == pic.raw[at] - 128
        v == pic.raw[at + 2] - 128
        y == (pic.raw[at + 1 + 2 * ((k \div 3) % 2)] - 16) * 1164
        exact == CASE k % 3 = 0 -> y + v * 1596
                   [] k % 3 = 1 -> y - v * 813 - u * 391
                   [] OTHER -> y + u * 2018
        inRange == IF exact < 0 THEN 0 ELSE IF exact > 255000 THEN 255000 ELSE exact
    IN  /\ pic.out[k] \in 0 .. 255
        /\ inRange - 3000 <= 1000 * pic.out[k] /\ 1000 * pic.out[k] <= inRange + 3000

\* The pixels of every format are cut out of the bytes, interpolated and
\* converted as their reference definitions say.
PixelsExact == UnpackExact /\ BayerRight /\ YuvRight
=============================================================================
