---------------------------- MODULE BoxGeometry ----------------------------
(***************************************************************************)
(* Boxes of blocks on their way from the layout answer of the VLM to the   *)
(* outputs (src/src/vlm/parser.rs and src/src/vlm/python_compat.rs).       *)
(*                                                                         *)
(* A box is <<x1, y1, x2, y2>>.  The code keeps fractions of a page in     *)
(* floats; here they are thousandths, which is what the VLM answers, and   *)
(* the arithmetic is exact.                                                *)
(***************************************************************************)
EXTENDS Integers, Sequences

CONSTANT None

Floor(n, d) == n \div d
Ceiling(n, d) == (n + d - 1) \div d
Lesser(a, b) == IF a < b THEN a ELSE b
Greater(a, b) == IF a < b THEN b ELSE a

Ordered(a, b) == IF b < a THEN <<b, a>> ELSE <<a, b>>

ConvertBbox(v) ==
    LET x == Ordered(v[1], v[3])
        y == Ordered(v[2], v[4])
    IN  IF (\E i \in 1..4 : v[i] > 1000) \/ x[1] = x[2] \/ y[1] = y[2] THEN None
        ELSE <<x[1], y[1], x[2], y[2]>>

(* crop_block_image, one side: the pixels from first to before last. *)
CropSide(from, to, pixels) ==
    [first |-> Floor(from * pixels, 1000), last |-> Lesser(Ceiling(to * pixels, 1000), pixels)]

(* The nearest number, as the image library rounds the sides it is asked   *)
(* for, keeping their ratio.                                               *)
Rounded(n, d) == (2 * n + d) \div (2 * d)

(* resize_by_need: long strips are padded to 1:50, then both sides grow    *)
(* until the shorter one has 28 pixels.                                    *)
Padded(size) ==
    LET long  == Greater(size[1], size[2])
        short == Greater(Lesser(size[1], size[2]), 1)
    IN  IF long <= 50 * short THEN size
        ELSE IF size[1] > size[2] THEN <<size[1], Ceiling(size[1], 50)>>
        ELSE <<Ceiling(size[2], 50), size[2]>>

ResizeByNeed(size) ==
    LET p     == Padded(size)
        short == Greater(Lesser(p[1], p[2]), 1)
    IN  IF short >= 28 THEN p ELSE <<Rounded(p[1] * 28, short), Rounded(p[2] * 28, short)>>

(* Faulty: a box thinner than a point stays. *)
NormalizedToPointBboxThin(v, width, height) ==
    <<Floor(v[1] * width, 1000), Floor(v[2] * height, 1000),
      Floor(v[3] * width, 1000), Floor(v[4] * height, 1000)>>

(* normalized_to_point_bbox: a box thinner than a point is no box. *)
NormalizedToPointBbox(v, width, height) ==
    LET x == Ordered(Floor(v[1] * width, 1000), Floor(v[3] * width, 1000))
        y == Ordered(Floor(v[2] * height, 1000), Floor(v[4] * height, 1000))
    IN  IF x[1] < x[2] /\ y[1] < y[2] THEN <<x[1], y[1], x[2], y[2]>> ELSE None

(* write_python_crop, one side: points to pixels. *)
PythonCropSide(from, to, points, pixels) ==
    [first |-> Floor(from * pixels, Greater(points, 1)),
     last  |-> Lesser(Ceiling(to * pixels, Greater(points, 1)), pixels)]

(* Division by zero panics; a page that has a block has a width and a height. *)
BboxToContentBbox(b, size) ==
    <<Floor(b[1] * 1000, size[1]), Floor(b[2] * 1000, size[2]),
      Floor(b[3] * 1000, size[1]), Floor(b[4] * 1000, size[2])>>

(* overlap_ratio >= 0.8: how much of a lies in b. *)
MostlyIn(a, b) ==
    LET w    == Lesser(a[3], b[3]) - Greater(a[1], b[1])
        h    == Lesser(a[4], b[4]) - Greater(a[2], b[2])
        area == Greater(a[3] - a[1], 1) * Greater(a[4] - a[2], 1)
    IN  w > 0 /\ h > 0 /\ 10 * w * h >= 8 * area

Gap(from, to, otherFrom, otherTo) ==
    IF to < otherFrom THEN otherFrom - to ELSE IF otherTo < from THEN from - otherTo ELSE 0

BboxDistance(a, b) == Gap(a[1], a[3], b[1], b[3]) + Gap(a[2], a[4], b[2], b[4])
=============================================================================
