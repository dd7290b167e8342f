------------------------ MODULE ParsedOutputProofs -------------------------
(***************************************************************************)
(* Proofs about ParsedOutput.  The arithmetic of its boxes, for pages and  *)
(* images of any size: a block the layout answer has always gives pixels   *)
(* to read, inside its page.  That every box of every document, from the   *)
(* layout answer to the content lists, is such a box.  That a page keeps   *)
(* all its blocks, each in one place, every line of its text, and its      *)
(* captions at their figures.  That its images are written under the names *)
(* the outputs use, that the outputs agree on what they hold, and that     *)
(* text shows as text wherever markup is read.                             *)
(***************************************************************************)
EXTENDS ParsedOutput, DataLemmas

(* An interval of a page of the given extent, which is not empty. *)
Side(from, to, extent) == from \in Nat /\ to \in Nat /\ from < to /\ to <= extent

(* A box whose sides are both such. *)
BoxOf(b, width, height) == Side(b[1], b[3], width) /\ Side(b[2], b[4], height)

-----------------------------------------------------------------------------
LEMMA SideWithin ==
    ASSUME NEW extent \in Nat, NEW from, NEW to, Side(from, to, extent)
    PROVE  from \in 0..extent /\ to \in 0..extent /\ from < to /\ from \in Nat /\ to \in Nat
BY DEF Side

LEMMA ScaledOrder ==
    ASSUME NEW a \in Nat, NEW b \in Nat, NEW n \in Nat \ {0}, a < b
    PROVE  a * n \in Nat /\ b * n \in Nat /\ a * n < b * n
<1>1. b - a \in Nat /\ b - a >= 1 /\ n >= 1
    OBVIOUS
<1>2. (b - a) * n >= 1
    BY <1>1
<1>3. (b - a) * n = b * n - a * n
    OBVIOUS
<1>4. a * n \in Nat /\ b * n \in Nat
    OBVIOUS
<1> QED BY <1>2, <1>3, <1>4

LEMMA FloorBounds ==
    ASSUME NEW m \in Nat, NEW d \in Nat \ {0}
    PROVE  Floor(m, d) \in Nat /\ Floor(m, d) * d <= m /\ m < (Floor(m, d) + 1) * d
BY DEF Floor

(* A quotient is below whatever its numerator is below when multiplied. *)
LEMMA FloorBelow ==
    ASSUME NEW m \in Nat, NEW d \in Nat \ {0}, NEW k \in Nat, m < k * d
    PROVE  Floor(m, d) < k
<1>1. Floor(m, d) \in Nat /\ Floor(m, d) * d <= m
    BY FloorBounds
<1>2. CASE k <= Floor(m, d)
    <2>1. k * d <= Floor(m, d) * d
        <3>1. CASE k = Floor(m, d)
            BY <3>1, <1>1
        <3>2. CASE k < Floor(m, d)
            BY <3>2, <1>1, ScaledOrder
        <3> QED BY <1>1, <1>2, <3>1, <3>2
    <2>2. k * d \in Nat /\ Floor(m, d) * d \in Nat
        BY <1>1
    <2> QED BY <1>1, <2>1, <2>2
<1> QED BY <1>1, <1>2

LEMMA CeilingBounds ==
    ASSUME NEW m \in Nat, NEW d \in Nat \ {0}
    PROVE  Ceiling(m, d) \in Nat /\ m <= Ceiling(m, d) * d
<1>1. m + d - 1 \in Nat /\ Ceiling(m, d) = Floor(m + d - 1, d)
    BY DEF Ceiling, Floor
<1>2. Ceiling(m, d) \in Nat /\ m + d - 1 < (Ceiling(m, d) + 1) * d
    BY <1>1, FloorBounds
<1>3. (Ceiling(m, d) + 1) * d = Ceiling(m, d) * d + d
    BY <1>2
<1>4. Ceiling(m, d) * d \in Nat
    BY <1>2
<1> QED BY <1>2, <1>3, <1>4

(* Rounding outwards leaves something between two different numbers. *)
LEMMA RoundedApart ==
    ASSUME NEW m \in Nat, NEW n \in Nat, NEW d \in Nat \ {0}, m < n
    PROVE  Floor(m, d) < Ceiling(n, d)
<1>1. Ceiling(n, d) \in Nat /\ m < Ceiling(n, d) * d
    <2>1. Ceiling(n, d) \in Nat /\ n <= Ceiling(n, d) * d
        BY CeilingBounds
    <2>2. Ceiling(n, d) * d \in Nat
        BY <2>1
    <2> QED BY <2>1, <2>2
<1> QED BY <1>1, FloorBelow

(* A side of a box, in units of which the page has `extent`, as pixels of  *)
(* an image: rounded outwards and cut at the edge.                         *)
LEMMA PixelsOfSide ==
    ASSUME NEW from \in Nat, NEW to \in Nat, NEW extent \in Nat \ {0}, NEW pixels \in Nat \ {0},
           from < to, to <= extent,
           NEW first, first = Floor(from * pixels, extent),
           NEW last, last = Lesser(Ceiling(to * pixels, extent), pixels)
    PROVE  first \in Nat /\ last \in Nat /\ first < last /\ last <= pixels
<1>1. from * pixels \in Nat /\ to * pixels \in Nat /\ from * pixels < to * pixels
    BY ScaledOrder
<1>2. first \in Nat /\ first < Ceiling(to * pixels, extent) /\ Ceiling(to * pixels, extent) \in Nat
    BY <1>1, RoundedApart, FloorBounds, CeilingBounds
<1>3. first < pixels
    <2>1. from * pixels < pixels * extent
        <3>1. from < extent
            OBVIOUS
        <3>2. from * pixels < extent * pixels
            BY <3>1, ScaledOrder
        <3> QED BY <3>2
    <2> QED BY <1>1, <2>1, FloorBelow
<1> QED BY <1>2, <1>3 DEF Lesser

(* A point of the page, in other units. *)
LEMMA ScaledWithin ==
    ASSUME NEW extent \in Nat \ {0}, NEW a \in 0..extent, NEW n \in Nat \ {0}
    PROVE  Floor(a * n, extent) \in 0..n
<1>1. a * n \in Nat /\ a * n <= extent * n /\ extent * n \in Nat
    <2>1. CASE a = extent
        BY <2>1
    <2>2. CASE a < extent
        BY <2>2, ScaledOrder
    <2> QED BY <2>1, <2>2
<1>2. (n + 1) * extent = extent * n + extent
    OBVIOUS
<1>3. a * n < (n + 1) * extent
    BY <1>1, <1>2
<1>4. Floor(a * n, extent) \in Nat /\ Floor(a * n, extent) < n + 1
    <2> DEFINE m == a * n
               k == n + 1
    <2>1. m \in Nat /\ k \in Nat /\ m < k * extent
        BY <1>1, <1>3
    <2> HIDE DEF m, k
    <2>2. Floor(m, extent) \in Nat /\ Floor(m, extent) < k
        BY <2>1, FloorBounds, FloorBelow
    <2> QED BY <2>2 DEF m, k
<1> QED BY <1>4

-----------------------------------------------------------------------------
(* convert_bbox: whatever corners the VLM answers, in whatever order, a    *)
(* box that is accepted has an extent and lies in the page.                *)
THEOREM ConvertedBoxInPage ==
    ASSUME NEW v, v[1] \in Nat, v[2] \in Nat, v[3] \in Nat, v[4] \in Nat, ConvertBbox(v) # None
    PROVE  BoxOf(ConvertBbox(v), 1000, 1000)
<1> DEFINE x == Ordered(v[1], v[3])
           y == Ordered(v[2], v[4])
           b == ConvertBbox(v)
<1>1. \A i \in 1..4 : ~(v[i] > 1000)
    BY DEF ConvertBbox
<1>2. v[1] <= 1000 /\ v[2] <= 1000 /\ v[3] <= 1000 /\ v[4] <= 1000
    <2>1. ~(v[1] > 1000) /\ ~(v[2] > 1000) /\ ~(v[3] > 1000) /\ ~(v[4] > 1000)
        BY <1>1
    <2> QED BY <2>1
<1>3. x[1] # x[2] /\ y[1] # y[2] /\ b = <<x[1], y[1], x[2], y[2]>>
    BY DEF ConvertBbox
<1>4. Side(x[1], x[2], 1000) /\ Side(y[1], y[2], 1000)
    BY <1>2, <1>3 DEF Ordered, Side
<1>5. b[1] = x[1] /\ b[2] = y[1] /\ b[3] = x[2] /\ b[4] = y[2]
    BY <1>3
<1> HIDE DEF x, y, b
<1>6. BoxOf(b, 1000, 1000)
    BY <1>4, <1>5 DEF BoxOf
<1> QED BY <1>6 DEF b

(* crop_block_image: such a box has pixels to read in an image of any      *)
(* size, inside the image.                                                 *)
THEOREM CropHasPixels ==
    ASSUME NEW from \in Nat, NEW to \in Nat, Side(from, to, 1000), NEW pixels \in Nat \ {0}
    PROVE  LET side == CropSide(from, to, pixels)
           IN  side.first \in Nat /\ side.first < side.last /\ side.last <= pixels
<1> DEFINE side   == CropSide(from, to, pixels)
           extent == 1000
<1>1. /\ side.first = Floor(from * pixels, extent)
      /\ side.last = Lesser(Ceiling(to * pixels, extent), pixels)
    BY DEF CropSide
<1>2. from < to /\ to <= extent /\ extent \in Nat \ {0}
    BY DEF Side
<1> HIDE DEF side, extent
<1>3. side.first \in Nat /\ side.first < side.last /\ side.last <= pixels
    BY <1>1, <1>2, PixelsOfSide
<1> QED BY <1>3 DEF side

(* normalized_to_point_bbox: what is left of it in points has an extent    *)
(* and lies in the page.                                                   *)
THEOREM PointBoxInPage ==
    ASSUME NEW width \in Nat \ {0}, NEW height \in Nat \ {0},
           NEW v, BoxOf(v, 1000, 1000), NormalizedToPointBbox(v, width, height) # None
    PROVE  BoxOf(NormalizedToPointBbox(v, width, height), width, height)
<1> DEFINE extent == 1000
           left   == Floor(v[1] * width, extent)
           right  == Floor(v[3] * width, extent)
           top    == Floor(v[2] * height, extent)
           bottom == Floor(v[4] * height, extent)
           b      == NormalizedToPointBbox(v, width, height)
<1>1. extent \in Nat \ {0}
    OBVIOUS
<1>2. extent = 1000
    OBVIOUS
<1> HIDE DEF extent
<1>3. Side(v[1], v[3], extent) /\ Side(v[2], v[4], extent)
    BY <1>2 DEF BoxOf
<1>4. ASSUME NEW from, NEW to, Side(from, to, extent)
      PROVE  from \in 0..extent /\ to \in 0..extent
    BY <1>1, <1>4 DEF Side
<1>5. v[1] \in 0..extent /\ v[3] \in 0..extent
    BY <1>3, <1>4
<1>6. v[2] \in 0..extent /\ v[4] \in 0..extent
    BY <1>3, <1>4
<1>7. left \in 0..width /\ right \in 0..width /\ top \in 0..height /\ bottom \in 0..height
    <2>1. left \in 0..width
        BY <1>1, <1>5, <1>6, ScaledWithin
    <2>2. right \in 0..width
        BY <1>1, <1>5, <1>6, ScaledWithin
    <2>3. top \in 0..height
        BY <1>1, <1>5, <1>6, ScaledWithin
    <2>4. bottom \in 0..height
        BY <1>1, <1>5, <1>6, ScaledWithin
    <2> QED BY <2>1, <2>2, <2>3, <2>4
<1> USE DEF extent
<1>8. b = IF /\ Ordered(left, right)[1] < Ordered(left, right)[2]
             /\ Ordered(top, bottom)[1] < Ordered(top, bottom)[2]
          THEN <<Ordered(left, right)[1], Ordered(top, bottom)[1],
                 Ordered(left, right)[2], Ordered(top, bottom)[2]>>
          ELSE None
    BY DEF NormalizedToPointBbox
<1> HIDE DEF extent, left, right, top, bottom, b
<1>9. b # None
    BY DEF b
<1>10. /\ Ordered(left, right)[1] < Ordered(left, right)[2]
       /\ Ordered(top, bottom)[1] < Ordered(top, bottom)[2]
       /\ b = <<Ordered(left, right)[1], Ordered(top, bottom)[1],
                Ordered(left, right)[2], Ordered(top, bottom)[2]>>
    BY <1>8, <1>9
<1>11. /\ Side(Ordered(left, right)[1], Ordered(left, right)[2], width)
       /\ Side(Ordered(top, bottom)[1], Ordered(top, bottom)[2], height)
    BY <1>7, <1>10 DEF Ordered, Side
<1>12. BoxOf(b, width, height)
    BY <1>10, <1>11 DEF BoxOf
<1> QED BY <1>12 DEF b

(* write_python_crop: and again it has pixels to read in the page's image, *)
(* whatever the resolution.                                                *)
THEOREM PythonCropHasPixels ==
    ASSUME NEW points \in Nat \ {0}, NEW from \in Nat, NEW to \in Nat, Side(from, to, points),
           NEW pixels \in Nat \ {0}
    PROVE  LET side == PythonCropSide(from, to, points, pixels)
           IN  side.first \in Nat /\ side.first < side.last /\ side.last <= pixels
<1> DEFINE side == PythonCropSide(from, to, points, pixels)
<1>1. Greater(points, 1) = points
    BY DEF Greater
<1>2. /\ side.first = Floor(from * pixels, points)
      /\ side.last = Lesser(Ceiling(to * pixels, points), pixels)
    BY <1>1 DEF PythonCropSide
<1>3. from < to /\ to <= points
    BY DEF Side
<1> HIDE DEF side
<1>4. side.first \in Nat /\ side.first < side.last /\ side.last <= pixels
    BY <1>2, <1>3, PixelsOfSide
<1> QED BY <1>4 DEF side

LEMMA FloorMonotone ==
    ASSUME NEW a \in Nat, NEW b \in Nat, a < b, NEW n \in Nat \ {0}, NEW d \in Nat \ {0}
    PROVE  Floor(a * n, d) <= Floor(b * n, d)
<1> DEFINE m == a * n
           k == b * n
<1>1. m \in Nat /\ k \in Nat /\ m < k
    BY ScaledOrder
<1> HIDE DEF m, k
<1>2. Floor(k, d) \in Nat /\ k < (Floor(k, d) + 1) * d /\ Floor(m, d) \in Nat
    BY <1>1, FloorBounds
<1> DEFINE above == Floor(k, d) + 1
<1>3. above \in Nat /\ m < above * d
    BY <1>1, <1>2
<1> HIDE DEF above
<1>4. Floor(m, d) < above
    BY <1>1, <1>3, FloorBelow
<1>5. Floor(m, d) <= Floor(k, d)
    BY <1>2, <1>4 DEF above
<1> QED BY <1>5 DEF m, k

(* A box of an entry of the content lists. *)
Inside(b, width, height) ==
    /\ 0 <= b[1] /\ b[1] <= b[3] /\ b[3] <= width
    /\ 0 <= b[2] /\ b[2] <= b[4] /\ b[4] <= height

(* bbox_to_content_bbox: the content lists place it within 0..1000.        *)
THEOREM ContentBoxInPage ==
    ASSUME NEW size, size[1] \in Nat \ {0}, size[2] \in Nat \ {0},
           NEW v, BoxOf(v, size[1], size[2])
    PROVE  Inside(BboxToContentBbox(v, size), 1000, 1000)
<1> DEFINE most == 1000
<1>1. most \in Nat \ {0}
    OBVIOUS
<1> HIDE DEF most
<1>2. PICK width, height : width = size[1] /\ height = size[2]
    OBVIOUS
<1>3. /\ width \in Nat \ {0} /\ height \in Nat \ {0}
      /\ v[1] \in 0..width /\ v[3] \in 0..width /\ v[2] \in 0..height /\ v[4] \in 0..height
      /\ v[1] < v[3] /\ v[2] < v[4] /\ v[1] \in Nat /\ v[2] \in Nat /\ v[3] \in Nat /\ v[4] \in Nat
    BY <1>2, SideWithin DEF BoxOf
<1>4. /\ Floor(v[1] * most, width) \in 0..most /\ Floor(v[2] * most, height) \in 0..most
      /\ Floor(v[3] * most, width) \in 0..most /\ Floor(v[4] * most, height) \in 0..most
    BY <1>1, <1>3, ScaledWithin
<1>5. /\ Floor(v[1] * most, width) <= Floor(v[3] * most, width)
      /\ Floor(v[2] * most, height) <= Floor(v[4] * most, height)
    BY <1>1, <1>3, FloorMonotone
<1>6. PICK left, top, right, bottom : /\ left = Floor(v[1] * most, width) /\ top = Floor(v[2] * most, height)
                                      /\ right = Floor(v[3] * most, width) /\ bottom = Floor(v[4] * most, height)
    OBVIOUS
<1>7. BboxToContentBbox(v, size) = <<left, top, right, bottom>>
    BY <1>2, <1>6 DEF BboxToContentBbox, most
<1>8. left \in 0..most /\ top \in 0..most /\ right \in 0..most /\ bottom \in 0..most
    BY <1>4, <1>6
<1>9. left <= right /\ top <= bottom
    BY <1>5, <1>6
<1> QED BY <1>7, <1>8, <1>9 DEF Inside, most

-----------------------------------------------------------------------------
LEMMA RoundedAbove ==
    ASSUME NEW m \in Nat, NEW d \in Nat \ {0}, NEW k \in Nat, k * d <= m
    PROVE  Rounded(m, d) \in Nat /\ k <= Rounded(m, d)
<1> DEFINE n == 2 * m + d
           e == 2 * d
<1>1. n \in Nat /\ e \in Nat \ {0} /\ k * e = 2 * (k * d) /\ k * d \in Nat
    OBVIOUS
<1>2. k * e \in Nat /\ k * e <= n
    BY <1>1
<1>3. Rounded(m, d) = Floor(n, e)
    BY DEF Rounded, Floor
<1> HIDE DEF n, e
<1> DEFINE q == Floor(n, e)
<1>4. q \in Nat /\ n < (q + 1) * e
    BY <1>1, FloorBounds
<1> HIDE DEF q
<1>5. CASE q < k
    <2>1. CASE q + 1 = k
        <3>1. (q + 1) * e = k * e
            BY <2>1
        <3> QED BY <1>1, <1>2, <1>4, <3>1
    <2>2. CASE q + 1 < k
        <3>1. (q + 1) * e < k * e /\ (q + 1) * e \in Nat
            BY <1>1, <1>4, <2>2, ScaledOrder
        <3> QED BY <1>1, <1>2, <1>4, <3>1
    <2> QED BY <1>4, <1>5, <2>1, <2>2
<1> QED BY <1>3, <1>4, <1>5 DEF q

(* A side grows to 28 and more when the shorter one grows to 28. *)
LEMMA GrownSide ==
    ASSUME NEW a \in Nat, NEW short \in Nat \ {0}, short <= a
    PROVE  Rounded(a * 28, short) \in Nat /\ Rounded(a * 28, short) >= 28
<1> DEFINE least == 28
<1>1. least \in Nat \ {0}
    OBVIOUS
<1> HIDE DEF least
<1>2. least * short <= a * least /\ a * least \in Nat
    <2>1. CASE a = short
        BY <1>1, <2>1
    <2>2. CASE short < a
        <3>1. short * least < a * least
            BY <1>1, <2>2, ScaledOrder
        <3> QED BY <1>1, <3>1
    <2> QED BY <2>1, <2>2
<1>3. Rounded(a * least, short) \in Nat /\ least <= Rounded(a * least, short)
    BY <1>1, <1>2, RoundedAbove
<1> QED BY <1>3 DEF least

(* resize_by_need: the canvas a long strip is pasted on holds it: the      *)
(* difference of their sides, halved, is never negative.                   *)
THEOREM CanvasHoldsImage ==
    ASSUME NEW width \in Nat \ {0}, NEW height \in Nat \ {0},
           NEW p, p = Padded(<<width, height>>)
    PROVE  /\ p[1] \in Nat \ {0} /\ p[1] >= width
           /\ p[2] \in Nat \ {0} /\ p[2] >= height
<1>1. ASSUME NEW long \in Nat \ {0}, NEW short \in Nat \ {0}, ~(long <= 50 * short)
      PROVE  Ceiling(long, 50) \in Nat \ {0} /\ Ceiling(long, 50) >= short
    BY <1>1 DEF Ceiling
<1>2. CASE Greater(width, height) <= 50 * Greater(Lesser(width, height), 1)
    <2>1. p = <<width, height>>
        BY <1>2 DEF Padded
    <2> QED BY <2>1
<1>3. CASE ~(Greater(width, height) <= 50 * Greater(Lesser(width, height), 1))
    <2>1. CASE width > height
        <3>1. p = <<width, Ceiling(width, 50)>> /\ ~(width <= 50 * height)
            BY <1>3, <2>1 DEF Padded, Greater, Lesser
        <3> QED BY <1>1, <3>1
    <2>2. CASE ~(width > height)
        <3>1. p = <<Ceiling(height, 50), height>> /\ ~(height <= 50 * width)
            BY <1>3, <2>2 DEF Padded, Greater, Lesser
        <3> QED BY <1>1, <3>1
    <2> QED BY <2>1, <2>2
<1> QED BY <1>2, <1>3

(* resize_by_need: whatever the crop's size, no side of the image that is  *)
(* sent to the VLM is below the 28 pixels it needs.                        *)
THEOREM ResizedLargeEnough ==
    ASSUME NEW width \in Nat \ {0}, NEW height \in Nat \ {0},
           NEW size, size = ResizeByNeed(<<width, height>>)
    PROVE  size[1] \in Nat /\ size[2] \in Nat /\ size[1] >= 28 /\ size[2] >= 28
<1> DEFINE p     == Padded(<<width, height>>)
           short == Greater(Lesser(p[1], p[2]), 1)
<1>1. p[1] \in Nat \ {0} /\ p[2] \in Nat \ {0}
    BY CanvasHoldsImage
<1>2. size = IF short >= 28 THEN p ELSE <<Rounded(p[1] * 28, short), Rounded(p[2] * 28, short)>>
    BY DEF ResizeByNeed
<1> HIDE DEF p
<1>3. short \in Nat \ {0} /\ short <= p[1] /\ short <= p[2]
    BY <1>1 DEF Lesser, Greater
<1> HIDE DEF short
<1>4. CASE short >= 28
    BY <1>1, <1>2, <1>3, <1>4
<1>5. CASE ~(short >= 28)
    <2>1. /\ Rounded(p[1] * 28, short) \in Nat /\ Rounded(p[1] * 28, short) >= 28
          /\ Rounded(p[2] * 28, short) \in Nat /\ Rounded(p[2] * 28, short) >= 28
        BY <1>1, <1>3, GrownSide
    <2> QED BY <1>2, <1>5, <2>1
<1> QED BY <1>4, <1>5

-----------------------------------------------------------------------------
(* The inductive invariant.                                                *)

(* A block has a box in a page of that size. *)
Boxed(b, width, height) == "bbox" \in DOMAIN b /\ BoxOf(b.bbox, width, height)

AllBoxed(s, width, height) == Listed(s) /\ \A i \in 1..Len(s) : Boxed(s[i], width, height)

(* What the layout answer divides a side of a page into. *)
Most == 1000

(* A page that is done: its size, and blocks in a page of that size. *)
PageBoxed(p) ==
    /\ p.size[1] \in Nat \ {0} /\ p.size[2] \in Nat \ {0}
    /\ AllBoxed(p.para, p.size[1], p.size[2]) /\ AllBoxed(p.discarded, p.size[1], p.size[2])

(* Between two pages there are no blocks; within one there is a page.      *)
ProgressInv ==
    /\ pages \in Seq(Pages)
    /\ page \in 1..Len(pages) + 1
    /\ phase \in {"idle", "layout", "convert", "crop", "merge", "failed", "finished"}
    /\ phase \in {"convert", "crop", "merge"} => page \in 1..Len(pages)
    /\ at \in 0..Len(para)
    /\ (output # <<>>) <=> (phase = "finished")

PageInv ==
    /\ AllBoxed(raw, Most, Most)
    /\ AllBoxed(blocks, pages[page].width, pages[page].height)
    /\ AllBoxed(para, pages[page].width, pages[page].height)
    /\ AllBoxed(discarded, pages[page].width, pages[page].height)

DoneInv ==
    /\ Listed(pdfInfo) /\ Len(pdfInfo) = page - 1
    /\ \A n \in 1..Len(pdfInfo) : PageBoxed(pdfInfo[n])

ContentInv ==
    output # <<>> => /\ Listed(output.contentList)
                     /\ \A i \in 1..Len(output.contentList) : Inside(output.contentList[i].bbox, 1000, 1000)

BoxesInv == ProgressInv /\ PageInv /\ DoneInv /\ ContentInv

-----------------------------------------------------------------------------
(* What a page is made of. *)
LEMMA PageFields ==
    ASSUME NEW p \in Pages
    PROVE  /\ p.width \in Nat \ {0} /\ p.height \in Nat \ {0}
           /\ p.pixels[1] \in Nat \ {0} /\ p.pixels[2] \in Nat \ {0}
           /\ p.segments \in Seq(Segments)
BY DEF Pages

LEMMA SegmentBox ==
    ASSUME NEW s \in Segments
    PROVE  s.box[1] \in Nat /\ s.box[2] \in Nat /\ s.box[3] \in Nat /\ s.box[4] \in Nat
BY DEF Segments

LEMMA SegmentConverted ==
    ASSUME NEW s \in Segments, ConvertBbox(s.box) # None
    PROVE  BoxOf(ConvertBbox(s.box), Most, Most)
<1>1. PICK v : v = s.box
    OBVIOUS
<1>2. v[1] \in Nat /\ v[2] \in Nat /\ v[3] \in Nat /\ v[4] \in Nat
    BY <1>1, SegmentBox
<1>3. ConvertBbox(v) # None
    BY <1>1
<1>4. BoxOf(ConvertBbox(v), 1000, 1000)
    BY <1>2, <1>3, ConvertedBoxInPage
<1> QED BY <1>1, <1>4 DEF Most

LEMMA BoxedElements ==
    ASSUME NEW width, NEW height, NEW S, \A b \in S : Boxed(b, width, height), NEW s \in Seq(S)
    PROVE  AllBoxed(s, width, height)
<1>1. \A i \in 1..Len(s) : s[i] \in S
    BY ElementOfSeq
<1> QED BY <1>1 DEF AllBoxed, Listed

LEMMA NoneOrOneBoxed ==
    ASSUME NEW width, NEW height
    PROVE  /\ AllBoxed(<<>>, width, height)
           /\ \A b : Boxed(b, width, height) => AllBoxed(<<b>>, width, height)
BY OneListed DEF AllBoxed

(* Boxes are joined from parts. *)
LEMMA FlattenBoxed ==
    ASSUME NEW width, NEW height, NEW n \in Nat, NEW parts, parts = [i \in 1..n |-> parts[i]],
           \A i \in 1..n : AllBoxed(parts[i], width, height)
    PROVE  AllBoxed(FlattenSeq(parts), width, height)
<1> DEFINE Elements(i) == {parts[i][j] : j \in 1..Len(parts[i])}
           S == UNION {Elements(i) : i \in 1..n}
<1>1. Listed(parts) /\ Len(parts) = n
    BY Listing
<1>2. ASSUME NEW i \in 1..n PROVE parts[i] \in Seq(S)
    <2>1. Len(parts[i]) \in Nat /\ parts[i] = [j \in 1..Len(parts[i]) |-> parts[i][j]]
        BY ListedFacts DEF AllBoxed
    <2>2. \A j \in 1..Len(parts[i]) : parts[i][j] \in S
        OBVIOUS
    <2> HIDE DEF S
    <2> QED BY <2>1, <2>2
<1>3. ASSUME NEW b \in S PROVE Boxed(b, width, height)
    <2>1. PICK i \in 1..n : b \in Elements(i)
        OBVIOUS
    <2> QED BY <2>1 DEF AllBoxed
<1> HIDE DEF S
<1>4. FlattenSeq(parts) \in Seq(S)
    BY <1>1, <1>2, FlattenElements
<1> QED BY <1>3, <1>4, BoxedElements

(* parse_layout_output: the blocks it makes have a box in the layout.      *)
LEMMA ParsedBoxed ==
    ASSUME NEW segments \in Seq(Segments)
    PROVE  AllBoxed(ParseLayoutOutput(segments), Most, Most)
<1> DEFINE Found(s) == IF ConvertBbox(s.box) # None /\ LayoutType(s) \in AllowedBlockTypes
                       THEN <<ContentBlock(s)>> ELSE <<>>
           parts == [i \in DOMAIN segments |-> Found(segments[i])]
<1>1. DOMAIN segments = 1..Len(segments) /\ Len(segments) \in Nat
    BY LenProperties
<1>2. ASSUME NEW i \in 1..Len(segments) PROVE AllBoxed(parts[i], Most, Most)
    <2> DEFINE s == segments[i]
    <2>1. s \in Segments
        BY ElementOfSeq
    <2>2. parts[i] = Found(s)
        BY <1>1
    <2>3. CASE ConvertBbox(s.box) # None
        <3>1. BoxOf(ConvertBbox(s.box), Most, Most)
            BY <2>1, <2>3, SegmentConverted
        <3>2. Boxed(ContentBlock(s), Most, Most)
            BY <3>1 DEF ContentBlock, Boxed
        <3> HIDE DEF s
        <3> QED BY <2>2, <3>2, NoneOrOneBoxed
    <2>4. CASE ~(ConvertBbox(s.box) # None)
        BY <2>2, <2>4, NoneOrOneBoxed
    <2> QED BY <2>3, <2>4
<1>3. parts = [i \in 1..Len(segments) |-> parts[i]]
    <2> HIDE DEF Found
    <2> QED BY <1>1
<1> HIDE DEF parts
<1>4. AllBoxed(FlattenSeq(parts), Most, Most)
    BY <1>1, <1>2, <1>3, FlattenBoxed
<1> QED BY <1>4 DEF ParseLayoutOutput, parts

(* post_process_raw_blocks: and they keep it. *)
LEMMA ProcessedBoxed ==
    ASSUME NEW bs, AllBoxed(bs, Most, Most)
    PROVE  AllBoxed(PostProcessRawBlocks(bs), Most, Most)
<1> DEFINE parts == [i \in DOMAIN bs |-> IF bs[i].type = "equation_block" THEN <<>> ELSE <<PostProcess(bs[i])>>]
<1>1. DOMAIN bs = 1..Len(bs) /\ Len(bs) \in Nat
    BY ListedFacts DEF AllBoxed
<1>2. ASSUME NEW i \in 1..Len(bs) PROVE AllBoxed(parts[i], Most, Most)
    <2>1. Boxed(bs[i], Most, Most)
        BY DEF AllBoxed
    <2>2. Boxed(PostProcess(bs[i]), Most, Most)
        BY <2>1 DEF PostProcess, Boxed
    <2>3. PICK b : b = PostProcess(bs[i])
        OBVIOUS
    <2>4. parts[i] = IF bs[i].type = "equation_block" THEN <<>> ELSE <<b>>
        BY <1>1, <2>3
    <2> HIDE DEF parts
    <2> QED BY <2>2, <2>3, <2>4, NoneOrOneBoxed
<1>3. parts = [i \in 1..Len(bs) |-> parts[i]]
    BY <1>1
<1> HIDE DEF parts
<1>4. AllBoxed(FlattenSeq(parts), Most, Most)
    BY <1>1, <1>2, <1>3, FlattenBoxed
<1> QED BY <1>4 DEF PostProcessRawBlocks, parts

(* raw_to_py_block: those that have a box in points have it in the page.   *)
LEMMA ConvertedBoxed ==
    ASSUME AllBoxed(raw, Most, Most), NEW i \in 1..Len(raw), pages[page] \in Pages, RawToPyBlock(i).bbox # None
    PROVE  Boxed(RawToPyBlock(i), pages[page].width, pages[page].height)
<1> DEFINE v == raw[i].bbox
<1>1. BoxOf(v, Most, Most)
    BY DEF AllBoxed, Boxed
<1>2. RawToPyBlock(i).bbox = NormalizedToPointBbox(v, pages[page].width, pages[page].height)
    BY DEF RawToPyBlock
<1>3. "bbox" \in DOMAIN RawToPyBlock(i)
    BY DEF RawToPyBlock
<1> HIDE DEF v
<1>4. PICK width, height : width = pages[page].width /\ height = pages[page].height
    OBVIOUS
<1>5. width \in Nat \ {0} /\ height \in Nat \ {0}
    BY <1>4, PageFields
<1>6. BoxOf(NormalizedToPointBbox(v, width, height), width, height)
    BY <1>1, <1>2, <1>4, <1>5, PointBoxInPage DEF Most
<1> QED BY <1>2, <1>3, <1>4, <1>6 DEF Boxed

-----------------------------------------------------------------------------
(* Steps. *)

LEMMA BoxesInit == ParseInit => BoxesInv
<1> SUFFICES ASSUME ParseInit PROVE BoxesInv
    OBVIOUS
<1>1. raw = <<>> /\ blocks = <<>> /\ para = <<>> /\ discarded = <<>> /\ pdfInfo = <<>> /\ output = <<>>
      /\ at = 0 /\ page = 1 /\ phase \in {"idle", "layout"}
    BY DEF ParseInit, Init, PageInit, NoVlmDocument
<1>2. pages \in Seq(Pages)
    <2>1. CASE \E n \in DOMAIN Documents : pages \in Documents[n]
        BY <2>1, DocumentAssumption
    <2>2. CASE pages = <<>>
        BY <2>2
    <2> QED BY <2>1, <2>2 DEF ParseInit, Init, PageInit, NoVlmDocument
<1>3. Len(pages) \in Nat /\ Len(<<>>) = 0 /\ Listed(<<>>)
    BY <1>2, LenProperties, OneListed
<1>4. ProgressInv
    BY <1>1, <1>2, <1>3 DEF ProgressInv
<1>5. PageInv
    BY <1>1, NoneOrOneBoxed DEF PageInv
<1>6. DoneInv
    BY <1>1, <1>3 DEF DoneInv
<1>7. ContentInv
    BY <1>1 DEF ContentInv
<1> QED BY <1>4, <1>5, <1>6, <1>7 DEF BoxesInv

(* The page being built. *)
LEMMA ThisPage ==
    ASSUME ProgressInv, phase \in {"convert", "crop", "merge"}
    PROVE  pages[page] \in Pages
BY ElementOfSeq DEF ProgressInv

(* A step within a page that keeps what is done and what is read of it. *)
LEMMA KeptDone ==
    ASSUME BoxesInv, UNCHANGED <<page, pdfInfo, output>>
    PROVE  DoneInv' /\ ContentInv'
BY DEF BoxesInv, DoneInv, ContentInv

LEMMA ReadLayoutStep ==
    ASSUME BoxesInv, ReadLayout, UNCHANGED <<pdfInfo, output>>
    PROVE  BoxesInv'
<1> USE DEF BoxesInv
<1>1. phase = "layout" /\ page <= Len(pages) /\ phase' = "convert"
    BY DEF ReadLayout
<1>2. UNCHANGED <<pages, page, blocks, para, discarded, at, pdfInfo, output>>
    BY DEF ReadLayout
<1>3. page \in 1..Len(pages) /\ pages \in Seq(Pages) /\ Len(pages) \in Nat
    BY <1>1, LenProperties DEF ProgressInv
<1>4. pages[page] \in Pages
    BY <1>3, ElementOfSeq
<1>5. AllBoxed(raw', Most, Most)
    BY <1>4, PageFields, ParsedBoxed, ProcessedBoxed DEF ReadLayout
<1>6. ProgressInv'
    BY <1>1, <1>2, <1>3 DEF ProgressInv
<1>7. PageInv'
    BY <1>2, <1>5 DEF PageInv
<1>8. DoneInv' /\ ContentInv'
    BY <1>2, KeptDone
<1> QED BY <1>6, <1>7, <1>8

LEMMA ConvertBlocksStep ==
    ASSUME BoxesInv, ConvertBlocks, UNCHANGED <<pdfInfo, output>>
    PROVE  BoxesInv'
<1> USE DEF BoxesInv
<1>1. phase = "convert" /\ phase' = "crop"
    BY DEF ConvertBlocks
<1>2. UNCHANGED <<pages, page, raw, para, discarded, at, pdfInfo, output>>
    BY DEF ConvertBlocks
<1> DEFINE parts == [i \in DOMAIN raw |-> IF RawToPyBlock(i).bbox = None THEN <<>> ELSE <<RawToPyBlock(i)>>]
<1>3. pages[page] \in Pages
    BY <1>1, ThisPage
<1>4. AllBoxed(raw, Most, Most) /\ DOMAIN raw = 1..Len(raw) /\ Len(raw) \in Nat
    BY ListedFacts DEF PageInv, AllBoxed
<1>5. PICK width, height : width = pages[page].width /\ height = pages[page].height
    OBVIOUS
<1>6. ASSUME NEW i \in 1..Len(raw) PROVE AllBoxed(parts[i], width, height)
    <2>1. PICK b : b = RawToPyBlock(i)
        OBVIOUS
    <2>2. parts[i] = IF b.bbox = None THEN <<>> ELSE <<b>>
        BY <1>4, <2>1
    <2>3. b.bbox # None => Boxed(b, width, height)
        BY <1>3, <1>4, <1>5, <2>1, ConvertedBoxed
    <2> HIDE DEF parts
    <2> QED BY <2>2, <2>3, NoneOrOneBoxed
<1>7. parts = [i \in 1..Len(raw) |-> parts[i]]
    BY <1>4
<1>8. blocks' = FlattenSeq(parts)
    BY DEF ConvertBlocks
<1> HIDE DEF parts
<1>9. AllBoxed(blocks', width, height)
    BY <1>4, <1>6, <1>7, <1>8, FlattenBoxed
<1>10. ProgressInv'
    BY <1>1, <1>2 DEF ProgressInv
<1>11. PageInv'
    BY <1>2, <1>5, <1>9 DEF PageInv
<1>12. DoneInv' /\ ContentInv'
    BY <1>2, KeptDone
<1> QED BY <1>10, <1>11, <1>12

(* A block that is changed keeps its box. *)
LEMMA ChangedBoxed ==
    ASSUME NEW width, NEW height, NEW s, AllBoxed(s, width, height), NEW i, NEW lines
    PROVE  AllBoxed([s EXCEPT ![i].lines = lines], width, height)
<1> DEFINE t == [s EXCEPT ![i].lines = lines]
<1>1. s = [k \in 1..Len(s) |-> s[k]] /\ Len(s) \in Nat /\ DOMAIN s = 1..Len(s)
    BY ListedFacts DEF AllBoxed
<1>2. t = [k \in 1..Len(s) |-> t[k]]
    BY <1>1
<1>3. Listed(t) /\ Len(t) = Len(s)
    <2> HIDE DEF t
    <2> QED BY <1>1, <1>2, Listing
<1>4. ASSUME NEW k \in 1..Len(s) PROVE Boxed(t[k], width, height)
    <2>1. Boxed(s[k], width, height)
        BY DEF AllBoxed
    <2>2. CASE k = i
        <3>1. t[k] = [s[k] EXCEPT !.lines = lines]
            BY <1>1, <2>2
        <3> QED BY <2>1, <3>1 DEF Boxed
    <2>3. CASE k # i
        BY <1>1, <2>1, <2>3
    <2> QED BY <2>2, <2>3
<1> HIDE DEF t
<1>5. AllBoxed(t, width, height)
    BY <1>3, <1>4 DEF AllBoxed
<1> QED BY <1>5 DEF t

LEMMA WriteCropStep ==
    ASSUME BoxesInv, WriteCrop, UNCHANGED <<pdfInfo, output>>
    PROVE  BoxesInv'
<1> USE DEF BoxesInv
<1>1. phase = "crop" /\ phase' \in {"crop", "failed"}
    BY DEF WriteCrop
<1>2. UNCHANGED <<pages, page, raw, para, discarded, at, pdfInfo, output>>
    BY DEF WriteCrop
<1> DEFINE i    == CHOOSE i \in ToCrop : \A j \in ToCrop : i <= j
           name == CropName(blocks[i].lines[1][1].type, blocks[i].bbox)
           lines == [blocks[i].lines EXCEPT ![1][1].image = name]
<1>3. blocks' = [blocks EXCEPT ![i].lines = lines] \/ blocks' = blocks
    <2>1. blocks' = [blocks EXCEPT ![i].lines[1][1].image = name] \/ blocks' = blocks
        BY DEF WriteCrop
    <2> QED BY <2>1
<1>4. PICK width, height : width = pages[page].width /\ height = pages[page].height
    OBVIOUS
<1> HIDE DEF i, lines
<1>5. AllBoxed(blocks', width, height)
    BY <1>3, <1>4, ChangedBoxed DEF PageInv
<1>6. ProgressInv'
    BY <1>1, <1>2 DEF ProgressInv
<1>7. PageInv'
    BY <1>2, <1>4, <1>5 DEF PageInv
<1>8. DoneInv' /\ ContentInv'
    BY <1>2, KeptDone
<1> QED BY <1>6, <1>7, <1>8

LEMMA MergeParaTextBlockStep ==
    ASSUME BoxesInv, MergeParaTextBlock, UNCHANGED <<pdfInfo, output>>
    PROVE  BoxesInv'
<1> USE DEF BoxesInv
<1>1. phase = "merge" /\ at > 0 /\ at' = at - 1
    BY DEF MergeParaTextBlock
<1>2. UNCHANGED <<pages, page, phase, raw, blocks, discarded, pdfInfo, output>>
    BY DEF MergeParaTextBlock
<1>3. PICK width, height : width = pages[page].width /\ height = pages[page].height
    OBVIOUS
<1>4. AllBoxed(para', width, height) /\ Len(para') = Len(para)
    <2>1. CASE para' = para
        BY <1>3, <2>1 DEF PageInv
    <2>2. ASSUME NEW into, para' = Merged(into, at) PROVE AllBoxed(para', width, height) /\ Len(para') = Len(para)
        <3> DEFINE more == [para EXCEPT ![into].lines = @ \o para[at].lines]
                   lines == para[into].lines \o para[at].lines
        <3>1. more = [para EXCEPT ![into].lines = lines]
            OBVIOUS
        <3>2. para' = [more EXCEPT ![at].lines = <<>>]
            BY <2>2 DEF Merged
        <3> HIDE DEF more, lines
        <3>3. AllBoxed(para, width, height)
            BY <1>3 DEF PageInv
        <3>4. AllBoxed(more, width, height)
            BY <3>1, <3>3, ChangedBoxed
        <3>5. AllBoxed(para', width, height)
            BY <3>2, <3>4, ChangedBoxed
        <3>6. DOMAIN para' = DOMAIN para
            BY <3>1, <3>2
        <3>7. Len(para') = Len(para)
            <4>1. DOMAIN para = 1..Len(para) /\ DOMAIN para' = 1..Len(para') /\ Len(para) \in Nat /\ Len(para') \in Nat
                BY <3>3, <3>5, ListedFacts DEF AllBoxed
            <4> QED BY <3>6, <4>1
        <3> QED BY <3>5, <3>7
    <2> QED BY <2>1, <2>2 DEF MergeParaTextBlock
<1>5. ProgressInv'
    BY <1>1, <1>2, <1>4, ListedFacts DEF ProgressInv, PageInv, AllBoxed
<1>6. PageInv'
    BY <1>2, <1>3, <1>4 DEF PageInv
<1>7. DoneInv' /\ ContentInv'
    BY <1>2, KeptDone
<1> QED BY <1>5, <1>6, <1>7

(* A finite set of blocks that have a box in the page. *)
BoxedSet(S, width, height) == IsFiniteSet(S) /\ \A b \in S : Boxed(b, width, height)

(* sort_by_key: in order, they are the same blocks. *)
LEMMA SortedElements ==
    ASSUME Listed(raw), NEW S, IsFiniteSet(S)
    PROVE  ByIndex(S) \in Seq(S)
<1> DEFINE Of(n) == {b \in S : b.index = n}
           parts == [n \in DOMAIN raw |-> SetToSeq(Of(n))]
<1>1. DOMAIN raw = 1..Len(raw) /\ Len(raw) \in Nat
    BY ListedFacts
<1>2. ASSUME NEW n \in 1..Len(raw) PROVE parts[n] \in Seq(S)
    <2>1. PICK T : T = Of(n)
        OBVIOUS
    <2>2. T \in SUBSET S /\ IsFiniteSet(T)
        <3>1. T \in SUBSET S
            BY <2>1
        <3> QED BY <3>1, FS_Subset
    <2>3. SetToSeq(T) \in Seq(T)
        BY <2>2, SetInOrder DEF Enumerates
    <2>4. parts[n] = SetToSeq(T)
        BY <1>1, <2>1
    <2> HIDE DEF parts
    <2> QED BY <2>2, <2>3, <2>4
<1>3. parts = [n \in 1..Len(raw) |-> parts[n]]
    BY <1>1
<1> HIDE DEF parts
<1>4. Listed(parts) /\ Len(parts) = Len(raw)
    BY <1>1, <1>3, Listing
<1>5. FlattenSeq(parts) \in Seq(S)
    BY <1>2, <1>4, FlattenElements
<1> QED BY <1>5 DEF ByIndex, parts

LEMMA SortedBoxed ==
    ASSUME Listed(raw), NEW width, NEW height, NEW S, BoxedSet(S, width, height)
    PROVE  AllBoxed(ByIndex(S), width, height)
BY SortedElements, BoxedElements DEF BoxedSet

LEMMA JointlyBoxed ==
    ASSUME NEW width, NEW height, NEW S, NEW T, BoxedSet(S, width, height), BoxedSet(T, width, height)
    PROVE  BoxedSet(S \cup T, width, height)
BY FS_Union DEF BoxedSet

LEMMA FewerBoxed ==
    ASSUME NEW width, NEW height, NEW S, BoxedSet(S, width, height), NEW T \in SUBSET S
    PROVE  BoxedSet(T, width, height)
BY FS_Subset DEF BoxedSet

(* One block made of each of finitely many. *)
LEMMA MadeBoxed ==
    ASSUME NEW width, NEW height, NEW S, IsFiniteSet(S), NEW f, \A x \in S : Boxed(f[x], width, height)
    PROVE  BoxedSet({f[x] : x \in S}, width, height)
BY HitsAtMost DEF BoxedSet

(* What fix_list_blocks can make of lists and texts: lists with some of    *)
(* the texts, and the texts that are left.                                 *)
Taking(lists, items) ==
    {[pair[1] EXCEPT !.lines = <<>>, !.blocks = ByIndex(pair[2])] : pair \in lists \X SUBSET items}

Filled(lists, texts, refs) ==
    [lists : SUBSET Taking(lists, texts \cup refs), texts : SUBSET texts, refs : SUBSET refs]

(* fix_list_blocks takes the lists one by one. *)
LEMMA FilledSteps ==
    ASSUME Listed(raw), NEW lists, IsFiniteSet(lists), NEW texts, NEW refs,
           NEW fixed, fixed = FixListBlocks(lists, texts, refs)
    PROVE  /\ fixed \in Filled(lists, texts, refs)
           /\ \E n \in Nat : \E order, filled :
               /\ filled[0] = [lists |-> {}, texts |-> texts, refs |-> refs] /\ filled[n] = fixed
               /\ \A k \in 1..n : order[k] \in lists /\ filled[k] = FillList(filled[k - 1], order[k])
<1> DEFINE Lists == Taking(lists, texts \cup refs)
           X     == Filled(lists, texts, refs)
           start == [lists |-> {}, texts |-> texts, refs |-> refs]
           order == ByIndex(lists)
           n     == Len(order)
           step  == [k \in 1..n |-> [x \in X |-> FillList(x, order[k])]]
           Fills(f) == f = [k \in 0..n |-> IF k = 0 THEN start ELSE FillList(f[k - 1], order[k])]
           filled == CHOOSE f : Fills(f)
<1>1. fixed = filled[n]
    BY DEF FixListBlocks
<1>2. n \in Nat /\ \A k \in 1..n : order[k] \in lists
    <2>1. order \in Seq(lists)
        BY SortedElements
    <2> QED BY <2>1, LenProperties, ElementOfSeq
<1>3. ASSUME NEW x \in X, NEW list \in lists PROVE FillList(x, list) \in X
    <2>1. PICK items : items = {b \in x.texts \cup x.refs : MostlyIn(b.bbox, list.bbox)}
        OBVIOUS
    <2>2. items \in SUBSET (texts \cup refs)
        BY <2>1 DEF Filled
    <2>3. [list EXCEPT !.lines = <<>>, !.blocks = ByIndex(items)] \in Lists
        <3>1. PICK pair : pair = <<list, items>>
            OBVIOUS
        <3>2. pair \in lists \X SUBSET (texts \cup refs) /\ pair[1] = list /\ pair[2] = items
            BY <2>2, <3>1
        <3> QED BY <3>2 DEF Taking
    <2>4. FillList(x, list) = [lists |-> IF items = {} THEN x.lists
                                         ELSE x.lists \cup {[list EXCEPT !.lines = <<>>, !.blocks = ByIndex(items)]},
                               texts |-> x.texts \ items, refs |-> x.refs \ items]
        BY <2>1 DEF FillList
    <2>5. PICK T, taken : T = Lists /\ taken = [list EXCEPT !.lines = <<>>, !.blocks = ByIndex(items)]
        OBVIOUS
    <2>6. X = [lists : SUBSET T, texts : SUBSET texts, refs : SUBSET refs]
        BY <2>5 DEF Filled
    <2>7. taken \in T /\ FillList(x, list) = [lists |-> IF items = {} THEN x.lists ELSE x.lists \cup {taken},
                                              texts |-> x.texts \ items, refs |-> x.refs \ items]
        BY <2>3, <2>4, <2>5
    <2> HIDE DEF X, Lists
    <2> QED BY <2>6, <2>7
<1>4. start \in X
    BY DEF Filled
<1>5. step \in Steps(n, X)
    <2> HIDE DEF X, n, order
    <2> QED BY <1>2, <1>3 DEF Steps
<1>6. PICK f \in [0..n -> X] : Follows(f, n, X, start, step)
    <2> HIDE DEF X, n, step, start
    <2> QED BY <1>2, <1>4, <1>5, RecursionDefines
<1>7. \A k \in 1..n : \A x \in X : step[k][x] = FillList(x, order[k])
    <2> HIDE DEF X, n, order
    <2> QED OBVIOUS
<1> HIDE DEF X, n, step, start, order
<1>8. Fills(f)
    <2>1. f[0] = start
        BY <1>6 DEF Follows
    <2>2. ASSUME NEW k \in 1..n PROVE f[k] = FillList(f[k - 1], order[k])
        <3>1. f[k - 1] \in X
            BY <1>2
        <3> QED BY <1>6, <1>7, <3>1 DEF Follows
    <2>3. \A k \in 0..n : f[k] = IF k = 0 THEN start ELSE FillList(f[k - 1], order[k])
        BY <1>2, <2>1, <2>2
    <2> QED BY <2>3
<1>9. Fills(filled)
    <2> HIDE DEF Fills
    <2> QED BY <1>8
<1> HIDE DEF filled
<1>10. filled[0] = start
    BY <1>2, <1>9
<1>11. ASSUME NEW k \in 1..n PROVE filled[k] = FillList(filled[k - 1], order[k])
    <2>1. k \in 0..n /\ k # 0
        BY <1>2
    <2> QED BY <1>9, <2>1
<1> HIDE DEF Fills
<1>12. filled[n] \in X
    <2>1. Follows(filled, n, X, start, step)
        BY <1>7, <1>10, <1>11 DEF Follows
    <2>2. SameValues(f, filled, n)
        BY <1>2, <1>4, <1>5, <1>6, <2>1, RecursionAgrees
    <2>3. n \in 0..n
        BY <1>2
    <2> QED BY <2>2, <2>3 DEF SameValues
<1>13. fixed \in Filled(lists, texts, refs)
    BY <1>1, <1>12 DEF X
<1> QED BY <1>1, <1>2, <1>10, <1>11, <1>13 DEF start

(* fix_list_blocks: lists that take up texts are still lists of the page,  *)
(* and the texts that are left are some of those there were.               *)
LEMMA FixedBoxed ==
    ASSUME Listed(raw), NEW width, NEW height, NEW lists, NEW texts, NEW refs,
           BoxedSet(lists, width, height), BoxedSet(texts, width, height), BoxedSet(refs, width, height),
           NEW fixed, fixed = FixListBlocks(lists, texts, refs)
    PROVE  /\ BoxedSet(fixed.lists, width, height) /\ BoxedSet(fixed.texts, width, height)
           /\ BoxedSet(fixed.refs, width, height)
<1> DEFINE Takings == SUBSET (texts \cup refs)
           List(pair) == [pair[1] EXCEPT !.lines = <<>>, !.blocks = ByIndex(pair[2])]
           Lists == {List(pair) : pair \in lists \X Takings}
<1>1. BoxedSet(Lists, width, height)
    <2> DEFINE f == [pair \in lists \X Takings |-> List(pair)]
               pairs == lists \X Takings
    <2>1. IsFiniteSet(pairs)
        BY FS_Union, FS_SUBSET, FS_Product DEF BoxedSet
    <2>2. ASSUME NEW pair \in pairs PROVE Boxed(f[pair], width, height)
        <3>1. Boxed(pair[1], width, height)
            BY DEF BoxedSet
        <3>2. f[pair] = List(pair)
            OBVIOUS
        <3> QED BY <3>1, <3>2 DEF Boxed
    <2>3. BoxedSet({f[pair] : pair \in pairs}, width, height)
        <3> HIDE DEF f, pairs
        <3> QED BY <2>1, <2>2, MadeBoxed
    <2>4. Lists = {f[pair] : pair \in lists \X Takings}
        OBVIOUS
    <2> QED BY <2>3, <2>4
<1>2. fixed \in Filled(lists, texts, refs)
    BY FilledSteps DEF BoxedSet
<1>3. fixed.lists \in SUBSET Lists /\ fixed.texts \in SUBSET texts /\ fixed.refs \in SUBSET refs
    <2>1. Lists = Taking(lists, texts \cup refs)
        BY DEF Taking
    <2> HIDE DEF Lists
    <2> QED BY <1>2, <2>1 DEF Filled
<1> HIDE DEF Lists
<1> QED BY <1>1, <1>3, FewerBoxed

LEMMA AssemblePageStep ==
    ASSUME BoxesInv, AssemblePage, UNCHANGED <<pdfInfo, output>>
    PROVE  BoxesInv'
<1> USE DEF BoxesInv
<1>1. phase = "crop" /\ phase' = "merge" /\ at' = Len(para') /\ para' = preproc'
    BY DEF AssemblePage
<1>2. UNCHANGED <<pages, page, raw, blocks, pdfInfo, output>>
    BY DEF AssemblePage
<1> DEFINE Of(types) == {blocks[i] : i \in {j \in DOMAIN blocks : blocks[j].type \in types}}
           alone     == {d \in Children : Parents(d) = {}}
           unmatched == {[blocks[c] EXCEPT !.type = "text"] : c \in alone}
           bodies    == {q \in DOMAIN blocks : blocks[q].type \in VisualMain}
           visuals   == {Visual(p) : p \in bodies}
           aside     == {"header", "footer", "page_number", "aside_text", "page_footnote"}
           others    == {"phonetic", "title", "interline_equation"}
           fixed     == FixListBlocks(Of({"list"}), Of({"text"}) \cup unmatched, Of({"ref_text"}))
           rest      == visuals \cup fixed.refs \cup Of(others) \cup fixed.texts
           chosen(mode) == {[list EXCEPT !.subType = mode[list]] : list \in fixed.lists}
<1>3. PICK width, height : width = pages[page].width /\ height = pages[page].height
    OBVIOUS
<1>4. Listed(raw) /\ AllBoxed(blocks, width, height)
    BY <1>3 DEF PageInv, AllBoxed
<1>5. /\ IsFiniteSet(DOMAIN blocks)
      /\ \A i \in DOMAIN blocks : Boxed(blocks[i], width, height)
    <2>1. DOMAIN blocks = 1..Len(blocks) /\ Len(blocks) \in Nat
        BY <1>4, ListedFacts DEF AllBoxed
    <2> QED BY <1>4, <2>1, UpTo DEF AllBoxed
<1>6. ASSUME NEW types PROVE BoxedSet(Of(types), width, height)
    <2> DEFINE places == {j \in DOMAIN blocks : blocks[j].type \in types}
    <2>1. places \in SUBSET DOMAIN blocks
        OBVIOUS
    <2> HIDE DEF places
    <2>2. BoxedSet({blocks[i] : i \in places}, width, height)
        <3>1. IsFiniteSet(places)
            BY <1>5, <2>1, FS_Subset
        <3> QED BY <1>5, <2>1, <3>1, MadeBoxed
    <2> QED BY <2>2 DEF places
<1>7. BoxedSet(unmatched, width, height)
    <2>1. alone \in SUBSET DOMAIN blocks
        BY DEF Children
    <2> DEFINE f == [c \in alone |-> [blocks[c] EXCEPT !.type = "text"]]
    <2>2. ASSUME NEW c \in alone PROVE Boxed(f[c], width, height)
        <3>1. Boxed(blocks[c], width, height)
            BY <1>5, <2>1
        <3> QED BY <3>1 DEF Boxed
    <2>3. unmatched = {f[c] : c \in alone}
        OBVIOUS
    <2> HIDE DEF f, alone
    <2>4. BoxedSet({f[c] : c \in alone}, width, height)
        <3>1. IsFiniteSet(alone)
            BY <1>5, <2>1, FS_Subset
        <3> QED BY <2>2, <3>1, MadeBoxed
    <2> QED BY <2>3, <2>4
<1>8. BoxedSet(visuals, width, height)
    <2>1. bodies \in SUBSET DOMAIN blocks
        OBVIOUS
    <2> HIDE DEF bodies
    <2> DEFINE f == [p \in bodies |-> Visual(p)]
    <2>2. ASSUME NEW p \in bodies PROVE Boxed(f[p], width, height)
        <3>1. Boxed(blocks[p], width, height)
            BY <1>5, <2>1
        <3>2. Boxed(Visual(p), width, height)
            BY <3>1 DEF Boxed, Visual
        <3> QED BY <3>2
    <2>3. visuals = {f[p] : p \in bodies}
        OBVIOUS
    <2> HIDE DEF f
    <2>4. BoxedSet({f[p] : p \in bodies}, width, height)
        <3>1. IsFiniteSet(bodies)
            BY <1>5, <2>1, FS_Subset
        <3> QED BY <2>2, <3>1, MadeBoxed
    <2> QED BY <2>3, <2>4
<1>9. /\ BoxedSet(fixed.lists, width, height) /\ BoxedSet(fixed.texts, width, height)
      /\ BoxedSet(fixed.refs, width, height)
    <2>1. PICK lists, texts, refs : /\ lists = Of({"list"}) /\ texts = Of({"text"}) \cup unmatched
                                    /\ refs = Of({"ref_text"})
        OBVIOUS
    <2>2. fixed = FixListBlocks(lists, texts, refs)
        BY <2>1
    <2> HIDE DEF Of, unmatched, fixed
    <2>3. BoxedSet(lists, width, height) /\ BoxedSet(texts, width, height) /\ BoxedSet(refs, width, height)
        BY <1>6, <1>7, <2>1, JointlyBoxed
    <2> QED BY <1>4, <2>2, <2>3, FixedBoxed
<1>10. BoxedSet(rest, width, height)
    <2> HIDE DEF visuals, fixed, Of
    <2> QED BY <1>6, <1>8, <1>9, JointlyBoxed
<1>11. ASSUME NEW mode PROVE BoxedSet(chosen(mode), width, height)
    <2> DEFINE lists == fixed.lists
               f == [list \in lists |-> [list EXCEPT !.subType = mode[list]]]
    <2>1. chosen(mode) = {f[list] : list \in lists}
        OBVIOUS
    <2>2. BoxedSet(lists, width, height)
        BY <1>9
    <2> HIDE DEF fixed, lists
    <2>3. ASSUME NEW list \in lists PROVE Boxed(f[list], width, height)
        BY <2>2 DEF BoxedSet, Boxed
    <2> HIDE DEF f
    <2>4. BoxedSet({f[list] : list \in lists}, width, height)
        BY <2>2, <2>3, MadeBoxed DEF BoxedSet
    <2> QED BY <2>1, <2>4
<1>12. (\E mode : para' = ByIndex(rest \cup chosen(mode))) /\ discarded' = ByIndex(Of(aside))
    BY DEF AssemblePage
<1> HIDE DEF Of, rest, chosen, aside
<1>13. AllBoxed(para', width, height) /\ AllBoxed(discarded', width, height)
    <2>1. PICK mode : para' = ByIndex(rest \cup chosen(mode))
        BY <1>12
    <2>2. BoxedSet(rest \cup chosen(mode), width, height)
        BY <1>10, <1>11, JointlyBoxed
    <2>3. AllBoxed(para', width, height)
        BY <1>4, <2>1, <2>2, SortedBoxed
    <2>4. AllBoxed(discarded', width, height)
        BY <1>4, <1>6, <1>12, SortedBoxed
    <2> QED BY <2>3, <2>4
<1>14. ProgressInv'
    <2>1. Len(para') \in Nat
        BY <1>13, ListedFacts DEF AllBoxed
    <2> QED BY <1>1, <1>2, <2>1 DEF ProgressInv
<1>15. PageInv'
    BY <1>2, <1>3, <1>13 DEF PageInv
<1>16. DoneInv' /\ ContentInv'
    BY <1>2, KeptDone
<1> QED BY <1>14, <1>15, <1>16

LEMMA AppendFragmentStep ==
    ASSUME BoxesInv, AppendFragment
    PROVE  BoxesInv'
<1> USE DEF BoxesInv
<1> DEFINE p == [para |-> para, preproc |-> preproc, discarded |-> discarded,
                 size |-> <<pages[page].width, pages[page].height>>]
<1>1. phase = "merge" /\ phase' = "layout" /\ page' = page + 1 /\ at = 0 /\ pdfInfo' = Append(pdfInfo, p)
    BY DEF AppendFragment
<1>2. UNCHANGED <<pages, at, output>> /\ raw' = <<>> /\ blocks' = <<>> /\ para' = <<>> /\ discarded' = <<>>
    BY DEF AppendFragment
<1>3. page \in 1..Len(pages) /\ pages \in Seq(Pages) /\ Len(pages) \in Nat
    BY <1>1, LenProperties DEF ProgressInv
<1>4. PageBoxed(p)
    <2>1. PICK width, height : width = pages[page].width /\ height = pages[page].height
        OBVIOUS
    <2>2. width \in Nat \ {0} /\ height \in Nat \ {0}
        BY <1>1, <2>1, ThisPage, PageFields
    <2>3. p.size[1] = width /\ p.size[2] = height /\ p.para = para /\ p.discarded = discarded
        BY <2>1
    <2>4. AllBoxed(para, width, height) /\ AllBoxed(discarded, width, height)
        BY <2>1 DEF PageInv
    <2> HIDE DEF p
    <2> QED BY <2>2, <2>3, <2>4 DEF PageBoxed
<1> HIDE DEF p
<1>5. Listed(pdfInfo) /\ Len(pdfInfo) = page - 1 /\ \A n \in 1..Len(pdfInfo) : PageBoxed(pdfInfo[n])
    BY DEF DoneInv
<1>6. Joins(pdfInfo', pdfInfo, <<p>>) /\ Len(<<p>>) = 1 /\ <<p>>[1] = p
    BY <1>1, <1>5, Appending, Joining, OneListed
<1>7. DoneInv'
    <2>1. Listed(pdfInfo') /\ Len(pdfInfo') = page
        BY <1>3, <1>5, <1>6 DEF Joins
    <2>2. ASSUME NEW n \in 1..page PROVE PageBoxed(pdfInfo'[n])
        <3>1. CASE n \in 1..page - 1
            BY <1>5, <1>6, <3>1 DEF Joins
        <3>2. CASE n = page
            <4>1. n = (page - 1) + 1
                BY <1>3, <3>2
            <4>2. pdfInfo'[(page - 1) + 1] = p
                BY <1>5, <1>6, 1 \in 1..1 DEF Joins
            <4> QED BY <1>4, <4>1, <4>2
        <3> QED BY <1>3, <3>1, <3>2
    <2>3. Len(pdfInfo') = page' - 1
        BY <1>1, <1>3, <2>1
    <2> QED BY <2>1, <2>2, <2>3 DEF DoneInv
<1>8. ProgressInv'
    BY <1>1, <1>2, <1>3, OneListed DEF ProgressInv
<1>9. PageInv'
    BY <1>2, NoneOrOneBoxed DEF PageInv
<1>10. ContentInv'
    BY <1>2 DEF ContentInv
<1> QED BY <1>7, <1>8, <1>9, <1>10

(* make_content_list: every entry has its box. *)
LEMMA ContentListInside ==
    ASSUME DoneInv
    PROVE  /\ Listed(MakeContentList)
           /\ \A i \in 1..Len(MakeContentList) : Inside(MakeContentList[i].bbox, 1000, 1000)
<1> DEFINE Entries(n) == [i \in DOMAIN OutputBlocks(n) |-> MakeBlockContentV1(OutputBlocks(n)[i], n)]
           parts == [n \in DOMAIN pdfInfo |-> Entries(n)]
           S == UNION {{MakeBlockContentV1(OutputBlocks(n)[i], n) : i \in DOMAIN OutputBlocks(n)} : n \in DOMAIN pdfInfo}
<1>1. DOMAIN pdfInfo = 1..Len(pdfInfo) /\ Len(pdfInfo) \in Nat
    BY ListedFacts DEF DoneInv
<1>2. ASSUME NEW n \in DOMAIN pdfInfo PROVE AllBoxed(OutputBlocks(n), pdfInfo[n].size[1], pdfInfo[n].size[2])
    <2> DEFINE b == OutputBlocks(n)
    <2>1. PICK s, t, width, height : /\ s = pdfInfo[n].para /\ t = pdfInfo[n].discarded
                                     /\ width = pdfInfo[n].size[1] /\ height = pdfInfo[n].size[2]
        OBVIOUS
    <2>2. AllBoxed(s, width, height) /\ AllBoxed(t, width, height)
        BY <1>1, <2>1 DEF DoneInv, PageBoxed
    <2>3. b = s \o t
        BY <2>1 DEF OutputBlocks
    <2> HIDE DEF b
    <2>4. Joins(b, s, t) /\ Len(s) \in Nat /\ Len(t) \in Nat
        BY <2>2, <2>3, Joining, ListedFacts DEF AllBoxed
    <2>5. ASSUME NEW i \in 1..Len(b) PROVE Boxed(b[i], width, height)
        <3>1. CASE i \in 1..Len(s)
            BY <2>2, <2>4, <3>1 DEF Joins, AllBoxed
        <3>2. CASE i \notin 1..Len(s)
            <4>1. i - Len(s) \in 1..Len(t) /\ i = Len(s) + (i - Len(s))
                BY <2>4, <3>2 DEF Joins
            <4> QED BY <2>2, <2>4, <4>1 DEF Joins, AllBoxed
        <3> QED BY <3>1, <3>2
    <2>6. AllBoxed(b, width, height)
        BY <2>4, <2>5 DEF AllBoxed, Joins
    <2> QED BY <2>1, <2>6 DEF b
<1>3. ASSUME NEW n \in DOMAIN pdfInfo, NEW i \in DOMAIN OutputBlocks(n)
      PROVE  Inside(MakeBlockContentV1(OutputBlocks(n)[i], n).bbox, 1000, 1000)
    <2>1. PICK size, v : size = pdfInfo[n].size /\ v = OutputBlocks(n)[i].bbox
        OBVIOUS
    <2>2. BoxOf(v, size[1], size[2])
        BY <1>2, <2>1, ListedFacts DEF AllBoxed, Boxed
    <2>3. size[1] \in Nat \ {0} /\ size[2] \in Nat \ {0}
        BY <1>1, <2>1 DEF DoneInv, PageBoxed
    <2>4. MakeBlockContentV1(OutputBlocks(n)[i], n).bbox = BboxToContentBbox(v, size)
        BY <2>1 DEF MakeBlockContentV1
    <2> QED BY <2>2, <2>3, <2>4, ContentBoxInPage
<1>4. ASSUME NEW n \in 1..Len(pdfInfo) PROVE parts[n] \in Seq(S)
    <2>1. DOMAIN OutputBlocks(n) = 1..Len(OutputBlocks(n)) /\ Len(OutputBlocks(n)) \in Nat
        BY <1>1, <1>2, ListedFacts DEF AllBoxed
    <2>2. parts[n] = Entries(n)
        BY <1>1
    <2>3. \A i \in DOMAIN OutputBlocks(n) : MakeBlockContentV1(OutputBlocks(n)[i], n) \in S
        BY <1>1
    <2> HIDE DEF S, parts
    <2> QED BY <2>1, <2>2, <2>3
<1>5. ASSUME NEW e \in S PROVE Inside(e.bbox, 1000, 1000)
    BY <1>3
<1> HIDE DEF S
<1>6. parts = [n \in 1..Len(pdfInfo) |-> parts[n]]
    BY <1>1
<1> HIDE DEF parts
<1>7. FlattenSeq(parts) \in Seq(S)
    <2>1. Listed(parts) /\ Len(parts) = Len(pdfInfo)
        BY <1>1, <1>6, Listing
    <2> QED BY <1>4, <2>1, FlattenElements
<1>8. MakeContentList = FlattenSeq(parts)
    BY DEF MakeContentList, parts
<1> QED BY <1>5, <1>7, <1>8, ElementOfSeq DEF Listed

LEMMA FinishStep ==
    ASSUME BoxesInv, Finish
    PROVE  BoxesInv'
<1> USE DEF BoxesInv
<1>1. phase = "layout" /\ phase' = "finished" /\ UNCHANGED <<pages, page, raw, blocks, para, discarded, at, pdfInfo>>
    BY DEF Finish
<1>2. output' = [markdown |-> MakeMarkdown, contentList |-> MakeContentList, contentListV2 |-> MakeContentListV2]
    BY DEF Finish
<1>3. output' # <<>> /\ output'.contentList = MakeContentList
    <2>1. "contentList" \in DOMAIN output' /\ "contentList" \notin DOMAIN <<>>
        BY <1>2
    <2> QED BY <1>2, <2>1
<1>4. ProgressInv'
    BY <1>1, <1>3 DEF ProgressInv
<1>5. PageInv' /\ DoneInv'
    BY <1>1 DEF PageInv, DoneInv
<1>6. ContentInv'
    <2>1. PICK list : list = MakeContentList
        OBVIOUS
    <2>2. Listed(list) /\ \A i \in 1..Len(list) : Inside(list[i].bbox, 1000, 1000)
        BY <2>1, ContentListInside
    <2>3. output'.contentList = list
        BY <1>3, <2>1
    <2> QED BY <2>2, <2>3 DEF ContentInv
<1> QED BY <1>4, <1>5, <1>6

(* An Office document leaves the VLM parser alone. *)
LEMMA BoxesStutter ==
    ASSUME BoxesInv, UNCHANGED vars
    PROVE  BoxesInv'
<1>1. UNCHANGED <<pages, page, phase, raw, blocks, para, discarded, at, pdfInfo, output>>
    BY DEF vars, pageVars
<1> QED BY <1>1 DEF BoxesInv, ProgressInv, PageInv, DoneInv, ContentInv

LEMMA BoxesNext ==
    ASSUME BoxesInv, [ParseNext]_<<vars, officeVars>>
    PROVE  BoxesInv'
<1>1. CASE ParseWithVlm
    <2>1. CASE BuildPageFragment
        <3>1. UNCHANGED <<pdfInfo, output>>
            BY <2>1 DEF BuildPageFragment
        <3>2. CASE ReadLayout
            BY <3>1, <3>2, ReadLayoutStep
        <3>3. CASE ConvertBlocks
            BY <3>1, <3>3, ConvertBlocksStep
        <3>4. CASE WriteCrop
            BY <3>1, <3>4, WriteCropStep
        <3>5. CASE AssemblePage
            BY <3>1, <3>5, AssemblePageStep
        <3>6. CASE MergeParaTextBlock
            BY <3>1, <3>6, MergeParaTextBlockStep
        <3> QED BY <2>1, <3>2, <3>3, <3>4, <3>5, <3>6 DEF BuildPageFragment, BuildPage
    <2>2. CASE AppendFragment
        BY <2>2, AppendFragmentStep
    <2>3. CASE Finish
        BY <2>3, FinishStep
    <2> QED BY <1>1, <2>1, <2>2, <2>3 DEF ParseWithVlm, Next
<1>2. CASE ParseOffice
    BY <1>2, BoxesStutter DEF ParseOffice
<1>3. CASE Returned
    BY <1>3, BoxesStutter DEF Returned
<1>4. CASE UNCHANGED <<vars, officeVars>>
    BY <1>4, BoxesStutter
<1> QED BY <1>1, <1>2, <1>3, <1>4 DEF ParseNext

LEMMA BoxesImply ==
    ASSUME BoxesInv
    PROVE  BoxesSound
<1> USE DEF BoxesInv
<1>1. TypeOK
    <2>1. ASSUME NEW i \in DOMAIN raw
          PROVE  LET b == raw[i].bbox IN 0 <= b[1] /\ b[1] < b[3] /\ b[3] <= 1000
                                         /\ 0 <= b[2] /\ b[2] < b[4] /\ b[4] <= 1000
        <3>1. i \in 1..Len(raw)
            BY ListedFacts DEF PageInv, AllBoxed
        <3>2. BoxOf(raw[i].bbox, Most, Most)
            BY <3>1 DEF PageInv, AllBoxed, Boxed
        <3> QED BY <3>2 DEF BoxOf, Side, Most
    <2> QED BY <2>1 DEF TypeOK, ProgressInv, DoneInv
<1>2. ASSUME page <= Len(pages), NEW i \in DOMAIN blocks
      PROVE  LET p == pages[page]
                 b == blocks[i].bbox
                 across == PythonCropSide(b[1], b[3], p.width, p.pixels[1])
                 down   == PythonCropSide(b[2], b[4], p.height, p.pixels[2])
             IN  /\ Inside(b, p.width, p.height)
                 /\ across.first < across.last /\ across.last <= p.pixels[1]
                 /\ down.first < down.last /\ down.last <= p.pixels[2]
    <2>1. PICK p, b : p = pages[page] /\ b = blocks[i].bbox
        OBVIOUS
    <2>2. p \in Pages
        BY <1>2, <2>1, LenProperties, ElementOfSeq DEF ProgressInv
    <2>3. BoxOf(b, p.width, p.height)
        <3>1. AllBoxed(blocks, p.width, p.height)
            BY <2>1 DEF PageInv
        <3>2. i \in 1..Len(blocks)
            BY <3>1, ListedFacts DEF AllBoxed
        <3> QED BY <2>1, <3>1, <3>2 DEF AllBoxed, Boxed
    <2>4. PICK width, height, wide, high : /\ width = p.width /\ height = p.height
                                           /\ wide = p.pixels[1] /\ high = p.pixels[2]
        OBVIOUS
    <2>5. /\ width \in Nat \ {0} /\ height \in Nat \ {0} /\ wide \in Nat \ {0} /\ high \in Nat \ {0}
          /\ Side(b[1], b[3], width) /\ Side(b[2], b[4], height)
        BY <2>2, <2>3, <2>4, PageFields DEF BoxOf
    <2>6. Inside(b, width, height)
        BY <2>5 DEF Inside, Side
    <2>7. ASSUME NEW from, NEW to, NEW points \in Nat \ {0}, NEW pixels \in Nat \ {0}, Side(from, to, points)
          PROVE  LET side == PythonCropSide(from, to, points, pixels)
                 IN  side.first < side.last /\ side.last <= pixels
        BY <2>7, PythonCropHasPixels DEF Side
    <2>8. /\ PythonCropSide(b[1], b[3], width, wide).first < PythonCropSide(b[1], b[3], width, wide).last
          /\ PythonCropSide(b[1], b[3], width, wide).last <= wide
        BY <2>5, <2>7
    <2>9. /\ PythonCropSide(b[2], b[4], height, high).first < PythonCropSide(b[2], b[4], height, high).last
          /\ PythonCropSide(b[2], b[4], height, high).last <= high
        BY <2>5, <2>7
    <2> QED BY <2>1, <2>4, <2>6, <2>8, <2>9
<1>3. ASSUME output # <<>>, NEW i \in DOMAIN output.contentList
      PROVE  Inside(output.contentList[i].bbox, 1000, 1000)
    BY <1>3, ListedFacts DEF ContentInv
<1>4. BoxesInPage
    BY <1>2, <1>3 DEF BoxesInPage, Inside
<1> QED BY <1>1, <1>4 DEF BoxesSound

(* For every document, whatever the VLM answers: a block has a box inside  *)
(* its page with pixels to crop at every resolution, and the content lists *)
(* place it within 0..1000.                                                *)
THEOREM BoxesCorrect == ParseSpec => []BoxesSound
<1>1. ParseInit => BoxesInv
    BY BoxesInit
<1>2. BoxesInv /\ [ParseNext]_<<vars, officeVars>> => BoxesInv'
    BY BoxesNext
<1>3. BoxesInv => BoxesSound
    BY BoxesImply
<1> QED BY <1>1, <1>2, <1>3, PTL DEF ParseSpec

-----------------------------------------------------------------------------
(* No block of a page is lost or told twice, and no line of its text.      *)

(* Sorted by index, they are all there, each once. *)
Sorted(s) == \A j, k \in 1..Len(s) : j < k => s[j].index <= s[k].index

LEMMA SortedEnumerates ==
    ASSUME Listed(raw), NEW S, IsFiniteSet(S), \A b \in S : b.index \in 1..Len(raw)
    PROVE  Enumerates(ByIndex(S), S) /\ Sorted(ByIndex(S))
<1> DEFINE Of(n) == {b \in S : b.index = n}
           parts == [n \in DOMAIN raw |-> SetToSeq(Of(n))]
           N     == Len(raw)
           s     == ByIndex(S)
<1>1. DOMAIN raw = 1..N /\ N \in Nat
    BY ListedFacts
<1> HIDE DEF N
<1>2. ASSUME NEW n \in 1..N PROVE Enumerates(parts[n], Of(n))
    <2>1. PICK T : T = Of(n)
        OBVIOUS
    <2>2. IsFiniteSet(T)
        <3>1. T \in SUBSET S
            BY <2>1
        <3> QED BY <3>1, FS_Subset
    <2>3. parts[n] = SetToSeq(T)
        BY <1>1, <2>1
    <2> HIDE DEF parts
    <2> QED BY <2>1, <2>2, <2>3, SetInOrder
<1>3. parts = [n \in 1..N |-> parts[n]]
    BY <1>1
<1> HIDE DEF parts
<1>4. Listed(parts) /\ Len(parts) = N
    BY <1>1, <1>3, Listing
<1>5. \A n \in 1..N : Listed(parts[n])
    BY <1>2 DEF Enumerates, Listed
<1>6. s = FlattenSeq(parts)
    BY DEF ByIndex, parts
<1>7. s \in Seq(S)
    BY SortedElements
<1> HIDE DEF s
<1>8. PICK from : Spread(s, parts, N, from) /\ PartByPart(s, from)
    BY <1>4, <1>5, <1>6, FlattenSpreads
<1>9. ASSUME NEW k \in 1..Len(s)
      PROVE  from[k] = <<s[k].index, from[k][2]>> /\ from[k][2] \in 1..Len(parts[s[k].index])
             /\ s[k].index \in 1..N /\ s[k] = parts[s[k].index][from[k][2]]
    <2>1. PICK n, j : n = from[k][1] /\ j = from[k][2]
        OBVIOUS
    <2>2. from[k] \in Nat \X Nat /\ n \in 1..N /\ j \in 1..Len(parts[n]) /\ s[k] = parts[n][j]
        BY <1>8, <2>1 DEF Spread
    <2>3. s[k] \in Of(n)
        <3>1. PICK q, T : q = parts[n] /\ T = Of(n)
            OBVIOUS
        <3>2. q \in Seq(T) /\ j \in 1..Len(q)
            BY <1>2, <2>2, <3>1 DEF Enumerates
        <3>3. q[j] \in T
            BY <3>2, ElementOfSeq
        <3> QED BY <2>2, <3>1, <3>3
    <2>4. from[k] = <<n, j>>
        BY <2>1, <2>2
    <2> QED BY <2>1, <2>2, <2>3, <2>4
<1>10. ASSUME NEW b \in S PROVE \E k \in 1..Len(s) : s[k] = b
    <2>1. PICK n : n = b.index
        OBVIOUS
    <2>2. n \in 1..N /\ b \in Of(n)
        BY <2>1 DEF N
    <2>3. PICK j \in 1..Len(parts[n]) : parts[n][j] = b
        BY <1>2, <2>2 DEF Enumerates
    <2>4. PICK k \in 1..Len(s) : from[k] = <<n, j>>
        BY <1>8, <2>2 DEF Spread
    <2>5. s[k] = parts[from[k][1]][from[k][2]] /\ from[k][1] = n /\ from[k][2] = j
        BY <1>8, <2>4 DEF Spread
    <2> QED BY <2>3, <2>5
<1>11. ASSUME NEW j \in 1..Len(s), NEW k \in 1..Len(s), s[j] = s[k] PROVE j = k
    <2>1. PICK n, x, y : n = s[j].index /\ x = from[j][2] /\ y = from[k][2]
        OBVIOUS
    <2>2. /\ n \in 1..N /\ x \in 1..Len(parts[n]) /\ y \in 1..Len(parts[n])
          /\ parts[n][x] = parts[n][y] /\ from[j] = <<n, x>> /\ from[k] = <<n, y>>
        BY <1>9, <1>11, <2>1
    <2>3. x = y
        BY <1>2, <2>2 DEF Enumerates
    <2>4. from[j] = from[k]
        BY <2>2, <2>3
    <2> QED BY <1>8, <2>4 DEF Spread
<1>12. Enumerates(s, S)
    BY <1>7, <1>10, <1>11 DEF Enumerates
<1>13. Sorted(s)
    <2>1. \A k \in 1..Len(s) : from[k][1] = s[k].index
        <3> SUFFICES ASSUME NEW k \in 1..Len(s) PROVE from[k][1] = s[k].index
            OBVIOUS
        <3>1. PICK x, y : x = s[k].index /\ y = from[k][2]
            OBVIOUS
        <3>2. from[k] = <<x, y>>
            BY <1>9, <3>1
        <3> QED BY <3>1, <3>2
    <2> QED BY <1>8, <2>1 DEF PartByPart, Sorted
<1> QED BY <1>12, <1>13 DEF s

-----------------------------------------------------------------------------
(* The blocks of the page that a block of the outputs stands for.          *)
PlacesOf(b) == IF b.blocks = <<>> THEN <<b.index>>
               ELSE [i \in DOMAIN b.blocks |-> b.blocks[i].index]

Lined(b) == {"type", "lines"} \subseteq DOMAIN b /\ Listed(b.lines)

Placed(b) == /\ b.index \in 1..Len(raw) /\ Lined(b) /\ Listed(PlacesOf(b))
             /\ \A j, k \in 1..Len(PlacesOf(b)) : PlacesOf(b)[j] = PlacesOf(b)[k] => j = k

Holds(b, n) == \E k \in 1..Len(PlacesOf(b)) : PlacesOf(b)[k] = n

(* F stands for those of X, for each once. *)
Held(F, X) ==
    /\ IsFiniteSet(F) /\ \A b \in F : Placed(b)
    /\ \A n : n \in X <=> \E b \in F : Holds(b, n)
    /\ \A b, c \in F : \A n : Holds(b, n) /\ Holds(c, n) => b = c

LEMMA HeldUnion ==
    ASSUME NEW F, NEW X, NEW G, NEW Y, Held(F, X), Held(G, Y), X \cap Y = {}
    PROVE  Held(F \cup G, X \cup Y)
<1>1. IsFiniteSet(F \cup G) /\ \A b \in F \cup G : Placed(b)
    BY FS_Union DEF Held
<1>2. \A n : n \in X \cup Y <=> \E b \in F \cup G : Holds(b, n)
    BY DEF Held
<1>3. ASSUME NEW b \in F \cup G, NEW c \in F \cup G, NEW n, Holds(b, n), Holds(c, n) PROVE b = c
    BY <1>3 DEF Held
<1> QED BY <1>1, <1>2, <1>3 DEF Held

LEMMA HeldAlike ==
    ASSUME NEW F, NEW X, Held(F, X), NEW f,
           \A b \in F : PlacesOf(f[b]) = PlacesOf(b) /\ f[b].index = b.index /\ (Lined(b) => Lined(f[b]))
    PROVE  Held({f[b] : b \in F}, X)
<1> DEFINE G == {f[b] : b \in F}
<1>1. \A b \in F : Placed(f[b]) /\ \A n : Holds(f[b], n) <=> Holds(b, n)
    BY DEF Held, Placed, Holds
<1>2. IsFiniteSet(G)
    BY HitsAtMost DEF Held
<1>3. \A n : n \in X <=> \E c \in G : Holds(c, n)
    BY <1>1 DEF Held
<1>4. ASSUME NEW b \in F, NEW c \in F, NEW n, Holds(f[b], n), Holds(f[c], n) PROVE f[b] = f[c]
    BY <1>1, <1>4 DEF Held
<1>5. \A c \in G : Placed(c)
    BY <1>1
<1>6. \A c, d \in G : \A n : Holds(c, n) /\ Holds(d, n) => c = d
    BY <1>4
<1> HIDE DEF G
<1>7. Held(G, X)
    BY <1>2, <1>3, <1>5, <1>6 DEF Held
<1> QED BY <1>7 DEF G

PlacesIn(bs) == FlattenSeq([i \in DOMAIN bs |-> PlacesOf(bs[i])])

Once(s, X) == ToSet(s) = X /\ Len(s) = Cardinality(ToSet(s))

(* In the outputs they are once. *)
LEMMA HeldOnce ==
    ASSUME Listed(raw), NEW F, NEW X, NEW G, NEW Y, Held(F, X), Held(G, Y), X \cap Y = {},
           NEW all, all = ByIndex(F) \o ByIndex(G),
           NEW s, s = PlacesIn(all)
    PROVE  Once(s, X \cup Y)
<1> DEFINE q == ByIndex(F)
           r == ByIndex(G)
           parts == [i \in DOMAIN all |-> PlacesOf(all[i])]
<1>1. Enumerates(q, F) /\ Enumerates(r, G)
    BY SortedEnumerates DEF Held, Placed
<1> HIDE DEF q, r
<1>2. Listed(q) /\ Listed(r) /\ Len(q) \in Nat /\ Len(r) \in Nat
    BY <1>1, ListedFacts DEF Listed, Enumerates
<1>3. Joins(all, q, r) /\ DOMAIN all = 1..Len(all)
    BY <1>2, Joining, ListedFacts DEF q, r, Joins
<1>4. /\ \A k \in 1..Len(q) : k \in 1..Len(all) /\ all[k] = q[k] /\ q[k] \in F
      /\ \A k \in 1..Len(r) : Len(q) + k \in 1..Len(all) /\ all[Len(q) + k] = r[k] /\ r[k] \in G
      /\ \A k \in 1..Len(all) : k \in 1..Len(q) \/ \E i \in 1..Len(r) : k = Len(q) + i
    <2>1. Len(all) = Len(q) + Len(r)
        BY <1>3 DEF Joins
    <2>2. ASSUME NEW k \in 1..Len(q) PROVE k \in 1..Len(all) /\ all[k] = q[k] /\ q[k] \in F
        <3>1. q[k] \in F
            BY <1>1, ElementOfSeq DEF Enumerates
        <3>2. all[k] = q[k]
            BY <1>3 DEF Joins
        <3> QED BY <1>2, <2>1, <3>1, <3>2
    <2>3. ASSUME NEW k \in 1..Len(r)
          PROVE  Len(q) + k \in 1..Len(all) /\ all[Len(q) + k] = r[k] /\ r[k] \in G
        <3>1. r[k] \in G
            BY <1>1, ElementOfSeq DEF Enumerates
        <3>2. all[Len(q) + k] = r[k]
            BY <1>3 DEF Joins
        <3> QED BY <1>2, <2>1, <3>1, <3>2
    <2>4. ASSUME NEW k \in 1..Len(all), k \notin 1..Len(q) PROVE \E i \in 1..Len(r) : k = Len(q) + i
        <3>1. k - Len(q) \in 1..Len(r) /\ k = Len(q) + (k - Len(q))
            BY <1>2, <2>1, <2>4
        <3> QED BY <3>1
    <2> QED BY <2>2, <2>3, <2>4
<1>5. \A k \in 1..Len(all) : all[k] \in F \cup G
    BY <1>4
<1>6. ASSUME NEW j \in 1..Len(all), NEW k \in 1..Len(all), NEW n, Holds(all[j], n), Holds(all[k], n)
      PROVE  j = k
    <2>1. (n \in X <=> all[j] \in F) /\ (n \in X <=> all[k] \in F) /\ n \in X \cup Y
        BY <1>5, <1>6 DEF Held
    <2>2. ASSUME NEW x \in 1..Len(q), NEW y \in 1..Len(r), Holds(all[x], n), Holds(all[Len(q) + y], n) PROVE FALSE
        BY <1>4, <2>2 DEF Held
    <2>3. ASSUME NEW x \in 1..Len(q), NEW y \in 1..Len(q), Holds(all[x], n), Holds(all[y], n) PROVE x = y
        <3>1. q[x] = q[y]
            BY <1>4, <2>3 DEF Held
        <3> QED BY <1>1, <3>1 DEF Enumerates
    <2>4. ASSUME NEW x \in 1..Len(r), NEW y \in 1..Len(r), Holds(all[Len(q) + x], n), Holds(all[Len(q) + y], n)
          PROVE  x = y
        <3>1. r[x] = r[y]
            BY <1>4, <2>4 DEF Held
        <3> QED BY <1>1, <3>1 DEF Enumerates
    <2>5. CASE j \in 1..Len(q) /\ k \in 1..Len(q)
        BY <1>6, <2>3, <2>5
    <2>6. CASE j \in 1..Len(q) /\ k \notin 1..Len(q)
        BY <1>4, <1>6, <2>2, <2>6
    <2>7. CASE j \notin 1..Len(q) /\ k \in 1..Len(q)
        BY <1>4, <1>6, <2>2, <2>7
    <2>8. CASE j \notin 1..Len(q) /\ k \notin 1..Len(q)
        BY <1>4, <1>6, <2>4, <2>8
    <2> QED BY <2>5, <2>6, <2>7, <2>8
<1>7. /\ Listed(parts) /\ Len(parts) = Len(all)
      /\ \A i \in 1..Len(all) : parts[i] = PlacesOf(all[i]) /\ Listed(parts[i])
    <2>1. \A i \in 1..Len(all) : parts[i] = PlacesOf(all[i])
        BY <1>3
    <2>2. parts = [i \in 1..Len(all) |-> parts[i]] /\ Len(all) \in Nat
        BY <1>3, ListedFacts DEF Joins
    <2> HIDE DEF parts
    <2>3. \A i \in 1..Len(all) : Listed(PlacesOf(all[i]))
        BY <1>5 DEF Held, Placed
    <2> QED BY <2>1, <2>2, <2>3, Listing
<1>8. s = FlattenSeq(parts)
    BY DEF PlacesIn
<1> HIDE DEF parts
<1>9. ASSUME NEW i \in 1..Len(all), NEW k \in 1..Len(all), NEW j \in 1..Len(parts[i]), NEW m \in 1..Len(parts[k]),
             parts[i][j] = parts[k][m]
      PROVE  i = k /\ j = m
    <2>1. PICK n : n = parts[i][j]
        OBVIOUS
    <2>2. Holds(all[i], n) /\ Holds(all[k], n)
        BY <1>7, <1>9, <2>1 DEF Holds
    <2>3. i = k
        BY <1>6, <2>2
    <2>4. Placed(all[i])
        BY <1>5 DEF Held
    <2> QED BY <1>7, <1>9, <2>3, <2>4 DEF Placed
<1>10. /\ \A x : x \in ToSet(s) <=> \E i \in 1..Len(all) : x \in ToSet(parts[i])
       /\ Len(s) = Cardinality(ToSet(s))
    BY <1>7, <1>8, <1>9, FlattenDistinct
<1>11. \A n : \A i \in 1..Len(all) : n \in ToSet(parts[i]) <=> Holds(all[i], n)
    BY <1>7, ListedFacts DEF ToSet, Holds
<1>12. ASSUME NEW n PROVE n \in X \cup Y <=> \E i \in 1..Len(all) : Holds(all[i], n)
    <2>1. ASSUME NEW i \in 1..Len(all), Holds(all[i], n) PROVE n \in X \cup Y
        BY <1>5, <2>1 DEF Held
    <2>2. ASSUME NEW b \in F, Holds(b, n) PROVE \E i \in 1..Len(all) : Holds(all[i], n)
        <3>1. PICK k \in 1..Len(q) : q[k] = b
            BY <1>1 DEF Enumerates
        <3>2. k \in 1..Len(all) /\ all[k] = b
            BY <1>4, <3>1
        <3> QED BY <2>2, <3>2
    <2>3. ASSUME NEW b \in G, Holds(b, n) PROVE \E i \in 1..Len(all) : Holds(all[i], n)
        <3>1. PICK k \in 1..Len(r) : r[k] = b
            BY <1>1 DEF Enumerates
        <3>2. Len(q) + k \in 1..Len(all) /\ all[Len(q) + k] = b
            BY <1>4, <3>1
        <3> QED BY <2>3, <3>2
    <2> QED BY <2>1, <2>2, <2>3 DEF Held
<1> QED BY <1>10, <1>11, <1>12 DEF Once

-----------------------------------------------------------------------------
(* What post_process_raw_blocks leaves, and what becomes of it. *)
RawTypes == AllowedBlockTypes \ {"list_item", "equation_block"}
PyTypes  == {"text", "ref_text", "list", "phonetic", "title", "interline_equation"}
            \cup VisualMain \cup GenericChild \cup Discarded

PyBlock(b) ==
    /\ {"type", "lines", "blocks", "index", "subType", "mergePrev"} \subseteq DOMAIN b
    /\ b.type \in PyTypes /\ b.index \in 1..Len(raw) /\ b.blocks = <<>> /\ Listed(b.lines)

RawInv == \A i \in 1..Len(raw) : raw[i].type \in RawTypes

BlocksInv ==
    /\ \A i \in 1..Len(blocks) : PyBlock(blocks[i])
    /\ \A i, j \in 1..Len(blocks) : blocks[i].index = blocks[j].index => i = j
    /\ Sorted(blocks)

LEMMA ParsedTypes ==
    ASSUME NEW segments \in Seq(Segments), NEW bs, bs = ParseLayoutOutput(segments), NEW k \in 1..Len(bs)
    PROVE  bs[k].type \in AllowedBlockTypes /\ "type" \in DOMAIN bs[k]
<1> DEFINE Found(s) == IF ConvertBbox(s.box) # None /\ LayoutType(s) \in AllowedBlockTypes
                       THEN <<ContentBlock(s)>> ELSE <<>>
           parts == [i \in DOMAIN segments |-> Found(segments[i])]
<1>1. DOMAIN segments = 1..Len(segments) /\ Len(segments) \in Nat
    BY LenProperties
<1>2. ASSUME NEW i \in 1..Len(segments)
      PROVE  /\ Listed(parts[i])
             /\ \A j \in 1..Len(parts[i]) : parts[i][j].type \in AllowedBlockTypes /\ "type" \in DOMAIN parts[i][j]
    <2> DEFINE s == segments[i]
    <2>1. parts[i] = Found(s)
        BY <1>1
    <2>2. CASE ConvertBbox(s.box) # None /\ LayoutType(s) \in AllowedBlockTypes
        <3>1. PICK b : b = ContentBlock(s)
            OBVIOUS
        <3>2. b.type \in AllowedBlockTypes /\ "type" \in DOMAIN b
            BY <2>2, <3>1 DEF ContentBlock
        <3>3. parts[i] = <<b>>
            BY <2>1, <2>2, <3>1
        <3> HIDE DEF parts
        <3> QED BY <3>2, <3>3, OneListed
    <2>3. CASE ~(ConvertBbox(s.box) # None /\ LayoutType(s) \in AllowedBlockTypes)
        <3>1. parts[i] = <<>>
            BY <2>1, <2>3
        <3> HIDE DEF parts
        <3> QED BY <3>1, OneListed
    <2> QED BY <2>2, <2>3
<1>3. parts = [i \in 1..Len(segments) |-> parts[i]]
    <2> HIDE DEF Found
    <2> QED BY <1>1
<1>4. bs = FlattenSeq(parts)
    BY DEF ParseLayoutOutput
<1> HIDE DEF parts
<1>5. Listed(parts) /\ Len(parts) = Len(segments)
    BY <1>1, <1>3, Listing
<1>6. ComesFrom(bs[k], parts)
    <2>1. \A i \in 1..Len(parts) : Listed(parts[i])
        BY <1>2, <1>5
    <2> QED BY <1>4, <1>5, <2>1, FlattenFrom
<1> QED BY <1>2, <1>5, <1>6 DEF ComesFrom

LEMMA ProcessedTypes ==
    ASSUME NEW bs, Listed(bs), \A k \in 1..Len(bs) : bs[k].type \in AllowedBlockTypes /\ "type" \in DOMAIN bs[k],
           NEW s, s = PostProcessRawBlocks(bs), NEW k \in 1..Len(s)
    PROVE  s[k].type \in RawTypes
<1> DEFINE parts == [i \in DOMAIN bs |-> IF bs[i].type = "equation_block" THEN <<>> ELSE <<PostProcess(bs[i])>>]
<1>1. DOMAIN bs = 1..Len(bs) /\ Len(bs) \in Nat
    BY ListedFacts
<1>2. ASSUME NEW i \in 1..Len(bs)
      PROVE  Listed(parts[i]) /\ \A j \in 1..Len(parts[i]) : parts[i][j].type \in RawTypes
    <2>1. PICK b, c : b = bs[i] /\ c = PostProcess(b)
        OBVIOUS
    <2>2. parts[i] = IF b.type = "equation_block" THEN <<>> ELSE <<c>>
        BY <1>1, <2>1
    <2>3. b.type # "equation_block" => c.type \in RawTypes
        <3>1. b.type \in AllowedBlockTypes /\ "type" \in DOMAIN b
            BY <2>1
        <3>2. c.type = IF b.type = "list_item" THEN "text" ELSE b.type
            BY <2>1, <3>1 DEF PostProcess
        <3> QED BY <3>1, <3>2 DEF RawTypes, AllowedBlockTypes
    <2> HIDE DEF parts
    <2> QED BY <2>2, <2>3, OneListed
<1>3. parts = [i \in 1..Len(bs) |-> parts[i]]
    BY <1>1
<1>4. s = FlattenSeq(parts)
    BY DEF PostProcessRawBlocks
<1> HIDE DEF parts
<1>5. Listed(parts) /\ Len(parts) = Len(bs)
    BY <1>1, <1>3, Listing
<1>6. ComesFrom(s[k], parts)
    <2>1. \A i \in 1..Len(parts) : Listed(parts[i])
        BY <1>2, <1>5
    <2> QED BY <1>4, <1>5, <2>1, FlattenFrom
<1> QED BY <1>2, <1>5, <1>6 DEF ComesFrom

LEMMA PyTypeOfRaw ==
    ASSUME NEW t \in RawTypes
    PROVE  PyType(t) \in PyTypes
BY DEF RawTypes, AllowedBlockTypes, PyTypes, PyType, VisualMain, GenericChild, Discarded

LEMMA RawKept ==
    ASSUME BoxesInv, ReadLayout
    PROVE  RawInv'
<1>1. pages[page] \in Pages
    BY LenProperties, ElementOfSeq DEF BoxesInv, ProgressInv, ReadLayout
<1>2. PICK segments : segments = pages[page].segments
    OBVIOUS
<1>3. PICK bs : bs = ParseLayoutOutput(segments)
    OBVIOUS
<1>4. segments \in Seq(Segments)
    BY <1>1, <1>2, PageFields
<1>5. \A k \in 1..Len(bs) : bs[k].type \in AllowedBlockTypes /\ "type" \in DOMAIN bs[k]
    BY <1>3, <1>4, ParsedTypes
<1>6. Listed(bs)
    BY <1>3, <1>4, ParsedBoxed DEF AllBoxed
<1>7. raw' = PostProcessRawBlocks(bs)
    BY <1>2, <1>3 DEF ReadLayout
<1> QED BY <1>5, <1>6, <1>7, ProcessedTypes DEF RawInv

LEMMA BlocksMade ==
    ASSUME BoxesInv, RawInv, ConvertBlocks
    PROVE  BlocksInv'
<1> DEFINE parts == [i \in DOMAIN raw |-> IF RawToPyBlock(i).bbox = None THEN <<>> ELSE <<RawToPyBlock(i)>>]
           s == blocks'
           N == Len(raw)
<1>1. DOMAIN raw = 1..N /\ N \in Nat
    BY ListedFacts DEF BoxesInv, PageInv, AllBoxed
<1>2. ASSUME NEW i \in 1..N
      PROVE  RawToPyBlock(i).index = i /\ PyBlock(RawToPyBlock(i))
    <2>1. PICK b, t, spans : b = RawToPyBlock(i) /\ t = raw[i].type /\ spans = SpansOf(raw[i])
        OBVIOUS
    <2>2. /\ {"type", "lines", "blocks", "index", "subType", "mergePrev"} \subseteq DOMAIN b
          /\ b.type = PyType(t) /\ b.index = i /\ b.blocks = <<>> /\ b.lines = <<spans>>
        BY <2>1 DEF RawToPyBlock
    <2>3. t \in RawTypes
        BY <2>1 DEF RawInv
    <2>4. PyBlock(b)
        BY <2>2, <2>3, PyTypeOfRaw, OneListed DEF PyBlock
    <2> QED BY <2>1, <2>2, <2>4
<1>3. ASSUME NEW i \in 1..N
      PROVE  Listed(parts[i]) /\ \A j \in 1..Len(parts[i]) : j = 1 /\ PyBlock(parts[i][j]) /\ parts[i][j].index = i
    <2>1. PICK b : b = RawToPyBlock(i)
        OBVIOUS
    <2>2. parts[i] = IF b.bbox = None THEN <<>> ELSE <<b>>
        BY <1>1, <2>1
    <2>3. b.index = i /\ PyBlock(b)
        BY <1>2, <2>1
    <2> HIDE DEF parts
    <2> QED BY <2>2, <2>3, OneListed
<1>4. parts = [i \in 1..N |-> parts[i]]
    BY <1>1
<1>5. s = FlattenSeq(parts)
    BY DEF ConvertBlocks
<1> HIDE DEF parts, s
<1>6. Listed(parts) /\ Len(parts) = N
    <2> HIDE DEF N
    <2> QED BY <1>1, <1>4, Listing
<1>7. PICK from : Spread(s, parts, N, from) /\ PartByPart(s, from)
    BY <1>3, <1>5, <1>6, FlattenSpreads
<1> HIDE DEF N
<1>8. ASSUME NEW k \in 1..Len(s)
      PROVE  from[k] = <<s[k].index, 1>> /\ PyBlock(s[k])
    <2>1. PICK n, j : n = from[k][1] /\ j = from[k][2]
        OBVIOUS
    <2>2. from[k] \in Nat \X Nat /\ n \in 1..N /\ j \in 1..Len(parts[n]) /\ s[k] = parts[n][j]
        BY <1>7, <2>1 DEF Spread
    <2>3. j = 1 /\ PyBlock(s[k]) /\ s[k].index = n
        BY <1>3, <2>2
    <2>4. from[k] = <<n, j>>
        BY <2>1, <2>2
    <2> QED BY <2>3, <2>4
<1>9. ASSUME NEW j \in 1..Len(s), NEW k \in 1..Len(s), s[j].index = s[k].index PROVE j = k
    <2>1. from[j] = from[k]
        BY <1>8, <1>9
    <2> QED BY <1>7, <2>1 DEF Spread
<1>10. raw' = raw
    BY DEF ConvertBlocks
<1>11. ASSUME NEW b, PyBlock(b) PROVE PyBlock(b)'
    BY <1>10, <1>11 DEF PyBlock
<1>12. Sorted(s)
    <2>1. \A k \in 1..Len(s) : from[k][1] = s[k].index
        BY <1>8
    <2> QED BY <1>7, <2>1 DEF PartByPart, Sorted
<1> QED BY <1>8, <1>9, <1>10, <1>12 DEF BlocksInv, s, PyBlock, Sorted

LEMMA BlocksCropped ==
    ASSUME BoxesInv, BlocksInv, WriteCrop
    PROVE  BlocksInv'
<1> DEFINE i    == CHOOSE i \in ToCrop : \A j \in ToCrop : i <= j
           name == CropName(blocks[i].lines[1][1].type, blocks[i].bbox)
           line == [blocks[i].lines[1] EXCEPT ![1].image = name]
           lines == [blocks[i].lines EXCEPT ![1] = line]
           b == [blocks[i] EXCEPT !.lines = lines]
<1>1. raw' = raw /\ (blocks' = [blocks EXCEPT ![i] = b] \/ blocks' = blocks)
    <2>1. blocks' = [blocks EXCEPT ![i].lines[1][1].image = name] \/ blocks' = blocks
        BY DEF WriteCrop
    <2> QED BY <2>1 DEF WriteCrop
<1> HIDE DEF line, i
<1>2. Listed(blocks) /\ DOMAIN blocks = 1..Len(blocks)
    BY ListedFacts DEF BoxesInv, PageInv, AllBoxed
<1>3. CASE blocks' = blocks
    BY <1>1, <1>3 DEF BlocksInv, PyBlock, Sorted
<1>4. CASE blocks' = [blocks EXCEPT ![i] = b]
    <2>1. i \in 1..Len(blocks) => Listed(lines)
        BY ReplacedListed DEF Replaces, BlocksInv, PyBlock
    <2> HIDE DEF lines
    <2>2. i \in 1..Len(blocks) => PyBlock(b) /\ b.index = blocks[i].index
        BY <2>1 DEF BlocksInv, PyBlock
    <2> HIDE DEF b
    <2>3. /\ Len(blocks') = Len(blocks)
          /\ \A k \in 1..Len(blocks) : blocks'[k] = IF k = i THEN b ELSE blocks[k]
        BY <1>2, <1>4, ReplacedListed DEF Replaces
    <2>4. \A k \in 1..Len(blocks) : PyBlock(blocks'[k]) /\ blocks'[k].index = blocks[k].index
        BY <2>2, <2>3 DEF BlocksInv
    <2>5. Sorted(blocks')
        BY <2>3, <2>4 DEF BlocksInv, Sorted
    <2> QED BY <1>1, <2>3, <2>4, <2>5 DEF BlocksInv, PyBlock, Sorted
<1> QED BY <1>1, <1>3, <1>4

-----------------------------------------------------------------------------
(* The indexes of the blocks at some places of the page. *)
Idx(D) == {blocks[i].index : i \in D}

LEMMA IdxApart ==
    ASSUME BlocksInv, NEW D \in SUBSET (1..Len(blocks)), NEW E \in SUBSET (1..Len(blocks)), D \cap E = {}
    PROVE  Idx(D) \cap Idx(E) = {}
BY DEF BlocksInv, Idx

(* A block that has no parts stands for itself. *)
LEMMA PlainHolds ==
    ASSUME NEW b, b.blocks = <<>>, NEW n
    PROVE  Holds(b, n) <=> n = b.index
<1>1. PlacesOf(b) = <<b.index>>
    BY DEF PlacesOf
<1> QED BY <1>1, OneListed DEF Holds

LEMMA PlainPlaced ==
    ASSUME NEW b, b.blocks = <<>>, b.index \in 1..Len(raw), Lined(b)
    PROVE  Placed(b)
<1>1. PlacesOf(b) = <<b.index>>
    BY DEF PlacesOf
<1> QED BY <1>1, OneListed DEF Placed

(* Blocks made of one block of the page each. *)
LEMMA HeldPlain ==
    ASSUME BlocksInv, Listed(blocks), NEW D \in SUBSET (1..Len(blocks)),
           NEW f, \A i \in D : f[i].index = blocks[i].index /\ f[i].blocks = <<>> /\ Lined(f[i])
    PROVE  Held({f[i] : i \in D}, Idx(D))
<1> DEFINE F == {f[i] : i \in D}
<1>1. IsFiniteSet(F)
    <2>1. Len(blocks) \in Nat
        BY ListedFacts
    <2>2. IsFiniteSet(1..Len(blocks))
        BY <2>1, UpTo
    <2>3. IsFiniteSet(D)
        BY <2>2, FS_Subset
    <2> QED BY <2>3, HitsAtMost
<1>2. ASSUME NEW i \in D PROVE Placed(f[i]) /\ \A n : Holds(f[i], n) <=> n = blocks[i].index
    <2>1. f[i].index \in 1..Len(raw)
        BY DEF BlocksInv, PyBlock
    <2> QED BY <2>1, PlainPlaced, PlainHolds
<1>3. \A n : n \in Idx(D) <=> \E b \in F : Holds(b, n)
    BY <1>2 DEF Idx
<1>4. ASSUME NEW i \in D, NEW j \in D, NEW n, Holds(f[i], n), Holds(f[j], n) PROVE f[i] = f[j]
    <2>1. blocks[i].index = blocks[j].index
        BY <1>2, <1>4
    <2>2. i = j
        BY <2>1 DEF BlocksInv
    <2> QED BY <2>2
<1>5. \A b \in F : Placed(b)
    BY <1>2
<1>6. \A b, c \in F : \A n : Holds(b, n) /\ Holds(c, n) => b = c
    BY <1>4
<1> HIDE DEF F
<1>7. Held(F, Idx(D))
    BY <1>1, <1>3, <1>5, <1>6 DEF Held
<1> QED BY <1>7 DEF F

(* A block made of several takes their place. *)
LEMMA GroupPlaces ==
    ASSUME Listed(raw), NEW S, NEW X, Held(S, X), S # {}, \A x \in S : x.blocks = <<>>,
           NEW b, b.blocks = ByIndex(S), b.index \in 1..Len(raw), Lined(b)
    PROVE  Placed(b) /\ \A n : Holds(b, n) <=> n \in X
<1> DEFINE q == ByIndex(S)
           p == [i \in DOMAIN q |-> q[i].index]
<1>1. Enumerates(q, S)
    BY SortedEnumerates DEF Held, Placed
<1>2. b.blocks = q
    OBVIOUS
<1> HIDE DEF q
<1>3. Listed(q) /\ Len(q) \in Nat /\ DOMAIN q = 1..Len(q) /\ \A k \in 1..Len(q) : q[k] \in S
    BY <1>1, ListedFacts, ElementOfSeq DEF Listed, Enumerates
<1>4. q # <<>>
    <2>1. PICK k \in 1..Len(q) : TRUE
        BY <1>1 DEF Enumerates
    <2>2. Len(<<>>) = 0 /\ 1..0 = {}
        OBVIOUS
    <2> QED BY <2>1, <2>2
<1>5. PlacesOf(b) = p
    BY <1>2, <1>4 DEF PlacesOf
<1>6. p = [i \in 1..Len(q) |-> p[i]] /\ \A i \in 1..Len(q) : p[i] = q[i].index
    BY <1>3
<1> HIDE DEF p
<1>7. Listed(p) /\ Len(p) = Len(q)
    BY <1>3, <1>6, Listing
<1>8. \A x \in S : \A n : Holds(x, n) <=> n = x.index
    BY PlainHolds
<1>9. ASSUME NEW j \in 1..Len(p), NEW k \in 1..Len(p), p[j] = p[k] PROVE j = k
    <2>1. q[j] \in S /\ q[k] \in S /\ q[j].index = q[k].index
        BY <1>3, <1>6, <1>7, <1>9
    <2>2. PICK x, y : x = q[j] /\ y = q[k]
        OBVIOUS
    <2>3. x \in S /\ y \in S /\ Holds(x, x.index) /\ Holds(y, x.index)
        BY <1>8, <2>1, <2>2
    <2>4. x = y
        BY <2>3 DEF Held
    <2> QED BY <1>1, <1>7, <2>2, <2>4 DEF Enumerates
<1>10. Placed(b)
    BY <1>5, <1>7, <1>9 DEF Placed
<1>11. ASSUME NEW n PROVE Holds(b, n) <=> n \in X
    <2>1. Holds(b, n) <=> \E k \in 1..Len(q) : q[k].index = n
        BY <1>5, <1>6, <1>7 DEF Holds
    <2>2. (\E k \in 1..Len(q) : q[k].index = n) <=> \E x \in S : x.index = n
        BY <1>1, <1>3 DEF Enumerates
    <2>3. n \in X <=> \E x \in S : x.index = n
        BY <1>8 DEF Held
    <2> QED BY <2>1, <2>2, <2>3
<1> QED BY <1>10, <1>11

(* Some of them stand for what they stand for. *)
LEMMA HeldPart ==
    ASSUME NEW F, NEW X, Held(F, X), NEW G \in SUBSET F
    PROVE  Held(G, {n \in X : \E b \in G : Holds(b, n)})
<1>1. IsFiniteSet(G)
    BY FS_Subset DEF Held
<1>2. \A n : (\E b \in G : Holds(b, n)) => n \in X
    BY DEF Held
<1> QED BY <1>1, <1>2 DEF Held

-----------------------------------------------------------------------------
(* regroup_visual_blocks. *)
LEMMA GapNatural ==
    ASSUME NEW a \in Nat, NEW b \in Nat, NEW c \in Nat, NEW d \in Nat
    PROVE  Gap(a, b, c, d) \in Nat
BY DEF Gap

(* A child that has a parent it may belong to belongs to one of them.      *)
LEMMA ParentExists ==
    ASSUME NEW width, NEW height, AllBoxed(blocks, width, height), BlocksInv,
           NEW c \in DOMAIN blocks, Parents(c) # {}
    PROVE  ParentOf(c) \in Parents(c) /\ \A q \in Parents(c) : Closer(c, ParentOf(c), q)
<1> DEFINE P == Parents(c)
           far == [x \in P |-> Greater(c, x) - Lesser(c, x)]
           A == {x \in P : \A y \in P : far[x] <= far[y]}
           box == [x \in A |-> BboxDistance(blocks[c].bbox, blocks[x].bbox)]
           B == {x \in A : \A y \in A : box[x] <= box[y]}
           idx == [x \in B |-> blocks[x].index]
<1>1. DOMAIN blocks = 1..Len(blocks) /\ Len(blocks) \in Nat
    BY ListedFacts DEF AllBoxed
<1>2. P \in SUBSET (1..Len(blocks)) /\ c \in 1..Len(blocks)
    BY <1>1 DEF Parents
<1> HIDE DEF P
<1>3. \A x \in P : far[x] \in Nat
    BY <1>2 DEF Greater, Lesser
<1>4. A # {}
    <2> HIDE DEF far
    <2> QED BY <1>3, LeastOf DEF P
<1>5. \A x \in A : box[x] \in Nat
    <2>1. ASSUME NEW x \in 1..Len(blocks)
          PROVE  /\ blocks[x].bbox[1] \in Nat /\ blocks[x].bbox[2] \in Nat
                 /\ blocks[x].bbox[3] \in Nat /\ blocks[x].bbox[4] \in Nat
        BY DEF AllBoxed, Boxed, BoxOf, Side
    <2>2. ASSUME NEW x \in A PROVE BboxDistance(blocks[c].bbox, blocks[x].bbox) \in Nat
        <3>1. x \in 1..Len(blocks)
            BY <1>2
        <3>2. PICK v, w : v = blocks[c].bbox /\ w = blocks[x].bbox
            OBVIOUS
        <3>3. /\ v[1] \in Nat /\ v[2] \in Nat /\ v[3] \in Nat /\ v[4] \in Nat
              /\ w[1] \in Nat /\ w[2] \in Nat /\ w[3] \in Nat /\ w[4] \in Nat
            BY <1>2, <2>1, <3>1, <3>2
        <3>4. Gap(v[1], v[3], w[1], w[3]) \in Nat /\ Gap(v[2], v[4], w[2], w[4]) \in Nat
            BY <3>3, GapNatural
        <3>5. BboxDistance(v, w) \in Nat
            BY <3>4 DEF BboxDistance
        <3> QED BY <3>2, <3>5
    <2> QED BY <2>2
<1> HIDE DEF A
<1>6. B # {}
    <2> HIDE DEF box
    <2> QED BY <1>4, <1>5, LeastOf
<1>7. B \in SUBSET A /\ A \in SUBSET P
    BY DEF A
<1>8. \A x \in P : blocks[x].index \in Nat
    BY <1>2 DEF BlocksInv, PyBlock
<1>9. PICK p \in B : \A y \in B : idx[p] <= idx[y]
    <2>1. \A x \in B : idx[x] \in Nat
        BY <1>7, <1>8
    <2> HIDE DEF B, idx
    <2> QED BY <1>6, <2>1, LeastOf
<1>10. ASSUME NEW q \in P PROVE Closer(c, p, q)
    <2>1. p \in A /\ p \in P
        BY <1>7
    <2>2. /\ far[p] = Greater(c, p) - Lesser(c, p)
          /\ far[q] = Greater(c, q) - Lesser(c, q)
        BY <2>1
    <2>3. far[p] < far[q] \/ (far[p] = far[q] /\ q \in A)
        <3>1. far[p] <= far[q] /\ \A y \in P : far[p] <= far[y]
            BY <2>1 DEF A
        <3>2. far[p] \in Nat /\ far[q] \in Nat
            BY <1>3, <2>1
        <3>3. far[p] = far[q] => q \in A
            BY <3>1 DEF A
        <3> QED BY <3>1, <3>2, <3>3
    <2> HIDE DEF far
    <2>4. ASSUME q \in A
          PROVE  \/ BboxDistance(blocks[c].bbox, blocks[p].bbox) < BboxDistance(blocks[c].bbox, blocks[q].bbox)
                 \/ /\ BboxDistance(blocks[c].bbox, blocks[p].bbox) = BboxDistance(blocks[c].bbox, blocks[q].bbox)
                    /\ q \in B
        <3>1. box[p] <= box[q] /\ \A y \in A : box[p] <= box[y]
            BY <2>4
        <3>2. box[p] \in Nat /\ box[q] \in Nat
            BY <1>5, <2>1, <2>4
        <3>3. box[p] = box[q] => q \in B
            BY <2>4, <3>1
        <3>4. /\ box[p] = BboxDistance(blocks[c].bbox, blocks[p].bbox)
              /\ box[q] = BboxDistance(blocks[c].bbox, blocks[q].bbox)
            BY <2>1, <2>4
        <3> HIDE DEF box
        <3> QED BY <3>1, <3>2, <3>3, <3>4
    <2>5. q \in B => blocks[p].index <= blocks[q].index
        BY <1>9
    <2> QED BY <2>2, <2>3, <2>4, <2>5 DEF Closer
<1>11. \E x \in Parents(c) : \A q \in Parents(c) : Closer(c, x, q)
    BY <1>7, <1>10 DEF P
<1> QED BY <1>11 DEF ParentOf

LEMMA ChildPlaces ==
    ASSUME NEW width, NEW height, AllBoxed(blocks, width, height), BlocksInv
    PROVE  /\ Children \in SUBSET (1..Len(blocks))
           /\ \A c \in Children : Parents(c) # {} =>
                 ParentOf(c) \in 1..Len(blocks) /\ blocks[ParentOf(c)].type \in VisualMain
           /\ \A c \in Children : blocks[c].type \notin VisualMain
<1>1. DOMAIN blocks = 1..Len(blocks)
    BY ListedFacts DEF AllBoxed
<1>2. ASSUME NEW c \in Children, Parents(c) # {}
      PROVE  ParentOf(c) \in 1..Len(blocks) /\ blocks[ParentOf(c)].type \in VisualMain
    <2>1. ParentOf(c) \in Parents(c)
        BY <1>2, ParentExists DEF Children
    <2> QED BY <1>1, <2>1 DEF Parents
<1> QED BY <1>1, <1>2 DEF Children, VisualMain, GenericChild

(* A visual block stands for its body and its children. *)
LEMMA VisualPlaces ==
    ASSUME NEW width, NEW height, AllBoxed(blocks, width, height), BlocksInv, Listed(raw),
           NEW p \in 1..Len(blocks), blocks[p].type \in VisualMain
    PROVE  /\ Placed(Visual(p)) /\ \A n : Holds(Visual(p), n) <=> n \in Idx({p} \cup ChildrenOf(p))
           /\ Visual(p).index = blocks[p].index /\ Visual(p).blocks # <<>>
<1> DEFINE parent == ParentType(blocks[p].type)
           body == [blocks[p] EXCEPT !.type = BodyType[parent]]
           AsChild(c) == [blocks[c] EXCEPT !.type = IF @ = "footnote" THEN FootnoteType[parent]
                                                    ELSE CaptionType[parent]]
           D == {p} \cup ChildrenOf(p)
           f == [i \in D |-> IF i = p THEN body ELSE AsChild(i)]
           S == {f[i] : i \in D}
           b == Visual(p)
<1>1. Children \in SUBSET (1..Len(blocks)) /\ p \notin Children
    BY ChildPlaces
<1>2. D \in SUBSET (1..Len(blocks)) /\ p \notin ChildrenOf(p)
    BY <1>1 DEF ChildrenOf
<1>3. ASSUME NEW i \in D PROVE f[i].index = blocks[i].index /\ f[i].blocks = <<>> /\ Lined(f[i])
    <2>1. PyBlock(blocks[i])
        BY <1>2 DEF BlocksInv
    <2>2. CASE i = p
        BY <2>1, <2>2 DEF PyBlock, Lined
    <2>3. CASE i # p
        <3>1. f[i] = AsChild(i)
            BY <2>3
        <3> HIDE DEF f
        <3> QED BY <2>1, <3>1 DEF PyBlock, Lined
    <2> QED BY <2>2, <2>3
<1>4. S = {body} \cup {AsChild(c) : c \in ChildrenOf(p)}
    <2> HIDE DEF body, AsChild
    <2>1. f[p] = body /\ \A c \in ChildrenOf(p) : f[c] = AsChild(c)
        BY <1>2
    <2> QED BY <2>1
<1>5. b.blocks = ByIndex(S) /\ b.index = blocks[p].index /\ b.index \in 1..Len(raw) /\ Lined(b)
    <2>1. PyBlock(blocks[p])
        BY DEF BlocksInv
    <2>2. b = [blocks[p] EXCEPT !.type = parent, !.lines = <<>>, !.mergePrev = FALSE, !.blocks = ByIndex(S)]
        <3>1. b = [blocks[p] EXCEPT !.type = parent, !.lines = <<>>, !.mergePrev = FALSE,
                       !.blocks = ByIndex({body} \cup {AsChild(c) : c \in ChildrenOf(p)})]
            BY DEF Visual
        <3> HIDE DEF S, body, AsChild
        <3> QED BY <1>4, <3>1
    <2> HIDE DEF S, b
    <2> QED BY <2>1, <2>2, OneListed DEF PyBlock, Lined
<1>6. S # {} /\ \A x \in S : x.blocks = <<>>
    <2> HIDE DEF f
    <2> QED BY <1>3
<1>7. Listed(blocks)
    BY DEF AllBoxed
<1> HIDE DEF f, b
<1>8. Held(S, Idx(D))
    <2> HIDE DEF D
    <2> QED BY <1>2, <1>3, <1>7, HeldPlain
<1> HIDE DEF S, D
<1>9. Placed(b) /\ \A n : Holds(b, n) <=> n \in Idx(D)
    BY <1>5, <1>6, <1>8, GroupPlaces
<1>10. ByIndex(S) # <<>>
    <2>1. PICK x \in S : TRUE
        BY <1>6
    <2>2. Enumerates(ByIndex(S), S)
        BY <1>8, SortedEnumerates DEF Held, Placed
    <2> QED BY <2>1, <2>2, OneListed DEF Enumerates
<1> QED BY <1>5, <1>9, <1>10 DEF b, D

LEMMA VisualsHeld ==
    ASSUME NEW width, NEW height, AllBoxed(blocks, width, height), BlocksInv, Listed(raw),
           NEW bodies, bodies = {q \in DOMAIN blocks : blocks[q].type \in VisualMain},
           NEW claimed, claimed = {c \in Children : Parents(c) # {}}
    PROVE  Held({Visual(p) : p \in bodies}, Idx(bodies \cup claimed))
<1> DEFINE D(p) == {p} \cup ChildrenOf(p)
           f == [p \in bodies |-> Visual(p)]
           F == {f[p] : p \in bodies}
<1>1. bodies \in SUBSET (1..Len(blocks)) /\ IsFiniteSet(bodies)
    <2>1. DOMAIN blocks = 1..Len(blocks) /\ Len(blocks) \in Nat
        BY ListedFacts DEF AllBoxed
    <2> QED BY <2>1, UpTo, FS_Subset
<1>2. \A p \in bodies : Placed(f[p]) /\ \A n : Holds(f[p], n) <=> n \in Idx(D(p))
    BY <1>1, VisualPlaces
<1>3. F = {Visual(p) : p \in bodies}
    OBVIOUS
<1> HIDE DEF f
<1>4. ASSUME NEW n PROVE n \in Idx(bodies \cup claimed) <=> \E p \in bodies : n \in Idx(D(p))
    <2>1. ASSUME NEW p \in bodies, NEW i \in D(p) PROVE i \in bodies \cup claimed
        BY DEF ChildrenOf
    <2>2. ASSUME NEW c \in claimed PROVE \E p \in bodies : c \in D(p)
        <3>1. ParentOf(c) \in bodies
            <4>1. ParentOf(c) \in 1..Len(blocks) /\ blocks[ParentOf(c)].type \in VisualMain
                BY ChildPlaces
            <4> QED BY <4>1, ListedFacts DEF AllBoxed
        <3> QED BY <3>1 DEF ChildrenOf
    <2> HIDE DEF D
    <2>3. \A p \in bodies : p \in D(p)
        BY DEF D
    <2> QED BY <2>1, <2>2, <2>3 DEF Idx
<1>5. ASSUME NEW p \in bodies, NEW q \in bodies, NEW n, n \in Idx(D(p)), n \in Idx(D(q)) PROVE p = q
    <2>1. PICK i \in D(p), j \in D(q) : blocks[i].index = n /\ blocks[j].index = n
        BY <1>5 DEF Idx
    <2>2. Children \in SUBSET (1..Len(blocks)) /\ \A c \in Children : c \notin bodies
        BY ChildPlaces
    <2>3. i \in 1..Len(blocks) /\ j \in 1..Len(blocks)
        BY <1>1, <2>2 DEF ChildrenOf
    <2>4. i = j
        BY <2>1, <2>3 DEF BlocksInv
    <2> QED BY <2>2, <2>4 DEF ChildrenOf
<1> HIDE DEF D
<1>6. IsFiniteSet(F) /\ \A b \in F : Placed(b)
    BY <1>1, <1>2, HitsAtMost
<1>7. \A n : n \in Idx(bodies \cup claimed) <=> \E b \in F : Holds(b, n)
    BY <1>2, <1>4
<1>8. ASSUME NEW p \in bodies, NEW q \in bodies, NEW n, Holds(f[p], n), Holds(f[q], n) PROVE f[p] = f[q]
    BY <1>2, <1>5, <1>8
<1>9. \A b, c \in F : \A n : Holds(b, n) /\ Holds(c, n) => b = c
    BY <1>8
<1> HIDE DEF F
<1>10. Held(F, Idx(bodies \cup claimed))
    BY <1>6, <1>7, <1>9 DEF Held
<1> QED BY <1>3, <1>10

-----------------------------------------------------------------------------
(* fix_list_blocks: lists that take texts up, and the texts that are left, *)
(* stand for what the texts stood for.                                     *)
FillHeld(x, X) ==
    /\ Held(x.lists \cup x.texts \cup x.refs, X)
    /\ \A b \in x.texts \cup x.refs : b.blocks = <<>>
    /\ \A b \in x.lists : b.blocks # <<>> /\ {"blocks", "index"} \subseteq DOMAIN b

LEMMA FillListHeld ==
    ASSUME Listed(raw), NEW x, NEW X, FillHeld(x, X), NEW list, PyBlock(list),
           NEW y, y = FillList(x, list)
    PROVE  FillHeld(y, X)
<1> DEFINE F == x.lists \cup x.texts \cup x.refs
           items == {b \in x.texts \cup x.refs : MostlyIn(b.bbox, list.bbox)}
           full == [list EXCEPT !.lines = <<>>, !.blocks = ByIndex(items)]
           Y == {n \in X : \E b \in items : Holds(b, n)}
           Z == {n \in X : \E b \in F \ items : Holds(b, n)}
<1>1. /\ y.lists = IF items = {} THEN x.lists ELSE x.lists \cup {full}
      /\ y.texts = x.texts \ items /\ y.refs = x.refs \ items
    BY DEF FillList
<1>2. items \in SUBSET F /\ \A b \in items : b.blocks = <<>>
    BY DEF FillHeld
<1>3. /\ full.blocks = ByIndex(items) /\ full.index \in 1..Len(raw) /\ Lined(full)
      /\ {"blocks", "index"} \subseteq DOMAIN full
    BY OneListed DEF PyBlock, Lined
<1> HIDE DEF items, full
<1>4. Held(items, Y) /\ Held(F \ items, Z)
    BY <1>2, HeldPart DEF FillHeld
<1>5. CASE items = {}
    BY <1>1, <1>5 DEF FillHeld
<1>6. CASE items # {}
    <2>1. Placed(full) /\ \A n : Holds(full, n) <=> n \in Y
        BY <1>2, <1>3, <1>4, <1>6, GroupPlaces
    <2>2. Held({full}, Y)
        BY <2>1, FS_Singleton DEF Held
    <2>3. Y \cap Z = {}
        BY <1>2 DEF FillHeld, Held
    <2>4. Held((F \ items) \cup {full}, Z \cup Y)
        BY <1>4, <2>2, <2>3, HeldUnion
    <2>5. Z \cup Y = X
        BY DEF FillHeld, Held
    <2>6. y.lists \cup y.texts \cup y.refs = (F \ items) \cup {full}
        <3>1. x.lists \cap items = {}
            BY <1>2 DEF FillHeld
        <3> QED BY <1>1, <1>6, <3>1
    <2>7. full.blocks # <<>>
        <3>1. Enumerates(ByIndex(items), items)
            BY <1>4, SortedEnumerates DEF Held, Placed
        <3>2. PICK k \in 1..Len(ByIndex(items)) : TRUE
            BY <1>6, <3>1 DEF Enumerates
        <3>3. Len(<<>>) = 0 /\ 1..0 = {}
            OBVIOUS
        <3> QED BY <1>3, <3>2, <3>3
    <2> HIDE DEF F, Y, Z
    <2>8. Held(y.lists \cup y.texts \cup y.refs, X)
        BY <2>4, <2>5, <2>6
    <2> QED BY <1>1, <1>3, <2>7, <2>8 DEF FillHeld
<1> QED BY <1>5, <1>6

LEMMA FixedHeld ==
    ASSUME Listed(raw), NEW lists, NEW texts, NEW refs, NEW X,
           IsFiniteSet(lists), \A b \in lists : PyBlock(b),
           Held(texts \cup refs, X), \A b \in texts \cup refs : b.blocks = <<>>,
           NEW fixed, fixed = FixListBlocks(lists, texts, refs)
    PROVE  FillHeld(fixed, X)
<1>1. PICK n \in Nat : \E order, filled :
               /\ filled[0] = [lists |-> {}, texts |-> texts, refs |-> refs] /\ filled[n] = fixed
               /\ \A k \in 1..n : order[k] \in lists /\ filled[k] = FillList(filled[k - 1], order[k])
    BY FilledSteps
<1>2. PICK order, filled :
               /\ filled[0] = [lists |-> {}, texts |-> texts, refs |-> refs] /\ filled[n] = fixed
               /\ \A k \in 1..n : order[k] \in lists /\ filled[k] = FillList(filled[k - 1], order[k])
    BY <1>1
<1> DEFINE Open == {k \in 0..n : ~ FillHeld(filled[k], X)}
<1>3. Open = {}
    <2> SUFFICES ASSUME Open # {} PROVE FALSE
        OBVIOUS
    <2>1. PICK k \in Open : \A m \in Open : k <= m
        <3> Open \in SUBSET Nat
            OBVIOUS
        <3> HIDE DEF Open
        <3> QED BY LeastNumber
    <2>2. CASE k = 0
        <3>1. PICK x : x = filled[0]
            OBVIOUS
        <3>2. x.lists = {} /\ x.texts = texts /\ x.refs = refs
            BY <1>2, <3>1
        <3>3. x.lists \cup x.texts \cup x.refs = texts \cup refs
            BY <3>2
        <3>4. FillHeld(x, X)
            BY <3>2, <3>3 DEF FillHeld
        <3> QED BY <2>1, <2>2, <3>1, <3>4
    <2>3. CASE k # 0
        <3>1. k - 1 \in 0..n /\ ~ (k <= k - 1) /\ k \in 1..n
            BY <2>1, <2>3
        <3>2. FillHeld(filled[k - 1], X)
            BY <2>1, <3>1
        <3>3. PICK x, list : x = filled[k - 1] /\ list = order[k]
            OBVIOUS
        <3>4. PyBlock(list) /\ filled[k] = FillList(x, list)
            BY <1>2, <3>1, <3>3
        <3>5. FillHeld(filled[k], X)
            BY <3>2, <3>3, <3>4, FillListHeld
        <3> QED BY <2>1, <3>5
    <2> QED BY <2>2, <2>3
<1>4. n \in 0..n
    OBVIOUS
<1> QED BY <1>2, <1>3, <1>4

-----------------------------------------------------------------------------
(* build_page_info: a block of the page is in one of its parts. *)
At(types) == {j \in DOMAIN blocks : blocks[j].type \in types}

(* The paragraphs of a page: texts and lists of them, titles and the like  *)
(* as they were, and what regroup_visual_blocks made.                      *)
Alone   == {"phonetic", "title", "interline_equation"}
Flowing == {"text", "caption", "footnote"}

(* A paragraph has the lines of a text, or of a caption or a footnote that *)
(* has no figure.                                                          *)
WithLinesOfPage(b) ==
    b.type = "text" => \E p \in 1..Len(blocks) : blocks[p].type \in Flowing /\ b.lines = blocks[p].lines

Assembled(S) ==
    /\ IsFiniteSet(S) /\ \A b \in S : b.index \in 1..Len(raw)
    /\ \A b \in S : \/ b.type \in {"text", "ref_text", "list"} /\ WithLinesOfPage(b)
                    \/ \E p \in 1..Len(blocks) : blocks[p].type \in Alone /\ b = blocks[p]
                    \/ \E p \in 1..Len(blocks) : blocks[p].type \in VisualMain /\ b = Visual(p)

LEMMA TakenLists ==
    ASSUME NEW lists, NEW items, NEW c \in Taking(lists, items),
           \A list \in lists : "type" \in DOMAIN list /\ list.type = "list"
    PROVE  "type" \in DOMAIN c /\ c.type = "list"
<1>1. PICK pair \in lists \X SUBSET items : c = [pair[1] EXCEPT !.lines = <<>>, !.blocks = ByIndex(pair[2])]
    BY DEF Taking
<1>2. PICK list : list = pair[1]
    OBVIOUS
<1>3. list \in lists /\ c = [list EXCEPT !.lines = <<>>, !.blocks = ByIndex(pair[2])]
    BY <1>1, <1>2
<1> QED BY <1>3

LEMMA AssembledKept ==
    ASSUME BoxesInv, BlocksInv, AssemblePage
    PROVE  /\ BlocksKept' /\ \A k \in 1..Len(para') : Lined(para'[k])
           /\ \E S : Assembled(S) /\ para' = ByIndex(S)
<1> DEFINE Of(types) == {blocks[i] : i \in {j \in DOMAIN blocks : blocks[j].type \in types}}
           alone     == {d \in Children : Parents(d) = {}}
           claimed   == {c \in Children : Parents(c) # {}}
           bodies    == {q \in DOMAIN blocks : blocks[q].type \in VisualMain}
           unmatched == {[blocks[c] EXCEPT !.type = "text"] : c \in alone}
           visuals   == {Visual(p) : p \in bodies}
           aside     == {"header", "footer", "page_number", "aside_text", "page_footnote"}
           others    == {"phonetic", "title", "interline_equation"}
           fixed     == FixListBlocks(Of({"list"}), Of({"text"}) \cup unmatched, Of({"ref_text"}))
           rest      == visuals \cup fixed.refs \cup Of({"phonetic", "title", "interline_equation"})
                        \cup fixed.texts
           chosen(mode) == {[list EXCEPT !.subType = mode[list]] : list \in fixed.lists}
           flow      == At({"text"}) \cup alone \cup At({"ref_text"})
           seen      == bodies \cup claimed
<1>1. /\ \E mode : preproc' = ByIndex(rest \cup chosen(mode))
      /\ discarded' = ByIndex(Of(aside)) /\ para' = preproc' /\ raw' = raw /\ blocks' = blocks
    BY DEF AssemblePage
<1>2. PICK width, height : width = pages[page].width /\ height = pages[page].height
    OBVIOUS
<1>3. AllBoxed(blocks, width, height) /\ Listed(raw) /\ Listed(blocks)
    BY <1>2 DEF BoxesInv, PageInv, AllBoxed
<1>4. DOMAIN blocks = 1..Len(blocks) /\ Len(blocks) \in Nat
    BY <1>3, ListedFacts
<1>5. \A i \in 1..Len(blocks) : PyBlock(blocks[i])
    BY DEF BlocksInv
<1>6. \A types : At(types) \in SUBSET (1..Len(blocks)) /\ Of(types) = {blocks[i] : i \in At(types)}
    BY <1>4 DEF At
<1>7. ASSUME NEW D \in SUBSET (1..Len(blocks)) PROVE Held({blocks[i] : i \in D}, Idx(D))
    BY <1>3, <1>5, HeldPlain DEF PyBlock, Lined
<1>8. Children \in SUBSET (1..Len(blocks))
    BY <1>3, ChildPlaces
<1>9. Held(visuals, Idx(seen))
    <2> HIDE DEF bodies, claimed
    <2> QED BY <1>3, VisualsHeld DEF bodies, claimed
<1>10. FillHeld(fixed, Idx(flow))
    <2> DEFINE f == [i \in flow |-> IF i \in alone THEN [blocks[i] EXCEPT !.type = "text"] ELSE blocks[i]]
    <2>1. flow \in SUBSET (1..Len(blocks))
        BY <1>6, <1>8
    <2>2. \A i \in flow : f[i].index = blocks[i].index /\ f[i].blocks = <<>> /\ Lined(f[i])
        <3> SUFFICES ASSUME NEW i \in flow
                     PROVE  f[i].index = blocks[i].index /\ f[i].blocks = <<>> /\ Lined(f[i])
            OBVIOUS
        <3>1. PyBlock(blocks[i])
            BY <1>5, <2>1
        <3>2. CASE i \in alone
            <4>1. f[i] = [blocks[i] EXCEPT !.type = "text"]
                BY <3>2
            <4> HIDE DEF f, alone, flow
            <4> QED BY <3>1, <4>1 DEF PyBlock, Lined
        <3>3. CASE i \notin alone
            <4>1. f[i] = blocks[i]
                BY <3>3
            <4> HIDE DEF f, alone, flow
            <4> QED BY <3>1, <4>1 DEF PyBlock, Lined
        <3> QED BY <3>2, <3>3
    <2>3. PICK lists, texts, refs : /\ lists = Of({"list"}) /\ texts = Of({"text"}) \cup unmatched
                                    /\ refs = Of({"ref_text"})
        OBVIOUS
    <2>4. texts \cup refs = {f[i] : i \in flow}
        <3>1. \A i \in At({"text"}) \cup At({"ref_text"}) : i \notin alone
            BY DEF At, Children, GenericChild
        <3>2. \A i \in At({"text"}) \cup At({"ref_text"}) : f[i] = blocks[i]
            BY <3>1
        <3>3. \A i \in alone : f[i] = [blocks[i] EXCEPT !.type = "text"]
            OBVIOUS
        <3> HIDE DEF f, alone, Of
        <3>4. Of({"text"}) = {f[i] : i \in At({"text"})} /\ Of({"ref_text"}) = {f[i] : i \in At({"ref_text"})}
            BY <1>6, <3>2
        <3>5. unmatched = {f[i] : i \in alone}
            BY <3>3
        <3> QED BY <2>3, <3>4, <3>5
    <2> HIDE DEF f, flow
    <2>5. Held(texts \cup refs, Idx(flow)) /\ \A b \in texts \cup refs : b.blocks = <<>>
        BY <1>3, <2>1, <2>2, <2>4, HeldPlain
    <2>6. IsFiniteSet(lists) /\ \A b \in lists : PyBlock(b)
        <3>1. lists = {blocks[i] : i \in At({"list"})} /\ At({"list"}) \in SUBSET (1..Len(blocks))
            BY <1>6, <2>3
        <3>2. Held(lists, Idx(At({"list"})))
            BY <1>7, <3>1
        <3> QED BY <1>5, <3>1, <3>2 DEF Held
    <2>7. fixed = FixListBlocks(lists, texts, refs)
        BY <2>3
    <2> HIDE DEF fixed
    <2> QED BY <1>3, <2>5, <2>6, <2>7, FixedHeld
<1>11. ASSUME NEW mode PROVE Held(fixed.texts \cup fixed.refs \cup chosen(mode), Idx(flow))
    <2> DEFINE F == fixed.lists \cup fixed.texts \cup fixed.refs
               f == [b \in F |-> IF b \in fixed.lists THEN [b EXCEPT !.subType = mode[b]] ELSE b]
    <2> HIDE DEF fixed
    <2>1. ASSUME NEW b \in F PROVE PlacesOf(f[b]) = PlacesOf(b) /\ f[b].index = b.index /\ (Lined(b) => Lined(f[b]))
        <3>2. PICK c : c = f[b]
            OBVIOUS
        <3>3. c.blocks = b.blocks /\ c.index = b.index /\ (Lined(b) => Lined(c))
            <4>1. CASE b \in fixed.lists
                <5>1. c = [b EXCEPT !.subType = mode[b]]
                    BY <3>2, <4>1
                <5>2. {"blocks", "index"} \subseteq DOMAIN b
                    BY <1>10, <4>1 DEF FillHeld
                <5> QED BY <5>1, <5>2 DEF Lined
            <4>2. CASE b \notin fixed.lists
                <5>1. c = b
                    BY <3>2, <4>2
                <5> QED BY <5>1
            <4> QED BY <4>1, <4>2
        <3>4. PlacesOf(c) = PlacesOf(b)
            BY <3>3 DEF PlacesOf
        <3> QED BY <3>2, <3>3, <3>4
    <2>2. fixed.texts \cup fixed.refs \cup chosen(mode) = {f[b] : b \in F}
        <3>1. \A b \in fixed.texts \cup fixed.refs : b \notin fixed.lists
            BY <1>10 DEF FillHeld
        <3>2. \A b \in fixed.texts \cup fixed.refs : f[b] = b
            BY <3>1
        <3>3. \A b \in fixed.lists : f[b] = [b EXCEPT !.subType = mode[b]]
            OBVIOUS
        <3>4. PICK L, T : L = fixed.lists /\ T = fixed.texts \cup fixed.refs
            OBVIOUS
        <3> HIDE DEF f
        <3>5. {f[b] : b \in T} = T
            BY <3>2, <3>4
        <3>6. {f[b] : b \in L} = chosen(mode)
            BY <3>3, <3>4
        <3>7. F = L \cup T
            BY <3>4
        <3>8. {f[b] : b \in F} = {f[b] : b \in L} \cup {f[b] : b \in T}
            BY <3>7
        <3> HIDE DEF F, chosen
        <3> QED BY <3>4, <3>5, <3>6, <3>8
    <2>3. Held(F, Idx(flow))
        BY <1>10 DEF FillHeld
    <2> HIDE DEF F, f, flow
    <2>4. Held({f[b] : b \in F}, Idx(flow))
        BY <2>1, <2>3, HeldAlike
    <2> QED BY <2>2, <2>4
<1>12. Held(Of(others), Idx(At(others))) /\ Held(Of(aside), Idx(At(aside)))
    <2> HIDE DEF Of
    <2> QED BY <1>6, <1>7
<1>13. /\ seen \cap At(others) = {} /\ flow \cap (seen \cup At(others)) = {}
       /\ At(aside) \cap (flow \cup seen \cup At(others)) = {}
    BY DEF At, Children, GenericChild, VisualMain
<1>14. (seen \cup At(others)) \cup flow \cup At(aside) = {i \in 1..Len(blocks) : blocks[i].type # "list"}
    <2>1. \A i \in 1..Len(blocks) : blocks[i].type \in PyTypes
        BY <1>5 DEF PyBlock
    <2> QED BY <1>4, <2>1 DEF At, Children, GenericChild, VisualMain, PyTypes, Discarded
<1>15. /\ seen \in SUBSET (1..Len(blocks)) /\ flow \in SUBSET (1..Len(blocks))
       /\ At(others) \in SUBSET (1..Len(blocks)) /\ At(aside) \in SUBSET (1..Len(blocks))
    BY <1>4, <1>6, <1>8
<1>16. PICK mode : preproc' = ByIndex(rest \cup chosen(mode))
    BY <1>1
<1> DEFINE S == rest \cup chosen(mode)
           X == Idx(seen) \cup Idx(At(others)) \cup Idx(flow)
<1>17. S = (visuals \cup Of(others)) \cup (fixed.texts \cup fixed.refs \cup chosen(mode))
    <2> HIDE DEF fixed, Of, visuals
    <2> QED OBVIOUS
<1>18. ASSUME NEW b \in S
       PROVE  \/ b.type \in {"text", "ref_text", "list"} /\ WithLinesOfPage(b)
              \/ \E p \in 1..Len(blocks) : blocks[p].type \in Alone /\ b = blocks[p]
              \/ \E p \in 1..Len(blocks) : blocks[p].type \in VisualMain /\ b = Visual(p)
    <2> DEFINE Flows(c) == c.type \in {"text", "ref_text", "list"} /\ WithLinesOfPage(c)
    <2>1. PICK lists, texts, refs : /\ lists = Of({"list"}) /\ texts = Of({"text"}) \cup unmatched
                                    /\ refs = Of({"ref_text"})
        OBVIOUS
    <2>2. \A c \in lists \cup texts \cup refs : Flows(c)
        <3>1. \A i \in 1..Len(blocks) : "type" \in DOMAIN blocks[i]
            BY <1>5 DEF PyBlock
        <3>2. ASSUME NEW c \in unmatched PROVE Flows(c)
            <4>1. PICK p \in Children : c = [blocks[p] EXCEPT !.type = "text"]
                OBVIOUS
            <4>2. p \in 1..Len(blocks) /\ blocks[p].type \in Flowing
                BY <1>4, <4>1 DEF Children, GenericChild, Flowing
            <4>3. c.type = "text" /\ c.lines = blocks[p].lines
                BY <3>1, <4>1, <4>2
            <4> QED BY <4>2, <4>3 DEF WithLinesOfPage
        <3>3. ASSUME NEW type, NEW c \in Of({type}) PROVE c.type = type /\ \E p \in 1..Len(blocks) : c = blocks[p]
            BY <1>4
        <3> HIDE DEF Of, unmatched, Flows
        <3>4. ASSUME NEW c \in Of({"text"}) PROVE Flows(c)
            <4>1. PICK p \in 1..Len(blocks) : c = blocks[p]
                BY <3>3
            <4>2. c.type = "text"
                BY <3>3
            <4> QED BY <4>1, <4>2 DEF Flows, WithLinesOfPage, Flowing
        <3>5. ASSUME NEW type, type \in {"ref_text", "list"}, NEW c \in Of({type}) PROVE Flows(c)
            <4>1. c.type = type
                BY <3>3
            <4> QED BY <3>5, <4>1 DEF Flows, WithLinesOfPage
        <3> QED BY <2>1, <3>2, <3>4, <3>5
    <2>3. \A c \in lists : "type" \in DOMAIN c /\ c.type = "list"
        BY <1>5, <1>6, <2>1 DEF PyBlock
    <2>4. fixed = FixListBlocks(lists, texts, refs)
        BY <2>1
    <2>5. b \in Of(others) => \E p \in 1..Len(blocks) : blocks[p].type \in Alone /\ b = blocks[p]
        BY <1>4 DEF Alone
    <2>6. b \in visuals => \E p \in 1..Len(blocks) : blocks[p].type \in VisualMain /\ b = Visual(p)
        BY <1>4
    <2> HIDE DEF fixed
    <2>7. b \in visuals \/ b \in Of(others) \/ b \in fixed.texts \cup fixed.refs \/ b \in chosen(mode)
        BY <1>18
    <2>8. IsFiniteSet(lists)
        <3>1. Held(lists, Idx(At({"list"})))
            BY <1>6, <1>7, <2>1
        <3> QED BY <3>1 DEF Held
    <2>9. fixed \in Filled(lists, texts, refs)
        BY <1>3, <2>4, <2>8, FilledSteps
    <2> HIDE DEF Flows
    <2>10. b \in fixed.texts \cup fixed.refs => Flows(b)
        BY <2>2, <2>9 DEF Filled
    <2>11. ASSUME NEW c \in fixed.lists PROVE c.type = "list" /\ "type" \in DOMAIN c
        <3>1. c \in Taking(lists, texts \cup refs)
            BY <2>9 DEF Filled
        <3> QED BY <2>3, <3>1, TakenLists
    <2>12. b \in chosen(mode) => Flows(b)
        <3> SUFFICES ASSUME NEW c \in fixed.lists, b = [c EXCEPT !.subType = mode[c]] PROVE Flows(b)
            OBVIOUS
        <3>1. b.type = c.type
            BY <2>11
        <3> QED BY <2>11, <3>1 DEF Flows, WithLinesOfPage
    <2> HIDE DEF Of, visuals, chosen, others
    <2> QED BY <2>5, <2>6, <2>7, <2>10, <2>12 DEF Flows
<1> HIDE DEF Of, visuals, fixed, rest, chosen, seen, flow, others, aside
<1>19. Held(S, X)
    <2>1. Idx(seen) \cap Idx(At(others)) = {}
        BY <1>13, <1>15, IdxApart
    <2>2. Held(visuals \cup Of(others), Idx(seen) \cup Idx(At(others)))
        BY <1>9, <1>12, <2>1, HeldUnion
    <2>3. seen \cap flow = {} /\ At(others) \cap flow = {}
        BY <1>13
    <2>4. Idx(seen) \cap Idx(flow) = {} /\ Idx(At(others)) \cap Idx(flow) = {}
        BY <1>15, <2>3, IdxApart
    <2>5. (Idx(seen) \cup Idx(At(others))) \cap Idx(flow) = {}
        BY <2>4
    <2> QED BY <1>11, <1>17, <2>2, <2>5, HeldUnion
<1>20. X \cap Idx(At(aside)) = {}
    <2>1. seen \cap At(aside) = {} /\ At(others) \cap At(aside) = {} /\ flow \cap At(aside) = {}
        BY <1>13
    <2>2. /\ Idx(seen) \cap Idx(At(aside)) = {} /\ Idx(At(others)) \cap Idx(At(aside)) = {}
          /\ Idx(flow) \cap Idx(At(aside)) = {}
        BY <1>15, <2>1, IdxApart
    <2> QED BY <2>2
<1>21. X \cup Idx(At(aside)) = {b.index : b \in {c \in ToSet(blocks) : c.type # "list"}}
    <2>1. X \cup Idx(At(aside)) = Idx({i \in 1..Len(blocks) : blocks[i].type # "list"})
        BY <1>14 DEF Idx
    <2> QED BY <1>4, <2>1 DEF Idx, ToSet
<1> HIDE DEF S, X
<1> DEFINE all    == preproc' \o discarded'
           placed == FlattenSeq([i \in DOMAIN all |-> PlacesOf(all[i])])
<1>22. ToSet(placed) = X \cup Idx(At(aside)) /\ Len(placed) = Cardinality(ToSet(placed))
    <2>1. PICK Y, G, a, s : Y = Idx(At(aside)) /\ G = Of(aside) /\ a = all /\ s = placed
        OBVIOUS
    <2>2. Held(S, X) /\ Held(G, Y) /\ X \cap Y = {}
        BY <1>12, <1>19, <1>20, <2>1
    <2>3. a = ByIndex(S) \o ByIndex(G)
        BY <1>1, <1>16, <2>1 DEF S
    <2>4. s = PlacesIn(a)
        BY <2>1 DEF PlacesIn
    <2> HIDE DEF all, placed
    <2>5. Once(s, X \cup Y)
        <3>1. Listed(raw)
            BY <1>3
        <3> HIDE DEF S, X
        <3> QED BY <2>2, <2>3, <2>4, <3>1, HeldOnce
    <2> QED BY <2>1, <2>5 DEF Once
<1>23. BlocksKept'
    BY <1>1, <1>21, <1>22 DEF BlocksKept, PlacesOf
<1>24. \A k \in 1..Len(para') : Lined(para'[k])
    <2>1. \A b \in S : b.index \in 1..Len(raw) /\ Lined(b)
        BY <1>19 DEF Held, Placed
    <2>2. para' \in Seq(S)
        BY <1>1, <1>3, <1>16, <1>19, SortedElements DEF Held, S
    <2> QED BY <2>1, <2>2, ElementOfSeq
<1>25. Assembled(S) /\ para' = ByIndex(S)
    BY <1>1, <1>16, <1>19, <1>18 DEF Held, Placed, Assembled, S
<1> QED BY <1>23, <1>24, <1>25

-----------------------------------------------------------------------------
(* Captions and their figures. *)

(* Blocks further on have a larger index. *)
LEMMA IndexOrder ==
    ASSUME BlocksInv, NEW i \in 1..Len(blocks), NEW j \in 1..Len(blocks)
    PROVE  (i < j <=> blocks[i].index < blocks[j].index) /\ (i = j <=> blocks[i].index = blocks[j].index)
<1>1. blocks[i].index \in Nat /\ blocks[j].index \in Nat
    BY DEF BlocksInv, PyBlock
<1>2. blocks[i].index = blocks[j].index => i = j
    BY DEF BlocksInv
<1>3. (i < j => blocks[i].index <= blocks[j].index) /\ (j < i => blocks[j].index <= blocks[i].index)
    BY DEF BlocksInv, Sorted
<1> QED BY <1>1, <1>2, <1>3

LEMMA ChildNear ==
    ASSUME NEW width, NEW height, AllBoxed(blocks, width, height), BlocksInv,
           NEW p, NEW c \in ChildrenOf(p)
    PROVE  /\ p \in 1..Len(blocks) /\ c \in 1..Len(blocks) /\ p # c
           /\ blocks[p].type \in VisualMain /\ blocks[c].type \in GenericChild
           /\ IsVisualNeighbor(c, p) /\ \A q \in Parents(c) : Closer(c, p, q)
<1>1. DOMAIN blocks = 1..Len(blocks)
    BY ListedFacts DEF AllBoxed
<1>2. c \in Children /\ Parents(c) # {} /\ ParentOf(c) = p
    BY DEF ChildrenOf
<1>3. p \in Parents(c) /\ \A q \in Parents(c) : Closer(c, p, q)
    BY <1>2, ParentExists DEF Children
<1>4. blocks[p].type \in VisualMain /\ blocks[c].type \in GenericChild
    BY <1>2, <1>3 DEF Parents, Children
<1>5. p # c
    BY <1>4 DEF VisualMain, GenericChild
<1> QED BY <1>1, <1>2, <1>3, <1>4, <1>5 DEF Parents, Children

(* No other figure lies between a caption and its own. *)
LEMMA NoFigureBetween ==
    ASSUME NEW width, NEW height, AllBoxed(blocks, width, height), BlocksInv,
           NEW p, NEW c \in ChildrenOf(p), NEW q, blocks[q].type \in VisualMain
    PROVE  q \notin Between(c, p)
<1>1. IsVisualNeighbor(c, p)
    BY ChildNear
<1>2. q \in Between(c, p) => blocks[q].type \in GenericChild
    BY <1>1 DEF IsVisualNeighbor, GenericChild
<1> QED BY <1>2 DEF VisualMain, GenericChild

(* What lies between two figures goes to the nearer one, so that their     *)
(* captions do not cross.                                                  *)
LEMMA PartsApart ==
    ASSUME NEW width, NEW height, AllBoxed(blocks, width, height), BlocksInv,
           NEW p \in 1..Len(blocks), NEW q \in 1..Len(blocks), p < q,
           blocks[p].type \in VisualMain, blocks[q].type \in VisualMain,
           NEW c \in {p} \cup ChildrenOf(p), NEW d \in {q} \cup ChildrenOf(q)
    PROVE  c < d
<1>1. c \in 1..Len(blocks) /\ d \in 1..Len(blocks) /\ DOMAIN blocks = 1..Len(blocks) /\ Len(blocks) \in Nat
    BY ChildNear, ListedFacts DEF AllBoxed
<1>2. c < q
    <2>1. CASE c = p
        BY <2>1
    <2>2. CASE c # p
        <3>1. c \in ChildrenOf(p)
            BY <2>2
        <3>2. q \notin Between(c, p)
            BY <3>1, NoFigureBetween
        <3>3. c # q
            BY <3>1, ChildNear DEF VisualMain, GenericChild
        <3> QED BY <1>1, <3>2, <3>3 DEF Between, Lesser, Greater
    <2> QED BY <2>1, <2>2
<1>3. p < d
    <2>1. CASE d = q
        BY <2>1
    <2>2. CASE d # q
        <3>1. d \in ChildrenOf(q)
            BY <2>2
        <3>2. p \notin Between(d, q)
            BY <3>1, NoFigureBetween
        <3>3. d # p
            BY <3>1, ChildNear DEF VisualMain, GenericChild
        <3> QED BY <1>1, <3>2, <3>3 DEF Between, Lesser, Greater
    <2> QED BY <2>1, <2>2
<1>4. CASE c = p \/ d = q
    BY <1>2, <1>3, <1>4
<1>5. CASE c # p /\ d # q
    <2> SUFFICES ASSUME d <= c PROVE FALSE
        BY <1>1
    <2>1. c \in ChildrenOf(p) /\ d \in ChildrenOf(q)
        BY <1>5
    <2>2. /\ IsVisualNeighbor(c, p) /\ (\A x \in Parents(c) : Closer(c, p, x)) /\ blocks[c].type \in GenericChild
          /\ IsVisualNeighbor(d, q) /\ (\A x \in Parents(d) : Closer(d, q, x)) /\ blocks[d].type \in GenericChild
        BY <2>1, ChildNear
    <2>3. blocks[d].type = "caption"
        <3>1. blocks[d].index < blocks[q].index
            BY <1>1, <1>2, <2>1, ChildNear, IndexOrder
        <3> QED BY <2>2, <3>1 DEF IsVisualNeighbor, GenericChild
    <2>4. CASE d = c
        <3>1. ParentOf(c) = p /\ ParentOf(d) = q
            BY <2>1 DEF ChildrenOf
        <3> QED BY <2>4, <3>1
    <2>5. CASE d < c
        <3>1. blocks[c].type = "caption"
            <4>1. c \in Between(d, q)
                BY <1>1, <1>2, <2>5 DEF Between, Lesser, Greater
            <4> QED BY <2>2, <2>3, <4>1 DEF IsVisualNeighbor
        <3>2. q \in Parents(c)
            <4>1. Between(c, q) \subseteq Between(d, q)
                BY <1>1, <1>2, <2>5 DEF Between, Lesser, Greater
            <4>2. \A k \in Between(c, q) : blocks[k].type \in {"caption"}
                BY <2>2, <2>3, <4>1 DEF IsVisualNeighbor
            <4> QED BY <1>1, <3>1, <4>2 DEF Parents, IsVisualNeighbor
        <3>3. p \in Parents(d)
            <4>1. Between(d, p) \subseteq Between(c, p)
                BY <1>1, <1>3, <2>5 DEF Between, Lesser, Greater
            <4>2. \A k \in Between(d, p) : blocks[k].type \in {"caption"}
                BY <2>2, <3>1, <4>1 DEF IsVisualNeighbor
            <4> QED BY <1>1, <2>3, <4>2 DEF Parents, IsVisualNeighbor
        <3>4. Closer(c, p, q) /\ Closer(d, q, p)
            BY <2>2, <3>2, <3>3
        <3>5. c - p <= q - c /\ q - d <= d - p
            <4>1. Greater(c, p) - Lesser(c, p) = c - p /\ Greater(c, q) - Lesser(c, q) = q - c
                BY <1>1, <1>2, <1>3, <2>5 DEF Greater, Lesser
            <4>2. Greater(d, q) - Lesser(d, q) = q - d /\ Greater(d, p) - Lesser(d, p) = d - p
                BY <1>1, <1>2, <1>3, <2>5 DEF Greater, Lesser
            <4>3. c - p < q - c \/ c - p = q - c
                BY <3>4, <4>1 DEF Closer
            <4>4. q - d < d - p \/ q - d = d - p
                BY <3>4, <4>2 DEF Closer
            <4> QED BY <1>1, <4>3, <4>4
        <3> QED BY <1>1, <2>5, <3>5
    <2> QED BY <1>1, <2>4, <2>5
<1> QED BY <1>4, <1>5

(* CaptionsAtTheirBody, of the blocks bs and the paragraphs s: for one     *)
(* figure, for two, for all.                                               *)
PartsOf(b) == {c.index : c \in ToSet(b.blocks)}

WithItsOwn(bs, b) ==
    LET TypeAt(k) == (CHOOSE e \in ToSet(bs) : e.index = k).type
    IN  \A c \in PartsOf(b) \ {b.index} :
            /\ \A k \in {n \in Between(c, b.index) : \E e \in ToSet(bs) : e.index = n} :
                  TypeAt(k) \in GenericChild
            /\ TypeAt(c) = "footnote" => c > b.index

Apart(b, d) == \A m \in PartsOf(b), n \in PartsOf(d) : m < n

CaptionsOf(bs, s) ==
    LET visuals == {i \in DOMAIN s : s[i].type \in DOMAIN BodyType}
    IN  \A v \in visuals :
            /\ WithItsOwn(bs, s[v])
            /\ \A w \in visuals : v < w => Apart(s[v], s[w])

LEMMA FigureParts ==
    ASSUME NEW width, NEW height, AllBoxed(blocks, width, height), BlocksInv, Listed(raw),
           NEW p \in 1..Len(blocks), blocks[p].type \in VisualMain
    PROVE  PartsOf(Visual(p)) = Idx({p} \cup ChildrenOf(p))
<1>1. PICK b, q, X : b = Visual(p) /\ q = b.blocks /\ X = Idx({p} \cup ChildrenOf(p))
    OBVIOUS
<1>2. Placed(b) /\ (\A n : Holds(b, n) <=> n \in X) /\ q # <<>>
    BY <1>1, VisualPlaces
<1>3. PICK s : s = PlacesOf(b)
    OBVIOUS
<1>4. s = [i \in DOMAIN q |-> q[i].index] /\ DOMAIN s = 1..Len(s)
    BY <1>1, <1>2, <1>3, ListedFacts DEF PlacesOf, Placed
<1>5. \A n : n \in X <=> \E k \in 1..Len(s) : s[k] = n
    BY <1>2, <1>3 DEF Holds
<1>6. {c.index : c \in ToSet(q)} = X
    BY <1>4, <1>5 DEF ToSet
<1> QED BY <1>1, <1>6 DEF PartsOf

LEMMA BlockAt ==
    ASSUME BlocksInv, Listed(blocks), NEW x \in 1..Len(blocks)
    PROVE  (CHOOSE b \in ToSet(blocks) : b.index = blocks[x].index) = blocks[x]
<1>1. DOMAIN blocks = 1..Len(blocks)
    BY ListedFacts
<1>2. blocks[x] \in ToSet(blocks)
    BY <1>1 DEF ToSet
<1>3. \A b \in ToSet(blocks) : b.index = blocks[x].index => b = blocks[x]
    BY <1>1 DEF BlocksInv, ToSet
<1> QED BY <1>2, <1>3

(* Between, for numbers in the same order. *)
LEMMA BetweenAlike ==
    ASSUME NEW x \in Nat, NEW y \in Nat, NEW z \in Nat, NEW k \in Nat, NEW m \in Nat, NEW n \in Nat,
           x < y <=> k < m, y < x <=> m < k, z < y <=> n < m, y < z <=> m < n, m \in Between(k, n)
    PROVE  y \in Between(x, z)
<1>1. (k < m /\ m < n) \/ (n < m /\ m < k)
    BY DEF Between, Lesser, Greater
<1>2. (x < y /\ y < z) \/ (z < y /\ y < x)
    BY <1>1
<1> QED BY <1>2 DEF Between, Lesser, Greater

LEMMA FiguresSound ==
    ASSUME NEW width, NEW height, AllBoxed(blocks, width, height), BlocksInv, Listed(raw),
           NEW S, Assembled(S), NEW s, s = ByIndex(S)
    PROVE  CaptionsOf(blocks, s)
<1> DEFINE N == 1..Len(blocks)
           visuals == {i \in DOMAIN s : s[i].type \in DOMAIN BodyType}
           Parts(v) == PartsOf(s[v])
           TypeAt(k) == (CHOOSE b \in ToSet(blocks) : b.index = k).type
           Body(v, p) == p \in N /\ blocks[p].type \in VisualMain /\ s[v] = Visual(p)
           All(p) == {p} \cup ChildrenOf(p)
<1>1. Enumerates(s, S) /\ Sorted(s) /\ DOMAIN s = 1..Len(s)
    <2>1. Enumerates(s, S) /\ Sorted(s)
        BY SortedEnumerates DEF Assembled
    <2> QED BY <2>1, ListedFacts DEF Enumerates, Listed
<1>2. Listed(blocks) /\ DOMAIN blocks = N
    BY ListedFacts DEF AllBoxed
<1>3. ASSUME NEW v \in visuals PROVE \E p : Body(v, p)
    <2>1. s[v] \in S
        BY <1>1, ElementOfSeq DEF Enumerates
    <2>2. s[v].type \notin {"text", "ref_text", "list"} \cup Alone
        BY DEF BodyType, Alone
    <2> QED BY <2>1, <2>2 DEF Assembled
<1>4. ASSUME NEW v, NEW p, Body(v, p)
      PROVE  Parts(v) = Idx(All(p)) /\ s[v].index = blocks[p].index /\ All(p) \in SUBSET N
    <2>1. Parts(v) = Idx(All(p)) /\ s[v].index = blocks[p].index
        BY <1>4, FigureParts, VisualPlaces
    <2>2. All(p) \in SUBSET N
        BY <1>4, ChildNear
    <2> QED BY <2>1, <2>2
<1>5. ASSUME NEW x \in N PROVE TypeAt(blocks[x].index) = blocks[x].type
    BY <1>2, BlockAt
<1> HIDE DEF TypeAt, Parts
<1>6. ASSUME NEW v \in visuals, NEW c \in Parts(v) \ {s[v].index}
      PROVE  /\ \A k \in Between(c, s[v].index) :
                   (\E b \in ToSet(blocks) : b.index = k) => TypeAt(k) \in GenericChild
             /\ TypeAt(c) = "footnote" => c > s[v].index
    <2>1. PICK p : Body(v, p)
        BY <1>3
    <2>2. PICK x \in ChildrenOf(p) : c = blocks[x].index
        <3>1. PICK x \in All(p) : c = blocks[x].index
            BY <1>4, <2>1 DEF Idx
        <3>2. x # p
            BY <1>4, <1>6, <2>1, <3>1
        <3> QED BY <3>1, <3>2
    <2>3. x \in N /\ p \in N /\ p # x /\ IsVisualNeighbor(x, p) /\ s[v].index = blocks[p].index
        BY <1>4, <2>1, <2>2, ChildNear
    <2>4. blocks[x].index \in Nat /\ blocks[p].index \in Nat
        BY <2>3 DEF BlocksInv, PyBlock
    <2>5. ASSUME NEW k \in Between(c, s[v].index), NEW b \in ToSet(blocks), b.index = k
          PROVE  TypeAt(k) \in GenericChild
        <3>1. PICK y \in N : b = blocks[y]
            BY <1>2 DEF ToSet
        <3>2. blocks[y].index \in Between(blocks[x].index, blocks[p].index)
            BY <2>2, <2>3, <2>5, <3>1
        <3>3. y \in Between(x, p)
            <4>1. blocks[y].index \in Nat
                BY DEF BlocksInv, PyBlock
            <4>2. /\ (x < y <=> blocks[x].index < blocks[y].index) /\ (y < x <=> blocks[y].index < blocks[x].index)
                  /\ (p < y <=> blocks[p].index < blocks[y].index) /\ (y < p <=> blocks[y].index < blocks[p].index)
                BY <2>3, IndexOrder
            <4>3. x \in Nat /\ y \in Nat /\ p \in Nat
                BY <2>3
            <4>4. PICK here, middle, there : here = blocks[x].index /\ middle = blocks[y].index /\ there = blocks[p].index
                OBVIOUS
            <4>5. /\ here \in Nat /\ middle \in Nat /\ there \in Nat /\ middle \in Between(here, there)
                  /\ (x < y <=> here < middle) /\ (y < x <=> middle < here) /\ (p < y <=> there < middle) /\ (y < p <=> middle < there)
                BY <2>4, <3>2, <4>1, <4>2, <4>4
            <4> QED BY <4>3, <4>5, BetweenAlike
        <3>4. blocks[y].type \in GenericChild
            BY <2>3, <3>3 DEF IsVisualNeighbor, GenericChild
        <3> QED BY <1>5, <2>5, <3>1, <3>4
    <2>6. ASSUME TypeAt(c) = "footnote" PROVE c > s[v].index
        <3>1. blocks[x].type = "footnote"
            BY <1>5, <2>2, <2>3, <2>6
        <3>2. ~ (blocks[x].index < blocks[p].index)
            BY <2>3, <3>1 DEF IsVisualNeighbor
        <3>3. blocks[x].index # blocks[p].index
            BY <2>3 DEF BlocksInv
        <3> QED BY <2>2, <2>3, <2>4, <3>2, <3>3
    <2> QED BY <2>5, <2>6
<1>7. ASSUME NEW v \in visuals, NEW w \in visuals, v < w, NEW c \in Parts(v), NEW d \in Parts(w)
      PROVE  c < d
    <2>1. PICK p : Body(v, p)
        BY <1>3
    <2>2. PICK q : Body(w, q)
        BY <1>3
    <2>3. p < q
        <3>1. blocks[p].index <= blocks[q].index
            <4>1. s[v].index = blocks[p].index /\ s[w].index = blocks[q].index
                BY <1>4, <2>1, <2>2
            <4>2. v \in 1..Len(s) /\ w \in 1..Len(s)
                BY <1>1
            <4>3. s[v].index <= s[w].index
                BY <1>1, <1>7, <4>2 DEF Sorted
            <4> QED BY <4>1, <4>3
        <3>2. p # q
            <4>1. p = q => s[v] = s[w]
                BY <2>1, <2>2
            <4>2. v # w
                BY <1>1, <1>7
            <4> QED BY <1>1, <4>1, <4>2 DEF Enumerates
        <3>3. blocks[p].index \in Nat /\ blocks[q].index \in Nat
            BY <2>1, <2>2 DEF BlocksInv, PyBlock
        <3> QED BY <2>1, <2>2, <3>1, <3>2, <3>3, IndexOrder
    <2>4. PICK x \in All(p) : c = blocks[x].index
        BY <1>4, <2>1 DEF Idx
    <2>5. PICK y \in All(q) : d = blocks[y].index
        BY <1>4, <2>2 DEF Idx
    <2>6. x < y
        BY <2>1, <2>2, <2>3, <2>4, <2>5, PartsApart
    <2>7. x \in N /\ y \in N
        BY <1>4, <2>1, <2>2
    <2> QED BY <2>4, <2>5, <2>6, <2>7, IndexOrder
<1>8. ASSUME NEW v \in visuals PROVE WithItsOwn(blocks, s[v])
    BY <1>6 DEF WithItsOwn, TypeAt, Parts
<1>9. ASSUME NEW v \in visuals, NEW w \in visuals, v < w PROVE Apart(s[v], s[w])
    BY <1>7, <1>9 DEF Apart, Parts
<1> QED BY <1>8, <1>9 DEF CaptionsOf

(* Merging paragraphs leaves figures alone. *)
LEMMA FiguresStay ==
    ASSUME NEW bs, NEW s, NEW t, CaptionsOf(bs, s), DOMAIN t = DOMAIN s,
           \A k \in DOMAIN s : t[k] = s[k] \/ (s[k].type = "text" /\ t[k].type = "text")
    PROVE  CaptionsOf(bs, t)
<1>1. \A k \in DOMAIN s : t[k].type \in DOMAIN BodyType => t[k] = s[k]
    BY DEF BodyType
<1> QED BY <1>1 DEF CaptionsOf

-----------------------------------------------------------------------------
(* merge_para_text_blocks. *)
TextLines(bs) == FlattenSeq([i \in DOMAIN bs |-> IF bs[i].type = "text" THEN bs[i].lines ELSE <<>>])

LEMMA MergeKeepsLines ==
    ASSUME BoxesInv, MergeParaTextBlock, \A k \in 1..Len(para) : Lined(para[k])
    PROVE  /\ TextLines(para') = TextLines(para) /\ \A k \in 1..Len(para') : Lined(para'[k])
           /\ DOMAIN para' = DOMAIN para
           /\ \A k \in DOMAIN para : \/ para'[k] = para[k]
                                     \/ para[k].type = "text" /\ para'[k].type = "text"
<1>1. Listed(para) /\ DOMAIN para = 1..Len(para) /\ Len(para) \in Nat
    BY ListedFacts DEF BoxesInv, PageInv, AllBoxed
<1>2. CASE UNCHANGED para
    BY <1>2
<1>3. CASE Merges(at) /\ TextsBefore(at) # {} /\ para' = Merged(Max(TextsBefore(at)), at)
    <2> DEFINE texts == TextsBefore(at)
    <2>1. PICK into : into = Max(texts)
        OBVIOUS
    <2>2. at \in 1..Len(para) /\ texts \in SUBSET (1..at - 1) /\ at - 1 \in Nat
        BY <1>1 DEF BoxesInv, ProgressInv, MergeParaTextBlock, TextsBefore
    <2>3. into \in texts /\ \A k \in texts : k <= into
        <3>1. PICK m : m = at - 1
            OBVIOUS
        <3>2. m \in Nat /\ texts \in SUBSET (1..m) /\ texts # {}
            BY <1>3, <2>2, <3>1
        <3> HIDE DEF texts
        <3>3. Max(texts) \in texts /\ \A y \in texts : y <= Max(texts)
            BY <3>2, GreatestOf
        <3> QED BY <2>1, <3>3
    <2>4. /\ into \in 1..Len(para) /\ into < at /\ para[into].type = "text" /\ para[at].type = "text"
          /\ \A k \in 1..Len(para) : into < k /\ k < at => para[k].type # "text"
        <3>1. into \in 1..at - 1 /\ para[into].type = "text"
            BY <2>3 DEF TextsBefore
        <3>2. ASSUME NEW k \in 1..Len(para), into < k, k < at PROVE para[k].type # "text"
            <4>1. k \notin texts /\ k \in 1..at - 1
                BY <1>1, <2>2, <2>3, <3>1, <3>2
            <4> QED BY <4>1 DEF TextsBefore
        <3> QED BY <1>1, <1>3, <2>2, <3>1, <3>2 DEF Merges
    <2> HIDE DEF texts
    <2>5. PICK a, b, joined, first, second :
              /\ a = para[into] /\ b = para[at] /\ joined = a.lines \o b.lines
              /\ first = [a EXCEPT !.lines = joined] /\ second = [b EXCEPT !.lines = <<>>]
        OBVIOUS
    <2>6. Lined(a) /\ Lined(b) /\ a.type = "text" /\ b.type = "text"
        BY <2>2, <2>4, <2>5
    <2>7. Listed(joined)
        <3>1. Joins(joined, a.lines, b.lines)
            BY <2>5, <2>6, Joining DEF Lined
        <3> QED BY <3>1 DEF Joins
    <2>8. /\ first.type = "text" /\ first.lines = joined /\ Lined(first)
          /\ second.type = "text" /\ second.lines = <<>> /\ Lined(second)
        BY <2>5, <2>6, <2>7, OneListed DEF Lined
    <2>9. /\ Listed(para') /\ Len(para') = Len(para)
          /\ \A k \in 1..Len(para) : para'[k] = IF k = into THEN first ELSE IF k = at THEN second ELSE para[k]
        <3>1. PICK more : more = [para EXCEPT ![into] = first]
            OBVIOUS
        <3>2. /\ Listed(more) /\ Len(more) = Len(para)
              /\ \A k \in 1..Len(para) : more[k] = IF k = into THEN first ELSE para[k]
            BY <1>1, <3>1, ReplacedListed DEF Replaces
        <3>3. para' = [more EXCEPT ![at] = second]
            <4>1. para' = [para EXCEPT ![into].lines = @ \o para[at].lines, ![at].lines = <<>>]
                BY <1>3, <2>1 DEF Merged, texts
            <4>2. [para EXCEPT ![into].lines = @ \o para[at].lines] = more
                BY <2>5, <3>1
            <4>3. para' = [more EXCEPT ![at].lines = <<>>]
                BY <4>1, <4>2
            <4>4. more[at] = b
                BY <2>2, <2>4, <2>5, <3>2
            <4> QED BY <2>5, <4>3, <4>4
        <3>4. /\ Listed(para') /\ Len(para') = Len(more)
              /\ \A k \in 1..Len(more) : para'[k] = IF k = at THEN second ELSE more[k]
            <4>1. Listed(more)
                BY <3>2
            <4>2. Replaces([more EXCEPT ![at] = second], more, at, second)
                BY <4>1, ReplacedListed
            <4> QED BY <3>3, <4>2 DEF Replaces
        <3> QED BY <2>4, <3>2, <3>4
    <2>10. \A k \in 1..Len(para') : Lined(para'[k])
        BY <2>8, <2>9
    <2> DEFINE parts == [i \in 1..Len(para) |-> IF para[i].type = "text" THEN para[i].lines ELSE <<>>]
               moved == [i \in 1..Len(para) |-> IF para'[i].type = "text" THEN para'[i].lines ELSE <<>>]
    <2>11. FlattenSeq(parts) = TextLines(para) /\ FlattenSeq(moved) = TextLines(para')
        <3>1. DOMAIN para' = 1..Len(para)
            BY <2>9, ListedFacts
        <3> QED BY <1>1, <3>1 DEF TextLines
    <2>12. /\ Listed(parts) /\ Len(parts) = Len(para) /\ Listed(moved) /\ Len(moved) = Len(para)
           /\ \A i \in 1..Len(para) : parts[i] = IF para[i].type = "text" THEN para[i].lines ELSE <<>>
           /\ \A i \in 1..Len(para) : moved[i] = IF para'[i].type = "text" THEN para'[i].lines ELSE <<>>
        BY <1>1, Listing
    <2> HIDE DEF parts, moved
    <2>13. \A i \in 1..Len(parts) : Listed(parts[i])
        BY <2>12, OneListed DEF Lined
    <2>14. \A i \in 1..Len(parts) : into < i /\ i < at => parts[i] = <<>>
        BY <2>4, <2>12
    <2>15. \A i \in 1..Len(parts) : moved[i] = IF i = into THEN parts[into] \o parts[at]
                                               ELSE IF i = at THEN <<>> ELSE parts[i]
        <3>1. parts[into] = a.lines /\ parts[at] = b.lines
            BY <2>2, <2>4, <2>5, <2>12
        <3>2. ASSUME NEW i \in 1..Len(para)
              PROVE  moved[i] = IF i = into THEN joined ELSE IF i = at THEN <<>> ELSE parts[i]
            <4>1. CASE i = into
                BY <2>8, <2>9, <2>12, <4>1
            <4>2. CASE i = at
                BY <2>4, <2>8, <2>9, <2>12, <4>2
            <4>3. CASE i # into /\ i # at
                BY <2>9, <2>12, <4>3
            <4> QED BY <2>4, <4>1, <4>2, <4>3
        <3> QED BY <2>5, <2>12, <3>1, <3>2
    <2>16. into \in 1..Len(parts) /\ at \in 1..Len(parts) /\ into < at
        BY <2>2, <2>4, <2>12
    <2>17. FlattenSeq(moved) = FlattenSeq(parts)
        <3>1. Moves(moved, parts, into, at)
            BY <2>12, <2>13, <2>14, <2>15, <2>16 DEF Moves
        <3> QED BY <3>1, FlattenMoved
    <2>18. /\ DOMAIN para' = DOMAIN para
           /\ \A k \in DOMAIN para : \/ para'[k] = para[k]
                                     \/ para[k].type = "text" /\ para'[k].type = "text"
        BY <1>1, <2>4, <2>8, <2>9, ListedFacts
    <2> QED BY <2>10, <2>11, <2>17, <2>18
<1> QED BY <1>2, <1>3 DEF MergeParaTextBlock
-----------------------------------------------------------------------------
(* What holds at each stage of a page: the types of the answer's blocks;   *)
(* an index of its own for every block; and from the page's assembly on,   *)
(* its blocks and its lines.                                               *)
KeptInv ==
    /\ phase = "convert" => RawInv
    /\ phase = "crop" => BlocksInv
    /\ phase = "merge" =>
          /\ BlocksKept
          /\ TextLines(para) = TextLines(preproc)
          /\ \A k \in 1..Len(para) : Lined(para[k])
          /\ CaptionsOf(blocks, para)

LEMMA KeptPage ==
    ASSUME BoxesInv, KeptInv, BuildPage
    PROVE  KeptInv'
<1>1. CASE ReadLayout
    <2>1. phase' = "convert" /\ RawInv'
        BY <1>1, RawKept DEF ReadLayout
    <2> QED BY <2>1 DEF KeptInv
<1>2. CASE ConvertBlocks
    <2>1. phase = "convert" /\ phase' = "crop"
        BY <1>2 DEF ConvertBlocks
    <2>2. BlocksInv'
        BY <1>2, <2>1, BlocksMade DEF KeptInv
    <2> QED BY <2>1, <2>2 DEF KeptInv
<1>3. CASE WriteCrop
    <2>1. phase = "crop" /\ phase' \in {"crop", "failed"}
        BY <1>3 DEF WriteCrop
    <2>2. BlocksInv'
        BY <1>3, <2>1, BlocksCropped DEF KeptInv
    <2> QED BY <2>1, <2>2 DEF KeptInv
<1>4. CASE AssemblePage
    <2>1. phase = "crop" /\ phase' = "merge" /\ para' = preproc'
        BY <1>4 DEF AssemblePage
    <2>2. BlocksKept' /\ \A k \in 1..Len(para') : Lined(para'[k])
        BY <1>4, <2>1, AssembledKept DEF KeptInv
    <2>3. CaptionsOf(blocks', para')
        <3>1. PICK S : Assembled(S) /\ para' = ByIndex(S)
            BY <1>4, <2>1, AssembledKept DEF KeptInv
        <3>2. PICK width, height : AllBoxed(blocks, width, height)
            BY DEF BoxesInv, PageInv
        <3>3. Listed(raw) /\ BlocksInv
            BY <2>1 DEF BoxesInv, PageInv, AllBoxed, KeptInv
        <3>4. CaptionsOf(blocks, para')
            BY <3>1, <3>2, <3>3, FiguresSound
        <3>5. blocks' = blocks
            BY <1>4 DEF AssemblePage
        <3> QED BY <3>4, <3>5
    <2> QED BY <2>1, <2>2, <2>3 DEF KeptInv, TextLines
<1>5. CASE MergeParaTextBlock
    <2>1. /\ phase = "merge" /\ phase' = "merge"
          /\ UNCHANGED <<raw, blocks, preproc, discarded>>
        BY <1>5 DEF MergeParaTextBlock
    <2>2. BlocksKept /\ TextLines(para) = TextLines(preproc) /\ \A k \in 1..Len(para) : Lined(para[k])
        BY <2>1 DEF KeptInv
    <2>3. TextLines(para') = TextLines(para) /\ \A k \in 1..Len(para') : Lined(para'[k])
        BY <1>5, <2>2, MergeKeepsLines
    <2>4. BlocksKept'
        BY <2>1, <2>2 DEF BlocksKept
    <2>5. TextLines(para)' = TextLines(preproc)'
        <3>1. TextLines(para)' = TextLines(para') /\ TextLines(preproc)' = TextLines(preproc)
            BY <2>1 DEF TextLines
        <3> QED BY <2>2, <2>3, <3>1
    <2>6. \A k \in 1..Len(para') : Lined(para'[k])
        BY <2>3
    <2>7. CaptionsOf(blocks', para')
        <3>1. CaptionsOf(blocks, para)
            BY <2>1 DEF KeptInv
        <3>2. /\ DOMAIN para' = DOMAIN para
              /\ \A k \in DOMAIN para : \/ para'[k] = para[k]
                                        \/ para[k].type = "text" /\ para'[k].type = "text"
            BY <1>5, <2>2, MergeKeepsLines
        <3>3. CaptionsOf(blocks, para')
            BY <3>1, <3>2, FiguresStay
        <3> QED BY <2>1, <3>3
    <2> QED BY <2>1, <2>4, <2>5, <2>6, <2>7 DEF KeptInv, Lined
<1> QED BY <1>1, <1>2, <1>3, <1>4, <1>5 DEF BuildPage

LEMMA KeptStutter ==
    ASSUME KeptInv, UNCHANGED vars
    PROVE  KeptInv'
BY DEF KeptInv, vars, pageVars, RawInv, BlocksInv, PyBlock, Sorted, BlocksKept, TextLines, Lined

LEMMA KeptNext ==
    ASSUME BoxesInv, KeptInv, [ParseNext]_<<vars, officeVars>>
    PROVE  KeptInv'
<1>1. CASE ParseWithVlm
    <2>1. CASE BuildPageFragment
        BY <2>1, KeptPage DEF BuildPageFragment
    <2>2. CASE AppendFragment
        <3>1. phase' = "layout"
            BY <2>2 DEF AppendFragment
        <3> QED BY <3>1 DEF KeptInv
    <2>3. CASE Finish
        <3>1. phase' = "finished"
            BY <2>3 DEF Finish
        <3> QED BY <3>1 DEF KeptInv
    <2> QED BY <1>1, <2>1, <2>2, <2>3 DEF ParseWithVlm, Next
<1>2. CASE ParseOffice
    BY <1>2, KeptStutter DEF ParseOffice
<1>3. CASE Returned
    BY <1>3, KeptStutter DEF Returned
<1>4. CASE UNCHANGED <<vars, officeVars>>
    BY <1>4, KeptStutter
<1> QED BY <1>1, <1>2, <1>3, <1>4 DEF ParseNext

LEMMA KeptInit == ParseInit => KeptInv
<1>1. ParseInit => phase \in {"idle", "layout"}
    BY DEF ParseInit, Init, PageInit, NoVlmDocument
<1> QED BY <1>1 DEF KeptInv

(* For every document, whatever the VLM answers: each block of a page is   *)
(* in exactly one place of it, alone or in a group (a list's own block is  *)
(* the only one to go), and merging paragraphs keeps every line of text,   *)
(* in reading order.                                                       *)
THEOREM BlocksAndLinesCorrect == ParseSpec => []BlocksAndLinesKept
<1>1. ParseInit => BoxesInv /\ KeptInv
    BY BoxesInit, KeptInit
<1>2. BoxesInv /\ KeptInv /\ [ParseNext]_<<vars, officeVars>> => (BoxesInv /\ KeptInv)'
    BY BoxesNext, KeptNext
<1>3. KeptInv => BlocksAndLinesKept
    BY DEF KeptInv, BlocksAndLinesKept, BlocksKept, LinesInOrder, TextLines
<1> QED BY <1>1, <1>2, <1>3, PTL DEF ParseSpec

(* For every page: between a figure and its caption or footnote there is   *)
(* nothing but other captions and footnotes, a footnote follows its        *)
(* figure, and the captions of two figures do not cross.                   *)
THEOREM CaptionsCorrect == ParseSpec => []CaptionsAtTheirBody
<1>1. ParseInit => BoxesInv /\ KeptInv
    BY BoxesInit, KeptInit
<1>2. BoxesInv /\ KeptInv /\ [ParseNext]_<<vars, officeVars>> => (BoxesInv /\ KeptInv)'
    BY BoxesNext, KeptNext
<1>3. KeptInv => CaptionsAtTheirBody
    <2>1. KeptInv => (phase = "merge" => CaptionsOf(blocks, para))
        BY DEF KeptInv
    <2>2. (phase = "merge" => CaptionsOf(blocks, para)) => CaptionsAtTheirBody
        BY Zenon DEF CaptionsAtTheirBody, CaptionsOf, WithItsOwn, Apart, PartsOf
    <2> QED BY <2>1, <2>2
<1> QED BY <1>1, <1>2, <1>3, PTL DEF ParseSpec

-----------------------------------------------------------------------------
(* The images of a document.                                               *)

Media == {"image_body", "image_block_body", "table_body", "chart_body", "interline_equation"}

(* A block with an image has one span, which names one of F. *)
Picture(b, sp, F) ==
    b.lines = <<<<sp>>>> /\ sp.type \in MediaSpans /\ {"type", "image"} \subseteq DOMAIN sp /\ sp.image \in F

Pictured(b, F) == b.type \in Media => \E sp : Picture(b, sp, F)

(* A block of the outputs has a type they know, and they take its image,   *)
(* if it has one, from F.                                                  *)
WithImage == {"image", "table", "chart", "interline_equation"}

Shown(b, F) ==
    /\ b.type \in {"text", "ref_text", "list", "phonetic", "title", "code"} \cup Discarded \cup WithImage
    /\ b.type \in WithImage => GetBodyData(b).image \in F

AllShown(s, F) == Listed(s) /\ \A k \in 1..Len(s) : Shown(s[k], F)

ImagesInv ==
    /\ phase = "crop" => \A i \in 1..Len(blocks) : Pictured(blocks[i], files \cup {None})
    /\ phase = "merge" => AllShown(para, files) /\ AllShown(discarded, files)
    /\ \A n \in 1..Len(pdfInfo) : AllShown(pdfInfo[n].para, files) /\ AllShown(pdfInfo[n].discarded, files)
    /\ ImagesWritten

LEMMA MoreShown ==
    ASSUME NEW F, NEW G, F \subseteq G, NEW s, AllShown(s, F)
    PROVE  AllShown(s, G)
BY DEF AllShown, Shown

LEMMA NoneShown ==
    ASSUME NEW F
    PROVE  AllShown(<<>>, F)
BY OneListed DEF AllShown

(* raw_to_py_block: a figure, a table or an equation has one span.         *)
LEMMA SpanMade ==
    ASSUME NEW i, raw[i].type \in RawTypes, NEW F, None \in F
    PROVE  Pictured(RawToPyBlock(i), F)
<1> DEFINE r == raw[i]
           t == r.type
<1>1. PICK b, spans : b = RawToPyBlock(i) /\ spans = SpansOf(r)
    OBVIOUS
<1>2. b.type = PyType(t) /\ b.lines = <<spans>>
    BY <1>1 DEF RawToPyBlock
<1>3. ASSUME b.type \in Media PROVE \E sp : Picture(b, sp, F)
    <2>1. t \in {"image", "image_block", "table", "chart", "equation"}
        <3>1. t \in RawTypes
            OBVIOUS
        <3> HIDE DEF t
        <3> QED BY <1>2, <1>3, <3>1 DEF RawTypes, AllowedBlockTypes, PyType, Media
    <2>2. SpanType(t) \in MediaSpans /\ SpanType(t) # "text"
        <3> HIDE DEF t
        <3> QED BY <2>1 DEF SpanType, MediaSpans
    <2>3. PICK kind : kind = SpanType(t)
        OBVIOUS
    <2> DEFINE content == CASE t \in {"image", "chart", "table"} -> r.content
                            [] t = "equation" -> CleanInterlineEquation(r.content)
                            [] OTHER -> CleanTextContent(t, r.content)
               all == IF kind = "text" /\ HasInlineEquations(r.content) THEN SplitInlineEquationSpans(r.content)
                      ELSE <<[type |-> kind, content |-> content]>>
    <2>4. spans = [j \in DOMAIN all |-> [type |-> all[j].type, content |-> all[j].content, image |-> None]]
        BY <1>1, <2>3, Zenon DEF SpansOf
    <2>5. PICK x : x = [type |-> kind, content |-> content]
        OBVIOUS
    <2>6. PICK sp : sp = [type |-> kind, content |-> x.content, image |-> None]
        OBVIOUS
    <2>7. spans = <<sp>>
        <3>1. all = <<x>> /\ x.type = kind
            BY <2>2, <2>3, <2>5
        <3> HIDE DEF all, content
        <3> QED BY <2>4, <2>6, <3>1
    <2>8. Picture(b, sp, F)
        BY <1>2, <2>2, <2>3, <2>6, <2>7 DEF Picture
    <2> QED BY <2>8
<1> QED BY <1>1, <1>3 DEF Pictured

LEMMA PicturesMade ==
    ASSUME BoxesInv, RawInv, ConvertBlocks
    PROVE  \A k \in 1..Len(blocks') : Pictured(blocks'[k], files' \cup {None})
<1> DEFINE parts == [i \in DOMAIN raw |-> IF RawToPyBlock(i).bbox = None THEN <<>> ELSE <<RawToPyBlock(i)>>]
           s == blocks'
           N == Len(raw)
<1>1. DOMAIN raw = 1..N /\ N \in Nat
    BY ListedFacts DEF BoxesInv, PageInv, AllBoxed
<1>2. PICK F : F = files' \cup {None}
    OBVIOUS
<1>3. ASSUME NEW i \in 1..N
      PROVE  Listed(parts[i]) /\ \A j \in 1..Len(parts[i]) : Pictured(parts[i][j], F)
    <2>1. PICK b : b = RawToPyBlock(i)
        OBVIOUS
    <2>2. parts[i] = IF b.bbox = None THEN <<>> ELSE <<b>>
        BY <1>1, <2>1
    <2>3. Pictured(b, F)
        BY <1>2, <2>1, SpanMade DEF RawInv
    <2> HIDE DEF parts
    <2> QED BY <2>2, <2>3, OneListed
<1>4. parts = [i \in 1..N |-> parts[i]]
    BY <1>1
<1>5. s = FlattenSeq(parts)
    BY DEF ConvertBlocks
<1> HIDE DEF parts, s
<1>6. Listed(parts) /\ Len(parts) = N
    <2> HIDE DEF N
    <2> QED BY <1>1, <1>4, Listing
<1>7. ASSUME NEW k \in 1..Len(s) PROVE Pictured(s[k], F)
    <2>1. ComesFrom(s[k], parts)
        BY <1>3, <1>5, <1>6, FlattenFrom
    <2> QED BY <1>3, <1>6, <2>1 DEF ComesFrom
<1> QED BY <1>2, <1>7 DEF s

(* write_python_crop names the image it has written.                       *)
LEMMA PicturesKept ==
    ASSUME BoxesInv, BlocksInv, WriteCrop, \A k \in 1..Len(blocks) : Pictured(blocks[k], files \cup {None})
    PROVE  \A k \in 1..Len(blocks') : Pictured(blocks'[k], files' \cup {None})
<1> DEFINE i    == CHOOSE i \in ToCrop : \A j \in ToCrop : i <= j
           name == CropName(blocks[i].lines[1][1].type, blocks[i].bbox)
           sp   == blocks[i].lines[1][1]
           new  == [sp EXCEPT !.image = name]
           line == [blocks[i].lines[1] EXCEPT ![1] = new]
           lines == [blocks[i].lines EXCEPT ![1] = line]
           b == [blocks[i] EXCEPT !.lines = lines]
<1>1. \/ blocks' = [blocks EXCEPT ![i] = b] /\ files' = files \cup {name}
      \/ blocks' = blocks /\ files' = files
    <2>1. \/ blocks' = [blocks EXCEPT ![i].lines[1][1].image = name] /\ files' = files \cup {name}
          \/ blocks' = blocks /\ files' = files
        BY DEF WriteCrop
    <2> QED BY <2>1
<1> HIDE DEF i, name
<1>2. Listed(blocks) /\ DOMAIN blocks = 1..Len(blocks)
    BY ListedFacts DEF BoxesInv, PageInv, AllBoxed
<1>3. CASE blocks' = blocks /\ files' = files
    BY <1>3
<1>4. CASE blocks' = [blocks EXCEPT ![i] = b] /\ files' = files \cup {name}
    <2>1. ASSUME i \in 1..Len(blocks) PROVE Pictured(b, files' \cup {None})
        <3>1. PICK old : old = blocks[i]
            OBVIOUS
        <3>2. b.type = old.type /\ b.lines = lines
            <4>1. {"type", "lines"} \subseteq DOMAIN old
                BY <2>1, <3>1 DEF BlocksInv, PyBlock
            <4> HIDE DEF lines
            <4> QED BY <3>1, <4>1
        <3>3. ASSUME b.type \in Media PROVE \E x : Picture(b, x, files' \cup {None})
            <4>1. PICK x : Picture(old, x, files \cup {None})
                BY <2>1, <3>1, <3>2, <3>3 DEF Pictured
            <4>2. old.lines = <<<<x>>>> /\ sp = x
                BY <3>1, <4>1 DEF Picture
            <4>3. lines = <<<<new>>>>
                <5>1. line = <<new>>
                    <6> HIDE DEF new
                    <6> QED BY <3>1, <4>2
                <5> HIDE DEF line
                <5> QED BY <3>1, <4>2, <5>1
            <4>4. new.type = x.type /\ new.image = name /\ {"type", "image"} \subseteq DOMAIN new
                <5> HIDE DEF sp
                <5> QED BY <4>1, <4>2 DEF Picture
            <4> HIDE DEF new, lines
            <4>5. Picture(b, new, files' \cup {None})
                BY <1>4, <3>2, <4>1, <4>3, <4>4 DEF Picture
            <4> QED BY <4>5
        <3> QED BY <3>3 DEF Pictured
    <2> HIDE DEF b
    <2>2. /\ Len(blocks') = Len(blocks)
          /\ \A k \in 1..Len(blocks) : blocks'[k] = IF k = i THEN b ELSE blocks[k]
        BY <1>2, <1>4, ReplacedListed DEF Replaces
    <2>3. ASSUME NEW k \in 1..Len(blocks) PROVE Pictured(blocks[k], files' \cup {None})
        BY <1>4 DEF Pictured, Picture
    <2> QED BY <2>1, <2>2, <2>3
<1> QED BY <1>1, <1>3, <1>4

LEMMA FlattenOne ==
    ASSUME NEW x
    PROVE  FlattenSeq(<<<<x>>>>) = <<x>>
<1>1. PICK s, parts : s = <<x>> /\ parts = <<s>>
    OBVIOUS
<1>2. Listed(s) /\ Listed(parts) /\ Len(s) = 1 /\ Len(parts) = 1 /\ parts[1] = s /\ s[1] = x
    BY <1>1, OneListed
<1>3. \A i \in 1..Len(s) : parts[i] = <<s[i]>>
    BY <1>1, <1>2
<1> QED BY <1>1, <1>2, <1>3, FlattenOnes

(* get_body_data: the image of a body is the first its spans name.         *)
Bodies == {"image_body", "table_body", "chart_body", "code_body", "interline_equation"}

WithItself(b) == Append(b.blocks, b)

LEMMA BodyImage ==
    ASSUME NEW b, Listed(WithItself(b)), NEW F,
           \A i \in 1..Len(WithItself(b)) :
               WithItself(b)[i].type \in Bodies => \E sp : Picture(WithItself(b)[i], sp, F),
           \E i \in 1..Len(WithItself(b)) : WithItself(b)[i].type \in Bodies
    PROVE  GetBodyData(b).image \in F
<1> DEFINE all == WithItself(b)
           lines(i) == IF all[i].type \in Bodies THEN FlattenSeq(all[i].lines) ELSE <<>>
           inBodies == [i \in DOMAIN all |-> lines(i)]
           bodies == FlattenSeq(inBodies)
           apart  == [k \in DOMAIN bodies |-> IF bodies[k].type = "inline_equation" THEN <<>> ELSE <<bodies[k]>>]
           spans  == FlattenSeq(apart)
           Named(sp) == sp.type \in MediaSpans /\ sp.image \in F
<1>1. /\ Listed(all) /\ \E i \in 1..Len(all) : all[i].type \in Bodies
      /\ \A i \in 1..Len(all) : all[i].type \in Bodies => \E sp : Picture(all[i], sp, F)
    OBVIOUS
<1> HIDE DEF all
<1>2. DOMAIN all = 1..Len(all) /\ Len(all) \in Nat
    BY <1>1, ListedFacts
<1>3. ASSUME NEW i \in 1..Len(all), all[i].type \in Bodies
      PROVE  \E sp : lines(i) = <<sp>> /\ Named(sp)
    <2>1. PICK sp : Picture(all[i], sp, F)
        BY <1>1, <1>3
    <2>2. FlattenSeq(<<<<sp>>>>) = <<sp>>
        BY FlattenOne
    <2> QED BY <1>3, <2>1, <2>2 DEF Picture
<1> HIDE DEF lines, Named
<1>4. ASSUME NEW i \in 1..Len(all)
      PROVE  Listed(lines(i)) /\ \A j \in 1..Len(lines(i)) : Named(lines(i)[j])
    <2>1. CASE all[i].type \in Bodies
        <3>1. PICK sp : lines(i) = <<sp>> /\ Named(sp)
            BY <1>3, <2>1
        <3> QED BY <3>1, OneListed
    <2>2. CASE all[i].type \notin Bodies
        <3>1. lines(i) = <<>>
            BY <2>2 DEF lines
        <3> QED BY <3>1, OneListed
    <2> QED BY <2>1, <2>2
<1>5. /\ Listed(inBodies) /\ Len(inBodies) = Len(all)
      /\ \A i \in 1..Len(all) : inBodies[i] = lines(i)
    <2>1. inBodies = [i \in 1..Len(all) |-> inBodies[i]] /\ \A i \in 1..Len(all) : inBodies[i] = lines(i)
        BY <1>2
    <2> HIDE DEF inBodies
    <2> QED BY <1>2, <2>1, Listing
<1> HIDE DEF inBodies
<1>6. PICK from : Spread(bodies, inBodies, Len(all), from)
    BY <1>4, <1>5, FlattenSpreads
<1> HIDE DEF bodies
<1>7. Listed(bodies) /\ \A k \in 1..Len(bodies) : Named(bodies[k])
    <2> SUFFICES ASSUME NEW k \in 1..Len(bodies) PROVE Named(bodies[k])
        BY <1>6 DEF Spread
    <2>1. PICK m, j : m = from[k][1] /\ j = from[k][2]
        OBVIOUS
    <2>2. m \in 1..Len(all) /\ j \in 1..Len(inBodies[m]) /\ bodies[k] = inBodies[m][j]
        BY <1>6, <2>1 DEF Spread
    <2>3. inBodies[m] = lines(m)
        BY <1>5, <2>2
    <2> QED BY <1>4, <2>2, <2>3
<1>8. 1 \in 1..Len(bodies)
    <2>1. PICK i \in 1..Len(all) : all[i].type \in Bodies
        BY <1>1
    <2>2. PICK sp : lines(i) = <<sp>>
        BY <1>3, <2>1
    <2>3. inBodies[i] = <<sp>>
        BY <1>5, <2>2
    <2>4. PICK one : one = 1
        OBVIOUS
    <2>5. one \in 1..Len(inBodies[i])
        BY <2>3, <2>4, OneListed
    <2>6. \E k \in 1..Len(bodies) : from[k] = <<i, one>>
        BY <1>6, <2>5 DEF Spread
    <2> QED BY <1>7, <2>6, ListedFacts
<1>9. ASSUME NEW k \in 1..Len(bodies) PROVE apart[k] = <<bodies[k]>>
    <2>1. bodies[k].type # "inline_equation"
        BY <1>7 DEF Named, MediaSpans
    <2> QED BY <1>7, <2>1, ListedFacts
<1>10. Listed(apart) /\ Len(apart) = Len(bodies)
    <2>1. DOMAIN bodies = 1..Len(bodies) /\ Len(bodies) \in Nat
        BY <1>7, ListedFacts
    <2>2. apart = [k \in 1..Len(bodies) |-> apart[k]]
        BY <2>1
    <2> HIDE DEF apart
    <2> QED BY <2>1, <2>2, Listing
<1> HIDE DEF apart
<1>11. PICK of : Spread(spans, apart, Len(bodies), of)
    <2>1. \A k \in 1..Len(apart) : Listed(apart[k])
        BY <1>9, <1>10, OneListed
    <2> QED BY <1>10, <2>1, FlattenSpreads
<1> HIDE DEF spans
<1>12. \A k \in 1..Len(spans) : Named(spans[k])
    <2> SUFFICES ASSUME NEW k \in 1..Len(spans) PROVE Named(spans[k])
        OBVIOUS
    <2>1. PICK m, j : m = of[k][1] /\ j = of[k][2]
        OBVIOUS
    <2>2. m \in 1..Len(bodies) /\ j \in 1..Len(apart[m]) /\ spans[k] = apart[m][j]
        BY <1>11, <2>1 DEF Spread
    <2>3. apart[m] = <<bodies[m]>>
        BY <1>9, <2>2
    <2>4. j = 1
        BY <2>2, <2>3, OneListed
    <2> QED BY <1>7, <2>2, <2>3, <2>4, OneListed
<1>13. spans # <<>> /\ 1 \in 1..Len(spans)
    <2>1. PICK one : one = 1
        OBVIOUS
    <2>2. one \in 1..Len(bodies) /\ apart[one] = <<bodies[one]>>
        BY <1>8, <1>9, <2>1
    <2>3. one \in 1..Len(apart[one])
        BY <2>1, <2>2, OneListed
    <2>4. \E k \in 1..Len(spans) : of[k] = <<one, one>>
        BY <1>11, <2>2, <2>3 DEF Spread
    <2>5. Listed(spans)
        BY <1>11 DEF Spread
    <2> QED BY <2>4, <2>5, ListedFacts
<1>14. GetBodyData(b) = [image |-> spans[1].image, content |-> spans[1].content]
    <2>1. GetBodyData(b) = IF spans = <<>> THEN [image |-> None, content |-> <<>>]
                           ELSE [image |-> spans[1].image, content |-> spans[1].content]
        BY Zenon DEF GetBodyData, WithItself, Bodies, spans, apart, bodies, inBodies, lines, all
    <2> QED BY <1>13, <2>1
<1>15. Named(spans[1])
    BY <1>12, <1>13
<1> QED BY <1>14, <1>15 DEF Named

(* build_page_info: a block on its own, and a figure with its parts.       *)
LEMMA AloneShown ==
    ASSUME NEW b, PyBlock(b), b.type \in Alone, NEW F, Pictured(b, F)
    PROVE  Shown(b, F)
<1>1. CASE b.type # "interline_equation"
    BY <1>1 DEF Shown, Alone, WithImage
<1>2. CASE b.type = "interline_equation"
    <2>1. PICK all : all = WithItself(b)
        OBVIOUS
    <2>2. all = <<b>>
        BY <2>1 DEF WithItself, PyBlock
    <2>3. Listed(all) /\ Len(all) = 1 /\ all[1] = b
        BY <2>2, OneListed
    <2>4. \E sp : Picture(b, sp, F)
        BY <1>2 DEF Pictured, Media
    <2>5. \A i \in 1..Len(all) : all[i].type \in Bodies => \E sp : Picture(all[i], sp, F)
        BY <2>3, <2>4
    <2>6. \E i \in 1..Len(all) : all[i].type \in Bodies
        BY <1>2, <2>3 DEF Bodies
    <2>7. GetBodyData(b).image \in F
        BY <2>1, <2>3, <2>5, <2>6, BodyImage
    <2> QED BY <1>2, <2>7 DEF Shown, WithImage
<1> QED BY <1>1, <1>2

LEMMA VisualShown ==
    ASSUME NEW width, NEW height, AllBoxed(blocks, width, height), BlocksInv, Listed(raw),
           NEW F, \A i \in 1..Len(blocks) : Pictured(blocks[i], F),
           NEW p \in 1..Len(blocks), blocks[p].type \in VisualMain
    PROVE  Shown(Visual(p), F)
<1> DEFINE old == blocks[p]
           parent == ParentType(old.type)
           body == [old EXCEPT !.type = BodyType[parent]]
           AsChild(c) == [blocks[c] EXCEPT !.type = IF @ = "footnote" THEN FootnoteType[parent]
                                                    ELSE CaptionType[parent]]
           D == {p} \cup ChildrenOf(p)
           f == [i \in D |-> IF i = p THEN body ELSE AsChild(i)]
           S == {f[i] : i \in D}
           b == Visual(p)
           q == ByIndex(S)
<1>1. Children \in SUBSET (1..Len(blocks)) /\ p \notin Children
    BY ChildPlaces
<1>2. D \in SUBSET (1..Len(blocks)) /\ p \notin ChildrenOf(p) /\ p \in D
    BY <1>1 DEF ChildrenOf
<1>3. /\ parent \in {"image", "table", "chart", "code"} /\ (parent # "code" => old.type \in Media)
      /\ (parent # "code" => BodyType[parent] \in Bodies)
      /\ CaptionType[parent] \notin Bodies /\ FootnoteType[parent] \notin Bodies
    <2>1. old.type \in VisualMain
        OBVIOUS
    <2> HIDE DEF old
    <2> QED BY <2>1 DEF VisualMain, ParentType, Media, Bodies, BodyType, CaptionType, FootnoteType
<1>4. S = {body} \cup {AsChild(c) : c \in ChildrenOf(p)}
    <2> HIDE DEF body, AsChild
    <2>1. f[p] = body /\ \A c \in ChildrenOf(p) : f[c] = AsChild(c)
        BY <1>2
    <2> QED BY <2>1
<1>5. b.type = parent /\ b.blocks = q
    <2>1. PyBlock(old)
        BY DEF BlocksInv
    <2>2. b = [old EXCEPT !.type = parent, !.lines = <<>>, !.mergePrev = FALSE, !.blocks = q]
        <3>1. b = [old EXCEPT !.type = parent, !.lines = <<>>, !.mergePrev = FALSE,
                       !.blocks = ByIndex({body} \cup {AsChild(c) : c \in ChildrenOf(p)})]
            BY DEF Visual
        <3> HIDE DEF S, body, AsChild
        <3> QED BY <1>4, <3>1
    <2> HIDE DEF q, b, old, parent
    <2> QED BY <2>1, <2>2 DEF PyBlock
<1>6. CASE parent = "code"
    <2> HIDE DEF b, parent
    <2>1. Shown(b, F)
        BY <1>5, <1>6 DEF Shown, WithImage
    <2> QED BY <2>1 DEF b
<1>7. CASE parent # "code"
    <2>1. PICK sp : Picture(old, sp, F)
        BY <1>3, <1>7 DEF Pictured
    <2>2. ASSUME NEW i \in D
          PROVE  /\ f[i].index \in 1..Len(raw)
                 /\ f[i].type \in Bodies => Picture(f[i], sp, F)
        <3>1. PyBlock(blocks[i])
            BY <1>2 DEF BlocksInv
        <3>2. CASE i = p
            <4>1. f[i] = body
                BY <3>2
            <4>2. body.index = old.index /\ body.lines = old.lines
                BY <3>1, <3>2 DEF PyBlock
            <4> HIDE DEF f, body
            <4> QED BY <2>1, <3>1, <3>2, <4>1, <4>2 DEF Picture, PyBlock
        <3>3. CASE i # p
            <4>1. f[i] = AsChild(i)
                BY <3>3
            <4>2. AsChild(i).index = blocks[i].index /\ AsChild(i).type \in {CaptionType[parent], FootnoteType[parent]}
                <5> HIDE DEF parent
                <5> QED BY <3>1 DEF PyBlock
            <4> HIDE DEF f, AsChild, parent
            <4> QED BY <1>3, <3>1, <4>1, <4>2 DEF PyBlock
        <3> QED BY <3>2, <3>3
    <2>3. f[p].type \in Bodies
        <3>1. f[p] = body /\ "type" \in DOMAIN old
            BY <1>2 DEF BlocksInv, PyBlock
        <3>2. body.type = BodyType[parent]
            <4> HIDE DEF parent, old
            <4> QED BY <3>1
        <3> HIDE DEF body, parent, f
        <3> QED BY <1>3, <1>7, <3>1, <3>2
    <2>4. IsFiniteSet(S)
        <3>1. IsFiniteSet(D)
            <4>1. Len(blocks) \in Nat
                BY ListedFacts DEF AllBoxed
            <4> HIDE DEF D
            <4> QED BY <1>2, <4>1, UpTo, FS_Subset
        <3> HIDE DEF f, D
        <3> QED BY <3>1, HitsAtMost
    <2> HIDE DEF f, D, old, parent, b
    <2>5. \A x \in S : x.index \in 1..Len(raw) /\ (x.type \in Bodies => Picture(x, sp, F))
        BY <2>2
    <2>6. \E x \in S : x.type \in Bodies
        BY <1>2, <2>3
    <2> HIDE DEF S
    <2>7. Enumerates(q, S)
        BY <2>4, <2>5, SortedEnumerates
    <2> HIDE DEF q
    <2>8. PICK all, one : all = WithItself(b) /\ one = <<b>>
        OBVIOUS
    <2>9. Listed(q) /\ Listed(one) /\ Len(one) = 1 /\ one[1] = b
        BY <2>7, <2>8, OneListed DEF Enumerates, Listed
    <2>10. all = q \o one
        BY <1>5, <2>8, <2>9, Appending DEF WithItself
    <2>11. Joins(all, q, one)
        BY <2>9, <2>10, Joining
    <2>12. ASSUME NEW i \in 1..Len(all) PROVE all[i].type \in Bodies => Picture(all[i], sp, F)
        <3>1. CASE i \in 1..Len(q)
            <4>1. all[i] = q[i] /\ q[i] \in S
                BY <2>7, <2>11, <3>1, ElementOfSeq DEF Joins, Enumerates
            <4> QED BY <2>5, <4>1
        <3>2. CASE i \notin 1..Len(q)
            <4>1. i = Len(q) + 1
                BY <2>9, <2>11, <2>12, <3>2, ListedFacts DEF Joins
            <4>2. all[Len(q) + 1] = one[1]
                BY <2>9, <2>11 DEF Joins
            <4>3. all[i] = b
                BY <2>9, <4>1, <4>2
            <4> QED BY <1>3, <1>5, <4>3 DEF Bodies
        <3> QED BY <3>1, <3>2
    <2>13. \E i \in 1..Len(all) : all[i].type \in Bodies
        <3>1. PICK x \in S : x.type \in Bodies
            BY <2>6
        <3>2. PICK k \in 1..Len(q) : q[k] = x
            BY <2>7 DEF Enumerates
        <3>3. k \in 1..Len(all) /\ all[k] = q[k]
            BY <2>9, <2>11, ListedFacts DEF Joins
        <3> QED BY <3>1, <3>2, <3>3
    <2>14. GetBodyData(b).image \in F
        BY <2>8, <2>11, <2>12, <2>13, BodyImage DEF Joins
    <2>15. Shown(b, F)
        BY <1>3, <1>5, <1>7, <2>14 DEF Shown, WithImage
    <2> QED BY <2>15 DEF b
<1> QED BY <1>6, <1>7

LEMMA PageShown ==
    ASSUME BoxesInv, BlocksInv, AssemblePage, \A i \in 1..Len(blocks) : Pictured(blocks[i], files \cup {None})
    PROVE  AllShown(para', files) /\ AllShown(discarded', files)
<1>1. PICK width, height : AllBoxed(blocks, width, height)
    BY DEF BoxesInv, PageInv
<1>2. Listed(raw) /\ Listed(blocks) /\ DOMAIN blocks = 1..Len(blocks) /\ Len(blocks) \in Nat
    BY <1>1, ListedFacts DEF BoxesInv, PageInv, AllBoxed
<1>3. ASSUME NEW i \in 1..Len(blocks) PROVE Pictured(blocks[i], files)
    <2>1. ASSUME NEW sp, Picture(blocks[i], sp, files \cup {None}) PROVE Picture(blocks[i], sp, files)
        <3>1. sp.image # None
            <4> SUFFICES ASSUME sp.image = None PROVE FALSE
                OBVIOUS
            <4>1. PICK line : line = blocks[i].lines[1]
                OBVIOUS
            <4>2. line = <<sp>> /\ sp.type \in MediaSpans
                BY <2>1, <4>1 DEF Picture
            <4>3. 1 \in DOMAIN line /\ line[1] = sp
                BY <4>2
            <4>4. i \in ToCrop
                BY <1>2, <4>1, <4>2, <4>3 DEF ToCrop
            <4>5. ToCrop = {}
                BY Zenon DEF AssemblePage
            <4> QED BY <4>4, <4>5
        <3> QED BY <2>1, <3>1 DEF Picture
    <2> QED BY <2>1 DEF Pictured
<1>4. AllShown(para', files)
    <2>1. PICK S : Assembled(S) /\ para' = ByIndex(S)
        BY AssembledKept
    <2>2. ASSUME NEW b \in S PROVE Shown(b, files)
        <3>1. CASE b.type \in {"text", "ref_text", "list"}
            BY <3>1 DEF Shown, WithImage
        <3>2. ASSUME NEW p \in 1..Len(blocks), blocks[p].type \in Alone, b = blocks[p] PROVE Shown(b, files)
            BY <1>3, <3>2, AloneShown DEF BlocksInv
        <3>3. ASSUME NEW p \in 1..Len(blocks), blocks[p].type \in VisualMain, b = Visual(p) PROVE Shown(b, files)
            BY <1>1, <1>2, <1>3, <3>3, VisualShown
        <3> QED BY <2>1, <3>1, <3>2, <3>3 DEF Assembled
    <2>3. para' \in Seq(S)
        BY <1>2, <2>1, SortedElements DEF Assembled
    <2> QED BY <2>2, <2>3, ElementOfSeq DEF AllShown, Listed
<1>5. AllShown(discarded', files)
    <2> DEFINE aside == {"header", "footer", "page_number", "aside_text", "page_footnote"}
               D == {j \in DOMAIN blocks : blocks[j].type \in aside}
               f == [j \in D |-> blocks[j]]
               S == {f[j] : j \in D}
    <2>1. discarded' = ByIndex(S)
        <3> DEFINE Of(types) == {blocks[i] : i \in {j \in DOMAIN blocks : blocks[j].type \in types}}
        <3>1. discarded' = ByIndex(Of(aside))
            BY Zenon DEF AssemblePage
        <3>2. S = Of(aside)
            OBVIOUS
        <3> HIDE DEF S, Of
        <3> QED BY <3>1, <3>2
    <2>2. \A b \in S : Shown(b, files)
        BY DEF Shown, Discarded, WithImage
    <2>3. IsFiniteSet(S)
        <3>1. D \in SUBSET (1..Len(blocks))
            BY <1>2
        <3>2. IsFiniteSet(D)
            <4> HIDE DEF D
            <4> QED BY <1>2, <3>1, UpTo, FS_Subset
        <3> HIDE DEF D, f
        <3> QED BY <3>2, HitsAtMost
    <2> HIDE DEF S
    <2>4. discarded' \in Seq(S)
        BY <1>2, <2>1, <2>3, SortedElements
    <2> QED BY <2>2, <2>4, ElementOfSeq DEF AllShown, Listed
<1> QED BY <1>4, <1>5

(* Merging paragraphs changes texts only. *)
LEMMA ParagraphsShown ==
    ASSUME BoxesInv, MergeParaTextBlock, UNCHANGED <<pdfInfo, output>>,
           \A k \in 1..Len(para) : Lined(para[k]), AllShown(para, files)
    PROVE  AllShown(para', files)
<1>1. /\ DOMAIN para' = DOMAIN para
      /\ \A k \in DOMAIN para : \/ para'[k] = para[k]
                                \/ para[k].type = "text" /\ para'[k].type = "text"
    BY MergeKeepsLines
<1>2. Listed(para) /\ DOMAIN para = 1..Len(para)
    BY ListedFacts DEF AllShown
<1>3. Listed(para')
    BY MergeParaTextBlockStep DEF AllShown, BoxesInv, PageInv, AllBoxed
<1>4. DOMAIN para' = 1..Len(para')
    BY <1>3, ListedFacts
<1>5. ASSUME NEW k \in 1..Len(para') PROVE Shown(para'[k], files)
    <2>1. k \in 1..Len(para) /\ k \in DOMAIN para
        BY <1>1, <1>2, <1>4
    <2>2. CASE para'[k] = para[k]
        BY <2>1, <2>2 DEF AllShown
    <2>3. CASE para'[k].type = "text"
        BY <2>3 DEF Shown, WithImage
    <2> QED BY <1>1, <2>1, <2>2, <2>3
<1> QED BY <1>3, <1>5 DEF AllShown

(* make_content_list_v2: its entries take their images from the blocks.    *)
LEMMA EntryOf ==
    ASSUME NEW bs, Listed(bs), NEW n, NEW s, s = EntriesV2(bs, n), NEW i \in DOMAIN s
    PROVE  \E k \in 1..Len(bs) : bs[k].type # "code" /\ s[i].entry = ContentV2(bs[k])
<1> DEFINE Made(j) == IF bs[j].type = "code" THEN <<>> ELSE <<MakeBlockContentV2(bs[j], n)>>
           parts == [j \in DOMAIN bs |-> Made(j)]
<1>1. DOMAIN bs = 1..Len(bs) /\ Len(bs) \in Nat
    BY ListedFacts
<1>2. ASSUME NEW j \in 1..Len(bs)
      PROVE  /\ Listed(parts[j])
             /\ \A m \in 1..Len(parts[j]) : bs[j].type # "code" /\ parts[j][m].entry = ContentV2(bs[j])
    <2>1. PICK e, c : e = MakeBlockContentV2(bs[j], n) /\ c = ContentV2(bs[j])
        OBVIOUS
    <2>2. e.entry = c
        BY <2>1 DEF MakeBlockContentV2
    <2>3. parts[j] = <<>> \/ (bs[j].type # "code" /\ parts[j] = <<e>>)
        BY <1>1, <2>1
    <2>4. PICK part : part = parts[j]
        OBVIOUS
    <2> HIDE DEF parts
    <2>5. Listed(part) /\ \A m \in 1..Len(part) : bs[j].type # "code" /\ part[m] = e
        <3>1. CASE part = <<>>
            BY <3>1, OneListed
        <3>2. CASE bs[j].type # "code" /\ part = <<e>>
            <4>1. Listed(part) /\ Len(part) = 1 /\ part[1] = e
                BY <3>2, OneListed
            <4> QED BY <3>2, <4>1
        <3> QED BY <2>3, <2>4, <3>1, <3>2
    <2> QED BY <2>1, <2>2, <2>4, <2>5
<1>3. parts = [j \in 1..Len(bs) |-> parts[j]]
    BY <1>1
<1>4. s = FlattenSeq(parts)
    BY DEF EntriesV2
<1> HIDE DEF parts
<1>5. Listed(parts) /\ Len(parts) = Len(bs)
    BY <1>1, <1>3, Listing
<1>6. \A j \in 1..Len(parts) : Listed(parts[j])
    BY <1>2, <1>5
<1>7. Listed(s)
    <2>1. PICK from : Spread(s, parts, Len(parts), from)
        BY <1>4, <1>5, <1>6, FlattenSpreads
    <2> QED BY <2>1 DEF Spread
<1>8. i \in 1..Len(s)
    BY <1>7, ListedFacts
<1>9. ComesFrom(s[i], parts)
    BY <1>4, <1>5, <1>6, <1>8, FlattenFrom
<1> QED BY <1>2, <1>5, <1>9 DEF ComesFrom

LEMMA EntryImage ==
    ASSUME NEW F, NEW b, Shown(b, F), b.type # "code", NEW e, e = ContentV2(b),
           e.type \in {"image", "table", "chart", "equation_interline"}
    PROVE  e.image \in F
<1>1. PICK body : body = GetBodyData(b)
    OBVIOUS
<1>2. b.type \in WithImage
    BY DEF ContentV2, Shown, Discarded, WithImage
<1>3. e.image = body.image
    BY <1>1, <1>2 DEF ContentV2, WithImage, Discarded
<1> QED BY <1>1, <1>2, <1>3 DEF Shown

LEMMA ListShown ==
    ASSUME NEW bs, NEW F, AllShown(bs, F), NEW n, NEW i \in DOMAIN EntriesV2(bs, n),
           NEW e, e = EntriesV2(bs, n)[i].entry, e.type \in {"image", "table", "chart", "equation_interline"}
    PROVE  e.image \in F
<1>1. PICK s : s = EntriesV2(bs, n)
    OBVIOUS
<1>2. Listed(bs) /\ i \in DOMAIN s /\ e = s[i].entry
    BY <1>1 DEF AllShown
<1>3. PICK k \in 1..Len(bs) : bs[k].type # "code" /\ s[i].entry = ContentV2(bs[k])
    BY <1>1, <1>2, EntryOf
<1>4. PICK b : b = bs[k]
    OBVIOUS
<1>5. Shown(b, F) /\ b.type # "code" /\ e = ContentV2(b)
    BY <1>2, <1>3, <1>4 DEF AllShown
<1> QED BY <1>5, EntryImage

LEMMA BothShown ==
    ASSUME NEW F, NEW s, AllShown(s, F), NEW t, AllShown(t, F)
    PROVE  AllShown(s \o t, F)
<1>1. PICK b : b = s \o t
    OBVIOUS
<1>2. Listed(s) /\ Listed(t) /\ Len(s) \in Nat /\ Len(t) \in Nat
    BY ListedFacts DEF AllShown
<1>3. Joins(b, s, t)
    BY <1>1, <1>2, Joining
<1>4. ASSUME NEW k \in 1..Len(b) PROVE Shown(b[k], F)
    <2>1. CASE k \in 1..Len(s)
        BY <1>3, <2>1 DEF Joins, AllShown
    <2>2. CASE k \notin 1..Len(s)
        <3>1. PICK m : m = k - Len(s)
            OBVIOUS
        <3>2. m \in 1..Len(t) /\ k = Len(s) + m
            BY <1>2, <1>3, <2>2, <3>1 DEF Joins
        <3> QED BY <1>3, <3>2 DEF Joins, AllShown
    <2> QED BY <2>1, <2>2
<1> QED BY <1>1, <1>3, <1>4 DEF AllShown, Joins

(* make_content_list. *)
LEMMA ContentEntryImage ==
    ASSUME NEW F, NEW b, Shown(b, F), NEW e, e = ContentV1(b),
           e.type \in {"image", "table", "chart", "equation_interline"}
    PROVE  e.image \in F
<1>1. PICK body : body = GetBodyData(b)
    OBVIOUS
<1>2. b.type \in {"image", "table", "chart"}
    <2>1. CASE b.type \in {"text", "ref_text", "phonetic"} \cup Discarded
        BY <2>1, Zenon DEF ContentV1, Discarded
    <2>2. CASE b.type = "list"
        BY <2>2, Zenon DEF ContentV1, Discarded
    <2>3. CASE b.type = "title"
        BY <2>3, Zenon DEF ContentV1, Discarded
    <2>4. CASE b.type = "interline_equation"
        BY <2>4, Zenon DEF ContentV1, Discarded
    <2>5. CASE b.type = "code"
        BY <2>5, Zenon DEF ContentV1, Discarded
    <2> QED BY <2>1, <2>2, <2>3, <2>4, <2>5 DEF Shown, WithImage
<1>3. e.image = body.image
    <2>1. CASE b.type \in {"image", "chart"}
        BY <1>1, <2>1, Zenon DEF ContentV1, Discarded
    <2>2. CASE b.type = "table"
        BY <1>1, <2>2, Zenon DEF ContentV1, Discarded
    <2> QED BY <1>2, <2>1, <2>2
<1> QED BY <1>1, <1>2, <1>3 DEF Shown, WithImage

LEMMA ContentEntryOf ==
    ASSUME BoxesInv, NEW s, s = MakeContentList, NEW i \in DOMAIN s
    PROVE  \E n \in 1..Len(pdfInfo) : \E k \in 1..Len(OutputBlocks(n)) : s[i].entry = ContentV1(OutputBlocks(n)[k])
<1> DEFINE Made(n) == [k \in DOMAIN OutputBlocks(n) |-> MakeBlockContentV1(OutputBlocks(n)[k], n)]
           parts == [n \in DOMAIN pdfInfo |-> Made(n)]
<1>1. DOMAIN pdfInfo = 1..Len(pdfInfo) /\ Len(pdfInfo) \in Nat
    BY ListedFacts DEF BoxesInv, DoneInv
<1>2. ASSUME NEW n \in 1..Len(pdfInfo)
      PROVE  /\ Listed(parts[n])
             /\ \A k \in 1..Len(parts[n]) :
                   k \in 1..Len(OutputBlocks(n)) /\ parts[n][k].entry = ContentV1(OutputBlocks(n)[k])
    <2>1. PICK bs, part : bs = OutputBlocks(n) /\ part = parts[n]
        OBVIOUS
    <2>2. Listed(bs)
        <3>1. PICK s1, s2 : s1 = pdfInfo[n].para /\ s2 = pdfInfo[n].discarded
            OBVIOUS
        <3>2. Listed(s1) /\ Listed(s2)
            BY <3>1 DEF BoxesInv, DoneInv, PageBoxed, AllBoxed
        <3>3. bs = s1 \o s2
            BY <2>1, <3>1 DEF OutputBlocks
        <3> QED BY <3>2, <3>3, Joining DEF Joins
    <2>3. DOMAIN bs = 1..Len(bs) /\ Len(bs) \in Nat
        BY <2>2, ListedFacts
    <2>4. part = [k \in 1..Len(bs) |-> MakeBlockContentV1(bs[k], n)]
        BY <1>1, <2>1, <2>3
    <2>5. part = [k \in 1..Len(bs) |-> part[k]] /\ \A k \in 1..Len(bs) : part[k].entry = ContentV1(bs[k])
        BY <2>4 DEF MakeBlockContentV1
    <2> HIDE DEF parts
    <2>6. Listed(part) /\ Len(part) = Len(bs)
        BY <2>3, <2>5, Listing
    <2> QED BY <2>1, <2>5, <2>6
<1>3. parts = [n \in 1..Len(pdfInfo) |-> parts[n]]
    BY <1>1
<1>4. s = FlattenSeq(parts)
    BY DEF MakeContentList
<1> HIDE DEF parts
<1>5. Listed(parts) /\ Len(parts) = Len(pdfInfo)
    BY <1>1, <1>3, Listing
<1>6. \A n \in 1..Len(parts) : Listed(parts[n])
    BY <1>2, <1>5
<1>7. Listed(s)
    <2>1. PICK from : Spread(s, parts, Len(parts), from)
        BY <1>4, <1>5, <1>6, FlattenSpreads
    <2> QED BY <2>1 DEF Spread
<1>8. i \in 1..Len(s)
    BY <1>7, ListedFacts
<1>9. ComesFrom(s[i], parts)
    BY <1>4, <1>5, <1>6, <1>8, FlattenFrom
<1> QED BY <1>2, <1>5, <1>9 DEF ComesFrom

LEMMA OutputsShown ==
    ASSUME BoxesInv, ImagesInv, Finish
    PROVE  ImagesWritten'
<1>1. files' = files /\ pdfInfo' = pdfInfo
    BY DEF Finish
<1>2. PICK list, lists : list = MakeContentList /\ lists = MakeContentListV2
    OBVIOUS
<1>3. output'.contentList = list /\ output'.contentListV2 = lists
    BY <1>2 DEF Finish
<1>4. DOMAIN pdfInfo = 1..Len(pdfInfo)
    BY ListedFacts DEF BoxesInv, DoneInv
<1>5. ASSUME NEW n \in DOMAIN lists, NEW i \in DOMAIN lists[n],
             lists[n][i].entry.type \in {"image", "table", "chart", "equation_interline"}
      PROVE  lists[n][i].entry.image \in files
    <2>1. PICK bs : bs = OutputBlocks(n)
        OBVIOUS
    <2>2. n \in 1..Len(pdfInfo) /\ lists[n] = EntriesV2(bs, n)
        BY <1>2, <1>4, <2>1 DEF MakeContentListV2
    <2>3. AllShown(bs, files)
        BY <2>1, <2>2, BothShown DEF OutputBlocks, ImagesInv
    <2>4. PICK e : e = lists[n][i].entry
        OBVIOUS
    <2>5. i \in DOMAIN EntriesV2(bs, n) /\ e = EntriesV2(bs, n)[i].entry
        BY <2>2, <2>4
    <2> QED BY <1>5, <2>3, <2>4, <2>5, ListShown
<1>6. ASSUME NEW i \in DOMAIN list, list[i].entry.type \in {"image", "table", "chart", "equation_interline"}
      PROVE  list[i].entry.image \in files
    <2>1. PICK n \in 1..Len(pdfInfo) : \E k \in 1..Len(OutputBlocks(n)) : list[i].entry = ContentV1(OutputBlocks(n)[k])
        BY <1>2, ContentEntryOf
    <2>2. PICK bs, e : bs = OutputBlocks(n) /\ e = list[i].entry
        OBVIOUS
    <2>3. PICK k \in 1..Len(bs) : e = ContentV1(bs[k])
        BY <2>1, <2>2
    <2>4. AllShown(bs, files)
        BY <2>2, BothShown DEF OutputBlocks, ImagesInv
    <2>5. PICK b : b = bs[k]
        OBVIOUS
    <2>6. Shown(b, files) /\ e = ContentV1(b)
        BY <2>3, <2>4, <2>5 DEF AllShown
    <2> QED BY <1>6, <2>2, <2>6, ContentEntryImage
<1> QED BY <1>1, <1>3, <1>5, <1>6 DEF ImagesWritten

-----------------------------------------------------------------------------
(* A step that leaves the images of the outputs and the done pages alone.  *)
LEMMA ImagesKept ==
    ASSUME ImagesInv, UNCHANGED <<pdfInfo, output>>, files \subseteq files'
    PROVE  /\ ImagesWritten'
           /\ \A n \in 1..Len(pdfInfo') : AllShown(pdfInfo'[n].para, files') /\ AllShown(pdfInfo'[n].discarded, files')
<1>1. ImagesWritten'
    BY DEF ImagesInv, ImagesWritten
<1>2. PICK F, G : F = files /\ G = files'
    OBVIOUS
<1>3. ASSUME NEW n \in 1..Len(pdfInfo)
      PROVE  AllShown(pdfInfo[n].para, G) /\ AllShown(pdfInfo[n].discarded, G)
    <2>1. AllShown(pdfInfo[n].para, F) /\ AllShown(pdfInfo[n].discarded, F)
        BY <1>2 DEF ImagesInv
    <2> QED BY <1>2, <2>1, MoreShown
<1> QED BY <1>1, <1>2, <1>3

LEMMA ImagesPage ==
    ASSUME BoxesInv, KeptInv, ImagesInv, BuildPageFragment
    PROVE  ImagesInv'
<1> USE DEF BuildPageFragment
<1>1. CASE ReadLayout
    <2>1. phase' = "convert" /\ files' = files
        BY <1>1 DEF ReadLayout
    <2> QED BY <2>1, ImagesKept DEF ImagesInv
<1>2. CASE ConvertBlocks
    <2>1. phase = "convert" /\ phase' = "crop" /\ files' = files
        BY <1>2 DEF ConvertBlocks
    <2>2. \A k \in 1..Len(blocks') : Pictured(blocks'[k], files' \cup {None})
        BY <1>2, <2>1, PicturesMade DEF KeptInv
    <2> QED BY <2>1, <2>2, ImagesKept DEF ImagesInv, Pictured, Picture
<1>3. CASE WriteCrop
    <2>1. phase = "crop" /\ phase' \in {"crop", "failed"} /\ files \subseteq files'
        BY <1>3 DEF WriteCrop
    <2>2. \A k \in 1..Len(blocks') : Pictured(blocks'[k], files' \cup {None})
        BY <1>3, <2>1, PicturesKept DEF KeptInv, ImagesInv
    <2> QED BY <2>1, <2>2, ImagesKept DEF ImagesInv, Pictured, Picture
<1>4. CASE AssemblePage
    <2>1. phase = "crop" /\ phase' = "merge" /\ UNCHANGED files
        BY <1>4, Zenon DEF AssemblePage
    <2>2. AllShown(para', files) /\ AllShown(discarded', files)
        BY <1>4, <2>1, PageShown DEF KeptInv, ImagesInv
    <2>3. UNCHANGED <<pdfInfo, output>> /\ files \subseteq files' /\ files' = files
        BY <2>1
    <2> QED BY <2>1, <2>2, <2>3, ImagesKept DEF ImagesInv
<1>5. CASE MergeParaTextBlock
    <2>1. phase = "merge" /\ phase' = "merge" /\ files' = files /\ discarded' = discarded
        BY <1>5 DEF MergeParaTextBlock
    <2>2. AllShown(para', files) /\ AllShown(discarded, files)
        BY <1>5, <2>1, ParagraphsShown DEF KeptInv, ImagesInv
    <2> QED BY <2>1, <2>2, ImagesKept DEF ImagesInv
<1> QED BY <1>1, <1>2, <1>3, <1>4, <1>5 DEF BuildPage

LEMMA ImagesAppend ==
    ASSUME BoxesInv, ImagesInv, AppendFragment
    PROVE  ImagesInv'
<1>1. PICK p : /\ pdfInfo' = Append(pdfInfo, p) /\ p.para = para /\ p.discarded = discarded
    <2>1. PICK p : p = [para |-> para, preproc |-> preproc, discarded |-> discarded,
                        size |-> <<pages[page].width, pages[page].height>>]
        OBVIOUS
    <2>2. p.para = para /\ p.discarded = discarded
        BY <2>1
    <2> QED BY <2>1, <2>2 DEF AppendFragment
<1>2. phase = "merge" /\ phase' = "layout" /\ UNCHANGED <<files, output>>
    BY DEF AppendFragment
<1>3. PICK one : one = <<p>>
    OBVIOUS
<1>4. Listed(pdfInfo) /\ Listed(one) /\ Len(one) = 1 /\ one[1] = p /\ Len(pdfInfo) \in Nat
    BY <1>3, OneListed, ListedFacts DEF BoxesInv, DoneInv
<1>5. Joins(pdfInfo', pdfInfo, one)
    BY <1>1, <1>3, <1>4, Appending, Joining
<1>6. ASSUME NEW n \in 1..Len(pdfInfo')
      PROVE  AllShown(pdfInfo'[n].para, files) /\ AllShown(pdfInfo'[n].discarded, files)
    <2>1. CASE n \in 1..Len(pdfInfo)
        BY <1>5, <2>1 DEF Joins, ImagesInv
    <2>2. CASE n \notin 1..Len(pdfInfo)
        <3>1. n = Len(pdfInfo) + 1 /\ 1 \in 1..Len(one)
            BY <1>4, <1>5, <2>2 DEF Joins
        <3>2. pdfInfo'[n] = p
            BY <1>4, <1>5, <3>1 DEF Joins
        <3> QED BY <1>1, <1>2, <3>2 DEF ImagesInv
    <2> QED BY <2>1, <2>2
<1>7. ImagesWritten'
    BY <1>2 DEF ImagesInv, ImagesWritten
<1> QED BY <1>2, <1>6, <1>7 DEF ImagesInv

LEMMA ImagesStutter ==
    ASSUME ImagesInv, UNCHANGED vars
    PROVE  ImagesInv'
<1>1. UNCHANGED <<phase, blocks, para, discarded, files, pdfInfo, output>>
    BY DEF vars, pageVars
<1> QED BY <1>1 DEF ImagesInv, ImagesWritten

LEMMA ImagesNext ==
    ASSUME BoxesInv, KeptInv, ImagesInv, [ParseNext]_<<vars, officeVars>>
    PROVE  ImagesInv'
<1>1. CASE ParseWithVlm
    <2>1. CASE BuildPageFragment
        BY <2>1, ImagesPage
    <2>2. CASE AppendFragment
        BY <2>2, ImagesAppend
    <2>3. CASE Finish
        <3>1. phase' = "finished" /\ UNCHANGED <<pdfInfo, files>>
            BY <2>3 DEF Finish
        <3>2. ImagesWritten'
            BY <2>3, OutputsShown
        <3> QED BY <3>1, <3>2 DEF ImagesInv
    <2> QED BY <1>1, <2>1, <2>2, <2>3 DEF ParseWithVlm, Next
<1>2. CASE ParseOffice
    BY <1>2, ImagesStutter DEF ParseOffice
<1>3. CASE Returned
    BY <1>3, ImagesStutter DEF Returned
<1>4. CASE UNCHANGED <<vars, officeVars>>
    BY <1>4, ImagesStutter
<1> QED BY <1>1, <1>2, <1>3, <1>4 DEF ParseNext

LEMMA ImagesInit == ParseInit => ImagesInv
<1> SUFFICES ASSUME ParseInit PROVE ImagesInv
    OBVIOUS
<1>1. phase \in {"idle", "layout"} /\ pdfInfo = <<>> /\ output = <<>>
    BY DEF ParseInit, Init, PageInit, NoVlmDocument
<1> QED BY <1>1, OneListed DEF ImagesInv, ImagesWritten

(* For every document: the figures, tables and equations of the outputs    *)
(* name images that were written.                                          *)
THEOREM ImagesCorrect == ParseSpec => []ImagesWritten
<1>1. ParseInit => BoxesInv /\ KeptInv /\ ImagesInv
    BY BoxesInit, KeptInit, ImagesInit
<1>2. BoxesInv /\ KeptInv /\ ImagesInv /\ [ParseNext]_<<vars, officeVars>> => (BoxesInv /\ KeptInv /\ ImagesInv)'
    BY BoxesNext, KeptNext, ImagesNext
<1>3. ImagesInv => ImagesWritten
    BY DEF ImagesInv
<1> QED BY <1>1, <1>2, <1>3, PTL DEF ParseSpec

-----------------------------------------------------------------------------
(* The content lists.                                                      *)

Figures == {"image", "table", "chart"}

(* What both entries of a block say of it. *)
LEMMA EntryTypes ==
    ASSUME NEW F, NEW b, Shown(b, F), b.type # "code", NEW c1, c1 = ContentV1(b), NEW c2, c2 = ContentV2(b)
    PROVE  /\ c1.type # "code" /\ Kind(c1.type) = Kind(c2.type)
           /\ c1.type \in Figures <=> c2.type \in Figures
           /\ c1.type \in Figures => c1.image = c2.image
<1>1. PICK body : body = GetBodyData(b)
    OBVIOUS
<1>2. CASE b.type \in {"text", "ref_text", "phonetic"}
    <2>1. c1.type = b.type
        BY <1>2, Zenon DEF ContentV1, Discarded
    <2>2. c2.type \in {"paragraph", "list"}
        <3>1. CASE b.type = "ref_text"
            BY <3>1, Zenon DEF ContentV2, Discarded
        <3>2. CASE b.type \in {"text", "phonetic"}
            BY <3>2, Zenon DEF ContentV2, Discarded
        <3> QED BY <1>2, <3>1, <3>2
    <2> QED BY <1>2, <2>1, <2>2 DEF Kind, Figures, Discarded
<1>3. CASE b.type \in Discarded
    <2>1. c1.type = b.type
        BY <1>3, Zenon DEF ContentV1, Discarded
    <2>2. c2.type = b.type
        BY <1>3, Zenon DEF ContentV2, Discarded
    <2> QED BY <1>3, <2>1, <2>2 DEF Kind, Figures, Discarded
<1>4. CASE b.type = "list"
    <2>1. c1.type = "list"
        BY <1>4, Zenon DEF ContentV1, Discarded
    <2>2. c2.type = "list"
        BY <1>4, Zenon DEF ContentV2, Discarded
    <2> QED BY <2>1, <2>2 DEF Kind, Figures, Discarded
<1>5. CASE b.type = "title"
    <2>1. c1.type = "text"
        BY <1>5, Zenon DEF ContentV1, Discarded
    <2>2. c2.type = "title"
        BY <1>5, Zenon DEF ContentV2, Discarded
    <2> QED BY <2>1, <2>2 DEF Kind, Figures, Discarded
<1>6. CASE b.type = "interline_equation"
    <2>1. c1.type = "equation"
        BY <1>6, Zenon DEF ContentV1, Discarded
    <2>2. c2.type = "equation_interline"
        BY <1>6, Zenon DEF ContentV2, Discarded
    <2> QED BY <2>1, <2>2 DEF Kind, Figures, Discarded
<1>7. CASE b.type \in {"image", "chart"}
    <2>1. c1.type = b.type /\ c1.image = body.image
        BY <1>1, <1>7, Zenon DEF ContentV1, Discarded
    <2>2. c2.type = b.type /\ c2.image = body.image
        BY <1>1, <1>7, Zenon DEF ContentV2, Discarded
    <2> QED BY <1>7, <2>1, <2>2 DEF Kind, Figures, Discarded
<1>8. CASE b.type = "table"
    <2>1. c1.type = "table" /\ c1.image = body.image
        BY <1>1, <1>8, Zenon DEF ContentV1, Discarded
    <2>2. c2.type = "table" /\ c2.image = body.image
        BY <1>1, <1>8, Zenon DEF ContentV2, Discarded
    <2> QED BY <2>1, <2>2 DEF Kind, Figures, Discarded
<1> QED BY <1>2, <1>3, <1>4, <1>5, <1>6, <1>7, <1>8 DEF Shown, WithImage

LEMMA SameTold ==
    ASSUME NEW F, NEW b, Shown(b, F), b.type # "code", NEW n,
           NEW e1, e1 = MakeBlockContentV1(b, n), NEW e2, e2 = MakeBlockContentV2(b, n)
    PROVE  Told(e1) = Told(e2) /\ e1.entry.type # "code"
<1>1. PICK c1, c2, v : c1 = ContentV1(b) /\ c2 = ContentV2(b) /\ v = BboxToContentBbox(b.bbox, pdfInfo[n].size)
    OBVIOUS
<1>2. e1 = [entry |-> c1, bbox |-> v, page |-> n] /\ e2 = [entry |-> c2, bbox |-> v]
    BY <1>1 DEF MakeBlockContentV1, MakeBlockContentV2
<1>3. e1.entry = c1 /\ e1.bbox = v /\ e2.entry = c2 /\ e2.bbox = v
    BY <1>2
<1>4. /\ c1.type # "code" /\ Kind(c1.type) = Kind(c2.type)
      /\ c1.type \in Figures <=> c2.type \in Figures
      /\ c1.type \in Figures => c1.image = c2.image
    BY <1>1, EntryTypes
<1>5. Told(e1) = [bbox |-> v, kind |-> Kind(c1.type), image |-> IF c1.type \in Figures THEN c1.image ELSE None]
    BY <1>3, Zenon DEF Told, Figures
<1>6. Told(e2) = [bbox |-> v, kind |-> Kind(c2.type), image |-> IF c2.type \in Figures THEN c2.image ELSE None]
    BY <1>3, Zenon DEF Told, Figures
<1>7. (IF c1.type \in Figures THEN c1.image ELSE None) = (IF c2.type \in Figures THEN c2.image ELSE None)
    BY <1>4
<1> QED BY <1>3, <1>4, <1>5, <1>6, <1>7

LEMMA CodeEntry ==
    ASSUME NEW b, b.type = "code", NEW n, NEW e, e = MakeBlockContentV1(b, n)
    PROVE  e.entry.type = "code"
<1>1. PICK c : c = ContentV1(b)
    OBVIOUS
<1>2. e.entry = c
    BY <1>1 DEF MakeBlockContentV1
<1>3. c.type = "code"
    BY <1>1, Zenon DEF ContentV1, Discarded
<1> QED BY <1>2, <1>3

(* What a content list tells of the blocks of a page. *)
ToldOf(bs, n) ==
    [k \in 1..Len(bs) |-> IF bs[k].type = "code" THEN <<>> ELSE <<Told(MakeBlockContentV1(bs[k], n))>>]

LEMMA ToldFacts ==
    ASSUME NEW bs, Listed(bs), NEW n
    PROVE  /\ ListedParts(ToldOf(bs, n)) /\ Len(ToldOf(bs, n)) = Len(bs)
<1>1. PICK t : t = ToldOf(bs, n)
    OBVIOUS
<1>2. Len(bs) \in Nat
    BY ListedFacts
<1>3. t = [k \in 1..Len(bs) |-> t[k]]
      /\ \A k \in 1..Len(bs) : t[k] = IF bs[k].type = "code" THEN <<>> ELSE <<Told(MakeBlockContentV1(bs[k], n))>>
    BY <1>1 DEF ToldOf
<1>4. Listed(t) /\ Len(t) = Len(bs)
    BY <1>2, <1>3, Listing
<1>5. ASSUME NEW k \in 1..Len(bs) PROVE Listed(t[k])
    <2>1. PICK e : e = Told(MakeBlockContentV1(bs[k], n))
        OBVIOUS
    <2>2. t[k] = <<>> \/ t[k] = <<e>>
        BY <1>3, <2>1
    <2> QED BY <2>2, OneListed
<1> QED BY <1>1, <1>4, <1>5 DEF ListedParts

(* make_content_list_v2: the entries of a page. *)
LEMMA SecondTells ==
    ASSUME NEW F, NEW bs, AllShown(bs, F), NEW n, NEW s, s = EntriesV2(bs, n)
    PROVE  [i \in DOMAIN s |-> Told(s[i])] = FlattenSeq(ToldOf(bs, n))
<1> DEFINE Made(k) == IF bs[k].type = "code" THEN <<>> ELSE <<MakeBlockContentV2(bs[k], n)>>
           parts == [k \in DOMAIN bs |-> Made(k)]
<1>1. Listed(bs) /\ DOMAIN bs = 1..Len(bs) /\ Len(bs) \in Nat
    BY ListedFacts DEF AllShown
<1>2. s = FlattenSeq(parts)
    BY DEF EntriesV2
<1>3. parts = [k \in 1..Len(bs) |-> parts[k]] /\ \A k \in 1..Len(bs) : parts[k] = Made(k)
    BY <1>1
<1> HIDE DEF parts
<1>4. Listed(parts) /\ Len(parts) = Len(bs)
    BY <1>1, <1>3, Listing
<1>5. \A k \in 1..Len(bs) : parts[k] = IF bs[k].type = "code" THEN <<>> ELSE <<MakeBlockContentV2(bs[k], n)>>
    BY <1>3
<1> HIDE DEF Made
<1>6. ListedParts(parts)
    <2> SUFFICES ASSUME NEW k \in 1..Len(bs) PROVE Listed(parts[k])
        BY <1>4 DEF ListedParts
    <2>1. PICK e : e = MakeBlockContentV2(bs[k], n)
        OBVIOUS
    <2>2. parts[k] = <<>> \/ parts[k] = <<e>>
        BY <1>5, <2>1
    <2> QED BY <2>2, OneListed
<1>7. PICK h : h = [e \in {MakeBlockContentV2(bs[k], n) : k \in 1..Len(bs)} |-> <<Told(e)>>]
    OBVIOUS
<1>8. ASSUME NEW k \in 1..Len(bs), NEW e, e = MakeBlockContentV2(bs[k], n) PROVE h[e] = <<Told(e)>>
    <2>1. e \in {MakeBlockContentV2(bs[m], n) : m \in 1..Len(bs)}
        BY <1>8
    <2> QED BY <1>7, <2>1
<1>9. ASSUME NEW k \in 1..Len(bs)
      PROVE  ListedBy(h, parts[k]) /\ ToldOf(bs, n)[k] = FlattenSeq(Applied(h, parts[k]))
    <2>1. PICK part, a, b, e, e1, x : /\ part = parts[k] /\ a = Applied(h, part) /\ b = bs[k] /\ x = Told(e)
                                      /\ e = MakeBlockContentV2(bs[k], n) /\ e1 = MakeBlockContentV1(bs[k], n)
        OBVIOUS
    <2>2. ToldOf(bs, n)[k] = IF b.type = "code" THEN <<>> ELSE <<Told(e1)>>
        BY <2>1 DEF ToldOf
    <2>3. CASE b.type = "code"
        <3>1. part = <<>> /\ Listed(part) /\ Len(part) = 0
            BY <1>5, <2>1, <2>3, OneListed
        <3>2. Listed(a) /\ Len(a) = 0
            BY <2>1, <3>1, AppliedFacts DEF Applies
        <3>3. a = <<>> /\ FlattenSeq(<<>>) = <<>>
            BY <3>2, ListedFacts DEF FlattenSeq
        <3>4. ListedBy(h, part)
            BY <3>1 DEF ListedBy
        <3> QED BY <2>1, <2>2, <2>3, <3>3, <3>4
    <2>4. CASE b.type # "code"
        <3>1. part = <<e>>
            BY <1>5, <2>1, <2>4
        <3>2. Listed(part) /\ Len(part) = 1 /\ part[1] = e
            BY <3>1, OneListed
        <3>3. h[e] = <<x>>
            BY <1>8, <2>1
        <3>4. Listed(a) /\ Len(a) = 1 /\ a[1] = <<x>>
            <4>1. PICK one : one = 1
                OBVIOUS
            <4>2. Listed(a) /\ Len(a) = one /\ a[one] = h[part[one]]
                BY <2>1, <3>2, <4>1, AppliedFacts DEF Applies
            <4> QED BY <3>2, <3>3, <4>1, <4>2
        <3>5. a = <<<<x>>>>
            <4>1. PICK y, z : y = <<x>> /\ z = <<y>>
                OBVIOUS
            <4>2. Listed(z) /\ Len(z) = 1 /\ z[1] = y
                BY <4>1, OneListed
            <4>3. \A i \in 1..Len(a) : a[i] = z[i]
                BY <3>4, <4>1, <4>2
            <4>4. a = z
                BY <3>4, <4>2, <4>3, SameList
            <4> QED BY <4>1, <4>4
        <3>6. FlattenSeq(a) = <<x>>
            BY <3>5, FlattenOne
        <3>7. Told(e1) = x
            <4>1. Shown(b, F)
                BY <2>1 DEF AllShown
            <4> QED BY <2>1, <2>4, <4>1, SameTold
        <3>8. ListedBy(h, part)
            <4>1. \A i \in 1..Len(part) : part[i] = e
                BY <3>2
            <4> QED BY <3>3, <4>1, OneListed DEF ListedBy
        <3> QED BY <2>1, <2>2, <2>4, <3>6, <3>7, <3>8
    <2> QED BY <2>3, <2>4
<1>10. PICK t, a : t = ToldOf(bs, n) /\ a = Applied(h, s)
    OBVIOUS
<1>11. Listed(t) /\ Len(t) = Len(parts)
    BY <1>1, <1>4, <1>10, ToldFacts DEF ListedParts
<1>12. \A k \in 1..Len(parts) : ListedBy(h, parts[k]) /\ t[k] = FlattenSeq(Applied(h, parts[k]))
    BY <1>4, <1>9, <1>10
<1>13. FlattenSeq(a) = FlattenSeq(t)
    BY <1>2, <1>6, <1>10, <1>11, <1>12, FlattenApplied
<1>14. PICK from : Spread(s, parts, Len(parts), from)
    BY <1>2, <1>6, FlattenSpreads DEF ListedParts
<1>15. Listed(s) /\ DOMAIN s = 1..Len(s) /\ Len(s) \in Nat
    BY <1>14, ListedFacts DEF Spread
<1>16. ASSUME NEW i \in 1..Len(s) PROVE h[s[i]] = <<Told(s[i])>>
    <2>1. PICK m, j : m = from[i][1] /\ j = from[i][2]
        OBVIOUS
    <2>2. m \in 1..Len(bs) /\ j \in 1..Len(parts[m]) /\ s[i] = parts[m][j]
        BY <1>4, <1>14, <2>1 DEF Spread
    <2>3. PICK e, part : e = MakeBlockContentV2(bs[m], n) /\ part = parts[m]
        OBVIOUS
    <2>4. part = <<>> \/ part = <<e>>
        BY <1>5, <2>2, <2>3
    <2>5. part = <<e>> /\ j = 1 /\ part[1] = e
        BY <2>2, <2>3, <2>4, OneListed
    <2>6. s[i] = e
        BY <2>2, <2>3, <2>5
    <2> QED BY <1>8, <2>2, <2>3, <2>6
<1>17. PICK told : told = [i \in DOMAIN s |-> Told(s[i])]
    OBVIOUS
<1>18. told = [i \in 1..Len(s) |-> told[i]] /\ \A i \in 1..Len(s) : told[i] = Told(s[i])
    BY <1>15, <1>17
<1>19. Listed(told) /\ Len(told) = Len(s)
    BY <1>15, <1>18, Listing
<1>20. Listed(a) /\ Len(a) = Len(told) /\ \A i \in 1..Len(told) : a[i] = <<told[i]>>
    <2>1. Listed(a) /\ Len(a) = Len(s) /\ \A i \in 1..Len(s) : a[i] = h[s[i]]
        BY <1>10, <1>15, AppliedFacts DEF Applies
    <2>2. ASSUME NEW i \in 1..Len(s) PROVE a[i] = <<told[i]>>
        <3>1. a[i] = h[s[i]] /\ h[s[i]] = <<Told(s[i])>>
            BY <1>16, <2>1
        <3>2. told[i] = Told(s[i])
            BY <1>18
        <3> QED BY <3>1, <3>2
    <2> QED BY <1>19, <2>1, <2>2
<1>21. FlattenSeq(a) = told
    BY <1>19, <1>20, FlattenOnes
<1> QED BY <1>10, <1>13, <1>17, <1>21

(* make_content_list: what it tells of a page. *)
Tells(s) ==
    /\ \A n \in 1..Len(pdfInfo) : OfPage(s, n) = FlattenSeq(ToldOf(OutputBlocks(n), n))
    /\ \A i \in DOMAIN s : s[i].page \in 1..Len(pdfInfo)
    /\ \A i, j \in DOMAIN s : i < j => s[i].page <= s[j].page

LEMMA FirstTells ==
    ASSUME BoxesInv, NEW F, \A n \in 1..Len(pdfInfo) : AllShown(OutputBlocks(n), F),
           NEW s, s = MakeContentList
    PROVE  Tells(s)
<1> DEFINE Made(n) == [k \in DOMAIN OutputBlocks(n) |-> MakeBlockContentV1(OutputBlocks(n)[k], n)]
           parts == [n \in DOMAIN pdfInfo |-> Made(n)]
           pagesDone == Len(pdfInfo)
           OnPage(e, n) == IF e.page = n /\ e.entry.type # "code" THEN <<Told(e)>> ELSE <<>>
<1>1. DOMAIN pdfInfo = 1..pagesDone /\ pagesDone \in Nat
    BY ListedFacts DEF BoxesInv, DoneInv
<1>2. s = FlattenSeq(parts)
    BY DEF MakeContentList
<1>3. parts = [n \in 1..pagesDone |-> parts[n]] /\ \A n \in 1..pagesDone : parts[n] = Made(n)
    BY <1>1
<1> HIDE DEF parts, pagesDone
<1>4. Listed(parts) /\ Len(parts) = pagesDone
    BY <1>1, <1>3, Listing
<1>5. ASSUME NEW n \in 1..pagesDone
      PROVE  /\ Listed(OutputBlocks(n)) /\ AllShown(OutputBlocks(n), F)
             /\ Listed(parts[n]) /\ Len(parts[n]) = Len(OutputBlocks(n))
             /\ \A k \in 1..Len(OutputBlocks(n)) : parts[n][k] = MakeBlockContentV1(OutputBlocks(n)[k], n)
    <2>1. PICK bs, part : bs = OutputBlocks(n) /\ part = parts[n]
        OBVIOUS
    <2>2. AllShown(bs, F) /\ Listed(bs)
        BY <2>1 DEF AllShown, pagesDone
    <2>3. DOMAIN bs = 1..Len(bs) /\ Len(bs) \in Nat
        BY <2>2, ListedFacts
    <2>4. part = [k \in 1..Len(bs) |-> MakeBlockContentV1(bs[k], n)]
        BY <1>3, <2>1, <2>3
    <2>5. part = [k \in 1..Len(bs) |-> part[k]] /\ \A k \in 1..Len(bs) : part[k] = MakeBlockContentV1(bs[k], n)
        BY <2>4
    <2>6. Listed(part) /\ Len(part) = Len(bs)
        BY <2>3, <2>5, Listing
    <2> QED BY <2>1, <2>2, <2>5, <2>6
<1> HIDE DEF Made
<1>6. ListedParts(parts)
    BY <1>4, <1>5 DEF ListedParts
<1>7. PICK from : Spread(s, parts, Len(parts), from) /\ PartByPart(s, from)
    BY <1>2, <1>6, FlattenSpreads DEF ListedParts
<1>8. Listed(s) /\ DOMAIN s = 1..Len(s) /\ Len(s) \in Nat
    BY <1>7, ListedFacts DEF Spread
<1>9. ASSUME NEW m \in 1..pagesDone, NEW k \in 1..Len(parts[m])
      PROVE  /\ k \in 1..Len(OutputBlocks(m))
             /\ parts[m][k] = MakeBlockContentV1(OutputBlocks(m)[k], m) /\ parts[m][k].page = m
    <2>1. k \in 1..Len(OutputBlocks(m)) /\ parts[m][k] = MakeBlockContentV1(OutputBlocks(m)[k], m)
        BY <1>5
    <2>2. PICK e, b : e = parts[m][k] /\ b = OutputBlocks(m)[k]
        OBVIOUS
    <2>3. e.page = m
        BY <2>1, <2>2 DEF MakeBlockContentV1
    <2> QED BY <2>1, <2>2, <2>3
<1>10. ASSUME NEW i \in 1..Len(s)
       PROVE  /\ from[i][1] \in 1..pagesDone /\ from[i][2] \in 1..Len(parts[from[i][1]])
              /\ s[i] = parts[from[i][1]][from[i][2]] /\ s[i].page = from[i][1]
    <2>1. PICK m, j : m = from[i][1] /\ j = from[i][2]
        OBVIOUS
    <2>2. m \in 1..pagesDone /\ j \in 1..Len(parts[m]) /\ s[i] = parts[m][j]
        BY <1>4, <1>7, <2>1 DEF Spread
    <2> QED BY <1>9, <2>1, <2>2
<1>11. \A i \in DOMAIN s : s[i].page \in 1..pagesDone
    BY <1>8, <1>10
<1>12. \A i, j \in DOMAIN s : i < j => s[i].page <= s[j].page
    BY <1>7, <1>8, <1>10 DEF PartByPart
<1>13. ASSUME NEW n \in 1..pagesDone
       PROVE  FlattenSeq([i \in DOMAIN s |-> OnPage(s[i], n)]) = FlattenSeq(ToldOf(OutputBlocks(n), n))
    <2>1. PICK h : h = [e \in UNION {{parts[m][k] : k \in 1..Len(parts[m])} : m \in 1..pagesDone} |-> OnPage(e, n)]
        OBVIOUS
    <2>2. ASSUME NEW m \in 1..pagesDone, NEW k \in 1..Len(parts[m]) PROVE h[parts[m][k]] = OnPage(parts[m][k], n)
        <3>1. PICK e : e = parts[m][k]
            OBVIOUS
        <3>2. e \in UNION {{parts[x][y] : y \in 1..Len(parts[x])} : x \in 1..pagesDone}
            BY <3>1
        <3>3. h[e] = OnPage(e, n)
            BY <2>1, <3>2
        <3> QED BY <3>1, <3>3
    <2> HIDE DEF OnPage
    <2>3. PICK a : a = [i \in DOMAIN s |-> OnPage(s[i], n)]
        OBVIOUS
    <2>4. a = Applied(h, s)
        <3>1. ASSUME NEW i \in 1..Len(s) PROVE h[s[i]] = OnPage(s[i], n)
            <4>1. PICK m, j : m = from[i][1] /\ j = from[i][2]
                OBVIOUS
            <4>2. m \in 1..pagesDone /\ j \in 1..Len(parts[m]) /\ s[i] = parts[m][j]
                BY <1>10, <4>1
            <4> QED BY <2>2, <4>2
        <3>2. PICK b : b = Applied(h, s)
            OBVIOUS
        <3>3. Listed(b) /\ Len(b) = Len(s) /\ \A i \in 1..Len(s) : b[i] = h[s[i]]
            BY <1>8, <3>2, AppliedFacts DEF Applies
        <3>4. a = [i \in 1..Len(s) |-> a[i]] /\ \A i \in 1..Len(s) : a[i] = OnPage(s[i], n)
            BY <1>8, <2>3
        <3>5. Listed(a) /\ Len(a) = Len(s)
            BY <1>8, <3>4, Listing
        <3>6. \A i \in 1..Len(s) : a[i] = b[i]
            BY <3>1, <3>3, <3>4
        <3>7. a = b
            BY <3>3, <3>5, <3>6, SameList
        <3> QED BY <3>2, <3>7
    <2>5. ASSUME NEW m \in 1..pagesDone PROVE ListedBy(h, parts[m])
        <3> SUFFICES ASSUME NEW k \in 1..Len(parts[m]) PROVE Listed(h[parts[m][k]])
            BY DEF ListedBy
        <3>1. PICK e, x : e = parts[m][k] /\ x = Told(e)
            OBVIOUS
        <3>2. h[e] = OnPage(e, n)
            BY <2>2, <3>1
        <3>3. OnPage(e, n) = <<>> \/ OnPage(e, n) = <<x>>
            BY <3>1 DEF OnPage
        <3>4. Listed(h[e])
            BY <3>2, <3>3, OneListed
        <3> QED BY <3>1, <3>4
    <2>6. PICK inner : inner = [m \in 1..pagesDone |-> FlattenSeq(Applied(h, parts[m]))]
        OBVIOUS
    <2>7. inner = [m \in 1..pagesDone |-> inner[m]] /\ \A m \in 1..pagesDone : inner[m] = FlattenSeq(Applied(h, parts[m]))
        BY <2>6
    <2>8. Listed(inner) /\ Len(inner) = Len(parts)
        BY <1>1, <1>4, <2>7, Listing
    <2>9. FlattenSeq(Applied(h, s)) = FlattenSeq(inner) /\ ListedParts(inner)
        <3>1. \A m \in 1..Len(parts) : ListedBy(h, parts[m]) /\ inner[m] = FlattenSeq(Applied(h, parts[m]))
            BY <1>4, <2>5, <2>7
        <3> QED BY <1>2, <1>6, <2>8, <3>1, FlattenApplied
    <2>10. ASSUME NEW m \in 1..pagesDone, m # n PROVE inner[m] = <<>>
        <3>1. PICK part, x : part = parts[m] /\ x = Applied(h, part)
            OBVIOUS
        <3>2. Listed(part)
            BY <1>5, <3>1
        <3>3. Listed(x) /\ Len(x) = Len(part) /\ \A k \in 1..Len(part) : x[k] = h[part[k]]
            BY <3>1, <3>2, AppliedFacts DEF Applies
        <3>4. ASSUME NEW k \in 1..Len(part) PROVE x[k] = <<>>
            <4>1. PICK e : e = part[k]
                OBVIOUS
            <4>2. e.page # n /\ x[k] = OnPage(e, n)
                BY <1>9, <2>2, <2>10, <3>1, <3>3, <4>1
            <4> QED BY <4>2 DEF OnPage
        <3>5. FlattenSeq(x) = <<>>
            BY <3>3, <3>4, FlattenNothing
        <3> QED BY <2>7, <3>1, <3>5
    <2>11. FlattenSeq(inner) = inner[n]
        <3>1. n \in 1..Len(inner) /\ \A m \in 1..Len(inner) : m # n => inner[m] = <<>>
            BY <1>4, <2>8, <2>10
        <3> QED BY <2>9, <3>1, FlattenOnly
    <2>12. Applied(h, parts[n]) = ToldOf(OutputBlocks(n), n)
        <3>1. PICK part, x, bs, t : part = parts[n] /\ x = Applied(h, part) /\ bs = OutputBlocks(n) /\ t = ToldOf(bs, n)
            OBVIOUS
        <3>2. Listed(part) /\ Listed(bs) /\ AllShown(bs, F) /\ Len(part) = Len(bs)
              /\ \A k \in 1..Len(bs) : part[k] = MakeBlockContentV1(bs[k], n)
            BY <1>5, <3>1
        <3>3. Listed(x) /\ Len(x) = Len(part) /\ \A k \in 1..Len(part) : x[k] = h[part[k]]
            BY <3>1, <3>2, AppliedFacts DEF Applies
        <3>4. Listed(t) /\ Len(t) = Len(bs)
            BY <3>1, <3>2, ToldFacts DEF ListedParts
        <3>5. ASSUME NEW k \in 1..Len(bs) PROVE x[k] = t[k]
            <4>1. PICK b, e, e2, y : b = bs[k] /\ e = MakeBlockContentV1(b, n) /\ e2 = MakeBlockContentV2(b, n) /\ y = Told(e)
                OBVIOUS
            <4>2. part[k] = e /\ e.page = n /\ x[k] = OnPage(e, n)
                BY <1>9, <2>2, <3>1, <3>2, <3>3, <4>1
            <4>3. t[k] = IF b.type = "code" THEN <<>> ELSE <<y>>
                BY <3>1, <4>1 DEF ToldOf
            <4>4. CASE b.type = "code"
                <5>1. e.entry.type = "code"
                    BY <4>1, <4>4, CodeEntry
                <5> QED BY <4>2, <4>3, <4>4, <5>1 DEF OnPage
            <4>5. CASE b.type # "code"
                <5>1. Shown(b, F)
                    BY <3>2, <4>1 DEF AllShown
                <5>2. e.entry.type # "code"
                    BY <4>1, <4>5, <5>1, SameTold
                <5>3. OnPage(e, n) = <<y>>
                    BY <4>1, <4>2, <5>2 DEF OnPage
                <5> QED BY <4>2, <4>3, <4>5, <5>3
            <4> QED BY <4>4, <4>5
        <3>6. x = t
            BY <3>2, <3>3, <3>4, <3>5, SameList
        <3> QED BY <3>1, <3>6
    <2>13. inner[n] = FlattenSeq(ToldOf(OutputBlocks(n), n))
        BY <2>7, <2>12
    <2> QED BY <2>3, <2>4, <2>9, <2>11, <2>13
<1> QED BY <1>11, <1>12, <1>13 DEF pagesDone, Tells, OfPage

LEMMA OutputsTell ==
    ASSUME BoxesInv, ImagesInv, Finish
    PROVE  OutputsAgree'
<1>1. PICK list, lists, F : list = MakeContentList /\ lists = MakeContentListV2 /\ F = files
    OBVIOUS
<1>2. output'.contentList = list /\ output'.contentListV2 = lists
    BY <1>1 DEF Finish
<1>3. DOMAIN pdfInfo = 1..Len(pdfInfo)
    BY ListedFacts DEF BoxesInv, DoneInv
<1>4. DOMAIN lists = 1..Len(pdfInfo) /\ \A n \in 1..Len(pdfInfo) : lists[n] = EntriesV2(OutputBlocks(n), n)
    BY <1>1, <1>3 DEF MakeContentListV2
<1>5. ASSUME NEW n \in 1..Len(pdfInfo) PROVE AllShown(OutputBlocks(n), F)
    <2>1. PICK x, y : x = pdfInfo[n].para /\ y = pdfInfo[n].discarded
        OBVIOUS
    <2>2. AllShown(x, F) /\ AllShown(y, F)
        BY <1>1, <2>1 DEF ImagesInv
    <2>3. AllShown(x \o y, F)
        BY <2>2, BothShown
    <2> QED BY <2>1, <2>3 DEF OutputBlocks
<1>6. Tells(list)
    BY <1>1, <1>5, FirstTells
<1>7. ASSUME NEW n \in 1..Len(pdfInfo)
      PROVE  [i \in DOMAIN lists[n] |-> Told(lists[n][i])] = FlattenSeq(ToldOf(OutputBlocks(n), n))
    <2>1. PICK bs, s : bs = OutputBlocks(n) /\ s = lists[n]
        OBVIOUS
    <2>2. AllShown(bs, F) /\ s = EntriesV2(bs, n)
        BY <1>4, <1>5, <2>1
    <2>3. [i \in DOMAIN s |-> Told(s[i])] = FlattenSeq(ToldOf(bs, n))
        BY <2>2, SecondTells
    <2> QED BY <2>1, <2>3
<1>8. ListsAgree(list, lists)
    BY <1>4, <1>6, <1>7 DEF ListsAgree, Tells
<1> QED BY <1>2, <1>8 DEF OutputsAgree

LEMMA AgreedNext ==
    ASSUME BoxesInv, ImagesInv, OutputsAgree, [ParseNext]_<<vars, officeVars>>
    PROVE  OutputsAgree'
<1>1. CASE Finish
    BY <1>1, OutputsTell
<1>2. CASE UNCHANGED output
    BY <1>2 DEF OutputsAgree
<1>3. Finish \/ UNCHANGED output
    BY DEF ParseNext, ParseWithVlm, Next, BuildPageFragment, AppendFragment, ParseOffice, Returned, vars
<1> QED BY <1>1, <1>2, <1>3

(* For every document: the two content lists tell of the same blocks, page *)
(* by page and in order.                                                   *)
THEOREM OutputsAgreeCorrect == ParseSpec => []OutputsAgree
<1>1. ParseInit => BoxesInv /\ KeptInv /\ ImagesInv /\ OutputsAgree
    <2>1. ParseInit => output = <<>>
        BY DEF ParseInit, Init, NoVlmDocument
    <2> QED BY <2>1, BoxesInit, KeptInit, ImagesInit DEF OutputsAgree
<1>2. BoxesInv /\ KeptInv /\ ImagesInv /\ OutputsAgree /\ [ParseNext]_<<vars, officeVars>>
          => (BoxesInv /\ KeptInv /\ ImagesInv /\ OutputsAgree)'
    BY BoxesNext, KeptNext, ImagesNext, AgreedNext
<1> QED BY <1>1, <1>2, PTL DEF ParseSpec

-----------------------------------------------------------------------------
(* Escapes.  What is added to a text, cut from it or joined to it changes  *)
(* the backslashes before its characters as the last one says.             *)
(* The provers have no rule for a string literal and STRING, and only one  *)
(* of them reads a space.                                                  *)
Space == " "
Characters == STRING \cup {"\\", "[", "]", Space}
Texts == Seq(Characters)

LEMMA SlashesStep ==
    ASSUME NEW s, NEW i \in Nat, i >= 1
    PROVE  /\ Slashes(s, i) \in 0..i - 1 /\ Slashes(s, 1) = 0
           /\ Slashes(s, i + 1) = IF s[i] = "\\" THEN Slashes(s, i) + 1 ELSE 0
<1> DEFINE Runs(m) == {n \in 0..m - 1 : \A k \in m - n..m - 1 : s[k] = "\\"}
<1>1. ASSUME NEW m \in Nat, m >= 1
      PROVE  /\ 0 \in Runs(m) /\ Slashes(s, m) \in Runs(m) /\ Slashes(s, m) \in 0..m - 1
             /\ \A n \in Runs(m) : n <= Slashes(s, m)
    <2>1. Runs(m) \in SUBSET (0..m) /\ 0 \in Runs(m) /\ Runs(m) \in SUBSET (0..m - 1)
        BY <1>1
    <2>2. Slashes(s, m) = Max(Runs(m))
        BY DEF Slashes
    <2> HIDE DEF Runs
    <2>3. Max(Runs(m)) \in Runs(m) /\ \A n \in Runs(m) : n <= Max(Runs(m))
        BY <2>1, GreatestUpTo
    <2> QED BY <2>1, <2>2, <2>3
<1>2. PICK now, next : now = Slashes(s, i) /\ next = Slashes(s, i + 1)
    OBVIOUS
<1>3. /\ now \in Runs(i) /\ now \in 0..i - 1 /\ \A n \in Runs(i) : n <= now
      /\ next \in Runs(i + 1) /\ next \in 0..i /\ \A n \in Runs(i + 1) : n <= next
    <2>1. i + 1 \in Nat /\ i + 1 >= 1 /\ (i + 1) - 1 = i
        OBVIOUS
    <2> HIDE DEF Runs
    <2> QED BY <1>1, <1>2, <2>1
<1>4. Slashes(s, 1) = 0
    <2>1. Slashes(s, 1) \in 0..1 - 1
        <3> HIDE DEF Runs
        <3> QED BY <1>1
    <2> QED BY <2>1
<1>5. CASE s[i] = "\\"
    <2>1. now + 1 \in Runs(i + 1)
        <3>1. \A k \in (i + 1) - (now + 1)..(i + 1) - 1 : k = i \/ k \in i - now..i - 1
            BY <1>3
        <3>2. \A k \in (i + 1) - (now + 1)..(i + 1) - 1 : s[k] = "\\"
            BY <1>3, <1>5, <3>1
        <3> QED BY <1>3, <3>2
    <2>2. next # 0 => next - 1 \in Runs(i)
        <3>1. \A k \in i - (next - 1)..i - 1 : k \in (i + 1) - next..(i + 1) - 1
            BY <1>3
        <3> QED BY <1>3, <3>1
    <2>3. now + 1 <= next /\ (next # 0 => next - 1 <= now)
        <3> HIDE DEF Runs
        <3> QED BY <1>3, <2>1, <2>2
    <2>4. next = now + 1
        BY <1>3, <2>3
    <2> QED BY <1>2, <1>3, <1>4, <1>5, <2>4
<1>6. CASE s[i] # "\\"
    <2>1. next # 0 => i \in (i + 1) - next..(i + 1) - 1
        BY <1>3
    <2>2. next = 0
        BY <1>3, <1>6, <2>1
    <2> QED BY <1>2, <1>3, <1>4, <1>6, <2>2
<1> QED BY <1>5, <1>6

(* From a in s and b in t on the same is read, up to n characters. *)
Alike(s, a, t, b, n) ==
    /\ a \in Nat /\ a >= 1 /\ b \in Nat /\ b >= 1
    /\ \A j \in 1..n : s[a + (j - 1)] = t[b + (j - 1)]

SameSlashes(s, a, t, b, n) == \A j \in 0..n : Slashes(s, a + j) = Slashes(t, b + j)

LEMMA SlashesAlike ==
    ASSUME NEW n \in Nat, NEW s, NEW t, NEW a, NEW b, Alike(s, a, t, b, n), Slashes(s, a) = Slashes(t, b)
    PROVE  SameSlashes(s, a, t, b, n)
<1> USE DEF Alike
<1> SUFFICES ASSUME NEW x \in 0..n, Slashes(s, a + x) # Slashes(t, b + x) PROVE FALSE
    BY DEF SameSlashes
<1> DEFINE Differ == {j \in 0..n : Slashes(s, a + j) # Slashes(t, b + j)}
<1>1. PICK k \in Differ : \A m \in Differ : k <= m
    <2> x \in Differ /\ Differ \in SUBSET Nat
        OBVIOUS
    <2> HIDE DEF Differ
    <2> QED BY LeastNumber
<1>2. k # 0
    <2>1. a + 0 = a /\ b + 0 = b
        OBVIOUS
    <2> QED BY <1>1, <2>1, Zenon
<1>3. k \in 1..n /\ k - 1 \in 0..n /\ ~(k <= k - 1)
    BY <1>1, <1>2
<1>4. PICK c, d : c = a + (k - 1) /\ d = b + (k - 1)
    OBVIOUS
<1>5. c \in Nat /\ c >= 1 /\ d \in Nat /\ d >= 1 /\ c + 1 = a + k /\ d + 1 = b + k
    BY <1>3, <1>4
<1>6. Slashes(s, c) = Slashes(t, d)
    BY <1>1, <1>3, <1>4
<1>7. s[c] = t[d]
    BY <1>3, <1>4
<1>8. Slashes(s, c + 1) = Slashes(t, d + 1)
    BY <1>5, <1>6, <1>7, SlashesStep
<1> QED BY <1>1, <1>5, <1>8

LEMMA TextFacts ==
    ASSUME NEW s \in Texts
    PROVE  /\ Listed(s) /\ Len(s) \in Nat /\ DOMAIN s = 1..Len(s) /\ \A i \in 1..Len(s) : s[i] \in Characters
           /\ Len(s) = 0 => s = <<>>
<1>1. Listed(s)
    BY DEF Listed, Texts
<1> QED BY <1>1, ListedFacts, LenProperties DEF Texts

LEMMA OneText ==
    ASSUME NEW c \in Characters
    PROVE  <<c>> \in Texts
BY DEF Texts

(* A part that does not begin after a backslash. *)
LEMMA EscapedPart ==
    ASSUME NEW s \in Texts, Escaped(s), NEW a \in 1..Len(s) + 1, NEW b \in (a - 1)..Len(s),
           a = 1 \/ s[a - 1] # "\\"
    PROVE  SubSeq(s, a, b) \in Texts /\ Escaped(SubSeq(s, a, b))
<1>1. PICK p, n : p = SubSeq(s, a, b) /\ n = b - a + 1
    OBVIOUS
<1>2. /\ Listed(s) /\ Len(s) \in Nat /\ DOMAIN s = 1..Len(s) /\ a \in Nat /\ a >= 1 /\ b \in Nat /\ n \in Nat
      /\ \A i \in 1..Len(s) : s[i] \in Characters
    BY <1>1, TextFacts
<1>3. Listed(p) /\ Len(p) = n /\ \A i \in 1..n : p[i] = s[a + i - 1]
    BY <1>1, <1>2, Cutting DEF Part
<1>4. \A i \in 1..n : a + (i - 1) \in 1..Len(s) /\ 1 + (i - 1) = i /\ a + (i - 1) = a + i - 1
    BY <1>1, <1>2
<1>5. p \in Texts
    <2>1. a \in Int /\ b \in Int /\ \A i \in a..b : s[i] \in Characters
        BY <1>2
    <2> QED BY <1>1, <2>1, SubSeqProperties DEF Texts
<1>6. Slashes(s, a) = 0
    <2>1. CASE a = 1
        BY <1>2, <2>1, SlashesStep
    <2>2. CASE a # 1
        <3>1. PICK c : c = a - 1
            OBVIOUS
        <3>2. c \in Nat /\ c >= 1 /\ c + 1 = a /\ s[c] # "\\"
            BY <1>2, <2>2, <3>1
        <3> QED BY <3>2, SlashesStep
    <2> QED BY <2>1, <2>2
<1>7. PICK one : one = 1
    OBVIOUS
<1>8. Slashes(p, one) = 0
    BY <1>7, SlashesStep
<1>9. Alike(s, a, p, one, n)
    BY <1>2, <1>3, <1>4, <1>7 DEF Alike
<1>10. SameSlashes(s, a, p, one, n)
    BY <1>2, <1>6, <1>8, <1>9, SlashesAlike
<1>11. ASSUME NEW i \in 1..n, p[i] \in Special PROVE Slashes(p, i) % 2 = 1
    <2>1. PICK c : c = a + (i - 1)
        OBVIOUS
    <2>2. c \in 1..Len(s) /\ p[i] = s[c]
        BY <1>3, <1>4, <2>1
    <2>3. Slashes(s, c) % 2 = 1
        BY <1>2, <1>11, <2>2 DEF Escaped
    <2>4. i - 1 \in 0..n /\ one + (i - 1) = i
        BY <1>2, <1>7
    <2>5. Slashes(s, c) = Slashes(p, i)
        BY <1>10, <2>1, <2>4 DEF SameSlashes
    <2> QED BY <2>3, <2>5
<1>12. Escaped(p)
    <2>1. DOMAIN p = 1..n
        BY <1>3, ListedFacts
    <2> QED BY <1>11, <2>1 DEF Escaped
<1> QED BY <1>1, <1>5, <1>12

(* Nothing, or something that does not end with a backslash. *)
EndsPlain(s) == Len(s) = 0 \/ s[Len(s)] # "\\"

LEMMA EscapedJoined ==
    ASSUME NEW s \in Texts, NEW t \in Texts, Escaped(s), Escaped(t), EndsPlain(s)
    PROVE  s \o t \in Texts /\ Escaped(s \o t) /\ (EndsPlain(t) => EndsPlain(s \o t))
<1>1. PICK u, m, n : u = s \o t /\ m = Len(s) /\ n = Len(t)
    OBVIOUS
<1>2. Listed(s) /\ Listed(t) /\ m \in Nat /\ n \in Nat /\ DOMAIN s = 1..m /\ DOMAIN t = 1..n
    BY <1>1, TextFacts
<1>3. u \in Texts
    BY <1>1 DEF Texts
<1>4. Listed(u) /\ Len(u) = m + n /\ (\A i \in 1..m : u[i] = s[i]) /\ \A i \in 1..n : u[m + i] = t[i]
    BY <1>1, <1>2, Joining DEF Joins
<1>5. PICK one, next : one = 1 /\ next = m + 1
    OBVIOUS
<1>6. one \in Nat /\ one >= 1 /\ next \in Nat /\ next >= 1
    BY <1>2, <1>5
<1>7. Slashes(u, one) = 0 /\ Slashes(s, one) = 0 /\ Slashes(t, one) = 0
    BY <1>5, <1>6, SlashesStep
<1>8. Alike(u, one, s, one, m)
    BY <1>4, <1>5, <1>6 DEF Alike
<1>9. SameSlashes(u, one, s, one, m)
    BY <1>2, <1>7, <1>8, SlashesAlike
<1>10. Slashes(u, next) = 0
    <2>1. Slashes(u, next) = Slashes(s, next)
        <3>1. m \in 0..m /\ one + m = next
            BY <1>2, <1>5
        <3> QED BY <1>9, <3>1 DEF SameSlashes
    <2>2. CASE m = 0
        BY <1>5, <1>7, <2>1, <2>2
    <2>3. CASE m # 0
        <3>1. m \in Nat /\ m >= 1 /\ s[m] # "\\"
            BY <1>1, <1>2, <2>3 DEF EndsPlain
        <3>2. Slashes(s, m + 1) = 0
            BY <3>1, SlashesStep
        <3> QED BY <1>5, <2>1, <3>2
    <2> QED BY <2>2, <2>3
<1>11. Alike(u, next, t, one, n)
    <2>1. \A j \in 1..n : next + (j - 1) = m + j /\ one + (j - 1) = j
        BY <1>2, <1>5
    <2> QED BY <1>4, <1>6, <2>1 DEF Alike
<1>12. SameSlashes(u, next, t, one, n)
    BY <1>2, <1>7, <1>10, <1>11, SlashesAlike
<1>13. ASSUME NEW i \in 1..m + n, u[i] \in Special PROVE Slashes(u, i) % 2 = 1
    <2>1. CASE i <= m
        <3>1. i \in 1..m /\ i - 1 \in 0..m /\ one + (i - 1) = i
            BY <1>2, <1>5, <2>1
        <3>2. Slashes(u, i) = Slashes(s, i) /\ u[i] = s[i]
            BY <1>4, <1>9, <3>1 DEF SameSlashes
        <3> QED BY <1>2, <1>13, <3>1, <3>2 DEF Escaped
    <2>2. CASE i > m
        <3>1. PICK j : j = i - m
            OBVIOUS
        <3>2. j \in 1..n /\ j - 1 \in 0..n /\ m + j = i /\ next + (j - 1) = i /\ one + (j - 1) = j
            BY <1>2, <1>5, <2>2, <3>1
        <3>3. Slashes(u, i) = Slashes(t, j) /\ u[i] = t[j]
            BY <1>4, <1>12, <3>2 DEF SameSlashes
        <3> QED BY <1>2, <1>13, <3>2, <3>3 DEF Escaped
    <2> QED BY <1>2, <2>1, <2>2
<1>14. DOMAIN u = 1..m + n
    BY <1>4, ListedFacts
<1>15. Escaped(u)
    BY <1>13, <1>14 DEF Escaped
<1>16. EndsPlain(t) => EndsPlain(u)
    <2>1. CASE n = 0
        <3>1. m # 0 => m \in 1..m
            BY <1>2
        <3> QED BY <1>1, <1>2, <1>4, <2>1, <3>1 DEF EndsPlain
    <2>2. CASE n # 0
        <3>1. n \in 1..n
            BY <1>2, <2>2
        <3> QED BY <1>1, <1>2, <1>4, <2>2, <3>1 DEF EndsPlain
    <2> QED BY <2>1, <2>2
<1> QED BY <1>1, <1>3, <1>15, <1>16

LEMMA EscapedAdded ==
    ASSUME NEW s \in Texts, Escaped(s), NEW c \in Characters,
           c \in Special => Slashes(s, Len(s) + 1) % 2 = 1
    PROVE  /\ s \o <<c>> \in Texts /\ Escaped(s \o <<c>>)
           /\ Slashes(s \o <<c>>, Len(s \o <<c>>) + 1) = IF c = "\\" THEN Slashes(s, Len(s) + 1) + 1 ELSE 0
<1>1. PICK u, m : u = s \o <<c>> /\ m = Len(s)
    OBVIOUS
<1>2. Listed(s) /\ m \in Nat /\ DOMAIN s = 1..m /\ Listed(<<c>>) /\ Len(<<c>>) = 1 /\ <<c>>[1] = c
    BY <1>1, TextFacts, OneListed
<1>3. u \in Texts
    <2>1. PICK t : t = <<c>>
        OBVIOUS
    <2>2. t \in Texts
        BY <2>1, OneText
    <2>3. s \o t \in Texts
        BY <2>2 DEF Texts
    <2> QED BY <1>1, <2>1, <2>3
<1>5. PICK one, next : one = 1 /\ next = m + 1
    OBVIOUS
<1>4. Listed(u) /\ Len(u) = next /\ (\A i \in 1..m : u[i] = s[i]) /\ u[next] = c
    <2>1. PICK t : t = <<c>>
        OBVIOUS
    <2>2. Listed(t) /\ Len(t) = one /\ one \in 1..Len(t) /\ t[one] = c
        BY <1>2, <1>5, <2>1
    <2>3. Joins(u, s, t)
        BY <1>1, <1>2, <2>1, <2>2, Joining
    <2> QED BY <1>1, <1>5, <2>2, <2>3 DEF Joins
<1>6. one \in Nat /\ one >= 1 /\ next \in Nat /\ next >= 1
    BY <1>2, <1>5
<1>7. Slashes(u, one) = 0 /\ Slashes(s, one) = 0
    BY <1>5, <1>6, SlashesStep
<1>8. Alike(u, one, s, one, m)
    BY <1>4, <1>5, <1>6 DEF Alike
<1>9. SameSlashes(u, one, s, one, m)
    BY <1>2, <1>7, <1>8, SlashesAlike
<1>10. Slashes(u, next) = Slashes(s, next)
    <2>1. m \in 0..m /\ one + m = next
        BY <1>2, <1>5
    <2> QED BY <1>9, <2>1 DEF SameSlashes
<1>11. ASSUME NEW i \in 1..m + 1, u[i] \in Special PROVE Slashes(u, i) % 2 = 1
    <2>1. CASE i <= m
        <3>1. i \in 1..m /\ i - 1 \in 0..m /\ one + (i - 1) = i
            BY <1>2, <1>5, <2>1
        <3>2. Slashes(u, i) = Slashes(s, i) /\ u[i] = s[i]
            BY <1>4, <1>9, <3>1 DEF SameSlashes
        <3> QED BY <1>2, <1>11, <3>1, <3>2 DEF Escaped
    <2>2. CASE i > m
        <3>1. i = next
            BY <1>2, <1>5, <2>2
        <3>2. c \in Special
            BY <1>4, <1>11, <3>1
        <3> QED BY <1>1, <1>5, <1>10, <3>1, <3>2
    <2> QED BY <1>2, <2>1, <2>2
<1>12. DOMAIN u = 1..m + 1
    BY <1>4, <1>5, ListedFacts
<1>13. Escaped(u)
    BY <1>11, <1>12 DEF Escaped
<1>14. Slashes(u, next + 1) = IF c = "\\" THEN Slashes(s, next) + 1 ELSE 0
    BY <1>4, <1>5, <1>6, <1>10, SlashesStep
<1> QED BY <1>1, <1>3, <1>4, <1>5, <1>13, <1>14

(* EscapeText, a character a step. *)
EscapeStart == [out |-> <<>>, slashes |-> 0]

EscapeStep(x, c) ==
    [out     |-> x.out \o (IF c \in Special /\ x.slashes % 2 = 0 THEN <<"\\", c>> ELSE <<c>>),
     slashes |-> IF c = "\\" THEN x.slashes + 1 ELSE 0]

Escapes(f, s) == f[0] = EscapeStart /\ \A i \in 1..Len(s) : f[i] = EscapeStep(f[i - 1], s[i])

LEMMA Backslash == "\\" \in Characters /\ <<"\\">> \in Texts /\ <<>> \in Texts
<1>1. "\\" \in Characters
    BY DEF Characters
<1>2. <<>> \in Texts
    BY DEF Texts
<1> QED BY <1>1, <1>2, OneText

LEMMA NoSpecial == "\\" \notin Special
BY DEF Special

LEMMA TwoJoined ==
    ASSUME NEW c, NEW d
    PROVE  <<c>> \o <<d>> = <<c, d>>
<1>1. PICK s, t, u, one : s = <<c>> /\ t = <<d>> /\ u = <<c, d>> /\ one = 1
    OBVIOUS
<1>2. Listed(s) /\ Listed(t) /\ Len(s) = one /\ Len(t) = one /\ s[one] = c /\ t[one] = d
    BY <1>1, OneListed
<1>3. u = [i \in 1..2 |-> u[i]] /\ u[1] = c /\ u[2] = d
    BY <1>1
<1>4. Listed(u) /\ Len(u) = 2
    BY <1>3, Listing
<1>5. Joins(s \o t, s, t)
    BY <1>2, Joining
<1>6. Listed(s \o t) /\ Len(s \o t) = 2 /\ (s \o t)[one] = c /\ (s \o t)[one + one] = d
    <2>1. one \in 1..one
        BY <1>1
    <2>2. 1 + 1 = 2
        OBVIOUS
    <2> QED BY <1>1, <1>2, <1>5, <2>1, <2>2 DEF Joins
<1>7. \A i \in 1..2 : (s \o t)[i] = u[i]
    BY <1>1, <1>3, <1>6
<1>8. s \o t = u
    BY <1>4, <1>6, <1>7, SameList
<1> QED BY <1>1, <1>8

LEMMA EscapeStepTyped ==
    ASSUME NEW x \in [out : Texts, slashes : Nat], NEW c \in Characters
    PROVE  EscapeStep(x, c) \in [out : Texts, slashes : Nat]
<1>1. <<"\\", c>> \in Texts /\ <<c>> \in Texts
    BY Backslash, OneText DEF Texts
<1>2. PICK more : more = IF c \in Special /\ x.slashes % 2 = 0 THEN <<"\\", c>> ELSE <<c>>
    OBVIOUS
<1>3. more \in Texts
    BY <1>1, <1>2
<1>4. x.out \o more \in Texts
    BY <1>3 DEF Texts
<1>5. (IF c = "\\" THEN x.slashes + 1 ELSE 0) \in Nat
    OBVIOUS
<1> QED BY <1>2, <1>4, <1>5 DEF EscapeStep

LEMMA EscapeInSteps ==
    ASSUME NEW s \in Texts
    PROVE  \E f : Escapes(f, s) /\ EscapeText(s) = f[Len(s)].out
<1> DEFINE n == Len(s)
           X == [out : Texts, slashes : Nat]
           step == [i \in 1..n |-> [x \in X |-> EscapeStep(x, s[i])]]
           Folds(h) == h = [S \in SUBSET (1..n) |-> IF S = {} THEN EscapeStart
                                                    ELSE EscapeStep(h[S \ {Max(S)}], s[Max(S)])]
           fold == CHOOSE h : Folds(h)
           f == [i \in 0..n |-> fold[1..i]]
<1>1. n \in Nat /\ DOMAIN s = 1..n /\ \A i \in 1..n : s[i] \in Characters
    BY TextFacts
<1>2. EscapeText(s) = fold[1..n].out
    BY <1>1 DEF EscapeText, FoldLeft, MapThenFoldSet, EscapeStart, EscapeStep
<1>3. \A i \in 1..n : \A x \in X : EscapeStep(x, s[i]) \in X
    BY <1>1, EscapeStepTyped
<1>4. step \in Steps(n, X) /\ \A i \in 1..n : \A x \in X : step[i][x] = EscapeStep(x, s[i])
    <2> HIDE DEF X, n
    <2> QED BY <1>3 DEF Steps
<1>5. EscapeStart \in X
    BY Backslash DEF EscapeStart
<1>6. PICK g \in [SUBSET (1..n) -> X] : FoldsUp(g, n, EscapeStart, step)
    <2> HIDE DEF X, n, step
    <2> QED BY <1>1, <1>4, <1>5, FoldDefines
<1> HIDE DEF X, n, step
<1>7. ASSUME NEW S \in SUBSET (1..n)
      PROVE  g[S] = IF S = {} THEN EscapeStart ELSE EscapeStep(g[S \ {Max(S)}], s[Max(S)])
    <2>1. CASE S = {}
        BY <1>6, <2>1 DEF FoldsUp
    <2>2. CASE S # {}
        <3>1. PICK i, R : i = Max(S) /\ R = S \ {i}
            OBVIOUS
        <3>2. i \in 1..n
            BY <1>1, <2>2, <3>1, GreatestOf
        <3>3. g[S] = step[i][g[R]]
            BY <1>6, <2>2, <3>1 DEF FoldsUp
        <3>4. g[R] \in X
            BY <3>1
        <3>5. g[S] = EscapeStep(g[R], s[i])
            BY <1>4, <3>2, <3>3, <3>4
        <3> QED BY <2>2, <3>1, <3>5
    <2> QED BY <2>1, <2>2
<1>8. Folds(g)
    <2>1. g = [S \in SUBSET (1..n) |-> g[S]]
        OBVIOUS
    <2> QED BY <1>7, <2>1
<1>9. Folds(fold)
    <2> HIDE DEF Folds
    <2> QED BY <1>8
<1> HIDE DEF fold
<1>10. \A S \in SUBSET (1..n) : fold[S] = IF S = {} THEN EscapeStart ELSE EscapeStep(fold[S \ {Max(S)}], s[Max(S)])
    BY <1>9
<1> HIDE DEF Folds
<1>11. f[0] = EscapeStart
    <2>1. 1..0 = {} /\ 1..0 \in SUBSET (1..n) /\ 0 \in 0..n
        BY <1>1
    <2>2. fold[1..0] = EscapeStart
        BY <1>10, <2>1
    <2> QED BY <2>1, <2>2
<1>12. ASSUME NEW i \in 1..n PROVE f[i] = EscapeStep(f[i - 1], s[i])
    <2>1. i \in Nat /\ i # 0 /\ i \in 0..n /\ i - 1 \in 0..n /\ 1..i \in SUBSET (1..n)
        BY <1>1
    <2>2. 1..i # {} /\ Max(1..i) = i /\ (1..i) \ {i} = 1..(i - 1)
        BY <2>1, UpToGreatest
    <2>3. fold[1..i] = EscapeStep(fold[1..(i - 1)], s[i])
        BY <1>10, <2>1, <2>2
    <2> QED BY <2>1, <2>3
<1>13. f[n] = fold[1..n]
    BY <1>1
<1> HIDE DEF f
<1>14. Escapes(f, s)
    BY <1>11, <1>12 DEF Escapes, n
<1> QED BY <1>2, <1>13, <1>14 DEF n

(* What has been read so far is escaped, and its last backslashes counted. *)
Counted(x) ==
    /\ x.out \in Texts /\ Escaped(x.out)
    /\ x.slashes = Slashes(x.out, Len(x.out) + 1)

LEMMA EscapeStepCounts ==
    ASSUME NEW x, Counted(x), NEW c \in Characters
    PROVE  Counted(EscapeStep(x, c))
<1>1. PICK s, n : s = x.out /\ n = x.slashes
    OBVIOUS
<1>2. s \in Texts /\ Escaped(s) /\ n = Slashes(s, Len(s) + 1) /\ Len(s) \in Nat /\ Listed(s)
    BY <1>1, TextFacts DEF Counted
<1>3. n \in Nat
    <2>1. PICK m : m = Len(s) + 1
        OBVIOUS
    <2>2. m \in Nat /\ m >= 1
        BY <1>2, <2>1
    <2>3. Slashes(s, m) \in 0..m - 1
        BY <2>2, SlashesStep
    <2> QED BY <1>2, <2>1, <2>2, <2>3
<1>4. CASE c \in Special /\ n % 2 = 0
    <2>1. "\\" \notin Special /\ c # "\\"
        BY <1>4, NoSpecial
    <2>2. PICK t : t = s \o <<"\\">>
        OBVIOUS
    <2>3. t \in Texts /\ Escaped(t) /\ Slashes(t, Len(t) + 1) = n + 1
        BY <1>2, <2>1, <2>2, Backslash, EscapedAdded
    <2>4. (n + 1) % 2 = 1
        BY <1>3, <1>4
    <2>5. PICK u : u = t \o <<c>>
        OBVIOUS
    <2>6. u \in Texts /\ Escaped(u) /\ Slashes(u, Len(u) + 1) = 0
        BY <2>1, <2>3, <2>4, <2>5, EscapedAdded
    <2>7. u = s \o <<"\\", c>>
        <3>1. Associates(s, <<"\\">>, <<c>>)
            BY <1>2, OneListed, JoinAssociates
        <3>2. <<"\\">> \o <<c>> = <<"\\", c>>
            BY TwoJoined
        <3> QED BY <2>2, <2>5, <3>1, <3>2 DEF Associates
    <2>8. EscapeStep(x, c) = [out |-> u, slashes |-> 0]
        BY <1>1, <1>4, <2>1, <2>7 DEF EscapeStep
    <2> QED BY <2>6, <2>8 DEF Counted
<1>5. CASE ~(c \in Special /\ n % 2 = 0)
    <2>1. c \in Special => n % 2 = 1
        BY <1>3, <1>5
    <2>2. PICK u : u = s \o <<c>>
        OBVIOUS
    <2>3. u \in Texts /\ Escaped(u) /\ Slashes(u, Len(u) + 1) = IF c = "\\" THEN n + 1 ELSE 0
        BY <1>2, <2>1, <2>2, EscapedAdded
    <2>4. EscapeStep(x, c) = [out |-> u, slashes |-> IF c = "\\" THEN n + 1 ELSE 0]
        BY <1>1, <1>5, <2>2 DEF EscapeStep
    <2> QED BY <2>3, <2>4 DEF Counted
<1> QED BY <1>4, <1>5

(* escape_conservative_markdown_text, for every text: each special         *)
(* character in what it returns is escaped, whatever backslashes there     *)
(* were.                                                                   *)
THEOREM EscapeEscapes ==
    ASSUME NEW s \in Texts
    PROVE  EscapeText(s) \in Texts /\ Escaped(EscapeText(s))
<1>1. PICK f : Escapes(f, s) /\ EscapeText(s) = f[Len(s)].out
    BY EscapeInSteps
<1>2. PICK n : n = Len(s)
    OBVIOUS
<1>3. n \in Nat /\ \A i \in 1..n : s[i] \in Characters
    BY <1>2, TextFacts
<1>4. Counted(f[n])
    <2> DEFINE Bad == {i \in 0..n : ~ Counted(f[i])}
    <2> SUFFICES ASSUME n \in Bad PROVE FALSE
        BY <1>3
    <2>1. PICK k \in Bad : \A m \in Bad : k <= m
        <3> Bad \in SUBSET Nat
            OBVIOUS
        <3> HIDE DEF Bad
        <3> QED BY LeastNumber
    <2>2. k # 0
        <3>1. EscapeStart.out = <<>> /\ EscapeStart.slashes = 0
            BY DEF EscapeStart
        <3>2. PICK e, one : e = <<>> /\ one = 1
            OBVIOUS
        <3>3. Len(e) = 0 /\ DOMAIN e = {} /\ e \in Texts
            BY <3>2, Backslash
        <3>4. Slashes(e, one) = 0
            BY <3>2, SlashesStep
        <3>5. Escaped(e) /\ Len(e) + 1 = one
            BY <3>2, <3>3 DEF Escaped
        <3>6. Counted(EscapeStart)
            BY <3>1, <3>2, <3>3, <3>4, <3>5 DEF Counted
        <3> QED BY <1>1, <2>1, <3>6 DEF Escapes
    <2>3. k \in 1..n /\ k - 1 \in 0..n /\ ~(k <= k - 1)
        BY <1>3, <2>1, <2>2
    <2>4. Counted(f[k - 1])
        BY <2>1, <2>3
    <2>5. PICK x, c : x = f[k - 1] /\ c = s[k]
        OBVIOUS
    <2>6. f[k] = EscapeStep(x, c) /\ c \in Characters
        BY <1>1, <1>2, <1>3, <2>3, <2>5 DEF Escapes
    <2>7. Counted(f[k])
        BY <2>4, <2>5, <2>6, EscapeStepCounts
    <2> QED BY <2>1, <2>7
<1> QED BY <1>1, <1>2, <1>4 DEF Counted

(* Text that is escaped stays as it is.                                    *)
ReadSoFar(x, s, i) ==
    /\ Listed(x.out) /\ Len(x.out) = i /\ \A j \in 1..i : x.out[j] = s[j]
    /\ x.slashes = Slashes(s, i + 1)

LEMMA EscapeStepReads ==
    ASSUME NEW s \in Texts, Escaped(s), NEW i \in 1..Len(s), NEW x, ReadSoFar(x, s, i - 1)
    PROVE  ReadSoFar(EscapeStep(x, s[i]), s, i)
<1>1. PICK c, t, n : c = s[i] /\ t = x.out /\ n = x.slashes
    OBVIOUS
<1>2. i \in Nat /\ i >= 1 /\ (i - 1) + 1 = i /\ DOMAIN s = 1..Len(s)
    BY TextFacts
<1>3. Listed(t) /\ Len(t) = i - 1 /\ (\A j \in 1..i - 1 : t[j] = s[j]) /\ n = Slashes(s, i)
    BY <1>1, <1>2 DEF ReadSoFar
<1>4. n \in Nat /\ Slashes(s, i + 1) = IF c = "\\" THEN n + 1 ELSE 0
    BY <1>1, <1>2, <1>3, SlashesStep
<1>5. c \in Special => n % 2 = 1
    BY <1>1, <1>2, <1>3 DEF Escaped
<1>6. ~(c \in Special /\ n % 2 = 0)
    BY <1>4, <1>5
<1>7. PICK u, one : u = <<c>> /\ one = 1
    OBVIOUS
<1>8. Listed(u) /\ Len(u) = one /\ one \in 1..Len(u) /\ u[one] = c
    BY <1>7, OneListed
<1>9. PICK v : v = t \o u
    OBVIOUS
<1>10. EscapeStep(x, c) = [out |-> v, slashes |-> IF c = "\\" THEN n + 1 ELSE 0]
    BY <1>1, <1>6, <1>7, <1>9 DEF EscapeStep
<1>11. Joins(v, t, u)
    BY <1>3, <1>8, <1>9, Joining
<1>12. Listed(v) /\ Len(v) = i
    BY <1>2, <1>3, <1>7, <1>8, <1>11 DEF Joins
<1>13. ASSUME NEW j \in 1..i PROVE v[j] = s[j]
    <2>1. CASE j = i
        <3>1. v[Len(t) + one] = c
            BY <1>8, <1>11 DEF Joins
        <3> QED BY <1>1, <1>2, <1>3, <1>7, <2>1, <3>1
    <2>2. CASE j # i
        <3>1. j \in 1..i - 1
            BY <1>2, <2>2
        <3> QED BY <1>3, <1>11, <3>1 DEF Joins
    <2> QED BY <2>1, <2>2
<1> QED BY <1>1, <1>4, <1>10, <1>12, <1>13 DEF ReadSoFar

(* escape_conservative_markdown_text again: a text whose markup is escaped   *)
(* already stays as it is, so that no text is escaped twice.                *)
THEOREM EscapedStays ==
    ASSUME NEW s \in Texts, Escaped(s)
    PROVE  EscapeText(s) = s
<1>1. PICK f : Escapes(f, s) /\ EscapeText(s) = f[Len(s)].out
    BY EscapeInSteps
<1>2. PICK n : n = Len(s)
    OBVIOUS
<1>3. n \in Nat /\ Listed(s)
    BY <1>2, TextFacts
<1>4. ReadSoFar(f[n], s, n)
    <2> DEFINE Bad == {i \in 0..n : ~ ReadSoFar(f[i], s, i)}
    <2> SUFFICES ASSUME n \in Bad PROVE FALSE
        BY <1>3
    <2>1. PICK k \in Bad : \A m \in Bad : k <= m
        <3> Bad \in SUBSET Nat
            OBVIOUS
        <3> HIDE DEF Bad
        <3> QED BY LeastNumber
    <2>2. k # 0
        <3>1. EscapeStart.out = <<>> /\ EscapeStart.slashes = 0 /\ Listed(<<>>) /\ Len(<<>>) = 0
            BY OneListed DEF EscapeStart
        <3>2. PICK one, zero : one = 1 /\ zero = 0
            OBVIOUS
        <3>3. Slashes(s, one) = 0 /\ zero + 1 = one /\ 1..zero = {}
            BY <3>2, SlashesStep
        <3>4. ReadSoFar(EscapeStart, s, zero)
            BY <3>1, <3>2, <3>3 DEF ReadSoFar
        <3> QED BY <1>1, <2>1, <3>2, <3>4 DEF Escapes
    <2>3. k \in 1..n /\ k - 1 \in 0..n /\ ~(k <= k - 1)
        BY <1>3, <2>1, <2>2
    <2>4. ReadSoFar(f[k - 1], s, k - 1)
        BY <2>1, <2>3
    <2>5. PICK x : x = f[k - 1]
        OBVIOUS
    <2>6. f[k] = EscapeStep(x, s[k])
        BY <1>1, <1>2, <2>3, <2>5 DEF Escapes
    <2>7. ReadSoFar(f[k], s, k)
        BY <1>2, <2>3, <2>4, <2>5, <2>6, EscapeStepReads
    <2> QED BY <2>1, <2>7
<1>5. PICK t : t = f[n].out
    OBVIOUS
<1>6. Listed(t) /\ Len(t) = n /\ \A j \in 1..n : t[j] = s[j]
    BY <1>4, <1>5 DEF ReadSoFar
<1>7. t = s
    BY <1>2, <1>3, <1>6, SameList
<1> QED BY <1>1, <1>2, <1>5, <1>7

(* EscapePrefix in parts: the spaces before, the marker after them.        *)
RunOf(s, c, i, most) == Max({n \in 0..most : i + n - 1 <= Len(s) /\ \A k \in i..i + n - 1 : s[k] \in c})

MarkerOf(s, lead) ==
    IF lead = Len(s) THEN 0
    ELSE IF s[lead + 1] = "#" THEN RunOf(s, {"#"}, lead + 1, 6)
    ELSE IF s[lead + 1] \in {"+", "-"} THEN 1 ELSE 0

SlashAt(s, lead) == SubSeq(s, 1, lead) \o <<"\\">> \o SubSeq(s, lead + 1, Len(s))

(* That many spaces, and then something else. *)
Leads(s, lead) ==
    /\ lead \in 0..3 /\ lead <= Len(s) /\ \A k \in 1..lead : s[k] = Space
    /\ \A n \in 0..3 : n <= Len(s) /\ (\A k \in 1..n : s[k] = Space) => n <= lead

LEMMA MarkersPlain ==
    /\ "#" \notin Special /\ "+" \notin Special /\ "-" \notin Special
    /\ "#" # "\\" /\ "+" # "\\" /\ "-" # "\\"
BY DEF Special

LEMMA SpaceApart == "\\" # Space /\ Space \notin Special /\ Space \in Blank
BY DEF Space, Special, Blank

LEMMA LeadOf ==
    ASSUME NEW s, Len(s) \in Nat
    PROVE  /\ Leads(s, RunOf(s, {Space}, 1, 3))
           /\ \A lead : Leads(s, lead) => RunOf(s, {Space}, 1, 3) = lead
<1> DEFINE R == {n \in 0..3 : 1 + n - 1 <= Len(s) /\ \A k \in 1..1 + n - 1 : s[k] \in {Space}}
<1>1. PICK lead : lead = RunOf(s, {Space}, 1, 3)
    OBVIOUS
<1>2. lead = Max(R)
    BY <1>1 DEF RunOf
<1>3. \A n : n \in R <=> n \in 0..3 /\ n <= Len(s) /\ \A k \in 1..n : s[k] = Space
    <2>1. \A n \in 0..3 : 1 + n - 1 = n
        OBVIOUS
    <2> QED BY <2>1
<1>4. R \in SUBSET (0..3) /\ R # {}
    <2>1. 0 \in R
        BY <1>3
    <2> QED BY <2>1
<1>5. PICK three : three = 3
    OBVIOUS
<1> HIDE DEF R
<1>6. lead \in R /\ \A n \in R : n <= lead
    BY <1>2, <1>4, <1>5, GreatestUpTo
<1>7. Leads(s, lead)
    BY <1>3, <1>6 DEF Leads
<1>8. ASSUME NEW other, Leads(s, other) PROVE lead = other
    <2>1. other \in R /\ \A n \in R : n <= other
        BY <1>3, <1>8 DEF Leads
    <2>2. other <= lead /\ lead <= other /\ other \in 0..3 /\ lead \in 0..3
        BY <1>4, <1>6, <2>1
    <2> QED BY <2>2
<1> QED BY <1>1, <1>7, <1>8

LEMMA EscapePrefixBy ==
    ASSUME NEW s, NEW lead, lead = RunOf(s, {Space}, 1, 3)
    PROVE  EscapePrefix(s) = IF /\ MarkerOf(s, lead) > 0 /\ lead + MarkerOf(s, lead) < Len(s)
                                /\ s[lead + MarkerOf(s, lead) + 1] = Space
                             THEN SlashAt(s, lead) ELSE s
BY Zenon DEF EscapePrefix, RunOf, MarkerOf, SlashAt, Space

(* Where a marker begins. *)
LEMMA MarkerThere ==
    ASSUME NEW s, Len(s) \in Nat, NEW lead, Leads(s, lead), MarkerOf(s, lead) > 0
    PROVE  lead < Len(s) /\ s[lead + 1] \in {"#", "+", "-"}
<1>1. lead \in Nat /\ lead <= Len(s)
    BY DEF Leads
<1>2. lead # Len(s)
    BY DEF MarkerOf
<1>3. s[lead + 1] \in {"#", "+", "-"}
    BY <1>2 DEF MarkerOf
<1> QED BY <1>1, <1>2, <1>3

LEMMA SlashAtEscapes ==
    ASSUME NEW s \in Texts, Escaped(s), NEW lead, Leads(s, lead),
           lead < Len(s), s[lead + 1] \in {"#", "+", "-"}
    PROVE  LET r == SlashAt(s, lead)
           IN  r \in Texts /\ Escaped(r) /\ Leads(r, lead) /\ lead < Len(r) /\ r[lead + 1] = "\\"
<1>1. PICK m, next, n : m = s[lead + 1] /\ next = lead + 1 /\ n = Len(s)
    OBVIOUS
<1>2. m \notin Special /\ m # "\\" /\ "\\" # Space
    <2>1. m = "#" \/ m = "+" \/ m = "-"
        BY <1>1
    <2> QED BY <2>1, MarkersPlain, SpaceApart
<1>3. /\ Listed(s) /\ n \in Nat /\ lead \in Nat /\ next \in 1..n /\ next \in Nat /\ next >= 1
      /\ m \in Characters /\ lead <= 3
    BY <1>1, TextFacts DEF Leads
<1>4. PICK a, b, c : a = SubSeq(s, 1, lead) /\ b = SubSeq(s, next, n) /\ c = SubSeq(s, next + 1, n)
    OBVIOUS
<1>5. PICK one : one = 1
    OBVIOUS
<1>6. a \in Texts /\ Escaped(a)
    <2>1. one \in 1..Len(s) + 1 /\ lead \in (one - 1)..Len(s) /\ a = SubSeq(s, one, lead)
        BY <1>1, <1>3, <1>4, <1>5
    <2> QED BY <1>5, <2>1, EscapedPart
<1>7. c \in Texts /\ Escaped(c)
    <2>1. PICK k : k = next + 1
        OBVIOUS
    <2>2. k \in 1..Len(s) + 1 /\ n \in (k - 1)..Len(s) /\ s[k - 1] # "\\" /\ c = SubSeq(s, k, n)
        BY <1>1, <1>2, <1>3, <1>4, <2>1
    <2> QED BY <2>2, EscapedPart
<1>8. PICK slash, mark : slash = <<"\\">> /\ mark = <<m>>
    OBVIOUS
<1>9. /\ slash \in Texts /\ mark \in Texts /\ Listed(slash) /\ Listed(mark) /\ Len(slash) = one /\ Len(mark) = one
      /\ slash[one] = "\\" /\ mark[one] = m
    BY <1>3, <1>5, <1>8, Backslash, OneText, OneListed
<1>10. PICK d, e : d = a \o slash /\ e = d \o mark
    OBVIOUS
<1>11. d \in Texts /\ Escaped(d)
    BY <1>6, <1>8, <1>10, Backslash, NoSpecial, EscapedAdded
<1>12. e \in Texts /\ Escaped(e)
    BY <1>2, <1>3, <1>8, <1>10, <1>11, EscapedAdded
<1>13. Joins(d, a, slash) /\ Joins(e, d, mark) /\ Listed(a) /\ Listed(c) /\ Listed(d) /\ Listed(e)
    BY <1>6, <1>7, <1>9, <1>10, <1>11, <1>12, TextFacts, Joining
<1>14. one \in 1..one
    BY <1>5
<1>15. EndsPlain(e)
    <2>1. Len(e) = Len(d) + one /\ e[Len(d) + one] = m
        BY <1>9, <1>13, <1>14 DEF Joins
    <2> QED BY <1>2, <2>1 DEF EndsPlain
<1>16. PICK r : r = e \o c
    OBVIOUS
<1>17. r \in Texts /\ Escaped(r)
    BY <1>7, <1>12, <1>15, <1>16, EscapedJoined
<1>18. b = mark \o c
    <2>1. Part(b, s, next, n)
        BY SMTT(30), <1>1, <1>3, <1>4, Cutting
    <2>2. Part(c, s, next + 1, n)
        <3>1. PICK k : k = next + 1
            OBVIOUS
        <3>2. k \in 1..Len(s) + 1 /\ n \in (k - 1)..Len(s) /\ c = SubSeq(s, k, n)
            BY <1>1, <1>3, <1>4, <3>1
        <3>3. Part(c, s, k, n)
            BY <1>3, <3>2, Cutting
        <3> QED BY <3>1, <3>3
    <2>3. PICK q : q = mark \o c
        OBVIOUS
    <2>4. Joins(q, mark, c)
        BY <1>9, <1>13, <2>3, Joining
    <2>5. Listed(b) /\ Listed(q) /\ Len(b) = n - lead /\ Len(c) = n - lead - 1 /\ Len(q) = Len(b)
        BY <1>1, <1>3, <1>5, <1>9, <2>1, <2>2, <2>4 DEF Part, Joins
    <2>6. ASSUME NEW i \in 1..Len(b) PROVE b[i] = q[i]
        <3>1. b[i] = s[next + i - 1]
            BY <1>1, <1>3, <2>1, <2>5 DEF Part
        <3>2. CASE i = one
            <4>1. next + i - 1 = next
                BY <1>3, <1>5, <3>2
            <4>2. q[i] = m
                BY <1>9, <1>14, <2>4, <3>2 DEF Joins
            <4> QED BY <1>1, <3>1, <4>1, <4>2
        <3>3. CASE i # one
            <4>1. PICK k : k = i - 1
                OBVIOUS
            <4>2. k \in 1..Len(c) /\ i = one + k /\ next + i - 1 = (next + 1) + k - 1 /\ k \in 1..n - (next + 1) + 1
                BY <1>1, <1>3, <1>5, <2>5, <3>3, <4>1
            <4>3. q[i] = c[k]
                BY <1>9, <2>4, <4>2 DEF Joins
            <4>4. c[k] = s[(next + 1) + k - 1]
                BY <2>2, <4>2 DEF Part
            <4> QED BY <3>1, <4>2, <4>3, <4>4
        <3> QED BY <3>2, <3>3
    <2> QED BY <2>3, <2>5, <2>6, SameList
<1>19. r = SlashAt(s, lead)
    <2>1. Associates(d, mark, c)
        BY <1>9, <1>13, JoinAssociates
    <2>2. r = d \o b
        BY <1>10, <1>16, <1>18, <2>1 DEF Associates
    <2> QED BY <1>1, <1>4, <1>8, <1>10, <2>2 DEF SlashAt
<1>20. Len(a) = lead /\ \A k \in 1..lead : a[k] = Space
    <2>1. one \in 1..Len(s) + 1 /\ lead \in (one - 1)..Len(s) /\ a = SubSeq(s, one, lead)
        BY <1>1, <1>3, <1>4, <1>5
    <2>2. Part(a, s, one, lead)
        BY <1>3, <2>1, Cutting
    <2>3. lead - one + 1 = lead /\ \A k \in 1..lead : one + k - 1 = k
        BY <1>3, <1>5
    <2> QED BY <2>2, <2>3 DEF Part, Leads
<1>21. Joins(r, e, c)
    BY <1>13, <1>16, Joining
<1>22. Len(e) = lead + 2 /\ Len(c) \in Nat /\ Len(r) = Len(e) + Len(c) /\ Len(d) = next
    <2>1. Len(d) = next
        BY <1>1, <1>5, <1>9, <1>13, <1>20 DEF Joins
    <2>2. Len(e) = Len(d) + one
        BY <1>9, <1>13 DEF Joins
    <2>3. Len(e) = lead + 2
        BY <1>1, <1>3, <1>5, <2>1, <2>2
    <2>4. Len(c) \in Nat
        BY <1>7, TextFacts
    <2> QED BY <1>21, <2>1, <2>3, <2>4 DEF Joins
<1>23. r[next] = "\\"
    <2>1. d[next] = "\\"
        BY <1>1, <1>5, <1>9, <1>13, <1>14, <1>20 DEF Joins
    <2>2. next \in 1..Len(d) /\ next \in 1..Len(e)
        BY <1>1, <1>3, <1>22
    <2> QED BY <1>13, <1>21, <2>1, <2>2 DEF Joins
<1>24. ASSUME NEW k \in 1..lead PROVE r[k] = Space
    <2>1. k \in 1..Len(a) /\ k \in 1..Len(d) /\ k \in 1..Len(e)
        BY <1>1, <1>3, <1>20, <1>22
    <2> QED BY <1>13, <1>20, <1>21, <2>1 DEF Joins
<1>25. Len(r) \in Nat /\ lead < Len(r)
    BY <1>3, <1>22
<1>26. ASSUME NEW k \in 0..3, \A j \in 1..k : r[j] = Space PROVE k <= lead
    <2>1. ~(next \in 1..k)
        BY <1>2, <1>23, <1>26
    <2> QED BY <1>1, <1>3, <2>1
<1>27. Leads(r, lead)
    BY <1>3, <1>24, <1>25, <1>26 DEF Leads
<1> QED BY <1>1, <1>17, <1>19, <1>23, <1>25, <1>27

(* escape_text_block_markdown_prefix, for every text: what it escapes      *)
(* stays escaped, and what it returns it returns again.                    *)
THEOREM PrefixEscaped ==
    ASSUME NEW s \in Texts, Escaped(s)
    PROVE  LET t == EscapePrefix(s) IN t \in Texts /\ Escaped(t) /\ EscapePrefix(t) = t
<1>1. PICK lead : lead = RunOf(s, {Space}, 1, 3)
    OBVIOUS
<1>2. Len(s) \in Nat /\ Leads(s, lead)
    BY <1>1, LeadOf, TextFacts
<1>3. CASE EscapePrefix(s) = s
    BY <1>3
<1>4. CASE EscapePrefix(s) # s
    <2>1. EscapePrefix(s) = SlashAt(s, lead) /\ MarkerOf(s, lead) > 0
        BY <1>1, <1>4, EscapePrefixBy
    <2>2. PICK r : r = SlashAt(s, lead)
        OBVIOUS
    <2>3. r \in Texts /\ Escaped(r) /\ Leads(r, lead) /\ lead < Len(r) /\ r[lead + 1] = "\\"
        <3>1. lead < Len(s) /\ s[lead + 1] \in {"#", "+", "-"}
            BY <1>2, <2>1, MarkerThere
        <3> QED BY <1>2, <2>2, <3>1, SlashAtEscapes
    <2>4. RunOf(r, {Space}, 1, 3) = lead
        BY <2>3, LeadOf, TextFacts
    <2>5. MarkerOf(r, lead) = 0
        <3>1. lead # Len(r) /\ r[lead + 1] # "#" /\ r[lead + 1] \notin {"+", "-"}
            <4>1. lead \in Nat /\ Len(r) \in Nat
                BY <2>3, TextFacts DEF Leads
            <4> QED BY <2>3, <4>1
        <3> QED BY <3>1 DEF MarkerOf
    <2>6. ~(MarkerOf(r, lead) > 0)
        BY <2>5
    <2>7. EscapePrefix(r) = r
        BY <2>4, <2>6, EscapePrefixBy
    <2> QED BY <2>1, <2>2, <2>3, <2>7
<1> QED BY <1>3, <1>4

-----------------------------------------------------------------------------
(* Trimming: what is cut off ends before a character that is no backslash. *)
LEMMA NothingEscaped == <<>> \in Texts /\ Escaped(<<>>) /\ EndsPlain(<<>>)
<1>1. DOMAIN <<>> = {} /\ Len(<<>>) = 0
    OBVIOUS
<1> QED BY <1>1, Backslash DEF Escaped, EndsPlain

LEMMA DroppedEscaped ==
    ASSUME NEW s \in Texts, Escaped(s), NEW drop, "\\" \notin drop
    PROVE  DropWhile(s, drop) \in Texts /\ Escaped(DropWhile(s, drop))
<1>1. Listed(s) /\ Len(s) \in Nat /\ DOMAIN s = 1..Len(s)
    BY TextFacts
<1>2. PICK kept : kept = {i \in DOMAIN s : s[i] \notin drop}
    OBVIOUS
<1>3. PICK a : a = CHOOSE i \in kept : \A j \in kept : i <= j
    OBVIOUS
<1>4. DropWhile(s, drop) = IF kept = {} THEN <<>> ELSE SubSeq(s, a, Len(s))
    BY <1>2, <1>3 DEF DropWhile
<1>5. CASE kept = {}
    BY <1>4, <1>5, NothingEscaped
<1>6. CASE kept # {}
    <2>1. kept \in SUBSET Nat
        BY <1>1, <1>2
    <2>2. a \in kept /\ \A j \in kept : a <= j
        BY <1>3, <1>6, <2>1, LeastNumber
    <2>3. a \in 1..Len(s) + 1 /\ Len(s) \in (a - 1)..Len(s)
        BY <1>1, <1>2, <2>2
    <2>4. a = 1 \/ s[a - 1] # "\\"
        <3>1. CASE a # 1
            <4>1. PICK c : c = a - 1
                OBVIOUS
            <4>2. c \in DOMAIN s /\ ~(a <= c)
                BY <1>1, <2>3, <3>1, <4>1
            <4>3. s[c] \in drop
                BY <1>2, <2>2, <4>2
            <4> QED BY <4>1, <4>3
        <3> QED BY <3>1
    <2> QED BY <1>4, <1>6, <2>3, <2>4, EscapedPart
<1> QED BY <1>5, <1>6

LEMMA ReversedText ==
    ASSUME NEW s \in Texts
    PROVE  /\ Reverse(s) \in Texts /\ Len(Reverse(s)) = Len(s)
           /\ \A i \in 1..Len(s) : Reverse(s)[i] = s[Len(s) - i + 1]
<1>1. Len(s) \in Nat /\ \A i \in 1..Len(s) : s[i] \in Characters
    BY TextFacts
<1>2. \A i \in 1..Len(s) : s[(Len(s) - i) + 1] \in Characters
    BY <1>1
<1> QED BY <1>1, <1>2 DEF Reverse, Texts

LEMMA DroppedEnd ==
    ASSUME NEW s \in Texts, Escaped(s), NEW drop
    PROVE  DropEndWhile(s, drop) \in Texts /\ Escaped(DropEndWhile(s, drop))
<1>1. PICK n, r : n = Len(s) /\ r = Reverse(s)
    OBVIOUS
<1>2. Listed(s) /\ n \in Nat /\ DOMAIN s = 1..n
    BY <1>1, TextFacts
<1>3. r \in Texts /\ Len(r) = n /\ (\A i \in 1..n : r[i] = s[n - i + 1]) /\ DOMAIN r = 1..n /\ Listed(r)
    BY <1>1, ReversedText, TextFacts
<1>4. PICK kept : kept = {i \in DOMAIN r : r[i] \notin drop}
    OBVIOUS
<1>5. PICK a : a = CHOOSE i \in kept : \A j \in kept : i <= j
    OBVIOUS
<1>6. DropWhile(r, drop) = IF kept = {} THEN <<>> ELSE SubSeq(r, a, n)
    BY <1>3, <1>4, <1>5 DEF DropWhile
<1>7. DropEndWhile(s, drop) = Reverse(DropWhile(r, drop))
    BY <1>1 DEF DropEndWhile
<1>8. CASE kept = {}
    <2>1. PICK e : e = <<>>
        OBVIOUS
    <2>2. e \in Texts /\ Len(e) = 0 /\ Listed(e)
        BY <2>1, Backslash, OneListed
    <2>3. Reverse(e) \in Texts /\ Len(Reverse(e)) = 0
        BY <2>2, ReversedText
    <2>4. Reverse(e) = <<>>
        BY <2>3, TextFacts
    <2> QED BY <1>6, <1>7, <1>8, <2>1, <2>4, NothingEscaped
<1>9. CASE kept # {}
    <2>1. kept \in SUBSET Nat
        BY <1>3, <1>4
    <2>2. a \in kept
        BY <1>5, <1>9, <2>1, LeastNumber
    <2>3. a \in 1..n
        BY <1>3, <1>4, <2>2
    <2>4. PICK p, q, one, upto : p = SubSeq(r, a, n) /\ q = Reverse(p) /\ one = 1 /\ upto = n - a + 1
        OBVIOUS
    <2>5. Part(p, r, a, n)
        <3>1. a \in 1..Len(r) + 1 /\ n \in (a - 1)..Len(r)
            BY <1>2, <1>3, <2>3
        <3> QED BY <1>3, <2>4, <3>1, Cutting
    <2>6. p \in Texts
        <3>1. a \in Int /\ n \in Int /\ \A i \in a..n : r[i] \in Characters
            BY <1>2, <1>3, <2>3, TextFacts
        <3> QED BY <1>3, <2>4, <3>1, SubSeqProperties DEF Texts
    <2>7. upto \in 1..n /\ Len(p) = upto
        BY <1>2, <2>3, <2>4, <2>5 DEF Part
    <2>8. Listed(q) /\ Len(q) = upto /\ \A i \in 1..upto : q[i] = p[upto - i + 1]
        <3>1. q \in Texts /\ Len(q) = Len(p) /\ \A i \in 1..Len(p) : q[i] = p[Len(p) - i + 1]
            BY <2>4, <2>6, ReversedText
        <3> QED BY <2>7, <3>1, TextFacts
    <2>9. PICK t : t = SubSeq(s, one, upto)
        OBVIOUS
    <2>10. one \in 1..Len(s) + 1 /\ upto \in (one - 1)..Len(s)
        BY <1>1, <1>2, <2>4, <2>7
    <2>11. Part(t, s, one, upto) /\ upto - one + 1 = upto
        BY <1>2, <2>4, <2>7, <2>9, <2>10, Cutting
    <2>12. ASSUME NEW i \in 1..upto PROVE t[i] = q[i]
        <3>1. t[i] = s[i]
            <4>1. one + i - 1 = i
                BY <2>4
            <4> QED BY <2>11, <4>1 DEF Part
        <3>2. PICK j, k : j = upto - i + 1 /\ k = a + j - 1
            OBVIOUS
        <3>3. j \in 1..n - a + 1 /\ k \in 1..n /\ n - k + 1 = i
            BY <1>2, <2>3, <2>4, <2>7, <3>2
        <3>4. p[j] = r[k] /\ r[k] = s[n - k + 1]
            BY <1>3, <2>5, <3>2, <3>3 DEF Part
        <3> QED BY <2>8, <3>1, <3>2, <3>3, <3>4
    <2>13. t = q
        BY <2>8, <2>11, <2>12, SameList DEF Part
    <2>14. t \in Texts /\ Escaped(t)
        BY <2>4, <2>9, <2>10, EscapedPart
    <2> QED BY <1>6, <1>7, <1>9, <2>4, <2>13, <2>14
<1> QED BY <1>8, <1>9

LEMMA TrimmedEscaped ==
    ASSUME NEW s \in Texts, Escaped(s)
    PROVE  Trim(s) \in Texts /\ Escaped(Trim(s))
<1>1. "\\" \notin Blank
    BY DEF Blank
<1>2. PICK t : t = DropWhile(s, Blank)
    OBVIOUS
<1>3. t \in Texts /\ Escaped(t)
    BY <1>1, <1>2, DroppedEscaped
<1> QED BY <1>2, <1>3, DroppedEnd DEF Trim

-----------------------------------------------------------------------------
(* merge_para_with_text for a line of text.                                *)
LEMMA FlattenSingle ==
    ASSUME NEW s, Listed(s), NEW parts, Listed(parts), Len(parts) = 1, parts[1] = s
    PROVE  FlattenSeq(parts) = s
<1>1. PICK one, zero : one = 1 /\ zero = 0
    OBVIOUS
<1>2. ListedParts(parts)
    BY DEF ListedParts
<1>3. PICK f : FlatBy(f, parts, FlattenSeq(parts))
    BY <1>2, FlattenBy
<1>4. f[zero] = <<>> /\ f[one] = f[zero] \o parts[one]
    <2>1. one \in 1..Len(parts) /\ one - 1 = zero
        BY <1>1
    <2> QED BY <1>1, <1>3, <2>1 DEF FlatBy, JoinsUp
<1>5. FlattenSeq(parts) = f[one]
    BY <1>1, <1>3 DEF FlatBy
<1> QED BY <1>1, <1>4, <1>5, NothingJoined

CjkIn(lines) ==
    LET texts == SelectSeq(Spans(lines), LAMBDA s : s.type = "text")
    IN  \E i \in DOMAIN texts : IsCjkContext(texts[i].content)

ContentOf(type, s) ==
    Trim(CASE s.type = "text" -> IF type = "code_body" THEN s.content ELSE EscapeText(s.content)
           [] s.type = "inline_equation"    -> <<"$">> \o s.content \o <<"$">>
           [] s.type = "interline_equation" -> <<"$$", "nl">> \o s.content \o <<"nl", "$$">>
           [] OTHER -> <<>>)

Rendered(type, lines, l, k) ==
    LET s == lines[l][k]
        c == ContentOf(type, s)
    IN  CASE c = <<>> -> <<>>
          [] c # <<>> /\ s.type = "interline_equation" -> c
          [] c # <<>> /\ s.type = "inline_equation"    -> Append(c, " ")
          [] c # <<>> /\ s.type = "text" -> Joined(c, lines, l, k = Len(lines[l]), CjkIn(lines))

LEMMA MergedBy ==
    ASSUME NEW type, NEW lines, type = "text"
    PROVE  MergeParaWithText(type, lines, TRUE) =
               EscapePrefix(FlattenSeq([l \in DOMAIN lines |-> FlattenSeq([k \in DOMAIN lines[l] |->
                   Rendered(type, lines, l, k)])]))
BY Zenon DEF MergeParaWithText, EachSpan, Rendered, ContentOf, CjkIn

(* A piece of the only line is followed by a space, but for the last one.  *)
LEMMA JoinedEither ==
    ASSUME NEW c, NEW lines, NEW l, NEW last, last \in BOOLEAN, NEW cjk, cjk \in BOOLEAN, ~ GoesOn(lines, l)
    PROVE  \/ Joined(c, lines, l, last, cjk) = Append(c, Space)
           \/ last /\ Joined(c, lines, l, last, cjk) = c
<1>1. CASE cjk
    BY <1>1, Zenon DEF Joined, Space
<1>2. CASE ~cjk /\ last /\ Last(c) = "-"
    BY <1>2, Zenon DEF Joined, Space
<1>3. CASE ~cjk /\ ~(last /\ Last(c) = "-")
    BY <1>3, Zenon DEF Joined, Space
<1> QED BY <1>1, <1>2, <1>3

LEMMA RenderedText ==
    ASSUME NEW lines, NEW type, type = "text", NEW l, NEW k, ~ GoesOn(lines, l),
           lines[l][k].type = "text", lines[l][k].content \in Texts
    PROVE  LET p == Rendered(type, lines, l, k)
           IN  p \in Texts /\ Escaped(p) /\ (k # Len(lines[l]) => EndsPlain(p))
<1>1. PICK s, c, p : s = lines[l][k] /\ c = ContentOf(type, s) /\ p = Rendered(type, lines, l, k)
    OBVIOUS
<1>2. c = Trim(EscapeText(s.content))
    BY <1>1, Zenon DEF ContentOf
<1>3. c \in Texts /\ Escaped(c)
    BY <1>1, <1>2, EscapeEscapes, TrimmedEscaped
<1>4. CASE c = <<>>
    <2>1. p = <<>>
        BY <1>1, <1>4, Zenon DEF Rendered
    <2> QED BY <1>1, <2>1, NothingEscaped
<1>5. CASE c # <<>>
    <2>1. p = Joined(c, lines, l, k = Len(lines[l]), CjkIn(lines))
        BY <1>1, <1>5, Zenon DEF Rendered
    <2>2. PICK last, cjk : last = (k = Len(lines[l])) /\ cjk = CjkIn(lines)
        OBVIOUS
    <2>3. last \in BOOLEAN /\ cjk \in BOOLEAN /\ p = Joined(c, lines, l, last, cjk)
        BY <2>1, <2>2, Zenon DEF CjkIn
    <2>4. p = Append(c, Space) \/ (last /\ p = c)
        BY SMTT(30), <2>3, JoinedEither
    <2>5. CASE p = Append(c, Space)
        <3>1. Listed(c) /\ Space \in Characters
            BY <1>3, TextFacts DEF Characters
        <3>2. p = c \o <<Space>>
            BY <2>5, <3>1, Appending
        <3>3. p \in Texts /\ Escaped(p)
            BY <1>3, <3>1, <3>2, SpaceApart, EscapedAdded
        <3>4. EndsPlain(p)
            <4>1. PICK u, one : u = <<Space>> /\ one = 1
                OBVIOUS
            <4>2. Listed(u) /\ Len(u) = one /\ u[one] = Space /\ one \in 1..Len(u)
                BY <4>1, OneListed
            <4>3. Joins(p, c, u)
                BY <3>1, <3>2, <4>1, <4>2, Joining
            <4> QED BY <4>2, <4>3, SpaceApart DEF Joins, EndsPlain
        <3> QED BY <1>1, <3>3, <3>4
    <2> QED BY <1>1, <1>3, <2>2, <2>4, <2>5
<1> QED BY <1>4, <1>5

(* Lines whose texts can be read. *)
Worded(lines) ==
    /\ Listed(lines)
    /\ \A l \in 1..Len(lines) : /\ Listed(lines[l])
                                /\ \A k \in 1..Len(lines[l]) :
                                      lines[l][k].type = "text" => lines[l][k].content \in Texts

(* Escaped pieces joined, each but the last without a backslash at its end. *)
Pieces(parts) ==
    /\ Listed(parts)
    /\ \A k \in 1..Len(parts) : /\ parts[k] \in Texts /\ Escaped(parts[k])
                                /\ k # Len(parts) => EndsPlain(parts[k])

LEMMA PiecesEscaped ==
    ASSUME NEW parts, Pieces(parts)
    PROVE  FlattenSeq(parts) \in Texts /\ Escaped(FlattenSeq(parts))
<1>1. ListedParts(parts)
    BY TextFacts DEF Pieces, ListedParts
<1>2. PICK n : n = Len(parts)
    OBVIOUS
<1>3. n \in Nat
    BY <1>2, ListedFacts DEF Pieces
<1>4. PICK f : FlatBy(f, parts, FlattenSeq(parts))
    BY <1>1, FlattenBy
<1> DEFINE Good(i) == f[i] \in Texts /\ Escaped(f[i]) /\ (i # n => EndsPlain(f[i]))
<1>5. Good(n)
    <2> DEFINE Bad == {i \in 0..n : ~ Good(i)}
    <2> SUFFICES ASSUME n \in Bad PROVE FALSE
        BY <1>3
    <2>1. PICK k \in Bad : \A m \in Bad : k <= m
        <3> Bad \in SUBSET Nat
            OBVIOUS
        <3> HIDE DEF Bad
        <3> QED BY LeastNumber
    <2>2. k # 0
        <3>1. Good(0)
            BY <1>4, NothingEscaped DEF FlatBy, JoinsUp
        <3> HIDE DEF Good
        <3> QED BY <2>1, <3>1
    <2>3. k \in 1..n /\ k - 1 \in 0..n /\ ~(k <= k - 1) /\ k - 1 # n
        BY <1>3, <2>1, <2>2
    <2>4. Good(k - 1)
        <3> HIDE DEF Good
        <3> QED BY <2>1, <2>3
    <2>5. PICK s, t : s = f[k - 1] /\ t = parts[k]
        OBVIOUS
    <2>6. f[k] = s \o t
        BY <1>2, <1>4, <2>3, <2>5 DEF FlatBy, JoinsUp
    <2>7. s \in Texts /\ Escaped(s) /\ EndsPlain(s)
        BY <2>3, <2>4, <2>5
    <2>8. t \in Texts /\ Escaped(t) /\ (k # n => EndsPlain(t))
        BY <1>2, <2>3, <2>5 DEF Pieces
    <2>9. Good(k)
        BY <2>6, <2>7, <2>8, EscapedJoined
    <2> HIDE DEF Good
    <2> QED BY <2>1, <2>9
<1> QED BY <1>2, <1>4, <1>5 DEF FlatBy

LEMMA LineSafe ==
    ASSUME NEW lines, Worded(lines), Len(lines) = 1, NEW type, type = "text",
           \A k \in 1..Len(lines[1]) : lines[1][k].type = "text"
    PROVE  LET t == MergeParaWithText(type, lines, TRUE)
           IN  Escaped(t) /\ EscapeText(t) = t /\ EscapePrefix(t) = t
<1>1. PICK one : one = 1
    OBVIOUS
<1>2. PICK n, line : n = Len(lines[one]) /\ line = lines[one]
    OBVIOUS
<1>3. Listed(lines) /\ DOMAIN lines = 1..one /\ one \in 1..one /\ Listed(line) /\ DOMAIN line = 1..n /\ n \in Nat
    BY <1>1, <1>2, ListedFacts DEF Worded
<1>4. PICK parts : parts = [k \in DOMAIN line |-> Rendered(type, lines, one, k)]
    OBVIOUS
<1>5. Listed(parts) /\ Len(parts) = n
    <2>1. parts = [k \in 1..n |-> parts[k]]
        BY <1>3, <1>4
    <2> QED BY <1>3, <2>1, Listing
<1>6. ~ GoesOn(lines, one)
    BY <1>1 DEF GoesOn
<1>7. ASSUME NEW k \in 1..n
      PROVE  parts[k] \in Texts /\ Escaped(parts[k]) /\ (k # n => EndsPlain(parts[k]))
    <2>1. lines[one][k].type = "text" /\ lines[one][k].content \in Texts
        BY <1>1, <1>2 DEF Worded
    <2>2. parts[k] = Rendered(type, lines, one, k)
        BY <1>3, <1>4
    <2> QED BY <1>2, <1>6, <2>1, <2>2, RenderedText
<1>8. Pieces(parts)
    BY <1>5, <1>7 DEF Pieces
<1>9. PICK whole : whole = FlattenSeq(parts)
    OBVIOUS
<1>10. whole \in Texts /\ Escaped(whole)
    BY <1>8, <1>9, PiecesEscaped
<1>11. PICK wholes : wholes = [l \in DOMAIN lines |-> FlattenSeq([k \in DOMAIN lines[l] |->
                                   Rendered(type, lines, l, k)])]
    OBVIOUS
<1>12. Listed(wholes) /\ Len(wholes) = 1 /\ wholes[1] = whole
    <2>1. wholes = [l \in 1..1 |-> wholes[l]]
        BY <1>1, <1>3, <1>11
    <2>2. Listed(wholes) /\ Len(wholes) = 1
        BY <2>1, Listing
    <2>3. wholes[one] = whole
        BY <1>2, <1>3, <1>4, <1>9, <1>11
    <2> QED BY <1>1, <2>2, <2>3
<1>13. FlattenSeq(wholes) = whole
    <2>1. Listed(whole)
        BY <1>10, TextFacts
    <2> QED BY <1>12, <2>1, FlattenSingle
<1>14. PICK t : t = MergeParaWithText(type, lines, TRUE)
    OBVIOUS
<1>15. t = EscapePrefix(whole)
    BY <1>11, <1>13, <1>14, MergedBy
<1>16. t \in Texts /\ Escaped(t) /\ EscapePrefix(t) = t
    BY <1>10, <1>15, PrefixEscaped
<1> QED BY <1>14, <1>16, EscapedStays

-----------------------------------------------------------------------------
(* Texts that stay readable on the way to their spans.                     *)
LEMMA CutText ==
    ASSUME NEW s \in Texts, NEW a \in Int, NEW b \in Int, a >= 1, b <= Len(s)
    PROVE  SubSeq(s, a, b) \in Texts
<1>1. \A i \in a..b : s[i] \in Characters
    BY TextFacts
<1> QED BY <1>1, SubSeqProperties DEF Texts

LEMMA ReplacedText ==
    ASSUME NEW s \in Texts, NEW old, Len(old) = 1, NEW new \in Texts
    PROVE  Replace(s, old, new) \in Texts
<1>1. PICK m, n : m = Len(s) /\ n = m + 1
    OBVIOUS
<1>2. m \in Nat /\ n \in Nat /\ 1 \in 1..n
    BY <1>1, TextFacts
<1> DEFINE Here(i) == i + Len(old) - 1 <= m /\ SubSeq(s, i, i + Len(old) - 1) = old
           read(i) == IF i > m THEN <<>> ELSE IF Here(i) THEN new ELSE <<s[i]>>
           body(f, i) == IF i > m THEN <<>>
                         ELSE IF Here(i) THEN new \o f[i + Len(old)]
                         ELSE <<s[i]>> \o f[i + 1]
           whole == CHOOSE f : f = [i \in 1..n |-> body(f, i)]
<1>3. Replace(s, old, new) = whole[1]
    BY <1>1, Zenon DEF Replace
<1>4. PICK give, next, last : /\ give = [i \in 1..n |-> read(i)] /\ last = [i \in 1..n |-> <<>>]
                              /\ next = [i \in 1..n |-> IF i > m THEN 0 ELSE i + 1]
    OBVIOUS
<1>5. ASSUME NEW i \in 1..n PROVE read(i) \in Texts
    <2>1. CASE i > m
        BY <2>1, Backslash
    <2>2. CASE ~ (i > m)
        <3>1. s[i] \in Characters
            BY <1>1, <1>2, <2>2, TextFacts
        <3>2. <<s[i]>> \in Texts
            BY <3>1, OneText
        <3> HIDE DEF Here
        <3> QED BY <2>2, <3>2
    <2> QED BY <2>1, <2>2
<1>6. give \in [1..n -> Seq(Characters)] /\ last \in [1..n -> Seq(Characters)]
    <2> HIDE DEF read
    <2> QED BY <1>4, <1>5, Backslash DEF Texts
<1>7. \A i \in 1..n : next[i] = 0 \/ next[i] \in (i + 1)..n
    BY <1>1, <1>2, <1>4
<1>8. ASSUME NEW f, NEW i \in 1..n
      PROVE  body(f, i) = IF next[i] = 0 THEN last[i] ELSE give[i] \o f[next[i]]
    <2>1. next[i] = IF i > m THEN 0 ELSE i + 1
        BY <1>4
    <2>2. last[i] = <<>> /\ give[i] = read(i)
        BY <1>4
    <2>3. i + 1 # 0 /\ i + Len(old) = i + 1
        OBVIOUS
    <2> HIDE DEF Here
    <2> QED BY <2>1, <2>2, <2>3
<1>9. PICK g \in [1..n -> Seq(Characters)] : ReadsFrom(g, n, give, next, last)
    BY <1>2, <1>6, <1>7, ReadingDefines
<1>10. g = [i \in 1..n |-> body(g, i)]
    <2> HIDE DEF body
    <2> QED BY <1>8, <1>9 DEF ReadsFrom
<1>11. whole = [i \in 1..n |-> body(whole, i)]
    <2> HIDE DEF body
    <2> QED BY <1>10
<1> HIDE DEF whole
<1>12. ReadsFrom(whole, n, give, next, last)
    <2> HIDE DEF body
    <2> QED BY <1>8, <1>11 DEF ReadsFrom
<1>13. PICK one : one = 1
    OBVIOUS
<1>14. whole[one] \in Seq(Characters)
    BY <1>2, <1>6, <1>7, <1>12, <1>13, ReadingIn
<1> QED BY <1>3, <1>13, <1>14 DEF Texts

LEMMA CleanedText ==
    ASSUME NEW s \in Texts, NEW type, type # "title"
    PROVE  CleanTextContent(type, s) \in Texts
<1>1. PICK a, b, c, d, t, u : /\ a = <<"\\[">> /\ b = <<"[">> /\ c = <<"\\]">> /\ d = <<"]">>
                              /\ t = Replace(s, a, b) /\ u = Replace(t, c, d)
    OBVIOUS
<1>2. Len(a) = 1 /\ Len(c) = 1 /\ b \in Texts /\ d \in Texts
    <2>1. "[" \in Characters /\ "]" \in Characters
        BY DEF Characters
    <2> QED BY <1>1, <2>1, OneText
<1>3. t \in Texts
    BY <1>1, <1>2, ReplacedText
<1>4. u \in Texts
    BY <1>1, <1>2, <1>3, ReplacedText
<1>5. CleanTextContent(type, s) = u
    BY <1>1, Zenon DEF CleanTextContent
<1> QED BY <1>4, <1>5

(* A span whose text, if it is one, can be read. *)
Readable(span) == span.type = "text" => span.content \in Texts

LEMMA SpanOfText ==
    ASSUME NEW t \in Texts, NEW E, [type : {"text"}, content : Texts] \subseteq E
    PROVE  TextSpan(t) \in Seq(E)
<1>1. PICK x : x = [type |-> "text", content |-> t]
    OBVIOUS
<1>2. x \in E
    BY <1>1
<1>3. TextSpan(t) = <<>> \/ TextSpan(t) = <<x>>
    BY <1>1, Zenon DEF TextSpan
<1>4. <<>> \in Seq(E) /\ <<x>> \in Seq(E)
    BY <1>2
<1> QED BY <1>3, <1>4

LEMMA SplitSpans ==
    ASSUME NEW s \in Texts
    PROVE  LET spans == SplitInlineEquationSpans(s)
           IN  Listed(spans) /\ \A k \in 1..Len(spans) : Readable(spans[k])
<1> DEFINE m == Len(s)
           n == m + 1
           Ends(i) == {j \in i + 2..m : s[i] = "\\(" /\ s[j] = "\\)" /\ "nl" \notin Chars(SubSeq(s, i, j))}
           Starts(i) == {k \in i..m : Ends(k) # {}}
           Least(S) == CHOOSE x \in S : \A y \in S : x <= y
           first(i) == Least(Starts(i))
           past(i) == Least(Ends(first(i)))
           equation(i) == [type |-> "inline_equation", content |-> Trim(SubSeq(s, first(i) + 1, past(i) - 1))]
           before(i) == TextSpan(SubSeq(s, i, first(i) - 1)) \o <<equation(i)>>
           rest(i) == TextSpan(SubSeq(s, i, m))
           body(f, i) == IF Starts(i) = {} THEN rest(i) ELSE before(i) \o f[past(i) + 1]
           whole == CHOOSE f : f = [i \in 1..n |-> body(f, i)]
           E == [type : {"text"}, content : Texts] \cup {equation(i) : i \in 1..n}
<1>1. SplitInlineEquationSpans(s) = whole[1]
    BY Zenon DEF SplitInlineEquationSpans
<1>2. m \in Nat /\ n \in Nat /\ 1 \in 1..n
    BY TextFacts
<1>3. m = Len(s) /\ n = m + 1
    OBVIOUS
<1> HIDE DEF m, n
<1>4. PICK give, next, last : /\ give = [i \in 1..n |-> IF Starts(i) = {} THEN <<>> ELSE before(i)]
                              /\ last = [i \in 1..n |-> rest(i)]
                              /\ next = [i \in 1..n |-> IF Starts(i) = {} THEN 0 ELSE past(i) + 1]
    OBVIOUS
<1>5. ASSUME NEW i \in 1..n, Starts(i) # {}
      PROVE  first(i) \in i..m /\ past(i) \in first(i) + 2..m
    <2>1. Starts(i) \in SUBSET Nat /\ Starts(i) \in SUBSET (i..m) /\ \A k \in Starts(i) : Ends(k) # {}
        <3> HIDE DEF Ends
        <3> QED BY <1>2
    <2>2. first(i) \in Starts(i)
        <3> HIDE DEF Starts
        <3> QED BY <1>5, <2>1, LeastNumber
    <2>3. PICK k : k = first(i)
        OBVIOUS
    <2>4. k \in i..m /\ Ends(k) # {} /\ k \in Nat
        <3> HIDE DEF Starts, Ends, first
        <3> QED BY <2>1, <2>2, <2>3
    <2>5. Ends(k) \in SUBSET Nat /\ Ends(k) \in SUBSET (k + 2..m)
        BY <1>2, <2>4
    <2>6. Least(Ends(k)) \in Ends(k)
        <3> HIDE DEF Ends
        <3> QED BY <2>4, <2>5, LeastNumber
    <2>7. past(i) = Least(Ends(k))
        BY <2>3
    <2> HIDE DEF Ends, Least, first, past
    <2> QED BY <2>3, <2>4, <2>5, <2>6, <2>7
<1> HIDE DEF Starts, first, past
<1>6. ASSUME NEW i \in 1..n PROVE rest(i) \in Seq(E)
    <2>1. i \in Int /\ m \in Int /\ i >= 1 /\ m <= Len(s)
        BY <1>2, <1>3
    <2>2. SubSeq(s, i, m) \in Texts
        BY <2>1, CutText
    <2>3. [type : {"text"}, content : Texts] \subseteq E
        OBVIOUS
    <2> HIDE DEF E
    <2> QED BY <2>2, <2>3, SpanOfText
<1>7. ASSUME NEW i \in 1..n, Starts(i) # {} PROVE before(i) \in Seq(E)
    <2>1. PICK b : b = first(i) - 1
        OBVIOUS
    <2>2. i \in Int /\ b \in Int /\ i >= 1 /\ b <= Len(s)
        BY <1>2, <1>3, <1>5, <1>7, <2>1
    <2>3. SubSeq(s, i, b) \in Texts
        BY <2>2, CutText
    <2>4. [type : {"text"}, content : Texts] \subseteq E /\ equation(i) \in E
        OBVIOUS
    <2> HIDE DEF E, equation
    <2>5. TextSpan(SubSeq(s, i, b)) \in Seq(E)
        BY <2>3, <2>4, SpanOfText
    <2>6. <<equation(i)>> \in Seq(E)
        BY <2>4
    <2> QED BY <2>1, <2>5, <2>6
<1>8. give \in [1..n -> Seq(E)] /\ last \in [1..n -> Seq(E)]
    <2>1. <<>> \in Seq(E)
        OBVIOUS
    <2> HIDE DEF E, before, rest
    <2> QED BY <1>4, <1>6, <1>7, <2>1
<1>9. \A i \in 1..n : next[i] = 0 \/ next[i] \in (i + 1)..n
    BY <1>2, <1>3, <1>4, <1>5
<1>10. ASSUME NEW f, NEW i \in 1..n
       PROVE  body(f, i) = IF next[i] = 0 THEN last[i] ELSE give[i] \o f[next[i]]
    <2>1. next[i] = IF Starts(i) = {} THEN 0 ELSE past(i) + 1
        BY <1>4
    <2>2. last[i] = rest(i) /\ (Starts(i) # {} => give[i] = before(i))
        BY <1>4
    <2>3. Starts(i) # {} => past(i) + 1 # 0
        BY <1>2, <1>5
    <2> HIDE DEF before, rest
    <2> QED BY <2>1, <2>2, <2>3
<1> HIDE DEF E
<1>11. PICK g \in [1..n -> Seq(E)] : ReadsFrom(g, n, give, next, last)
    BY <1>2, <1>8, <1>9, ReadingDefines
<1>12. g = [i \in 1..n |-> body(g, i)]
    <2> HIDE DEF body
    <2> QED BY <1>10, <1>11 DEF ReadsFrom
<1>13. whole = [i \in 1..n |-> body(whole, i)]
    <2> HIDE DEF body
    <2> QED BY <1>12
<1> HIDE DEF whole
<1>14. ReadsFrom(whole, n, give, next, last)
    <2> HIDE DEF body
    <2> QED BY <1>10, <1>13 DEF ReadsFrom
<1>15. PICK one, spans : one = 1 /\ spans = whole[one]
    OBVIOUS
<1>16. spans \in Seq(E)
    BY <1>2, <1>8, <1>9, <1>14, <1>15, ReadingIn
<1>17. \A x \in E : Readable(x)
    <2>1. \A i \in 1..n : equation(i).type = "inline_equation"
        OBVIOUS
    <2> HIDE DEF equation
    <2> QED BY <2>1 DEF E, Readable
<1>18. Listed(spans) /\ \A k \in 1..Len(spans) : Readable(spans[k])
    BY <1>16, <1>17, ElementOfSeq DEF Listed
<1> QED BY <1>1, <1>15, <1>18

(* The blocks of the layout answer that may become paragraphs.             *)
RawFlowing == {"text", "image_caption", "table_caption", "code_caption", "image_footnote", "table_footnote"}

(* raw_to_py_block. *)
LEMMA SpansReadable ==
    ASSUME NEW b, b.type \in RawFlowing, b.content \in Texts
    PROVE  Worded(<<SpansOf(b)>>)
<1>1. PICK kind, content, plain, apart : /\ kind = SpanType(b.type) /\ content = CleanTextContent(b.type, b.content)
                                  /\ plain = <<[type |-> kind, content |-> content]>>
                                  /\ apart = SplitInlineEquationSpans(b.content)
    OBVIOUS
<1>2. kind = "text" /\ content \in Texts
    <2>1. b.type # "title" /\ b.type \notin {"image", "image_block", "table", "chart", "equation"}
        BY DEF RawFlowing
    <2> QED BY <1>1, <2>1, CleanedText DEF SpanType
<1>3. PICK spans : spans = IF HasInlineEquations(b.content) THEN apart ELSE plain
    OBVIOUS
<1>4. Listed(spans) /\ \A k \in 1..Len(spans) : Readable(spans[k])
    <2>1. Listed(apart) /\ \A k \in 1..Len(apart) : Readable(apart[k])
        BY <1>1, SplitSpans
    <2>2. PICK x : x = [type |-> kind, content |-> content]
        OBVIOUS
    <2>3. Readable(x) /\ plain = <<x>>
        BY <1>1, <1>2, <2>2 DEF Readable
    <2>4. Listed(plain) /\ \A k \in 1..Len(plain) : Readable(plain[k])
        BY <2>3, OneListed
    <2> QED BY <1>3, <2>1, <2>4
<1>5. PICK line : line = SpansOf(b)
    OBVIOUS
<1>6. line = [i \in DOMAIN spans |-> [type |-> spans[i].type, content |-> spans[i].content, image |-> None]]
    <2> DEFINE given == CASE b.type \in {"image", "chart", "table"} -> b.content
                          [] b.type = "equation" -> CleanInterlineEquation(b.content)
                          [] OTHER -> CleanTextContent(b.type, b.content)
               all == IF SpanType(b.type) = "text" /\ HasInlineEquations(b.content)
                      THEN SplitInlineEquationSpans(b.content)
                      ELSE <<[type |-> SpanType(b.type), content |-> given]>>
    <2>1. line = [i \in DOMAIN all |-> [type |-> all[i].type, content |-> all[i].content, image |-> None]]
        BY <1>5, Zenon DEF SpansOf
    <2>2. given = content
        <3>1. b.type \notin {"image", "chart", "table", "equation"}
            BY DEF RawFlowing
        <3> QED BY <1>1, <3>1
    <2>3. all = spans
        <3> HIDE DEF given
        <3> QED BY <1>1, <1>2, <1>3, <2>2
    <2> HIDE DEF all
    <2> QED BY <2>1, <2>3
<1>7. Listed(line) /\ Len(line) = Len(spans) /\ DOMAIN spans = 1..Len(spans)
    <2>1. DOMAIN spans = 1..Len(spans) /\ Len(spans) \in Nat
        BY <1>4, ListedFacts
    <2>2. line = [i \in 1..Len(spans) |-> line[i]]
        BY <1>6, <2>1
    <2> QED BY <2>1, <2>2, Listing
<1>8. ASSUME NEW k \in 1..Len(line) PROVE line[k].type = "text" => line[k].content \in Texts
    <2>1. line[k].type = spans[k].type /\ line[k].content = spans[k].content
        BY <1>6, <1>7
    <2> QED BY <1>4, <1>7, <2>1 DEF Readable
<1>9. PICK lines, one : lines = <<line>> /\ one = 1
    OBVIOUS
<1>10. Listed(lines) /\ Len(lines) = one /\ lines[one] = line
    BY <1>9, OneListed
<1>11. Worded(lines)
    BY <1>7, <1>8, <1>9, <1>10 DEF Worded
<1> QED BY <1>5, <1>9, <1>11

(* The contents of the answer's blocks. *)
RawWorded(b) == b.type \in RawFlowing => b.content \in Texts

LEMMA ReadText ==
    ASSUME NEW s \in Segments
    PROVE  s.content \in Texts
<1>1. s.content \in Seq(STRING)
    BY DEF Segments
<1> QED BY <1>1 DEF Texts, Characters

LEMMA ReadWorded ==
    ASSUME NEW segments \in Seq(Segments), NEW bs, bs = ParseLayoutOutput(segments), NEW k \in 1..Len(bs)
    PROVE  bs[k].content \in Texts /\ {"type", "content"} \subseteq DOMAIN bs[k]
<1> DEFINE Found(s) == IF ConvertBbox(s.box) # None /\ LayoutType(s) \in AllowedBlockTypes
                       THEN <<ContentBlock(s)>> ELSE <<>>
           parts == [i \in DOMAIN segments |-> Found(segments[i])]
           Fine(b) == b.content \in Texts /\ {"type", "content"} \subseteq DOMAIN b
<1>1. DOMAIN segments = 1..Len(segments) /\ Len(segments) \in Nat
    BY LenProperties
<1>2. ASSUME NEW i \in 1..Len(segments)
      PROVE  Listed(parts[i]) /\ \A j \in 1..Len(parts[i]) : Fine(parts[i][j])
    <2>1. PICK s, b : s = segments[i] /\ b = ContentBlock(s)
        OBVIOUS
    <2>2. s \in Segments
        BY <2>1, ElementOfSeq
    <2>3. parts[i] = <<b>> \/ parts[i] = <<>>
        BY <1>1, <2>1
    <2>4. Fine(b)
        <3>1. s.content \in Texts /\ <<>> \in Texts
            BY <2>2, ReadText, Backslash
        <3> QED BY <2>1, <3>1 DEF ContentBlock
    <2> HIDE DEF parts, Fine
    <2>5. CASE parts[i] = <<b>>
        <3>1. Listed(<<b>>) /\ Len(<<b>>) = 1 /\ <<b>>[1] = b
            BY OneListed
        <3> QED BY <2>4, <2>5, <3>1
    <2>6. CASE parts[i] = <<>>
        BY <2>6, OneListed
    <2> QED BY <2>3, <2>5, <2>6
<1>3. parts = [i \in 1..Len(segments) |-> parts[i]]
    <2> HIDE DEF Found
    <2> QED BY <1>1
<1>4. bs = FlattenSeq(parts)
    BY DEF ParseLayoutOutput
<1> HIDE DEF parts, Fine
<1>5. Listed(parts) /\ Len(parts) = Len(segments)
    BY <1>1, <1>3, Listing
<1>6. ComesFrom(bs[k], parts)
    <2>1. \A i \in 1..Len(parts) : Listed(parts[i])
        BY <1>2, <1>5
    <2> QED BY <1>4, <1>5, <2>1, FlattenFrom
<1>7. Fine(bs[k])
    BY <1>2, <1>5, <1>6 DEF ComesFrom
<1> QED BY <1>7 DEF Fine

LEMMA ProcessedWorded ==
    ASSUME NEW bs, Listed(bs), \A k \in 1..Len(bs) : bs[k].content \in Texts /\ {"type", "content"} \subseteq DOMAIN bs[k],
           NEW s, s = PostProcessRawBlocks(bs), NEW k \in 1..Len(s)
    PROVE  RawWorded(s[k])
<1> DEFINE parts == [i \in DOMAIN bs |-> IF bs[i].type = "equation_block" THEN <<>> ELSE <<PostProcess(bs[i])>>]
<1>1. DOMAIN bs = 1..Len(bs) /\ Len(bs) \in Nat
    BY ListedFacts
<1>2. ASSUME NEW i \in 1..Len(bs)
      PROVE  Listed(parts[i]) /\ \A j \in 1..Len(parts[i]) : RawWorded(parts[i][j])
    <2>1. PICK b, c : b = bs[i] /\ c = PostProcess(b)
        OBVIOUS
    <2>2. parts[i] = <<>> \/ parts[i] = <<c>>
        BY <1>1, <2>1
    <2>3. b.content \in Texts /\ {"type", "content"} \subseteq DOMAIN b
        BY <2>1
    <2>4. RawWorded(c)
        <3>1. CASE b.type = "list_item"
            <4>1. c = [b EXCEPT !.type = "text"]
                BY <2>1, <3>1 DEF PostProcess
            <4> QED BY <2>3, <4>1 DEF RawWorded
        <3>2. CASE b.type = "table"
            <4>1. c = [b EXCEPT !.content = ConvertOtslToHtml(@)]
                BY <2>1, <3>2 DEF PostProcess
            <4> QED BY <2>3, <3>2, <4>1 DEF RawWorded, RawFlowing
        <3>3. CASE b.type = "equation"
            <4>1. c = [b EXCEPT !.content = AddEquationBrackets(CleanInterlineEquation(@))]
                BY <2>1, <3>3 DEF PostProcess
            <4> QED BY <2>3, <3>3, <4>1 DEF RawWorded, RawFlowing
        <3>4. CASE b.type \in {"image", "chart"}
            <4>1. c = [b EXCEPT !.content = ImageAnalysisContent(@)]
                BY <2>1, <3>4 DEF PostProcess
            <4> QED BY <2>3, <3>4, <4>1 DEF RawWorded, RawFlowing
        <3>5. CASE b.type \notin {"list_item", "table", "equation", "image", "chart"}
            <4>1. c = b
                BY <2>1, <3>5 DEF PostProcess
            <4> QED BY <2>3, <4>1 DEF RawWorded
        <3> QED BY <3>1, <3>2, <3>3, <3>4, <3>5
    <2> HIDE DEF parts
    <2>5. CASE parts[i] = <<c>>
        <3>1. Listed(<<c>>) /\ Len(<<c>>) = 1 /\ <<c>>[1] = c
            BY OneListed
        <3> QED BY <2>4, <2>5, <3>1
    <2>6. CASE parts[i] = <<>>
        BY <2>6, OneListed
    <2> QED BY <2>2, <2>5, <2>6
<1>3. parts = [i \in 1..Len(bs) |-> parts[i]]
    BY <1>1
<1>4. s = FlattenSeq(parts)
    BY DEF PostProcessRawBlocks
<1> HIDE DEF parts
<1>5. Listed(parts) /\ Len(parts) = Len(bs)
    BY <1>1, <1>3, Listing
<1>6. ComesFrom(s[k], parts)
    <2>1. \A i \in 1..Len(parts) : Listed(parts[i])
        BY <1>2, <1>5
    <2> QED BY <1>4, <1>5, <2>1, FlattenFrom
<1> QED BY <1>2, <1>5, <1>6 DEF ComesFrom

LEMMA ReadLayoutWords ==
    ASSUME BoxesInv, ReadLayout
    PROVE  \A i \in 1..Len(raw') : RawWorded(raw'[i])
<1>1. pages[page] \in Pages
    BY LenProperties, ElementOfSeq DEF BoxesInv, ProgressInv, ReadLayout
<1>2. PICK segments, bs : segments = pages[page].segments /\ bs = ParseLayoutOutput(segments)
    OBVIOUS
<1>3. segments \in Seq(Segments)
    BY <1>1, <1>2, PageFields
<1>4. \A k \in 1..Len(bs) : bs[k].content \in Texts /\ {"type", "content"} \subseteq DOMAIN bs[k]
    BY <1>2, <1>3, ReadWorded
<1>5. Listed(bs)
    BY <1>2, <1>3, ParsedBoxed DEF AllBoxed
<1>6. raw' = PostProcessRawBlocks(bs)
    BY <1>2 DEF ReadLayout
<1> QED BY <1>4, <1>5, <1>6, ProcessedWorded

(* raw_to_py_block, block by block. *)
BlockWorded(b) == b.type \in Flowing => Worded(b.lines)

LEMMA BlockReadable ==
    ASSUME NEW i, raw[i].type \in RawTypes, RawWorded(raw[i])
    PROVE  BlockWorded(RawToPyBlock(i))
<1>1. PICK r, t, b : r = raw[i] /\ t = r.type /\ b = RawToPyBlock(i)
    OBVIOUS
<1>2. b.type = PyType(t) /\ b.lines = <<SpansOf(r)>>
    BY <1>1 DEF RawToPyBlock
<1>3. ASSUME b.type \in Flowing PROVE t \in RawFlowing
    BY <1>1, <1>2, <1>3 DEF PyType, Flowing, RawFlowing, RawTypes, AllowedBlockTypes
<1>4. ASSUME b.type \in Flowing PROVE Worded(b.lines)
    <2>1. r.type \in RawFlowing /\ r.content \in Texts
        BY <1>1, <1>3, <1>4 DEF RawWorded
    <2> QED BY <1>2, <2>1, SpansReadable
<1> QED BY <1>1, <1>4 DEF BlockWorded

LEMMA BlocksReadable ==
    ASSUME BoxesInv, RawInv, ConvertBlocks, \A i \in 1..Len(raw) : RawWorded(raw[i])
    PROVE  \A k \in 1..Len(blocks') : BlockWorded(blocks'[k])
<1> DEFINE parts == [i \in DOMAIN raw |-> IF RawToPyBlock(i).bbox = None THEN <<>> ELSE <<RawToPyBlock(i)>>]
           s == blocks'
           N == Len(raw)
<1>1. DOMAIN raw = 1..N /\ N \in Nat
    BY ListedFacts DEF BoxesInv, PageInv, AllBoxed
<1>2. ASSUME NEW i \in 1..N
      PROVE  Listed(parts[i]) /\ \A j \in 1..Len(parts[i]) : BlockWorded(parts[i][j])
    <2>1. PICK b : b = RawToPyBlock(i)
        OBVIOUS
    <2>2. parts[i] = IF b.bbox = None THEN <<>> ELSE <<b>>
        BY <1>1, <2>1
    <2>3. BlockWorded(b)
        BY <2>1, BlockReadable DEF RawInv
    <2> HIDE DEF parts
    <2> QED BY <2>2, <2>3, OneListed
<1>3. parts = [i \in 1..N |-> parts[i]]
    BY <1>1
<1>4. s = FlattenSeq(parts)
    BY DEF ConvertBlocks
<1> HIDE DEF parts, s
<1>5. Listed(parts) /\ Len(parts) = N
    <2> HIDE DEF N
    <2> QED BY <1>1, <1>3, Listing
<1>6. ASSUME NEW k \in 1..Len(s) PROVE BlockWorded(s[k])
    <2>1. ComesFrom(s[k], parts)
        BY <1>2, <1>4, <1>5, FlattenFrom
    <2> QED BY <1>2, <1>5, <2>1 DEF ComesFrom
<1> QED BY <1>6 DEF s

(* write_python_crop changes no text. *)
LEMMA CropReadable ==
    ASSUME NEW lines, Worded(lines), NEW name,
           NEW changed, changed = [lines EXCEPT ![1] = [lines[1] EXCEPT ![1] = [lines[1][1] EXCEPT !.image = name]]]
    PROVE  Worded(changed)
<1>1. PICK one, line, span, x, y : /\ one = 1 /\ line = lines[one] /\ span = line[one]
                                   /\ x = [span EXCEPT !.image = name] /\ y = [line EXCEPT ![one] = x]
    OBVIOUS
<1>2. changed = [lines EXCEPT ![one] = y]
    BY <1>1
<1>3. Replaces(changed, lines, one, y)
    <2>1. Listed(lines)
        BY DEF Worded
    <2>2. Replaces([lines EXCEPT ![one] = y], lines, one, y)
        BY <2>1, ReplacedListed, Zenon
    <2> QED BY <1>2, <2>2
<1>4. x.type = span.type /\ x.content = span.content
    <2>1. x.type = span.type
        BY <1>1
    <2>2. x.content = span.content
        BY <1>1
    <2> QED BY <2>1, <2>2
<1>5. ASSUME NEW l \in 1..Len(changed)
      PROVE  /\ Listed(changed[l])
             /\ \A k \in 1..Len(changed[l]) : changed[l][k].type = "text" => changed[l][k].content \in Texts
    <2>1. l \in 1..Len(lines)
        BY <1>3 DEF Replaces
    <2>2. CASE l # one
        BY <1>3, <2>1, <2>2 DEF Replaces, Worded
    <2>3. CASE l = one
        <3>1. Replaces(y, line, one, x) /\ changed[l] = y /\ Listed(line)
            <4>1. Listed(line)
                BY <1>1, <2>1, <2>3 DEF Worded
            <4>2. Replaces(y, line, one, x)
                BY <1>1, <4>1, ReplacedListed
            <4> QED BY <1>3, <2>1, <2>3, <4>1, <4>2 DEF Replaces
        <3>2. \A k \in 1..Len(line) : line[k].type = "text" => line[k].content \in Texts
            BY <1>1, <2>1, <2>3 DEF Worded
        <3>3. \A k \in 1..Len(y) : y[k].type = line[k].type /\ y[k].content = line[k].content
            BY <1>1, <1>4, <3>1 DEF Replaces
        <3> QED BY <3>1, <3>2, <3>3 DEF Replaces
    <2> QED BY <2>2, <2>3
<1> QED BY <1>3, <1>5 DEF Worded, Replaces

LEMMA BlocksStayReadable ==
    ASSUME BoxesInv, BlocksInv, WriteCrop, \A k \in 1..Len(blocks) : BlockWorded(blocks[k])
    PROVE  \A k \in 1..Len(blocks') : BlockWorded(blocks'[k])
<1> DEFINE i    == CHOOSE i \in ToCrop : \A j \in ToCrop : i <= j
           name == CropName(blocks[i].lines[1][1].type, blocks[i].bbox)
           lines == [blocks[i].lines EXCEPT ![1] = [blocks[i].lines[1] EXCEPT ![1] =
                        [blocks[i].lines[1][1] EXCEPT !.image = name]]]
           b == [blocks[i] EXCEPT !.lines = lines]
<1>1. blocks' = [blocks EXCEPT ![i] = b] \/ blocks' = blocks
    <2>1. blocks' = [blocks EXCEPT ![i].lines[1][1].image = name] \/ blocks' = blocks
        BY DEF WriteCrop
    <2> QED BY <2>1
<1> HIDE DEF i, name
<1>2. Listed(blocks) /\ DOMAIN blocks = 1..Len(blocks)
    BY ListedFacts DEF BoxesInv, PageInv, AllBoxed
<1>3. CASE blocks' = blocks
    BY <1>3
<1>4. CASE blocks' = [blocks EXCEPT ![i] = b]
    <2>1. ASSUME i \in 1..Len(blocks) PROVE BlockWorded(b)
        <3>1. PICK old : old = blocks[i]
            OBVIOUS
        <3>2. {"type", "lines"} \subseteq DOMAIN old /\ BlockWorded(old)
            BY <2>1, <3>1 DEF BlocksInv, PyBlock
        <3>3. ASSUME Worded(old.lines) PROVE Worded(lines)
            BY <3>1, <3>3, CropReadable
        <3> HIDE DEF lines
        <3>4. b.type = old.type /\ b.lines = lines
            BY <3>1, <3>2
        <3> QED BY <3>2, <3>3, <3>4 DEF BlockWorded
    <2> HIDE DEF b
    <2>2. /\ Len(blocks') = Len(blocks)
          /\ \A k \in 1..Len(blocks) : blocks'[k] = IF k = i THEN b ELSE blocks[k]
        BY <1>2, <1>4, ReplacedListed DEF Replaces
    <2> QED BY <2>1, <2>2
<1> QED BY <1>1, <1>3, <1>4

(* build_page_info: the lines of a paragraph are those of a block.         *)
ParagraphWorded(b) == b.type = "text" => Worded(b.lines)

LEMMA PageReadable ==
    ASSUME BoxesInv, BlocksInv, AssemblePage, \A k \in 1..Len(blocks) : BlockWorded(blocks[k])
    PROVE  \A k \in 1..Len(para') : ParagraphWorded(para'[k])
<1>1. PICK S : Assembled(S) /\ para' = ByIndex(S)
    BY AssembledKept
<1>2. ASSUME NEW b \in S PROVE ParagraphWorded(b)
    <2>1. CASE WithLinesOfPage(b)
        BY <2>1 DEF WithLinesOfPage, BlockWorded, ParagraphWorded
    <2>2. ASSUME NEW p \in 1..Len(blocks), blocks[p].type \in Alone, b = blocks[p] PROVE b.type # "text"
        BY <2>2 DEF Alone
    <2>3. ASSUME NEW p \in 1..Len(blocks), blocks[p].type \in VisualMain, b = Visual(p) PROVE b.type # "text"
        <3>1. PICK old, parent, q : /\ old = blocks[p] /\ parent = ParentType(old.type) /\ q = b.blocks
            OBVIOUS
        <3>2. parent # "text"
            BY <2>3, <3>1 DEF VisualMain, ParentType
        <3>3. "type" \in DOMAIN old
            BY <3>1 DEF BlocksInv, PyBlock
        <3>4. b.type = parent
            BY <2>3, <3>1, <3>3 DEF Visual
        <3> QED BY <3>2, <3>4
    <2> QED BY <1>1, <2>1, <2>2, <2>3 DEF Assembled, ParagraphWorded
<1>3. para' \in Seq(S)
    <2>1. Listed(raw)
        BY DEF BoxesInv, PageInv, AllBoxed
    <2> QED BY <1>1, <2>1, SortedElements DEF Assembled
<1> QED BY <1>2, <1>3, ElementOfSeq

LEMMA WordedJoined ==
    ASSUME NEW s, Worded(s), NEW t, Worded(t)
    PROVE  Worded(s \o t)
<1>1. PICK b : b = s \o t
    OBVIOUS
<1>2. Listed(s) /\ Listed(t) /\ Len(s) \in Nat /\ Len(t) \in Nat
    BY ListedFacts DEF Worded
<1>3. Joins(b, s, t)
    BY <1>1, <1>2, Joining
<1>4. ASSUME NEW l \in 1..Len(b)
      PROVE  (\E i \in 1..Len(s) : b[l] = s[i]) \/ (\E i \in 1..Len(t) : b[l] = t[i])
    <2>1. CASE l \in 1..Len(s)
        BY <1>3, <2>1 DEF Joins
    <2>2. CASE l \notin 1..Len(s)
        <3>1. PICK m : m = l - Len(s)
            OBVIOUS
        <3>2. m \in 1..Len(t) /\ l = Len(s) + m
            BY <1>2, <1>3, <2>2, <3>1 DEF Joins
        <3> QED BY <1>3, <3>2 DEF Joins
    <2> QED BY <2>1, <2>2
<1> QED BY <1>1, <1>3, <1>4 DEF Joins, Worded

LEMMA WithoutWords == Worded(<<>>)
BY OneListed DEF Worded

(* merge_para_text_blocks. *)
LEMMA ParagraphsReadable ==
    ASSUME BoxesInv, MergeParaTextBlock, \A k \in 1..Len(para) : Lined(para[k]),
           \A k \in 1..Len(para) : ParagraphWorded(para[k])
    PROVE  \A k \in 1..Len(para') : ParagraphWorded(para'[k])
<1>1. Listed(para) /\ DOMAIN para = 1..Len(para) /\ Len(para) \in Nat
    BY ListedFacts DEF BoxesInv, PageInv, AllBoxed
<1>2. CASE UNCHANGED para
    BY <1>2
<1>3. CASE Merges(at) /\ TextsBefore(at) # {} /\ para' = Merged(Max(TextsBefore(at)), at)
    <2> DEFINE texts == TextsBefore(at)
    <2>1. PICK into : into = Max(texts)
        OBVIOUS
    <2>2. at \in 1..Len(para) /\ texts \in SUBSET (1..at - 1) /\ at - 1 \in Nat
        BY <1>1 DEF BoxesInv, ProgressInv, MergeParaTextBlock, TextsBefore
    <2>3. into \in texts
        <3>1. PICK m : m = at - 1
            OBVIOUS
        <3>2. m \in Nat /\ texts \in SUBSET (1..m) /\ texts # {}
            BY <1>3, <2>2, <3>1
        <3> HIDE DEF texts
        <3> QED BY <2>1, <3>2, GreatestOf
    <2>4. into \in 1..Len(para) /\ into < at /\ para[into].type = "text" /\ para[at].type = "text"
        <3>1. into \in 1..at - 1 /\ para[into].type = "text"
            BY <2>3 DEF TextsBefore
        <3> QED BY <1>1, <1>3, <2>2, <3>1 DEF Merges
    <2> HIDE DEF texts
    <2>5. PICK a, b, joined, first, second :
              /\ a = para[into] /\ b = para[at] /\ joined = a.lines \o b.lines
              /\ first = [a EXCEPT !.lines = joined] /\ second = [b EXCEPT !.lines = <<>>]
        OBVIOUS
    <2>6. /\ Lined(a) /\ Lined(b) /\ a.type = "text" /\ b.type = "text"
          /\ ParagraphWorded(a) /\ ParagraphWorded(b)
        BY <2>2, <2>4, <2>5
    <2>7. Worded(joined)
        BY <2>5, <2>6, WordedJoined DEF ParagraphWorded
    <2>8. /\ first.lines = joined /\ second.lines = <<>>
        BY <2>5, <2>6 DEF Lined
    <2>9. ParagraphWorded(first) /\ ParagraphWorded(second)
        BY <2>7, <2>8, WithoutWords DEF ParagraphWorded
    <2>10. PICK more : more = [para EXCEPT ![into] = first]
        OBVIOUS
    <2>11. /\ Listed(more) /\ Len(more) = Len(para)
           /\ \A k \in 1..Len(para) : more[k] = IF k = into THEN first ELSE para[k]
        BY <1>1, <2>10, ReplacedListed DEF Replaces
    <2>12. para' = [more EXCEPT ![at] = second]
        <3>1. para' = [para EXCEPT ![into].lines = @ \o para[at].lines, ![at].lines = <<>>]
            BY <1>3, <2>1 DEF Merged, texts
        <3>2. [para EXCEPT ![into].lines = @ \o para[at].lines] = more
            BY <2>5, <2>10
        <3>3. para' = [more EXCEPT ![at].lines = <<>>]
            BY <3>1, <3>2
        <3>4. more[at] = b
            BY <2>2, <2>4, <2>5, <2>11
        <3> QED BY <2>5, <3>3, <3>4
    <2>13. Replaces([more EXCEPT ![at] = second], more, at, second)
        BY <2>11, ReplacedListed
    <2>14. /\ Len(para') = Len(more)
           /\ \A k \in 1..Len(more) : para'[k] = IF k = at THEN second ELSE more[k]
        BY <2>12, <2>13 DEF Replaces
    <2> QED BY <2>9, <2>11, <2>14
<1> QED BY <1>2, <1>3 DEF MergeParaTextBlock

-----------------------------------------------------------------------------
(* What may become a paragraph has texts that can be read, and so have the *)
(* paragraphs.                                                             *)
WordedInv ==
    /\ phase = "convert" => \A i \in 1..Len(raw) : RawWorded(raw[i])
    /\ phase = "crop" => \A k \in 1..Len(blocks) : BlockWorded(blocks[k])
    /\ phase = "merge" => \A k \in 1..Len(para) : ParagraphWorded(para[k])

LEMMA WordedPage ==
    ASSUME BoxesInv, KeptInv, WordedInv, BuildPage
    PROVE  WordedInv'
<1>1. CASE ReadLayout
    <2>1. phase' = "convert"
        BY <1>1 DEF ReadLayout
    <2> QED BY <1>1, <2>1, ReadLayoutWords DEF WordedInv, RawWorded
<1>2. CASE ConvertBlocks
    <2>1. phase = "convert" /\ phase' = "crop"
        BY <1>2 DEF ConvertBlocks
    <2>2. \A k \in 1..Len(blocks') : BlockWorded(blocks'[k])
        BY <1>2, <2>1, BlocksReadable DEF KeptInv, WordedInv
    <2> QED BY <2>1, <2>2 DEF WordedInv, BlockWorded
<1>3. CASE WriteCrop
    <2>1. phase = "crop" /\ phase' \in {"crop", "failed"}
        BY <1>3 DEF WriteCrop
    <2>2. \A k \in 1..Len(blocks') : BlockWorded(blocks'[k])
        BY <1>3, <2>1, BlocksStayReadable DEF KeptInv, WordedInv
    <2> QED BY <2>1, <2>2 DEF WordedInv, BlockWorded
<1>4. CASE AssemblePage
    <2>1. phase = "crop" /\ phase' = "merge"
        BY <1>4, Zenon DEF AssemblePage
    <2>2. \A k \in 1..Len(para') : ParagraphWorded(para'[k])
        BY <1>4, <2>1, PageReadable DEF KeptInv, WordedInv
    <2> QED BY <2>1, <2>2 DEF WordedInv, ParagraphWorded
<1>5. CASE MergeParaTextBlock
    <2>1. phase = "merge" /\ phase' = "merge"
        BY <1>5 DEF MergeParaTextBlock
    <2>2. \A k \in 1..Len(para') : ParagraphWorded(para'[k])
        BY <1>5, <2>1, ParagraphsReadable DEF KeptInv, WordedInv
    <2> QED BY <2>1, <2>2 DEF WordedInv, ParagraphWorded
<1> QED BY <1>1, <1>2, <1>3, <1>4, <1>5 DEF BuildPage

LEMMA WordedStutter ==
    ASSUME WordedInv, UNCHANGED vars
    PROVE  WordedInv'
<1>1. UNCHANGED <<phase, raw, blocks, para>>
    BY DEF vars, pageVars
<1> QED BY <1>1 DEF WordedInv, RawWorded, BlockWorded, ParagraphWorded

LEMMA WordedNext ==
    ASSUME BoxesInv, KeptInv, WordedInv, [ParseNext]_<<vars, officeVars>>
    PROVE  WordedInv'
<1>1. CASE ParseWithVlm
    <2>1. CASE BuildPageFragment
        BY <2>1, WordedPage DEF BuildPageFragment
    <2>2. CASE AppendFragment
        <3>1. phase' = "layout"
            BY <2>2 DEF AppendFragment
        <3> QED BY <3>1 DEF WordedInv
    <2>3. CASE Finish
        <3>1. phase' = "finished"
            BY <2>3 DEF Finish
        <3> QED BY <3>1 DEF WordedInv
    <2> QED BY <1>1, <2>1, <2>2, <2>3 DEF ParseWithVlm, Next
<1>2. CASE ParseOffice
    BY <1>2, WordedStutter DEF ParseOffice
<1>3. CASE Returned
    BY <1>3, WordedStutter DEF Returned
<1>4. CASE UNCHANGED <<vars, officeVars>>
    BY <1>4, WordedStutter
<1> QED BY <1>1, <1>2, <1>3, <1>4 DEF ParseNext

LEMMA WordedInit == ParseInit => WordedInv
<1> SUFFICES ASSUME ParseInit PROVE WordedInv
    OBVIOUS
<1>1. phase \in {"idle", "layout"}
    BY DEF ParseInit, Init, PageInit, NoVlmDocument
<1> QED BY <1>1 DEF WordedInv

(* One line of texts that can be read gives Markdown that is escaped. *)
LEMMA ParagraphEscaped ==
    ASSUME NEW b, ParagraphWorded(b), b.type = "text", Len(b.lines) = 1,
           \A s \in ToSet(Spans(b.lines)) : s.type = "text"
    PROVE  LET t == TextOf(b, TRUE) IN Escaped(t) /\ EscapeText(t) = t /\ EscapePrefix(t) = t
<1>1. PICK lines, type, line, one : lines = b.lines /\ type = b.type /\ line = lines[1] /\ one = 1
    OBVIOUS
<1>2. Worded(lines) /\ Len(lines) = 1 /\ type = "text"
    BY <1>1 DEF ParagraphWorded
<1>3. Listed(lines) /\ Listed(line)
    <2>1. one \in 1..Len(lines)
        BY <1>1, <1>2
    <2> QED BY <1>1, <1>2, <2>1 DEF Worded
<1>4. Spans(lines) = line
    BY <1>1, <1>2, <1>3, FlattenSingle DEF Spans
<1>5. ASSUME NEW k \in 1..Len(line) PROVE line[k].type = "text"
    <2>1. k \in DOMAIN line
        BY <1>3, ListedFacts
    <2>2. line[k] \in ToSet(line)
        BY <2>1 DEF ToSet
    <2> QED BY <1>1, <1>4, <2>2
<1>6. LET t == MergeParaWithText(type, lines, TRUE)
      IN  Escaped(t) /\ EscapeText(t) = t /\ EscapePrefix(t) = t
    BY <1>1, <1>2, <1>5, LineSafe
<1> QED BY <1>1, <1>6 DEF TextOf

LEMMA EscapesShown == WordedInv /\ BoxesInv => EscapesSafe
<1> SUFFICES ASSUME WordedInv, BoxesInv, phase = "merge", NEW i \in DOMAIN para, para[i].type = "text",
                    \A s \in ToSet(Spans(para[i].lines)) : s.type = "text", Len(para[i].lines) = 1
             PROVE  LET t == TextOf(para[i], TRUE) IN Escaped(t) /\ EscapeText(t) = t /\ EscapePrefix(t) = t
    BY Zenon DEF EscapesSafe
<1>1. DOMAIN para = 1..Len(para)
    BY ListedFacts DEF BoxesInv, PageInv, AllBoxed
<1>2. ParagraphWorded(para[i])
    BY <1>1 DEF WordedInv
<1> QED BY <1>2, ParagraphEscaped

(* For every document: in the Markdown of a text of one line every special *)
(* character is escaped, escaping it again leaves it as it is, and it does *)
(* not become a heading or a list.                                         *)
THEOREM EscapesCorrect == ParseSpec => []EscapesSafe
<1>1. ParseInit => BoxesInv /\ KeptInv /\ WordedInv
    BY BoxesInit, KeptInit, WordedInit
<1>2. BoxesInv /\ KeptInv /\ WordedInv /\ [ParseNext]_<<vars, officeVars>> => (BoxesInv /\ KeptInv /\ WordedInv)'
    BY BoxesNext, KeptNext, WordedNext
<1>3. BoxesInv /\ KeptInv /\ WordedInv => EscapesSafe
    BY EscapesShown
<1> QED BY <1>1, <1>2, <1>3, PTL DEF ParseSpec
=============================================================================
