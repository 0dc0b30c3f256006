----------------------------- MODULE CoverFrame -----------------------------
(***************************************************************************)
(* The 2:3 frame of a cover (lib/drive/transform.ts, coverFrame and place).*)
(* Sizes are in pixels, and Math.round(n / d) is (2n + d) \div 2d.         *)
(***************************************************************************)
EXTENDS Integers

CONSTANT CROP_MARGIN        \* in percent of the rug's longer side
ASSUME CropMargin == CROP_MARGIN \in Nat

\* No box: the rug cannot be told from what is around it.
Nowhere == [left |-> 0, top |-> 0, width |-> 0, height |-> 0]

Greater(a, b) == IF a > b THEN a ELSE b

\* Mutant of place: the frame stays around the rug, wherever the rug is.
placeCentred(centre2, side, extent) == (centre2 - side + 1) \div 2

\* It fits: slid inside the photo. It does not: the rug stays in the middle of the padding.
\* The centre is passed doubled.
place(centre2, side, extent) ==
    LET start == (centre2 - side + 1) \div 2
        inside == IF start < 0 THEN 0 ELSE start
    IN  IF side > extent THEN start ELSE IF inside > extent - side THEN extent - side ELSE inside

Round32(n) == (3 * n + 1) \div 2
Round23(n) == (4 * n + 3) \div 6

coverFrame(wide, high, b) ==
    IF b = Nowhere
    THEN IF 3 * wide > 2 * high
         THEN [left |-> (wide - Round23(high)) \div 2, top |-> 0, width |-> Round23(high), height |-> high]
         ELSE [left |-> 0, top |-> (high - Round32(wide)) \div 2, width |-> wide, height |-> Round32(wide)]
    ELSE LET m == (2 * Greater(b.width, b.height) * CROP_MARGIN + 100) \div 200
             w0 == b.width + 2 * m
             h0 == b.height + 2 * m
             width == IF 3 * w0 > 2 * h0 THEN w0 ELSE Round23(h0)
             height == IF 3 * w0 > 2 * h0 THEN Round32(w0) ELSE h0
         IN  [left |-> place(2 * b.left + b.width, width, wide), top |-> place(2 * b.top + b.height, height, high),
              width |-> width, height |-> height]

Encloses(f, b) ==
    /\ f.left <= b.left /\ b.left + b.width <= f.left + f.width
    /\ f.top <= b.top /\ b.top + b.height <= f.top + f.height

\* Along a side where the frame is not the larger, it is inside the photo.
InsideWhereItFits(f, wide, high) ==
    /\ f.width <= wide => f.left >= 0 /\ f.left + f.width <= wide
    /\ f.height <= high => f.top >= 0 /\ f.top + f.height <= high
=============================================================================
