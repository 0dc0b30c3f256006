----------------------------- MODULE CoverPhoto -----------------------------
(***************************************************************************)
(* What is done to a product's cover on its way into Drive                 *)
(* (lib/drive/transform.ts, called by upload.ts and by the cover preview): *)
(* a supplier's cover is turned, its plain backdrop cleared by a flood     *)
(* fill from the border, and it is framed 2:3 around the rug.  Anything    *)
(* that fails leaves the supplier's own file.                              *)
(* A photo is a few pixels, each plain (near the backdrop's white), soft   *)
(* (so little past it that on an outline it counts as cleared) or rug.     *)
(***************************************************************************)
EXTENDS CoverFrame, Sequences, FiniteSets, FiniteSetsExt

CONSTANTS
    Width, Height,      \* of the supplier's photo
    Vendors,
    MaxSoft             \* bound: how many of its pixels are soft

ASSUME CoverConstants == Width \in Nat \ {0} /\ Height \in Nat \ {0}

Pixels == 0..(Width * Height - 1)

VARIABLES
    vendor, mime,       \* of the import; whether sharp can decode the format
    original,           \* the supplier's pixels
    across, down,       \* of the photo in hand
    photo,              \* its pixels, row by row
    alpha,              \* of each pixel: "full", "part" or "none"
    todo,               \* the transforms still wanted
    applied,            \* those that changed the photo
    fill,               \* the flood fill: the pixels it has cleared, and those among them still queued
    frame,              \* the 2:3 frame, once there is one
    box,                \* the rug's box it was drawn around, or Nowhere
    skipped             \* the original is stored after all

shape == <<across, down>>
coverVars == <<vendor, mime, original, shape, photo, alpha, todo, applied, fill, frame, box, skipped>>

NoFill == [on |-> FALSE, queue |-> {}, cleared |-> {}]
Opaque == [p \in Pixels |-> "full"]

\* features.ts: the backdrop for all three suppliers, the crop for Karavan's.
transformsFor(v) ==
    CASE v = "karavanrug" -> <<"rotate90", "removeBackground", "crop2x3">>
      [] v \in {"ecarpetgallery", "serioludere"} -> <<"removeBackground">>
      [] OTHER -> <<>>

CoverInit ==
    /\ vendor \in Vendors /\ mime \in BOOLEAN
    /\ original \in [Pixels -> {"plain", "soft", "rug"}]
    /\ Cardinality({p \in Pixels : original[p] = "soft"}) <= MaxSoft
    /\ across = Width /\ down = Height /\ photo = original /\ alpha = Opaque
    /\ todo = IF mime THEN transformsFor(vendor) ELSE <<>>
    /\ applied = <<>> /\ fill = NoFill
    /\ frame = Nowhere /\ box = Nowhere
    /\ skipped = (~mime /\ transformsFor(vendor) # <<>>)

column(p) == p % across
row(p) == p \div across
Border == {p \in Pixels : column(p) \in {0, across - 1} \/ row(p) \in {0, down - 1}}
Beside(p) ==
    {q \in Pixels : \/ row(p) = row(q) /\ column(p) - column(q) \in {-1, 1}
                    \/ column(p) = column(q) /\ row(p) - row(q) \in {-1, 1}}

Wanted(t) == todo # <<>> /\ Head(todo) = t
Done(t) == todo' = Tail(todo) /\ applied' = Append(applied, t)
NoOp == todo' = Tail(todo) /\ UNCHANGED applied

-----------------------------------------------------------------------------
\* A quarter turn anti-clockwise.
rotate90 ==
    /\ Wanted("rotate90")
    /\ across' = down /\ down' = across
    /\ photo' = [p \in Pixels |-> photo[(p % down) * across + (across - 1 - p \div down)]]
    /\ Done("rotate90")
    /\ UNCHANGED <<vendor, mime, original, alpha, fill, frame, box, skipped>>

\* Most of the border must be plain.
Plain == {p \in Pixels : photo[p] = "plain"}
HasBackdrop == Cardinality(Plain \cap Border) * 10 >= Cardinality(Border) * 6

takeAll(f, S) == [f EXCEPT !.queue = @ \cup (S \ f.cleared), !.cleared = @ \cup S]

\* Mutant of StartFill: every plain pixel is backdrop.
StartFillEverywhere ==
    /\ Wanted("removeBackground") /\ ~fill.on
    /\ IF HasBackdrop
       THEN fill' = takeAll([NoFill EXCEPT !.on = TRUE], Plain) /\ UNCHANGED <<todo, applied>>
       ELSE NoOp /\ UNCHANGED fill
    /\ UNCHANGED <<vendor, mime, original, shape, photo, alpha, frame, box, skipped>>

StartFill ==
    /\ Wanted("removeBackground") /\ ~fill.on
    /\ IF HasBackdrop
       THEN fill' = takeAll([NoFill EXCEPT !.on = TRUE], Plain \cap Border) /\ UNCHANGED <<todo, applied>>
       ELSE NoOp /\ UNCHANGED fill
    /\ UNCHANGED <<vendor, mime, original, shape, photo, alpha, frame, box, skipped>>

\* One queued pixel's neighbours. The first in reading order: which one makes no difference.
FillOne ==
    /\ fill.on /\ fill.queue # {}
    /\ LET p == Min(fill.queue)
       IN  fill' = takeAll([fill EXCEPT !.queue = @ \ {p}], Beside(p) \cap Plain)
    /\ UNCHANGED <<vendor, mime, original, shape, photo, alpha, todo, applied, frame, box, skipped>>

\* The outline's soft pixels turn part-transparent. A photo that is almost all or almost nothing of
\* backdrop is left alone.
EndFill ==
    LET share == Cardinality(fill.cleared) * 100
        all == Width * Height
        outline == {p \in Pixels : Beside(p) \cap fill.cleared # {}}
    IN  /\ fill.on /\ fill.queue = {}
        /\ fill' = [fill EXCEPT !.on = FALSE]
        /\ IF share < all \/ share > 97 * all
           THEN NoOp /\ UNCHANGED alpha
           ELSE /\ alpha' = [p \in Pixels |->
                       IF p \in fill.cleared THEN "none"
                       ELSE IF p \in outline /\ photo[p] = "soft" THEN "part" ELSE "full"]
                /\ Done("removeBackground")
        /\ UNCHANGED <<vendor, mime, original, shape, photo, frame, box, skipped>>

\* The lines that carry enough of the rug, at least two pixels of it, from the first to the last.
Lines(n, along, rug) == {i \in 0..(n - 1) : Cardinality({p \in rug : along[p] = i}) >= 2}
subjectBox(rug) ==
    LET ys == Lines(down, [p \in Pixels |-> row(p)], rug)
        xs == Lines(across, [p \in Pixels |-> column(p)], rug)
    IN  IF ys = {} \/ xs = {} THEN Nowhere
        ELSE [left |-> Min(xs), top |-> Min(ys), width |-> Max(xs) - Min(xs) + 1, height |-> Max(ys) - Min(ys) + 1]

\* What surrounds the rug: nothing, a plain colour, or no telling.
Faint == {p \in Pixels : alpha[p] # "full"}
Around ==
    IF Cardinality(Faint \cap Border) * 10 >= Cardinality(Border) * 6 THEN "transparent"
    ELSE IF HasBackdrop THEN "colour" ELSE "unknown"
Subject == {p \in Pixels : p \notin Faint /\ (Around = "colour" => photo[p] # "plain")}

Whole == [left |-> 0, top |-> 0, width |-> across, height |-> down]

cropTo2x3 ==
    LET found == IF Around = "unknown" THEN Nowhere ELSE subjectBox(Subject)
        framed == coverFrame(across, down, found)
    IN  /\ Wanted("crop2x3")
        /\ box' = found
        /\ frame' = framed
        /\ IF framed = Whole THEN NoOp ELSE Done("crop2x3")
        /\ UNCHANGED <<vendor, mime, original, shape, photo, alpha, fill, skipped>>

\* Mutant of Throws: what was done before the failure is stored.
ThrowsKeepingPhoto ==
    /\ todo # <<>>
    /\ todo' = <<>> /\ applied' = <<>>
    /\ fill' = NoFill /\ frame' = Nowhere /\ box' = Nowhere
    /\ skipped' = TRUE
    /\ UNCHANGED <<vendor, mime, original, shape, photo, alpha>>

\* sharp is missing, or cannot decode the file: nothing of what was done so far is kept.
Throws ==
    /\ todo # <<>>
    /\ photo' = original /\ alpha' = Opaque /\ across' = Width /\ down' = Height
    /\ todo' = <<>> /\ applied' = <<>>
    /\ fill' = NoFill /\ frame' = Nowhere /\ box' = Nowhere
    /\ skipped' = TRUE
    /\ UNCHANGED <<vendor, mime, original>>

CoverNext == rotate90 \/ StartFill \/ FillOne \/ EndFill \/ cropTo2x3 \/ Throws
CoverSpec == CoverInit /\ [][CoverNext]_coverVars

-----------------------------------------------------------------------------
Stored == todo = <<>>
Cleared == {p \in Pixels : alpha[p] = "none"}

\* The plain pixels that a path of plain pixels joins to the border: the reference for the fill.
ToTheEdge ==
    LET grow[n \in 0..(Width * Height)] ==
            IF n = 0 THEN Plain \cap Border
            ELSE LET before == grow[n - 1] IN before \cup {p \in Plain : Beside(p) \cap before # {}}
    IN  grow[Width * Height]

\* "only backdrop CONNECTED to the edge of the photo goes, so white motifs inside the rug [...] stay"
\* (transform.ts:140-141): a stored cover has lost that and nothing else, or nothing at all.
ClearsTheBackdropOnly == Stored => Cleared = {} \/ Cleared = ToTheEdge

\* "The rug is always entirely inside it" (transform.ts:326), and the frame is inside the photo
\* along a side where it fits.
RugInFrame ==
    frame # Nowhere => (box # Nowhere => Encloses(frame, box)) /\ InsideWhereItFits(frame, across, down)

\* What the import reports is what the stored file went through: the original when anything failed
\* (transform.ts:410-414).
ReportsWhatItDid ==
    LET Did(t) == \E i \in DOMAIN applied : applied[i] = t
    IN  Stored =>
            /\ Did("removeBackground") <=> Cleared # {}
            /\ Did("crop2x3") => frame # Nowhere /\ frame # Whole
            /\ skipped => photo = original /\ applied = <<>>
            /\ Did("rotate90") <=> vendor = "karavanrug" /\ ~skipped
=============================================================================
