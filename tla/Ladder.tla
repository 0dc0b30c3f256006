------------------------------- MODULE Ladder -------------------------------
(***************************************************************************)
(* What a product's form is filled with: each field is read by the host's  *)
(* own adapter, what that left blank by the generic rungs in their order,  *)
(* and every field is marked as found, inferred or missing.                *)
(* Texts and figures are abstracted to the place they were read at.        *)
(***************************************************************************)
EXTENDS Integers

CONSTANTS Readings    \* what the sources of a page have; see the run

VARIABLES supplier,
          page,       \* what each source of the page has
          draft,    \* where each field was read, and whether it is stated there
          marks,      \* the fields marked as inferred
          fieldStatus,
          stage

ladderVars == <<supplier, page, draft, marks, fieldStatus, stage>>

Stores == {"ecarpetgallery", "karavanrug", "serioludere"}
LADDER_ORDER == <<"shopify", "jsonld", "opengraph">>
Sides == {"width", "length"}
RUNG_FIELDS == Sides \cup {"ref", "price", "currency"}

Blank == [by |-> "nobody", how |-> "missing"]
At(place, how) == [by |-> place, how |-> how]
present(value) == value # Blank

LadderInit ==
    /\ page \in Readings /\ supplier \in Stores
    /\ supplier = "ecarpetgallery" => page.shopify = {}
    /\ draft = [f \in RUNG_FIELDS |-> Blank] /\ marks = {}
    /\ fieldStatus = [f \in RUNG_FIELDS |-> "missing"] /\ stage = "fetched"

-----------------------------------------------------------------------------
\* The generic rungs.  A size is read out of a title or a description, both sides or neither.
Sized(rung) == page[rung] \cap {"sized title", "sized prose"} # {}
rungReads(rung) == (page[rung] \cap RUNG_FIELDS) \cup (IF Sized(rung) THEN Sides ELSE {})

\* For each field, the first rung with a value.
Readers(f) == {i \in DOMAIN LADDER_ORDER : f \in rungReads(LADDER_ORDER[i])}
Earliest(found) == CHOOSE i \in found : \A j \in found : i <= j
mergeRungs ==
    [f \in RUNG_FIELDS |->
        IF Readers(f) = {} THEN Blank
        ELSE At(LADDER_ORDER[Earliest(Readers(f))], IF f \in Sides THEN "derived" ELSE "stated")]

\* A rung gives no side by itself.
ASSUME ReadingsForm == \A r \in Readings : \A i \in DOMAIN LADDER_ORDER : r[LADDER_ORDER[i]] \cap Sides = {}

\* What the meta tags of the page say, the social ones before the structured ones.
Meta(f) == f \in page.opengraph \cup page.jsonld
MetaTitleSized == IF "title" \in page.opengraph THEN "sized title" \in page.opengraph
                                                ELSE "sized title" \in page.jsonld

Assumed(priced) == IF Meta("currency") THEN At("meta", "stated") ELSE IF priced THEN At("nobody", "derived") ELSE Blank

-----------------------------------------------------------------------------
\* The adapter of ecarpetgallery.com: a table in feet with both sides, else the title.
ecgSideAlone(side) ==
    IF page.spec = "feet" \/ (page.spec = "width only" /\ side = "width") THEN At("spec", "derived")
    ELSE IF MetaTitleSized THEN At("title", "derived") ELSE Blank

ecgSide(side) ==
    IF page.spec = "feet" THEN At("spec", "derived")
    ELSE IF MetaTitleSized THEN At("title", "derived") ELSE Blank

parseEcg ==
    LET priced == Meta("price") \/ page.tagged IN
    [width |-> ecgSide("width"), length |-> ecgSide("length"),
     ref |-> At("link", "stated"),
     price |-> IF priced THEN At("page", "stated") ELSE Blank,
     currency |-> Assumed(priced)]

\* A Shopify store's product is its JSON, else what the page names and describes.
Prose(rung) == page[rung] \cap {"prose", "sized prose"} # {}
Titled == page.jsonld # {} \/ "title" \in page.opengraph
storeProduct == page.shopify # {} \/ (Titled /\ (Prose("jsonld") \/ Prose("opengraph")))

ProductSized ==
    IF page.shopify # {} THEN Sized("shopify")
    ELSE \/ "sized title" \in (IF page.jsonld # {} THEN page.jsonld ELSE page.opengraph)
         \/ "sized prose" \in (IF Prose("jsonld") THEN page.jsonld ELSE page.opengraph)

Numbered == "ref" \in page.shopify \cup page.jsonld \cup (IF page.shopify = {} THEN page.opengraph ELSE {})

\* The adapter of the Shopify stores; the studio's own takes no handle for a number, and no 0.00 for a price.
Own == supplier = "serioludere"
kvSize ==
    IF page.spec = "cm" THEN At("spec", "stated")
    ELSE IF page.spec = "feet" THEN At("spec", "derived")
    ELSE IF ProductSized THEN At("product", "derived") ELSE Blank

parseKaravan ==
    [width |-> kvSize, length |-> kvSize,
     ref |-> IF Own THEN (IF Numbered THEN At("product", "stated") ELSE Blank)
             ELSE IF page.stock THEN At("spec", "stated") ELSE At("product", "derived"),
     price |-> IF ("price" \in page.shopify \/ Meta("price")) /\ ~(Own /\ page.free) THEN At("page", "stated") ELSE Blank,
     currency |-> Assumed(TRUE)]

\* Without a product of the store, the generic rungs alone.
draftToRug == [mergeRungs EXCEPT !["ref"] = IF present(@) THEN @ ELSE At("link", "derived")]

Derived(r) == {f \in DOMAIN r : r[f].how = "derived"}
Html == page.jsonld \cup page.opengraph # {}

parse ==
    /\ stage = "fetched"
    /\ draft' = IF supplier = "ecarpetgallery" THEN parseEcg
                  ELSE IF storeProduct THEN parseKaravan
                  ELSE IF Html THEN draftToRug ELSE draft
    /\ marks' = Derived(draft') /\ UNCHANGED <<supplier, page, fieldStatus>>
    /\ stage' = IF supplier = "ecarpetgallery" \/ storeProduct THEN "parsed" ELSE IF Html THEN "filled" ELSE "unread"

\* What the adapter left blank is filled in; a rung's own mark is not taken along.
fillBlanks ==
    /\ stage = "parsed" /\ stage' = "filled"
    /\ draft' = [f \in RUNG_FIELDS |-> IF present(draft[f]) THEN draft[f] ELSE mergeRungs[f]]
    /\ UNCHANGED <<supplier, page, marks, fieldStatus>>

autoStatus(f) == IF present(draft'[f]) THEN (IF f \in marks THEN "inferred" ELSE "found") ELSE "missing"

\* A price of nothing is none; then every field gets its status, also of what a failed reading left.
finaliseScraped ==
    /\ stage = "filled" /\ stage' = "final"
    /\ draft' = IF Own /\ page.free THEN [draft EXCEPT !["price"] = Blank] ELSE draft
    /\ fieldStatus' = [f \in RUNG_FIELDS |-> autoStatus(f)]
    /\ UNCHANGED <<supplier, page, marks>>

\* The same link within a quarter of an hour: what was kept is finished again.
finaliseCached ==
    /\ stage = "final" /\ (Own \/ present(draft["price"])) /\ stage' = "again"
    /\ UNCHANGED <<supplier, page, draft, marks>>
    /\ fieldStatus' = [f \in RUNG_FIELDS |-> autoStatus(f)]

LadderNext == parse \/ fillBlanks \/ finaliseScraped \/ finaliseCached

LadderSpec == LadderInit /\ [][LadderNext]_ladderVars

-----------------------------------------------------------------------------
Read == stage \in {"final", "again"}

\* The width and the length of a rug are of one reading: however the blanks are filled, field by
\* field, the form never shows a measure put together out of two (ladder.ts:113).
OneMeasure == draft["width"].by = draft["length"].by

\* No field is missing that some source of the page has, a price of nothing aside, and none is shown
\* that no source has (ladder.ts:139).
NothingLeftBehind ==
    Read => \A f \in RUNG_FIELDS :
        /\ Readers(f) # {} /\ ~(f = "price" /\ Own /\ page.free) => fieldStatus[f] # "missing"
        /\ present(draft[f]) <=> fieldStatus[f] # "missing"

\* However its blanks are filled, the form shows one reading of the page, and all of it.
FormIsOneReading == OneMeasure /\ NothingLeftBehind

\* What is marked as found was stated on the page: a size out of a free text never is.
FoundWasStated == Read => \A f \in RUNG_FIELDS : fieldStatus[f] = "found" => draft[f].how = "stated"
=============================================================================
