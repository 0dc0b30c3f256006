--------------------------- MODULE CatalogueView ----------------------------
(***************************************************************************)
(* What a page is made of: the rows of the sheet as lib/sheets/parse.ts    *)
(* reads them, and the cards, tabs and grid order that lib/view.ts and     *)
(* lib/text.ts derive.  The state is the sheet, which its owner types row  *)
(* by row; everything else is computed from it on every read.              *)
(* A slug is a word, and a number when it was made unique: <<"kilim", 2>>. *)
(* A collection's name as typed is its key (lower case, trimmed), which    *)
(* two spellings may share, and the word slugify makes of it.              *)
(***************************************************************************)
EXTENDS Integers, Sequences, FiniteSets, SequencesExt

CONSTANTS
    Names,                      \* the names of collections the owner types
    ProductRows,                \* the rows the owner types into Products
    CollectionRows,             \* and into Collections
    Singular(_),                \* a slug without its trailing s
    STUDIO_ORDER,               \* STUDIO_COLLECTION_ORDER, as names
    REFERENCE_ORDER,            \* REFERENCE_COLLECTION_ORDER
    MaxProducts, MaxCollections \* bounds

NoHandle == <<>>
Unfiled == [key |-> "", word |-> ""]
More == [key |-> "more", word |-> "more"]

\* What the owner types: a handle is a slug or none.
CollectionNames == Names \cup {Unfiled, More}
Handles == (STRING \X Nat) \cup Seq(STRING)
ProductRow == [id : STRING, valid : BOOLEAN, handle : Handles, word : STRING, names : Seq(CollectionNames),
               featured : BOOLEAN, landscape : BOOLEAN]
CollectionRow == [name : CollectionNames, slug : STRING, sort : Int]

ASSUME ViewConstants ==
    /\ ProductRows \subseteq ProductRow /\ CollectionRows \subseteq CollectionRow
    /\ STUDIO_ORDER \in Seq(CollectionNames) /\ REFERENCE_ORDER \in Seq(CollectionNames)

VARIABLES
    products,       \* Products: [id, valid, handle, word, names, featured, landscape]
    collections     \* Collections: [name, slug or "", sort]

sheetVars == <<products, collections>>

SheetInit == products = <<>> /\ collections = <<>>

\* The owner types a product's row, which the parser may refuse.
TypeProduct(row) ==
    /\ Len(products) < MaxProducts
    /\ products' = Append(products, row)
    /\ UNCHANGED collections

\* The order between the two tabs makes no difference to a read.
TypeCollection(row) ==
    /\ Len(collections) < MaxCollections /\ products = <<>>
    /\ collections' = Append(collections, row)
    /\ UNCHANGED products

-----------------------------------------------------------------------------
(* parse.ts                                                                *)

\* One product's row: ignored without an id, reported when it is not valid or its id was seen, else
\* kept under a slug that counts how often its word came before.
parseProduct(sofar, row) ==
    LET base == IF row.handle # NoHandle THEN row.handle ELSE <<row.word>>
        before == IF base \in DOMAIN sofar.slugs THEN sofar.slugs[base] ELSE 0
        slug == IF before > 0 THEN Append(base, before + 1) ELSE base
        ids == {sofar.items[i].id : i \in DOMAIN sofar.items}
    IN  IF row.id = "" THEN sofar
        ELSE IF ~row.valid \/ row.id \in ids THEN [sofar EXCEPT !.dropped = Append(@, row)]
        ELSE [items |-> Append(sofar.items,
                  [id |-> row.id, slug |-> slug, names |-> row.names,
                   featured |-> row.featured, landscape |-> row.landscape]),
              dropped |-> sofar.dropped,
              slugs |-> [s \in DOMAIN sofar.slugs \cup {base} |->
                            IF s = base THEN before + 1 ELSE sofar.slugs[s]]]

NoneParsed == [items |-> <<>>, dropped |-> <<>>, slugs |-> [s \in {} |-> 0]]
parseProducts == FoldLeft(parseProduct, NoneParsed, products)
Rugs == parseProducts.items

\* A row without a slug gets one from its name.
parseCollection(row) == [name |-> row.name, slug |-> IF row.slug = "" THEN row.name.word ELSE row.slug, sort |-> row.sort]
Collections == [i \in DOMAIN collections |-> parseCollection(collections[i])]

-----------------------------------------------------------------------------
(* text.ts and view.ts: which tab a rug is under                           *)

displayCollection(name) == IF name = Unfiled THEN More ELSE name

\* The slug of the first row of that name, else the name's own.
collectionSlug(name, rows) ==
    LET shown == displayCollection(name)
        hit == SelectInSeq(rows, LAMBDA c : c.name.key = shown.key)
    IN  IF hit # 0 THEN rows[hit].slug ELSE shown.word

\* Mutant of Named: a rug without a collection is under no name.
NamedOnly(rug) == rug.names

Named(rug) == IF rug.names = <<>> THEN <<Unfiled>> ELSE rug.names
AddNew(list, x) == IF Contains(list, x) THEN list ELSE Append(list, x)
AddAll(list, more) == FoldLeft(AddNew, list, more)
AddEach(list, lists) == FoldLeft(AddAll, list, lists)

\* De-duplicated by slug, in the order the owner listed them; the first is the primary.
collectionSlugs(rug, rows) ==
    AddAll(<<>>, [i \in DOMAIN Named(rug) |-> collectionSlug(Named(rug)[i], rows)])

\* The names on the rugs, every name once, with their slugs.
Present(rugs, rows) ==
    LET names == AddEach(<<>>, [i \in DOMAIN rugs |-> Named(rugs[i])])
    IN  [i \in DOMAIN names |-> [name |-> names[i], slug |-> collectionSlug(names[i], rows)]]

\* The rows of Collections by sort_order; the order of equals is left out.
Ordered(rows) ==
    LET Before(i, j) == rows[i].sort < rows[j].sort \/ (rows[i].sort = rows[j].sort /\ i < j)
    IN  [n \in DOMAIN rows |-> rows[CHOOSE j \in DOMAIN rows : Cardinality({i \in DOMAIN rows : Before(i, j)}) = n - 1]]

\* The first name of this slug among those present, if there is one.
FirstOf(present, at) == IF at = 0 THEN <<>> ELSE <<present[at]>>
Exactly(slug, present) == FirstOf(present, SelectInSeq(present, LAMBDA p : p.slug = slug))
Loosely(slug, present) == FirstOf(present, SelectInSeq(present, LAMBDA p : Singular(p.slug) = Singular(slug)))

\* The studio's fixed order, matched loosely when no slug is the same.
StudioHits(present, rows) ==
    LET Hit(slug) == IF Exactly(slug, present) # <<>> THEN Exactly(slug, present) ELSE Loosely(slug, present)
    IN  [i \in DOMAIN STUDIO_ORDER |-> Hit(collectionSlug(STUDIO_ORDER[i], rows))]

\* The Collections rows in their order, or without any the reference order.
SheetHits(present, rows) ==
    LET order == IF rows = <<>> THEN REFERENCE_ORDER ELSE [i \in DOMAIN rows |-> Ordered(rows)[i].name]
    IN  [i \in DOMAIN order |-> Exactly(collectionSlug(order[i], rows), present)]

\* The rest, whose order by name is left out.
Rest(present, sheet) == {p \in ToSet(present) : p.slug \notin {sheet[i].slug : i \in DOMAIN sheet}}

orderedCollections(rugs, rows) ==
    LET present == Present(rugs, rows)
        studio == AddEach(<<>>, StudioHits(present, rows))
        sheet == AddEach(studio, SheetHits(present, rows))
    IN  sheet \o SetToSeq(Rest(present, sheet))

\* A rug under the names that are shown: without any it is under More.
Displayed(rug) == [names |-> [i \in DOMAIN Named(rug) |-> displayCollection(Named(rug)[i])]]

\* One tab per slug, which counts the rugs that belong to it.
navTabs(rugs, rows) ==
    LET displayed == [i \in DOMAIN rugs |-> Displayed(rugs[i])]
        names == orderedCollections(displayed, rows)
        slugs == AddAll(<<>>, [i \in DOMAIN names |-> names[i].slug])
    IN  [t \in DOMAIN slugs |->
            [slug |-> slugs[t],
             count |-> Cardinality({i \in DOMAIN rugs : Contains(collectionSlugs(displayed[i], rows), slugs[t])})]]

-----------------------------------------------------------------------------
(* view.ts: the order of the grid                                          *)

cardViews(rugs, rows) ==
    [i \in DOMAIN rugs |->
        [id |-> rugs[i].id, run |-> collectionSlugs(rugs[i], rows)[1],
         fits |-> rugs[i].featured /\ rugs[i].landscape, lead |-> FALSE]]

\* Mutant of placeLead: the last card that fits.
placeLastLead(cards, run) ==
    LET mine == SelectSeq(cards, LAMBDA c : c.run = run)
        at == SelectLastInSeq(cards, LAMBDA c : c.run = run /\ c.fits)
        first == SelectInSeq(cards, LAMBDA c : c.run = run)
    IN  IF Len(mine) < 3 \/ at = 0 THEN cards
        ELSE InsertAt(RemoveAt(cards, at), first, [cards[at] EXCEPT !.lead = TRUE])

\* The first featured card of a run of three or more with a landscape plate goes to the run's front.
placeLead(cards, run) ==
    LET mine == SelectSeq(cards, LAMBDA c : c.run = run)
        at == SelectInSeq(cards, LAMBDA c : c.run = run /\ c.fits)
        first == SelectInSeq(cards, LAMBDA c : c.run = run)
    IN  IF Len(mine) < 3 \/ at = 0 THEN cards
        ELSE InsertAt(RemoveAt(cards, at), first, [cards[at] EXCEPT !.lead = TRUE])

withLeads(cards) ==
    LET runs == FoldLeft(LAMBDA list, c : AddNew(list, c.run), <<>>, cards)
    IN  FoldLeft(placeLead, [i \in DOMAIN cards |-> [cards[i] EXCEPT !.lead = FALSE]], runs)

-----------------------------------------------------------------------------
SheetNext ==
    \/ \E row \in ProductRows : TypeProduct(row)
    \/ \E row \in CollectionRows : TypeCollection(row)
SheetSpec == SheetInit /\ [][SheetNext]_sheetVars

-----------------------------------------------------------------------------
\* Every rug is on the wall under a tab; a tab's "count matches the cards the client filter shows"
\* (view.ts:274-275), which are the cards that carry its slug, and no tab is empty or there twice,
\* however the collections are spelled, slugged and listed.
TabsMatchTheWall ==
    LET rugs == Rugs
        rows == Collections
        carries == [i \in DOMAIN rugs |-> ToSet(collectionSlugs(rugs[i], rows))]
        tabs == navTabs(rugs, rows)
    IN  /\ \A i \in DOMAIN rugs : carries[i] # {}
        /\ \A t \in DOMAIN tabs :
              /\ tabs[t].count > 0
              /\ tabs[t].count = Cardinality({i \in DOMAIN rugs : tabs[t].slug \in carries[i]})
        /\ \A t, u \in DOMAIN tabs : t # u => tabs[t].slug # tabs[u].slug
        /\ \A i \in DOMAIN rugs : carries[i] \subseteq {tabs[t].slug : t \in DOMAIN tabs}

\* "Idempotent; everything else keeps its relative order" (view.ts:192-194): arranging the grid again
\* changes nothing, no card is lost or there twice, and a lead comes before its whole run.
LeadsFirst ==
    LET cards == cardViews(Rugs, Collections)
        led == withLeads(cards)
        leads == {led[i].id : i \in {j \in DOMAIN led : led[j].lead}}
        Others(list) == SelectSeq(list, LAMBDA c : c.id \notin leads)
    IN  /\ withLeads(led) = led
        /\ Len(led) = Len(cards) /\ Others(led) = Others(cards)
        /\ \A i, j \in DOMAIN led : led[i].lead /\ led[j].run = led[i].run => i <= j

\* "slugify(name) then -2, -3 ... against every existing slug (all statuses, same rule as parse.ts)"
\* (docs/ADMIN_SPEC.md:435): a slug finds one rug.
SlugsUnique ==
    LET rugs == Rugs IN \A i, j \in DOMAIN rugs : i # j => rugs[i].slug # rugs[j].slug
=============================================================================
