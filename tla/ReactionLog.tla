---------------------------- MODULE ReactionLog ----------------------------
(***************************************************************************)
(* The Reactions tab: an append-only log, newest row first, from which     *)
(* "who likes what" and the like counts are derived (parse.ts              *)
(* parseReactions, sheets/write.ts insertReactionRows).  Event ids,        *)
(* sources and timestamps are left out: nothing reads them back.  Dislikes *)
(* are refused by the endpoint, so a reaction is "like" or "none".         *)
(***************************************************************************)
EXTENDS Naturals, Sequences, FiniteSets, SequencesExt

CONSTANTS
    Visitors,   \* customer slugs and anonymous cookie hashes
    Products,   \* product ids in the catalogue
    WindowRows  \* how many of the newest rows a read of the tab returns

ASSUME LogConstants == WindowRows \in Nat /\ IsFiniteSet(Visitors)

Reaction == {"like", "none"}

\* The newest event of a pair decides it; a pair without events is "none".
Current(log, v, p) ==
    LET ofPair == {k \in DOMAIN log : log[k].who = v /\ log[k].product = p}
    IN  IF ofPair = {} THEN "none" ELSE log[Min(ofPair)].reaction

\* Distinct visitors who currently like a product.
Likers(log, p) == Cardinality({v \in Visitors : Current(log, v, p) = "like"})

\* What a refresh derives from the rows it was given.
Tally == [likes : [Products -> Nat], vote : [Visitors -> [Products -> Reaction]]]

parseReactions(log) ==
    [likes |-> [p \in Products |-> Likers(log, p)],
     vote  |-> [v \in Visitors |-> [p \in Products |-> Current(log, v, p)]]]

\* A read stops at the end of its window.
Window(log) == SubSeq(log, 1, IF Len(log) < WindowRows THEN Len(log) ELSE WindowRows)

\* Mutant of insertReactionRows: rows appended below the others.
appendReactionRows(log, rows) == log \o rows

\* One atomic insertDimension + updateCells below the header: rows[1] ends on top.
insertReactionRows(log, rows) == rows \o log
=============================================================================
