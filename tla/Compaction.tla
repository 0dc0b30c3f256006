----------------------------- MODULE Compaction -----------------------------
(***************************************************************************)
(* The reactions compactor (sheets/compact.ts), which the admin endpoint   *)
(* and the command line share: read the tab, append the superseded rows to *)
(* ReactionsArchive, rewrite the tab from the survivors, blank the tail.   *)
(* Four calls to the sheet, no lock: compactors overlap, any call may fail *)
(* with or without its effect, and a call given up on may still land.      *)
(*                                                                         *)
(* "Manual, never automatic, never while a buyer is active": React waits   *)
(* until no compactor and no late call is left.                            *)
(***************************************************************************)
EXTENDS ReactionLog

CONSTANTS
    Compactors,   \* runs of compactReactions, from the endpoint or the command line
    MaxEvents     \* bound on the reactions recorded

ASSUME CompactionConstants == MaxEvents \in Nat

VARIABLES
    tab,      \* the data rows of Reactions, newest first
    archive,  \* the events that have a row in ReactionsArchive
    run,      \* the compactors
    late,     \* calls given up on that may still reach the sheet
    events    \* reactions recorded

compactionVars == <<tab, archive, run, late, events>>

Events == 1..MaxEvents

Row == [id : Events, who : Visitors, product : Products, reaction : Reaction]

\* A row whose cells are all empty: the sheet returns it below a filled one, the parser skips it.
Blank == [id |-> 0, who |-> "", product |-> "", reaction |-> ""]

NoRun == [pc |-> "idle", keep |-> <<>>, supersede |-> <<>>]

-----------------------------------------------------------------------------
(* planCompaction()                                                        *)

PairOf(row) == <<row.who, row.product>>

FirstOfPair(rows, k) == \A j \in 1..(k - 1) : PairOf(rows[j]) # PairOf(rows[k])
LastOfPair(rows, k) == \A j \in (k + 1)..Len(rows) : PairOf(rows[j]) # PairOf(rows[k])

\* The rows at these places, in their order: the n-th is the one with n of the places up to it.
RowsAt(rows, places) ==
    [n \in 1..Cardinality(places) |-> rows[CHOOSE k \in places : Cardinality({j \in places : j <= k}) = n]]

\* Mutant of planCompaction: the oldest row of a pair is kept.
planCompactionOldest(rows) ==
    [keep      |-> RowsAt(rows, {k \in DOMAIN rows : LastOfPair(rows, k)}),
     supersede |-> RowsAt(rows, {k \in DOMAIN rows : ~LastOfPair(rows, k)})]

\* The first row seen for a pair is kept.
planCompaction(rows) ==
    [keep      |-> RowsAt(rows, {k \in DOMAIN rows : FirstOfPair(rows, k)}),
     supersede |-> RowsAt(rows, {k \in DOMAIN rows : ~FirstOfPair(rows, k)})]

\* values.get leaves out the empty rows at the end of its range.
Trimmed(rows) == SubSeq(rows, 1, Max({0} \cup {k \in 1..Len(rows) : rows[k] # Blank}))

-----------------------------------------------------------------------------
(* what a call does to the sheet                                           *)

\* Cells from..from+Len(rows)-1 take the rows, the others stay.
Overwritten(from, rows) ==
    [k \in 1..(IF Len(tab) < from + Len(rows) - 1 THEN from + Len(rows) - 1 ELSE Len(tab)) |->
        IF k \in from..(from + Len(rows) - 1) THEN rows[k - from + 1] ELSE tab[k]]

Call(do, from, rows) == [do |-> do, from |-> from, rows |-> rows]

Archive(r) == Call("archive", 0, r.supersede)
Rewrite(r) == Call("write", 1, r.keep)

\* The rows the survivors no longer occupy, as far as they were read.
BlankTail(r) == Call("write", Len(r.keep) + 1, [k \in 1..Len(r.supersede) |-> Blank])

\* Mutants of NextCall: the tab rewritten before the archive has the history, the
\* tail blanked one row too early or from the top of the tab, the tail left as it is.
NextCallRewritesFirst(r) ==
    CASE r.pc = "planned" -> Rewrite(r) [] r.pc = "archived" -> Archive(r) [] OTHER -> BlankTail(r)
NextCallBlanksEarly(r) ==
    CASE r.pc = "planned" -> Archive(r) [] r.pc = "archived" -> Rewrite(r)
      [] OTHER -> Call("write", Len(r.keep), [k \in 1..(Len(r.supersede) + 1) |-> Blank])
NextCallBlanksTop(r) ==
    CASE r.pc = "planned" -> Archive(r) [] r.pc = "archived" -> Rewrite(r)
      [] OTHER -> Call("write", 1, [k \in 1..Len(r.supersede) |-> Blank])
NextCallKeepsTail(r) ==
    CASE r.pc = "planned" -> Archive(r) [] OTHER -> Rewrite(r)

\* The archive first, so that a failure leaves history twice and never nowhere.
NextCall(r) ==
    CASE r.pc = "planned" -> Archive(r) [] r.pc = "archived" -> Rewrite(r) [] OTHER -> BlankTail(r)

Apply(call) ==
    \/ /\ call.do = "archive"
       /\ archive' = archive \cup {call.rows[k].id : k \in 1..Len(call.rows)}
       /\ UNCHANGED tab
    \/ /\ call.do = "write"
       /\ tab' = Trimmed(Overwritten(call.from, call.rows))
       /\ UNCHANGED archive

-----------------------------------------------------------------------------
CompactionInit ==
    /\ tab = <<>>
    /\ archive = {}
    /\ run = [c \in Compactors |-> NoRun]
    /\ late = {}
    /\ events = 0

Quiet == late = {} /\ \A c \in Compactors : run[c].pc = "idle"

\* A buyer reacts while nobody compacts.
React ==
    /\ Quiet
    /\ events < MaxEvents
    /\ events' = events + 1
    /\ \E v \in Visitors, p \in Products, x \in Reaction :
         /\ Current(tab, v, p) # x
         /\ tab' = insertReactionRows(tab, <<[id |-> events + 1, who |-> v, product |-> p, reaction |-> x]>>)
    /\ UNCHANGED <<archive, run, late>>

\* batchGet and planCompaction(); with nothing superseded nothing is written.
Plan(c) ==
    LET plan == planCompaction(tab)
    IN  /\ run[c].pc = "idle"
        /\ plan.supersede # <<>>
        /\ run' = [run EXCEPT ![c] = [pc |-> "planned", keep |-> plan.keep, supersede |-> plan.supersede]]
        /\ UNCHANGED <<tab, archive, late, events>>

After(r) ==
    CASE r.pc = "planned"  -> [r EXCEPT !.pc = "archived"]
      [] r.pc = "archived" -> [r EXCEPT !.pc = "rewritten"]
      [] OTHER             -> NoRun

\* The next of the three writes succeeds.
Write(c) ==
    /\ run[c].pc # "idle"
    /\ Apply(NextCall(run[c]))
    /\ run' = [run EXCEPT ![c] = After(@)]
    /\ UNCHANGED <<late, events>>

\* The next write fails, or the process dies: its effect happened, will happen or will not.
WriteFails(c) ==
    LET call == NextCall(run[c])
    IN  /\ run[c].pc # "idle"
        /\ \/ Apply(call) /\ UNCHANGED late
           \/ late' = late \cup {call} /\ UNCHANGED <<tab, archive>>
           \/ UNCHANGED <<tab, archive, late>>
        /\ run' = [run EXCEPT ![c] = NoRun]
        /\ UNCHANGED <<events>>

LateLands ==
    \E call \in late :
        /\ Apply(call)
        /\ late' = late \ {call}
        /\ UNCHANGED <<run, events>>

CompactionNext ==
    \/ React \/ LateLands
    \/ \E c \in Compactors : Plan(c) \/ Write(c) \/ WriteFails(c)

CompactionSpec == CompactionInit /\ [][CompactionNext]_compactionVars

-----------------------------------------------------------------------------
(* properties                                                              *)

CompactionTypeOK ==
    /\ tab \in Seq(Row \cup {Blank})
    /\ archive \subseteq Events
    /\ run \in [Compactors -> [pc : {"idle", "planned", "archived", "rewritten"},
                               keep : Seq(Row), supersede : Seq(Row)]]
    /\ events \in 0..MaxEvents

Votes == [pair \in Visitors \X Products |-> Current(tab, pair[1], pair[2])]

\* Only a reaction changes what the log says: every step of a compactor, a failed one
\* and a late one too, leaves every vote as it is.
Register == INSTANCE VoteRegister WITH vote <- Votes, recorded <- events
RefinesVoteRegister == Register!RegisterSpec

\* No reaction is ever lost: its row is in the tab or in the archive at every moment.
HistoryConserved ==
    \A e \in 1..events : e \in archive \/ \E k \in 1..Len(tab) : tab[k].id = e

\* Once a run ends with nobody else at work, another run finds nothing to do.
SafeToRunTwice ==
    [][\A c \in Compactors :
         Write(c) /\ run'[c].pc = "idle" /\ Quiet' => planCompaction(tab').supersede = <<>>]_compactionVars

\* What the site reads is a window of the newest rows: a compactor reveals older pairs
\* to it and never hides or changes a pair it already shows.
WindowOnlyGrows ==
    [][events' = events =>
         \A k \in 1..Len(Window(tab)) :
            LET row == tab[k]
            IN  Current(Window(tab'), row.who, row.product) = Current(Window(tab), row.who, row.product)]_compactionVars
=============================================================================
