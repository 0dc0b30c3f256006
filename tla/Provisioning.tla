---------------------------- MODULE Provisioning ----------------------------
(***************************************************************************)
(* Structuring the spreadsheet (lib/sheets/provision.ts, upgrade.ts): the  *)
(* phases that bring a sheet up to the contract, each a call that may      *)
(* fail, before or after it took effect, and be run again from the top.    *)
(* Four tabs stand for the ten.  What the reads return is the sheet        *)
(* itself: nobody else touches it meanwhile.                               *)
(***************************************************************************)
EXTENDS Naturals, Sequences

CONSTANTS MaxStops   \* bound

ALL_TABS == <<"Products", "Collections", "Tags", "Rates">>
Tabs == {ALL_TABS[i] : i \in DOMAIN ALL_TABS}

\* A header row: as the contract says, shorter, empty, another's, the Collections layout from
\* before the brief, or that layout with its columns moved and its labels not yet written.
Header == {"right", "short", "blank", "wrong", "legacy", "moved"}

VARIABLES
    tabs, header, wide, formatted,
    rows,           \* tabs that have data rows
    badges,         \* the badge tags are there
    seedMode, force,    \* the options of the run
    phase,
    moved,          \* local: this run upgraded Collections, so its header counts as blank
    seeding,        \* local: Products was empty when the data was read
    stops,
    torn            \* history: a run stopped inside one of the two repairs that take several calls

sheetVars == <<tabs, header, wide, formatted, rows, badges>>
options == <<seedMode, force>>
provisionVars == <<sheetVars, options, phase, moved, seeding, stops, torn>>

ProvisionInit ==
    /\ \/ /\ tabs = {} /\ header = [t \in Tabs |-> "blank"] /\ rows = {} /\ wide = FALSE
       \/ /\ tabs = Tabs /\ rows \in {{}, {"Products", "Collections"}} /\ wide \in BOOLEAN
          /\ \E p \in {"right", "short", "wrong"}, c \in {"right", "legacy"} :
                header = [t \in Tabs |-> CASE t = "Products" -> p [] t = "Collections" -> c
                                           [] OTHER -> "right"]
          /\ header["Products"] = "right" => wide
    /\ formatted = FALSE /\ badges = FALSE
    /\ seedMode \in {"live", "none"} /\ force \in BOOLEAN
    /\ phase = "stopped"
    /\ moved = FALSE /\ seeding = FALSE
    /\ stops = 0 /\ torn = FALSE

-----------------------------------------------------------------------------
(* what each call does to the sheet                                        *)

AddTabs == tabs' = Tabs /\ UNCHANGED <<header, wide, formatted, rows, badges>>
Widen == wide' = TRUE /\ UNCHANGED <<tabs, header, formatted, rows, badges>>
SetHeader(t, h) == header' = [header EXCEPT ![t] = h] /\ UNCHANGED <<tabs, wide, formatted, rows, badges>>
FormatAndProtect == formatted' = TRUE /\ UNCHANGED <<tabs, header, wide, rows, badges>>
SeedRows(t) ==
    /\ rows' = rows \cup {t}
    /\ badges' = (badges \/ t = "Tags")
    /\ UNCHANGED <<tabs, header, wide, formatted>>
AddBadges == badges' = TRUE /\ rows' = rows \cup {"Tags"} /\ UNCHANGED <<tabs, header, wide, formatted>>

\* Columns moved and inserted with their data; the labels come next.
UpgradeCollections == SetHeader("Collections", "moved")

-----------------------------------------------------------------------------
(* the run                                                                 *)

\* A call that takes effect, after which the run goes on.
Call(effect, next) == effect /\ phase' = next /\ UNCHANGED <<stops, torn, seeding>>

\* A phase with nothing to do.
Skip(next) == phase' = next /\ UNCHANGED <<sheetVars, stops, torn, seeding>>

Run == phase = "stopped" /\ phase' = "tabs" /\ moved' = FALSE /\ seeding' = FALSE
       /\ UNCHANGED <<sheetVars, options, stops, torn>>

CreateTabs ==
    /\ phase = "tabs"
    /\ IF Tabs \subseteq tabs THEN Skip("columns") ELSE Call(AddTabs, "columns")
    /\ UNCHANGED <<options, moved>>

WidenProducts ==
    /\ phase = "columns"
    /\ IF wide THEN Skip("upgrade") ELSE Call(Widen, "upgrade")
    /\ UNCHANGED <<options, moved>>

Upgrade ==
    /\ phase = "upgrade"
    /\ IF header["Collections"] = "legacy"
       THEN Call(UpgradeCollections, "headers") /\ moved' = TRUE
       ELSE Skip("headers") /\ UNCHANGED moved
    /\ UNCHANGED options

\* The tab whose header is next in the loop, if any is not right.
Pending == {i \in DOMAIN ALL_TABS : header[ALL_TABS[i]] # "right"}
NextTab == ALL_TABS[CHOOSE i \in Pending : \A j \in Pending : i <= j]
\* Mutant of Writable: a header that only lacks its last labels is left to a human.
WritableWhenBlank(t) == header[t] = "blank" \/ (moved /\ t = "Collections") \/ force

Writable(t) == header[t] \in {"short", "blank"} \/ (moved /\ t = "Collections") \/ force

WriteHeaders ==
    /\ phase = "headers"
    /\ IF Pending = {} THEN Skip("formats")
       ELSE IF Writable(NextTab) THEN Call(SetHeader(NextTab, "right"), "headers")
       ELSE Skip("refused")
    /\ UNCHANGED <<options, moved>>

Format ==
    /\ phase = "formats"
    /\ Call(FormatAndProtect, "data")
    /\ UNCHANGED <<options, moved>>

\* Rates and Settings when empty; whether Products is empty is read here, once.
SeedRates ==
    /\ phase = "data"
    /\ phase' = "products"
    /\ IF "Rates" \in rows THEN UNCHANGED sheetVars ELSE SeedRows("Rates")
    /\ seeding' = (seedMode # "none" /\ "Products" \notin rows)
    /\ UNCHANGED <<options, moved, stops, torn>>

SeedOrder == [products |-> "Products", collections |-> "Collections", tags |-> "Tags"]
AfterSeed == [products |-> "collections", collections |-> "tags", tags |-> "verify"]

Seed ==
    /\ phase \in DOMAIN SeedOrder
    /\ IF seeding THEN Call(SeedRows(SeedOrder[phase]), AfterSeed[phase]) ELSE Skip("badges")
    /\ UNCHANGED <<options, moved>>

BadgeTags ==
    /\ phase = "badges"
    /\ IF badges THEN Skip("verify") ELSE Call(AddBadges, "verify")
    /\ UNCHANGED <<options, moved>>

Verify ==
    /\ phase = "verify"
    /\ Skip(IF header["Products"] = "right" THEN "done" ELSE "refused")
    /\ UNCHANGED <<options, moved>>

Steps ==
    \/ CreateTabs \/ WidenProducts \/ Upgrade \/ WriteHeaders \/ Format
    \/ SeedRates \/ Seed \/ BadgeTags \/ Verify

\* A call fails, or its answer is lost after it took effect: the run throws.
CallFails ==
    /\ stops < MaxStops
    /\ phase \notin {"stopped", "done", "refused"}
    /\ stops' = stops + 1
    /\ phase' = "stopped"
    /\ \/ UNCHANGED sheetVars
       \/ phase = "tabs" /\ AddTabs
       \/ phase = "columns" /\ Widen
       \/ phase = "upgrade" /\ header["Collections"] = "legacy" /\ UpgradeCollections
       \/ phase = "headers" /\ Pending # {} /\ Writable(NextTab) /\ SetHeader(NextTab, "right")
       \/ phase = "formats" /\ FormatAndProtect
       \/ phase = "data" /\ "Rates" \notin rows /\ SeedRows("Rates")
       \/ phase = "badges" /\ ~badges /\ AddBadges
       \/ phase \in DOMAIN SeedOrder /\ seeding /\ SeedRows(SeedOrder[phase])
    /\ torn' = (torn \/ header'["Collections"] = "moved"
                     \/ (seeding /\ "Products" \in rows' /\ "Tags" \notin rows'))
    /\ UNCHANGED <<options, moved, seeding>>

ProvisionNext == Run \/ Steps \/ CallFails

\* The owner, or the developer, runs it again until it is done or says what to fix.
ProvisionFairness == WF_provisionVars(Run) /\ WF_provisionVars(Steps)
ProvisionSpec == ProvisionInit /\ [][ProvisionNext]_provisionVars /\ ProvisionFairness

-----------------------------------------------------------------------------
Complete ==
    /\ tabs = Tabs /\ wide /\ formatted /\ badges
    /\ \A t \in Tabs : header[t] = "right"
    /\ "Rates" \in rows
    /\ seedMode = "live" => {"Products", "Collections", "Tags"} \subseteq rows

\* Running it again repairs what a run left half done, wherever it stopped: unless inside one
\* of the two repairs of several calls, or for a header only a human can judge
\* (provision.ts:10-12, :97-355).
RerunRepairs ==
    <>[](phase = "done" /\ Complete) \/ <>[](phase = "refused" /\ header["Products"] = "wrong") \/ <>torn

\* "Running it twice is how you repair a sheet whose first run failed halfway"
\* (provision.ts:11-12): with none of the exceptions but the wrong header.
RunTwiceIsRepair ==
    <>[](phase = "done" /\ Complete) \/ <>[](phase = "refused" /\ header["Products"] = "wrong")
=============================================================================
