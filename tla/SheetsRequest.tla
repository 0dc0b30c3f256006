---------------------------- MODULE SheetsRequest ----------------------------
(***************************************************************************)
(* A request to the Sheets or the Drive API, and the repairs around it: a  *)
(* refusal that is known to have written nothing is tried again, an answer *)
(* that never came is not; a tab that was made anew is looked up again,    *)
(* and a Products grid that has become too narrow is widened.              *)
(***************************************************************************)
EXTENDS Integers, FiniteSets

CONSTANTS Calls,
          MaxAttempts,  \* of one request
          MaxTampers    \* bound: times the owner makes the tab anew, or takes its last columns away

ASSUME AttemptsAssumption == MaxAttempts \in Nat \ {0}

VARIABLES liveTab,      \* the tab in the spreadsheet: its id, and whether its grid is wide enough
          tampers,      \* times the owner changed it
          sheetIds,     \* the id the client remembers
          productWidthChecked,
          call,         \* what each caller is at
          landed        \* how often what it writes has landed

requestVars == <<liveTab, tampers, sheetIds, productWidthChecked, call, landed>>

None == 0
Idle == [at |-> "idle"]

\* Under way: the request it is at, its attempts, the id it writes with, what it last read of the tab,
\* the reply on its way, and whether the write is the second one; since counts what the owner had
\* done when it began.
Writes == {"insert", "product", "file"}

\* A process that has just started, or has been at work.
RequestInit ==
    /\ liveTab = [id |-> 1, wide |-> TRUE] /\ tampers = 0
    /\ sheetIds \in {None, liveTab.id} /\ productWidthChecked \in BOOLEAN
    /\ call = [c \in Calls |-> Idle] /\ landed = [c \in Calls |-> 0]

-----------------------------------------------------------------------------
\* The owner, in the spreadsheet.
Tamper ==
    /\ tampers < MaxTampers /\ tampers' = tampers + 1
    /\ \E wide \in BOOLEAN : liveTab' \in {[id |-> liveTab.id + 1, wide |-> wide], [liveTab EXCEPT !.wide = FALSE]}
    /\ UNCHANGED <<sheetIds, productWidthChecked, call, landed>>

\* Rows of votes and visits, the row of a product under the admin lock, a file of Drive.
UnderLock == \E d \in Calls : call[d].at \notin {"idle", "done"} /\ call[d].kind = "product"
sheetIdByTitle == IF sheetIds = None THEN "ids" ELSE "batch"
ensureProductWidth == IF productWidthChecked THEN sheetIdByTitle ELSE "grid"

Fresh == [id |-> None, wide |-> TRUE]
Sent(c, kind, since, again, asks, id, seen) ==
    call' = [call EXCEPT ![c] = [at |-> "sent", kind |-> kind, since |-> since, again |-> again, asks |-> asks, id |-> id,
                                 tries |-> 1, reply |-> "none", seen |-> seen]]

Starts(c) == \E kind \in Writes :
    /\ call[c] = Idle /\ (kind = "product" => ~UnderLock)
    /\ LET asks == CASE kind = "insert" -> sheetIdByTitle
                     [] kind = "product" -> ensureProductWidth
                     [] OTHER -> "batch"
       IN  Sent(c, kind, tampers, FALSE, asks, IF asks = "batch" /\ kind # "file" THEN sheetIds ELSE None, Fresh)
    /\ UNCHANGED <<liveTab, tampers, sheetIds, productWidthChecked, landed>>

\* The next request of the same call.
GoesOn(c, asks, id) == Sent(c, call[c].kind, call[c].since, call[c].again, asks, id, Fresh)
AsksOnceMore(c, asks, id) == Sent(c, call[c].kind, call[c].since, TRUE, asks, id, Fresh)

Ended(c, reply) == call' = [call EXCEPT ![c] = [at |-> "done", kind |-> @.kind, reply |-> reply, since |-> @.since]]

\* One token serves all the attempts of a request; without one there are none.
getAccessTokenFails(c) ==
    /\ call[c].at = "sent" /\ call[c].tries = 1 /\ Ended(c, "no token")
    /\ UNCHANGED <<liveTab, tampers, sheetIds, productWidthChecked, landed>>

idOf(q) == IF q.asks = "widen" THEN q.seen.id ELSE q.id
policy(asks) == IF asks \in {"ids", "grid"} THEN "read" ELSE "write"

Refusals(q) ==
    {"busy", "error"}
    \cup (IF q.kind # "file" /\ policy(q.asks) = "write" /\ idOf(q) # liveTab.id THEN {"stale"} ELSE {})
    \cup (IF q.asks = "batch" /\ q.kind = "product" /\ q.id = liveTab.id /\ ~liveTab.wide THEN {"narrow"} ELSE {})

\* At Google a batch is applied as a whole, or refused as a whole; the reply may be lost either way,
\* or be no answer of the API.
once(c) ==
    LET q == call[c]
        valid == Refusals(q) = {"busy", "error"}
    IN
    /\ q.at = "sent"
    /\ \/ /\ \E reply \in Refusals(q) \cup {"lost"} : (reply = "error" => valid)
             /\ call' = [call EXCEPT ![c] = [@ EXCEPT !.at = "answered", !.reply = reply]]
          /\ UNCHANGED <<liveTab, landed>>
       \/ /\ valid
          /\ \E reply \in {"ok", "lost", "garbled"} :
                call' = [call EXCEPT ![c] = [@ EXCEPT !.at = "answered", !.reply = reply,
                                                       !.seen = IF policy(q.asks) = "read" THEN liveTab ELSE q.seen]]
          /\ landed' = IF q.asks = "batch" THEN [landed EXCEPT ![c] = @ + 1] ELSE landed
          /\ liveTab' = IF q.asks = "widen" THEN [liveTab EXCEPT !.wide = TRUE] ELSE liveTab
    /\ UNCHANGED <<tampers, sheetIds, productWidthChecked>>

-----------------------------------------------------------------------------
\* The reply, in the process.
retryableAlways(q) == q.reply \in {"busy", "lost"}
retryable(q) == q.reply = "busy" \/ (q.reply = "lost" /\ policy(q.asks) = "read")

Again(c) ==
    /\ call[c].at = "answered" /\ retryable(call[c]) /\ call[c].tries < MaxAttempts
    /\ call' = [call EXCEPT ![c] = [@ EXCEPT !.at = "sent", !.tries = call[c].tries + 1, !.reply = "none"]]
    /\ UNCHANGED <<liveTab, tampers, sheetIds, productWidthChecked, landed>>

Succeeds(c) ==
    LET q == call[c] IN
    /\ q.at = "answered" /\ q.reply = "ok"
    /\ CASE q.asks = "ids" ->
              sheetIds' = q.seen.id /\ GoesOn(c, "batch", q.seen.id) /\ UNCHANGED productWidthChecked
         [] q.asks = "grid" /\ ~q.seen.wide ->
              Sent(c, q.kind, q.since, q.again, "widen", q.id, q.seen) /\ UNCHANGED <<sheetIds, productWidthChecked>>
         [] q.asks = "widen" \/ (q.asks = "grid" /\ q.seen.wide) ->
              /\ productWidthChecked' = TRUE /\ UNCHANGED sheetIds
              /\ IF q.again THEN GoesOn(c, "batch", q.id) ELSE GoesOn(c, sheetIdByTitle, sheetIds)
         [] OTHER -> Ended(c, "ok") /\ UNCHANGED <<sheetIds, productWidthChecked>>
    /\ UNCHANGED <<liveTab, tampers, landed>>

\* A tab that was made anew: rows of votes and visits are sent once more, a save is not.
onSheetIdError(c) ==
    LET q == call[c] IN
    /\ q.at = "answered" /\ q.reply = "stale" /\ q.asks = "batch"
    /\ IF q.kind = "insert" /\ ~q.again THEN AsksOnceMore(c, "ids", None) ELSE Ended(c, "stale")
    /\ sheetIds' = IF q.kind = "insert" /\ q.again THEN sheetIds ELSE None
    /\ UNCHANGED <<liveTab, tampers, productWidthChecked, landed>>

\* A grid that was found wide and is not: it is measured again, and the batch goes once more.
TooNarrow(q) == q.at = "answered" /\ q.reply = "narrow"

commitProductBatchAsMeasured(c) ==
    /\ TooNarrow(call[c]) /\ ~call[c].again
    /\ AsksOnceMore(c, "batch", call[c].id)
    /\ UNCHANGED <<liveTab, tampers, sheetIds, productWidthChecked, landed>>

commitProductBatch(c) ==
    /\ TooNarrow(call[c]) /\ ~call[c].again
    /\ productWidthChecked' = FALSE /\ AsksOnceMore(c, "grid", call[c].id)
    /\ UNCHANGED <<liveTab, tampers, sheetIds, landed>>

Fails(c) ==
    LET q == call[c] IN
    /\ q.at = "answered" /\ q.reply # "ok" /\ Ended(c, q.reply)
    /\ retryable(q) => q.tries = MaxAttempts
    /\ q.reply = "stale" => q.asks # "batch"
    /\ q.reply = "narrow" => q.again
    /\ UNCHANGED <<liveTab, tampers, sheetIds, productWidthChecked, landed>>

RequestNext ==
    \/ Tamper
    \/ \E c \in Calls : \/ Starts(c) \/ getAccessTokenFails(c) \/ once(c)
                        \/ Again(c) \/ Succeeds(c) \/ onSheetIdError(c) \/ commitProductBatch(c) \/ Fails(c)

RequestSpec == RequestInit /\ [][RequestNext]_requestVars

-----------------------------------------------------------------------------
Over(c) == call[c].at = "done"
Certain == {"busy", "error", "stale", "narrow", "no token"}

\* What a call writes lands once at most, has landed when the call succeeds, and has not when it was
\* refused; only a reply that was lost or unreadable leaves that open (client.ts:3-5).
WritesLandOnce == \A c \in Calls :
    /\ landed[c] <= 1
    /\ Over(c) /\ call[c].reply = "ok" => landed[c] = 1
    /\ Over(c) /\ call[c].reply \in Certain => landed[c] = 0

\* Rows of votes and visits are refused for the id of their tab, and a product for the width of its
\* grid, only when the owner changed the tab while they were on their way (write.ts:69, admin/write.ts:455).
RepairsItself == \A c \in Calls : Over(c) =>
    \/ ~(call[c].kind = "insert" /\ call[c].reply = "stale") /\ ~(call[c].reply = "narrow")
    \/ call[c].since < tampers
=============================================================================
