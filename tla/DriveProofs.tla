---------------------------- MODULE DriveProofs -----------------------------
(***************************************************************************)
(* What holds of Google's Sheets and Drive as the code uses them, for any  *)
(* number of calls, attempts, imports, slots and photos: a write lands     *)
(* once at most and is refused only for what the owner changed under it,   *)
(* the row of a product counts the photos its folder has, and no photo is  *)
(* in the folder twice.                                                    *)
(***************************************************************************)
EXTENDS Photos, SheetsRequest, WellFoundedInduction, FiniteSetTheorems, TLAPS

-----------------------------------------------------------------------------
(* Requests to Sheets and Drive                                            *)

Asks == {"ids", "grid", "widen", "batch"}
Replies == {"none", "ok", "lost", "garbled", "busy", "error", "stale", "narrow"}
Tab == [id : Nat, wide : BOOLEAN]
UnderWay == [at : {"sent", "answered"}, kind : Writes, since : Nat, again : BOOLEAN, asks : Asks, id : Nat,
             tries : Nat, reply : Replies, seen : Tab]
Finished == [at : {"done"}, kind : Writes, reply : Replies \cup {"no token"}, since : Nat]

RequestTypeOK ==
    /\ liveTab \in Tab /\ tampers \in Nat /\ sheetIds \in Nat /\ productWidthChecked \in BOOLEAN
    /\ call \in [Calls -> {Idle} \cup UnderWay \cup Finished]
    /\ landed \in [Calls -> Nat]

\* What a call under way asks for: only the row of a product has to do with the width of the grid, and
\* its second batch is sent without asking for the id again.
AsksItsOwn(q) ==
    /\ q.kind = "file" => q.asks = "batch"
    /\ q.kind = "insert" => q.asks \in {"ids", "batch"}
    /\ q.kind = "product" /\ q.again => q.asks # "ids"
    /\ q.reply = "narrow" => q.kind = "product" /\ q.asks = "batch"
    /\ q.reply = "stale" => q.asks \in {"widen", "batch"}
    /\ q.at = "sent" => q.reply = "none"
    /\ q.at = "answered" => q.reply # "none"

\* Nothing has landed of a call before its batch is answered, nor when the answer is a refusal.
LandedSoFar(c) ==
    /\ call[c].at \in {"idle", "sent"} => landed[c] = 0
    /\ call[c].at = "answered" =>
          /\ landed[c] <= 1
          /\ call[c].asks # "batch" \/ call[c].reply \in Certain => landed[c] = 0
          /\ call[c].asks = "batch" /\ call[c].reply = "ok" => landed[c] = 1
    /\ Over(c) =>
          /\ landed[c] <= 1
          /\ call[c].reply = "ok" => landed[c] = 1
          /\ call[c].reply \in Certain => landed[c] = 0

\* While the owner leaves the tab alone, what a call read of it is true of it, and so is what it did
\* about it: the second batch of a call goes to the right id, and into a grid that is wide.
TrueUnlessTampered(q) ==
    q.since = tampers =>
        /\ q.asks \in {"ids", "grid"} /\ q.reply = "ok" => q.seen.id = liveTab.id /\ (q.seen.wide => liveTab.wide)
        /\ q.asks = "widen" /\ q.reply = "ok" => liveTab.wide
        /\ q.kind = "insert" /\ q.again /\ q.asks = "batch" => q.id = liveTab.id /\ q.reply # "stale"
        /\ q.kind = "product" /\ q.again /\ q.asks = "batch" => liveTab.wide /\ q.reply # "narrow"

EndsRepaired(q) ==
    q.since = tampers => ~(q.kind = "insert" /\ q.reply = "stale") /\ q.reply # "narrow"

CallInv(c) ==
    /\ LandedSoFar(c)
    /\ call[c] # Idle => call[c].since <= tampers
    /\ call[c].at \in {"sent", "answered"} => AsksItsOwn(call[c]) /\ TrueUnlessTampered(call[c])
    /\ Over(c) => EndsRepaired(call[c])

RequestInv == RequestTypeOK /\ \A c \in Calls : CallInv(c)

LEMMA RequestNumbers == MaxAttempts \in Nat /\ None = 0 /\ Fresh \in Tab /\ Idle.at = "idle"
  BY AttemptsAssumption DEF None, Fresh, Tab, Idle

\* A call that a step leaves alone is as before, so long as the owner did not act and the tab only
\* became wider.
LEMMA CallLeftAlone ==
    ASSUME RequestTypeOK, NEW d \in Calls, CallInv(d),
           call'[d] = call[d], landed'[d] = landed[d], tampers' = tampers,
           liveTab'.id = liveTab.id, liveTab.wide => liveTab'.wide
    PROVE  CallInv(d)'
  <1>1. LandedSoFar(d)'
    BY DEF CallInv, LandedSoFar, Over
  <1>2. (call[d] # Idle => call[d].since <= tampers)'
    BY DEF CallInv
  <1>3. (call[d].at \in {"sent", "answered"} => AsksItsOwn(call[d]) /\ TrueUnlessTampered(call[d]))'
    BY DEF CallInv, AsksItsOwn, TrueUnlessTampered
  <1>4. (Over(d) => EndsRepaired(call[d]))'
    BY DEF CallInv, EndsRepaired, Over
  <1> QED BY <1>1, <1>2, <1>3, <1>4 DEF CallInv

\* So a step of one call that leaves the tab, or widens it, has to be looked at for that call only.
LEMMA OneCallSteps ==
    ASSUME RequestInv, NEW c \in Calls, NEW q,
           call' = [call EXCEPT ![c] = q], \A d \in Calls \ {c} : landed'[d] = landed[d],
           tampers' = tampers, liveTab'.id = liveTab.id, liveTab.wide => liveTab'.wide,
           RequestTypeOK', CallInv(c)'
    PROVE  RequestInv'
  <1> SUFFICES ASSUME NEW d \in Calls PROVE CallInv(d)'
    BY DEF RequestInv
  <1>1. CASE d = c
    BY <1>1
  <1>2. CASE d # c
    <2>1. call'[d] = call[d] /\ landed'[d] = landed[d]
      BY <1>2 DEF RequestInv, RequestTypeOK
    <2> QED BY <2>1, CallLeftAlone DEF RequestInv
  <1> QED BY <1>1, <1>2

\* The forms a call may be in.
LEMMA CallForms ==
    ASSUME RequestTypeOK, NEW c \in Calls
    PROVE  /\ call[c] \in {Idle} \cup UnderWay \cup Finished
           /\ call[c].at = "idle" <=> call[c] = Idle
           /\ call[c].at \in {"sent", "answered"} <=> call[c] \in UnderWay
           /\ Over(c) <=> call[c] \in Finished
  <1>1. Idle.at = "idle"
    BY DEF Idle
  <1>2. \A q \in UnderWay : q.at \in {"sent", "answered"}
    BY DEF UnderWay
  <1>3. \A q \in Finished : q.at = "done"
    BY DEF Finished
  <1>4. call[c] \in {Idle} \cup UnderWay \cup Finished
    BY DEF RequestTypeOK
  <1> QED BY <1>1, <1>2, <1>3, <1>4 DEF Over

\* A tab made anew, one whose last columns were taken away and one that was widened are tabs.
LEMMA TabForms ==
    /\ \A t \in Tab, wide \in BOOLEAN : [t EXCEPT !.wide = wide] \in Tab /\ [t EXCEPT !.wide = wide].id = t.id
                                   /\ [t EXCEPT !.wide = wide].wide = wide
    /\ \A t \in Tab, wide \in BOOLEAN : [id |-> t.id + 1, wide |-> wide] \in Tab
  BY DEF Tab

LEMMA RequestInitInv == RequestInit => RequestInv
  BY DEF RequestInit, RequestInv, RequestTypeOK, CallInv, LandedSoFar, Over, Idle, Tab, None

LEMMA TamperKeepsInv ==
    ASSUME RequestInv, Tamper
    PROVE  RequestInv'
  <1>1. RequestTypeOK'
    <2>1. liveTab \in Tab /\ tampers \in Nat
      BY DEF RequestInv, RequestTypeOK
    <2>2. PICK wide \in BOOLEAN : liveTab' = [id |-> liveTab.id + 1, wide |-> wide] \/ liveTab' = [liveTab EXCEPT !.wide = FALSE]
      BY DEF Tamper
    <2>3. liveTab' \in Tab
      BY <2>1, <2>2, TabForms
    <2>4. tampers' \in Nat /\ sheetIds' = sheetIds /\ productWidthChecked' = productWidthChecked /\ call' = call
          /\ landed' = landed
      BY <2>1 DEF Tamper
    <2> QED BY <2>3, <2>4 DEF RequestInv, RequestTypeOK
  <1>2. ASSUME NEW d \in Calls PROVE CallInv(d)'
    <2>1. CallInv(d) /\ tampers \in Nat /\ tampers' = tampers + 1 /\ call' = call /\ landed' = landed
      BY DEF RequestInv, RequestTypeOK, Tamper
    <2>2. call[d] # Idle => call[d].since \in Nat /\ call[d].since # tampers' /\ call[d].since <= tampers'
      <3>1. call[d] # Idle => call[d] \in UnderWay \/ call[d] \in Finished
        BY CallForms DEF RequestInv
      <3>2. call[d] # Idle => call[d].since \in Nat
        BY <3>1 DEF UnderWay, Finished
      <3> QED BY <2>1, <3>2 DEF CallInv
    <2>3. call[d].at \in {"sent", "answered"} \/ Over(d) => call[d] # Idle
      BY DEF Idle, Over
    <2> QED BY <2>1, <2>2, <2>3 DEF CallInv, LandedSoFar, TrueUnlessTampered, EndsRepaired, AsksItsOwn, Over
  <1> QED BY <1>1, <1>2 DEF RequestInv

\* The request a call sends next is of the form of one, whatever it asks for.
LEMMA SentIsUnderWay ==
    ASSUME NEW kind \in Writes, NEW since \in Nat, NEW again \in BOOLEAN, NEW asks \in Asks, NEW id \in Nat,
           NEW seen \in Tab
    PROVE  [at |-> "sent", kind |-> kind, since |-> since, again |-> again, asks |-> asks, id |-> id,
            tries |-> 1, reply |-> "none", seen |-> seen] \in UnderWay
  BY DEF UnderWay, Replies

\* A call may send its next request: nothing of it has landed, it asks for what is its own, and
\* while the owner leaves the tab alone its second batch is right.
LEMMA SentKeepsInv ==
    ASSUME RequestInv, NEW c \in Calls, NEW kind \in Writes, NEW since \in Nat, NEW again \in BOOLEAN,
           NEW asks \in Asks, NEW id \in Nat, NEW seen \in Tab,
           Sent(c, kind, since, again, asks, id, seen),
           landed[c] = 0, since <= tampers,
           kind = "file" => asks = "batch",
           kind = "insert" => asks \in {"ids", "batch"},
           kind = "product" /\ again => asks # "ids",
           since = tampers /\ kind = "insert" /\ again /\ asks = "batch" => id = liveTab.id,
           since = tampers /\ kind = "product" /\ again /\ asks = "batch" => liveTab.wide,
           sheetIds' \in Nat, productWidthChecked' \in BOOLEAN,
           liveTab' = liveTab, tampers' = tampers, landed' = landed
    PROVE  RequestInv'
  <1> DEFINE q == [at |-> "sent", kind |-> kind, since |-> since, again |-> again, asks |-> asks, id |-> id,
                   tries |-> 1, reply |-> "none", seen |-> seen]
  <1>1. q \in UnderWay
    BY SentIsUnderWay
  <1>2. call' = [call EXCEPT ![c] = q]
    BY DEF Sent
  <1>3. /\ q.at = "sent" /\ q.kind = kind /\ q.since = since /\ q.again = again /\ q.asks = asks /\ q.id = id
        /\ q.reply = "none"
    OBVIOUS
  <1> HIDE DEF q
  <1>4. RequestTypeOK'
    BY <1>1, <1>2 DEF RequestInv, RequestTypeOK
  <1>5. call'[c] = q
    BY <1>2 DEF RequestInv, RequestTypeOK
  <1>6. CallInv(c)'
    BY <1>3, <1>5 DEF CallInv, LandedSoFar, AsksItsOwn, TrueUnlessTampered, Over
  <1> QED BY <1>2, <1>4, <1>6, OneCallSteps

\* A call ends: what has landed of it is what its reply says, and a refusal was not for want of repair.
LEMMA EndedKeepsInv ==
    ASSUME RequestInv, NEW c \in Calls, NEW reply \in Replies \cup {"no token"}, Ended(c, reply),
           call[c] \in UnderWay,
           landed[c] <= 1,
           reply = "ok" => landed[c] = 1,
           reply \in Certain => landed[c] = 0,
           call[c].since = tampers => ~(call[c].kind = "insert" /\ reply = "stale") /\ reply # "narrow",
           sheetIds' \in Nat, productWidthChecked' \in BOOLEAN,
           liveTab' = liveTab, tampers' = tampers, landed' = landed
    PROVE  RequestInv'
  <1> DEFINE q == [at |-> "done", kind |-> call[c].kind, reply |-> reply, since |-> call[c].since]
  <1>1. call[c].kind \in Writes /\ call[c].since \in Nat
    BY DEF UnderWay
  <1>2. q \in Finished
    BY <1>1 DEF Finished
  <1>3. call' = [call EXCEPT ![c] = q]
    BY DEF Ended
  <1>4. q.at = "done" /\ q.kind = call[c].kind /\ q.reply = reply /\ q.since = call[c].since
    OBVIOUS
  <1> HIDE DEF q
  <1>5. RequestTypeOK'
    BY <1>2, <1>3 DEF RequestInv, RequestTypeOK
  <1>6. call'[c] = q
    BY <1>3 DEF RequestInv, RequestTypeOK
  <1>7. call[c].since <= tampers
    <2>1. call[c] # Idle
      BY CallForms DEF RequestInv, UnderWay, Idle
    <2> QED BY <2>1 DEF RequestInv, CallInv
  <1>8. CallInv(c)'
    BY <1>4, <1>6, <1>7 DEF CallInv, LandedSoFar, EndsRepaired, Over
  <1> QED BY <1>3, <1>5, <1>8, OneCallSteps

\* What the invariant says of a call under way.
LEMMA UnderWayFacts ==
    ASSUME RequestInv, NEW c \in Calls, call[c].at \in {"sent", "answered"}
    PROVE  /\ call[c] \in UnderWay
           /\ call[c].since \in Nat /\ call[c].since <= tampers /\ call[c].kind \in Writes
           /\ call[c].again \in BOOLEAN /\ call[c].asks \in Asks /\ call[c].id \in Nat /\ call[c].tries \in Nat
           /\ call[c].reply \in Replies /\ call[c].seen \in Tab
           /\ LandedSoFar(c) /\ AsksItsOwn(call[c]) /\ TrueUnlessTampered(call[c])
           /\ landed[c] \in Nat
  <1>1. call[c] \in UnderWay
    BY CallForms DEF RequestInv
  <1>2. call[c] # Idle
    BY CallForms DEF RequestInv, Idle
  <1>3. landed[c] \in Nat
    BY DEF RequestInv, RequestTypeOK
  <1>4. LandedSoFar(c) /\ AsksItsOwn(call[c]) /\ TrueUnlessTampered(call[c]) /\ call[c].since <= tampers
    BY <1>2 DEF RequestInv, CallInv
  <1> QED BY <1>1, <1>3, <1>4 DEF UnderWay

LEMMA StartsKeepsInv ==
    ASSUME RequestInv, NEW c \in Calls, Starts(c)
    PROVE  RequestInv'
  <1> PICK kind \in Writes :
        /\ call[c] = Idle
        /\ LET asks == CASE kind = "insert" -> sheetIdByTitle
                          [] kind = "product" -> ensureProductWidth
                          [] OTHER -> "batch"
           IN  Sent(c, kind, tampers, FALSE, asks, IF asks = "batch" /\ kind # "file" THEN sheetIds ELSE None, Fresh)
        /\ UNCHANGED <<liveTab, tampers, sheetIds, productWidthChecked, landed>>
    BY DEF Starts
  <1> DEFINE asks == CASE kind = "insert" -> sheetIdByTitle
                       [] kind = "product" -> ensureProductWidth
                       [] OTHER -> "batch"
             id == IF asks = "batch" /\ kind # "file" THEN sheetIds ELSE None
  <1>1. /\ asks \in Asks
        /\ kind = "file" => asks = "batch"
        /\ kind = "insert" => asks \in {"ids", "batch"}
    BY DEF Asks, Writes, sheetIdByTitle, ensureProductWidth
  <1>2. id \in Nat
    BY DEF RequestInv, RequestTypeOK, None
  <1>3. landed[c] = 0
    BY DEF RequestInv, CallInv, LandedSoFar, Idle
  <1>4. Sent(c, kind, tampers, FALSE, asks, id, Fresh)
    OBVIOUS
  <1> HIDE DEF asks, id
  <1>5. /\ tampers \in Nat /\ sheetIds' \in Nat /\ productWidthChecked' \in BOOLEAN
        /\ liveTab' = liveTab /\ tampers' = tampers /\ landed' = landed /\ tampers <= tampers
    BY DEF RequestInv, RequestTypeOK
  <1> QED BY <1>1, <1>2, <1>3, <1>4, <1>5, RequestNumbers, SentKeepsInv

LEMMA getAccessTokenFailsKeepsInv ==
    ASSUME RequestInv, NEW c \in Calls, getAccessTokenFails(c)
    PROVE  RequestInv'
  <1>1. /\ call[c].at = "sent" /\ Ended(c, "no token")
        /\ liveTab' = liveTab /\ tampers' = tampers /\ landed' = landed
        /\ sheetIds' = sheetIds /\ productWidthChecked' = productWidthChecked
    BY DEF getAccessTokenFails
  <1>2. landed[c] = 0 /\ call[c] \in UnderWay
    BY <1>1, UnderWayFacts DEF LandedSoFar
  <1>3. sheetIds' \in Nat /\ productWidthChecked' \in BOOLEAN
    BY <1>1 DEF RequestInv, RequestTypeOK
  <1>4. landed[c] <= 1 /\ "no token" \in Replies \cup {"no token"} /\ "no token" # "ok"
    BY <1>2
  <1> QED BY <1>1, <1>2, <1>3, <1>4, EndedKeepsInv

\* What a request that was answered, or is tried again, keeps of the one that was sent.
SameRequest(r, q) ==
    r.kind = q.kind /\ r.since = q.since /\ r.again = q.again /\ r.asks = q.asks /\ r.id = q.id

LEMMA AnsweredForms ==
    /\ \A q \in UnderWay, reply \in Replies :
          LET r == [q EXCEPT !.at = "answered", !.reply = reply]
          IN  r \in UnderWay /\ r.at = "answered" /\ r.reply = reply /\ r.seen = q.seen /\ SameRequest(r, q)
    /\ \A q \in UnderWay, reply \in Replies, tab \in Tab :
          LET r == [q EXCEPT !.at = "answered", !.reply = reply, !.seen = tab]
          IN  r \in UnderWay /\ r.at = "answered" /\ r.reply = reply /\ r.seen = tab /\ SameRequest(r, q)
  BY ZenonT(40) DEF UnderWay, SameRequest

LEMMA RetriedForm ==
    ASSUME NEW q \in UnderWay
    PROVE  LET r == [q EXCEPT !.at = "sent", !.tries = q.tries + 1, !.reply = "none"]
           IN  r \in UnderWay /\ r.at = "sent" /\ r.reply = "none" /\ r.seen = q.seen /\ SameRequest(r, q)
  <1> DEFINE tries == q.tries + 1
  <1>1. tries \in Nat /\ "none" \in Replies
    BY DEF UnderWay, Replies
  <1>2. [q EXCEPT !.at = "sent", !.tries = q.tries + 1, !.reply = "none"] = [q EXCEPT !.at = "sent", !.tries = tries, !.reply = "none"]
    OBVIOUS
  <1> HIDE DEF tries
  <1> QED BY <1>1, <1>2 DEF UnderWay, SameRequest

\* Google refuses a request, or nothing is heard of it; nothing has changed there.
LEMMA RefusedKeepsInv ==
    ASSUME RequestInv, NEW c \in Calls, call[c].at = "sent",
           NEW reply \in Refusals(call[c]) \cup {"lost"},
           call' = [call EXCEPT ![c] = [@ EXCEPT !.at = "answered", !.reply = reply]],
           UNCHANGED <<liveTab, landed, tampers, sheetIds, productWidthChecked>>
    PROVE  RequestInv'
  <1> DEFINE q == call[c]
  <1>1. /\ q \in UnderWay /\ q.since \in Nat /\ q.since <= tampers /\ q.kind \in Writes /\ q.asks \in Asks
        /\ LandedSoFar(c) /\ AsksItsOwn(q) /\ TrueUnlessTampered(q) /\ q.at = "sent"
    BY UnderWayFacts
  <1>2. reply \in Replies /\ reply # "ok" /\ reply # "none"
    BY DEF Refusals, Replies
  <1>3. reply = "stale" => q.kind # "file" /\ policy(q.asks) = "write" /\ idOf(q) # liveTab.id
    BY DEF Refusals
  <1>4. reply = "narrow" => q.asks = "batch" /\ q.kind = "product" /\ ~liveTab.wide
    BY DEF Refusals
  <1>5. PICK r \in UnderWay : /\ call' = [call EXCEPT ![c] = r]
                             /\ r.at = "answered" /\ r.reply = reply /\ r.seen = q.seen /\ SameRequest(r, q)
    <2> DEFINE w == [q EXCEPT !.at = "answered", !.reply = reply]
    <2>1. call' = [call EXCEPT ![c] = w]
      BY Zenon
    <2>2. w \in UnderWay /\ w.at = "answered" /\ w.reply = reply /\ w.seen = q.seen /\ SameRequest(w, q)
      BY <1>1, <1>2, AnsweredForms, Zenon
    <2> HIDE DEF w
    <2> QED BY <2>1, <2>2
  <1>6. q.asks = "batch" => idOf(q) = q.id
    BY DEF idOf
  <1>7. call'[c] = r
    BY <1>5 DEF RequestInv, RequestTypeOK
  <1>8. AsksItsOwn(r) /\ TrueUnlessTampered(r)'
    BY <1>1, <1>2, <1>3, <1>4, <1>5, <1>6 DEF AsksItsOwn, TrueUnlessTampered, SameRequest, policy, Asks
  <1>9. LandedSoFar(c)'
    <2>1. landed'[c] = 0
      BY <1>1 DEF LandedSoFar
    <2> QED BY <2>1, <1>2, <1>5, <1>7 DEF LandedSoFar, Over
  <1>10. CallInv(c)'
    <2>1. call'[c].at = "answered" /\ call'[c].since <= tampers'
      BY <1>1, <1>5, <1>7 DEF SameRequest
    <2> QED BY <1>7, <1>8, <1>9, <2>1 DEF CallInv, Over
  <1>11. RequestTypeOK'
    BY <1>5 DEF RequestInv, RequestTypeOK
  <1> QED BY <1>5, <1>10, <1>11, OneCallSteps

\* Google does what a request asks, and the answer arrives, is lost or cannot be read.
LEMMA DoneKeepsInv ==
    ASSUME RequestInv, NEW c \in Calls, call[c].at = "sent",
           NEW reply \in {"ok", "lost", "garbled"},
           call' = [call EXCEPT ![c] = [@ EXCEPT !.at = "answered", !.reply = reply,
                                                 !.seen = IF policy(call[c].asks) = "read" THEN liveTab ELSE call[c].seen]],
           landed' = IF call[c].asks = "batch" THEN [landed EXCEPT ![c] = @ + 1] ELSE landed,
           liveTab' = IF call[c].asks = "widen" THEN [liveTab EXCEPT !.wide = TRUE] ELSE liveTab,
           UNCHANGED <<tampers, sheetIds, productWidthChecked>>
    PROVE  RequestInv'
  <1> DEFINE q == call[c]
             seen == IF policy(q.asks) = "read" THEN liveTab ELSE q.seen
  <1>1. /\ q \in UnderWay /\ q.since \in Nat /\ q.since <= tampers /\ q.kind \in Writes /\ q.asks \in Asks
        /\ q.seen \in Tab
        /\ LandedSoFar(c) /\ AsksItsOwn(q) /\ TrueUnlessTampered(q) /\ q.at = "sent"
    BY UnderWayFacts
  <1>2. reply \in Replies /\ reply # "none" /\ reply \notin {"stale", "narrow"} /\ liveTab \in Tab
    BY DEF Replies, RequestInv, RequestTypeOK
  <1>3. seen \in Tab /\ (q.asks \in {"ids", "grid"} => seen = liveTab)
    BY <1>1, <1>2 DEF policy
  <1>4. call' = [call EXCEPT ![c] = [q EXCEPT !.at = "answered", !.reply = reply, !.seen = seen]]
    BY Zenon
  <1> HIDE DEF seen
  <1>5. PICK r \in UnderWay : /\ call' = [call EXCEPT ![c] = r]
                             /\ r.at = "answered" /\ r.reply = reply /\ r.seen = seen /\ SameRequest(r, q)
    <2> DEFINE w == [q EXCEPT !.at = "answered", !.reply = reply, !.seen = seen]
    <2>1. w \in UnderWay /\ w.at = "answered" /\ w.reply = reply /\ w.seen = seen /\ SameRequest(w, q)
      BY <1>1, <1>2, <1>3, AnsweredForms, Zenon
    <2>2. call' = [call EXCEPT ![c] = w]
      BY <1>4
    <2> HIDE DEF w
    <2> QED BY <2>1, <2>2
  <1>7. call'[c] = r
    BY <1>5 DEF RequestInv, RequestTypeOK
  <1>8. liveTab' \in Tab /\ liveTab'.id = liveTab.id /\ (liveTab.wide => liveTab'.wide) /\ (q.asks = "widen" => liveTab'.wide)
    BY <1>2, TabForms
  <1>9. landed' \in [Calls -> Nat] /\ landed'[c] = (IF q.asks = "batch" THEN 1 ELSE 0)
        /\ \A d \in Calls \ {c} : landed'[d] = landed[d]
    BY <1>1 DEF LandedSoFar, RequestInv, RequestTypeOK
  <1>10. AsksItsOwn(r)
    BY <1>1, <1>2, <1>5 DEF AsksItsOwn, SameRequest
  <1>11. TrueUnlessTampered(r)'
    BY <1>1, <1>2, <1>3, <1>5, <1>8 DEF TrueUnlessTampered, AsksItsOwn, SameRequest
  <1>12. LandedSoFar(c)'
    <2>1. call'[c].asks = q.asks /\ call'[c].reply = reply /\ call'[c].at = "answered"
      BY <1>5, <1>7 DEF SameRequest
    <2>2. reply \notin Certain
      BY DEF Certain
    <2> QED BY <2>1, <2>2, <1>9 DEF LandedSoFar, Over
  <1>13. CallInv(c)'
    <2>1. call'[c].at = "answered" /\ call'[c].since <= tampers'
      BY <1>1, <1>5, <1>7 DEF SameRequest
    <2> QED BY <1>7, <1>10, <1>11, <1>12, <2>1 DEF CallInv, Over
  <1>14. RequestTypeOK'
    BY <1>5, <1>8, <1>9 DEF RequestInv, RequestTypeOK
  <1> QED BY <1>5, <1>8, <1>9, <1>13, <1>14, OneCallSteps

LEMMA onceKeepsInv ==
    ASSUME RequestInv, NEW c \in Calls, once(c)
    PROVE  RequestInv'
  <1> DEFINE q == call[c]
  <1>1. q.at = "sent" /\ UNCHANGED <<tampers, sheetIds, productWidthChecked>>
    BY DEF once
  <1>2. \/ /\ \E reply \in Refusals(q) \cup {"lost"} : call' = [call EXCEPT ![c] = [@ EXCEPT !.at = "answered", !.reply = reply]]
           /\ UNCHANGED <<liveTab, landed>>
        \/ /\ \E reply \in {"ok", "lost", "garbled"} :
                 call' = [call EXCEPT ![c] = [@ EXCEPT !.at = "answered", !.reply = reply,
                                                       !.seen = IF policy(q.asks) = "read" THEN liveTab ELSE q.seen]]
           /\ landed' = IF q.asks = "batch" THEN [landed EXCEPT ![c] = @ + 1] ELSE landed
           /\ liveTab' = IF q.asks = "widen" THEN [liveTab EXCEPT !.wide = TRUE] ELSE liveTab
    BY Zenon DEF once
  <1> QED BY <1>1, <1>2, RefusedKeepsInv, DoneKeepsInv, Zenon

LEMMA AgainKeepsInv ==
    ASSUME RequestInv, NEW c \in Calls, Again(c)
    PROVE  RequestInv'
  <1> DEFINE q == call[c]
             w == [q EXCEPT !.at = "sent", !.tries = q.tries + 1, !.reply = "none"]
  <1>1. /\ q.at = "answered" /\ retryable(q)
        /\ UNCHANGED <<liveTab, tampers, sheetIds, productWidthChecked, landed>>
    BY DEF Again
  <1>2. call' = [call EXCEPT ![c] = w]
    BY DEF Again
  <1>3. /\ q \in UnderWay /\ q.since \in Nat /\ q.since <= tampers /\ q.asks \in Asks
        /\ LandedSoFar(c) /\ AsksItsOwn(q) /\ TrueUnlessTampered(q)
    BY <1>1, UnderWayFacts
  <1>4. w \in UnderWay /\ w.at = "sent" /\ w.reply = "none" /\ w.seen = q.seen /\ SameRequest(w, q)
    BY <1>3, RetriedForm
  <1> HIDE DEF w
  <1>5. PICK r \in UnderWay : /\ call' = [call EXCEPT ![c] = r]
                             /\ r.at = "sent" /\ r.reply = "none" /\ r.seen = q.seen /\ SameRequest(r, q)
    BY <1>2, <1>4
  <1>6. call'[c] = r
    BY <1>5 DEF RequestInv, RequestTypeOK
  <1>7. landed[c] = 0
    BY <1>1, <1>3 DEF LandedSoFar, retryable, policy, Asks, Certain
  <1>8. AsksItsOwn(r) /\ TrueUnlessTampered(r)'
    BY <1>1, <1>3, <1>5 DEF AsksItsOwn, TrueUnlessTampered, SameRequest
  <1>9. CallInv(c)'
    <2>1. call'[c].at = "sent" /\ call'[c].since <= tampers' /\ landed'[c] = 0
      BY <1>1, <1>3, <1>5, <1>6, <1>7 DEF SameRequest
    <2> QED BY <1>6, <1>8, <2>1 DEF CallInv, LandedSoFar, Over
  <1>10. RequestTypeOK'
    BY <1>1, <1>5 DEF RequestInv, RequestTypeOK
  <1> QED BY <1>1, <1>5, <1>9, <1>10, OneCallSteps

LEMMA SucceedsKeepsInv ==
    ASSUME RequestInv, NEW c \in Calls, Succeeds(c)
    PROVE  RequestInv'
  <1> DEFINE q == call[c]
  <1>1. q.at = "answered" /\ q.reply = "ok" /\ liveTab' = liveTab /\ tampers' = tampers /\ landed' = landed
    BY DEF Succeeds
  <1>2. /\ q \in UnderWay /\ q.since \in Nat /\ q.since <= tampers /\ q.kind \in Writes /\ q.again \in BOOLEAN
        /\ q.asks \in Asks /\ q.id \in Nat /\ q.seen \in Tab
        /\ LandedSoFar(c) /\ AsksItsOwn(q) /\ TrueUnlessTampered(q)
    BY <1>1, UnderWayFacts
  <1>3. q.seen.id \in Nat /\ sheetIds \in Nat /\ productWidthChecked \in BOOLEAN /\ Fresh \in Tab /\ q.seen.wide \in BOOLEAN
    BY <1>2, RequestNumbers DEF RequestInv, RequestTypeOK, Tab
  <1>4. q.asks # "batch" => landed[c] = 0
    BY <1>1, <1>2 DEF LandedSoFar
  <1>5. "batch" \in Asks /\ "ids" \in Asks /\ "widen" \in Asks /\ sheetIdByTitle \in {"ids", "batch"}
    BY DEF Asks, sheetIdByTitle
  <1>6. CASE q.asks = "ids"
    <2>1. sheetIds' = q.seen.id /\ productWidthChecked' = productWidthChecked
          /\ Sent(c, q.kind, q.since, q.again, "batch", q.seen.id, Fresh)
      BY <1>6 DEF Succeeds, GoesOn
    <2>2. q.since = tampers /\ q.kind = "insert" /\ q.again => q.seen.id = liveTab.id
      BY <1>1, <1>2, <1>6 DEF TrueUnlessTampered
    <2>3. ~(q.kind = "product" /\ q.again)
      BY <1>2, <1>6 DEF AsksItsOwn
    <2> QED BY <1>1, <1>2, <1>3, <1>4, <1>5, <1>6, <2>1, <2>2, <2>3, SentKeepsInv
  <1>7. CASE q.asks = "grid" /\ ~q.seen.wide
    <2>1. sheetIds' = sheetIds /\ productWidthChecked' = productWidthChecked
          /\ Sent(c, q.kind, q.since, q.again, "widen", q.id, q.seen)
      BY <1>7 DEF Succeeds
    <2>2. q.kind = "product"
      BY <1>2, <1>7 DEF AsksItsOwn, Writes
    <2> QED BY <1>1, <1>2, <1>3, <1>4, <1>5, <1>7, <2>1, <2>2, SentKeepsInv
  <1>8. CASE q.asks = "widen" \/ (q.asks = "grid" /\ q.seen.wide)
    <2>1. /\ sheetIds' = sheetIds /\ productWidthChecked' = TRUE
          /\ IF q.again THEN GoesOn(c, "batch", q.id) ELSE GoesOn(c, sheetIdByTitle, sheetIds)
      BY <1>8 DEF Succeeds
    <2>2. q.kind = "product" /\ (q.since = tampers => liveTab.wide)
      BY <1>1, <1>2, <1>8 DEF AsksItsOwn, TrueUnlessTampered, Writes
    <2>3. CASE q.again
      <3>1. Sent(c, q.kind, q.since, q.again, "batch", q.id, Fresh)
        BY <2>1, <2>3 DEF GoesOn
      <3> QED BY <1>1, <1>2, <1>3, <1>4, <1>5, <1>8, <2>1, <2>2, <3>1, SentKeepsInv
    <2>4. CASE ~q.again
      <3>1. Sent(c, q.kind, q.since, q.again, sheetIdByTitle, sheetIds, Fresh) /\ sheetIdByTitle \in Asks
        BY <2>1, <2>4, <1>5 DEF GoesOn
      <3> QED BY <1>1, <1>2, <1>3, <1>4, <1>8, <2>1, <2>2, <2>4, <3>1, SentKeepsInv
    <2> QED BY <2>3, <2>4
  <1>9. CASE q.asks = "batch"
    <2>1. Ended(c, "ok") /\ sheetIds' = sheetIds /\ productWidthChecked' = productWidthChecked
      BY <1>9 DEF Succeeds
    <2>2. landed[c] = 1 /\ "ok" \in Replies \cup {"no token"} /\ "ok" \notin Certain
      BY <1>1, <1>2, <1>9 DEF LandedSoFar, Replies, Certain
    <2>3. landed[c] <= 1
      BY <2>2
    <2> QED BY <1>1, <1>2, <1>3, <2>1, <2>2, <2>3, EndedKeepsInv
  <1> QED BY <1>2, <1>6, <1>7, <1>8, <1>9 DEF Asks

LEMMA onSheetIdErrorKeepsInv ==
    ASSUME RequestInv, NEW c \in Calls, onSheetIdError(c)
    PROVE  RequestInv'
  <1> DEFINE q == call[c]
  <1>1. /\ q.at = "answered" /\ q.reply = "stale" /\ q.asks = "batch"
        /\ liveTab' = liveTab /\ tampers' = tampers /\ landed' = landed /\ productWidthChecked' = productWidthChecked
        /\ sheetIds' \in {sheetIds, None}
    BY DEF onSheetIdError
  <1>2. /\ q \in UnderWay /\ q.since \in Nat /\ q.since <= tampers /\ q.kind \in Writes /\ q.again \in BOOLEAN
        /\ LandedSoFar(c) /\ AsksItsOwn(q) /\ TrueUnlessTampered(q)
    BY <1>1, UnderWayFacts
  <1>3. landed[c] = 0
    BY <1>1, <1>2 DEF LandedSoFar, Certain
  <1>4. sheetIds' \in Nat /\ productWidthChecked' \in BOOLEAN /\ Fresh \in Tab /\ None \in Nat /\ "ids" \in Asks
    BY <1>1, RequestNumbers DEF RequestInv, RequestTypeOK, Asks
  <1>5. CASE q.kind = "insert" /\ ~q.again
    <2>1. Sent(c, q.kind, q.since, TRUE, "ids", None, Fresh)
      BY <1>5 DEF onSheetIdError, AsksOnceMore
    <2> QED BY <1>1, <1>2, <1>3, <1>4, <1>5, <2>1, SentKeepsInv
  <1>6. CASE ~(q.kind = "insert" /\ ~q.again)
    <2>1. Ended(c, "stale")
      BY <1>6 DEF onSheetIdError
    <2>2. ~(q.since = tampers /\ q.kind = "insert")
      BY <1>1, <1>2, <1>6 DEF TrueUnlessTampered
    <2>3. landed[c] <= 1 /\ "stale" \in Replies \cup {"no token"}
      BY <1>3 DEF Replies
    <2> QED BY <1>1, <1>2, <1>3, <1>4, <2>1, <2>2, <2>3, EndedKeepsInv
  <1> QED BY <1>5, <1>6

LEMMA commitProductBatchKeepsInv ==
    ASSUME RequestInv, NEW c \in Calls, commitProductBatch(c)
    PROVE  RequestInv'
  <1> DEFINE q == call[c]
  <1>1. /\ q.at = "answered" /\ q.reply = "narrow" /\ ~q.again
        /\ liveTab' = liveTab /\ tampers' = tampers /\ landed' = landed /\ sheetIds' = sheetIds
        /\ productWidthChecked' = FALSE /\ Sent(c, q.kind, q.since, TRUE, "grid", q.id, Fresh)
    BY DEF commitProductBatch, TooNarrow, AsksOnceMore
  <1>2. /\ q.since \in Nat /\ q.since <= tampers /\ q.kind \in Writes /\ q.id \in Nat
        /\ LandedSoFar(c) /\ AsksItsOwn(q)
    BY <1>1, UnderWayFacts
  <1>3. landed[c] = 0 /\ q.kind = "product"
    BY <1>1, <1>2 DEF LandedSoFar, Certain, AsksItsOwn
  <1>4. sheetIds' \in Nat /\ Fresh \in Tab /\ "grid" \in Asks
    BY <1>1, RequestNumbers DEF RequestInv, RequestTypeOK, Asks
  <1>5. productWidthChecked' \in BOOLEAN /\ TRUE \in BOOLEAN
    BY <1>1
  <1> HIDE DEF q
  <1> QED BY <1>1, <1>2, <1>3, <1>4, <1>5, SentKeepsInv

LEMMA FailsKeepsInv ==
    ASSUME RequestInv, NEW c \in Calls, Fails(c)
    PROVE  RequestInv'
  <1> DEFINE q == call[c]
  <1>1. /\ q.at = "answered" /\ q.reply # "ok" /\ Ended(c, q.reply)
        /\ (q.reply = "stale" => q.asks # "batch") /\ (q.reply = "narrow" => q.again)
        /\ liveTab' = liveTab /\ tampers' = tampers /\ landed' = landed /\ sheetIds' = sheetIds
        /\ productWidthChecked' = productWidthChecked
    BY DEF Fails
  <1>2. /\ q \in UnderWay /\ q.kind \in Writes /\ q.asks \in Asks /\ q.reply \in Replies
        /\ LandedSoFar(c) /\ AsksItsOwn(q) /\ TrueUnlessTampered(q)
    BY <1>1, UnderWayFacts
  <1>3. landed[c] <= 1 /\ (q.reply \in Certain => landed[c] = 0)
    BY <1>1, <1>2 DEF LandedSoFar
  <1>4. q.since = tampers => ~(q.kind = "insert" /\ q.reply = "stale") /\ q.reply # "narrow"
    BY <1>1, <1>2 DEF AsksItsOwn, TrueUnlessTampered
  <1>5. sheetIds' \in Nat /\ productWidthChecked' \in BOOLEAN
    BY <1>1 DEF RequestInv, RequestTypeOK
  <1> QED BY <1>1, <1>2, <1>3, <1>4, <1>5, EndedKeepsInv

LEMMA RequestStepKeepsInv == RequestInv /\ [RequestNext]_requestVars => RequestInv'
  <1> SUFFICES ASSUME RequestInv, [RequestNext]_requestVars
               PROVE  RequestInv'
    OBVIOUS
  <1>1. CASE Tamper
    BY <1>1, TamperKeepsInv
  <1>2. ASSUME NEW c \in Calls,
               \/ Starts(c) \/ getAccessTokenFails(c) \/ once(c)
               \/ Again(c) \/ Succeeds(c) \/ onSheetIdError(c) \/ commitProductBatch(c) \/ Fails(c)
        PROVE  RequestInv'
    BY <1>2, StartsKeepsInv, getAccessTokenFailsKeepsInv, onceKeepsInv, AgainKeepsInv, SucceedsKeepsInv,
       onSheetIdErrorKeepsInv, commitProductBatchKeepsInv, FailsKeepsInv
  <1>3. CASE UNCHANGED requestVars
    BY <1>3 DEF requestVars, RequestInv, RequestTypeOK, CallInv, LandedSoFar, TrueUnlessTampered, EndsRepaired,
                AsksItsOwn, Over
  <1> QED BY <1>1, <1>2, <1>3 DEF RequestNext

\* The invariant of a call: what it read of the tab is true while the owner leaves it alone.
THEOREM RequestInvHolds == RequestSpec => []RequestInv
  <1> QED BY RequestInitInv, RequestStepKeepsInv, PTL DEF RequestSpec

\* What a call writes lands once at most, has landed when it succeeds and has not when it was
\* refused, for any number of callers, attempts and changes of the tab.
THEOREM WritesLandOnceHolds == RequestSpec => []WritesLandOnce
  <1>1. RequestInv => WritesLandOnce
    <2> SUFFICES ASSUME RequestInv, NEW c \in Calls
                 PROVE  /\ landed[c] <= 1
                        /\ Over(c) /\ call[c].reply = "ok" => landed[c] = 1
                        /\ Over(c) /\ call[c].reply \in Certain => landed[c] = 0
      BY DEF WritesLandOnce
    <2>1. LandedSoFar(c) /\ landed[c] \in Nat
      BY DEF RequestInv, CallInv, RequestTypeOK
    <2>2. call[c].at \in {"idle", "sent", "answered", "done"}
      BY CallForms DEF RequestInv, Over, UnderWay, Finished
    <2> QED BY <2>1, <2>2 DEF LandedSoFar, Over
  <1> QED BY <1>1, RequestInvHolds, PTL

\* Only a change of the tab by the owner, made while a call was on its way, lets rows be refused for
\* the id of their tab, or a product for the width of its grid.
THEOREM RepairsItselfHolds == RequestSpec => []RepairsItself
  <1>1. RequestInv => RepairsItself
    <2> SUFFICES ASSUME RequestInv, NEW c \in Calls, Over(c), ~(call[c].since < tampers)
                 PROVE  ~(call[c].kind = "insert" /\ call[c].reply = "stale") /\ ~(call[c].reply = "narrow")
      BY DEF RepairsItself
    <2>1. call[c] \in Finished /\ tampers \in Nat
      BY CallForms DEF RequestInv, RequestTypeOK
    <2>2. call[c] # Idle /\ call[c].since \in Nat
      BY <2>1, RequestNumbers DEF Finished, Over
    <2>3. call[c].since <= tampers
      BY <2>2 DEF RequestInv, CallInv
    <2>4. call[c].since = tampers
      BY <2>1, <2>2, <2>3
    <2> QED BY <2>4 DEF RequestInv, CallInv, EndsRepaired
  <1> QED BY <1>1, RequestInvHolds, PTL

-----------------------------------------------------------------------------
(* Photos of a product                                                     *)

Folder == [in : Nat, label : Nat, gone : BOOLEAN]
Rows == [primary : Nat, status : {"none", "pending", "complete"}, folder : Nat, slug : Nat]
Fates == {"open", "reused", "landed", "failed"}
InFolders == {"product", "make product", "all", "make all", "list", "photos"}
Counts == [Names \X Places -> 0..2]

\* What a request is: resting, a delete, or an import.
Rests == [at : {"rest"}]
Deletes == [at : {"delete", "row"}, kind : {"delete"}, version : Rows \X Nat]
Imports == [at : {"root", "row"} \cup InFolders, kind : {"add", "retry", "nobody"}, product : Nat, all : Nat,
            sends : Ticked, fate : [Places -> Fates], version : Rows \X Nat]
ARequest == Rests \cup Deletes \cup Imports

DriveOK ==
    /\ folders \in Seq(Folder) /\ held \in Seq(Counts) /\ Len(held) = Len(folders)
    /\ \A f \in 1..Len(folders) : folders[f].in < f

RootOK ==
    /\ root \in {"none", "private", "shared"} /\ resolving \in {"no", "list", "create", "share"}
    /\ resolved \in BOOLEAN /\ (resolved => root = "shared") /\ (resolving = "create" => root = "none")

\* The names an import gives.
PrefixOf(r) == IF r.kind = "retry" THEN r.version[1].slug ELSE 1
FileOf(r, i) == photoName(PrefixOf(r), i)

\* The folder "All Images" of a product's folder.
Inside(all, product) ==
    /\ all \in 1..Len(folders) /\ product \in 1..Len(folders)
    /\ folders[all].in = product /\ folders[all].label = 0

\* A photo that an import was asked for is in its folder, or one that was sent before has its number.
Filled(all, p) ==
    \/ \E n \in Names : held[all][<<n, p>>] > 0
    \/ skipped /\ \E n \in Names, o \in Places \ {p} : n[2] = p /\ held[all][<<n, o>>] > 0

\* What an import knows is so: where its photos are, and that anyone can read them there.
Sound(r) ==
    /\ r.product \in 0..Len(folders)
    /\ r.at \in InFolders => root = "shared"
    /\ r.at \in {"all", "make all"} => r.product # 0
    /\ r.at \in {"list", "photos"} => Inside(r.all, r.product)
    /\ r.at = "list" => r.kind = "retry"
    /\ r.kind = "retry" => r.sends = Page /\ r.version[1].slug \in Slugs
    /\ r.at \notin {"photos", "row"} => \A i \in Places : r.fate[i] = "open"
    /\ \A i \in Places : r.fate[i] # "open" => Inside(r.all, r.product) /\ root = "shared"
    /\ \A i \in DOMAIN r.sends : r.fate[i] \in {"reused", "landed"} => Filled(r.all, r.sends[i])

RowOK ==
    /\ row \in Rows /\ name \in Nat /\ asked \in SUBSET Places
    /\ row # NoRow => row.slug \in Slugs
    /\ row.primary # 0 => root = "shared"
    /\ row.status = "complete" =>
           \E all \in 1..Len(folders) : Inside(all, row.folder) /\ \A p \in asked : Filled(all, p)

\* Until a delete reaches Drive nothing is deleted.
NothingGone == ~deleted => \A f \in 1..Len(folders) : ~folders[f].gone

ImportsOK == req \in [Requests -> ARequest] /\ \A q \in Requests : req[q] \in Imports => Sound(req[q])

\* A file has its photo's number and the add form's slug, and an import gives it those, but for what
\* is remembered.
NamesItsOwn(r) ==
    /\ \A i \in DOMAIN r.sends : r.sends[i] = i \/ skipped
    /\ PrefixOf(r) = 1 \/ renumbered
Named ==
    /\ \A f \in 1..Len(folders), n \in Names, p \in Places : held[f][<<n, p>>] > 0 =>
           (n[2] = p \/ skipped) /\ (n[1] \in {0, 1} \/ renumbered)
    /\ \A q \in Requests : req[q].at = "photos" => NamesItsOwn(req[q])

\* An import sends no file that is there, and fills the folder of those that are.
SendsWhatIsNot(r) ==
    \A f \in 1..Len(folders), n \in Names, p \in Places : Holds(f, n, p) =>
        f = r.all /\ \A i \in DOMAIN r.sends : r.fate[i] = "open" => n # FileOf(r, i)

\* While every import saw what was there, one import at a time sends photos, into the folder where all
\* of them are and under names that are not there, and every name is there once.
Once ==
    ~blind =>
        /\ \A q, o \in Requests : req[q].at = "photos" /\ req[o].at = "photos" => q = o
        /\ \A q \in Requests : req[q].at = "photos" => SendsWhatIsNot(req[q])
        /\ \A f, g \in 1..Len(folders), n, m \in Names, p, o \in Places :
              Holds(f, n, p) /\ Holds(g, m, o) => f = g /\ held[f][<<n, p>>] = 1 /\ (n = m => p = o)

PhotosInv == DriveOK /\ RootOK /\ RowOK /\ NothingGone /\ ImportsOK /\ Named /\ Once

-----------------------------------------------------------------------------
(* Facts of the parts                                                      *)

LEMMA OldestIsOne ==
    ASSUME NEW fs \in SUBSET Nat, fs # {}
    PROVE  Oldest(fs) \in fs
  <1>1. PICK f \in fs : \A g \in fs : ~(<<g, f>> \in OpToRel(<, Nat))
    BY WFMin, NatLessThanWellFounded
  <1>2. \A g \in fs : ~(g < f)
    BY <1>1 DEF OpToRel
  <1>3. \A g \in fs : f <= g
    BY <1>2
  <1> QED BY <1>3 DEF Oldest

LEMMA NameFacts ==
    /\ \A s \in Slugs, i \in Places :
          photoName(s, i) \in Names /\ photoName(s, i)[2] = i /\ photoName(s, i)[1] \in {0, s}
    /\ \A n \in Names : n[1] = 0 <=> n[2] = 1
    /\ \A n, m \in Names : n[1] = m[1] /\ n[2] = m[2] => n = m
    /\ 1 \in Slugs /\ 1 \in Places
  BY PhotosConstants DEF photoName, Names, Places

\* The photos that are ticked have places, and are of the page; so are all of them.
LEMMA TickedFacts ==
    /\ \A s \in Ticked : DOMAIN s # {} /\ DOMAIN s \subseteq Places /\ \A i \in DOMAIN s : s[i] \in Places
    /\ Page \in Ticked /\ DOMAIN Page = Places /\ \A i \in Places : Page[i] = i
  <1>1. ASSUME NEW s \in Ticked
        PROVE  DOMAIN s # {} /\ DOMAIN s \subseteq Places /\ \A i \in DOMAIN s : s[i] \in Places
    <2>1. PICK k \in Places : s \in [1..k -> Places]
      BY DEF Ticked
    <2>2. 1 \in 1..k /\ 1..k \subseteq Places
      BY PhotosConstants DEF Places
    <2> QED BY <2>1, <2>2
  <1>2. Page \in [1..N -> Places] /\ N \in Places /\ \A i \in Places : Page[i] = i
    BY PhotosConstants DEF Page, Places
  <1>3. Page \in Ticked
    <2>1. \A i, j \in DOMAIN Page : i < j => Page[i] < Page[j]
      BY DEF Page
    <2>2. Page \in UNION {[1..k -> Places] : k \in Places}
      BY <1>2
    <2> QED BY <2>1, <2>2 DEF Ticked
  <1> QED BY <1>1, <1>2, <1>3 DEF Page

LEMMA DriveFacts ==
    ASSUME DriveOK
    PROVE  /\ DOMAIN folders = 1..Len(folders) /\ Len(folders) \in Nat
           /\ \A f \in 1..Len(folders) :
                  /\ folders[f] \in Folder /\ held[f] \in Counts
                  /\ \A n \in Names, p \in Places : held[f][<<n, p>>] \in 0..2
                  /\ folders[f].in \in Nat /\ folders[f].in < f /\ folders[f].gone \in BOOLEAN
                  /\ folders[f].in # 0 => folders[f].in \in 1..Len(folders)
  <1>1. /\ DOMAIN folders = 1..Len(folders) /\ Len(folders) \in Nat
        /\ \A f \in 1..Len(folders) : folders[f] \in Folder /\ held[f] \in Counts
    BY DEF DriveOK
  <1>2. \A f \in 1..Len(folders) : folders[f].in \in Nat /\ folders[f].in < f /\ folders[f].gone \in BOOLEAN
    BY <1>1 DEF DriveOK, Folder
  <1>3. \A f \in 1..Len(folders) : folders[f].in # 0 => folders[f].in \in 1..Len(folders)
    BY <1>1, <1>2
  <1>4. \A c \in Counts, n \in Names, p \in Places : c[<<n, p>>] \in 0..2
    BY DEF Counts
  <1> QED BY <1>1, <1>2, <1>3, <1>4

\* An import's record, by what its request is doing.
LEMMA ImportAt ==
    ASSUME NEW r \in ARequest, r.at \in {"root"} \cup InFolders \/ (r.at = "row" /\ r.kind # "delete")
    PROVE  r \in Imports
  BY DEF ARequest, Rests, Deletes, InFolders

\* Two records of one import, which sends the same photos under the same names.
Alike(r, t) == r.kind = t.kind /\ r.sends = t.sends /\ r.version = t.version

LEMMA AlikeNames == \A r, t : Alike(r, t) => PrefixOf(r) = PrefixOf(t) /\ \A i : FileOf(r, i) = FileOf(t, i)
  BY DEF Alike, PrefixOf, FileOf

\* What becomes of an import's record.
LEMMA AtChanges ==
    \A t \in Imports, at \in {"row"} \cup InFolders :
        LET r == [t EXCEPT !.at = at] IN
        r \in Imports /\ r.at = at /\ Alike(r, t) /\ r.product = t.product /\ r.all = t.all /\ r.fate = t.fate
  BY DEF Imports, Alike

LEMMA OnePhotoChanges ==
    \A t \in Imports, p \in Places, s \in Fates :
        LET r == [t EXCEPT !.fate[p] = s] IN
        /\ r \in Imports /\ r.at = t.at /\ Alike(r, t) /\ r.product = t.product /\ r.all = t.all
        /\ r.fate[p] = s /\ \A o \in Places \ {p} : r.fate[o] = t.fate[o]
  <1> TAKE t \in Imports
  <1> QED BY DEF Imports, Alike

LEMMA NobodyWaits ==
    \A t \in Imports : t.kind = "add" =>
        LET r == [t EXCEPT !.kind = "nobody"] IN
        /\ r \in Imports /\ r.at = t.at /\ r.product = t.product /\ r.all = t.all /\ r.fate = t.fate
        /\ r.sends = t.sends /\ r.kind = "nobody" /\ PrefixOf(r) = PrefixOf(t)
  BY DEF Imports, PrefixOf

\* Nothing that is known of a folder becomes untrue: it stays where it is, and keeps its photos.
Kept ==
    /\ Len(folders) <= Len(folders)'
    /\ \A f \in 1..Len(folders) :
           /\ folders'[f].in = folders[f].in /\ folders'[f].label = folders[f].label
           /\ \A n \in Names, p \in Places : held[f][<<n, p>>] <= held'[f][<<n, p>>]
    /\ root = "shared" => root' = "shared"
    /\ skipped => skipped'

LEMMA InsideStays ==
    ASSUME DriveOK, DriveOK', Kept, NEW all, NEW product, Inside(all, product)
    PROVE  Inside(all, product)'
  BY DriveFacts DEF Kept, Inside, DriveOK

LEMMA FilledStays ==
    ASSUME DriveOK, DriveOK', Kept, NEW all \in 1..Len(folders), NEW p \in Places, Filled(all, p)
    PROVE  Filled(all, p)'
  <1>1. \A n \in Names, o \in Places :
            held[all][<<n, o>>] \in 0..2 /\ held'[all][<<n, o>>] \in 0..2 /\ held[all][<<n, o>>] <= held'[all][<<n, o>>]
    <2>1. all \in 1..Len(folders)'
      BY DriveFacts DEF Kept, DriveOK
    <2>2. held'[all] \in Counts
      BY <2>1 DEF DriveOK
    <2>3. \A c \in Counts, n \in Names, o \in Places : c[<<n, o>>] \in 0..2
      BY DEF Counts
    <2> QED BY <2>2, <2>3, DriveFacts DEF Kept
  <1>2. \A n \in Names, o \in Places : held[all][<<n, o>>] > 0 => held'[all][<<n, o>>] > 0
    BY <1>1
  <1> QED BY <1>2 DEF Filled, Kept

LEMMA SoundStays ==
    ASSUME DriveOK, DriveOK', Kept, NEW r \in Imports, Sound(r)
    PROVE  Sound(r)'
  <1>1. Len(folders) \in Nat /\ Len(folders)' \in Nat /\ Len(folders) <= Len(folders)'
    BY DriveFacts DEF DriveOK, Kept
  <1>2. r.product \in 0..Len(folders)'
    <2>1. r.product \in 0..Len(folders)
      BY DEF Sound
    <2> QED BY <1>1, <2>1
  <1>3. r.at \in {"list", "photos"} => Inside(r.all, r.product)'
    BY InsideStays DEF Sound
  <1>4. \A i \in Places : r.fate[i] # "open" => Inside(r.all, r.product)' /\ root' = "shared"
    BY InsideStays DEF Sound, Kept
  <1>5. ASSUME NEW i \in DOMAIN r.sends, r.fate[i] \in {"reused", "landed"} PROVE Filled(r.all, r.sends[i])'
    <2>1. r.sends \in Ticked
      BY DEF Imports
    <2>2. i \in Places /\ r.sends[i] \in Places
      BY <2>1, TickedFacts
    <2>3. Filled(r.all, r.sends[i]) /\ r.all \in 1..Len(folders)
      BY <1>5, <2>2 DEF Sound, Inside
    <2> QED BY <2>2, <2>3, FilledStays
  <1> QED BY <1>2, <1>3, <1>4, <1>5 DEF Sound, Kept

LEMMA RowStays ==
    ASSUME DriveOK, DriveOK', Kept, RowOK, row' \in Rows, row'.primary = row.primary, row'.status = row.status,
           row'.folder = row.folder, row' # NoRow => row'.slug \in Slugs, asked' = asked, name' \in Nat
    PROVE  RowOK'
  <1>1. PICK product : product = row.folder
    OBVIOUS
  <1>2. ASSUME row.status = "complete"
        PROVE  \E all \in 1..Len(folders)' : Inside(all, product)' /\ \A p \in asked : Filled(all, p)'
    <2>1. PICK all \in 1..Len(folders) : Inside(all, product) /\ \A p \in asked : Filled(all, p)
      BY <1>1, <1>2 DEF RowOK
    <2>2. Inside(all, product)' /\ all \in 1..Len(folders)'
      BY <2>1, InsideStays DEF Inside
    <2>3. ASSUME NEW p \in asked PROVE Filled(all, p)'
      BY <2>1, FilledStays DEF RowOK
    <2> QED BY <2>2, <2>3
  <1>3. row.primary # 0 => root' = "shared"
    BY DEF RowOK, Kept
  <1>4. row'.status = "complete" =>
           \E all \in 1..Len(folders)' : Inside(all, row.folder)' /\ (\A p \in asked : Filled(all, p))'
    BY <1>1, <1>2 DEF Inside
  <1> QED BY <1>3, <1>4 DEF RowOK

\* One request moves on, to r, and nothing that is known becomes untrue.
LEMMA ImportsMove ==
    ASSUME PhotosInv, DriveOK', Kept, NEW q \in Requests, NEW r \in ARequest, req' = [req EXCEPT ![q] = r],
           r \in Imports => Sound(r)'
    PROVE  ImportsOK'
  <1>1. req' \in [Requests -> ARequest]
    BY DEF PhotosInv, ImportsOK
  <1>2. ASSUME NEW o \in Requests, req'[o] \in Imports PROVE Sound(req[o])'
    <2>1. PICK t \in ARequest : t = req'[o]
      BY <1>1
    <2>2. CASE o = q
      <3>1. t = r
        BY <2>1, <2>2 DEF PhotosInv, ImportsOK
      <3>2. Sound(t)'
        BY <1>2, <2>1, <3>1
      <3> QED BY <2>1, <3>2
    <2>3. CASE o # q
      <3>1. t = req[o] /\ t \in Imports
        BY <1>2, <2>1, <2>3 DEF PhotosInv, ImportsOK
      <3>2. Sound(t)
        BY <3>1 DEF PhotosInv, ImportsOK
      <3>3. Sound(t)'
        BY <3>1, <3>2, SoundStays DEF PhotosInv
      <3> QED BY <2>1, <3>3
    <2> QED BY <2>2, <2>3
  <1> QED BY <1>1, <1>2 DEF ImportsOK

\* No file is new, and none that was deleted is back.
NothingStored ==
    \A f \in 1..Len(folders)', n \in Names, p \in Places : held'[f][<<n, p>>] > 0 =>
        f \in 1..Len(folders) /\ held'[f][<<n, p>>] = held[f][<<n, p>>] /\ (Gone(f) => Gone(f)')

LEMMA NoFileIsNew ==
    ASSUME NothingStored, NEW f \in 1..Len(folders)', NEW n \in Names, NEW p \in Places, Holds(f, n, p)'
    PROVE  f \in 1..Len(folders) /\ Holds(f, n, p) /\ held'[f][<<n, p>>] = held[f][<<n, p>>]
  BY DEF NothingStored, Holds

\* One request moves on, to r: it sends no photo it was not sending, or it starts to send with all
\* that is there in sight, while nobody sends.
SendsNoMore(q, r) ==
    /\ UNCHANGED sentVars
    /\ r.at = "photos" =>
          /\ req[q].at = "photos" /\ r.all = req[q].all /\ r.sends = req[q].sends
          /\ PrefixOf(r) = PrefixOf(req[q])
          /\ \A i \in Places : r.fate[i] = "open" => req[q].fate[i] = "open"
SeesAllItSends(q, r) ==
    /\ (blind => blind') /\ (skipped => skipped') /\ (renumbered => renumbered')
    /\ NamesItsOwn(r)'
    /\ ~blind' => (\A o \in Requests \ {q} : req[o].at # "photos") /\ SendsWhatIsNot(r)
    /\ r \in Imports

\* Nobody sends what he did not, and no file is new.
LEMMA SendersStay ==
    ASSUME PhotosInv, NothingStored, UNCHANGED sentVars, req' \in [Requests -> ARequest],
           \A q \in Requests : req'[q].at = "photos" => req[q].at = "photos" /\ SendsNoMore(q, req'[q])
    PROVE  Named' /\ Once'
  <1> USE DEF sentVars
  <1>1. Named /\ Once
    BY DEF PhotosInv
  <1>2. ASSUME NEW q \in Requests, req'[q].at = "photos"
        PROVE  /\ req[q].at = "photos" /\ req'[q].all = req[q].all /\ req'[q].sends = req[q].sends
               /\ PrefixOf(req'[q]) = PrefixOf(req[q])
               /\ \A i \in Places : req'[q].fate[i] = "open" => req[q].fate[i] = "open"
               /\ \A i \in DOMAIN req[q].sends : i \in Places
    <2>1. req[q] \in Imports
      BY <1>2, ImportAt DEF PhotosInv, ImportsOK, InFolders
    <2>2. \A i \in DOMAIN req[q].sends : i \in Places
      BY <2>1, TickedFacts DEF Imports
    <2> QED BY <1>2, <2>2 DEF SendsNoMore
  <1>3. Named'
    <2>1. ASSUME NEW f \in 1..Len(folders)', NEW n \in Names, NEW p \in Places, held'[f][<<n, p>>] > 0
          PROVE  (n[2] = p \/ skipped') /\ (n[1] \in {0, 1} \/ renumbered')
      BY <1>1, <2>1 DEF Named, NothingStored
    <2>2. ASSUME NEW q \in Requests, req'[q].at = "photos" PROVE NamesItsOwn(req[q])'
      BY <1>1, <1>2, <2>2 DEF Named, NamesItsOwn
    <2> QED BY <2>1, <2>2 DEF Named
  <1>4. Once'
    <2> SUFFICES ASSUME ~blind
                 PROVE  /\ \A q, o \in Requests : req'[q].at = "photos" /\ req'[o].at = "photos" => q = o
                        /\ \A q \in Requests : req'[q].at = "photos" => SendsWhatIsNot(req[q])'
                        /\ \A f, g \in 1..Len(folders)', n, m \in Names, p, o \in Places :
                              Holds(f, n, p)' /\ Holds(g, m, o)' =>
                                  f = g /\ held'[f][<<n, p>>] = 1 /\ (n = m => p = o)
      BY DEF Once
    <2>1. \A q, o \in Requests : req'[q].at = "photos" /\ req'[o].at = "photos" => q = o
      BY <1>1, <1>2 DEF Once
    <2>2. ASSUME NEW q \in Requests, req'[q].at = "photos" PROVE SendsWhatIsNot(req[q])'
      <3> SUFFICES ASSUME NEW f \in 1..Len(folders)', NEW n \in Names, NEW p \in Places, Holds(f, n, p)'
                   PROVE  /\ f = req'[q].all
                          /\ \A i \in DOMAIN req'[q].sends : req'[q].fate[i] = "open" => n # FileOf(req[q], i)'
        BY DEF SendsWhatIsNot
      <3>1. f \in 1..Len(folders) /\ Holds(f, n, p)
        BY NoFileIsNew
      <3>2. f = req[q].all /\ \A i \in DOMAIN req[q].sends : req[q].fate[i] = "open" => n # FileOf(req[q], i)
        BY <1>1, <1>2, <2>2, <3>1 DEF Once, SendsWhatIsNot
      <3>3. \A i : FileOf(req[q], i)' = FileOf(req[q], i)
        BY <1>2, <2>2 DEF FileOf
      <3> QED BY <1>2, <2>2, <3>2, <3>3
    <2>3. ASSUME NEW f \in 1..Len(folders)', NEW g \in 1..Len(folders)', NEW n \in Names, NEW m \in Names,
                 NEW p \in Places, NEW o \in Places, Holds(f, n, p)', Holds(g, m, o)'
          PROVE  f = g /\ held'[f][<<n, p>>] = 1 /\ (n = m => p = o)
      <3>1. /\ f \in 1..Len(folders) /\ Holds(f, n, p) /\ held'[f][<<n, p>>] = held[f][<<n, p>>]
            /\ g \in 1..Len(folders) /\ Holds(g, m, o)
        BY <2>3, NoFileIsNew
      <3> QED BY <1>1, <3>1 DEF Once
    <2> QED BY <2>1, <2>2, <2>3
  <1> QED BY <1>3, <1>4

LEMMA OneMoves ==
    ASSUME PhotosInv, DriveOK', RootOK', RowOK', Kept, NothingGone', NothingStored,
           NEW q \in Requests, NEW r \in ARequest, req' = [req EXCEPT ![q] = r], r \in Imports => Sound(r)',
           SendsNoMore(q, r) \/ SeesAllItSends(q, r)
    PROVE  PhotosInv'
  <1>1. ImportsOK'
    BY ImportsMove
  <1>2. req' \in [Requests -> ARequest] /\ req'[q] = r /\ \A o \in Requests \ {q} : req'[o] = req[o]
    BY DEF PhotosInv, ImportsOK
  <1>3. CASE SendsNoMore(q, r)
    <2>1. ASSUME NEW o \in Requests, req'[o].at = "photos"
          PROVE  req[o].at = "photos" /\ SendsNoMore(o, req'[o])
      BY <1>2, <1>3, <2>1 DEF SendsNoMore
    <2>2. Named' /\ Once'
      BY <1>2, <1>3, <2>1, SendersStay DEF SendsNoMore
    <2> QED BY <1>1, <2>2 DEF PhotosInv
  <1>4. CASE SeesAllItSends(q, r)
    <2>1. Named /\ Once
      BY DEF PhotosInv
    <2>2. (blind => blind') /\ (skipped => skipped') /\ (renumbered => renumbered')
      BY <1>4 DEF SeesAllItSends
    <2>3. Named'
      <3>1. ASSUME NEW f \in 1..Len(folders)', NEW n \in Names, NEW p \in Places, held'[f][<<n, p>>] > 0
            PROVE  (n[2] = p \/ skipped') /\ (n[1] \in {0, 1} \/ renumbered')
        BY <2>1, <2>2, <3>1 DEF Named, NothingStored
      <3>2. ASSUME NEW o \in Requests, req'[o].at = "photos" PROVE NamesItsOwn(req[o])'
        <4>1. CASE o = q
          <5>1. NamesItsOwn(r)'
            BY <1>4 DEF SeesAllItSends
          <5> QED BY <1>2, <4>1, <5>1 DEF NamesItsOwn, PrefixOf
        <4>2. CASE o # q
          BY <1>2, <2>1, <2>2, <3>2, <4>2 DEF Named, NamesItsOwn, PrefixOf
        <4> QED BY <4>1, <4>2
      <3> QED BY <3>1, <3>2 DEF Named
    <2>4. Once'
      <3> SUFFICES ASSUME ~blind'
                   PROVE  /\ \A a, b \in Requests : req'[a].at = "photos" /\ req'[b].at = "photos" => a = b
                          /\ \A a \in Requests : req'[a].at = "photos" => SendsWhatIsNot(req[a])'
                          /\ \A f, g \in 1..Len(folders)', n, m \in Names, p, o \in Places :
                                Holds(f, n, p)' /\ Holds(g, m, o)' =>
                                    f = g /\ held'[f][<<n, p>>] = 1 /\ (n = m => p = o)
        BY DEF Once
      <3>1. ~blind /\ (\A o \in Requests \ {q} : req'[o].at # "photos") /\ SendsWhatIsNot(r)
        BY <1>2, <1>4 DEF SeesAllItSends
      <3>2. \A a, b \in Requests : req'[a].at = "photos" /\ req'[b].at = "photos" => a = b
        BY <3>1
      <3>3. ASSUME NEW a \in Requests, req'[a].at = "photos" PROVE SendsWhatIsNot(req[a])'
        <4> SUFFICES ASSUME NEW f \in 1..Len(folders)', NEW n \in Names, NEW p \in Places, Holds(f, n, p)'
                     PROVE  /\ f = req'[a].all
                            /\ \A i \in DOMAIN req'[a].sends : req'[a].fate[i] = "open" => n # FileOf(req[a], i)'
          BY DEF SendsWhatIsNot
        <4>1. req'[a] = r /\ \A i : FileOf(req[a], i)' = FileOf(r, i)
          BY <1>2, <3>1, <3>3 DEF FileOf, PrefixOf
        <4>2. f \in 1..Len(folders) /\ Holds(f, n, p)
          BY NoFileIsNew
        <4> QED BY <3>1, <4>1, <4>2 DEF SendsWhatIsNot
      <3>4. ASSUME NEW f \in 1..Len(folders)', NEW g \in 1..Len(folders)', NEW n \in Names, NEW m \in Names,
                   NEW p \in Places, NEW o \in Places, Holds(f, n, p)', Holds(g, m, o)'
            PROVE  f = g /\ held'[f][<<n, p>>] = 1 /\ (n = m => p = o)
        <4>1. /\ f \in 1..Len(folders) /\ Holds(f, n, p) /\ held'[f][<<n, p>>] = held[f][<<n, p>>]
              /\ g \in 1..Len(folders) /\ Holds(g, m, o)
          BY <3>4, NoFileIsNew
        <4> QED BY <2>1, <3>1, <4>1 DEF Once
      <3> QED BY <3>2, <3>3, <3>4
    <2> QED BY <1>1, <2>3, <2>4 DEF PhotosInv
  <1> QED BY <1>3, <1>4

LEMMA StillKept == UNCHANGED driveVars /\ root' = root /\ (skipped => skipped') /\ DriveOK => Kept /\ NothingStored
  <1> SUFFICES ASSUME UNCHANGED driveVars, root' = root, skipped => skipped', DriveOK PROVE Kept /\ NothingStored
    OBVIOUS
  <1>1. folders' = folders /\ held' = held
    BY DEF driveVars
  <1>2. Len(folders) <= Len(folders)'
    BY <1>1, DriveFacts
  <1>3. \A f \in 1..Len(folders), n \in Names, p \in Places : held[f][<<n, p>>] <= held'[f][<<n, p>>]
    <2> TAKE f \in 1..Len(folders), n \in Names, p \in Places
    <2>1. held[f][<<n, p>>] \in 0..2
      BY DriveFacts
    <2> QED BY <1>1, <2>1
  <1>4. NothingStored
    BY <1>1 DEF NothingStored, Gone
  <1> QED BY <1>1, <1>2, <1>3, <1>4 DEF Kept

LEMMA StillMoves ==
    ASSUME PhotosInv, UNCHANGED driveVars, root' = root, deleted' = deleted, RootOK', RowOK',
           NEW q \in Requests, NEW r \in ARequest, req' = [req EXCEPT ![q] = r], r \in Imports => Sound(r),
           SendsNoMore(q, r) \/ SeesAllItSends(q, r)
    PROVE  PhotosInv'
  <1>1. folders' = folders /\ held' = held
    BY DEF driveVars
  <1>2. DriveOK /\ NothingGone
    BY DEF PhotosInv
  <1>3. DriveOK' /\ NothingGone'
    BY <1>1, <1>2 DEF DriveOK, NothingGone
  <1>4. skipped => skipped'
    BY DEF SendsNoMore, SeesAllItSends, sentVars
  <1>5. Kept /\ NothingStored
    BY <1>2, <1>4, StillKept
  <1>6. r \in Imports => Sound(r)'
    BY <1>2, <1>3, <1>5, SoundStays
  <1> QED BY <1>3, <1>5, <1>6, OneMoves

\* A new folder is empty, and in one that is there.
LEMMA FolderMade ==
    ASSUME PhotosInv, NEW in \in 0..Len(folders), NEW label \in Nat, CreateFolder(in, label),
           deleted' = deleted, root' = root, skipped => skipped'
    PROVE  /\ DriveOK' /\ Kept /\ NothingGone' /\ NothingStored
           /\ Len(folders') = Len(folders) + 1
           /\ folders'[Len(folders) + 1].in = in /\ folders'[Len(folders) + 1].label = label
  <1> DEFINE n == Len(folders)
             new == [in |-> in, label |-> label, gone |-> FALSE]
             none == [x \in Names \X Places |-> 0]
  <1>1. DriveOK /\ NothingGone
    BY DEF PhotosInv
  <1>2. folders' = Append(folders, new) /\ held' = Append(held, none)
    BY DEF CreateFolder
  <1>3. /\ n \in Nat /\ folders \in Seq(Folder) /\ held \in Seq(Counts) /\ Len(held) = n
        /\ new \in Folder /\ new.in = in /\ new.label = label /\ ~new.gone
        /\ none \in Counts /\ \A m \in Names, p \in Places : none[<<m, p>>] = 0
    BY <1>1, DriveFacts DEF DriveOK, Folder, Counts
  <1> HIDE DEF n, new, none
  <1>4. /\ folders' \in Seq(Folder) /\ held' \in Seq(Counts)
        /\ Len(folders') = n + 1 /\ Len(held') = n + 1
        /\ folders'[n + 1] = new /\ held'[n + 1] = none
        /\ \A f \in 1..n : folders'[f] = folders[f] /\ held'[f] = held[f]
    <2>1. /\ folders' \in Seq(Folder) /\ Len(folders') = n + 1 /\ folders'[n + 1] = new
          /\ \A f \in 1..n : folders'[f] = folders[f]
      BY <1>2, <1>3 DEF n
    <2>2. /\ held' \in Seq(Counts) /\ Len(held') = n + 1 /\ held'[n + 1] = none
          /\ \A f \in 1..n : held'[f] = held[f]
      BY <1>2, <1>3 DEF n
    <2> QED BY <2>1, <2>2
  <1>5. DriveOK'
    <2>1. ASSUME NEW f \in 1..Len(folders') PROVE folders'[f].in < f
      <3>1. CASE f = n + 1
        BY <1>3, <1>4, <3>1 DEF n
      <3>2. CASE f # n + 1
        <4>1. f \in 1..n
          BY <1>3, <1>4, <2>1, <3>2
        <4> QED BY <1>1, <1>4, <4>1 DEF DriveOK, n
      <3> QED BY <3>1, <3>2
    <2> QED BY <1>4, <2>1 DEF DriveOK
  <1>6. Kept
    <2>1. ASSUME NEW f \in 1..n, NEW m \in Names, NEW p \in Places PROVE held[f][<<m, p>>] <= held'[f][<<m, p>>]
      <3>1. held[f][<<m, p>>] \in 0..2
        BY <1>1, DriveFacts DEF n
      <3> QED BY <1>4, <3>1
    <2> QED BY <1>3, <1>4, <2>1 DEF Kept, n
  <1>7. NothingGone'
    <2> SUFFICES ASSUME ~deleted, NEW f \in 1..Len(folders') PROVE ~folders'[f].gone
      BY DEF NothingGone
    <2>1. CASE f = n + 1
      BY <1>3, <1>4, <2>1
    <2>2. CASE f # n + 1
      <3>1. f \in 1..n
        BY <1>3, <1>4, <2>2
      <3> QED BY <1>1, <1>4, <3>1 DEF NothingGone, n
    <2> QED BY <2>1, <2>2
  <1>8. NothingStored
    <2> SUFFICES ASSUME NEW f \in 1..Len(folders)', NEW m \in Names, NEW p \in Places, held'[f][<<m, p>>] > 0
                 PROVE  f \in 1..n /\ held'[f][<<m, p>>] = held[f][<<m, p>>] /\ (Gone(f) => Gone(f)')
      BY DEF NothingStored, n
    <2>1. f # n + 1
      BY <1>3, <1>4
    <2>2. f \in 1..n
      BY <1>3, <1>4, <2>1
    <2>3. folders'[f] = folders[f] /\ (folders[f].in # 0 => folders'[folders[f].in] = folders[folders[f].in])
      BY <1>1, <1>4, <2>2, DriveFacts DEF n
    <2> QED BY <1>4, <2>2, <2>3 DEF Gone
  <1> QED BY <1>3, <1>4, <1>5, <1>6, <1>7, <1>8 DEF n

-----------------------------------------------------------------------------
(* The photos folder, the row, and what stops                              *)

LEMMA PhotosStart == PhotosInit => PhotosInv
  <1> SUFFICES ASSUME PhotosInit PROVE PhotosInv
    OBVIOUS
  <1> USE DEF PhotosInit
  <1>1. DriveOK
    <2>1. folders \in Seq(Folder) /\ held \in Seq(Counts) /\ Len(folders) = 0 /\ Len(held) = 0
      OBVIOUS
    <2> QED BY <2>1 DEF DriveOK
  <1>2. RootOK
    BY DEF RootOK
  <1>3. RowOK
    BY DEF RowOK, NoRow, Rows
  <1>4. NothingGone
    BY DEF NothingGone
  <1>5. ImportsOK
    BY DEF ImportsOK, ARequest, Rests, Resting, Imports, InFolders
  <1>6. Once /\ Named
    <2>1. 1..Len(folders) = {}
      OBVIOUS
    <2> QED BY <2>1 DEF Once, Named, Resting
  <1> QED BY <1>1, <1>2, <1>3, <1>4, <1>5, <1>6 DEF PhotosInv

\* Every request either stays what it is, rests, or goes on to what is after the photos folder.
LEMMA ManyMove ==
    ASSUME PhotosInv, UNCHANGED <<driveVars, sentVars, deleted>>,
           RootOK', RowOK', root = "shared" => root' = "shared",
           req' \in [Requests -> ARequest],
           \A q \in Requests :
               \/ req'[q] = req[q]
               \/ req'[q] \in Rests
               \/ /\ req[q] \in Imports /\ req[q].at = "root"
                  /\ req'[q] \in Imports /\ req'[q].at \in {"row", "product"} /\ Alike(req'[q], req[q])
                  /\ req'[q].product = req[q].product /\ req'[q].all = req[q].all /\ req'[q].fate = req[q].fate
                  /\ req'[q].at = "product" => root' = "shared"
    PROVE  PhotosInv'
  <1>1. folders' = folders /\ held' = held /\ deleted' = deleted /\ skipped' = skipped
    BY DEF driveVars, sentVars
  <1>2. DriveOK /\ NothingGone /\ ImportsOK
    BY DEF PhotosInv
  <1>3. DriveOK' /\ NothingGone'
    BY <1>1, <1>2 DEF DriveOK, NothingGone
  <1>4. Kept /\ NothingStored
    <2>1. Len(folders) <= Len(folders)'
      BY <1>1, <1>2, DriveFacts
    <2>2. \A f \in 1..Len(folders), n \in Names, p \in Places : held[f][<<n, p>>] <= held'[f][<<n, p>>]
      <3> TAKE f \in 1..Len(folders), n \in Names, p \in Places
      <3>1. held[f][<<n, p>>] \in 0..2
        BY <1>2, DriveFacts
      <3> QED BY <1>1, <3>1
    <2>3. NothingStored
      BY <1>1 DEF NothingStored, Gone
    <2> QED BY <1>1, <2>1, <2>2, <2>3 DEF Kept
  <1>5. ASSUME NEW q \in Requests, req'[q] \in Imports PROVE Sound(req[q])'
    <2>1. PICK r \in ARequest : r = req'[q]
      OBVIOUS
    <2>2. CASE req'[q] = req[q]
      <3>1. Sound(r)
        BY <1>2, <1>5, <2>1, <2>2 DEF ImportsOK
      <3>2. Sound(r)'
        BY <1>2, <1>3, <1>4, <1>5, <2>1, <3>1, SoundStays
      <3> QED BY <2>1, <3>2
    <2>3. CASE req'[q] \in Rests
      BY <1>5, <2>3 DEF Rests, Imports, InFolders
    <2>4. CASE /\ req[q] \in Imports /\ req[q].at = "root"
               /\ req'[q] \in Imports /\ req'[q].at \in {"row", "product"} /\ Alike(req'[q], req[q])
               /\ req'[q].product = req[q].product /\ req'[q].all = req[q].all /\ req'[q].fate = req[q].fate
               /\ req'[q].at = "product" => root' = "shared"
      <3>1. Sound(req[q]) /\ req[q].sends \in Ticked
        BY <1>2, <2>4 DEF ImportsOK, Imports
      <3>2. DOMAIN req[q].sends \subseteq Places
        BY <3>1, TickedFacts
      <3>3. /\ r.product \in 0..Len(folders) /\ \A i \in Places : r.fate[i] = "open"
            /\ r.at \in {"row", "product"} /\ (r.at = "product" => root' = "shared")
            /\ DOMAIN r.sends \subseteq Places
            /\ (r.kind = "retry" => r.sends = Page /\ r.version[1].slug \in Slugs)
        BY <2>1, <2>4, <3>1, <3>2 DEF Sound, Alike
      <3>4. \A i \in DOMAIN r.sends : r.fate[i] = "open"
        BY <3>3
      <3>5. Sound(r)'
        BY <1>1, <3>3, <3>4 DEF Sound, InFolders
      <3> QED BY <2>1, <3>5
    <2> QED BY <2>2, <2>3, <2>4
  <1>6. ImportsOK'
    BY <1>5 DEF ImportsOK
  <1>7. Named' /\ Once'
    <2>1. \A q \in Requests : req'[q].at = "photos" => req[q].at = "photos" /\ SendsNoMore(q, req'[q])
      <3> TAKE q \in Requests
      <3>1. req'[q].at = "photos" => req'[q] = req[q]
        BY DEF Rests
      <3> QED BY <3>1 DEF SendsNoMore
    <2> QED BY <1>4, <2>1, SendersStay
  <1> QED BY <1>3, <1>6, <1>7 DEF PhotosInv

LEMMA ResolveInv ==
    ASSUME PhotosInv, Resolve \/ ResolveFails \/ Rename \/ Crash
    PROVE  PhotosInv'
  <1>1. RootOK /\ RowOK /\ DriveOK /\ row \in Rows /\ name \in Nat /\ req \in [Requests -> ARequest]
    BY DEF PhotosInv, RowOK, ImportsOK
  <1>2. UNCHANGED <<driveVars, sentVars, deleted>> /\ asked' = asked
    BY <1>1 DEF Resolve, ResolveFails, Rename, Crash
  <1>3. RootOK' /\ (root = "shared" => root' = "shared")
    <2>1. CASE Resolve
      <3>1. \/ root # "shared" /\ resolving' \in {"create", "share"} /\ (resolving' = "create" => root = "none")
               /\ root' = root /\ resolved' = resolved
            \/ resolving = "create" /\ root' = "private" /\ resolving' = "share" /\ resolved' = resolved
            \/ root' = "shared" /\ resolved' = TRUE /\ resolving' = "no"
        BY <2>1 DEF Resolve
      <3>2. resolving = "create" => root = "none" /\ ~resolved
        BY <1>1 DEF RootOK
      <3>3. /\ root' \in {"none", "private", "shared"} /\ resolving' \in {"no", "list", "create", "share"}
            /\ (resolving' = "create" => root' = "none") /\ (root = "shared" => root' = "shared")
        BY <1>1, <3>1, <3>2 DEF RootOK
      <3>4. resolved' \in BOOLEAN
        BY <1>1, <3>1, Zenon DEF RootOK
      <3>5. resolved' => root' = "shared"
        BY <1>1, <3>1, <3>2, Zenon DEF RootOK
      <3> QED BY <3>3, <3>4, <3>5 DEF RootOK
    <2>2. CASE ResolveFails
      BY <1>1, <2>2 DEF ResolveFails, RootOK
    <2>3. CASE Rename
      BY <1>1, <2>3 DEF Rename, rootVars, RootOK
    <2>4. CASE Crash
      BY <1>1, <2>4 DEF Crash, RootOK
    <2> QED BY <2>1, <2>2, <2>3, <2>4
  <1>4. RowOK'
    <2>1. folders' = folders /\ held' = held /\ (skipped => skipped')
      BY <1>2 DEF driveVars, sentVars
    <2>2. Len(folders) <= Len(folders)' /\ DriveOK'
      BY <1>1, <2>1, DriveFacts DEF DriveOK
    <2>3. \A f \in 1..Len(folders), n \in Names, p \in Places : held[f][<<n, p>>] <= held'[f][<<n, p>>]
      <3> TAKE f \in 1..Len(folders), n \in Names, p \in Places
      <3>1. held[f][<<n, p>>] \in 0..2
        BY <1>1, DriveFacts
      <3> QED BY <2>1, <3>1
    <2>4. Kept
      BY <1>3, <2>1, <2>2, <2>3 DEF Kept
    <2>5. /\ row' \in Rows /\ row'.primary = row.primary /\ row'.status = row.status /\ row'.folder = row.folder
          /\ (row' # NoRow => row'.slug \in Slugs) /\ name' \in Nat
      <3>1. row' = row \/ (row # NoRow /\ \E new \in Slugs : row' = [row EXCEPT !.slug = new])
        BY DEF Resolve, ResolveFails, Rename, Crash
      <3>2. name' \in Nat
        BY <1>1 DEF Resolve, ResolveFails, Rename, Crash
      <3>3. CASE row' = row
        BY <1>1, <3>2, <3>3 DEF RowOK
      <3>4. ASSUME NEW new \in Slugs, row' = [row EXCEPT !.slug = new]
            PROVE  /\ row' \in Rows /\ row'.primary = row.primary /\ row'.status = row.status
                   /\ row'.folder = row.folder /\ row'.slug \in Slugs
        <4>1. new \in Nat
          BY PhotosConstants
        <4> QED BY <1>1, <3>4, <4>1 DEF Rows
      <3> QED BY <3>1, <3>2, <3>3, <3>4
    <2> QED BY <1>1, <1>2, <2>2, <2>4, <2>5, RowStays
  <1>5. \A at \in {"row", "product"} : Release(at) =>
            /\ req' \in [Requests -> ARequest]
            /\ \A q \in Requests :
                  \/ req'[q] = req[q]
                  \/ /\ req[q] \in Imports /\ req[q].at = "root"
                     /\ req'[q] \in Imports /\ req'[q].at = at /\ Alike(req'[q], req[q])
                     /\ req'[q].product = req[q].product /\ req'[q].all = req[q].all /\ req'[q].fate = req[q].fate
    <2> SUFFICES ASSUME NEW at \in {"row", "product"}, Release(at)
                 PROVE  \A q \in Requests :
                  \/ req'[q] = req[q]
                  \/ /\ req[q] \in Imports /\ req[q].at = "root"
                     /\ req'[q] \in Imports /\ req'[q].at = at /\ Alike(req'[q], req[q])
                     /\ req'[q].product = req[q].product /\ req'[q].all = req[q].all /\ req'[q].fate = req[q].fate
      <3>1. ARequest = Rests \cup Deletes \cup Imports
        BY DEF ARequest
      <3> QED BY <1>1, <3>1, Zenon DEF Release
    <2> TAKE q \in Requests
    <2>1. req' = [o \in Requests |-> IF req[o].at = "root" THEN [req[o] EXCEPT !.at = at] ELSE req[o]]
      BY Zenon DEF Release
    <2>2. CASE req[q].at = "root"
      <3>1. req'[q] = [req[q] EXCEPT !.at = at]
        BY <2>1, <2>2, Zenon
      <3>2. req[q] \in Imports
        BY <1>1, <2>2, ImportAt
      <3>3. at \in {"row"} \cup InFolders
        BY DEF InFolders
      <3>4. LET r == [req[q] EXCEPT !.at = at] IN
            /\ r \in Imports /\ r.at = at /\ Alike(r, req[q])
            /\ r.product = req[q].product /\ r.all = req[q].all /\ r.fate = req[q].fate
        BY <3>2, <3>3, AtChanges, Zenon
      <3> QED BY <2>2, <3>1, <3>2, <3>4, Zenon
    <2>3. CASE req[q].at # "root"
      BY <2>1, <2>3, Zenon
    <2> QED BY <2>2, <2>3
  <1>6. CASE Resolve
    <2>1. UNCHANGED req \/ (Release("product") /\ root' = "shared")
      BY <1>6 DEF Resolve
    <2>2. CASE UNCHANGED req
      BY <1>1, <1>2, <1>3, <1>4, <2>2, ManyMove
    <2>3. CASE Release("product") /\ root' = "shared"
      BY <1>2, <1>3, <1>4, <1>5, <2>3, ManyMove
    <2> QED BY <2>1, <2>2, <2>3
  <1>7. CASE ResolveFails
    <2>1. Release("row")
      BY <1>7 DEF ResolveFails
    <2> QED BY <1>2, <1>3, <1>4, <1>5, <2>1, ManyMove
  <1>8. CASE Rename
    BY <1>1, <1>2, <1>3, <1>4, <1>8, ManyMove DEF Rename
  <1>9. CASE Crash
    <2>1. req' = [q \in Requests |-> Resting] /\ Resting \in Rests /\ Resting \in ARequest
      BY <1>9 DEF Crash, Resting, Rests, ARequest
    <2> QED BY <1>2, <1>3, <1>4, <2>1, ManyMove
  <1> QED BY <1>6, <1>7, <1>8, <1>9

-----------------------------------------------------------------------------
(* The steps of a request                                                  *)

LEMMA InvFacts ==
    ASSUME PhotosInv
    PROVE  /\ DriveOK /\ RootOK /\ RowOK /\ req \in [Requests -> ARequest]
           /\ row \in Rows /\ name \in Nat /\ version \in Rows \X Nat
           /\ \A q \in Requests : req[q] \in Imports =>
                  /\ Sound(req[q])
                  /\ DOMAIN req[q].sends # {} /\ DOMAIN req[q].sends \subseteq Places
                  /\ \A i \in DOMAIN req[q].sends : req[q].sends[i] \in Places
           /\ UNCHANGED rootVars => RootOK' /\ root' = root
           /\ UNCHANGED <<driveVars, row, name, asked>> /\ root' = root /\ (skipped => skipped') => RowOK'
  <1>1. /\ DriveOK /\ RootOK /\ RowOK /\ req \in [Requests -> ARequest] /\ row \in Rows /\ name \in Nat
        /\ \A q \in Requests : req[q] \in Imports => Sound(req[q])
    BY DEF PhotosInv, RowOK, ImportsOK
  <1>2. version \in Rows \X Nat
    BY <1>1 DEF version
  <1>3. UNCHANGED rootVars => RootOK' /\ root' = root
    BY <1>1 DEF rootVars, RootOK
  <1>4. UNCHANGED <<driveVars, row, name, asked>> /\ root' = root /\ (skipped => skipped') => RowOK'
    <2> SUFFICES ASSUME UNCHANGED <<driveVars, row, name, asked>>, root' = root, skipped => skipped' PROVE RowOK'
      OBVIOUS
    <2>1. Kept
      BY <1>1, StillKept
    <2>2. DriveOK'
      BY <1>1 DEF driveVars, DriveOK
    <2> QED BY <1>1, <2>1, <2>2, RowStays DEF RowOK
  <1>5. \A q \in Requests : req[q] \in Imports =>
            /\ DOMAIN req[q].sends # {} /\ DOMAIN req[q].sends \subseteq Places
            /\ \A i \in DOMAIN req[q].sends : req[q].sends[i] \in Places
    BY TickedFacts DEF Imports
  <1> QED BY <1>1, <1>2, <1>3, <1>4, <1>5

LEMMA BeginInv ==
    ASSUME PhotosInv, NEW q \in Requests, NEW kind \in {"add", "retry"}, NEW sends \in Ticked,
           kind = "retry" => sends = Page /\ row # NoRow, Begin(q, kind, sends)
    PROVE  PhotosInv'
  <1> DEFINE b == [at |-> IF resolved THEN "product" ELSE "root", kind |-> kind, product |-> 0, all |-> 0,
                   sends |-> sends, fate |-> [i \in Places |-> "open"], version |-> version]
  <1>1. /\ req' = [req EXCEPT ![q] = b]
        /\ UNCHANGED <<driveVars, root, resolved, row, name, asked, sentVars, deleted>>
    BY DEF Begin
  <1>2. b \in Imports
    BY InvFacts DEF Imports, InFolders, Fates
  <1>3. PICK r \in Imports : r = b
    BY <1>2
  <1>4. /\ r.at \in {"root", "product"} /\ (r.at = "product" => resolved) /\ r.kind = kind /\ r.sends = sends
        /\ r.product = 0 /\ (\A i \in Places : r.fate[i] = "open") /\ r.version = version
    BY <1>3
  <1>5. Sound(r)
    <2>1. 0 \in 0..Len(folders)
      BY InvFacts, DriveFacts
    <2>2. \A i \in DOMAIN r.sends : r.fate[i] = "open"
      BY <1>4, TickedFacts
    <2>3. r.kind = "retry" => r.sends = Page /\ r.version[1].slug \in Slugs
      <3>1. row # NoRow => row.slug \in Slugs
        BY InvFacts DEF RowOK
      <3>2. version[1] = row
        BY DEF version
      <3> QED BY <1>4, <3>1, <3>2
    <2>4. r.at = "product" => root = "shared"
      BY <1>4, InvFacts DEF RootOK
    <2> QED BY <1>4, <2>1, <2>2, <2>3, <2>4 DEF Sound, InFolders
  <1>6. RootOK'
    <2>1. resolving' \in {resolving, "list"}
      BY DEF Begin
    <2> QED BY <1>1, <2>1, InvFacts DEF RootOK
  <1>7. RowOK'
    BY <1>1, InvFacts DEF sentVars
  <1>8. SendsNoMore(q, r)
    BY <1>1, <1>4 DEF SendsNoMore
  <1> QED BY <1>1, <1>3, <1>5, <1>6, <1>7, <1>8, StillMoves DEF ARequest

\* A request that has no photos to send: it rests, or it is a delete.
LEMMA PlainMove ==
    ASSUME PhotosInv, NEW q \in Requests, NEW r \in Rests \cup Deletes, req' = [req EXCEPT ![q] = r],
           UNCHANGED <<driveVars, rootVars, sentVars, deleted>>, RowOK'
    PROVE  PhotosInv'
  <1>1. r \in ARequest /\ r \notin Imports /\ r.at # "photos"
    BY DEF ARequest, Rests, Deletes, Imports, InFolders
  <1> QED BY <1>1, InvFacts, StillMoves DEF SendsNoMore

LEMMA EndInv ==
    ASSUME PhotosInv, NEW q \in Requests, Delete(q) \/ RowRefused(q) \/ DeleteRow(q)
    PROVE  PhotosInv'
  <1>1. UNCHANGED <<driveVars, rootVars, name, asked, sentVars, deleted>> /\ Resting \in Rests /\ root' = root
    BY DEF Delete, RowRefused, DeleteRow, Resting, Rests, rootVars
  <1>2. UNCHANGED row => RowOK'
    BY <1>1, InvFacts DEF sentVars
  <1>3. CASE Delete(q)
    <2>1. [at |-> "delete", kind |-> "delete", version |-> version] \in Deletes
      BY InvFacts DEF Deletes
    <2> QED BY <1>1, <1>2, <1>3, <2>1, PlainMove DEF Delete
  <1>4. CASE RowRefused(q)
    BY <1>1, <1>2, <1>4, PlainMove DEF RowRefused
  <1>5. CASE DeleteRow(q)
    <2>1. row' = row \/ row' = NoRow
      BY <1>5 DEF DeleteRow
    <2>2. CASE row' = NoRow
      <3>1. NoRow \in Rows /\ NoRow.primary = 0 /\ NoRow.status # "complete"
        BY DEF NoRow, Rows
      <3>2. RowOK'
        BY <1>1, <2>2, <3>1, InvFacts DEF RowOK
      <3> QED BY <1>1, <1>5, <3>2, PlainMove DEF DeleteRow
    <2>3. CASE row' = row
      BY <1>1, <1>2, <1>5, <2>3, PlainMove DEF DeleteRow
    <2> QED BY <2>1, <2>2, <2>3
  <1> QED BY <1>3, <1>4, <1>5

LEMMA GiveUpInv ==
    ASSUME PhotosInv, NEW q \in Requests, GiveUp(q)
    PROVE  PhotosInv'
  <1>1. /\ req[q].at = "photos" /\ req[q].kind = "add"
        /\ req' = [req EXCEPT ![q] = [req[q] EXCEPT !.kind = "nobody"]]
        /\ UNCHANGED <<driveVars, rootVars, name, asked, sentVars, deleted>>
    BY Zenon DEF GiveUp
  <1>2. req[q] \in Imports /\ Sound(req[q])
    BY <1>1, InvFacts, ImportAt DEF InFolders
  <1>3. LET r == [req[q] EXCEPT !.kind = "nobody"] IN
        /\ r \in Imports /\ r.at = req[q].at /\ r.product = req[q].product /\ r.all = req[q].all
        /\ r.fate = req[q].fate /\ r.sends = req[q].sends /\ r.kind = "nobody" /\ PrefixOf(r) = PrefixOf(req[q])
    BY <1>1, <1>2, NobodyWaits, Zenon
  <1>4. PICK r \in Imports :
            /\ req' = [req EXCEPT ![q] = r] /\ r.at = req[q].at /\ r.product = req[q].product /\ r.all = req[q].all
            /\ r.fate = req[q].fate /\ r.sends = req[q].sends /\ r.kind = "nobody" /\ PrefixOf(r) = PrefixOf(req[q])
    BY <1>1, <1>3, Zenon
  <1>5. Sound(r) /\ SendsNoMore(q, r)
    BY <1>1, <1>2, <1>4 DEF Sound, SendsNoMore
  <1>6. RowOK'
    <2>1. PICK new \in Slugs : row' = [NoRow EXCEPT !.status = "pending", !.slug = new]
      BY DEF GiveUp
    <2>2. row' \in Rows /\ row'.primary = 0 /\ row'.status # "complete" /\ row'.slug \in Slugs
      BY <2>1, PhotosConstants DEF NoRow, Rows
    <2> QED BY <1>1, <2>2, InvFacts DEF RowOK
  <1> QED BY <1>1, <1>4, <1>5, <1>6, InvFacts, StillMoves DEF ARequest

LEMMA CommittedInv ==
    ASSUME PhotosInv, NEW q \in Requests, Committed(q)
    PROVE  PhotosInv'
  <1>1. /\ req[q].at = "photos" /\ UNCHANGED <<driveVars, rootVars, row, name, asked, sentVars, deleted>>
        /\ req' = [req EXCEPT ![q] = IF req[q].kind = "nobody" THEN Resting ELSE [req[q] EXCEPT !.at = "row"]]
    BY Zenon DEF Committed
  <1>2. req[q] \in Imports /\ Sound(req[q])
    BY <1>1, InvFacts, ImportAt DEF InFolders
  <1>3. RowOK'
    BY <1>1, InvFacts DEF sentVars
  <1>4. CASE req[q].kind = "nobody"
    <2>1. Resting \in Rests
      BY DEF Resting, Rests
    <2> QED BY <1>1, <1>3, <1>4, <2>1, PlainMove
  <1>5. CASE req[q].kind # "nobody"
    <2>1. LET r == [req[q] EXCEPT !.at = "row"] IN
          /\ r \in Imports /\ r.at = "row" /\ Alike(r, req[q])
          /\ r.product = req[q].product /\ r.all = req[q].all /\ r.fate = req[q].fate
      <3>1. "row" \in {"row"} \cup InFolders
        OBVIOUS
      <3> QED BY <1>2, <3>1, AtChanges, Zenon
    <2>2. PICK r \in Imports : /\ req' = [req EXCEPT ![q] = r] /\ r.at = "row" /\ Alike(r, req[q])
                               /\ r.product = req[q].product /\ r.all = req[q].all /\ r.fate = req[q].fate
      BY <1>1, <1>5, <2>1, Zenon
    <2>3. Sound(r) /\ SendsNoMore(q, r)
      BY <1>1, <1>2, <2>2 DEF Sound, SendsNoMore, InFolders, Alike
    <2> QED BY <1>1, <1>3, <2>2, <2>3, InvFacts, StillMoves DEF ARequest
  <1> QED BY <1>4, <1>5

LEMMA WriteRowInv ==
    ASSUME PhotosInv, NEW q \in Requests, WriteRow(q)
    PROVE  PhotosInv'
  <1>1. /\ req[q].at = "row" /\ req[q].kind # "delete" /\ req' = [req EXCEPT ![q] = Resting]
        /\ asked' = IF complete(q) THEN {req[q].sends[i] : i \in DOMAIN req[q].sends} ELSE {}
        /\ UNCHANGED <<driveVars, rootVars, name, sentVars, deleted>>
    BY DEF WriteRow
  <1>2. req[q] \in Imports /\ Sound(req[q])
    BY <1>1, InvFacts, ImportAt
  <1>3. PICK new \in Slugs \cup {row.slug} :
           /\ new \in Slugs
           /\ row' = [primary |-> primary(q), status |-> IF complete(q) THEN "complete" ELSE "pending",
                      folder |-> IF toldFolder(q) THEN req[q].product ELSE row.folder, slug |-> new]
    <2>1. NoRow.slug \in {0} /\ (row # NoRow => row.slug \in Slugs)
      BY InvFacts DEF NoRow, RowOK
    <2> QED BY <2>1 DEF WriteRow
  <1>4. req[q].product \in Nat /\ row.folder \in Nat /\ row.primary \in Nat /\ new \in Nat
    BY <1>2, <1>3, InvFacts, PhotosConstants DEF Imports, Rows
  <1>5. ids(q) \in SUBSET Places /\ Places \in SUBSET Nat /\ 1 \in Places
    BY <1>2, InvFacts, PhotosConstants DEF ids, Places
  <1>6. primary(q) \in Nat /\ (primary(q) # 0 => root = "shared")
    <2>1. CASE req[q].fate[1] = "landed"
      <3>1. root = "shared"
        BY <1>2, <1>5, <2>1 DEF Sound
      <3> QED BY <2>1, <3>1 DEF primary
    <2>2. CASE req[q].fate[1] # "landed" /\ row.primary # 0
      BY <1>4, <2>2, InvFacts DEF primary, RowOK
    <2>3. CASE req[q].fate[1] # "landed" /\ row.primary = 0 /\ ids(q) = {}
      BY <2>3 DEF primary
    <2>4. CASE req[q].fate[1] # "landed" /\ row.primary = 0 /\ ids(q) # {}
      <3>1. primary(q) = Oldest(ids(q))
        BY <2>4 DEF primary, Oldest
      <3>2. ids(q) \in SUBSET Nat
        BY <1>5
      <3>3. primary(q) \in ids(q)
        BY <2>4, <3>1, <3>2, OldestIsOne
      <3>4. root = "shared"
        BY <1>2, <1>5, <3>3 DEF Sound, ids
      <3> QED BY <3>2, <3>3, <3>4
    <2> QED BY <2>1, <2>2, <2>3, <2>4
  <1>7. /\ row' \in Rows /\ row'.primary = primary(q) /\ (row'.status = "complete" => complete(q))
        /\ (toldFolder(q) => row'.folder = req[q].product) /\ row'.slug \in Slugs
    BY <1>3, <1>4, <1>6 DEF Rows
  <1>8. folders' = folders /\ held' = held /\ root' = root /\ name' = name /\ skipped' = skipped
    BY <1>1 DEF driveVars, rootVars, sentVars
  <1>9. asked' \in SUBSET Places
    BY <1>1, <1>2, InvFacts
  <1>10. ASSUME row'.status = "complete"
         PROVE  \E all \in 1..Len(folders) : Inside(all, row'.folder) /\ \A p \in asked' : Filled(all, p)
    <2>1. ids(q) = DOMAIN req[q].sends /\ ids(q) # {}
      BY <1>2, <1>7, <1>10, InvFacts DEF complete
    <2>2. \A i \in DOMAIN req[q].sends : i \in Places /\ req[q].fate[i] \in {"reused", "landed"}
      BY <1>5, <2>1 DEF ids
    <2>3. \A i \in DOMAIN req[q].sends : Filled(req[q].all, req[q].sends[i])
      BY <1>2, <2>2 DEF Sound
    <2>4. Inside(req[q].all, req[q].product)
      BY <1>2, <2>1, <2>2 DEF Sound
    <2>5. \A p \in asked' : Filled(req[q].all, p)
      BY <1>1, <2>3
    <2>6. req[q].product # 0 /\ req[q].all \in 1..Len(folders)
      BY <2>4 DEF Inside
    <2>7. row'.folder = req[q].product
      BY <1>7, <2>1, <2>6 DEF toldFolder
    <2> QED BY <2>4, <2>5, <2>6, <2>7
  <1>11. RowOK'
    <2>1. name \in Nat
      BY InvFacts
    <2>2. row'.status = "complete" =>
             \E all \in 1..Len(folders)' : Inside(all, row.folder)' /\ (\A p \in asked : Filled(all, p))'
      BY <1>8, <1>10 DEF Inside, Filled
    <2> QED BY <1>6, <1>7, <1>8, <1>9, <2>1, <2>2 DEF RowOK
  <1>12. Resting \in Rests
    BY DEF Resting, Rests
  <1> QED BY <1>1, <1>11, <1>12, PlainMove

\* The transfers start on a folder of the product's.
LEMMA StartPhotosMoves ==
    ASSUME DriveOK, req \in [Requests -> ARequest], NEW q \in Requests, req[q] \in Imports,
           NEW all \in Nat, NEW existing \in SUBSET Names, StartPhotos(q, all, existing)
    PROVE  \E r \in Imports :
               /\ req' = [req EXCEPT ![q] = r] /\ r.at = "photos" /\ r.product = req[q].product /\ r.all = all
               /\ Alike(r, req[q])
               /\ \A i \in Places : r.fate[i] = IF FileName(q, i) \in existing THEN "reused" ELSE "open"
               /\ SeesAllItSends(q, r)
  <1> DEFINE fate == [i \in Places |-> IF FileName(q, i) \in existing THEN "reused" ELSE "open"]
  <1>1. fate \in [Places -> Fates] /\ \A i \in Places : fate[i] = IF FileName(q, i) \in existing THEN "reused" ELSE "open"
    BY DEF Fates
  <1>2. req' = [req EXCEPT ![q] = [req[q] EXCEPT !.at = "photos", !.all = all, !.fate = fate]]
    BY Zenon DEF StartPhotos
  <1> HIDE DEF fate
  <1>3. PICK t \in Imports : t = req[q]
    OBVIOUS
  <1>4. PICK r \in Imports : /\ req' = [req EXCEPT ![q] = r] /\ r.at = "photos" /\ r.product = req[q].product
                             /\ r.all = all /\ r.fate = fate /\ Alike(r, req[q])
    <2> DEFINE r == [t EXCEPT !.at = "photos", !.all = all, !.fate = fate]
    <2>1. req' = [req EXCEPT ![q] = r]
      BY <1>2, <1>3, Zenon
    <2>2. r.at = "photos" /\ r.product = t.product /\ r.all = all /\ r.fate = fate /\ Alike(r, t)
      BY DEF Imports, Alike
    <2>3. r \in Imports
      BY <1>1 DEF Imports, InFolders
    <2> HIDE DEF r
    <2> QED BY <1>3, <2>1, <2>2, <2>3
  <1>5. Remember(q, all, existing)
    BY DEF StartPhotos
  <1>6. namePrefix(q) = PrefixOf(r) /\ \A i : FileName(q, i) = FileOf(r, i)
    BY <1>4 DEF namePrefix, PrefixOf, FileName, FileOf, Alike
  <1>7. NamesItsOwn(r)'
    <2>1. r.sends = req[q].sends
      BY <1>4 DEF Alike
    <2>2. \A i \in DOMAIN r.sends : r.sends[i] = i \/ skipped'
      BY <1>5, <2>1 DEF Remember
    <2>3. PrefixOf(r) = 1 \/ renumbered'
      BY <1>5, <1>6 DEF Remember
    <2> QED BY <2>2, <2>3 DEF NamesItsOwn
  <1>8. ASSUME ~blind' PROVE (\A o \in Requests \ {q} : req[o].at # "photos") /\ SendsWhatIsNot(r)
    <2>1. /\ \A f \in DOMAIN folders : \A n \in In(f) : f = all /\ n \in existing
          /\ \A o \in Requests \ {q} : req[o].at # "photos"
      BY <1>5, <1>8 DEF Remember
    <2>2. ASSUME NEW f \in 1..Len(folders), NEW n \in Names, NEW p \in Places, Holds(f, n, p)
          PROVE  f = all /\ n \in existing
      <3>1. f \in DOMAIN folders
        BY DriveFacts
      <3>2. n \in In(f)
        BY <2>2 DEF In
      <3> QED BY <2>1, <3>1, <3>2
    <2>3. \A i \in DOMAIN r.sends : r.fate[i] = "open" => FileOf(r, i) \notin existing
      <3>1. DOMAIN r.sends \subseteq Places
        BY TickedFacts DEF Imports
      <3> QED BY <1>1, <1>4, <1>6, <3>1
    <2>4. SendsWhatIsNot(r)
      BY <1>4, <2>2, <2>3 DEF SendsWhatIsNot
    <2> QED BY <2>1, <2>4
  <1>9. (blind => blind') /\ (skipped => skipped') /\ (renumbered => renumbered')
    BY <1>5 DEF Remember
  <1>10. SeesAllItSends(q, r)
    BY <1>7, <1>8, <1>9 DEF SeesAllItSends
  <1> QED BY <1>1, <1>4, <1>10

\* The folder inside the product's is known: a retry lists it, the add form's photos start.
LEMMA FoundMoves ==
    ASSUME DriveOK, req \in [Requests -> ARequest], NEW q \in Requests, req[q] \in Imports, Sound(req[q]),
           req[q].at \notin {"photos", "row"}, NEW all \in Nat, Found(q, all)
    PROVE  \E r \in Imports :
               /\ req' = [req EXCEPT ![q] = r] /\ r.at \in {"list", "photos"} /\ r.product = req[q].product
               /\ Alike(r, req[q]) /\ (r.at = "list" => r.kind = "retry")
               /\ r.all = all /\ \A i \in Places : r.fate[i] = "open"
               /\ SendsNoMore(q, r) \/ SeesAllItSends(q, r)
  <1>1. CASE req[q].kind = "retry"
    <2>1. req' = [req EXCEPT ![q] = [req[q] EXCEPT !.at = "list", !.all = all]] /\ UNCHANGED sentVars
      BY <1>1, Zenon DEF Found
    <2>2. PICK t \in Imports : t = req[q]
      OBVIOUS
    <2> DEFINE r == [t EXCEPT !.at = "list", !.all = all]
    <2>3. req' = [req EXCEPT ![q] = r]
      BY <2>1, <2>2, Zenon
    <2>4. r.at = "list" /\ r.product = t.product /\ r.all = all /\ r.fate = t.fate /\ Alike(r, t)
      BY DEF Imports, Alike
    <2>5. r \in Imports
      BY DEF Imports, InFolders
    <2> HIDE DEF r
    <2>6. \A i \in Places : r.fate[i] = "open"
      BY <2>2, <2>4 DEF Sound
    <2>7. SendsNoMore(q, r)
      BY <2>1, <2>4 DEF SendsNoMore
    <2>8. r.kind = "retry"
      BY <1>1, <2>2, <2>4 DEF Alike
    <2> QED BY <2>2, <2>3, <2>4, <2>5, <2>6, <2>7, <2>8
  <1>2. CASE req[q].kind # "retry"
    <2>1. StartPhotos(q, all, {})
      BY <1>2 DEF Found
    <2>2. PICK r \in Imports :
               /\ req' = [req EXCEPT ![q] = r] /\ r.at = "photos" /\ r.product = req[q].product /\ r.all = all
               /\ Alike(r, req[q])
               /\ \A i \in Places : r.fate[i] = IF FileName(q, i) \in {} THEN "reused" ELSE "open"
               /\ SeesAllItSends(q, r)
      BY <2>1, StartPhotosMoves
    <2> QED BY <2>2
  <1> QED BY <1>1, <1>2

LEMMA ListInv ==
    ASSUME PhotosInv, NEW q \in Requests, List(q)
    PROVE  PhotosInv'
  <1> DEFINE all == req[q].all
  <1>1. req[q].at = "list" /\ UNCHANGED <<driveVars, rootVars, row, name, asked, deleted>>
    BY DEF List
  <1>2. req[q] \in Imports /\ Sound(req[q])
    BY <1>1, InvFacts, ImportAt DEF InFolders
  <1>3. Inside(all, req[q].product) /\ root = "shared" /\ all \in 1..Len(folders)
    BY <1>1, <1>2 DEF Sound, InFolders, Inside
  <1>4. PICK existing \in SUBSET Names :
            StartPhotos(q, all, existing) /\ \A n \in existing : \E p \in Places : held[all][<<n, p>>] > 0
    <2>1. In(all) \in SUBSET Names /\ \A n \in In(all) : \E p \in Places : held[all][<<n, p>>] > 0
      BY DEF In, Holds
    <2> QED BY <2>1 DEF List
  <1>5. PICK r \in Imports :
               /\ req' = [req EXCEPT ![q] = r] /\ r.at = "photos" /\ r.product = req[q].product /\ r.all = all
               /\ Alike(r, req[q])
               /\ \A i \in Places : r.fate[i] = IF FileName(q, i) \in existing THEN "reused" ELSE "open"
               /\ SeesAllItSends(q, r)
    <2>1. all \in Nat /\ req \in [Requests -> ARequest] /\ DriveOK
      BY <1>2, InvFacts DEF Imports
    <2> QED BY <1>2, <1>4, <2>1, StartPhotosMoves
  <1>6. Sound(r)
    <2>1. r.kind = "retry" /\ r.sends = Page /\ r.version[1].slug \in Slugs /\ DOMAIN r.sends = Places
      <3>1. req[q].kind = "retry" /\ req[q].sends = Page /\ req[q].version[1].slug \in Slugs
        BY <1>1, <1>2 DEF Sound
      <3> QED BY <1>5, <3>1, TickedFacts DEF Alike
    <2>2. ASSUME NEW i \in DOMAIN r.sends, r.fate[i] \in {"reused", "landed"} PROVE Filled(r.all, r.sends[i])
      <3>1. i \in Places /\ r.sends[i] = i
        BY <2>1, TickedFacts
      <3>2. FileName(q, i) \in existing
        BY <1>5, <2>2, <3>1
      <3>3. PICK n \in Names : n = FileName(q, i) /\ n[2] = i
        <4>1. namePrefix(q) \in Slugs
          BY <1>5, <2>1 DEF namePrefix, Alike
        <4> QED BY <3>1, <4>1, NameFacts DEF FileName
      <3>4. PICK p \in Places : held[all][<<n, p>>] > 0
        BY <1>4, <3>2, <3>3
      <3>5. p = i \/ skipped
        BY <1>3, <3>3, <3>4 DEF PhotosInv, Named
      <3>6. Filled(all, i)
        <4>1. CASE p = i
          BY <3>4, <4>1 DEF Filled
        <4>2. CASE p # i
          BY <3>3, <3>4, <3>5, <4>2 DEF Filled
        <4> QED BY <4>1, <4>2
      <3> QED BY <1>5, <3>1, <3>6
    <2> QED BY <1>2, <1>3, <1>5, <2>1, <2>2 DEF Sound
  <1>7. RowOK' /\ RootOK' /\ root' = root
    BY <1>1, <1>5, InvFacts DEF SeesAllItSends
  <1> QED BY <1>1, <1>5, <1>6, <1>7, StillMoves DEF ARequest

\* A request moves on while a folder is made.
LEMMA FolderMadeMoves ==
    ASSUME PhotosInv, NEW in \in 0..Len(folders), NEW label \in Nat, CreateFolder(in, label),
           UNCHANGED <<rootVars, row, name, asked, deleted>>,
           NEW q \in Requests, NEW r \in Imports, req' = [req EXCEPT ![q] = r], Sound(r)',
           SendsNoMore(q, r) \/ SeesAllItSends(q, r)
    PROVE  PhotosInv'
  <1>1. /\ root' = root /\ RootOK' /\ DriveOK /\ RowOK /\ row' = row /\ name' \in Nat /\ deleted' = deleted
        /\ (skipped => skipped')
    BY InvFacts DEF SendsNoMore, SeesAllItSends, sentVars
  <1>2. DriveOK' /\ Kept /\ NothingGone' /\ NothingStored
    BY <1>1, FolderMade
  <1>3. RowOK'
    BY <1>1, <1>2, RowStays DEF RowOK
  <1> QED BY <1>1, <1>2, <1>3, OneMoves DEF ARequest

\* An import on its way to its folders, none of whose photos is anywhere.
Nowhere(r) == \A i \in Places : r.fate[i] = "open"

LEMMA NowhereSound ==
    ASSUME NEW t \in Imports, Sound(t), Nowhere(t), NEW r \in Imports, Alike(r, t), r.fate = t.fate
    PROVE  /\ Nowhere(r)
           /\ r.kind = "retry" => r.sends = Page /\ r.version[1].slug \in Slugs
           /\ \A i \in DOMAIN r.sends : r.fate[i] = "open"
  <1>1. DOMAIN r.sends \subseteq Places
    BY TickedFacts DEF Imports
  <1> QED BY <1>1 DEF Sound, Nowhere, Alike

LEMMA EnsureChildInv ==
    ASSUME PhotosInv, NEW q \in Requests, EnsureChild(q)
    PROVE  PhotosInv'
  <1>1. /\ req[q].at \in {"product", "make product", "all", "make all"}
        /\ UNCHANGED <<rootVars, row, name, asked, deleted>>
    BY DEF EnsureChild
  <1>2. req[q] \in Imports /\ Sound(req[q]) /\ req \in [Requests -> ARequest] /\ DriveOK
    BY <1>1, InvFacts, ImportAt DEF InFolders
  <1>3. /\ root = "shared" /\ req[q].product \in 0..Len(folders) /\ Nowhere(req[q])
        /\ req[q].at \in {"all", "make all"} => req[q].product # 0
    BY <1>1, <1>2 DEF Sound, InFolders, Nowhere
  <1>4. Len(folders) \in Nat /\ DOMAIN folders = 1..Len(folders)
    BY <1>2, DriveFacts
  <1>5. UNCHANGED driveVars /\ (skipped => skipped') => RowOK' /\ RootOK' /\ root' = root
    BY <1>1, InvFacts
  <1>6. PICK t \in Imports : t = req[q]
    BY <1>2
  <1>7. CASE req[q].at = "product"
    <2>1. UNCHANGED <<driveVars, sentVars>> /\ (skipped => skipped')
      <3>1. UNCHANGED <<driveVars, sentVars>>
        BY <1>7 DEF EnsureChild
      <3> QED BY <3>1 DEF sentVars
    <2>2. CASE Children(0, FolderName(q)) = {}
      <3>1. req' = [req EXCEPT ![q] = [t EXCEPT !.at = "make product"]]
        BY <1>6, <1>7, <2>2, Zenon DEF EnsureChild, Goto
      <3> DEFINE r == [t EXCEPT !.at = "make product"]
      <3>2. r \in Imports /\ r.at = "make product" /\ r.product = t.product /\ r.fate = t.fate /\ Alike(r, t)
        BY DEF Imports, InFolders, Alike
      <3> HIDE DEF r
      <3>3. Sound(r) /\ SendsNoMore(q, r)
        <4>1. /\ Nowhere(r) /\ (r.kind = "retry" => r.sends = Page /\ r.version[1].slug \in Slugs)
              /\ \A i \in DOMAIN r.sends : r.fate[i] = "open"
          BY <1>2, <1>3, <1>6, <3>2, NowhereSound
        <4> QED BY <1>3, <1>6, <2>1, <3>2, <4>1 DEF Sound, SendsNoMore, Nowhere
      <3> QED BY <1>1, <1>5, <2>1, <3>1, <3>2, <3>3, StillMoves DEF ARequest, r
    <2>3. CASE Children(0, FolderName(q)) # {}
      <3> DEFINE n == Oldest(Children(0, FolderName(q)))
      <3>1. req' = [req EXCEPT ![q] = [req[q] EXCEPT !.at = "all", !.product = n]]
        BY <1>7, <2>3, Zenon DEF EnsureChild
      <3>2. n \in 1..Len(folders)
        <4>1. Children(0, FolderName(q)) \subseteq 1..Len(folders)
          BY <1>4 DEF Children
        <4>2. Children(0, FolderName(q)) \in SUBSET Nat
          BY <4>1
        <4> QED BY <2>3, <4>1, <4>2, OldestIsOne
      <3> HIDE DEF n
      <3>3. PICK m \in Nat : m = n /\ m \in 1..Len(folders)
        BY <3>2
      <3> DEFINE r == [t EXCEPT !.at = "all", !.product = m]
      <3>4. req' = [req EXCEPT ![q] = r]
        BY <1>6, <3>1, <3>3, Zenon
      <3>5. r \in Imports /\ r.at = "all" /\ r.product = m /\ r.fate = t.fate /\ Alike(r, t)
        BY DEF Imports, InFolders, Alike
      <3> HIDE DEF r
      <3>6. Sound(r) /\ SendsNoMore(q, r)
        <4>1. m \in 0..Len(folders) /\ m # 0
          BY <1>4, <3>3
        <4>2. /\ Nowhere(r) /\ (r.kind = "retry" => r.sends = Page /\ r.version[1].slug \in Slugs)
              /\ \A i \in DOMAIN r.sends : r.fate[i] = "open"
          BY <1>2, <1>3, <1>6, <3>5, NowhereSound
        <4> QED BY <1>3, <1>6, <2>1, <3>5, <4>1, <4>2 DEF Sound, SendsNoMore, Nowhere
      <3> QED BY <1>1, <1>5, <2>1, <3>4, <3>5, <3>6, StillMoves DEF ARequest
    <2> QED BY <2>2, <2>3
  <1>8. CASE req[q].at = "make product"
    <2>1. CreateFolder(0, FolderName(q)) /\ UNCHANGED sentVars /\ (skipped => skipped')
      <3>1. CreateFolder(0, FolderName(q)) /\ UNCHANGED sentVars
        BY <1>8 DEF EnsureChild
      <3> QED BY <3>1 DEF sentVars
    <2>2. req' = [req EXCEPT ![q] = [req[q] EXCEPT !.at = "all", !.product = Len(folders')]]
      BY <1>8, Zenon DEF EnsureChild
    <2>3. 0 \in 0..Len(folders) /\ FolderName(q) \in Nat
      BY <1>2, <1>4 DEF FolderName, Imports
    <2>4. root' = root /\ RootOK' /\ deleted' = deleted
      BY <1>1, InvFacts
    <2>5. DriveOK' /\ Len(folders') = Len(folders) + 1
      BY <2>1, <2>3, <2>4, FolderMade
    <2>6. PICK m \in Nat : m = Len(folders')
      BY <1>4, <2>5
    <2> DEFINE r == [t EXCEPT !.at = "all", !.product = m]
    <2>7. req' = [req EXCEPT ![q] = r]
      BY <1>6, <2>2, <2>6, Zenon
    <2>8. r \in Imports /\ r.at = "all" /\ r.product = m /\ r.fate = t.fate /\ Alike(r, t)
      BY DEF Imports, InFolders, Alike
    <2> HIDE DEF r
    <2>9. Sound(r)' /\ SendsNoMore(q, r)
      <3>1. m \in 0..Len(folders') /\ m # 0
        BY <1>4, <2>5, <2>6
      <3>2. /\ Nowhere(r) /\ (r.kind = "retry" => r.sends = Page /\ r.version[1].slug \in Slugs)
            /\ \A i \in DOMAIN r.sends : r.fate[i] = "open"
        BY <1>2, <1>3, <1>6, <2>8, NowhereSound
      <3> QED BY <1>3, <2>1, <2>4, <2>8, <3>1, <3>2 DEF Sound, SendsNoMore, Nowhere
    <2> QED BY <1>1, <2>1, <2>3, <2>7, <2>8, <2>9, FolderMadeMoves
  <1>9. CASE req[q].at = "all"
    <2>1. UNCHANGED driveVars
      BY <1>9 DEF EnsureChild
    <2>2. CASE Children(req[q].product, 0) = {}
      <3>1. req' = [req EXCEPT ![q] = [t EXCEPT !.at = "make all"]] /\ UNCHANGED sentVars /\ (skipped => skipped')
        BY <1>6, <1>9, <2>2, Zenon DEF EnsureChild, Goto, sentVars
      <3> DEFINE r == [t EXCEPT !.at = "make all"]
      <3>2. r \in Imports /\ r.at = "make all" /\ r.product = t.product /\ r.fate = t.fate /\ Alike(r, t)
        BY DEF Imports, InFolders, Alike
      <3> HIDE DEF r
      <3>3. Sound(r) /\ SendsNoMore(q, r)
        <4>1. /\ Nowhere(r) /\ (r.kind = "retry" => r.sends = Page /\ r.version[1].slug \in Slugs)
              /\ \A i \in DOMAIN r.sends : r.fate[i] = "open"
          BY <1>2, <1>3, <1>6, <3>2, NowhereSound
        <4> QED BY <1>3, <1>6, <1>9, <3>1, <3>2, <4>1 DEF Sound, SendsNoMore, Nowhere
      <3> QED BY <1>1, <1>5, <2>1, <3>1, <3>2, <3>3, StillMoves DEF ARequest, r
    <2>3. CASE Children(req[q].product, 0) # {}
      <3> DEFINE n == Oldest(Children(req[q].product, 0))
      <3>1. Found(q, n)
        BY <1>9, <2>3 DEF EnsureChild
      <3>2. n \in Children(req[q].product, 0) /\ n \in 1..Len(folders)
        <4>1. Children(req[q].product, 0) \subseteq 1..Len(folders)
          BY <1>4 DEF Children
        <4>2. Children(req[q].product, 0) \in SUBSET Nat
          BY <4>1
        <4> QED BY <2>3, <4>1, <4>2, OldestIsOne
      <3>3. Inside(n, req[q].product)
        <4>1. req[q].product \in 1..Len(folders)
          BY <1>3, <1>4, <1>9
        <4> QED BY <3>2, <4>1 DEF Inside, Children
      <3> HIDE DEF n
      <3>4. PICK r \in Imports :
               /\ req' = [req EXCEPT ![q] = r] /\ r.at \in {"list", "photos"} /\ r.product = req[q].product
               /\ Alike(r, req[q]) /\ (r.at = "list" => r.kind = "retry")
               /\ r.all = n /\ \A i \in Places : r.fate[i] = "open"
               /\ SendsNoMore(q, r) \/ SeesAllItSends(q, r)
        BY <1>2, <1>9, <3>1, <3>2, FoundMoves
      <3>5. Sound(r)
        <4>1. DOMAIN r.sends \subseteq Places
          BY TickedFacts DEF Imports
        <4>2. r.kind = "retry" => r.sends = Page /\ r.version[1].slug \in Slugs
          BY <1>2, <3>4 DEF Sound, Alike
        <4> QED BY <1>3, <3>3, <3>4, <4>1, <4>2 DEF Sound
      <3>6. skipped => skipped'
        BY <3>4 DEF SendsNoMore, SeesAllItSends, sentVars
      <3> QED BY <1>1, <1>5, <2>1, <3>4, <3>5, <3>6, StillMoves DEF ARequest
    <2> QED BY <2>2, <2>3
  <1>10. CASE req[q].at = "make all"
    <2>1. CreateFolder(req[q].product, 0) /\ Found(q, Len(folders'))
      BY <1>10 DEF EnsureChild
    <2>2. root' = root /\ RootOK' /\ deleted' = deleted
      BY <1>1, InvFacts
    <2>3. skipped => skipped'
      BY <2>1 DEF Found, StartPhotos, Remember, sentVars
    <2>4. /\ DriveOK' /\ Len(folders') = Len(folders) + 1
          /\ folders'[Len(folders) + 1].in = req[q].product /\ folders'[Len(folders) + 1].label = 0
      BY <1>3, <2>1, <2>2, <2>3, FolderMade
    <2>5. PICK n \in Nat : n = Len(folders') /\ n = Len(folders) + 1
      BY <1>4, <2>4
    <2>6. PICK r \in Imports :
               /\ req' = [req EXCEPT ![q] = r] /\ r.at \in {"list", "photos"} /\ r.product = req[q].product
               /\ Alike(r, req[q]) /\ (r.at = "list" => r.kind = "retry")
               /\ r.all = n /\ \A i \in Places : r.fate[i] = "open"
               /\ SendsNoMore(q, r) \/ SeesAllItSends(q, r)
      <3>1. Found(q, n)
        BY <2>1, <2>5, Zenon DEF Found, StartPhotos, Remember
      <3>2. req[q].at \notin {"photos", "row"}
        BY <1>10
      <3> QED BY <1>2, <3>1, <3>2, FoundMoves
    <2>7. Inside(n, r.product)'
      <3>1. r.product \in 1..Len(folders') /\ n \in 1..Len(folders')
        <4>1. \A i \in 0..Len(folders) : i # 0 => i \in 1..(Len(folders) + 1)
          BY <1>4
        <4>2. n \in 1..n
          BY <1>4, <2>5
        <4> QED BY <1>3, <1>10, <2>5, <2>6, <4>1, <4>2
      <3> QED BY <2>4, <2>5, <2>6, <3>1 DEF Inside
    <2>8. Sound(r)'
      <3>1. r.product \in 0..Len(folders')
        <4>1. \A i \in 0..Len(folders) : i \in 0..(Len(folders) + 1)
          BY <1>4
        <4> QED BY <1>3, <2>5, <2>6, <4>1
      <3>2. DOMAIN r.sends \subseteq Places
        BY TickedFacts DEF Imports
      <3>3. r.kind = "retry" => r.sends = Page /\ r.version[1].slug \in Slugs
        BY <1>2, <2>6 DEF Sound, Alike
      <3> QED BY <1>3, <2>2, <2>6, <2>7, <3>1, <3>2, <3>3 DEF Sound
    <2> QED BY <1>1, <1>3, <2>1, <2>6, <2>8, FolderMadeMoves
  <1> QED BY <1>1, <1>7, <1>8, <1>9, <1>10

LEMMA EnsureChildFailsInv ==
    ASSUME PhotosInv, NEW q \in Requests, EnsureChildFails(q)
    PROVE  PhotosInv'
  <1>1. /\ req[q].at \in {"product", "make product", "all", "make all"}
        /\ UNCHANGED <<rootVars, row, name, asked, sentVars, deleted>>
        /\ req' = [req EXCEPT ![q] = [req[q] EXCEPT !.at = "row", !.product = 0]]
    BY Zenon DEF EnsureChildFails
  <1>2. req[q] \in Imports /\ Sound(req[q]) /\ DriveOK /\ (skipped => skipped')
    BY <1>1, InvFacts, ImportAt DEF InFolders, sentVars
  <1>3. req[q].product \in 0..Len(folders) /\ Nowhere(req[q])
    BY <1>1, <1>2 DEF Sound, Nowhere
  <1>4. PICK t \in Imports : t = req[q]
    BY <1>2
  <1> DEFINE r == [t EXCEPT !.at = "row", !.product = 0]
  <1>5. req' = [req EXCEPT ![q] = r]
    BY <1>1, <1>4, Zenon
  <1>6. r \in Imports /\ r.at = "row" /\ r.product = 0 /\ r.fate = t.fate /\ Alike(r, t)
    BY DEF Imports, Alike
  <1> HIDE DEF r
  <1>7. SendsNoMore(q, r)
    BY <1>1, <1>6 DEF SendsNoMore
  <1>8. /\ Nowhere(r) /\ (r.kind = "retry" => r.sends = Page /\ r.version[1].slug \in Slugs)
        /\ \A i \in DOMAIN r.sends : r.fate[i] = "open"
    BY <1>2, <1>3, <1>4, <1>6, NowhereSound
  <1>9. 0 \in 0..Len(folders)
    BY <1>2, DriveFacts
  <1>10. CASE UNCHANGED driveVars
    <2>1. Sound(r)
      BY <1>6, <1>8, <1>9 DEF Sound, InFolders, Nowhere
    <2>2. RowOK' /\ RootOK' /\ root' = root
      BY <1>1, <1>2, <1>10, InvFacts
    <2> QED BY <1>1, <1>5, <1>6, <1>7, <1>10, <2>1, <2>2, StillMoves DEF ARequest
  <1>11. ASSUME NEW in \in 0..Len(folders), NEW label \in Nat, CreateFolder(in, label) PROVE PhotosInv'
    <2>1. DriveOK' /\ Len(folders') \in Nat
      <3>1. root' = root /\ deleted' = deleted
        BY <1>1, InvFacts
      <3> QED BY <1>2, <1>11, <3>1, FolderMade DEF DriveOK
    <2>2. 0 \in 0..Len(folders')
      BY <2>1
    <2>3. Sound(r)'
      BY <1>6, <1>8, <2>2 DEF Sound, InFolders, Nowhere
    <2> QED BY <1>1, <1>5, <1>6, <1>7, <1>11, <2>3, FolderMadeMoves
  <1>12. FolderName(q) \in Nat
    BY <1>2 DEF FolderName, Imports
  <1>13. UNCHANGED driveVars \/ CreateFolder(0, FolderName(q)) \/ CreateFolder(req[q].product, 0)
    BY DEF EnsureChildFails
  <1> QED BY <1>3, <1>9, <1>10, <1>11, <1>12, <1>13

\* A photo that was on its way is stored in the folder it was sent to.
LEMMA StoreMoves ==
    ASSUME PhotosInv, NEW q \in Requests, NEW i \in Sending(q), StoreOf(q, i),
           NEW s \in {"landed", "failed"}, Outcome(q, i, s), UNCHANGED <<rootVars, row, name, asked, sentVars, deleted>>
    PROVE  PhotosInv'
  <1>1. i \in Places /\ req[q].at = "photos" /\ i \in DOMAIN req[q].sends /\ req[q].fate[i] = "open"
    BY DEF Sending, Open
  <1>2. req[q] \in Imports /\ Sound(req[q]) /\ DriveOK
    BY <1>1, InvFacts, ImportAt DEF InFolders
  <1>3. PICK t \in Imports : t = req[q]
    BY <1>2
  <1>4. PICK f \in 1..Len(folders) : f = t.all
    BY <1>1, <1>2, <1>3 DEF Sound, Inside
  <1>5. PICK p \in Places : p = t.sends[i]
    BY <1>1, <1>2, <1>3, InvFacts
  <1>6. PrefixOf(t) \in Slugs /\ PrefixOf(t) = namePrefix(q) /\ \A j : FileOf(t, j) = FileName(q, j)
    <2>1. t.kind = "retry" => t.version[1].slug \in Slugs
      BY <1>2, <1>3 DEF Sound
    <2> QED BY <1>3, <2>1, NameFacts DEF PrefixOf, FileOf, namePrefix, FileName
  <1>7. PICK m \in Names : m = FileName(q, i) /\ m[2] = i /\ m[1] \in {0, PrefixOf(t)}
    BY <1>1, <1>6, NameFacts DEF FileName
  <1> DEFINE r == [t EXCEPT !.fate[i] = s]
  <1>8. req' = [req EXCEPT ![q] = r]
    BY <1>3, Zenon DEF Outcome
  <1>9. /\ r \in Imports /\ r.at = t.at /\ Alike(r, t) /\ r.product = t.product /\ r.all = t.all
        /\ r.fate[i] = s /\ \A o \in Places \ {i} : r.fate[o] = t.fate[o]
    <2>1. s \in Fates
      BY DEF Fates
    <2> QED BY <1>1, <2>1, OnePhotoChanges, Zenon
  <1> HIDE DEF r
  <1>10. /\ folders' = folders /\ ~Gone(f)
         /\ held' = [held EXCEPT ![f][<<m, p>>] = IF held[f][<<m, p>>] = 2 THEN 2 ELSE held[f][<<m, p>>] + 1]
    BY <1>3, <1>4, <1>5, <1>7, Zenon DEF StoreOf, Store
  <1>11. /\ root' = root /\ row' = row /\ name' = name /\ asked' = asked /\ deleted' = deleted
         /\ skipped' = skipped /\ renumbered' = renumbered /\ blind' = blind
    BY DEF rootVars, sentVars
  <1>12. held[f][<<m, p>>] \in 0..2
    BY <1>2, DriveFacts
  <1>13. /\ held' \in Seq(Counts) /\ Len(held') = Len(held)
         /\ \A g \in 1..Len(folders), n \in Names, o \in Places :
               held'[g][<<n, o>>] = IF g = f /\ n = m /\ o = p
                                    THEN IF held[f][<<m, p>>] = 2 THEN 2 ELSE held[f][<<m, p>>] + 1
                                    ELSE held[g][<<n, o>>]
    <2> DEFINE k == IF held[f][<<m, p>>] = 2 THEN 2 ELSE held[f][<<m, p>>] + 1
    <2>1. k \in 0..2 /\ held \in Seq(Counts) /\ Len(held) = Len(folders) /\ f \in 1..Len(held)
      BY <1>2, <1>12 DEF DriveOK
    <2>2. held' = [held EXCEPT ![f] = [held[f] EXCEPT ![<<m, p>>] = k]]
      BY <1>10, Zenon
    <2> HIDE DEF k
    <2>3. \A h \in Counts : [h EXCEPT ![<<m, p>>] = k] \in Counts
      BY <2>1 DEF Counts
    <2>4. held[f] \in Counts
      BY <2>1
    <2>5. [held[f] EXCEPT ![<<m, p>>] = k] \in Counts
      BY <2>3, <2>4
    <2>6. held' \in Seq(Counts) /\ Len(held') = Len(held)
      BY <2>1, <2>2, <2>5
    <2>7. \A g \in 1..Len(folders), n \in Names, o \in Places :
              held'[g][<<n, o>>] = IF g = f /\ n = m /\ o = p THEN k ELSE held[g][<<n, o>>]
      BY <2>1, <2>2, <2>4 DEF Counts
    <2> QED BY <2>6, <2>7 DEF k
  <1>14. DriveOK'
    BY <1>2, <1>10, <1>13 DEF DriveOK
  <1>15. held'[f][<<m, p>>] > 0 /\ (held[f][<<m, p>>] = 0 => held'[f][<<m, p>>] = 1)
    BY <1>12, <1>13
  <1>16. Kept
    <2>1. \A g \in 1..Len(folders), n \in Names, o \in Places : held[g][<<n, o>>] <= held'[g][<<n, o>>]
      <3> TAKE g \in 1..Len(folders), n \in Names, o \in Places
      <3>1. held[g][<<n, o>>] \in 0..2
        BY <1>2, DriveFacts
      <3> QED BY <1>12, <1>13, <3>1
    <2>2. Len(folders) <= Len(folders)'
      BY <1>2, <1>10, DriveFacts
    <2> QED BY <1>10, <1>11, <2>1, <2>2 DEF Kept
  <1>17. Sound(r)'
    <2>1. Sound(t)'
      BY <1>2, <1>3, <1>14, <1>16, SoundStays
    <2>2. r.at = "photos" /\ t.at = "photos" /\ r.sends = t.sends /\ DOMAIN r.sends \subseteq Places
      BY <1>1, <1>3, <1>9, TickedFacts DEF Alike, Imports
    <2>3. Inside(r.all, r.product)' /\ root' = "shared" /\ r.product \in 0..Len(folders')
      BY <1>9, <2>1, <2>2 DEF Sound, InFolders
    <2>4. r.kind = "retry" => r.sends = Page /\ r.version[1].slug \in Slugs
      BY <1>9, <2>1 DEF Sound, Alike
    <2>5. ASSUME NEW o \in DOMAIN r.sends, r.fate[o] \in {"reused", "landed"} PROVE Filled(r.all, r.sends[o])'
      <3>1. CASE o = i
        <4>1. Filled(f, p)'
          BY <1>15 DEF Filled
        <4> QED BY <1>4, <1>5, <1>9, <2>2, <3>1, <4>1
      <3>2. CASE o # i
        <4>1. t.fate[o] \in {"reused", "landed"}
          BY <1>9, <2>2, <2>5, <3>2
        <4>2. Filled(t.all, t.sends[o])'
          BY <2>1, <2>2, <4>1 DEF Sound
        <4> QED BY <1>9, <2>2, <4>2
      <3> QED BY <3>1, <3>2
    <2> QED BY <2>2, <2>3, <2>4, <2>5 DEF Sound
  <1>18. ImportsOK'
    BY <1>8, <1>9, <1>14, <1>16, <1>17, ImportsMove DEF ARequest
  <1>19. RootOK' /\ RowOK' /\ NothingGone'
    <2>1. RootOK'
      BY InvFacts
    <2>2. RowOK'
      BY <1>2, <1>11, <1>14, <1>16, InvFacts, RowStays DEF RowOK
    <2>3. NothingGone'
      BY <1>10, <1>11 DEF PhotosInv, NothingGone
    <2> QED BY <2>1, <2>2, <2>3
  <1>20. req'[q] = r /\ \A a \in Requests \ {q} : req'[a] = req[a]
    BY <1>8 DEF PhotosInv, ImportsOK
  <1>21. PrefixOf(r) = PrefixOf(t) /\ r.sends = t.sends /\ \A j : FileOf(r, j) = FileOf(t, j)
    BY <1>9, AlikeNames DEF Alike
  <1>22. Named /\ NamesItsOwn(t)
    BY <1>1, <1>3 DEF PhotosInv, Named
  <1>23. Named'
    <2>1. ASSUME NEW g \in 1..Len(folders)', NEW n \in Names, NEW o \in Places, held'[g][<<n, o>>] > 0
          PROVE  (n[2] = o \/ skipped') /\ (n[1] \in {0, 1} \/ renumbered')
      <3>1. CASE g = f /\ n = m /\ o = p
        BY <1>1, <1>3, <1>5, <1>7, <1>11, <1>22, <3>1 DEF NamesItsOwn
      <3>2. CASE ~(g = f /\ n = m /\ o = p)
        <4>1. g \in 1..Len(folders) /\ held[g][<<n, o>>] > 0
          BY <1>10, <1>13, <2>1, <3>2
        <4> QED BY <1>11, <1>22, <4>1 DEF Named
      <3> QED BY <3>1, <3>2
    <2>2. ASSUME NEW a \in Requests, req'[a].at = "photos" PROVE NamesItsOwn(req[a])'
      <3>1. CASE a = q
        BY <1>11, <1>20, <1>21, <1>22, <3>1 DEF NamesItsOwn, PrefixOf
      <3>2. CASE a # q
        BY <1>11, <1>20, <1>22, <2>2, <3>2 DEF Named, NamesItsOwn, PrefixOf
      <3> QED BY <3>1, <3>2
    <2> QED BY <2>1, <2>2 DEF Named
  <1>24. Once'
    <2> SUFFICES ASSUME ~blind
                 PROVE  /\ \A a, b \in Requests : req'[a].at = "photos" /\ req'[b].at = "photos" => a = b
                        /\ \A a \in Requests : req'[a].at = "photos" => SendsWhatIsNot(req[a])'
                        /\ \A g, h \in 1..Len(folders)', n, x \in Names, o, y \in Places :
                              Holds(g, n, o)' /\ Holds(h, x, y)' =>
                                  g = h /\ held'[g][<<n, o>>] = 1 /\ (n = x => o = y)
      BY <1>11 DEF Once
    <2>1. /\ \A a, b \in Requests : req[a].at = "photos" /\ req[b].at = "photos" => a = b
          /\ SendsWhatIsNot(t)
          /\ \A g, h \in 1..Len(folders), n, x \in Names, o, y \in Places :
                Holds(g, n, o) /\ Holds(h, x, y) => g = h /\ held[g][<<n, o>>] = 1 /\ (n = x => o = y)
      BY <1>1, <1>3 DEF PhotosInv, Once
    <2>2. \A g \in 1..Len(folders), n \in Names, o \in Places :
              Holds(g, n, o) => g = f /\ n # m
      BY <1>1, <1>3, <1>4, <1>6, <1>7, <2>1 DEF SendsWhatIsNot
    <2>3. held[f][<<m, p>>] = 0 /\ held'[f][<<m, p>>] = 1
      BY <1>10, <1>12, <1>15, <2>2 DEF Holds
    <2>4. ASSUME NEW g \in 1..Len(folders)', NEW n \in Names, NEW o \in Places, Holds(g, n, o)'
          PROVE  /\ g = f /\ g \in 1..Len(folders) /\ held'[g][<<n, o>>] = 1
                 /\ (n = m /\ o = p) \/ (n # m /\ Holds(g, n, o))
      <3>1. g \in 1..Len(folders) /\ held'[g][<<n, o>>] > 0 /\ ~Gone(g)
        BY <1>10, <2>4 DEF Holds, Gone
      <3>2. CASE g = f /\ n = m /\ o = p
        BY <2>3, <3>1, <3>2
      <3>3. CASE ~(g = f /\ n = m /\ o = p)
        <4>1. held'[g][<<n, o>>] = held[g][<<n, o>>]
          BY <1>13, <3>1, <3>3
        <4>2. Holds(g, n, o)
          BY <3>1, <4>1 DEF Holds
        <4> QED BY <2>1, <2>2, <3>1, <4>1, <4>2
      <3> QED BY <3>2, <3>3
    <2>5. \A a, b \in Requests : req'[a].at = "photos" /\ req'[b].at = "photos" => a = b
      BY <1>1, <1>20, <2>1
    <2>6. ASSUME NEW a \in Requests, req'[a].at = "photos" PROVE SendsWhatIsNot(req[a])'
      <3>1. a = q
        BY <1>1, <1>20, <2>1, <2>6
      <3>2. req'[a] = r /\ \A j : FileOf(req[a], j)' = FileOf(t, j)
        BY <1>20, <1>21, <3>1 DEF FileOf, PrefixOf
      <3> SUFFICES ASSUME NEW g \in 1..Len(folders)', NEW n \in Names, NEW o \in Places, Holds(g, n, o)',
                          NEW j \in DOMAIN t.sends
                   PROVE  g = r.all /\ (r.fate[j] = "open" => n # FileOf(t, j))
        <4>1. r.sends = t.sends /\ DOMAIN t.sends # {}
          BY <1>21, TickedFacts DEF Imports
        <4> QED BY <3>2, <4>1 DEF SendsWhatIsNot
      <3>3. g = f /\ ((n = m /\ o = p) \/ (n # m /\ Holds(g, n, o)))
        BY <2>4
      <3>4. j \in Places
        BY TickedFacts DEF Imports
      <3>5. ASSUME r.fate[j] = "open" PROVE n # FileOf(t, j)
        <4>1. j # i /\ t.fate[j] = "open"
          BY <1>9, <3>4, <3>5
        <4>2. FileOf(t, j)[2] = j
          BY <1>6, <3>4, NameFacts DEF FileOf
        <4>3. m # FileOf(t, j)
          BY <1>7, <4>1, <4>2
        <4>4. Holds(g, n, o) => n # FileOf(t, j)
          BY <1>10, <2>1, <4>1 DEF SendsWhatIsNot
        <4> QED BY <3>3, <4>3, <4>4
      <3> QED BY <1>4, <1>9, <3>3, <3>5
    <2>7. ASSUME NEW g \in 1..Len(folders)', NEW h \in 1..Len(folders)', NEW n \in Names, NEW x \in Names,
                 NEW o \in Places, NEW y \in Places, Holds(g, n, o)', Holds(h, x, y)'
          PROVE  g = h /\ held'[g][<<n, o>>] = 1 /\ (n = x => o = y)
      <3>1. /\ g = f /\ g \in 1..Len(folders) /\ held'[g][<<n, o>>] = 1
            /\ (n = m /\ o = p) \/ (n # m /\ Holds(g, n, o))
        BY <2>4, <2>7
      <3>2. h = f /\ h \in 1..Len(folders) /\ ((x = m /\ y = p) \/ (x # m /\ Holds(h, x, y)))
        BY <2>4, <2>7
      <3> QED BY <2>1, <3>1, <3>2
    <2> QED BY <2>5, <2>6, <2>7
  <1> QED BY <1>14, <1>18, <1>19, <1>23, <1>24 DEF PhotosInv

LEMMA SendInv ==
    ASSUME PhotosInv, NEW q \in Requests, NEW i \in Places, Uploaded(q, i) \/ UploadFails(q, i)
    PROVE  PhotosInv'
  <1>1. i \in Sending(q) /\ UNCHANGED <<rootVars, row, name, asked, sentVars, deleted>>
    BY DEF Uploaded, UploadFails
  <1>2. CASE Uploaded(q, i)
    BY <1>1, <1>2, StoreMoves DEF Uploaded
  <1>3. CASE UploadFails(q, i) /\ StoreOf(q, i)
    BY <1>1, <1>3, StoreMoves DEF UploadFails
  <1>4. CASE UploadFails(q, i) /\ UNCHANGED driveVars
    <2>1. req[q].at = "photos" /\ Outcome(q, i, "failed")
      BY <1>1, <1>4 DEF UploadFails, Sending, Open
    <2>2. req[q] \in Imports /\ Sound(req[q])
      BY <2>1, InvFacts, ImportAt DEF InFolders
    <2>3. PICK t \in Imports : t = req[q]
      BY <2>2
    <2> DEFINE r == [t EXCEPT !.fate[i] = "failed"]
    <2>4. req' = [req EXCEPT ![q] = r]
      BY <2>1, <2>3, Zenon DEF Outcome
    <2>5. /\ r \in Imports /\ r.at = t.at /\ Alike(r, t) /\ r.product = t.product /\ r.all = t.all
          /\ r.fate[i] = "failed" /\ \A o \in Places \ {i} : r.fate[o] = t.fate[o]
      <3>1. "failed" \in Fates
        BY DEF Fates
      <3> QED BY <3>1, OnePhotoChanges, Zenon
    <2> HIDE DEF r
    <2>6. \A o \in Places : r.fate[o] \in {"open", "reused", "landed"} => r.fate[o] = req[q].fate[o]
      BY <2>3, <2>5
    <2>7. Sound(r)
      <3>1. Inside(r.all, r.product) /\ root = "shared" /\ r.product \in 0..Len(folders) /\ r.at = "photos"
        BY <2>1, <2>2, <2>3, <2>5 DEF Sound, InFolders
      <3>2. r.sends = t.sends /\ DOMAIN r.sends \subseteq Places
        BY <2>5, TickedFacts DEF Alike, Imports
      <3>3. \A o \in DOMAIN r.sends : r.fate[o] \in {"reused", "landed"} => Filled(r.all, r.sends[o])
        BY <2>2, <2>3, <2>5, <2>6, <3>2 DEF Sound
      <3>4. r.kind = "retry" => r.sends = Page /\ r.version[1].slug \in Slugs
        BY <2>2, <2>3, <2>5 DEF Sound, Alike
      <3> QED BY <3>1, <3>3, <3>4 DEF Sound
    <2>8. SendsNoMore(q, r)
      <3>1. r.sends = t.sends /\ PrefixOf(r) = PrefixOf(t)
        BY <2>5, AlikeNames DEF Alike
      <3> QED BY <1>1, <2>1, <2>3, <2>5, <2>6, <3>1 DEF SendsNoMore
    <2>9. RowOK' /\ RootOK' /\ root' = root
      <3>1. skipped => skipped'
        BY <1>1 DEF sentVars
      <3> QED BY <1>1, <1>4, <3>1, InvFacts
    <2> QED BY <1>1, <1>4, <2>4, <2>5, <2>7, <2>8, <2>9, StillMoves DEF ARequest
  <1> QED BY <1>2, <1>3, <1>4 DEF UploadFails

LEMMA DeleteFilesInv ==
    ASSUME PhotosInv, NEW q \in Requests, DeleteFiles(q)
    PROVE  PhotosInv'
  <1> DEFINE f == req[q].version[1].folder
  <1>1. /\ req[q].at = "delete" /\ req' = [req EXCEPT ![q] = [req[q] EXCEPT !.at = "row"]] /\ deleted' = TRUE
        /\ folders' = folders \/ folders' = [folders EXCEPT ![f].gone = TRUE]
        /\ UNCHANGED <<held, rootVars, row, name, asked, sentVars>>
    BY Zenon DEF DeleteFiles, Goto
  <1> HIDE DEF f
  <1>2. DriveOK /\ req \in [Requests -> ARequest]
    BY InvFacts
  <1>3. /\ folders' \in Seq(Folder) /\ Len(folders') = Len(folders)
        /\ \A g \in 1..Len(folders) :
              /\ folders'[g].in = folders[g].in /\ folders'[g].label = folders[g].label
              /\ folders[g].gone => folders'[g].gone
    <2>1. CASE folders' = folders
      BY <1>2, <2>1 DEF DriveOK
    <2>2. CASE folders' = [folders EXCEPT ![f].gone = TRUE]
      <3>1. folders \in Seq(Folder) /\ DOMAIN folders = 1..Len(folders) /\ \A g \in 1..Len(folders) : folders[g] \in Folder
        BY <1>2, DriveFacts DEF DriveOK
      <3>2. folders' = [g \in 1..Len(folders) |-> IF g = f THEN [folders[g] EXCEPT !.gone = TRUE] ELSE folders[g]]
        BY <2>2, <3>1, Zenon
      <3>3. \A x \in Folder : LET y == [x EXCEPT !.gone = TRUE] IN y \in Folder /\ y.in = x.in /\ y.label = x.label /\ y.gone
        BY DEF Folder
      <3>4. \A g \in 1..Len(folders) :
                /\ folders'[g] \in Folder
                /\ folders'[g].in = folders[g].in /\ folders'[g].label = folders[g].label
                /\ folders[g].gone => folders'[g].gone
        <4> TAKE g \in 1..Len(folders)
        <4>1. CASE g = f
          <5>1. folders'[g] = [folders[g] EXCEPT !.gone = TRUE] /\ folders[g] \in Folder
            BY <3>1, <3>2, <4>1, Zenon
          <5> QED BY <3>3, <5>1, Zenon
        <4>2. CASE g # f
          <5>1. folders'[g] = folders[g] /\ folders[g] \in Folder
            BY <3>1, <3>2, <4>2, Zenon
          <5> QED BY <5>1, Zenon
        <4> QED BY <4>1, <4>2
      <3>5. Len(folders) \in Nat
        BY <3>1
      <3>6. \A g \in 1..Len(folders) : folders'[g] \in Folder
        BY <3>4
      <3>7. folders' \in Seq(Folder) /\ Len(folders') = Len(folders)
        BY <3>2, <3>5, <3>6
      <3> QED BY <3>4, <3>7, Zenon
    <2> QED BY <1>1, <2>1, <2>2
  <1>4. held' = held /\ row' = row /\ name' = name /\ root' = root /\ asked' = asked /\ skipped' = skipped
    BY <1>1 DEF rootVars, sentVars
  <1>5. DriveOK' /\ Kept
    <2>1. DriveOK'
      BY <1>2, <1>3, <1>4 DEF DriveOK
    <2>2. \A g \in 1..Len(folders), n \in Names, p \in Places : held[g][<<n, p>>] <= held'[g][<<n, p>>]
      <3> TAKE g \in 1..Len(folders), n \in Names, p \in Places
      <3>1. held[g][<<n, p>>] \in 0..2
        BY <1>2, DriveFacts
      <3> QED BY <1>4, <3>1
    <2>3. Len(folders) <= Len(folders)'
      BY <1>2, <1>3, DriveFacts
    <2> QED BY <1>3, <1>4, <2>1, <2>2, <2>3 DEF Kept
  <1>6. RootOK' /\ RowOK' /\ NothingGone'
    <2>1. RowOK'
      BY <1>2, <1>4, <1>5, InvFacts, RowStays DEF RowOK
    <2> QED BY <1>1, <2>1, InvFacts DEF NothingGone
  <1>7. PICK r \in Deletes : req' = [req EXCEPT ![q] = r] /\ r.at = "row"
    <2>1. req[q] \in Deletes
      BY <1>1, <1>2 DEF ARequest, Rests, Imports, InFolders
    <2>2. \A x \in Deletes : LET y == [x EXCEPT !.at = "row"] IN y \in Deletes /\ y.at = "row"
      BY DEF Deletes
    <2>3. LET y == [req[q] EXCEPT !.at = "row"] IN y \in Deletes /\ y.at = "row"
      BY <2>1, <2>2, Zenon
    <2> QED BY <1>1, <2>3, Zenon
  <1>8. r \in ARequest /\ r \notin Imports
    BY <1>7 DEF ARequest, Deletes, Imports
  <1>9. NothingStored
    <2>1. ASSUME NEW g \in 1..Len(folders), Gone(g) PROVE Gone(g)'
      <3>1. folders[g].in # 0 => folders[g].in \in 1..Len(folders)
        BY <1>2, DriveFacts
      <3> QED BY <1>3, <2>1, <3>1 DEF Gone
    <2> QED BY <1>3, <1>4, <2>1 DEF NothingStored
  <1>10. SendsNoMore(q, r)
    BY <1>1, <1>7 DEF SendsNoMore
  <1> QED BY <1>5, <1>6, <1>7, <1>8, <1>9, <1>10, OneMoves

LEMMA PhotosStep == PhotosInv /\ [PhotosNext]_photosVars => PhotosInv'
  <1> SUFFICES ASSUME PhotosInv, [PhotosNext]_photosVars PROVE PhotosInv'
    OBVIOUS
  <1>1. CASE Resolve \/ ResolveFails \/ Rename \/ Crash
    BY <1>1, ResolveInv
  <1>2. ASSUME NEW q \in Requests, Add(q) \/ Retry(q) PROVE PhotosInv'
    <2>1. CASE Add(q)
      BY <2>1, BeginInv DEF Add
    <2>2. CASE Retry(q)
      BY <2>2, BeginInv, TickedFacts DEF Retry
    <2> QED BY <1>2, <2>1, <2>2
  <1>3. ASSUME NEW q \in Requests, Delete(q) \/ RowRefused(q) \/ DeleteRow(q) PROVE PhotosInv'
    BY <1>3, EndInv
  <1>4. ASSUME NEW q \in Requests, GiveUp(q) PROVE PhotosInv'
    BY <1>4, GiveUpInv
  <1>5. ASSUME NEW q \in Requests, Answered(q) PROVE PhotosInv'
    BY <1>3, <1>5, EnsureChildInv, EnsureChildFailsInv, ListInv, CommittedInv, SendInv, WriteRowInv, DeleteFilesInv
       DEF Answered
  <1>6. CASE UNCHANGED photosVars
    <2>1. UNCHANGED <<driveVars, rootVars, row, name, req, asked, sentVars, deleted>>
      BY <1>6 DEF photosVars
    <2>2. /\ UNCHANGED <<driveVars, sentVars, deleted>> /\ RootOK' /\ RowOK' /\ root' = root
          /\ req' \in [Requests -> ARequest] /\ \A q \in Requests : req'[q] = req[q]
      BY <2>1, InvFacts DEF sentVars
    <2> QED BY <2>2, ManyMove
  <1> QED BY <1>1, <1>2, <1>3, <1>4, <1>5, <1>6 DEF PhotosNext

\* Every import knows the folder it fills and what of it has landed, whatever the others do meanwhile.
THEOREM PhotosInvHolds == PhotosSpec => []PhotosInv
  BY PhotosStart, PhotosStep, PTL DEF PhotosSpec

\* The photos that the import which completed a row was asked for are in the folder the row names, but
\* for one whose number a photo sent before took after an add form had left one out; and a photo the
\* card shows lies where anyone can read it, until a delete has been to Drive: for any number of imports
\* that overlap, fail half-way or are repeated, of folders of one name, of slugs and of photos.
THEOREM RowIsTrueHolds == PhotosSpec => []RowIsTrue
  <1>1. PhotosInv => RowIsTrue
    <2> SUFFICES ASSUME PhotosInv, ~deleted
                 PROVE  /\ row.primary # 0 => root = "shared"
                        /\ row.status = "complete" =>
                              \E all \in Children(row.folder, 0) : \A p \in asked :
                                  \/ \E n \in Names : Holds(all, n, p)
                                  \/ skipped /\ \E n \in Names, o \in Places \ {p} : n[2] = p /\ Holds(all, n, o)
      BY DEF RowIsTrue
    <2>1. DriveOK /\ RowOK /\ NothingGone
      BY DEF PhotosInv
    <2>2. \A f \in 1..Len(folders) : ~Gone(f)
      BY <2>1, DriveFacts DEF NothingGone, Gone
    <2>3. ASSUME row.status = "complete"
          PROVE  \E all \in Children(row.folder, 0) : \A p \in asked :
                     \/ \E n \in Names : Holds(all, n, p)
                     \/ skipped /\ \E n \in Names, o \in Places \ {p} : n[2] = p /\ Holds(all, n, o)
      <3>1. PICK all \in 1..Len(folders) : Inside(all, row.folder) /\ \A p \in asked : Filled(all, p)
        BY <2>1, <2>3 DEF RowOK
      <3>2. all \in Children(row.folder, 0)
        BY <2>1, <2>2, <3>1, DriveFacts DEF Inside, Children
      <3>3. ASSUME NEW p \in asked
            PROVE  \/ \E n \in Names : Holds(all, n, p)
                   \/ skipped /\ \E n \in Names, o \in Places \ {p} : n[2] = p /\ Holds(all, n, o)
        BY <2>2, <3>1 DEF Filled, Holds
      <3> QED BY <3>2, <3>3
    <2> QED BY <2>1, <2>3 DEF RowOK
  <1> QED BY <1>1, PhotosInvHolds, PTL

\* However often an import is finished, no name is in Drive twice, and no photo, but under two numbers
\* after an add form that left one out or under two slugs after a row took another than the form's,
\* unless an import began without seeing what was there or on its way: for any number of imports,
\* folders, slugs and photos.
THEOREM NoPhotoTwiceHolds == PhotosSpec => []NoPhotoTwice
  <1>1. PhotosInv => NoPhotoTwice
    <2> DEFINE files == {x \in (DOMAIN folders) \X Names \X Places : Holds(x[1], x[2], x[3])}
    <2> SUFFICES ASSUME PhotosInv, ~blind, NEW x \in files, NEW y \in files
                 PROVE  /\ x[1] = y[1] /\ held[x[1]][<<x[2], x[3]>>] = 1
                        /\ x[2] = y[2] => x[3] = y[3]
                        /\ x[3] = y[3] => \/ x[2] = y[2]
                                          \/ skipped /\ x[2][2] # y[2][2]
                                          \/ renumbered /\ x[2][1] # y[2][1]
      BY DEF NoPhotoTwice
    <2>1. DriveOK /\ Named
      BY DEF PhotosInv
    <2>2. PICK f \in 1..Len(folders), n \in Names, p \in Places : f = x[1] /\ n = x[2] /\ p = x[3] /\ Holds(f, n, p)
      BY <2>1, DriveFacts
    <2>3. PICK g \in 1..Len(folders), m \in Names, o \in Places : g = y[1] /\ m = y[2] /\ o = y[3] /\ Holds(g, m, o)
      BY <2>1, DriveFacts
    <2>4. f = g /\ held[f][<<n, p>>] = 1 /\ (n = m => p = o)
      BY <2>2, <2>3 DEF PhotosInv, Once
    <2>5. /\ (n[2] = p \/ skipped) /\ (n[1] \in {0, 1} \/ renumbered)
          /\ (m[2] = o \/ skipped) /\ (m[1] \in {0, 1} \/ renumbered)
      BY <2>1, <2>2, <2>3 DEF Named, Holds
    <2>6. p = o => n = m \/ (skipped /\ n[2] # m[2]) \/ (renumbered /\ n[1] # m[1])
      BY <2>5, NameFacts
    <2> QED BY <2>2, <2>3, <2>4, <2>6
  <1> QED BY <1>1, PhotosInvHolds, PTL

\* Whoever waits for the photos folder waits for a lookup that is under way: none ends, in success, in
\* a fault or with the process, and leaves somebody behind (folder.ts createFolderResolver).
LookupUnderWay == \A q \in Requests : req[q].at = "root" => resolving # "no"

\* A request that goes on to something else leaves the others where they are.
LEMMA LookupStays ==
    ASSUME PhotosInv, LookupUnderWay, resolving' = resolving, NEW q \in Requests, NEW r,
           req' = [req EXCEPT ![q] = r], r.at # "root"
    PROVE  LookupUnderWay'
  <1>1. DOMAIN req = Requests
    BY DEF PhotosInv, ImportsOK
  <1>2. \A o \in Requests : req'[o] = IF o = q THEN r ELSE req[o]
    BY <1>1
  <1> QED BY <1>2 DEF LookupUnderWay

\* What an import becomes while it goes on is no wait for the photos folder.
LEMMA ImportGoesOn ==
    ASSUME NEW t \in Imports, NEW at, at # "root"
    PROVE  /\ [t EXCEPT !.at = at].at # "root"
           /\ \A n : [t EXCEPT !.at = at, !.all = n].at # "root" /\ [t EXCEPT !.at = at, !.product = n].at # "root"
           /\ \A n, fate : [t EXCEPT !.at = at, !.all = n, !.fate = fate].at # "root"
  BY DEF Imports

\* The import's photos start, or the folder is listed first.
LEMMA FoundLeavesLookup ==
    ASSUME PhotosInv, LookupUnderWay, resolving' = resolving, NEW q \in Requests, req[q] \in Imports, NEW all,
           Found(q, all) \/ \E there : StartPhotos(q, all, there)
    PROVE  LookupUnderWay'
  <1>1. ASSUME NEW there, StartPhotos(q, all, there) PROVE LookupUnderWay'
    <2>1. PICK fate : req' = [req EXCEPT ![q] = [req[q] EXCEPT !.at = "photos", !.all = all, !.fate = fate]]
      BY <1>1 DEF StartPhotos, PhotosInv, ImportsOK
    <2>2. [req[q] EXCEPT !.at = "photos", !.all = all, !.fate = fate].at # "root"
      BY ImportGoesOn
    <2> QED BY <2>1, <2>2, LookupStays
  <1>2. CASE req' = [req EXCEPT ![q] = [req[q] EXCEPT !.at = "list", !.all = all]]
    <2>1. [req[q] EXCEPT !.at = "list", !.all = all].at # "root"
      BY ImportGoesOn
    <2> QED BY <1>2, <2>1, LookupStays
  <1> QED BY <1>1, <1>2 DEF Found, PhotosInv, ImportsOK

\* The lookup ends for everyone who waits for it.
LEMMA LookupEnds ==
    ASSUME PhotosInv, LookupUnderWay, Resolve \/ ResolveFails \/ Rename \/ Crash
    PROVE  LookupUnderWay'
  <1>0. req \in [Requests -> ARequest]
    BY DEF PhotosInv, ImportsOK
  <1>1. ASSUME NEW at \in {"row", "product"}, Release(at) PROVE LookupUnderWay'
    <2>1. \A q \in Requests : req'[q] = IF req[q].at = "root" THEN [req[q] EXCEPT !.at = at] ELSE req[q]
      BY <1>1 DEF Release
    <2>2. ASSUME NEW q \in Requests PROVE req'[q].at # "root"
      <3>1. CASE req[q].at = "root"
        <4>1. req[q] \in Imports
          BY <1>0, <3>1, ImportAt
        <4>2. at # "root"
          OBVIOUS
        <4>3. [req[q] EXCEPT !.at = at].at # "root"
          BY <4>1, <4>2, ImportGoesOn
        <4> QED BY <2>1, <3>1, <4>3
      <3>2. CASE req[q].at # "root"
        BY <2>1, <3>2
      <3> QED BY <3>1, <3>2
    <2> QED BY <2>2 DEF LookupUnderWay
  <1>2. CASE Resolve
    <2>1. (UNCHANGED req /\ resolving' # "no") \/ Release("product")
      BY <1>2 DEF Resolve
    <2> QED BY <1>1, <2>1 DEF LookupUnderWay
  <1>3. CASE ResolveFails
    BY <1>1, <1>3 DEF ResolveFails
  <1>4. CASE Rename
    BY <1>4 DEF Rename, rootVars, LookupUnderWay
  <1>5. CASE Crash
    BY <1>5 DEF Crash, Resting, LookupUnderWay
  <1> QED BY <1>2, <1>3, <1>4, <1>5

\* An import begins with the folder, or with the wait for it.
LEMMA LookupBegins ==
    ASSUME PhotosInv, LookupUnderWay, NEW q \in Requests, NEW kind, NEW sends, Begin(q, kind, sends)
    PROVE  LookupUnderWay'
  <1> DEFINE b == [at |-> IF resolved THEN "product" ELSE "root", kind |-> kind, product |-> 0, all |-> 0,
                   sends |-> sends, fate |-> [i \in Places |-> "open"], version |-> version]
  <1>1. req' = [req EXCEPT ![q] = b]
    BY DEF Begin
  <1>2. resolving' = IF resolved \/ resolving # "no" THEN resolving ELSE "list"
    BY DEF Begin
  <1>3. CASE resolved
    <2>1. b.at # "root"
      BY <1>3
    <2>2. resolving' = resolving
      BY <1>2, <1>3
    <2> QED BY <1>1, <2>1, <2>2, LookupStays
  <1>4. CASE ~resolved
    <2>1. resolving' # "no"
      BY <1>2, <1>4
    <2> QED BY <2>1 DEF LookupUnderWay
  <1> QED BY <1>3, <1>4

\* The folders of a product.
LEMMA FoldersLeaveLookup ==
    ASSUME PhotosInv, LookupUnderWay, NEW q \in Requests, EnsureChild(q) \/ EnsureChildFails(q) \/ List(q)
    PROVE  LookupUnderWay'
  <1>0. /\ resolving' = resolving /\ req[q] \in ARequest
        /\ req[q].at \in {"product", "make product", "all", "make all", "list"}
    BY DEF EnsureChild, EnsureChildFails, List, rootVars, PhotosInv, ImportsOK
  <1>1. req[q] \in Imports
    BY <1>0, ImportAt DEF InFolders
  <1>2. ASSUME NEW at, at # "root", req' = [req EXCEPT ![q] = [req[q] EXCEPT !.at = at]] PROVE LookupUnderWay'
    BY <1>0, <1>1, <1>2, ImportGoesOn, LookupStays
  <1>3. ASSUME NEW at, at # "root", NEW n, req' = [req EXCEPT ![q] = [req[q] EXCEPT !.at = at, !.product = n]]
        PROVE  LookupUnderWay'
    <2>1. [req[q] EXCEPT !.at = at, !.product = n].at # "root"
      BY <1>1, <1>3, ImportGoesOn
    <2> QED BY <1>0, <1>3, <2>1, LookupStays
  <1>4. CASE List(q)
    BY <1>0, <1>1, <1>4, FoundLeavesLookup DEF List
  <1>5. CASE EnsureChildFails(q)
    BY <1>3, <1>5 DEF EnsureChildFails, PhotosInv, ImportsOK
  <1>6. CASE EnsureChild(q)
    <2>1. \/ Goto(q, "make product") \/ Goto(q, "make all")
          \/ \E n : req' = [req EXCEPT ![q] = [req[q] EXCEPT !.at = "all", !.product = n]]
          \/ \E all : Found(q, all)
      BY <1>6 DEF EnsureChild, PhotosInv, ImportsOK
    <2> QED BY <1>0, <1>1, <1>2, <1>3, <2>1, FoundLeavesLookup DEF Goto, PhotosInv, ImportsOK
  <1> QED BY <1>4, <1>5, <1>6

\* The transfers, the end of an import, and the form that gives up.
LEMMA PhotosLeaveLookup ==
    ASSUME PhotosInv, LookupUnderWay, NEW q \in Requests,
           Committed(q) \/ GiveUp(q) \/ \E i \in Places : Uploaded(q, i) \/ UploadFails(q, i)
    PROVE  LookupUnderWay'
  <1>0. resolving' = resolving /\ req[q] \in ARequest /\ req[q].at = "photos"
    BY DEF Committed, GiveUp, Uploaded, UploadFails, Sending, Open, rootVars, PhotosInv, ImportsOK
  <1>1. req[q] \in Imports
    BY <1>0, ImportAt DEF InFolders
  <1>2. CASE Committed(q)
    <2>1. \/ req' = [req EXCEPT ![q] = Resting]
          \/ req' = [req EXCEPT ![q] = [req[q] EXCEPT !.at = "row"]]
      BY <1>2 DEF Committed, PhotosInv, ImportsOK
    <2>2. Resting.at # "root" /\ [req[q] EXCEPT !.at = "row"].at # "root"
      BY <1>1, ImportGoesOn DEF Resting
    <2> QED BY <1>0, <2>1, <2>2, LookupStays
  <1>3. CASE GiveUp(q)
    <2>1. req' = [req EXCEPT ![q] = [req[q] EXCEPT !.kind = "nobody"]] /\ req[q].kind = "add"
      BY <1>3 DEF GiveUp, PhotosInv, ImportsOK
    <2>2. [req[q] EXCEPT !.kind = "nobody"].at # "root"
      BY <1>0, <1>1, <2>1, NobodyWaits
    <2> QED BY <1>0, <2>1, <2>2, LookupStays
  <1>4. ASSUME NEW i \in Places, Uploaded(q, i) \/ UploadFails(q, i) PROVE LookupUnderWay'
    <2>1. PICK s \in {"landed", "failed"} : Outcome(q, i, s)
      BY <1>4 DEF Uploaded, UploadFails
    <2>2. req' = [req EXCEPT ![q] = [req[q] EXCEPT !.fate[i] = s]]
      BY <2>1 DEF Outcome, PhotosInv, ImportsOK
    <2>3. [req[q] EXCEPT !.fate[i] = s].at # "root"
      BY <1>0, <1>1, OnePhotoChanges DEF Fates
    <2> QED BY <1>0, <2>2, <2>3, LookupStays
  <1> QED BY <1>2, <1>3, <1>4

\* The row and the hard delete.
LEMMA RowLeavesLookup ==
    ASSUME PhotosInv, LookupUnderWay, NEW q \in Requests,
           WriteRow(q) \/ RowRefused(q) \/ Delete(q) \/ DeleteFiles(q) \/ DeleteRow(q)
    PROVE  LookupUnderWay'
  <1>1. Resting.at # "root"
    BY DEF Resting
  <1>2. CASE WriteRow(q) \/ RowRefused(q) \/ DeleteRow(q)
    <2>1. resolving' = resolving /\ req' = [req EXCEPT ![q] = Resting]
      BY <1>2 DEF WriteRow, RowRefused, DeleteRow, rootVars
    <2> QED BY <1>1, <2>1, LookupStays
  <1>3. CASE Delete(q)
    <2>1. PICK r : req' = [req EXCEPT ![q] = r] /\ r.at = "delete" /\ resolving' = resolving
      BY <1>3 DEF Delete, rootVars
    <2> QED BY <2>1, LookupStays
  <1>4. CASE DeleteFiles(q)
    <2>1. resolving' = resolving /\ req[q].at = "delete" /\ req[q] \in ARequest
          /\ req' = [req EXCEPT ![q] = [req[q] EXCEPT !.at = "row"]]
      BY <1>4 DEF DeleteFiles, Goto, rootVars, PhotosInv, ImportsOK
    <2>2. req[q] \in Deletes
      BY <2>1 DEF ARequest, Rests, Imports, InFolders
    <2>3. [req[q] EXCEPT !.at = "row"].at # "root"
      BY <2>2 DEF Deletes
    <2> QED BY <2>1, <2>3, LookupStays
  <1> QED BY <1>2, <1>3, <1>4

\* No step leaves somebody waiting for a lookup that nobody makes.
LEMMA LookupStep == PhotosInv /\ LookupUnderWay /\ [PhotosNext]_photosVars => LookupUnderWay'
  <1> SUFFICES ASSUME PhotosInv, LookupUnderWay, [PhotosNext]_photosVars PROVE LookupUnderWay'
    OBVIOUS
  <1>1. ASSUME NEW q \in Requests, Add(q) \/ Retry(q) PROVE LookupUnderWay'
    BY <1>1, LookupBegins DEF Add, Retry
  <1>2. CASE UNCHANGED photosVars
    BY <1>2 DEF photosVars, rootVars, LookupUnderWay
  <1> QED BY <1>1, <1>2, LookupEnds, FoldersLeaveLookup, PhotosLeaveLookup, RowLeavesLookup DEF PhotosNext, Answered

\* Nobody waits for a photos folder that nobody looks for, for any number of imports, faults and crashes.
THEOREM LookupUnderWayHolds == PhotosSpec => []LookupUnderWay
  <1>1. PhotosInit => LookupUnderWay
    BY DEF PhotosInit, LookupUnderWay, Resting
  <1> QED BY <1>1, LookupStep, PhotosInvHolds, PTL DEF PhotosSpec

=============================================================================
