----------------------------- MODULE Reactions -----------------------------
(***************************************************************************)
(* POST /api/reactions (src/src/lib/votes/handler.ts) over the catalogue   *)
(* cache, the rate limiter and the Reactions tab.  A request checks its    *)
(* budgets, awaits the catalogue, then in one run of JavaScript decides    *)
(* what to write and applies it to memory, and awaits the insert.  Between *)
(* these points other requests, page renders and refreshes run.            *)
(*                                                                         *)
(* A promise that settles runs everything that waits for it, in some       *)
(* order, before the event loop takes its next callback: Drained guards    *)
(* every action that starts from such a callback.                          *)
(***************************************************************************)
EXTENDS CatalogueCache, ReactionLog, RateLimiter

CONSTANTS
    Requests,    \* the callers of the cache that are reaction requests
    Batches,     \* bodies a browser may post: sequences of [product, reaction]
    MaxSubmits,  \* bound on the requests submitted
    MaxRows      \* maxVotesRows, the growth breaker

ASSUME ReactionConstants ==
    /\ Requests \subseteq Callers
    /\ MaxSubmits \in Nat
    /\ MaxRows \in Nat
    /\ 2 * Ttl < AgeCap

\* The buttons keep one intent per product (votes.ts), so no body names a product twice.
ASSUME BatchConstants ==
    \A batch \in Batches :
        /\ batch \in Seq({batch[k] : k \in DOMAIN batch})
        /\ \A j, k \in DOMAIN batch : batch[j].product = batch[k].product => j = k
        /\ \A k \in DOMAIN batch : batch[k].reaction \in Reaction

VARIABLES
    log,       \* the rows of the Reactions tab, newest first
    asked,     \* per load: rows in the tab when it was sent, and the rows it was given
    tally,     \* counts and vote state of this.snapshot
    deltas,    \* this.deltas
    overgrown, \* this.meta.votesRowsTotal exceeds MaxRows
    req,       \* the requests
    applied,   \* per request: the deltas it applied, a row of its insert for each
    guards,    \* deps.inflight: the pairs being written
    windows,   \* the limiter's map
    orphans,   \* the deltas of inserts given up on that may still reach the sheet
    submits,   \* requests submitted so far
    \* history, for the properties only
    calm,      \* per request: pairs known when it wrote, and no refresh ended since
    known,     \* pairs whose memory no write or load has left behind the log
    quiet,     \* per load: pairs without a write in flight since it was sent
    acked,     \* last reaction each pair was told is recorded, if an answer says so
    ledger     \* <<n, key>>: write n took a unit of key's current window and did not fail

sheetVars == <<log, orphans>>
memoryVars == <<tally, deltas, overgrown>>
requestVars == <<req, applied, guards, windows, submits>>
historyVars == <<calm, known, quiet, acked, ledger>>
vars == <<cacheVars, sheetVars, asked, memoryVars, requestVars, historyVars>>

Pairs == Visitors \X Products

RequestState ==
    [pc    : {"idle", "getting", "writing"},
     who   : Visitors \cup {"nobody"},
     batch : Batches \cup {<<>>},
     n     : 0..MaxSubmits,                       \* its place in the order of submission
     write : {"none", "new", "sent", "landed"}]   \* where its insert is

NoRequest ==
    [pc |-> "idle", who |-> "nobody", batch |-> <<>>, n |-> 0, write |-> "none"]

-----------------------------------------------------------------------------
(* what memory holds                                                       *)

\* Mutant of applyDelta: no floor at zero.
applyDeltaUnclamped(t, d) ==
    [likes |-> [t.likes EXCEPT ![d.product] =
                   @ - (IF d.prev = "like" THEN 1 ELSE 0) + (IF d.next = "like" THEN 1 ELSE 0)],
     vote  |-> [t.vote EXCEPT ![d.who][d.product] = d.next]]

\* applyDelta(): counts never go below zero.
applyDelta(t, d) ==
    [likes |-> [t.likes EXCEPT ![d.product] =
                   (IF d.prev = "like" /\ @ > 0 THEN @ - 1 ELSE @)
                       + (IF d.next = "like" THEN 1 ELSE 0)],
     vote  |-> [t.vote EXCEPT ![d.who][d.product] = d.next]]

\* discardVote(): the inverse delta.
Undo(d) == [d EXCEPT !.prev = d.next, !.next = d.prev]

\* The deltas applied one after the other.
AppliedAll(t, ds) ==
    LET after[k \in 0..Len(ds)] == IF k = 0 THEN t ELSE applyDelta(after[k - 1], ds[k])
    IN  after[Len(ds)]

\* One item of a batch: an unknown product is skipped, one that already holds is
\* not written, any other is applied to memory at once.
PlanItem(plan, who, item, n) ==
    LET previous == plan.tally.vote[who][item.product]
        d == [n |-> n, who |-> who, product |-> item.product,
              prev |-> previous, next |-> item.reaction, age |-> 0]
    IN  IF item.product \notin Products \/ item.reaction = previous THEN plan
        ELSE [tally |-> applyDelta(plan.tally, d), deltas |-> Append(plan.deltas, d)]

\* The handler's loop over a batch.
Planned(who, batch, n) ==
    LET plan[k \in 0..Len(batch)] ==
            IF k = 0 THEN [tally |-> tally, deltas |-> <<>>]
            ELSE PlanItem(plan[k - 1], who, batch[k], n)
    IN  plan[Len(batch)]

RowsOf(ds) ==
    [k \in 1..Len(ds) |->
        [who |-> ds[k].who, product |-> ds[k].product, reaction |-> ds[k].next]]

PairsOf(rows) == {<<rows[k].who, rows[k].product>> : k \in 1..Len(rows)}

\* Mutant of Replayed: every delta still kept is replayed.
ReplayedAlways(d, i) == TRUE

\* A vote applied since the load was sent may be missing from its rows.
Replayed(d, i) == d.age <= reads[i].age

-----------------------------------------------------------------------------
(* guards and budgets                                                      *)

GuardsOf(who, batch) == {<<who, batch[k].product>> : k \in 1..Len(batch)}

\* The products of a body, each once, in the order they come first.
ProductIds(batch) ==
    LET ids[k \in 0..Len(batch)] ==
            IF k = 0 THEN <<>>
            ELSE IF batch[k].product \in Range(ids[k - 1]) THEN ids[k - 1]
            ELSE Append(ids[k - 1], batch[k].product)
    IN  ids[Len(batch)]

\* The keys whose limits can be reached, in the order the handler charges them.
\* All visitors share one address.
KeysOf(who, batch) ==
    LET ids == ProductIds(batch)
        products == [k \in 1..Len(ids) |-> <<"product", ids[k]>>]
        keys == <<<<"visitor", who>>, <<"ip">>>> \o products \o <<<<"global">>>>
    IN  Among(keys, {key \in Range(keys) : key[1] \in LimitKinds})

\* No promise has settled whose waiters did not run yet.
Drained == \A c \in Callers : callers[c].pc \notin {"served", "failed", "resume"}

-----------------------------------------------------------------------------
(* history                                                                 *)

Writing(r) == req[r].pc = "writing"

PairsInFlight == UNION {PairsOf(RowsOf(applied[r])) : r \in {q \in Requests : Writing(q)}}
OrphanPairs == UNION {PairsOf(RowsOf(ds)) : ds \in orphans}

\* Pairs a write in flight, or one given up on, may still change in the log.
Unsettled == PairsInFlight \cup OrphanPairs

\* A load that starts notes the size of the tab and the pairs at rest.
LoadNoted ==
    IF inflight' \in {NoRead, inflight} THEN UNCHANGED <<asked, quiet>>
    ELSE /\ asked' = [asked EXCEPT ![inflight'] = [from |-> Len(log), rows |-> <<>>]]
         /\ quiet' = [quiet EXCEPT ![inflight'] = Pairs \ Unsettled]

\* What the pairs of a write are told to hold, where no orphan changed it meanwhile or may yet.
Acknowledged(rows) ==
    [pair \in Pairs |->
        IF pair \notin PairsOf(rows) THEN acked[pair]
        ELSE IF pair \in OrphanPairs \/ acked[pair] = "overtaken" THEN "unknown"
        ELSE Current(rows, pair[1], pair[2])]

Forgotten(pairs) == [pair \in Pairs |-> IF pair \in pairs THEN "unknown" ELSE acked[pair]]

\* An orphan landed on the pairs: what a write of theirs in flight is told means nothing either.
Overtaken(pairs) ==
    [pair \in Pairs |->
        IF pair \notin pairs THEN acked[pair]
        ELSE IF pair \in PairsInFlight THEN "overtaken" ELSE "unknown"]

ReactionsInit ==
    /\ CacheInit
    /\ log = <<>>
    /\ orphans = {}
    /\ asked = [i \in ReadIds |-> [from |-> 0, rows |-> <<>>]]
    /\ tally = parseReactions(<<>>)
    /\ deltas = <<>>
    /\ overgrown = FALSE
    /\ req = [r \in Requests |-> NoRequest]
    /\ applied = [r \in Requests |-> <<>>]
    /\ calm = [r \in Requests |-> {}]
    /\ guards = {}
    /\ windows = <<>>
    /\ submits = 0
    /\ known = {}
    /\ quiet = [i \in ReadIds |-> {}]
    /\ acked = [pair \in Pairs |-> "none"]
    /\ ledger = {}

-----------------------------------------------------------------------------
(* the request                                                             *)

\* Up to its first await: every budget would allow it, then cache.get().
Submit(r) ==
    /\ Drained
    /\ req[r].pc = "idle"
    /\ submits < MaxSubmits
    /\ submits' = submits + 1
    /\ \E v \in Visitors, batch \in Batches :
         /\ \A k \in 1..Len(KeysOf(v, batch)) : wouldAllow(windows, KeysOf(v, batch)[k])
         /\ req' = [req EXCEPT ![r] = [NoRequest EXCEPT !.pc = "getting", !.who = v,
                                                        !.batch = batch, !.n = submits + 1]]
    /\ Get(r)
    /\ LoadNoted
    /\ UNCHANGED <<sheetVars, memoryVars, applied, guards, windows, calm, known, acked, ledger>>

PlanOf(r) == Planned(req[r].who, req[r].batch, req[r].n)

\* Mutant of Refused: the guard is not looked at.
RefusedUnguarded(r) == callers[r].pc = "failed" \/ overgrown

\* 503 (no catalogue, growth breaker) or 429 (a pair of the batch is being written).
Refused(r) ==
    \/ callers[r].pc = "failed"
    \/ overgrown
    \/ GuardsOf(req[r].who, req[r].batch) \cap guards # {}

\* 200 or 400 (nothing but unknown products): everything already holds.
NothingToWrite(r) == ~Refused(r) /\ PlanOf(r).deltas = <<>>

Answer(r) ==
    /\ req' = [req EXCEPT ![r] = NoRequest]
    /\ applied' = [applied EXCEPT ![r] = <<>>]
    /\ calm' = [calm EXCEPT ![r] = {}]

\* The limits are checked before the await and charged after it; what allow() says is ignored.
Charged(keys) ==
    LET after[k \in 0..Len(keys)] == IF k = 0 THEN windows ELSE allow(after[k - 1], keys[k])
    IN  after[Len(keys)]

ChargedLedger(keys, n) ==
    {entry \in ledger : Live(windows, entry[2])} \cup {<<n, keys[k]>> : k \in 1..Len(keys)}

StartWrite(r) ==
    LET plan == PlanOf(r)
        keys == KeysOf(req[r].who, req[r].batch)
        pairs == PairsOf(RowsOf(plan.deltas))
    IN  /\ tally' = plan.tally
        /\ deltas' = deltas \o plan.deltas
        /\ guards' = guards \cup GuardsOf(req[r].who, req[r].batch)
        /\ windows' = Charged(keys)
        /\ req' = [req EXCEPT ![r].pc = "writing", ![r].write = "new"]
        /\ applied' = [applied EXCEPT ![r] = plan.deltas]
        /\ calm' = [calm EXCEPT ![r] = pairs \cap known]
        /\ known' = known \ pairs
        /\ quiet' = [i \in ReadIds |-> quiet[i] \ pairs]
        /\ ledger' = ChargedLedger(keys, req[r].n)

\* From the answer of cache.get() to the next await or the response.
Decide(r) ==
    /\ req[r].pc = "getting"
    /\ Return(r)
    /\ \/ /\ Refused(r) \/ NothingToWrite(r)
          /\ Answer(r)
          /\ UNCHANGED <<tally, deltas, guards, windows, known, quiet, ledger>>
       \/ /\ ~Refused(r)
          /\ ~NothingToWrite(r)
          /\ StartWrite(r)
    /\ UNCHANGED <<sheetVars, asked, overgrown, submits, acked>>

\* The sheet takes the rows; a round trip is longer than the clock's resolution.
Land(r) ==
    /\ Drained
    /\ req[r].write = "sent"
    /\ log' = insertReactionRows(log, RowsOf(applied[r]))
    /\ req' = [req EXCEPT ![r].write = "landed"]
    /\ UNCHANGED <<cacheVars, orphans, asked, memoryVars, applied, guards, windows, submits, historyVars>>

\* The finally block: the guards of the batch are released.
ReleaseGuards(r) == guards' = guards \ GuardsOf(req[r].who, req[r].batch)

\* The insert succeeded: 200.
RespondOk(r) ==
    /\ Drained
    /\ req[r].write = "landed"
    /\ ReleaseGuards(r)
    /\ Answer(r)
    /\ known' = known \cup calm[r]
    /\ acked' = Acknowledged(RowsOf(applied[r]))
    /\ UNCHANGED <<cacheVars, sheetVars, asked, memoryVars, windows, submits, quiet, ledger>>

\* Every budget of the batch gets a unit back.
Refunded(keys) ==
    LET after[k \in 0..Len(keys)] == IF k = 0 THEN windows ELSE refund(after[k - 1], keys[k])
    IN  after[Len(keys)]

\* The insert failed: memory and budgets are given back, 503.  It may have landed
\* before its answer was lost, and it may still land.
InsertFails(r) ==
    LET pairs == PairsOf(RowsOf(applied[r]))
        inverse == [k \in 1..Len(applied[r]) |-> Undo(applied[r][k])]
        keys == KeysOf(req[r].who, req[r].batch)
    IN  /\ Drained
        /\ Writing(r)
        /\ tally' = AppliedAll(tally, inverse)
        /\ deltas' = Among(deltas, {d \in Range(deltas) : d.n # req[r].n})
        /\ windows' = Refunded(keys)
        /\ ReleaseGuards(r)
        /\ Answer(r)
        /\ ledger' = {entry \in ledger : entry[1] # req[r].n}
        /\ \/ /\ req[r].write \in {"new", "sent"}
              /\ known' = known \cup calm[r]
              /\ acked' = Forgotten({pair \in pairs : acked[pair] = "overtaken"})
              /\ UNCHANGED orphans
           \/ /\ req[r].write = "sent"
              /\ orphans' = orphans \cup {applied[r]}
              /\ acked' = Forgotten(pairs)
              /\ UNCHANGED known
           \/ /\ req[r].write = "landed"
              /\ acked' = Forgotten(pairs)
              /\ UNCHANGED <<orphans, known>>
        /\ UNCHANGED <<cacheVars, log, asked, overgrown, submits, quiet>>

\* An insert the process gave up on reaches the sheet after all.
OrphanLands ==
    \E ds \in orphans :
        LET pairs == PairsOf(RowsOf(ds))
        IN  /\ Drained
            /\ log' = insertReactionRows(log, RowsOf(ds))
            /\ orphans' = orphans \ {ds}
            /\ known' = known \ pairs
            /\ quiet' = [i \in ReadIds |-> quiet[i] \ pairs]
            /\ acked' = Overtaken(pairs)
            /\ UNCHANGED <<cacheVars, asked, memoryVars, requestVars, calm, ledger>>

-----------------------------------------------------------------------------
(* the cache around it                                                     *)

\* A page render or a notifier: any caller of the cache that is not a request.
PageStep ==
    /\ \E c \in Callers \ Requests :
         \/ Drained /\ (Get(c) \/ Bust(c))
         \/ BustResume(c)
         \/ Return(c)
    /\ LoadNoted
    /\ UNCHANGED <<sheetVars, memoryVars, requestVars, calm, known, acked, ledger>>

SheetServes(i) ==
    /\ Drained
    /\ ServeRead(i)
    /\ asked' = [asked EXCEPT ![i].rows = Window(log)]
    /\ UNCHANGED <<sheetVars, memoryVars, requestVars, historyVars>>

\* The refresh replaces the tally by the parsed rows plus the replayed deltas,
\* then drops deltas older than two times to live.  The metadata call next to it
\* ran at any moment of the load, or failed and leaves the last row count.
RefreshEnds(i) ==
    /\ Drained
    /\ EndReadOk(i)
    /\ tally' = AppliedAll(parseReactions(asked[i].rows),
                           Among(deltas, {d \in Range(deltas) : Replayed(d, i)}))
    /\ deltas' = Among(deltas, {d \in Range(deltas) : d.age <= 2 * Ttl})
    /\ overgrown' \in {overgrown} \cup {rows > MaxRows : rows \in asked[i].from..Len(log)}
    /\ known' = quiet[i]
    /\ calm' = [r \in Requests |-> {}]
    /\ UNCHANGED <<sheetVars, asked, requestVars, quiet, acked, ledger>>

RefreshFails(i) ==
    /\ Drained
    /\ EndReadFail(i)
    /\ UNCHANGED <<sheetVars, asked, memoryVars, requestVars, historyVars>>

Clock ==
    /\ Drained
    /\ Tick
    /\ deltas' = [k \in 1..Len(deltas) |-> [deltas[k] EXCEPT !.age = Older(@)]]
    /\ windows' = OlderWindows(windows)
    /\ req' = [r \in Requests |->
                  [req[r] EXCEPT !.write = IF @ = "new" THEN "sent" ELSE @]]
    /\ UNCHANGED <<sheetVars, asked, tally, overgrown, applied, guards, submits, historyVars>>

Shop == Drained /\ Edit /\ UNCHANGED <<sheetVars, asked, memoryVars, requestVars, historyVars>>

\* A restart: the reaction log is not on disk, so a restored snapshot has no votes.
Restart ==
    LET unlanded == {applied[r] : r \in {q \in Requests : req[q].write \in {"new", "sent"}}}
    IN  /\ Crash
        /\ \E left \in SUBSET unlanded : orphans' = orphans \cup left
        /\ tally' = parseReactions(<<>>)
        /\ deltas' = <<>>
        /\ overgrown' = FALSE
        /\ req' = [r \in Requests |-> NoRequest]
        /\ applied' = [r \in Requests |-> <<>>]
        /\ calm' = [r \in Requests |-> {}]
        /\ guards' = {}
        /\ windows' = <<>>
        /\ known' = {}
        /\ quiet' = [i \in ReadIds |-> {}]
        /\ acked' = Forgotten(PairsInFlight)
        /\ ledger' = {}
        /\ UNCHANGED <<log, asked, submits>>

ReactionsNext ==
    \/ \E r \in Requests : Submit(r) \/ Decide(r) \/ Land(r) \/ RespondOk(r) \/ InsertFails(r)
    \/ \E i \in ReadIds : SheetServes(i) \/ RefreshEnds(i) \/ RefreshFails(i)
    \/ PageStep \/ OrphanLands \/ Clock \/ Shop \/ Restart

ReactionsSpec == ReactionsInit /\ [][ReactionsNext]_vars

(* Fairness.  The event loop starves no callback, timer or response; pages  *)
(* keep being requested, and a sheet asked again and again answers one day. *)
PageGet == \E c \in Callers \ Requests : PageStep /\ callers[c].pc = "idle" /\ callers'[c].op = "get"
PageReturn(c) == PageStep /\ callers[c].pc # "idle" /\ callers'[c].pc = "idle"
PageResume(c) == PageStep /\ callers[c].pc = "resume" /\ callers'[c].pc = "joined"

ReactionsFairness ==
    /\ SF_vars(Clock)
    /\ SF_vars(PageGet)
    /\ \A c \in Callers \ Requests : WF_vars(PageReturn(c)) /\ WF_vars(PageResume(c))
    /\ \A r \in Requests : WF_vars(Decide(r)) /\ SF_vars(RespondOk(r) \/ InsertFails(r))
    /\ SF_vars(\E i \in ReadIds : SheetServes(i))
    /\ SF_vars(\E i \in ReadIds : RefreshEnds(i))

FairReactionsSpec == ReactionsSpec /\ ReactionsFairness

-----------------------------------------------------------------------------
(* properties                                                              *)

Delta == [n : 1..MaxSubmits, who : Visitors, product : Products, prev : Reaction,
          next : Reaction, age : Age]
Row == [who : Visitors, product : Products, reaction : Reaction]

ReactionsTypeOK ==
    /\ CacheTypeOK
    /\ log \in Seq(Row)
    /\ orphans \subseteq Seq(Delta)
    /\ \A i \in ReadIds : asked[i].from \in Nat /\ asked[i].rows \in Seq(Row)
    /\ tally \in Tally
    /\ deltas \in Seq(Delta)
    /\ overgrown \in BOOLEAN
    /\ req \in [Requests -> RequestState]
    /\ applied \in [Requests -> Seq(Delta)]
    /\ calm \in [Requests -> SUBSET Pairs]
    /\ submits \in 0..MaxSubmits
    /\ known \in SUBSET Pairs
    /\ quiet \in [ReadIds -> SUBSET Pairs]
    /\ acked \in [Pairs -> Reaction \cup {"unknown", "overtaken"}]

\* Two writes in flight never share a pair, and the guard set holds exactly the
\* pairs of the batches in flight: none leaks and none is released early.
GuardExclusive ==
    /\ guards = UNION {GuardsOf(req[r].who, req[r].batch) : r \in {q \in Requests : Writing(q)}}
    /\ \A r, q \in Requests :
          r # q /\ Writing(r) /\ Writing(q)
              => GuardsOf(req[r].who, req[r].batch) \cap GuardsOf(req[q].who, req[q].batch) = {}

\* While no refresh overlaps a write, deltas keep memory equal to the sheet, and a
\* refresh sent while a pair was at rest restores the pair whatever went wrong
\* before: lost or doubled deltas, failed or late inserts, restarts.
MemoryMatchesLog ==
    Len(log) <= WindowRows =>
        /\ \A pair \in known : tally.vote[pair[1]][pair[2]] = Current(log, pair[1], pair[2])
        /\ \A p \in Products :
              (\A v \in Visitors : <<v, p>> \in known) => tally.likes[p] = Likers(log, p)

\* What a visitor was last told is recorded is what the log says, as long as no
\* other write of the pair is in flight or was given up on: racing writes of one
\* pair never land in the other order than they are answered.  A write on which an
\* insert given up on landed meanwhile is told nothing of worth ("overtaken").
LogFollowsAnswers ==
    \A pair \in Pairs \ Unsettled :
        acked[pair] \in Reaction => Current(log, pair[1], pair[2]) = acked[pair]

WritesInWindow(key) == Cardinality({entry \in ledger : entry[2] = key})

\* A write that failed burns no budget: a live window counts at most the writes
\* that took a unit of it and did not fail, refunds of earlier windows included.
FailuresBurnNoBudget ==
    \A key \in Keys(windows) : CountOf(windows, key) <= WritesInWindow(key)

\* Evicting keys never forgets the live window of a protected key, not even to open
\* it anew with no write counted.
ProtectedSurvives ==
    [][\A key \in ProtectedKeys :
         Live(windows, key) /\ crashes' = crashes =>
            /\ key \in Keys(windows')
            /\ windows'[PlaceOf(windows', key)].age >= windows[PlaceOf(windows, key)].age]_vars

\* The counts in memory are the numbers of visitors whose vote in memory is "like":
\* "Counts are the number of distinct customers currently liking or disliking each
\* product" (parse.ts).  It does not hold: a refresh may count a voter twice until
\* the next one.
CountsAreDistinctLikers ==
    \A p \in Products :
        tally.likes[p] = Cardinality({v \in Visitors : tally.vote[v][p] = "like"})

\* A 200 that writes nothing is true of the sheet: "Everything was already in the
\* requested state" (handler.ts).  Only pairs at rest whose last insert was answered
\* 200 count, so no failed insert is to blame.  See MCLostDelta.cfg.
IdempotentAnswerIsTrue ==
    [][\A r \in Requests :
         Decide(r) /\ NothingToWrite(r) =>
            \A k \in 1..Len(req[r].batch) :
               LET item == req[r].batch[k]
                   pair == <<req[r].who, item.product>>
               IN  pair \in Pairs \ Unsettled /\ acked[pair] \in Reaction
                       => Current(log, req[r].who, item.product) = item.reaction]_vars

\* No window lets more writes through than its limit: "Limits (in-process, exact on
\* one instance)" (docs/ADR.md).  It does not hold: several pass on the same unit.
LimitExact == \A key \in Keys(windows) : Live(windows, key) => WritesInWindow(key) <= Limit[key[1]]

\* Every request is answered.
RequestsAnswered == \A r \in Requests : req[r].pc # "idle" ~> req[r].pc = "idle"

\* Once the last reaction is in, memory comes to agree with the sheet and stays so.
EventuallyReconciled == <>[](snap.loaded => tally = parseReactions(Window(log)))
=============================================================================
