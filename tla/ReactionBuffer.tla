--------------------------- MODULE ReactionBuffer ---------------------------
(***************************************************************************)
(* Like buttons in the browser (src/scripts/votes.ts): a tap paints at     *)
(* once, waits in a buffer for two and a half quiet seconds and leaves     *)
(* with the others in one POST.  A failed POST is put back and retried, a  *)
(* refused one is undone, a page that goes away sends a beacon.  Posts may *)
(* overtake one another, be handled after their page gave up, or get lost. *)
(* Taps are numbered so that an older intent can be told from a newer one. *)
(***************************************************************************)
EXTENDS Naturals, FiniteSets

CONSTANTS
    Products,
    Posts,          \* names of the posts under way; a bound
    MaxBatch,       \* MAX_BATCH
    MaxTaps, MaxFaults, MaxDelisted   \* bounds

ASSUME BufferConstants == MaxBatch \in Nat \ {0} /\ MaxTaps \in Nat /\ MaxFaults \in Nat

State == {"liked", "none"}

VARIABLES
    saved,      \* what screen and localStorage show
    buffer,     \* the tapped products and their newest intent
    timer,      \* a flush is scheduled
    posts,      \* requests on their way
    recorded,   \* what the sheet says
    listed,     \* the products the catalogue knows
    taps, faults,
    wish,       \* history: the newest tap on each product
    unsure      \* history: products whose last intents were in two posts at once,
                \* or in one whose answer nobody was left to read

pageVars == <<saved, buffer, timer>>
history == <<wish, unsure>>
bufferVars == <<pageVars, posts, recorded, listed, taps, faults, history>>

Item == [tap : 1..MaxTaps, state : State, previous : State]
Empty == [p \in {} |-> saved[p]]
NoPost == [phase |-> "free", items |-> [p \in {} |-> 0], waited |-> FALSE]
NoTap == [tap |-> 0, state |-> "none"]

BufferInit ==
    /\ saved \in [Products -> State]
    /\ recorded \in [Products -> State]
    /\ buffer = [p \in {} |-> 0]
    /\ timer = FALSE
    /\ posts = [f \in Posts |-> NoPost]
    /\ listed = Products
    /\ taps = 0 /\ faults = 0
    /\ wish = [p \in Products |-> NoTap]
    /\ unsure = {}

-----------------------------------------------------------------------------
(* the buffer                                                              *)

\* The newest intent per product, with the state from before the burst.
addTap(p, item) ==
    [q \in DOMAIN buffer \cup {p} |->
        IF q # p THEN buffer[q]
        ELSE [item EXCEPT !.previous = IF p \in DOMAIN buffer THEN buffer[p].previous ELSE @]]

\* Mutant of restore: what is put back wins over a newer tap.
restoreOverNewer(items) ==
    [q \in DOMAIN buffer \cup DOMAIN items |->
        IF q \in DOMAIN items THEN items[q] ELSE buffer[q]]

\* Put back, but never over a newer intent.
restore(items) ==
    [q \in DOMAIN buffer \cup DOMAIN items |->
        IF q \in DOMAIN buffer THEN buffer[q] ELSE items[q]]

Carried == UNION {DOMAIN posts[f].items : f \in Posts}

\* The POST of flush(): nothing is sent for an empty buffer.
Post(items, waited) ==
    IF DOMAIN items = {} THEN UNCHANGED posts
    ELSE \E f \in Posts :
            /\ posts[f].phase = "free"
            /\ posts' = [posts EXCEPT ![f] = [phase |-> "sent", items |-> items, waited |-> waited]]

\* flush(): what the buffer holds leaves in one post, and the timer is stopped.
flush(items) ==
    /\ timer' = FALSE
    /\ buffer' = Empty
    /\ Post(items, TRUE)
    /\ unsure' = unsure \cup (DOMAIN items \cap Carried)

schedule(items) ==
    IF Cardinality(DOMAIN items) >= MaxBatch
    THEN flush(items)
    ELSE timer' = TRUE /\ buffer' = items /\ UNCHANGED <<posts, unsure>>

-----------------------------------------------------------------------------
(* the page                                                                *)

\* remember(): into localStorage and onto every control of the product.
remember(states) == saved' = [p \in Products |-> IF p \in DOMAIN states THEN states[p] ELSE saved[p]]

\* onClick: toggle, remember and paint, buffer, schedule.
Tap(p) ==
    LET next == IF saved[p] = "liked" THEN "none" ELSE "liked"
        item == [tap |-> taps + 1, state |-> next, previous |-> saved[p]]
    IN  /\ taps < MaxTaps
        /\ taps' = taps + 1
        /\ remember([q \in {p} |-> next])
        /\ schedule(addTap(p, item))
        /\ wish' = [wish EXCEPT ![p] = [tap |-> taps + 1, state |-> next]]
        /\ UNCHANGED <<recorded, listed, faults>>

TimerFires ==
    /\ timer
    /\ flush(buffer)
    /\ UNCHANGED <<saved, recorded, listed, taps, faults, wish>>

\* onHide, onPageHide: what is buffered leaves with a beacon, which nobody reads.
Hide ==
    /\ DOMAIN buffer # {}
    /\ timer' = FALSE
    /\ buffer' = Empty
    /\ Post(buffer, FALSE)
    /\ unsure' = unsure \cup DOMAIN buffer
    /\ UNCHANGED <<saved, recorded, listed, taps, faults, wish>>

\* The page is left, which hides it, and opened again: the new document reads localStorage
\* and waits for nothing.  What the old one waited for may still be handled.
Reload ==
    /\ faults < MaxFaults
    /\ faults' = faults + 1
    /\ DOMAIN buffer = {}
    /\ timer' = FALSE
    /\ posts' = [f \in Posts |-> IF posts[f].phase = "handled" THEN NoPost
                                ELSE [posts[f] EXCEPT !.waited = FALSE]]
    /\ unsure' = unsure \cup Carried
    /\ UNCHANGED <<saved, buffer, recorded, listed, taps, wish>>

-----------------------------------------------------------------------------
(* the answers                                                             *)

\* The server's state wins: each result is remembered and painted.
AnsweredOk(f) ==
    LET results == DOMAIN posts[f].items \cap posts[f].known
    IN  /\ posts[f].phase = "handled" /\ posts[f].outcome = "ok"
        /\ remember([p \in results |-> posts[f].items[p].state])
        /\ UNCHANGED <<buffer, timer>>

\* A 4xx other than 429 will never be taken, and the batch is undone; a 429, a 5xx or no answer may be.
isPermanent(f) == posts[f].phase = "handled" /\ posts[f].outcome = "refused"
AnsweredPermanent(f) ==
    LET items == posts[f].items
    IN  /\ isPermanent(f)
        /\ remember([p \in DOMAIN items |-> items[p].previous])
        /\ UNCHANGED <<buffer, timer>>

\* Mutant of Retry: put back, without a new timer.
RetryWithoutTimer(f) ==
    /\ buffer' = restore(posts[f].items)
    /\ UNCHANGED <<timer, saved>>

\* Anything else holds the state, puts the batch back and tries again later.
Retry(f) ==
    /\ buffer' = restore(posts[f].items)
    /\ timer' = TRUE
    /\ UNCHANGED saved

Answer(f) ==
    /\ posts[f].waited
    /\ posts[f].phase = "handled"
    /\ \/ AnsweredOk(f)
       \/ AnsweredPermanent(f)
       \/ posts[f].outcome = "failed" /\ Retry(f)
    /\ posts' = [posts EXCEPT ![f] = NoPost]
    /\ UNCHANGED <<recorded, listed, taps, faults, history>>

\* No answer within REQUEST_TIMEOUT_MS, or no connection: the request may still be handled.
NoAnswer(f) ==
    /\ faults < MaxFaults
    /\ faults' = faults + 1
    /\ posts[f].waited
    /\ Retry(f)
    /\ posts' = [posts EXCEPT ![f] =
                    IF @.phase = "handled" THEN NoPost ELSE [@ EXCEPT !.waited = FALSE]]
    /\ UNCHANGED <<recorded, listed, taps, history>>

-----------------------------------------------------------------------------
(* the endpoint, as handleReactions answers a batch                        *)

Handled(f, outcome) ==
    posts' = [posts EXCEPT ![f] =
                 IF @.waited
                 THEN [phase |-> "handled", items |-> @.items, waited |-> TRUE,
                       outcome |-> outcome, known |-> DOMAIN @.items \cap listed]
                 ELSE NoPost]

\* Whatever of the batch the catalogue knows is recorded.
Record(f) ==
    recorded' = [p \in Products |->
                    IF p \in DOMAIN posts[f].items \cap listed THEN posts[f].items[p].state
                    ELSE recorded[p]]

Handle(f) ==
    /\ posts[f].phase = "sent"
    /\ IF DOMAIN posts[f].items \cap listed = {}
       THEN Handled(f, "refused") /\ UNCHANGED recorded
       ELSE Handled(f, "ok") /\ Record(f)
    /\ UNCHANGED <<pageVars, listed, taps, faults, history>>

\* 429, 503, or an insert that timed out: the answer is a failure, the rows may be there.
HandleFails(f) ==
    /\ faults < MaxFaults
    /\ faults' = faults + 1
    /\ posts[f].phase = "sent"
    /\ Handled(f, "failed")
    /\ Record(f) \/ UNCHANGED recorded
    /\ UNCHANGED <<pageVars, listed, taps, history>>

\* The owner takes a product out of the catalogue.
Delist ==
    /\ Cardinality(Products \ listed) < MaxDelisted
    /\ \E p \in listed : listed' = listed \ {p}
    /\ UNCHANGED <<pageVars, posts, recorded, taps, faults, history>>

-----------------------------------------------------------------------------
BufferNext ==
    \/ \E p \in Products : Tap(p)
    \/ TimerFires
    \/ Hide
    \/ Reload
    \/ Delist
    \/ \E f \in Posts : Answer(f) \/ NoAnswer(f) \/ Handle(f) \/ HandleFails(f)

BufferSpec == BufferInit /\ [][BufferNext]_bufferVars

\* Timers fire, and a request is handled and answered within its timeout.
BufferFairness ==
    /\ WF_bufferVars(TimerFires)
    /\ \A f \in Posts : WF_bufferVars(Answer(f)) /\ WF_bufferVars(Handle(f))

BufferFairSpec == BufferSpec /\ BufferFairness

-----------------------------------------------------------------------------
BufferTypeOK ==
    /\ saved \in [Products -> State] /\ recorded \in [Products -> State]
    /\ DOMAIN buffer \subseteq Products /\ \A p \in DOMAIN buffer : buffer[p] \in Item
    /\ timer \in BOOLEAN
    /\ \A f \in Posts :
          /\ posts[f].phase \in {"free", "sent", "handled"}
          /\ DOMAIN posts[f].items \subseteq Products
          /\ \A p \in DOMAIN posts[f].items : posts[f].items[p] \in Item
          /\ posts[f].phase = "handled" => posts[f].waited
    /\ listed \subseteq Products /\ unsure \subseteq Products
    /\ taps \in 0..MaxTaps /\ faults \in 0..MaxFaults
    /\ wish \in [Products -> [tap : 0..MaxTaps, state : State]]

Waiting(p) == p \in DOMAIN buffer \/ \E f \in Posts : posts[f].waited /\ p \in DOMAIN posts[f].items

\* Once nothing waits and nothing is on its way, the screen, the storage and the sheet all
\* say what the visitor tapped last, through retries, taps during a flush and lost answers:
\* for a product that is still listed and whose last intents never travelled side by side
\* (votes.ts, restore at :193 and the painting of answers at :319-325).
ScreenSettles ==
    DOMAIN buffer \cup Carried = {} =>
        \A p \in listed \ unsure :
            wish[p].tap > 0 => saved[p] = wish[p].state /\ recorded[p] = wish[p].state

\* A buffered tap does not wait for ever: it leaves with the timer, and a failed post is
\* tried again until it is answered (votes.ts:326-334).
TapsSettle == \A p \in Products : Waiting(p) ~> ~Waiting(p)

\* "Never over a newer intent: if the visitor tapped again while the request was in flight,
\* that tap is the truth and the stale one is dropped" (votes.ts:190-191): what waits in the
\* buffer is the newest tap on its product.
BufferHoldsNewestTap == \A p \in DOMAIN buffer : buffer[p].tap = wish[p].tap
=============================================================================
