---------------------------- MODULE Revalidation ----------------------------
(***************************************************************************)
(* How an edit typed into the sheet reaches the site: the Apps Script      *)
(* notifier (google-apps-script/onEdit.gs) with its throttle, its lock and *)
(* its trailing trigger, and the endpoint that coalesces what it is told   *)
(* (lib/votes/revalidate.ts), whose window the admin's own writes share    *)
(* (lib/admin/invalidate.ts).  An execution of a script is a process of    *)
(* its own; clock readings are ages that stop at the threshold they are    *)
(* compared with.  A bust yields a later read: CatalogueCache shows it.    *)
(***************************************************************************)
EXTENDS Integers, FiniteSets

CONSTANTS
    Throttle,       \* THROTTLE_MS, in ticks
    Trailing,       \* TRAILING_MS
    Coalesce,       \* COALESCE_MS and SERVER_COALESCE_MS
    Margin,         \* the 2000 ms the trailing trigger adds to it
    PendingStale,   \* PENDING_STALE_MS
    MaxEdits, MaxTriggers, MaxAdminWrites, MaxFailures   \* bounds

ASSUME RevalidationConstants ==
    /\ {Throttle, Trailing, Coalesce, Margin, PendingStale} \subseteq Nat \ {0}
    /\ {MaxEdits, MaxTriggers, MaxAdminWrites, MaxFailures} \subseteq Nat
    /\ Coalesce + Margin <= Throttle /\ Throttle < Trailing /\ Trailing < PendingStale

VARIABLES
    edits,          \* edits of watched tabs made so far
    script,         \* the executions of onSheetEdit, one per edit, and of trailingRevalidate
    lock,           \* who holds the script lock
    sinceLast,      \* now - LAST_REVALIDATE_AT
    pending,        \* age of TRAILING_PENDING, or None
    due,            \* armed triggers: ticks until each may fire
    sinceBust,      \* now - state.lastBustAt, at the site
    reading,        \* a bust waits for its read
    snapshot,       \* the newest edit the site has read
    adminWrites, failures,
    lapsed          \* history: edits whose handler gave up, or whose trailing post was not taken

notifierVars == <<script, lock, sinceLast, pending, due>>
siteVars == <<sinceBust, reading, snapshot>>
revalidationVars == <<edits, notifierVars, siteVars, adminWrites, failures, lapsed>>

Edits == 1..MaxEdits
Triggers == MaxEdits + 1 .. MaxEdits + MaxTriggers
Scripts == Edits \cup Triggers
None == -1

RevalidationInit ==
    /\ edits = 0 /\ snapshot = 0
    /\ script = [s \in Scripts |-> "idle"]
    /\ lock = None
    /\ sinceLast = Throttle /\ pending = None
    /\ due = [t \in Triggers |-> None]
    /\ sinceBust = Coalesce /\ reading = FALSE
    /\ adminWrites = 0 /\ failures = 0
    /\ lapsed = {}

Unread == {e \in Edits : snapshot < e /\ e <= edits}
Goto(s, pc) == script' = [script EXCEPT ![s] = pc]

-----------------------------------------------------------------------------
(* onSheetEdit                                                             *)

EditSheet ==
    /\ edits < MaxEdits
    /\ edits' = edits + 1
    /\ Goto(edits + 1, "locking")
    /\ UNCHANGED <<lock, sinceLast, pending, due, siteVars, adminWrites, failures, lapsed>>

TryLock(e) ==
    /\ script[e] = "locking"
    /\ \/ lock = None /\ lock' = e /\ Goto(e, "deciding") /\ UNCHANGED lapsed
       \/ lock # None /\ Goto(e, "done") /\ lapsed' = lapsed \cup {e} /\ UNCHANGED lock
    /\ UNCHANGED <<edits, sinceLast, pending, due, siteVars, adminWrites, failures>>

\* newTrigger(...).after(...), and the flag that says one is armed.
Arm(after) ==
    \E t \in Triggers :
        /\ due[t] = None /\ script[t] = "idle"
        /\ due' = [due EXCEPT ![t] = after]
        /\ pending' = 0

LiveTrigger == pending # None /\ pending < PendingStale

\* Mutant of Decide: no trigger is armed behind a post of its own.
DecideArmsWhenThrottled(e) ==
    /\ script[e] = "deciding"
    /\ IF sinceLast >= Throttle
       THEN sinceLast' = 0 /\ Goto(e, "unlock and post") /\ UNCHANGED <<pending, due>>
       ELSE /\ Goto(e, "unlock") /\ UNCHANGED sinceLast
            /\ IF LiveTrigger THEN UNCHANGED <<pending, due>> ELSE Arm(Trailing)
    /\ UNCHANGED <<edits, lock, siteVars, adminWrites, failures, lapsed>>

\* The direct POST is decided and stamped, and a trailing one is armed unless one is.
Decide(e) ==
    /\ script[e] = "deciding"
    /\ IF sinceLast >= Throttle
       THEN sinceLast' = 0 /\ Goto(e, "unlock and post")
       ELSE Goto(e, "unlock") /\ UNCHANGED sinceLast
    /\ IF LiveTrigger THEN UNCHANGED <<pending, due>> ELSE Arm(Trailing)
    /\ UNCHANGED <<edits, lock, siteVars, adminWrites, failures, lapsed>>

ReleaseLock(e) ==
    /\ script[e] \in {"unlock", "unlock and post"}
    /\ lock' = None
    /\ Goto(e, IF script[e] = "unlock" THEN "done" ELSE "posting")
    /\ UNCHANGED <<edits, sinceLast, pending, due, siteVars, adminWrites, failures, lapsed>>

-----------------------------------------------------------------------------
(* trailingRevalidate                                                      *)

\* The flag is cleared first, so that an edit from here on arms a new trigger.
Fire(t) ==
    /\ due[t] = 0
    /\ due' = [due EXCEPT ![t] = None]
    /\ pending' = None
    /\ Goto(t, "fired")
    /\ UNCHANGED <<edits, lock, sinceLast, siteVars, adminWrites, failures, lapsed>>

\* Within the site's window the POST would be coalesced: fire again outside of it.
Rearm(t) ==
    /\ script[t] = "fired"
    /\ sinceLast < Coalesce + Margin
    /\ Goto(t, "idle")
    /\ Arm(Coalesce + Margin - sinceLast)
    /\ UNCHANGED <<edits, lock, sinceLast, siteVars, adminWrites, failures, lapsed>>

TrailingPost(t) ==
    /\ script[t] = "fired"
    /\ sinceLast >= Coalesce + Margin
    /\ sinceLast' = 0
    /\ Goto(t, "posting")
    /\ UNCHANGED <<edits, lock, pending, due, siteVars, adminWrites, failures, lapsed>>

-----------------------------------------------------------------------------
(* the site                                                                *)

\* What sendRevalidate_ returns: after a failure the next edit may post at once; the trailing
\* trigger ignores the answer, and nothing is left that would tell the site of these edits.
Sent(s) == [script EXCEPT ![s] = IF s \in Edits THEN "done" ELSE "idle"]
Abandoned(s) == IF s \in Triggers THEN lapsed \cup Unread ELSE lapsed

PostFails(s) ==
    /\ script[s] = "posting"
    /\ failures < MaxFailures
    /\ failures' = failures + 1
    /\ script' = Sent(s)
    /\ sinceLast' = IF s \in Edits THEN Throttle ELSE sinceLast
    /\ lapsed' = Abandoned(s)
    /\ UNCHANGED <<edits, lock, pending, due, siteVars, adminWrites>>

\* Another bust within the window: 202, and no read.
Coalesced(s) ==
    /\ script[s] = "posting"
    /\ sinceBust < Coalesce
    /\ script' = Sent(s)
    /\ lapsed' = Abandoned(s)
    /\ UNCHANGED <<edits, lock, sinceLast, pending, due, siteVars, adminWrites, failures>>

handleRevalidate(s) ==
    /\ script[s] = "posting"
    /\ sinceBust >= Coalesce
    /\ sinceBust' = 0
    /\ reading' = TRUE
    /\ Goto(s, "waiting")
    /\ UNCHANGED <<edits, lock, sinceLast, pending, due, snapshot, adminWrites, failures, lapsed>>

\* The read a bust waits for: 200 or 503 to everybody who waits for it.
ReadEnds(ok) ==
    LET waiting == {s \in Scripts : script[s] = "waiting"}
    IN  /\ reading
        /\ reading' = FALSE
        /\ snapshot' = IF ok THEN edits ELSE snapshot
        /\ script' = [s \in Scripts |-> IF s \in waiting THEN Sent(s)[s] ELSE script[s]]
        /\ sinceLast' = IF ~ok /\ waiting \cap Edits # {} THEN Throttle ELSE sinceLast
        /\ failures' = IF ok THEN failures ELSE failures + 1
        /\ failures' <= MaxFailures
        /\ lapsed' = IF ~ok /\ waiting \cap Triggers # {} THEN lapsed \cup Unread ELSE lapsed
        /\ UNCHANGED <<edits, lock, pending, due, sinceBust, adminWrites>>

\* invalidateCatalogue: a bust of the admin's own, which moves the same window.
AdminWrite ==
    /\ adminWrites < MaxAdminWrites
    /\ adminWrites' = adminWrites + 1
    /\ sinceBust' = 0
    /\ reading' = TRUE
    /\ UNCHANGED <<edits, notifierVars, snapshot, failures, lapsed>>

Older(age, limit) == IF age < limit THEN age + 1 ELSE age

Tick ==
    /\ sinceLast' = Older(sinceLast, Throttle)
    /\ sinceBust' = Older(sinceBust, Coalesce)
    /\ pending' = IF pending = None THEN None ELSE Older(pending, PendingStale)
    /\ due' = [t \in Triggers |-> IF due[t] > 0 THEN due[t] - 1 ELSE due[t]]
    /\ <<sinceLast, sinceBust, pending, due>>' # <<sinceLast, sinceBust, pending, due>>
    /\ UNCHANGED <<edits, script, lock, reading, snapshot, adminWrites, failures, lapsed>>

-----------------------------------------------------------------------------
RevalidationNext ==
    \/ EditSheet \/ AdminWrite \/ Tick
    \/ \E e \in Edits : TryLock(e) \/ Decide(e) \/ ReleaseLock(e)
    \/ \E t \in Triggers : Fire(t) \/ Rearm(t) \/ TrailingPost(t)
    \/ \E s \in Scripts : PostFails(s) \/ Coalesced(s) \/ handleRevalidate(s)
    \/ \E ok \in BOOLEAN : ReadEnds(ok)

\* Scripts run on, triggers fire some time after they are due, a read ends by its timeout.
RevalidationFairness ==
    /\ WF_revalidationVars(Tick) /\ WF_revalidationVars(\E ok \in BOOLEAN : ReadEnds(ok))
    /\ \A e \in Edits : WF_revalidationVars(TryLock(e) \/ Decide(e) \/ ReleaseLock(e))
    /\ \A t \in Triggers : WF_revalidationVars(Fire(t) \/ Rearm(t) \/ TrailingPost(t))
    /\ \A s \in Scripts : WF_revalidationVars(Coalesced(s) \/ handleRevalidate(s))

RevalidationSpec == RevalidationInit /\ [][RevalidationNext]_revalidationVars /\ RevalidationFairness

-----------------------------------------------------------------------------
\* Every edit is read some day without waiting for the time to live, whatever the throttle and
\* the coalescing swallow, unless its handler found the lock taken or the trailing post itself
\* was lost, refused or coalesced (onEdit.gs:39-97, revalidate.ts:75-80).
EditIsRead == \A e \in Edits : edits >= e ~> (snapshot >= e \/ e \in lapsed)

\* The trailing notification "always goes through" (revalidate.ts:4).
TrailingGoesThrough == [][\A t \in Triggers : ~Coalesced(t)]_revalidationVars
=============================================================================
