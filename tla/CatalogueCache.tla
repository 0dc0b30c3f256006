--------------------------- MODULE CatalogueCache ---------------------------
(***************************************************************************)
(* The one in-memory snapshot of the Google Sheet that every page and      *)
(* endpoint reads (src/src/lib/sheets/cache.ts): a time to live, a         *)
(* single-flight refresh, stale-if-error with a failure cooldown, bust(),  *)
(* and the last good content ranges kept on disk for the next boot.        *)
(*                                                                         *)
(* The process is one event loop, so an action is one run of JavaScript    *)
(* between two awaits.  Every clock reading of the code is kept as an age  *)
(* (now minus the reading), saturated at AgeCap, which lies above every    *)
(* threshold the code compares an age with: `t - s.fetchedAt < ttlMs` is   *)
(* `snap.age < Ttl`, and -Infinity or fetchedAt 0 is the age AgeCap.       *)
(*                                                                         *)
(* The catalogue itself is abstracted to the number of edits it contains:  *)
(* people edit the content tabs (edits grows) and a read that is served at *)
(* some instant sees the edits made before that instant.                   *)
(***************************************************************************)
EXTENDS Integers

CONSTANTS
    Callers,     \* page renders and endpoints, each in at most one call at a time
    ReadIds,     \* names for loads of the sheet that may be in flight
    NoRead,      \* no load: the value of `inflight` when it is undefined
    Ttl,         \* ttlMs
    Cooldown,    \* failureCooldownMs
    ReadLimit,   \* the longest a load lasts before its timeouts end it
    AgeCap,      \* ages saturate here
    MaxEdits,    \* bound on the edits of the content tabs
    MaxCrashes   \* bound on the restarts of the process

ASSUME CacheConstants ==
    /\ NoRead \notin ReadIds
    /\ Ttl \in Nat \ {0}
    /\ Cooldown \in Nat
    /\ ReadLimit \in Nat \ {0}
    /\ AgeCap \in Nat
    /\ Ttl + ReadLimit < AgeCap
    /\ Cooldown < AgeCap
    /\ MaxEdits \in Nat
    /\ MaxCrashes \in Nat

VARIABLES
    edits,     \* edits made to the sheet's content tabs
    editAge,   \* time since each edit
    snap,      \* this.snapshot
    disk,      \* DATA_DIR/catalogue.json
    inflight,  \* this.inflight: the load later callers join
    reads,     \* the loads in flight
    failAge,   \* time since this.lastFailureAt
    lastOk,    \* this.lastRefreshOk
    callers,   \* what each caller awaits, then what it got
    crashes    \* restarts so far

cacheVars ==
    <<edits, editAge, snap, disk, inflight, reads, failAge, lastOk, callers, crashes>>

Age == 0..AgeCap
Version == 0..MaxEdits

Older(a) == IF a < AgeCap THEN a + 1 ELSE AgeCap

Snapshot == [loaded : BOOLEAN, age : Age, content : Version]
File == [saved : BOOLEAN, content : Version]
Load == [phase : {"off", "sent", "served"}, age : 0..ReadLimit, content : Version]
Call ==
    [pc    : {"idle", "joined", "prior", "resume", "served", "failed"},
     op    : {"get", "bust"},
     on    : ReadIds \cup {NoRead},   \* the load it awaits
     since : Version,                 \* edits at the moment of the call
     got   : Version,                 \* the content it was given
     ok    : BOOLEAN]                 \* whether the load it awaited succeeded

NoSnapshot == [loaded |-> FALSE, age |-> AgeCap, content |-> 0]
NoLoad == [phase |-> "off", age |-> 0, content |-> 0]
NoCall == [pc |-> "idle", op |-> "get", on |-> NoRead, since |-> 0, got |-> 0, ok |-> FALSE]
NoFile == [saved |-> FALSE, content |-> 0]

CacheTypeOK ==
    /\ edits \in Version
    /\ editAge \in [1..MaxEdits -> Age]
    /\ snap \in Snapshot
    /\ disk \in File
    /\ inflight \in ReadIds \cup {NoRead}
    /\ reads \in [ReadIds -> Load]
    /\ failAge \in Age
    /\ lastOk \in BOOLEAN
    /\ callers \in [Callers -> Call]
    /\ crashes \in 0..MaxCrashes

CacheInit ==
    /\ edits = 0
    /\ editAge = [e \in 1..MaxEdits |-> 0]
    /\ snap = NoSnapshot
    /\ disk = NoFile
    /\ inflight = NoRead
    /\ reads = [i \in ReadIds |-> NoLoad]
    /\ failAge = AgeCap
    /\ lastOk = TRUE
    /\ callers = [c \in Callers |-> NoCall]
    /\ crashes = 0

-----------------------------------------------------------------------------
(* get() and bust()                                                        *)

Answered(c, op, since, ok) ==
    callers' = [callers EXCEPT ![c] =
        [pc |-> IF snap.loaded THEN "served" ELSE "failed", op |-> op, on |-> NoRead,
         since |-> since, got |-> snap.content, ok |-> ok]]

Awaiting(c, op, since, pc, i) ==
    callers' = [callers EXCEPT ![c] =
        [pc |-> pc, op |-> op, on |-> i, since |-> since, got |-> 0, ok |-> FALSE]]

\* Mutant of Refresh: no single flight.
RefreshWithoutJoining(c, op, since) ==
    \E i \in ReadIds :
        /\ reads[i].phase = "off"
        /\ reads' = [reads EXCEPT ![i] = [NoLoad EXCEPT !.phase = "sent"]]
        /\ inflight' = i
        /\ Awaiting(c, op, since, "joined", i)

\* refresh(): join the load in flight, or start one.
Refresh(c, op, since) ==
    \/ /\ inflight # NoRead
       /\ Awaiting(c, op, since, "joined", inflight)
       /\ UNCHANGED <<inflight, reads>>
    \/ /\ inflight = NoRead
       /\ \E i \in ReadIds :
            /\ reads[i].phase = "off"
            /\ reads' = [reads EXCEPT ![i] = [NoLoad EXCEPT !.phase = "sent"]]
            /\ inflight' = i
            /\ Awaiting(c, op, since, "joined", i)

\* Mutant of Fresh: a snapshot never expires.
FreshForever == snap.loaded

Fresh == snap.loaded /\ snap.age < Ttl
CoolingDown == failAge < Cooldown

\* get(): a hit, the stale snapshot (or an error) during the cooldown, or a refresh.
Get(c) ==
    /\ callers[c].pc = "idle"
    /\ \/ /\ Fresh \/ CoolingDown
          /\ Answered(c, "get", edits, Fresh)
          /\ UNCHANGED <<inflight, reads>>
       \/ /\ ~Fresh
          /\ ~CoolingDown
          /\ Refresh(c, "get", edits)
    /\ UNCHANGED <<edits, editAge, snap, disk, failAge, lastOk, crashes>>

\* bust() after its await: forget the cooldown, mark the snapshot stale, refresh.
ForceRefresh(c, since) ==
    /\ failAge' = AgeCap
    /\ snap' = [snap EXCEPT !.age = AgeCap]
    /\ Refresh(c, "bust", since)

\* Mutant of Bust: it takes part in a load that is already in flight.
BustWithoutWaiting(c) ==
    /\ callers[c].pc = "idle"
    /\ ForceRefresh(c, edits)
    /\ UNCHANGED <<edits, editAge, disk, lastOk, crashes>>

\* bust() awaits a load that is already in flight before it starts its own.
Bust(c) ==
    /\ callers[c].pc = "idle"
    /\ \/ /\ inflight # NoRead
          /\ Awaiting(c, "bust", edits, "prior", inflight)
          /\ UNCHANGED <<snap, inflight, reads, failAge>>
       \/ /\ inflight = NoRead
          /\ ForceRefresh(c, edits)
    /\ UNCHANGED <<edits, editAge, disk, lastOk, crashes>>

BustResume(c) ==
    /\ callers[c].pc = "resume"
    /\ ForceRefresh(c, callers[c].since)
    /\ UNCHANGED <<edits, editAge, disk, lastOk, crashes>>

\* The awaiting code takes its answer and the caller is free for another call.
Return(c) ==
    /\ callers[c].pc \in {"served", "failed"}
    /\ callers' = [callers EXCEPT ![c] = NoCall]
    /\ UNCHANGED <<edits, editAge, snap, disk, inflight, reads, failAge, lastOk, crashes>>

-----------------------------------------------------------------------------
(* the load: the sheet answers, then the refresh ends                      *)

\* The spreadsheet takes the ranges of a batchGet at one instant.
ServeRead(i) ==
    /\ reads[i].phase = "sent"
    /\ reads' = [reads EXCEPT ![i].phase = "served", ![i].content = edits]
    /\ UNCHANGED <<edits, editAge, snap, disk, inflight, failAge, lastOk, callers, crashes>>

\* What the end of load i means to its waiters: joined callers have their
\* answer, callers of bust() that waited for a prior load go on.
Released(i, s, ok) ==
    [c \in Callers |->
        CASE callers[c].on = i /\ callers[c].pc = "joined" ->
               [callers[c] EXCEPT !.pc = IF s.loaded THEN "served" ELSE "failed",
                                  !.on = NoRead, !.got = s.content, !.ok = ok]
          [] callers[c].on = i /\ callers[c].pc = "prior" ->
               [callers[c] EXCEPT !.pc = "resume", !.on = NoRead]
          [] OTHER -> callers[c]]

\* Mutant of LoadEnds: `inflight` is left behind.
LoadEndsWithoutFinally(i) ==
    /\ reads' = [reads EXCEPT ![i] = NoLoad]
    /\ UNCHANGED inflight

\* The finally block of refresh().
LoadEnds(i) ==
    /\ inflight' = NoRead
    /\ reads' = [reads EXCEPT ![i] = NoLoad]

\* The ranges arrived and parsed: a new snapshot, written to disk unless that fails.
EndReadOk(i) ==
    /\ reads[i].phase = "served"
    /\ snap' = [loaded |-> TRUE, age |-> 0, content |-> reads[i].content]
    /\ lastOk' = TRUE
    /\ disk' \in {disk, [saved |-> TRUE, content |-> reads[i].content]}
    /\ LoadEnds(i)
    /\ callers' = Released(i, snap', TRUE)
    /\ UNCHANGED <<edits, editAge, failAge, crashes>>

\* Mutant of EndReadFail: every waiter is rejected.
EndReadRejects(i) ==
    /\ reads[i].phase # "off"
    /\ lastOk' = FALSE
    /\ failAge' = 0
    /\ LoadEnds(i)
    /\ callers' = Released(i, NoSnapshot, FALSE)
    /\ UNCHANGED <<edits, editAge, snap, disk, crashes>>

\* Mutant of EndReadFail: the stale snapshot counts as fetched now.
EndReadRenews(i) ==
    /\ reads[i].phase # "off"
    /\ lastOk' = FALSE
    /\ failAge' = 0
    /\ snap' = [snap EXCEPT !.age = 0]
    /\ LoadEnds(i)
    /\ callers' = Released(i, snap, FALSE)
    /\ UNCHANGED <<edits, editAge, disk, crashes>>

\* A network error, an error status, a broken header or too many bad rows
\* rejects the refresh; the last good snapshot keeps serving.
EndReadFail(i) ==
    /\ reads[i].phase # "off"
    /\ lastOk' = FALSE
    /\ failAge' = 0
    /\ LoadEnds(i)
    /\ callers' = Released(i, snap, FALSE)
    /\ UNCHANGED <<edits, editAge, snap, disk, crashes>>

-----------------------------------------------------------------------------
(* the environment                                                         *)

\* Someone edits a content tab.
Edit ==
    /\ edits < MaxEdits
    /\ edits' = edits + 1
    /\ editAge' = [editAge EXCEPT ![edits + 1] = 0]
    /\ UNCHANGED <<snap, disk, inflight, reads, failAge, lastOk, callers, crashes>>

\* Mutant of WithinTimeouts: a fetch without a timeout.
NoTimeouts == TRUE

\* No load outlives the timeouts and retries of the client.
WithinTimeouts == \A i \in ReadIds : reads[i].phase # "off" => reads[i].age < ReadLimit

Tick ==
    /\ WithinTimeouts
    /\ editAge' = [e \in 1..MaxEdits |-> IF e <= edits THEN Older(editAge[e]) ELSE editAge[e]]
    /\ snap' = [snap EXCEPT !.age = Older(@)]
    /\ reads' = [i \in ReadIds |->
                    IF reads[i].phase = "off" THEN reads[i]
                    ELSE [reads[i] EXCEPT !.age = @ + 1]]
    /\ failAge' = Older(failAge)
    /\ UNCHANGED <<edits, disk, inflight, lastOk, callers, crashes>>

\* restore(): the file re-parsed and marked stale; a missing or torn file is ignored.
Restored ==
    IF disk.saved THEN [NoSnapshot EXCEPT !.loaded = TRUE, !.content = disk.content]
    ELSE NoSnapshot

\* The process dies and boots again: nothing but the file survives.
Crash ==
    /\ crashes < MaxCrashes
    /\ crashes' = crashes + 1
    /\ snap' \in {NoSnapshot, Restored}
    /\ inflight' = NoRead
    /\ reads' = [i \in ReadIds |-> NoLoad]
    /\ failAge' = AgeCap
    /\ lastOk' = TRUE
    /\ callers' = [c \in Callers |-> NoCall]
    /\ UNCHANGED <<edits, editAge, disk>>

CacheNext ==
    \/ \E c \in Callers : Get(c) \/ Bust(c) \/ BustResume(c) \/ Return(c)
    \/ \E i \in ReadIds : ServeRead(i) \/ EndReadOk(i) \/ EndReadFail(i)
    \/ Edit \/ Tick \/ Crash

CacheSpec == CacheInit /\ [][CacheNext]_cacheVars

(* Fairness.  Timers and timeouts fire and continuations run (weak), pages  *)
(* keep being requested (weak, on get() alone: nobody has to bust), and a   *)
(* sheet that is asked again and again answers some day (strong).           *)
CacheFairness ==
    /\ WF_cacheVars(Tick)
    /\ WF_cacheVars(\E c \in Callers : Get(c))
    /\ \A c \in Callers : WF_cacheVars(BustResume(c)) /\ WF_cacheVars(Return(c))
    /\ SF_cacheVars(\E i \in ReadIds : ServeRead(i))
    /\ SF_cacheVars(\E i \in ReadIds : EndReadOk(i))

FairCacheSpec == CacheSpec /\ CacheFairness

-----------------------------------------------------------------------------
(* properties                                                              *)

\* A bust whose load succeeded returns a snapshot that contains every edit made
\* before bust() was called, even when an older load was in flight at the call:
\* bust() "always yields a read started after the call" (cache.ts).
BustYieldsLaterRead ==
    \A c \in Callers :
        callers[c].pc = "served" /\ callers[c].op = "bust" /\ callers[c].ok
            => callers[c].got >= callers[c].since

\* A snapshot that a get() would serve without reading lacks no edit older
\* than the time to live plus the longest load, whatever failed before.
StalenessBound ==
    Fresh => \A e \in 1..edits :
                editAge[e] >= Ttl + ReadLimit => e <= snap.content

\* Within one life of the process the catalogue never goes back to an older
\* version: overlapping calls never let an older load replace a newer one.
ContentNeverGoesBack ==
    [][crashes' = crashes /\ snap.loaded => snap'.loaded /\ snap'.content >= snap.content]_cacheVars

\* Once there is a snapshot no caller is rejected: every failure serves the
\* last good one (stale-if-error).
NeverBlankAgain ==
    [][\A c \in Callers :
         callers'[c].pc = "failed" /\ callers[c].pc # "failed" => ~snap.loaded]_cacheVars

\* Every call of get() and bust() is answered: no caller waits on a load that
\* has already ended.
CallsSettle ==
    \A c \in Callers :
        callers[c].pc \in {"joined", "prior", "resume"} ~> callers[c].pc \in {"served", "failed", "idle"}

\* An edit reaches the snapshot without any bust, as long as pages are requested.
EditEventuallyServed ==
    \A e \in 1..MaxEdits : edits >= e ~> snap.loaded /\ snap.content >= e
-----------------------------------------------------------------------------
(* the inductive invariant behind the safety properties                    *)

\* At most one load is in flight, and it is the one `inflight` names.
SingleFlight == \A i \in ReadIds : reads[i].phase # "off" <=> inflight = i

\* Whoever waits, waits on the load in flight.
WaitersOnInflight ==
    \A c \in Callers :
        IF callers[c].pc \in {"joined", "prior"}
        THEN inflight # NoRead /\ callers[c].on = inflight
        ELSE callers[c].on = NoRead

\* Nothing holds an edit that was not made.
OnlyRealEdits ==
    /\ snap.content <= edits
    /\ disk.content <= edits
    /\ \A i \in ReadIds : reads[i].content <= edits
    /\ \A c \in Callers : callers[c].since <= edits

\* A load served by the sheet is at least as new as the snapshot, and as every
\* bust that waits for it or that is about to start its own.
ServedReadsAreNewer ==
    \A i \in ReadIds : reads[i].phase = "served" =>
        /\ reads[i].content >= snap.content
        /\ \A c \in Callers :
              \/ callers[c].pc = "resume"
              \/ callers[c].pc = "joined" /\ callers[c].op = "bust"
              => reads[i].content >= callers[c].since

\* What a snapshot or a served load lacks is not older than it by more than one load.
MissingEditsAreYoung ==
    \A e \in 1..edits :
        /\ e > snap.content => editAge[e] <= snap.age + ReadLimit
        /\ \A i \in ReadIds :
              reads[i].phase = "served" /\ e > reads[i].content => editAge[e] <= reads[i].age

CacheInv ==
    /\ CacheTypeOK
    /\ SingleFlight
    /\ WaitersOnInflight
    /\ OnlyRealEdits
    /\ ServedReadsAreNewer
    /\ MissingEditsAreYoung
    /\ BustYieldsLaterRead
=============================================================================
