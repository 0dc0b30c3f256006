------------------------------ MODULE VisitLog ------------------------------
(***************************************************************************)
(* Buyers and the log of their visits (lib/customer/visits.ts, http.ts,    *)
(* auth.ts, the login and logout endpoints and /{slug}): a page view of a  *)
(* signed-in buyer appends one row per window, in the background, and the  *)
(* process remembers a bounded number of buyers, until it restarts.        *)
(***************************************************************************)
EXTENDS Integers, Sequences, SequencesExt

CONSTANTS
    Buyers,
    VISIT_WINDOW, MAX_KEYS,             \* VISIT_WINDOW_MS, maxKeys
    CUSTOMER_SESSION,                   \* CUSTOMER_SESSION_MS
    MaxClock, MaxViews, MaxSwitches      \* bounds

ASSUME VisitConstants == VISIT_WINDOW \in Nat \ {0} /\ MAX_KEYS \in Nat \ {0} /\ CUSTOMER_SESSION \in Nat

VARIABLES
    clock,
    listed,         \* the buyers the sheet lists as active
    until,          \* until when each buyer's cookie is accepted
    seen,           \* the throttle: [buyer, at], in the order the buyers were first put in
    visits,         \* the rows of the Visits tab
    views,          \* page views that were to be logged, so far
    switches,
    forgotten       \* history: [buyer, at] of each time the process forgot a buyer

visitVars == <<clock, listed, until, seen, visits, views, switches, forgotten>>

VisitInit ==
    /\ clock = 0 /\ listed = Buyers
    /\ until = [b \in Buyers |-> 0]
    /\ seen = <<>> /\ visits = {} /\ views = 0
    /\ switches = 0 /\ forgotten = {}

signedIn(b) == b \in listed /\ clock < until[b]

\* The shared password is right: a session of a fixed length.
LogIn(b) ==
    /\ b \in listed /\ ~signedIn(b)
    /\ until' = [until EXCEPT ![b] = clock + CUSTOMER_SESSION]
    /\ UNCHANGED <<clock, listed, seen, visits, views, switches, forgotten>>

\* That buyer's cookie and no other.
LogOut(b) ==
    /\ until[b] # 0
    /\ until' = [until EXCEPT ![b] = 0]
    /\ UNCHANGED <<clock, listed, seen, visits, views, switches, forgotten>>

\* The studio switches a buyer off, or on again.
SwitchActive(b) ==
    /\ switches < MaxSwitches
    /\ switches' = switches + 1
    /\ listed' = IF b \in listed THEN listed \ {b} ELSE listed \cup {b}
    /\ UNCHANGED <<clock, until, seen, visits, views, forgotten>>

Place(b) == SelectInSeq(seen, LAMBDA e : e.buyer = b)

\* Mutant of stamp: a buyer that is there keeps its first time.
stampNewOnly(b) ==
    LET full == Len(seen) >= MAX_KEYS
    IN  IF Place(b) # 0 THEN seen
        ELSE Append(IF full THEN Tail(seen) ELSE seen, [buyer |-> b, at |-> clock])

\* Putting a buyer in again keeps its place; a new one pushes the first out when the map is full.
stamp(b) ==
    LET full == Len(seen) >= MAX_KEYS
        entry == [buyer |-> b, at |-> clock]
    IN  IF Place(b) # 0 THEN [seen EXCEPT ![Place(b)] = entry]
        ELSE Append(IF full THEN Tail(seen) ELSE seen, entry)

shouldRecord(b) == IF Place(b) = 0 THEN TRUE ELSE clock - seen[Place(b)].at >= VISIT_WINDOW

Remembered == {seen[i].buyer : i \in DOMAIN seen}
Forget == forgotten' = forgotten \cup {[buyer |-> o, at |-> clock] : o \in Remembered \ Remembered'}

\* The page is rendered; the buyer is stamped, and the row written or, logged and swallowed, lost.
\* Nobody waits for the row or reads it, so when it is written makes no difference.
View(b, written) ==
    /\ signedIn(b)
    /\ shouldRecord(b)
    /\ views < MaxViews
    /\ views' = views + 1
    /\ seen' = stamp(b)
    /\ visits' = IF written THEN visits \cup {[buyer |-> b, at |-> clock]} ELSE visits
    /\ Forget
    /\ UNCHANGED <<clock, listed, until, switches>>

TimePasses ==
    /\ clock < MaxClock
    /\ clock' = clock + 1
    /\ UNCHANGED <<listed, until, seen, visits, views, switches, forgotten>>
\* A new process; the cookies are signed, and outlive it.
ForgetAll ==
    /\ seen # <<>>
    /\ seen' = <<>>
    /\ Forget
    /\ UNCHANGED <<clock, listed, until, visits, views, switches>>

VisitNext ==
    \/ TimePasses \/ ForgetAll
    \/ \E b \in Buyers :
          \/ LogIn(b) \/ LogOut(b) \/ SwitchActive(b)
          \/ \E written \in BOOLEAN : View(b, written)
VisitSpec == VisitInit /\ [][VisitNext]_visitVars

-----------------------------------------------------------------------------
Within(r, s) == r # s /\ r.buyer = s.buyer /\ r.at <= s.at /\ s.at - r.at < VISIT_WINDOW

\* A buyer has a second row in a window only when the process forgot them between the two, pushed out
\* by others or by its end, and never for signing out and in or being switched off and on; and it
\* remembers a bounded number (visits.ts:55-64).
OneRowPerWindow ==
    /\ Len(seen) <= MAX_KEYS
    /\ \A r, s \in visits :
          Within(r, s) => \E f \in forgotten : f.buyer = r.buyer /\ r.at <= f.at /\ f.at <= s.at

\* "Bounded: the oldest entries are dropped once the map is full" (visits.ts:41-42).
OldestDropped ==
    [][\A i \in DOMAIN seen :
          seen[i].buyer \notin {seen'[k].buyer : k \in DOMAIN seen'}
              => \A j \in DOMAIN seen : seen[i].at <= seen[j].at]_visitVars
=============================================================================
