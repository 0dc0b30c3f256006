---------------------------- MODULE RateLimiter ----------------------------
(***************************************************************************)
(* The fixed-window limiter of the process (votes/ratelimit.ts) as         *)
(* operators on its map of windows.  The map is a sequence of entries in   *)
(* insertion order, which is what a JavaScript Map iterates in: setting an *)
(* existing key keeps its place.  A window's start is kept as its age,     *)
(* saturated at its length.                                                *)
(***************************************************************************)
EXTENDS Naturals, Sequences, FiniteSets, SequencesExt

CONSTANTS
    LimitKinds,    \* the kinds of keys whose limit can be reached at all
    Limit,         \* kind -> units per window
    WindowLength,  \* kind -> windowMs
    MaxKeys,       \* maxKeys
    ProtectedKeys  \* PROTECTED_KEYS

ASSUME LimiterConstants ==
    /\ Limit \in [LimitKinds -> Nat]
    /\ WindowLength \in [LimitKinds -> Nat \ {0}]
    /\ MaxKeys \in Nat

\* A key is a tuple whose first component is its kind.
Over(w) == w.age >= WindowLength[w.key[1]]

Keys(windows) == {windows[n].key : n \in 1..Len(windows)}
PlaceOf(windows, key) == CHOOSE n \in 1..Len(windows) : windows[n].key = key
Live(windows, key) == key \in Keys(windows) /\ ~Over(windows[PlaceOf(windows, key)])
CountOf(windows, key) == IF Live(windows, key) THEN windows[PlaceOf(windows, key)].count ELSE 0

wouldAllow(windows, key) == CountOf(windows, key) < Limit[key[1]]

\* The entries of a sequence that are in a set, in their order.
Among(entries, S) ==
    LET kept[k \in 0..Len(entries)] ==
            IF k = 0 THEN <<>>
            ELSE IF entries[k] \in S THEN Append(kept[k - 1], entries[k]) ELSE kept[k - 1]
    IN  kept[Len(entries)]

\* prune(): expired windows go, then the oldest entries that are not protected.
Prune(windows) ==
    LET live == Among(windows, {w \in Range(windows) : ~Over(w)})
        excess == IF Len(live) > MaxKeys THEN Len(live) - MaxKeys ELSE 0
        free == {n \in 1..Len(live) : live[n].key \notin ProtectedKeys}
        dropped == {n \in free : Cardinality({m \in free : m <= n}) <= excess}
    IN  Among(live, {live[n] : n \in (1..Len(live)) \ dropped})

\* An absent or expired window is replaced by a new one, which may overfill the map.
Opened(windows, key) ==
    LET fresh == [key |-> key, age |-> 0, count |-> 0]
        set == IF key \in Keys(windows)
               THEN [windows EXCEPT ![PlaceOf(windows, key)] = fresh]
               ELSE Append(windows, fresh)
    IN  IF Live(windows, key) THEN windows
        ELSE IF Len(set) > MaxKeys THEN Prune(set) ELSE set

\* allow() takes a unit if one is left.
allow(windows, key) ==
    LET opened == Opened(windows, key)
        n == PlaceOf(opened, key)
    IN  IF key \in Keys(opened) /\ opened[n].count < Limit[key[1]]
        THEN [opened EXCEPT ![n].count = @ + 1]
        ELSE opened

\* Mutant of refund: nothing is given back.
refundNothing(windows, key) == windows

\* refund() gives one back to whichever window the key has now.
refund(windows, key) ==
    IF key \in Keys(windows) /\ windows[PlaceOf(windows, key)].count > 0
    THEN [windows EXCEPT ![PlaceOf(windows, key)].count = @ - 1]
    ELSE windows

OlderWindows(windows) ==
    [n \in 1..Len(windows) |->
        [windows[n] EXCEPT !.age = IF Over(windows[n]) THEN @ ELSE @ + 1]]
=============================================================================
