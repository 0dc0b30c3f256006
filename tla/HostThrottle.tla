---------------------------- MODULE HostThrottle ----------------------------
(***************************************************************************)
(* The pause between two requests to one supplier (lib/scrape/throttle.ts):*)
(* every request of every scrape reserves a slot and waits for it, but     *)
(* never longer than a cap.  Time is in seconds and timers are punctual.   *)
(***************************************************************************)
EXTENDS Integers, FiniteSets

CONSTANTS
    Callers,                    \* requests of scrapes, each made once
    MIN_HOST_GAP, MAX_HOST_WAIT,
    MaxTime                     \* bound

ASSUME ThrottleConstants ==
    MIN_HOST_GAP \in Nat \ {0} /\ MAX_HOST_WAIT \in Nat /\ MaxTime \in Nat

VARIABLES
    now,
    next,       \* when the next request may start
    request     \* each: not asked, waiting for its timer, started or given up; its time, whether capped

throttleVars == <<now, next, request>>

ThrottleInit ==
    /\ now = 0 /\ next = 0
    /\ request = [c \in Callers |-> [is |-> "unasked", at |-> 0, capped |-> FALSE]]

Later(a, b) == IF a > b THEN a ELSE b

\* Mutant of take: the next slot is counted from the call and not from the slot.
takeFromNow(c) ==
    LET start == Later(now, next)
        capped == start - now > MAX_HOST_WAIT
    IN  /\ request[c].is = "unasked"
        /\ next' = now + MIN_HOST_GAP
        /\ request' = [request EXCEPT ![c] =
               [is |-> "waiting", at |-> IF capped THEN now + MAX_HOST_WAIT ELSE start, capped |-> capped]]
        /\ UNCHANGED now

\* Reserved before the wait, so that two callers never share a slot.
take(c) ==
    LET start == Later(now, next)
        capped == start - now > MAX_HOST_WAIT
    IN  /\ request[c].is = "unasked"
        /\ next' = start + MIN_HOST_GAP
        /\ request' = [request EXCEPT ![c] =
               [is |-> "waiting", at |-> IF capped THEN now + MAX_HOST_WAIT ELSE start, capped |-> capped]]
        /\ UNCHANGED now

\* The timer fires, and the request goes out.
Wake(c) ==
    /\ request[c].is = "waiting" /\ request[c].at = now
    /\ request' = [request EXCEPT ![c].is = "started"]
    /\ UNCHANGED <<now, next>>

\* The scrape's deadline ends the wait; the slot stays reserved.
AbortWait(c) ==
    /\ request[c].is = "waiting" /\ request[c].at > now
    /\ request' = [request EXCEPT ![c] = [is |-> "given up", at |-> 0, capped |-> FALSE]]
    /\ UNCHANGED <<now, next>>

Second ==
    /\ now < MaxTime
    /\ \A c \in Callers : request[c].is = "waiting" => request[c].at > now
    /\ now' = now + 1
    /\ UNCHANGED <<next, request>>

ThrottleNext == Second \/ \E c \in Callers : take(c) \/ Wake(c) \/ AbortWait(c)
ThrottleSpec == ThrottleInit /\ [][ThrottleNext]_throttleVars

-------
Started(c) == request[c].is = "started"
Apart(c, d) ==
    \/ c = d
    \/ request[c].at - request[d].at >= MIN_HOST_GAP
    \/ request[d].at - request[c].at >= MIN_HOST_GAP

\* Two requests that had the whole wait they needed are a gap apart, whoever made them, however
\* their waits overlapped and whichever of the others gave up (throttle.ts:77-92).
SlotsApart ==
    \A c, d \in Callers :
        Started(c) /\ Started(d) /\ ~request[c].capped /\ ~request[d].capped => Apart(c, d)

\* "2 s between requests to the same host" (throttle.ts:1, index.ts:474): every two of them.
HostGap == \A c, d \in Callers : Started(c) /\ Started(d) => Apart(c, d)
=============================================================================
