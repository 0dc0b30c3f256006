----------------------------- MODULE AsyncMutex -----------------------------
(***************************************************************************)
(* The one lock of the admin (admin/lock.ts AsyncMutex): a chain of        *)
(* promises.  A caller takes the tail of the chain as what it waits for,   *)
(* puts its own promise there, and resolves that promise once its function *)
(* has settled, well or not.                                               *)
(***************************************************************************)
EXTENDS Naturals

CONSTANT Requests  \* callers of withAdminLock

VARIABLES
    tail,    \* the newest promise of the chain; promises are numbered in the order they are made
    ticket,  \* the promise each caller will resolve, 0 when it has none
    prior,   \* the promise each caller waits for
    settled  \* the promises that are resolved

lockVars == <<tail, ticket, prior, settled>>

LockTypeOK ==
    /\ tail \in Nat
    /\ ticket \in [Requests -> 0..tail]
    /\ prior \in [Requests -> 0..tail]
    /\ settled \subseteq 0..tail

LockInit ==
    /\ tail = 0
    /\ ticket = [r \in Requests |-> 0]
    /\ prior = [r \in Requests |-> 0]
    /\ settled = {0}

Queued(r) == ticket[r] # 0

\* `await prior` is over: the caller's function runs until Release(r).
Holds(r) == Queued(r) /\ prior[r] \in settled

\* Mutant of Run: the tail is not read, nobody waits for the caller before.
RunWithoutChaining(r) ==
    /\ ~Queued(r)
    /\ ticket' = [ticket EXCEPT ![r] = tail + 1]
    /\ prior' = [prior EXCEPT ![r] = 0]
    /\ tail' = tail + 1
    /\ UNCHANGED settled

\* Mutant of Run: the new promise is made and not put at the tail.
RunKeepsTail(r) ==
    /\ ~Queued(r)
    /\ ticket' = [ticket EXCEPT ![r] = tail + 1]
    /\ prior' = [prior EXCEPT ![r] = tail]
    /\ UNCHANGED <<tail, settled>>

\* run(): join the chain.
Run(r) ==
    /\ ~Queued(r)
    /\ ticket' = [ticket EXCEPT ![r] = tail + 1]
    /\ prior' = [prior EXCEPT ![r] = tail]
    /\ tail' = tail + 1
    /\ UNCHANGED settled

\* Mutant of Release: a function that threw leaves its promise pending.
ReleaseNever(r) ==
    /\ Holds(r)
    /\ ticket' = [ticket EXCEPT ![r] = 0]
    /\ prior' = [prior EXCEPT ![r] = 0]
    /\ UNCHANGED <<tail, settled>>

\* The `finally` of run(), reached on every path.
Release(r) ==
    /\ Holds(r)
    /\ settled' = settled \cup {ticket[r]}
    /\ ticket' = [ticket EXCEPT ![r] = 0]
    /\ prior' = [prior EXCEPT ![r] = 0]
    /\ UNCHANGED tail

LockNext == \E r \in Requests : Run(r) \/ Release(r)

LockSpec == LockInit /\ [][LockNext]_lockVars

\* Never two functions at once: the write of one admin cannot fall between the
\* re-read and the write of another.
LockExclusive == \A r, s \in Requests : Holds(r) /\ Holds(s) => r = s

\* The lock goes to whoever has waited longest ("after every previously queued call").
LockInOrder == \A r, s \in Requests : Holds(r) /\ Queued(s) => ticket[r] <= ticket[s]
=============================================================================
