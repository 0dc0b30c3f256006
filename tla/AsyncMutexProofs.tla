-------------------------- MODULE AsyncMutexProofs --------------------------
(***************************************************************************)
(* The promise chain of AsyncMutex is a lock, for any callers.             *)
(*                                                                         *)
(* The promises are settled in the order they were made, so the settled    *)
(* ones are all those up to some number; a caller waits for the promise    *)
(* just before its own.  Whoever holds the lock has the first unsettled    *)
(* promise, and a promise belongs to one caller.                           *)
(***************************************************************************)
EXTENDS AsyncMutex, TLAPS

NoGap == \A k \in settled : \A j \in 0..k : j \in settled

Chained == \A r \in Requests : Queued(r) => prior[r] = ticket[r] - 1 /\ ticket[r] \notin settled

OwnPromise == \A r, s \in Requests : Queued(r) /\ ticket[r] = ticket[s] => r = s

LockInv == LockTypeOK /\ NoGap /\ Chained /\ OwnPromise

-----------------------------------------------------------------------------
\* The chain is well formed before the first call.
LEMMA LockInitInv == LockInit => LockInv
  BY DEF LockInit, LockInv, LockTypeOK, NoGap, Chained, OwnPromise, Queued

\* run() appends one promise to the chain and keeps it well formed.
LEMMA RunInv ==
  ASSUME LockInv, NEW r \in Requests, Run(r)
  PROVE  LockInv'
<1>1. LockTypeOK'
  BY DEF LockInv, LockTypeOK, Run
<1>2. NoGap'
  BY DEF LockInv, NoGap, Run
<1>3. Chained'
  <2> SUFFICES ASSUME NEW q \in Requests, Queued(q)'
               PROVE  prior'[q] = ticket'[q] - 1 /\ ticket'[q] \notin settled'
    BY DEF Chained, Queued
  <2>1. CASE q = r
    <3>1. prior'[q] = tail /\ ticket'[q] = tail + 1 /\ tail \in Nat /\ settled' = settled
      BY <2>1 DEF LockInv, LockTypeOK, Run
    <3>2. tail + 1 \notin settled
      BY <3>1 DEF LockInv, LockTypeOK
    <3> QED
      BY <3>1, <3>2
  <2>2. CASE q # r
    BY <2>2 DEF LockInv, LockTypeOK, Chained, Queued, Run
  <2> QED
    BY <2>1, <2>2
<1>4. OwnPromise'
  BY DEF LockInv, LockTypeOK, OwnPromise, Queued, Run
<1> QED
  BY <1>1, <1>2, <1>3, <1>4 DEF LockInv

\* The finally of run() settles the oldest promise of the chain and keeps it well formed.
LEMMA ReleaseInv ==
  ASSUME LockInv, NEW r \in Requests, Release(r)
  PROVE  LockInv'
<1> DEFINE mine == ticket[r]
<1>0. mine \in 1..tail /\ mine - 1 \in settled /\ settled' = settled \cup {mine}
  BY DEF LockInv, LockTypeOK, Chained, Queued, Holds, Release
<1>1. LockTypeOK'
  <2>1. tail' \in Nat /\ settled' \subseteq 0..tail'
    BY <1>0 DEF LockInv, LockTypeOK, Release
  <2>2. ticket' \in [Requests -> 0..tail']
    BY DEF LockInv, LockTypeOK, Release
  <2>3. prior' \in [Requests -> 0..tail']
    BY DEF LockInv, LockTypeOK, Release
  <2> QED
    BY <2>1, <2>2, <2>3 DEF LockTypeOK
<1>2. NoGap'
  <2> SUFFICES ASSUME NEW k \in settled', NEW j \in 0..k
               PROVE  j \in settled'
    BY DEF NoGap
  <2>1. CASE k \in settled
    BY <2>1, <1>0 DEF LockInv, NoGap
  <2>2. CASE k = mine /\ j # mine
    <3>1. j \in 0..(mine - 1)
      BY <2>2, <1>0 DEF LockInv, LockTypeOK
    <3> QED
      BY <3>1, <1>0 DEF LockInv, NoGap
  <2>3. CASE j = mine
    BY <2>3, <1>0
  <2> QED
    BY <2>1, <2>2, <2>3, <1>0
<1>3. Chained'
  <2> SUFFICES ASSUME NEW q \in Requests, Queued(q)'
               PROVE  prior'[q] = ticket'[q] - 1 /\ ticket'[q] \notin settled'
    BY DEF Chained, Queued
  <2>1. q # r /\ ticket'[q] = ticket[q] /\ prior'[q] = prior[q] /\ Queued(q)
    BY DEF LockInv, LockTypeOK, Queued, Release
  <2>2. ticket[q] # mine
    BY <2>1 DEF LockInv, OwnPromise
  <2> QED
    BY <2>1, <2>2, <1>0 DEF LockInv, Chained
<1>4. OwnPromise'
  BY DEF LockInv, LockTypeOK, OwnPromise, Queued, Release
<1> QED
  BY <1>1, <1>2, <1>3, <1>4 DEF LockInv

\* No step of the lock breaks the chain.
LEMMA LockInvNext == LockInv /\ [LockNext]_lockVars => LockInv'
<1> SUFFICES ASSUME LockInv, [LockNext]_lockVars
             PROVE  LockInv'
  OBVIOUS
<1>1. ASSUME NEW r \in Requests, Run(r)
      PROVE  LockInv'
  BY <1>1, RunInv
<1>2. ASSUME NEW r \in Requests, Release(r)
      PROVE  LockInv'
  BY <1>2, ReleaseInv
<1>3. CASE UNCHANGED lockVars
  BY <1>3 DEF lockVars, LockInv, LockTypeOK, NoGap, Chained, OwnPromise, Queued
<1> QED
  BY <1>1, <1>2, <1>3 DEF LockNext

\* Whoever holds the lock has the oldest promise of all that are queued.
LEMMA HolderIsOldest == LockInv => LockInOrder
<1> SUFFICES ASSUME LockInv, NEW r \in Requests, NEW s \in Requests, Holds(r), Queued(s)
             PROVE  ticket[r] <= ticket[s]
  BY DEF LockInOrder
<1>1. ticket[r] \in Nat /\ ticket[s] \in Nat /\ ticket[r] - 1 \in settled /\ ticket[s] \notin settled
  BY DEF LockInv, LockTypeOK, Chained, Holds
<1>2. ticket[s] < ticket[r] => ticket[s] \in 0..(ticket[r] - 1)
  BY <1>1
<1> QED
  BY <1>1, <1>2 DEF LockInv, NoGap

\* In a well formed chain only the oldest caller runs.
LEMMA HolderIsAlone == LockInv => LockExclusive
<1> SUFFICES ASSUME LockInv, NEW r \in Requests, NEW s \in Requests, Holds(r), Holds(s)
             PROVE  r = s
  BY DEF LockExclusive
<1>1. ticket[r] <= ticket[s] /\ ticket[s] <= ticket[r]
  BY HolderIsOldest DEF LockInOrder, Holds
<1>2. ticket[r] = ticket[s]
  BY <1>1 DEF LockInv, LockTypeOK
<1> QED
  BY <1>2 DEF LockInv, OwnPromise, Holds

-----------------------------------------------------------------------------
\* The chain is well formed in every reachable state.
THEOREM LockInvHolds == LockSpec => []LockInv
  BY LockInitInv, LockInvNext, PTL DEF LockSpec

\* Two functions passed to withAdminLock never run at the same time.
THEOREM LockExclusiveHolds == LockSpec => []LockExclusive
  BY LockInvHolds, HolderIsAlone, PTL

\* The functions run in the order in which run() was called.
THEOREM LockInOrderHolds == LockSpec => []LockInOrder
  BY LockInvHolds, HolderIsOldest, PTL

-----------------------------------------------------------------------------
(* The lock is not left idle: what its being free of deadlock rests on.     *)

\* While somebody waits, somebody's function runs: no promise of the chain is one that nobody will
\* resolve (lock.ts AsyncMutex.run).
LockNeverIdle == (\E r \in Requests : Queued(r)) => \E r \in Requests : Holds(r)

\* The promises that are settled are the first ones, and every other one is a caller's.
FirstSettled == \E n \in 0..tail : settled = 0..n

EveryPromiseOwned == \A k \in 1..tail : k \in settled \/ \E r \in Requests : ticket[r] = k

LEMMA OwnedInitInv == LockInit => FirstSettled /\ EveryPromiseOwned
  BY DEF LockInit, FirstSettled, EveryPromiseOwned

\* The promise that run() makes is its caller's; the one that is settled is the next one.
LEMMA OwnedInvNext == LockInv /\ FirstSettled /\ EveryPromiseOwned /\ [LockNext]_lockVars
                         => (FirstSettled /\ EveryPromiseOwned)'
<1> SUFFICES ASSUME LockInv, FirstSettled, EveryPromiseOwned, [LockNext]_lockVars
             PROVE  FirstSettled' /\ EveryPromiseOwned'
  OBVIOUS
<1>0. PICK n \in 0..tail : settled = 0..n
  BY DEF FirstSettled
<1>t. tail \in Nat /\ ticket \in [Requests -> 0..tail] /\ n \in Nat
  BY DEF LockInv, LockTypeOK
<1>1. ASSUME NEW r \in Requests, Run(r)
      PROVE  FirstSettled' /\ EveryPromiseOwned'
  <2>1. tail' = tail + 1 /\ settled' = settled /\ ticket' = [ticket EXCEPT ![r] = tail + 1] /\ ticket[r] = 0
    BY <1>1 DEF Run, Queued
  <2>2. FirstSettled'
    BY <1>0, <1>t, <2>1 DEF FirstSettled
  <2>3. ASSUME NEW k \in 1..(tail + 1), k \notin settled
        PROVE  \E q \in Requests : ticket'[q] = k
    <3>1. CASE k = tail + 1
      BY <1>t, <2>1, <3>1
    <3>2. CASE k # tail + 1
      <4>1. PICK q \in Requests : ticket[q] = k
        BY <1>t, <2>3, <3>2 DEF EveryPromiseOwned
      <4> QED
        BY <1>t, <2>1, <2>3, <4>1
    <3> QED
      BY <3>1, <3>2
  <2> QED
    BY <2>1, <2>2, <2>3 DEF EveryPromiseOwned
<1>2. ASSUME NEW r \in Requests, Release(r)
      PROVE  FirstSettled' /\ EveryPromiseOwned'
  <2>1. /\ tail' = tail /\ settled' = settled \cup {ticket[r]} /\ ticket' = [ticket EXCEPT ![r] = 0]
        /\ ticket[r] \in 1..tail /\ ticket[r] - 1 \in settled /\ ticket[r] \notin settled
    BY <1>2 DEF Release, Holds, Queued, LockInv, LockTypeOK, Chained
  <2>2. ticket[r] = n + 1 /\ settled' = 0..(n + 1)
    BY <1>0, <1>t, <2>1
  <2>3. FirstSettled'
    BY <1>t, <2>1, <2>2 DEF FirstSettled
  <2>4. ASSUME NEW k \in 1..tail, k \notin settled'
        PROVE  \E q \in Requests : ticket'[q] = k
    <3>1. PICK q \in Requests : ticket[q] = k
      BY <2>1, <2>4 DEF EveryPromiseOwned
    <3> QED
      BY <1>t, <2>1, <2>4, <3>1
  <2> QED
    BY <2>1, <2>3, <2>4 DEF EveryPromiseOwned
<1>3. CASE UNCHANGED lockVars
  BY <1>3 DEF lockVars, FirstSettled, EveryPromiseOwned
<1> QED
  BY <1>1, <1>2, <1>3 DEF LockNext

\* The first promise that is not settled is that of a caller whose turn it is.
LEMMA OwnerOfTheFirstHolds == LockInv /\ FirstSettled /\ EveryPromiseOwned => LockNeverIdle
<1> SUFFICES ASSUME LockInv, FirstSettled, EveryPromiseOwned, NEW r \in Requests, Queued(r)
             PROVE  \E q \in Requests : Holds(q)
  BY DEF LockNeverIdle
<1>1. PICK n \in 0..tail : settled = 0..n
  BY DEF FirstSettled
<1>2. tail \in Nat /\ n \in Nat /\ ticket[r] \in 1..tail /\ ticket[r] \notin settled
  BY DEF LockInv, LockTypeOK, Queued, Chained
<1>3. n + 1 \in 1..tail /\ n + 1 \notin settled
  BY <1>1, <1>2
<1>4. PICK q \in Requests : ticket[q] = n + 1
  BY <1>3 DEF EveryPromiseOwned
<1>5. Queued(q)
  BY <1>2, <1>4 DEF Queued
<1>6. prior[q] = n
  BY <1>2, <1>4, <1>5 DEF LockInv, Chained
<1> QED
  BY <1>1, <1>2, <1>5, <1>6 DEF Holds

\* Nobody waits for a lock that nobody has: for any callers.
THEOREM LockNeverIdleHolds == LockSpec => []LockNeverIdle
  BY LockInitInv, LockInvNext, OwnedInitInv, OwnedInvNext, OwnerOfTheFirstHolds, PTL DEF LockSpec
=============================================================================
