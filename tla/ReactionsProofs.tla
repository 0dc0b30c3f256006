-------------------------- MODULE ReactionsProofs --------------------------
(***************************************************************************)
(* Proofs about Reactions, in layers that use each other.                  *)
(*   cache    the composition runs the cache as CacheSpec describes it, so *)
(*            what CatalogueCacheProofs shows holds in it too;             *)
(*   control  the guards keep two writes in flight from sharing a pair;    *)
(*   shape    what the loops over deltas, batches and rows compute, and    *)
(*            the types of all state;                                      *)
(*   answers  an insert that landed is on top of the log until the next    *)
(*            one of its pair, so the log follows what was answered;       *)
(*   memory   deltas, replays and refreshes never lose or double a vote of *)
(*            a pair at rest, so memory matches the log;                   *)
(*   budgets  a request charges no key twice, and a live window counts at  *)
(*            most the writes that took a unit of it.                      *)
(***************************************************************************)
EXTENDS Reactions, CatalogueCacheProofs, SequenceTheorems, WellFoundedInduction, FiniteSetTheorems

-----------------------------------------------------------------------------
(* Numbers                                                                 *)

LEMMA UpToIsFinite == \A m \in Nat : IsFiniteSet(1..m)
  <1> TAKE m \in Nat
  <1>1. 1 \in Int /\ m \in Int
    OBVIOUS
  <1> QED BY <1>1, FS_Interval, Zenon

-----------------------------------------------------------------------------
(* the cache inside the composition                                        *)

\* Every step of the reactions endpoint is a step of the cache or leaves it alone.
LEMMA StepsOfCache == [ReactionsNext]_vars => [CacheNext]_cacheVars
  <1> SUFFICES ASSUME [ReactionsNext]_vars PROVE [CacheNext]_cacheVars
    OBVIOUS
  <1>0. Requests \subseteq Callers
    BY ReactionConstants
  <1>1. ASSUME NEW r \in Requests, Submit(r) PROVE CacheNext
    BY <1>0, <1>1 DEF Submit, CacheNext
  <1>2. ASSUME NEW r \in Requests, Decide(r) PROVE CacheNext
    BY <1>0, <1>2 DEF Decide, CacheNext
  <1>3. ASSUME NEW r \in Requests, Land(r) \/ RespondOk(r) \/ InsertFails(r)
        PROVE  UNCHANGED cacheVars
    BY <1>3 DEF Land, RespondOk, InsertFails
  <1>4. ASSUME NEW i \in ReadIds, SheetServes(i) \/ RefreshEnds(i) \/ RefreshFails(i)
        PROVE  CacheNext
    BY <1>4 DEF SheetServes, RefreshEnds, RefreshFails, CacheNext
  <1>5. CASE PageStep
    BY <1>5 DEF PageStep, CacheNext
  <1>6. CASE OrphanLands
    BY <1>6 DEF OrphanLands
  <1>7. CASE Clock
    BY <1>7 DEF Clock, CacheNext
  <1>8. CASE Shop
    BY <1>8 DEF Shop, CacheNext
  <1>9. CASE Restart
    BY <1>9 DEF Restart, CacheNext
  <1>10. CASE UNCHANGED vars
    BY <1>10 DEF vars
  <1> QED
    BY <1>1, <1>2, <1>3, <1>4, <1>5, <1>6, <1>7, <1>8, <1>9, <1>10 DEF ReactionsNext

\* Every behaviour of the reaction endpoint is a behaviour of the cache alone.
THEOREM ReactionsImplementCache == ReactionsSpec => CacheSpec
  <1>1. ReactionsInit => CacheInit
    BY DEF ReactionsInit
  <1> QED BY <1>1, StepsOfCache, PTL DEF ReactionsSpec, CacheSpec

\* With reaction requests as its callers, too, a bust() that succeeds contains every
\* edit made before the call.
THEOREM ReactionsBustYieldsLaterRead == ReactionsSpec => []BustYieldsLaterRead
  BY ReactionsImplementCache, BustYieldsLaterReadHolds, PTL

\* Requests never bring an older catalogue back either.
THEOREM ReactionsContentNeverGoesBack == ReactionsSpec => ContentNeverGoesBack
  BY ReactionsImplementCache, ContentNeverGoesBackHolds, PTL

-----------------------------------------------------------------------------
(* the guards                                                              *)

ControlTypeOK == req \in [Requests -> RequestState] /\ submits \in 0..MaxSubmits

\* Only a request past its decision has an insert.
InsertIsWriting == \A r \in Requests : req[r].write # "none" => Writing(r)

ControlInv == ControlTypeOK /\ InsertIsWriting /\ GuardExclusive

HeldBy(r) == GuardsOf(req[r].who, req[r].batch)

\* The new process has the declared types.
LEMMA ControlTypeInit == ReactionsInit => ControlTypeOK
  <1> NoRequest \in RequestState
    BY ReactionConstants DEF NoRequest, RequestState
  <1> QED BY ReactionConstants DEF ReactionsInit, ControlTypeOK

\* Every step of the endpoint keeps the declared types.
LEMMA ControlTypeNext == ControlTypeOK /\ [ReactionsNext]_vars => ControlTypeOK'
  <1> SUFFICES ASSUME ControlTypeOK, [ReactionsNext]_vars PROVE ControlTypeOK'
    OBVIOUS
  <1>0. NoRequest \in RequestState
    BY ReactionConstants DEF NoRequest, RequestState
  <1>1. ASSUME NEW r \in Requests, Submit(r) PROVE ControlTypeOK'
    <2>1. PICK v \in Visitors, batch \in Batches :
            req' = [req EXCEPT ![r] = [NoRequest EXCEPT !.pc = "getting", !.who = v,
                                                        !.batch = batch, !.n = submits + 1]]
      BY <1>1 DEF Submit
    <2>2. submits' = submits + 1 /\ submits + 1 \in 0..MaxSubmits
      BY <1>1, ReactionConstants DEF Submit, ControlTypeOK
    <2>3. [NoRequest EXCEPT !.pc = "getting", !.who = v, !.batch = batch, !.n = submits + 1]
            \in RequestState
      BY <2>2 DEF NoRequest, RequestState
    <2> QED BY <2>1, <2>2, <2>3 DEF ControlTypeOK
  <1>2. ASSUME NEW r \in Requests, Answer(r), UNCHANGED submits PROVE ControlTypeOK'
    BY <1>0, <1>2 DEF Answer, ControlTypeOK
  <1>3. ASSUME NEW r \in Requests, Decide(r) PROVE ControlTypeOK'
    <2>1. UNCHANGED submits
      BY <1>3 DEF Decide
    <2>2. CASE StartWrite(r)
      <3>1. req' = [req EXCEPT ![r].pc = "writing", ![r].write = "new"]
        BY <2>2 DEF StartWrite
      <3> QED BY <2>1, <3>1 DEF ControlTypeOK, RequestState
    <2> QED BY <1>2, <1>3, <2>1, <2>2 DEF Decide
  <1>4. ASSUME NEW r \in Requests, Land(r) PROVE ControlTypeOK'
    BY <1>4 DEF Land, ControlTypeOK, RequestState
  <1>5. ASSUME NEW r \in Requests, RespondOk(r) \/ InsertFails(r) PROVE ControlTypeOK'
    BY <1>2, <1>5 DEF RespondOk, InsertFails
  <1>6. CASE Clock
    <2> SUFFICES ASSUME NEW r \in Requests
                 PROVE  [req[r] EXCEPT !.write = IF @ = "new" THEN "sent" ELSE @] \in RequestState
      BY <1>6 DEF Clock, ControlTypeOK
    <2> QED BY DEF ControlTypeOK, RequestState
  <1>7. CASE Restart
    BY <1>0, <1>7 DEF Restart, ControlTypeOK
  <1>8. ASSUME UNCHANGED <<req, submits>> PROVE ControlTypeOK'
    BY <1>8 DEF ControlTypeOK
  <1> QED
    BY <1>1, <1>3, <1>4, <1>5, <1>6, <1>7, <1>8
    DEF ReactionsNext, SheetServes, RefreshEnds, RefreshFails, PageStep, OrphanLands, Shop,
        requestVars, vars

\* An insert in flight goes on belonging to a request that is writing.
LEMMA InsertNext ==
    ControlTypeOK /\ InsertIsWriting /\ [ReactionsNext]_vars => InsertIsWriting'
  <1> SUFFICES ASSUME ControlTypeOK, InsertIsWriting, [ReactionsNext]_vars
               PROVE  InsertIsWriting'
    OBVIOUS
  <1>1. ASSUME NEW r \in Requests, Submit(r) PROVE InsertIsWriting'
    <2>1. PICK v \in Visitors, batch \in Batches :
            req' = [req EXCEPT ![r] = [NoRequest EXCEPT !.pc = "getting", !.who = v,
                                                        !.batch = batch, !.n = submits + 1]]
      BY <1>1 DEF Submit
    <2> QED BY <2>1 DEF ControlTypeOK, InsertIsWriting, Writing, NoRequest
  <1>2. ASSUME NEW r \in Requests, Answer(r) PROVE InsertIsWriting'
    BY <1>2 DEF Answer, ControlTypeOK, InsertIsWriting, Writing, NoRequest
  <1>3. ASSUME NEW r \in Requests, Decide(r) PROVE InsertIsWriting'
    <2>1. CASE StartWrite(r)
      <3>1. req' = [req EXCEPT ![r].pc = "writing", ![r].write = "new"]
        BY <2>1 DEF StartWrite
      <3> QED BY <3>1 DEF ControlTypeOK, RequestState, InsertIsWriting, Writing
    <2> QED BY <1>2, <1>3, <2>1 DEF Decide
  <1>4. ASSUME NEW r \in Requests, Land(r) PROVE InsertIsWriting'
    BY <1>4 DEF Land, ControlTypeOK, RequestState, InsertIsWriting, Writing
  <1>5. ASSUME NEW r \in Requests, RespondOk(r) \/ InsertFails(r) PROVE InsertIsWriting'
    BY <1>2, <1>5 DEF RespondOk, InsertFails
  <1>6. CASE Clock
    <2> SUFFICES ASSUME NEW r \in Requests, req'[r].write # "none" PROVE Writing(r)'
      BY DEF InsertIsWriting
    <2>1. req'[r] = [req[r] EXCEPT !.write = IF @ = "new" THEN "sent" ELSE @]
      BY <1>6 DEF Clock
    <2>2. req'[r].pc = req[r].pc /\ req[r].write # "none"
      BY <2>1 DEF ControlTypeOK, RequestState
    <2> QED BY <2>2 DEF InsertIsWriting, Writing
  <1>7. CASE Restart
    BY <1>7 DEF Restart, InsertIsWriting, Writing, NoRequest
  <1>8. ASSUME UNCHANGED req PROVE InsertIsWriting'
    BY <1>8 DEF InsertIsWriting, Writing
  <1> QED
    BY <1>1, <1>3, <1>4, <1>5, <1>6, <1>7, <1>8
    DEF ReactionsNext, SheetServes, RefreshEnds, RefreshFails, PageStep, OrphanLands, Shop,
        requestVars, vars

\* Nothing changes for the guards as long as the writers and their batches stay the same.
LEMMA SameWriters ==
    ASSUME GuardExclusive, guards' = guards,
           \A q \in Requests : /\ Writing(q)' <=> Writing(q)
                               /\ Writing(q) => HeldBy(q)' = HeldBy(q)
    PROVE  GuardExclusive'
  BY DEF GuardExclusive, HeldBy, Writing

\* A writer leaves and takes its guards with it.
LEMMA WriterLeaves ==
    ASSUME ControlInv, NEW r \in Requests, Writing(r), Answer(r), ReleaseGuards(r)
    PROVE  GuardExclusive'
  <1>1. /\ ~Writing(r)'
        /\ \A q \in Requests \ {r} : req'[q] = req[q]
    BY DEF Answer, ControlInv, ControlTypeOK, NoRequest, Writing
  <1>2. \A q \in Requests \ {r} : Writing(q) => HeldBy(q) \cap HeldBy(r) = {}
    BY DEF ControlInv, GuardExclusive, HeldBy
  <1>3. \A q \in Requests \ {r} : (Writing(q)' <=> Writing(q)) /\ HeldBy(q)' = HeldBy(q)
    BY <1>1 DEF HeldBy, Writing
  <1>4. guards' = (UNION {HeldBy(q) : q \in {w \in Requests : Writing(w)}}) \ HeldBy(r)
    BY DEF ControlInv, GuardExclusive, ReleaseGuards, HeldBy
  <1>5. guards' = UNION {HeldBy(q)' : q \in {w \in Requests : Writing(w)'}}
    <2>1. ASSUME NEW x \in guards' PROVE \E q \in Requests : Writing(q)' /\ x \in HeldBy(q)'
      <3>1. PICK q \in Requests : Writing(q) /\ x \in HeldBy(q) /\ x \notin HeldBy(r)
        BY <1>4, <2>1
      <3>2. q # r
        BY <3>1
      <3> QED BY <1>3, <3>1, <3>2
    <2>2. ASSUME NEW x, NEW q \in Requests, Writing(q)', x \in HeldBy(q)' PROVE x \in guards'
      <3>1. q # r
        BY <1>1, <2>2
      <3>2. Writing(q) /\ x \in HeldBy(q)
        BY <1>3, <2>2, <3>1
      <3>3. x \notin HeldBy(r)
        BY <1>2, <3>1, <3>2
      <3> QED BY <1>4, <3>2, <3>3
    <2> QED BY <2>1, <2>2
  <1>6. \A p, q \in Requests :
          p # q /\ Writing(p)' /\ Writing(q)' => HeldBy(p)' \cap HeldBy(q)' = {}
    <2> SUFFICES ASSUME NEW p \in Requests, NEW q \in Requests, p # q, Writing(p)', Writing(q)'
                 PROVE  HeldBy(p)' \cap HeldBy(q)' = {}
      OBVIOUS
    <2>1. p # r /\ q # r
      BY <1>1
    <2>2. HeldBy(p) \cap HeldBy(q) = {}
      BY <1>3, <2>1 DEF ControlInv, GuardExclusive, HeldBy
    <2> QED BY <1>3, <2>1, <2>2
  <1> QED BY <1>5, <1>6 DEF GuardExclusive, HeldBy

\* A writer joins with guards nobody holds.
LEMMA WriterJoins ==
    ASSUME ControlInv, NEW r \in Requests, req[r].pc = "getting", ~Refused(r), StartWrite(r)
    PROVE  GuardExclusive'
  <1>1. req' = [req EXCEPT ![r].pc = "writing", ![r].write = "new"]
        /\ guards' = guards \cup HeldBy(r)
    BY DEF StartWrite, HeldBy
  <1>2. ~Writing(r) /\ Writing(r)' /\ HeldBy(r)' = HeldBy(r)
    BY <1>1 DEF ControlInv, ControlTypeOK, RequestState, Writing, HeldBy
  <1>3. \A q \in Requests \ {r} : (Writing(q)' <=> Writing(q)) /\ HeldBy(q)' = HeldBy(q)
    BY <1>1 DEF ControlInv, ControlTypeOK, Writing, HeldBy
  <1>4. HeldBy(r) \cap guards = {}
    BY DEF Refused, HeldBy
  <1>5. guards = UNION {HeldBy(q) : q \in {w \in Requests : Writing(w)}}
    BY DEF ControlInv, GuardExclusive, HeldBy
  <1>6. guards' = UNION {HeldBy(q)' : q \in {w \in Requests : Writing(w)'}}
    BY <1>1, <1>2, <1>3, <1>5
  <1>7. \A q \in Requests : Writing(q) => HeldBy(q) \cap HeldBy(r) = {}
    BY <1>4, <1>5
  <1>8. \A p, q \in Requests :
          p # q /\ Writing(p)' /\ Writing(q)' => HeldBy(p)' \cap HeldBy(q)' = {}
    <2> SUFFICES ASSUME NEW p \in Requests, NEW q \in Requests, p # q, Writing(p)', Writing(q)'
                 PROVE  HeldBy(p)' \cap HeldBy(q)' = {}
      OBVIOUS
    <2>1. CASE p = r
      BY <2>1, <1>2, <1>3, <1>7
    <2>2. CASE q = r
      BY <2>2, <1>2, <1>3, <1>7
    <2>3. CASE p # r /\ q # r
      BY <2>3, <1>3 DEF ControlInv, GuardExclusive, HeldBy
    <2> QED BY <2>1, <2>2, <2>3
  <1> QED BY <1>6, <1>8 DEF GuardExclusive, HeldBy

\* No step lets two requests hold the guard of one pair.
LEMMA GuardNext == ControlInv /\ [ReactionsNext]_vars => GuardExclusive'
  <1> SUFFICES ASSUME ControlInv, [ReactionsNext]_vars PROVE GuardExclusive'
    OBVIOUS
  <1> GuardExclusive
    BY DEF ControlInv
  <1>1. ASSUME NEW r \in Requests, Submit(r) PROVE GuardExclusive'
    <2>1. PICK v \in Visitors, batch \in Batches :
            req' = [req EXCEPT ![r] = [NoRequest EXCEPT !.pc = "getting", !.who = v,
                                                        !.batch = batch, !.n = submits + 1]]
      BY <1>1 DEF Submit
    <2>2. ~Writing(r) /\ ~Writing(r)' /\ \A q \in Requests \ {r} : req'[q] = req[q]
      BY <1>1, <2>1 DEF Submit, Writing, ControlInv, ControlTypeOK, NoRequest
    <2>3. guards' = guards
      BY <1>1 DEF Submit
    <2> QED BY <2>2, <2>3, SameWriters DEF Writing, HeldBy
  <1>2. ASSUME NEW r \in Requests, Decide(r) PROVE GuardExclusive'
    <2>1. CASE StartWrite(r) /\ ~Refused(r)
      BY <1>2, <2>1, WriterJoins DEF Decide
    <2>2. CASE Answer(r) /\ UNCHANGED guards
      <3>1. ~Writing(r) /\ ~Writing(r)' /\ \A q \in Requests \ {r} : req'[q] = req[q]
        BY <1>2, <2>2 DEF Decide, Answer, Writing, ControlInv, ControlTypeOK, NoRequest
      <3> QED BY <2>2, <3>1, SameWriters DEF Writing, HeldBy
    <2> QED BY <1>2, <2>1, <2>2 DEF Decide
  <1>3. ASSUME NEW r \in Requests, Land(r) PROVE GuardExclusive'
    <2>1. req' = [req EXCEPT ![r].write = "landed"] /\ guards' = guards
      BY <1>3 DEF Land
    <2>2. \A q \in Requests : /\ req'[q].pc = req[q].pc
                              /\ req'[q].who = req[q].who /\ req'[q].batch = req[q].batch
      BY <2>1 DEF ControlInv, ControlTypeOK, RequestState
    <2> QED BY <2>1, <2>2, SameWriters DEF Writing, HeldBy
  <1>4. ASSUME NEW r \in Requests, RespondOk(r) \/ InsertFails(r) PROVE GuardExclusive'
    <2>1. Answer(r) /\ ReleaseGuards(r)
      BY <1>4 DEF RespondOk, InsertFails
    <2>2. Writing(r)
      BY <1>4 DEF RespondOk, InsertFails, ControlInv, InsertIsWriting
    <2> QED BY <2>1, <2>2, WriterLeaves
  <1>5. CASE Clock
    <2>1. \A q \in Requests : /\ req'[q].pc = req[q].pc
                              /\ req'[q].who = req[q].who /\ req'[q].batch = req[q].batch
      BY <1>5 DEF Clock, ControlInv, ControlTypeOK, RequestState
    <2>2. guards' = guards
      BY <1>5 DEF Clock
    <2> QED BY <2>1, <2>2, SameWriters DEF Writing, HeldBy
  <1>6. CASE Restart
    <2>1. guards' = {} /\ \A q \in Requests : ~Writing(q)'
      BY <1>6 DEF Restart, Writing, NoRequest
    <2> QED BY <2>1 DEF GuardExclusive
  <1>7. ASSUME UNCHANGED <<req, guards>> PROVE GuardExclusive'
    BY <1>7, SameWriters DEF Writing, HeldBy
  <1> QED
    BY <1>1, <1>2, <1>3, <1>4, <1>5, <1>6, <1>7
    DEF ReactionsNext, SheetServes, RefreshEnds, RefreshFails, PageStep, OrphanLands, Shop,
        requestVars, vars

\* The requests keep to the control the guards give them.
LEMMA ControlHolds == ReactionsSpec => []ControlInv
  <1>1. ReactionsInit => ControlInv
    <2>1. ReactionsInit => GuardExclusive /\ InsertIsWriting
      BY DEF ReactionsInit, GuardExclusive, InsertIsWriting, Writing, NoRequest
    <2> QED BY <2>1, ControlTypeInit DEF ControlInv
  <1>2. ControlInv /\ [ReactionsNext]_vars => ControlInv'
    BY ControlTypeNext, InsertNext, GuardNext DEF ControlInv
  <1> QED BY <1>1, <1>2, PTL DEF ReactionsSpec

\* Two writes in flight never share a pair, and no guard leaks.
THEOREM GuardExclusiveHolds == ReactionsSpec => []GuardExclusive
  <1>1. ControlInv => GuardExclusive
    BY DEF ControlInv
  <1> QED BY <1>1, ControlHolds, PTL

-----------------------------------------------------------------------------
(* what the loops of the code compute                                      *)

\* A set of numbers that is not empty has a least one.
LEMMA LeastOfNats ==
    ASSUME NEW S \in SUBSET Nat, S # {}
    PROVE  \E x \in S : \A y \in S : x <= y
  <1>1. IsWellFoundedOn(OpToRel(<, Nat), Nat)
    BY NatLessThanWellFounded
  <1>2. PICK x \in S : \A y \in S : ~(<<y, x>> \in OpToRel(<, Nat))
    BY <1>1, WFMin
  <1>3. \A y \in S : ~(y < x)
    BY <1>2 DEF OpToRel
  <1> QED BY <1>3

\* Induction up to n, over the set of the numbers it is true of.
LEMMA UpTo ==
    ASSUME NEW n \in Nat, NEW S, 0 \in S, \A k \in 1..n : k - 1 \in S => k \in S
    PROVE  \A k \in 0..n : k \in S
  <1> SUFFICES ASSUME NEW k \in 0..n, k \notin S PROVE FALSE
    OBVIOUS
  <1>1. {j \in 0..n : j \notin S} # {} /\ {j \in 0..n : j \notin S} \in SUBSET Nat
    OBVIOUS
  <1>2. PICK m \in {j \in 0..n : j \notin S} : \A j \in {i \in 0..n : i \notin S} : m <= j
    BY <1>1, LeastOfNats
  <1>3. m \in 1..n
    BY <1>2
  <1>4. m - 1 \in 0..n /\ ~(m <= m - 1)
    BY <1>3
  <1>5. m - 1 \in S
    BY <1>2, <1>4
  <1> QED BY <1>2, <1>3, <1>5

\* The values of a loop before it and after each turn.
Loop(g, n, X, first, step) ==
    g \in [0..n -> X] /\ g[0] = first /\ \A k \in 1..n : g[k] = step[<<g[k - 1], k>>]

\* What a loop computes exists.
LEMMA Iterates ==
    ASSUME NEW n \in Nat, NEW X, NEW first \in X, NEW step \in [X \X (1..n) -> X]
    PROVE  \E g : Loop(g, n, X, first, step)
  <1> DEFINE Is(g, m) == g \in [0..m -> X] /\ g[0] = first /\ \A k \in 1..m : g[k] = step[<<g[k - 1], k>>]
             S == {m \in 0..n : \E g : Is(g, m)}
  <1>1. 0 \in S
    <2>1. PICK g : g = [k \in 0..0 |-> first]
      OBVIOUS
    <2>2. Is(g, 0)
      BY <2>1
    <2> QED BY <2>2
  <1>2. ASSUME NEW m \in 1..n, m - 1 \in S PROVE m \in S
    <2>1. PICK f : Is(f, m - 1)
      BY <1>2
    <2>2. PICK x : x = step[<<f[m - 1], m>>]
      OBVIOUS
    <2>3. PICK g : g = [k \in 0..m |-> IF k = m THEN x ELSE f[k]]
      OBVIOUS
    <2>4. m - 1 \in 0..(m - 1) /\ f[m - 1] \in X
      BY <1>2, <2>1
    <2>5. x \in X
      BY <2>2, <2>4
    <2>6. g[m] = x /\ \A k \in 0..(m - 1) : g[k] = f[k]
      BY <1>2, <2>3
    <2>7. g \in [0..m -> X]
      <3>1. ASSUME NEW k \in 0..m PROVE (IF k = m THEN x ELSE f[k]) \in X
        <4>1. k # m => k \in 0..(m - 1)
          BY <1>2
        <4> QED BY <2>1, <2>5, <4>1
      <3> QED BY <2>3, <3>1
    <2>8. g[0] = first
      BY <1>2, <2>1, <2>6
    <2>9. ASSUME NEW k \in 1..m PROVE g[k] = step[<<g[k - 1], k>>]
      <3>1. CASE k = m
        BY <2>2, <2>4, <2>6, <3>1
      <3>2. CASE k # m
        <4>1. k \in 1..(m - 1) /\ k \in 0..(m - 1) /\ k - 1 \in 0..(m - 1)
          BY <1>2, <3>2
        <4> QED BY <2>1, <2>6, <4>1
      <3> QED BY <3>1, <3>2
    <2>10. Is(g, m)
      BY <2>7, <2>8, <2>9
    <2> HIDE DEF Is
    <2> QED BY <1>2, <2>10
  <1>3. n \in S
    <2> HIDE DEF S
    <2>1. \A k \in 0..n : k \in S
      BY <1>1, <1>2, UpTo
    <2> QED BY <2>1
  <1> QED BY <1>3 DEF Loop

\* The turns of the loop of Among().
LEMMA AmongSteps ==
    ASSUME NEW T, NEW ds \in Seq(T), NEW S
    PROVE  \E f : /\ f[Len(ds)] = Among(ds, S) /\ f[0] = <<>>
                  /\ \A k \in 1..Len(ds) :
                        f[k] = IF ds[k] \in S THEN Append(f[k - 1], ds[k]) ELSE f[k - 1]
  <1> DEFINE n == Len(ds)
             Rec(f) == f = [k \in 0..n |->
                              IF k = 0 THEN <<>> ELSE IF ds[k] \in S THEN Append(f[k - 1], ds[k]) ELSE f[k - 1]]
             f == CHOOSE g : Rec(g)
  <1>1. n \in Nat /\ \A k \in 1..n : ds[k] \in T
    BY LenProperties, ElementOfSeq
  <1>2. \E g : Rec(g)
    <2> DEFINE step == [c \in Seq(T) \X (1..n) |-> IF ds[c[2]] \in S THEN Append(c[1], ds[c[2]]) ELSE c[1]]
    <2>1. step \in [Seq(T) \X (1..n) -> Seq(T)]
      BY <1>1, AppendProperties
    <2>2. \A s \in Seq(T), k \in 1..n : step[<<s, k>>] = IF ds[k] \in S THEN Append(s, ds[k]) ELSE s
      OBVIOUS
    <2>x. PICK X : X = Seq(T)
      OBVIOUS
    <2>y. PICK first : first = <<>>
      OBVIOUS
    <2>3. X = Seq(T) /\ first = <<>> /\ first \in X
      BY <2>x, <2>y
    <2> HIDE DEF step, n
    <2>4. step \in [X \X (1..n) -> X] /\ n \in Nat
      BY <1>1, <2>1, <2>3
    <2>e. \E g : Loop(g, n, X, first, step)
      BY <2>3, <2>4, Iterates
    <2>5. PICK g \in [0..n -> X] : g[0] = first /\ \A k \in 1..n : g[k] = step[<<g[k - 1], k>>]
      BY <2>e DEF Loop
    <2> USE DEF n
    <2>6. ASSUME NEW k \in 0..n
          PROVE  g[k] = IF k = 0 THEN <<>> ELSE IF ds[k] \in S THEN Append(g[k - 1], ds[k]) ELSE g[k - 1]
      <3>1. CASE k = 0
        BY <2>3, <2>5, <3>1
      <3>2. CASE k # 0
        <4>1. k \in 1..n /\ k - 1 \in 0..n
          BY <1>1, <3>2
        <4>2. g[k - 1] \in Seq(T)
          BY <2>3, <2>5, <4>1
        <4> QED BY <2>2, <2>5, <3>2, <4>1, <4>2
      <3> QED BY <3>1, <3>2
    <2>7. Rec(g)
      BY <2>5, <2>6
    <2> QED BY <2>7
  <1>3. Rec(f)
    <2> HIDE DEF Rec
    <2> QED BY <1>2
  <1>4. Among(ds, S) = f[n]
    BY Zenon DEF Among
  <1> HIDE DEF f
  <1>5. f[0] = <<>> /\ \A k \in 1..n : f[k] = IF ds[k] \in S THEN Append(f[k - 1], ds[k]) ELSE f[k - 1]
    <2>1. \A k \in 0..n :
             f[k] = IF k = 0 THEN <<>> ELSE IF ds[k] \in S THEN Append(f[k - 1], ds[k]) ELSE f[k - 1]
      BY <1>3, Zenon
    <2>2. 0 \in 0..n /\ \A k \in 1..n : k \in 0..n /\ k # 0
      BY <1>1
    <2> QED BY <2>1, <2>2, Zenon
  <1> QED BY <1>4, <1>5

\* Among() keeps elements of the sequence that are in the set, and no others.
LEMMA AmongFacts ==
    ASSUME NEW T, NEW ds \in Seq(T), NEW S
    PROVE  /\ Among(ds, S) \in Seq(T)
           /\ \A j \in 1..Len(Among(ds, S)) :
                 Among(ds, S)[j] \in S /\ \E k \in 1..Len(ds) : Among(ds, S)[j] = ds[k]
  <1> DEFINE n == Len(ds)
             Sane(s) == /\ s \in Seq(T)
                        /\ \A j \in 1..Len(s) : s[j] \in S /\ \E k \in 1..n : s[j] = ds[k]
  <1>1. n \in Nat /\ \A k \in 1..n : ds[k] \in T
    BY LenProperties, ElementOfSeq
  <1>2. PICK f : /\ f[n] = Among(ds, S) /\ f[0] = <<>>
                 /\ \A k \in 1..n : f[k] = IF ds[k] \in S THEN Append(f[k - 1], ds[k]) ELSE f[k - 1]
    BY AmongSteps
  <1>4. Among(ds, S) = f[n]
    BY <1>2
  <1>5. f[0] = <<>> /\ \A k \in 1..n : f[k] = IF ds[k] \in S THEN Append(f[k - 1], ds[k]) ELSE f[k - 1]
    BY <1>2
  <1>6. Sane(f[0])
    BY <1>5
  <1>7. ASSUME NEW k \in 1..n, Sane(f[k - 1]) PROVE Sane(f[k])
    <2>1. CASE ds[k] \notin S
      BY <1>5, <1>7, <2>1
    <2>2. CASE ds[k] \in S
      <3>1. PICK s : s = f[k - 1]
        OBVIOUS
      <3>2. PICK x : x = Append(s, ds[k])
        OBVIOUS
      <3>3. s \in Seq(T) /\ f[k] = x
        BY <1>5, <1>7, <2>2, <3>1, <3>2
      <3>4. /\ x \in Seq(T) /\ Len(x) = Len(s) + 1 /\ Len(s) \in Nat
            /\ x[Len(s) + 1] = ds[k]
            /\ \A j \in 1..Len(s) : x[j] = s[j]
        BY <1>1, <3>2, <3>3, AppendProperties, LenProperties
      <3>5. ASSUME NEW j \in 1..Len(x) PROVE x[j] \in S /\ \E i \in 1..n : x[j] = ds[i]
        <4>1. CASE j = Len(s) + 1
          BY <2>2, <3>4, <4>1
        <4>2. CASE j # Len(s) + 1
          <5>1. j \in 1..Len(s)
            BY <3>4, <4>2
          <5> QED BY <1>7, <3>1, <3>4, <5>1
        <4> QED BY <4>1, <4>2
      <3> QED BY <3>3, <3>4, <3>5
    <2> QED BY <2>1, <2>2
  <1>8. Sane(f[n])
    <2> DEFINE Good == {k \in 0..n : Sane(f[k])}
    <2> HIDE DEF Sane
    <2>1. 0 \in Good
      BY <1>1, <1>6
    <2>2. ASSUME NEW k \in 1..n, k - 1 \in Good PROVE k \in Good
      BY <1>7, <2>2
    <2> HIDE DEF Good
    <2>3. \A k \in 0..n : k \in Good
      BY <1>1, <2>1, <2>2, UpTo
    <2>4. n \in Good
      BY <1>1, <2>3
    <2> QED BY <2>4 DEF Good
  <1> QED BY <1>4, <1>8

-----------------------------------------------------------------------------
(* deltas applied to the tally                                             *)

\* The likes of a product after one delta of it.
Liked(n, d) == (IF d.prev = "like" /\ n > 0 THEN n - 1 ELSE n) + (IF d.next = "like" THEN 1 ELSE 0)

OneEach(ds) == \A j, k \in 1..Len(ds) : ds[j].product = ds[k].product => j = k

\* What the first m deltas made of tally t.
AfterFirst(t, ds, m, s) ==
    /\ s \in Tally
    /\ \A v \in Visitors, p \in Products :
          (\A k \in 1..m : <<ds[k].who, ds[k].product>> # <<v, p>>) => s.vote[v][p] = t.vote[v][p]
    /\ \A p \in Products : (\A k \in 1..m : ds[k].product # p) => s.likes[p] = t.likes[p]
    /\ OneEach(ds) => \A k \in 1..m : /\ s.vote[ds[k].who][ds[k].product] = ds[k].next
                                      /\ s.likes[ds[k].product] = Liked(t.likes[ds[k].product], ds[k])

\* The parts of a tally.
LEMMA TallyFacts ==
    ASSUME NEW t \in Tally
    PROVE  /\ \A v \in Visitors, p \in Products : t.vote[v][p] \in Reaction
           /\ \A p \in Products : t.likes[p] \in Nat
           /\ t.vote \in [Visitors -> [Products -> Reaction]] /\ t.likes \in [Products -> Nat]
  BY DEF Tally

\* The parts of a delta.
LEMMA DeltaFacts ==
    ASSUME NEW d \in Delta
    PROVE  /\ d.who \in Visitors /\ d.product \in Products /\ d.prev \in Reaction /\ d.next \in Reaction
           /\ d.age \in Age /\ d.n \in 1..MaxSubmits
  BY DEF Delta

\* Likes stay natural numbers.
LEMMA LikedType == ASSUME NEW n \in Nat, NEW d PROVE Liked(n, d) \in Nat
  <1>1. PICK less : less = IF d.prev = "like" /\ n > 0 THEN n - 1 ELSE n
    OBVIOUS
  <1>2. less \in Nat
    BY <1>1
  <1>3. PICK more : more = IF d.next = "like" THEN 1 ELSE 0
    OBVIOUS
  <1>4. more \in Nat
    BY <1>3
  <1> QED BY <1>1, <1>2, <1>3, <1>4 DEF Liked

\* What one delta makes of tally t.
AfterOne(t, d, u) ==
    /\ u \in Tally
    /\ \A v \in Visitors, p \in Products :
          u.vote[v][p] = IF v = d.who /\ p = d.product THEN d.next ELSE t.vote[v][p]
    /\ \A p \in Products : u.likes[p] = IF p = d.product THEN Liked(t.likes[p], d) ELSE t.likes[p]

\* applyDelta() changes one vote and one count.
LEMMA ApplyFacts == ASSUME NEW t \in Tally, NEW d \in Delta PROVE AfterOne(t, d, applyDelta(t, d))
  <1>1. PICK who, product, next : who = d.who /\ product = d.product /\ next = d.next
    OBVIOUS
  <1>2. PICK vote, likes : vote = t.vote /\ likes = t.likes
    OBVIOUS
  <1>3. /\ who \in Visitors /\ product \in Products /\ next \in Reaction
        /\ vote \in [Visitors -> [Products -> Reaction]] /\ likes \in [Products -> Nat]
    BY <1>1, <1>2, TallyFacts, DeltaFacts
  <1>4. PICK x : x = Liked(likes[product], d)
    OBVIOUS
  <1>5. x \in Nat
    BY <1>3, <1>4, LikedType
  <1>6. applyDelta(t, d) = [likes |-> [likes EXCEPT ![product] = x],
                            vote  |-> [vote EXCEPT ![who] = [vote[who] EXCEPT ![product] = next]]]
    BY <1>1, <1>2, <1>4, Zenon DEF applyDelta, Liked
  <1>7. PICK row : row = [vote[who] EXCEPT ![product] = next]
    OBVIOUS
  <1>8. row \in [Products -> Reaction] /\ \A p \in Products : row[p] = IF p = product THEN next ELSE vote[who][p]
    BY <1>3, <1>7
  <1>9. PICK newVote, newLikes : newVote = [vote EXCEPT ![who] = row] /\ newLikes = [likes EXCEPT ![product] = x]
    OBVIOUS
  <1>10. /\ newVote \in [Visitors -> [Products -> Reaction]] /\ newLikes \in [Products -> Nat]
         /\ \A v \in Visitors : newVote[v] = IF v = who THEN row ELSE vote[v]
         /\ \A p \in Products : newLikes[p] = IF p = product THEN x ELSE likes[p]
    BY <1>3, <1>5, <1>8, <1>9
  <1>11. applyDelta(t, d) = [likes |-> newLikes, vote |-> newVote]
    BY <1>6, <1>7, <1>9, Zenon
  <1>12. applyDelta(t, d) \in Tally /\ applyDelta(t, d).vote = newVote /\ applyDelta(t, d).likes = newLikes
    BY <1>10, <1>11 DEF Tally
  <1>13. ASSUME NEW v \in Visitors, NEW p \in Products
         PROVE  newVote[v][p] = IF v = who /\ p = product THEN next ELSE vote[v][p]
    BY <1>8, <1>10
  <1>14. ASSUME NEW p \in Products
         PROVE  newLikes[p] = IF p = product THEN Liked(likes[p], d) ELSE likes[p]
    BY <1>4, <1>10
  <1> QED BY <1>1, <1>2, <1>12, <1>13, <1>14 DEF AfterOne

\* The first m deltas, then the next one.
LEMMA OneMore ==
    ASSUME NEW t \in Tally, NEW ds \in Seq(Delta), NEW m \in 1..Len(ds), NEW s, AfterFirst(t, ds, m - 1, s)
    PROVE  AfterFirst(t, ds, m, applyDelta(s, ds[m]))
  <1>1. PICK d : d = ds[m]
    OBVIOUS
  <1>2. d \in Delta /\ s \in Tally /\ \A k \in 1..Len(ds) : ds[k] \in Delta
    BY <1>1, ElementOfSeq DEF AfterFirst
  <1>3. PICK u : u = applyDelta(s, d)
    OBVIOUS
  <1>4. /\ u \in Tally
        /\ \A v \in Visitors, p \in Products :
              u.vote[v][p] = IF v = d.who /\ p = d.product THEN d.next ELSE s.vote[v][p]
        /\ \A p \in Products : u.likes[p] = IF p = d.product THEN Liked(s.likes[p], d) ELSE s.likes[p]
    <2>1. AfterOne(s, d, u)
      BY <1>2, <1>3, ApplyFacts
    <2> QED BY <2>1 DEF AfterOne
  <1>5. Len(ds) \in Nat /\ m \in Nat /\ m \in 1..m /\ \A k \in 1..(m - 1) : k \in 1..m /\ k \in 1..Len(ds) /\ k # m
    BY LenProperties
  <1>6. ASSUME NEW v \in Visitors, NEW p \in Products, \A k \in 1..m : <<ds[k].who, ds[k].product>> # <<v, p>>
        PROVE  u.vote[v][p] = t.vote[v][p]
    <2>1. s.vote[v][p] = t.vote[v][p]
      BY <1>5, <1>6 DEF AfterFirst
    <2>2. ~(v = d.who /\ p = d.product)
      BY <1>1, <1>5, <1>6
    <2> QED BY <1>4, <2>1, <2>2
  <1>7. ASSUME NEW p \in Products, \A k \in 1..m : ds[k].product # p
        PROVE  u.likes[p] = t.likes[p]
    <2>1. s.likes[p] = t.likes[p]
      BY <1>5, <1>7 DEF AfterFirst
    <2>2. p # d.product
      BY <1>1, <1>5, <1>7
    <2> QED BY <1>4, <2>1, <2>2
  <1>8. ASSUME OneEach(ds), NEW k \in 1..m
        PROVE  /\ u.vote[ds[k].who][ds[k].product] = ds[k].next
               /\ u.likes[ds[k].product] = Liked(t.likes[ds[k].product], ds[k])
    <2>1. d.who \in Visitors /\ d.product \in Products
      BY <1>2, DeltaFacts
    <2>2. CASE k = m
      <3>1. \A j \in 1..(m - 1) : ds[j].product # d.product
        BY <1>1, <1>5, <1>8 DEF OneEach
      <3>2. s.likes[d.product] = t.likes[d.product]
        BY <2>1, <3>1 DEF AfterFirst
      <3> QED BY <1>1, <1>4, <2>1, <2>2, <3>2
    <2>3. CASE k # m
      <3>1. k \in 1..(m - 1) /\ k \in 1..Len(ds)
        BY <1>5, <2>3
      <3>2. /\ s.vote[ds[k].who][ds[k].product] = ds[k].next
            /\ s.likes[ds[k].product] = Liked(t.likes[ds[k].product], ds[k])
        BY <1>8, <3>1 DEF AfterFirst
      <3>3. ds[k].product # d.product
        BY <1>1, <1>8, <2>3, <3>1 DEF OneEach
      <3>4. ds[k].who \in Visitors /\ ds[k].product \in Products
        BY <1>2, <3>1, DeltaFacts
      <3> QED BY <1>4, <3>2, <3>3, <3>4
    <2> QED BY <2>2, <2>3
  <1>9. AfterFirst(t, ds, m, u)
    BY <1>4, <1>6, <1>7, <1>8 DEF AfterFirst
  <1> QED BY <1>1, <1>3, <1>9

\* What a loop of applyDelta() makes of a tally.
LEMMA AppliedFacts ==
    ASSUME NEW t \in Tally, NEW ds \in Seq(Delta)
    PROVE  AfterFirst(t, ds, Len(ds), AppliedAll(t, ds))
  <1> DEFINE n == Len(ds)
             Rec(f) == f = [k \in 0..n |-> IF k = 0 THEN t ELSE applyDelta(f[k - 1], ds[k])]
             f == CHOOSE g : Rec(g)
  <1>1. n \in Nat /\ \A k \in 1..n : ds[k] \in Delta
    BY LenProperties, ElementOfSeq
  <1>2. \E g : Rec(g)
    <2> DEFINE step == [c \in Tally \X (1..n) |-> applyDelta(c[1], ds[c[2]])]
    <2>1. \A s \in Tally, k \in 1..n : applyDelta(s, ds[k]) \in Tally
      BY <1>1, ApplyFacts DEF AfterOne
    <2>2. step \in [Tally \X (1..n) -> Tally]
      BY <2>1
    <2>3. \A s \in Tally, k \in 1..n : step[<<s, k>>] = applyDelta(s, ds[k])
      OBVIOUS
    <2> HIDE DEF step, n
    <2>4. \E g : Loop(g, n, Tally, t, step)
      BY <1>1, <2>2, Iterates
    <2>5. PICK g \in [0..n -> Tally] : g[0] = t /\ \A k \in 1..n : g[k] = step[<<g[k - 1], k>>]
      BY <2>4 DEF Loop
    <2>6. ASSUME NEW k \in 0..n
          PROVE  g[k] = IF k = 0 THEN t ELSE applyDelta(g[k - 1], ds[k])
      <3>1. CASE k = 0
        BY <2>5, <3>1
      <3>2. CASE k # 0
        <4>1. k \in 1..n /\ k - 1 \in 0..n
          BY <1>1, <3>2
        <4>2. g[k - 1] \in Tally
          BY <2>5, <4>1
        <4> QED BY <2>3, <2>5, <3>2, <4>1, <4>2
      <3> QED BY <3>1, <3>2
    <2>7. Rec(g)
      BY <2>5, <2>6
    <2> QED BY <2>7
  <1>3. Rec(f)
    <2> HIDE DEF Rec
    <2> QED BY <1>2
  <1>4. AppliedAll(t, ds) = f[n]
    BY Zenon DEF AppliedAll
  <1> HIDE DEF f
  <1>5. f[0] = t /\ \A k \in 1..n : f[k] = applyDelta(f[k - 1], ds[k])
    <2>1. \A k \in 0..n : f[k] = IF k = 0 THEN t ELSE applyDelta(f[k - 1], ds[k])
      BY <1>3, Zenon
    <2>2. 0 \in 0..n /\ \A k \in 1..n : k \in 0..n /\ k # 0
      BY <1>1
    <2> QED BY <2>1, <2>2, Zenon
  <1>6. AfterFirst(t, ds, 0, f[0])
    BY <1>5 DEF AfterFirst
  <1> DEFINE Good == {k \in 0..n : AfterFirst(t, ds, k, f[k])}
  <1>7. 0 \in Good
    BY <1>1, <1>6
  <1>8. ASSUME NEW k \in 1..n, k - 1 \in Good PROVE k \in Good
    <2>1. AfterFirst(t, ds, k - 1, f[k - 1])
      BY <1>8
    <2>2. AfterFirst(t, ds, k, f[k])
      BY <1>5, <2>1, OneMore
    <2> QED BY <1>8, <2>2
  <1> HIDE DEF Good
  <1>9. \A k \in 0..n : k \in Good
    BY <1>1, <1>7, <1>8, UpTo
  <1>10. n \in Good
    BY <1>1, <1>9
  <1> QED BY <1>4, <1>10 DEF Good

-----------------------------------------------------------------------------
(* the loop over a batch                                                   *)

Plan == [tally : Tally, deltas : Seq(Delta)]

\* A delta of the plan for the first m items of a batch: what it finds is what memory held before.
Plans(d, who, batch, n, m) ==
    /\ d.n = n /\ d.who = who /\ d.age = 0 /\ d.prev # d.next
    /\ d.prev = tally.vote[who][d.product]
    /\ \E i \in 1..m : batch[i].product = d.product

PlanOK(who, batch, n, m, plan) ==
    /\ plan \in Plan
    /\ \A j \in 1..Len(plan.deltas) : Plans(plan.deltas[j], who, batch, n, m)
    /\ OneEach(plan.deltas)
    /\ AfterFirst(tally, plan.deltas, Len(plan.deltas), plan.tally)

\* A body is a sequence of intents that names no product twice.
LEMMA BodyFacts ==
    ASSUME NEW batch \in Batches
    PROVE  /\ Len(batch) \in Nat /\ DOMAIN batch = 1..Len(batch)
           /\ \A k \in 1..Len(batch) : batch[k].reaction \in Reaction
           /\ \A j, k \in 1..Len(batch) : batch[j].product = batch[k].product => j = k
  <1>1. batch \in Seq({batch[k] : k \in DOMAIN batch})
    BY BatchConstants
  <1>2. Len(batch) \in Nat /\ DOMAIN batch = 1..Len(batch)
    BY <1>1, LenProperties
  <1> QED BY <1>2, BatchConstants

\* A delta appended is applied last.
LEMMA AppendedDelta ==
    ASSUME NEW t \in Tally, NEW ds \in Seq(Delta), NEW d \in Delta, NEW s,
           AfterFirst(t, ds, Len(ds), s), OneEach(ds), \A k \in 1..Len(ds) : ds[k].product # d.product
    PROVE  /\ Append(ds, d) \in Seq(Delta) /\ Len(Append(ds, d)) = Len(ds) + 1
           /\ Append(ds, d)[Len(ds) + 1] = d /\ \A k \in 1..Len(ds) : Append(ds, d)[k] = ds[k]
           /\ OneEach(Append(ds, d))
           /\ AfterFirst(t, Append(ds, d), Len(ds) + 1, applyDelta(s, d))
  <1>1. PICK es, n : es = Append(ds, d) /\ n = Len(ds)
    OBVIOUS
  <1>2. /\ es \in Seq(Delta) /\ Len(es) = n + 1 /\ n \in Nat
        /\ es[n + 1] = d /\ \A k \in 1..n : es[k] = ds[k]
    BY <1>1, AppendProperties, LenProperties
  <1>3. OneEach(es)
    <2> SUFFICES ASSUME NEW j \in 1..(n + 1), NEW k \in 1..(n + 1), es[j].product = es[k].product
                 PROVE  j = k
      BY <1>2 DEF OneEach
    <2>1. j # n + 1 => j \in 1..n
      BY <1>2
    <2>2. k # n + 1 => k \in 1..n
      BY <1>2
    <2>3. CASE j # n + 1 /\ k # n + 1
      BY <1>1, <1>2, <2>1, <2>2, <2>3 DEF OneEach
    <2>4. CASE j = n + 1 /\ k # n + 1
      BY <1>1, <1>2, <2>2, <2>4
    <2>5. CASE j # n + 1 /\ k = n + 1
      BY <1>1, <1>2, <2>1, <2>5
    <2> QED BY <2>3, <2>4, <2>5
  <1>4. AfterFirst(t, es, n, s)
    <2>1. s \in Tally
      BY DEF AfterFirst
    <2>2. ASSUME NEW v \in Visitors, NEW p \in Products, \A k \in 1..n : <<es[k].who, es[k].product>> # <<v, p>>
          PROVE  s.vote[v][p] = t.vote[v][p]
      BY <1>1, <1>2, <2>2 DEF AfterFirst
    <2>3. ASSUME NEW p \in Products, \A k \in 1..n : es[k].product # p
          PROVE  s.likes[p] = t.likes[p]
      BY <1>1, <1>2, <2>3 DEF AfterFirst
    <2>4. ASSUME NEW k \in 1..n
          PROVE  /\ s.vote[es[k].who][es[k].product] = es[k].next
                 /\ s.likes[es[k].product] = Liked(t.likes[es[k].product], es[k])
      BY <1>1, <1>2, <2>4 DEF AfterFirst
    <2> QED BY <2>1, <2>2, <2>3, <2>4 DEF AfterFirst
  <1>5. n + 1 \in 1..Len(es) /\ (n + 1) - 1 = n
    BY <1>2
  <1>6. AfterFirst(t, es, (n + 1) - 1, s)
    BY <1>4, <1>5
  <1>7. AfterFirst(t, es, n + 1, applyDelta(s, es[n + 1]))
    BY <1>2, <1>5, <1>6, OneMore
  <1> QED BY <1>1, <1>2, <1>3, <1>7

\* One item more keeps the plan what it should be.
LEMMA PlanItemKeeps ==
    ASSUME tally \in Tally, NEW who \in Visitors, NEW batch \in Batches, NEW n \in 1..MaxSubmits,
           NEW m \in 1..Len(batch), NEW plan, PlanOK(who, batch, n, m - 1, plan)
    PROVE  PlanOK(who, batch, n, m, PlanItem(plan, who, batch[m], n))
  <1>1. PICK item : item = batch[m]
    OBVIOUS
  <1>2. /\ Len(batch) \in Nat /\ m \in Nat /\ m \in 1..m /\ item.reaction \in Reaction
        /\ \A i \in 1..(m - 1) : i \in 1..m /\ batch[i].product # item.product
    BY <1>1, BodyFacts
  <1>3. PICK t, ds : t = plan.tally /\ ds = plan.deltas
    OBVIOUS
  <1>4. /\ t \in Tally /\ ds \in Seq(Delta) /\ OneEach(ds) /\ AfterFirst(tally, ds, Len(ds), t)
        /\ plan = [tally |-> t, deltas |-> ds]
    BY <1>3 DEF PlanOK, Plan
  <1>5. \A j \in 1..Len(ds) : Plans(ds[j], who, batch, n, m - 1)
    BY <1>3, Zenon DEF PlanOK
  <1>6. \A j \in 1..Len(ds) : Plans(ds[j], who, batch, n, m) /\ ds[j].product # item.product
    BY <1>2, <1>5 DEF Plans
  <1>7. PICK previous : previous = t.vote[who][item.product]
    OBVIOUS
  <1>8. CASE item.product \notin Products \/ item.reaction = previous
    <2>1. PlanItem(plan, who, item, n) = plan
      BY <1>3, <1>7, <1>8 DEF PlanItem
    <2>2. PlanOK(who, batch, n, m, plan)
      <3>1. \A j \in 1..Len(plan.deltas) : Plans(plan.deltas[j], who, batch, n, m)
        BY <1>3, <1>6
      <3> QED BY <3>1 DEF PlanOK
    <2> QED BY <1>1, <2>1, <2>2
  <1>9. CASE item.product \in Products /\ item.reaction # previous
    <2>1. PICK d : d = [n |-> n, who |-> who, product |-> item.product,
                        prev |-> previous, next |-> item.reaction, age |-> 0]
      OBVIOUS
    <2>2. previous \in Reaction /\ previous = tally.vote[who][item.product]
      <3>1. previous \in Reaction
        BY <1>4, <1>7, <1>9, TallyFacts
      <3>2. \A k \in 1..Len(ds) : <<ds[k].who, ds[k].product>> # <<who, item.product>>
        BY <1>6
      <3>3. t.vote[who][item.product] = tally.vote[who][item.product]
        BY <1>4, <1>9, <3>2 DEF AfterFirst
      <3> QED BY <1>7, <3>1, <3>3
    <2>3. d \in Delta
      BY <1>2, <1>9, <2>1, <2>2, CacheConstants DEF Delta, Age
    <2>4. Plans(d, who, batch, n, m)
      BY <1>1, <1>2, <1>9, <2>1, <2>2 DEF Plans
    <2>5. PICK es : es = Append(ds, d)
      OBVIOUS
    <2>6. PICK u : u = applyDelta(t, d)
      OBVIOUS
    <2>7. PlanItem(plan, who, item, n) = [tally |-> u, deltas |-> es]
      <3>1. ~(item.product \notin Products \/ item.reaction = previous)
        BY <1>9
      <3>2. plan.tally = t /\ plan.deltas = ds /\ plan.tally.vote[who][item.product] = previous
        BY <1>3, <1>7
      <3> QED BY <2>1, <2>5, <2>6, <3>1, <3>2, Zenon DEF PlanItem
    <2>8. \A k \in 1..Len(ds) : ds[k].product # d.product
      BY <1>6, <2>1
    <2>9. /\ es \in Seq(Delta) /\ Len(es) = Len(ds) + 1
          /\ es[Len(ds) + 1] = d /\ \A k \in 1..Len(ds) : es[k] = ds[k]
          /\ OneEach(es) /\ AfterFirst(tally, es, Len(ds) + 1, u)
      BY <1>4, <2>3, <2>5, <2>6, <2>8, AppendedDelta
    <2>10. Len(ds) \in Nat
      BY <1>4, LenProperties
    <2>11. \A j \in 1..Len(es) : Plans(es[j], who, batch, n, m)
      <3> SUFFICES ASSUME NEW j \in 1..Len(es) PROVE Plans(es[j], who, batch, n, m)
        OBVIOUS
      <3>1. j = Len(ds) + 1 \/ j \in 1..Len(ds)
        BY <2>9, <2>10
      <3> QED BY <1>6, <2>4, <2>9, <3>1
    <2>12. u \in Tally
      BY <2>9 DEF AfterFirst
    <2>13. PICK next : next = [tally |-> u, deltas |-> es]
      OBVIOUS
    <2>14. next \in Plan /\ next.tally = u /\ next.deltas = es
      BY <2>9, <2>12, <2>13 DEF Plan
    <2>15. PlanOK(who, batch, n, m, next)
      BY <2>9, <2>11, <2>14 DEF PlanOK
    <2> QED BY <1>1, <2>7, <2>13, <2>15
  <1> QED BY <1>8, <1>9

\* A plan with nothing in it yet.
LEMMA PlanStart ==
    ASSUME tally \in Tally, NEW who, NEW batch, NEW n
    PROVE  PlanOK(who, batch, n, 0, [tally |-> tally, deltas |-> <<>>])
  <1>1. PICK plan : plan = [tally |-> tally, deltas |-> <<>>]
    OBVIOUS
  <1>2. plan \in Plan /\ plan.tally = tally /\ plan.deltas = <<>> /\ Len(plan.deltas) = 0
    BY <1>1 DEF Plan
  <1>3. AfterFirst(tally, plan.deltas, 0, tally)
    BY <1>2 DEF AfterFirst
  <1>4. OneEach(plan.deltas)
    BY <1>2 DEF OneEach
  <1>5. PlanOK(who, batch, n, 0, plan)
    BY <1>2, <1>3, <1>4 DEF PlanOK
  <1> QED BY <1>1, <1>5

\* One item at a time, from a plan of the right shape to one of the right shape.
LEMMA PlanItemType ==
    ASSUME NEW plan \in Plan, NEW who \in Visitors, NEW batch \in Batches, NEW n \in 1..MaxSubmits, NEW k \in 1..Len(batch)
    PROVE  PlanItem(plan, who, batch[k], n) \in Plan
  <1>1. PICK item : item = batch[k]
    OBVIOUS
  <1>2. item.reaction \in Reaction
    BY <1>1, BodyFacts
  <1>3. PICK t, ds : t = plan.tally /\ ds = plan.deltas
    OBVIOUS
  <1>4. t \in Tally /\ ds \in Seq(Delta)
    BY <1>3 DEF Plan
  <1>5. PICK previous : previous = t.vote[who][item.product]
    OBVIOUS
  <1>6. CASE item.product \notin Products \/ item.reaction = previous
    BY <1>1, <1>3, <1>5, <1>6, Zenon DEF PlanItem
  <1>7. CASE item.product \in Products /\ item.reaction # previous
    <2>1. PICK d : d = [n |-> n, who |-> who, product |-> item.product,
                        prev |-> previous, next |-> item.reaction, age |-> 0]
      OBVIOUS
    <2>2. previous \in Reaction
      BY <1>4, <1>5, <1>7, TallyFacts
    <2>3. d \in Delta
      BY <1>2, <1>7, <2>1, <2>2, CacheConstants DEF Delta, Age
    <2>4. applyDelta(t, d) \in Tally
      BY <1>4, <2>3, ApplyFacts DEF AfterOne
    <2>5. Append(ds, d) \in Seq(Delta)
      BY <1>4, <2>3, AppendProperties
    <2>6. PlanItem(plan, who, item, n) = [tally |-> applyDelta(t, d), deltas |-> Append(ds, d)]
      <3>1. ~(item.product \notin Products \/ item.reaction = previous)
        BY <1>7
      <3>2. plan.tally = t /\ plan.deltas = ds /\ plan.tally.vote[who][item.product] = previous
        BY <1>3, <1>5
      <3> QED BY <2>1, <3>1, <3>2, Zenon DEF PlanItem
    <2>7. [tally |-> applyDelta(t, d), deltas |-> Append(ds, d)] \in Plan
      BY <2>4, <2>5 DEF Plan
    <2> QED BY <1>1, <2>6, <2>7
  <1> QED BY <1>6, <1>7

\* What the handler makes of a batch.
LEMMA PlannedFacts ==
    ASSUME tally \in Tally, NEW who \in Visitors, NEW batch \in Batches, NEW n \in 1..MaxSubmits
    PROVE  PlanOK(who, batch, n, Len(batch), Planned(who, batch, n))
  <1> DEFINE m == Len(batch)
             Rec(f) == f = [k \in 0..m |-> IF k = 0 THEN [tally |-> tally, deltas |-> <<>>]
                                           ELSE PlanItem(f[k - 1], who, batch[k], n)]
             f == CHOOSE g : Rec(g)
  <1>1. m \in Nat
    BY BodyFacts
  <1>2. PICK first : first = [tally |-> tally, deltas |-> <<>>]
    OBVIOUS
  <1>3. PlanOK(who, batch, n, 0, first)
    BY <1>2, PlanStart
  <1>4. \E g : Rec(g)
    <2> DEFINE step == [c \in Plan \X (1..m) |-> PlanItem(c[1], who, batch[c[2]], n)]
    <2>1. \A plan \in Plan, k \in 1..m : PlanItem(plan, who, batch[k], n) \in Plan
      BY PlanItemType
    <2>2. step \in [Plan \X (1..m) -> Plan]
      BY <2>1
    <2>3. \A plan \in Plan, k \in 1..m : step[<<plan, k>>] = PlanItem(plan, who, batch[k], n)
      OBVIOUS
    <2> HIDE DEF step, m
    <2>4. first \in Plan
      BY <1>3 DEF PlanOK
    <2>5. \E g : Loop(g, m, Plan, first, step)
      BY <1>1, <2>2, <2>4, Iterates
    <2>6. PICK g \in [0..m -> Plan] : g[0] = first /\ \A k \in 1..m : g[k] = step[<<g[k - 1], k>>]
      BY <2>5 DEF Loop
    <2>7. ASSUME NEW k \in 0..m
          PROVE  g[k] = IF k = 0 THEN first ELSE PlanItem(g[k - 1], who, batch[k], n)
      <3>1. CASE k = 0
        BY <2>6, <3>1
      <3>2. CASE k # 0
        <4>1. k \in 1..m /\ k - 1 \in 0..m
          BY <1>1, <3>2
        <4>2. g[k - 1] \in Plan
          BY <2>6, <4>1
        <4> QED BY <2>3, <2>6, <3>2, <4>1, <4>2
      <3> QED BY <3>1, <3>2
    <2>8. g = [k \in 0..m |-> IF k = 0 THEN first ELSE PlanItem(g[k - 1], who, batch[k], n)]
      BY <2>6, <2>7
    <2>9. Rec(g)
      BY <1>2, <2>8, Zenon
    <2> QED BY <2>9
  <1>5. Rec(f)
    <2> HIDE DEF Rec
    <2> QED BY <1>4
  <1>6. Planned(who, batch, n) = f[m]
    BY Zenon DEF Planned
  <1> HIDE DEF f
  <1>7. f[0] = first /\ \A k \in 1..m : f[k] = PlanItem(f[k - 1], who, batch[k], n)
    <2>1. \A k \in 0..m : f[k] = IF k = 0 THEN first ELSE PlanItem(f[k - 1], who, batch[k], n)
      BY <1>2, <1>5, Zenon
    <2>2. 0 \in 0..m /\ \A k \in 1..m : k \in 0..m /\ k # 0
      BY <1>1
    <2> QED BY <2>1, <2>2, Zenon
  <1> DEFINE Good == {k \in 0..m : PlanOK(who, batch, n, k, f[k])}
  <1>8. 0 \in Good
    BY <1>1, <1>3, <1>7
  <1>9. ASSUME NEW k \in 1..m, k - 1 \in Good PROVE k \in Good
    <2>1. PlanOK(who, batch, n, k - 1, f[k - 1])
      BY <1>9
    <2>2. PlanOK(who, batch, n, k, f[k])
      BY <1>7, <2>1, PlanItemKeeps
    <2> QED BY <1>9, <2>2
  <1> HIDE DEF Good
  <1>10. \A k \in 0..m : k \in Good
    BY <1>1, <1>8, <1>9, UpTo
  <1>11. m \in Good
    BY <1>1, <1>10
  <1> QED BY <1>6, <1>11 DEF Good

-----------------------------------------------------------------------------
(* the log                                                                 *)

Names(row, v, p) == row.who = v /\ row.product = p

\* Row k of the log decides the pair.
Newest(rows, v, p, k) ==
    k \in 1..Len(rows) /\ Names(rows[k], v, p) /\ \A j \in 1..Len(rows) : Names(rows[j], v, p) => k <= j

\* The newest row of a pair decides it.
LEMMA NewestDecides ==
    ASSUME NEW rows \in Seq(Row), NEW v, NEW p, NEW k, Newest(rows, v, p, k)
    PROVE  Current(rows, v, p) = rows[k].reaction
  <1> DEFINE ofPair == {j \in DOMAIN rows : rows[j].who = v /\ rows[j].product = p}
  <1>1. DOMAIN rows = 1..Len(rows) /\ Len(rows) \in Nat
    BY LenProperties
  <1>2. k \in ofPair /\ \A j \in ofPair : k <= j
    BY <1>1 DEF Newest, Names
  <1>3. ofPair \subseteq Nat
    BY <1>1
  <1> HIDE DEF ofPair
  <1>4. Min(ofPair) = k
    <2>1. PICK S : S = ofPair
      OBVIOUS
    <2>2. \A x \in S : (\A y \in S : x <= y) => x = k
      BY <1>2, <1>3, <2>1
    <2>3. k \in S /\ \A y \in S : k <= y
      BY <1>2, <2>1
    <2>4. (CHOOSE x \in S : \A y \in S : x <= y) = k
      BY <2>2, <2>3
    <2> QED BY <2>1, <2>4 DEF Min
  <1>5. ofPair # {}
    BY <1>2
  <1>6. Current(rows, v, p) = IF ofPair = {} THEN "none" ELSE rows[Min(ofPair)].reaction
    BY Zenon DEF Current, ofPair
  <1> QED BY <1>4, <1>5, <1>6

\* A pair that has rows has a newest one.
LEMMA NewestExists ==
    ASSUME NEW rows \in Seq(Row), NEW v, NEW p, NEW i \in 1..Len(rows), Names(rows[i], v, p)
    PROVE  \E k : Newest(rows, v, p, k)
  <1> DEFINE ofPair == {j \in 1..Len(rows) : Names(rows[j], v, p)}
  <1>1. ofPair \in SUBSET Nat /\ ofPair # {}
    OBVIOUS
  <1>2. PICK k \in ofPair : \A j \in ofPair : k <= j
    BY <1>1, LeastOfNats
  <1>3. Newest(rows, v, p, k)
    BY <1>2 DEF Newest
  <1> QED BY <1>3

\* A pair without rows is "none".
LEMMA NoEventYet ==
    ASSUME NEW rows \in Seq(Row), NEW v, NEW p, \A i \in 1..Len(rows) : ~Names(rows[i], v, p)
    PROVE  Current(rows, v, p) = "none"
  <1>1. {j \in DOMAIN rows : rows[j].who = v /\ rows[j].product = p} = {}
    BY LenProperties DEF Names
  <1> QED BY <1>1, Zenon DEF Current

\* The log says "like" or "none" of every pair.
LEMMA CurrentType ==
    ASSUME NEW rows \in Seq(Row), NEW v, NEW p
    PROVE  Current(rows, v, p) \in Reaction
  <1>1. CASE \E i \in 1..Len(rows) : Names(rows[i], v, p)
    <2>1. PICK k : Newest(rows, v, p, k)
      BY <1>1, NewestExists
    <2>2. rows[k] \in Row
      BY <2>1, ElementOfSeq DEF Newest
    <2> QED BY <2>1, <2>2, NewestDecides DEF Row
  <1>2. CASE \A i \in 1..Len(rows) : ~Names(rows[i], v, p)
    BY <1>2, NoEventYet DEF Reaction
  <1> QED BY <1>1, <1>2

\* Rows inserted on top decide the pairs they name and no others.
LEMMA InsertedOnTop ==
    ASSUME NEW rows \in Seq(Row), NEW below \in Seq(Row), NEW v, NEW p
    PROVE  /\ insertReactionRows(below, rows) \in Seq(Row)
           /\ Len(insertReactionRows(below, rows)) = Len(rows) + Len(below)
           /\ <<v, p>> \in PairsOf(rows) =>
                 Current(insertReactionRows(below, rows), v, p) = Current(rows, v, p)
           /\ <<v, p>> \notin PairsOf(rows) =>
                 Current(insertReactionRows(below, rows), v, p) = Current(below, v, p)
  <1>1. PICK all : all = rows \o below
    OBVIOUS
  <1>2. PICK m, n : m = Len(rows) /\ n = Len(below)
    OBVIOUS
  <1>3. /\ all \in Seq(Row) /\ Len(all) = m + n /\ m \in Nat /\ n \in Nat
        /\ \A k \in 1..m + n : all[k] = IF k <= m THEN rows[k] ELSE below[k - m]
    BY <1>1, <1>2, ConcatProperties, LenProperties
  <1>4. CASE <<v, p>> \in PairsOf(rows)
    <2>1. PICK i \in 1..m : Names(rows[i], v, p)
      BY <1>2, <1>4 DEF PairsOf, Names
    <2>2. PICK k : Newest(rows, v, p, k)
      BY <1>2, <2>1, NewestExists
    <2>3. k \in 1..m /\ Names(rows[k], v, p) /\ \A j \in 1..m : Names(rows[j], v, p) => k <= j
      BY <1>2, <2>2 DEF Newest
    <2>4. all[k] = rows[k] /\ k \in 1..m + n
      BY <1>3, <2>3
    <2>5. ASSUME NEW j \in 1..m + n, Names(all[j], v, p) PROVE k <= j
      <3>1. CASE j <= m
        <4>1. j \in 1..m /\ all[j] = rows[j]
          BY <1>3, <3>1
        <4> QED BY <2>3, <2>5, <4>1
      <3>2. CASE ~(j <= m)
        BY <1>3, <2>3, <3>2
      <3> QED BY <3>1, <3>2
    <2>6. Newest(all, v, p, k)
      BY <1>3, <2>3, <2>4, <2>5 DEF Newest
    <2>7. Current(all, v, p) = all[k].reaction /\ Current(rows, v, p) = rows[k].reaction
      BY <1>3, <2>2, <2>6, NewestDecides
    <2> QED BY <1>1, <1>2, <1>3, <1>4, <2>4, <2>7 DEF insertReactionRows
  <1>5. CASE <<v, p>> \notin PairsOf(rows)
    <2>1. \A i \in 1..m : ~Names(rows[i], v, p)
      BY <1>2, <1>5 DEF PairsOf, Names
    <2>2. ASSUME NEW j \in 1..m + n, Names(all[j], v, p)
          PROVE  j - m \in 1..n /\ all[j] = below[j - m]
      <3>1. ~(j <= m)
        <4>1. SUFFICES ASSUME j <= m PROVE FALSE
          OBVIOUS
        <4>2. j \in 1..m /\ all[j] = rows[j]
          BY <1>3, <4>1
        <4> QED BY <2>1, <2>2, <4>2
      <3> QED BY <1>3, <3>1
    <2>3. \A j \in 1..n : j + m \in 1..m + n /\ ~(j + m <= m) /\ (j + m) - m = j
      BY <1>3
    <2>4. \A j \in 1..n : all[j + m] = below[j]
      BY <1>3, <2>3
    <2>5. CASE \E i \in 1..n : Names(below[i], v, p)
      <3>1. PICK k : Newest(below, v, p, k)
        BY <1>2, <2>5, NewestExists
      <3>2. k \in 1..n /\ Names(below[k], v, p) /\ \A j \in 1..n : Names(below[j], v, p) => k <= j
        BY <1>2, <3>1 DEF Newest
      <3>3. k + m \in 1..m + n /\ all[k + m] = below[k]
        BY <2>3, <2>4, <3>2
      <3>4. ASSUME NEW j \in 1..m + n, Names(all[j], v, p) PROVE k + m <= j
        <4>1. j - m \in 1..n /\ k <= j - m
          BY <2>2, <3>2, <3>4
        <4> QED BY <1>3, <3>2, <4>1
      <3>5. Newest(all, v, p, k + m)
        BY <1>3, <3>2, <3>3, <3>4 DEF Newest
      <3>6. Current(all, v, p) = all[k + m].reaction /\ Current(below, v, p) = below[k].reaction
        BY <1>3, <3>1, <3>5, NewestDecides
      <3> QED BY <1>1, <1>2, <1>3, <1>5, <3>3, <3>6 DEF insertReactionRows
    <2>6. CASE \A i \in 1..n : ~Names(below[i], v, p)
      <3>1. \A j \in 1..m + n : ~Names(all[j], v, p)
        BY <2>2, <2>6
      <3>2. Current(all, v, p) = "none" /\ Current(below, v, p) = "none"
        BY <1>2, <1>3, <2>6, <3>1, NoEventYet
      <3> QED BY <1>1, <1>2, <1>3, <1>5, <3>2 DEF insertReactionRows
    <2> QED BY <2>5, <2>6
  <1> QED BY <1>4, <1>5

\* The rows of a write: one for each of its deltas.
LEMMA RowsFacts ==
    ASSUME NEW ds \in Seq(Delta)
    PROVE  /\ RowsOf(ds) \in Seq(Row) /\ Len(RowsOf(ds)) = Len(ds)
           /\ \A v, p : <<v, p>> \in PairsOf(RowsOf(ds)) <=>
                           \E k \in 1..Len(ds) : ds[k].who = v /\ ds[k].product = p
           /\ PairsOf(RowsOf(ds)) \subseteq Pairs
           /\ OneEach(ds) => \A k \in 1..Len(ds) : Current(RowsOf(ds), ds[k].who, ds[k].product) = ds[k].next
  <1>1. Len(ds) \in Nat /\ \A k \in 1..Len(ds) : ds[k] \in Delta
    BY LenProperties, ElementOfSeq
  <1>2. PICK rows : rows = RowsOf(ds)
    OBVIOUS
  <1>3. rows = [k \in 1..Len(ds) |-> [who |-> ds[k].who, product |-> ds[k].product, reaction |-> ds[k].next]]
    BY <1>2 DEF RowsOf
  <1>4. \A k \in 1..Len(ds) : [who |-> ds[k].who, product |-> ds[k].product, reaction |-> ds[k].next] \in Row
    BY <1>1, DeltaFacts DEF Row
  <1>5. rows \in Seq(Row) /\ Len(rows) = Len(ds)
    <2>1. rows \in [1..Len(ds) -> Row]
      BY <1>3, <1>4
    <2>2. rows \in Seq(Row)
      BY <1>1, <2>1, SeqDef
    <2>3. DOMAIN rows = 1..Len(ds)
      BY <1>3
    <2> QED BY <1>1, <2>2, <2>3, LenProperties
  <1>6. \A k \in 1..Len(ds) : rows[k].who = ds[k].who /\ rows[k].product = ds[k].product /\ rows[k].reaction = ds[k].next
    BY <1>3
  <1>7. ASSUME NEW v, NEW p
        PROVE  <<v, p>> \in PairsOf(rows) <=> \E k \in 1..Len(ds) : ds[k].who = v /\ ds[k].product = p
    BY <1>5, <1>6 DEF PairsOf
  <1>8. PairsOf(rows) \subseteq Pairs
    BY <1>1, <1>5, <1>6, DeltaFacts DEF PairsOf, Pairs
  <1>9. ASSUME OneEach(ds), NEW k \in 1..Len(ds)
        PROVE  Current(rows, ds[k].who, ds[k].product) = ds[k].next
    <2>1. Newest(rows, ds[k].who, ds[k].product, k)
      <3>1. \A j \in 1..Len(ds) : Names(rows[j], ds[k].who, ds[k].product) => j = k
        BY <1>6, <1>9 DEF OneEach, Names
      <3> QED BY <1>1, <1>5, <1>6, <3>1 DEF Newest, Names
    <2> QED BY <1>5, <1>6, <2>1, NewestDecides
  <1> QED BY <1>2, <1>5, <1>7, <1>8, <1>9

-----------------------------------------------------------------------------
(* the shape of the state                                                  *)

Heard == Reaction \cup {"unknown", "overtaken"}

DataTypeOK ==
    /\ log \in Seq(Row) /\ orphans \in SUBSET Seq(Delta)
    /\ asked \in [ReadIds -> [from : Nat, rows : Seq(Row)]]
    /\ tally \in Tally /\ deltas \in Seq(Delta) /\ overgrown \in BOOLEAN
    /\ applied \in [Requests -> Seq(Delta)] /\ calm \in [Requests -> SUBSET Pairs]
    /\ known \in SUBSET Pairs /\ quiet \in [ReadIds -> SUBSET Pairs]
    /\ acked \in [Pairs -> Heard]

\* A request on its way is one somebody made.
BodyKnown(q) == q.pc # "idle" => q.who \in Visitors /\ q.batch \in Batches /\ q.n \in 1..MaxSubmits

Guarded(ds, who, batch, n) ==
    \A k \in 1..Len(ds) : ds[k].n = n /\ <<ds[k].who, ds[k].product>> \in GuardsOf(who, batch)

\* A write has its insert, writes one delta of a product at most, and guards every pair it writes.
WriteOK(q, ds, pairs) ==
    IF q.pc = "writing"
    THEN /\ q.write \in {"new", "sent", "landed"} /\ OneEach(ds) /\ Guarded(ds, q.who, q.batch, q.n)
         /\ pairs \subseteq PairsOf(RowsOf(ds))
    ELSE ds = <<>> /\ pairs = {}

WritesOK == \A r \in Requests : BodyKnown(req[r]) /\ WriteOK(req[r], applied[r], calm[r])

Shape == DataTypeOK /\ WritesOK

\* No request but r changes.
OthersStay(r) ==
    \A q \in Requests \ {r} : req'[q] = req[q] /\ applied'[q] = applied[q] /\ calm'[q] = calm[q]

\* The empty sequence is a log and a list of deltas.
LEMMA EmptyLog == <<>> \in Seq(Row) /\ <<>> \in Seq(Delta)
  OBVIOUS

\* What a refresh derives is a tally.
LEMMA ParsedType == ASSUME NEW rows \in Seq(Row) PROVE parseReactions(rows) \in Tally
  <1>1. \A p \in Products : Likers(rows, p) \in Nat
    <2> SUFFICES ASSUME NEW p \in Products PROVE Likers(rows, p) \in Nat
      OBVIOUS
    <2>1. IsFiniteSet({v \in Visitors : Current(rows, v, p) = "like"})
      BY LogConstants, FS_Subset
    <2> QED BY <2>1, FS_CardinalityType DEF Likers
  <1>2. \A v \in Visitors, p \in Products : Current(rows, v, p) \in Reaction
    BY CurrentType
  <1>3. [p \in Products |-> Likers(rows, p)] \in [Products -> Nat]
    BY <1>1
  <1>4. [v \in Visitors |-> [p \in Products |-> Current(rows, v, p)]] \in [Visitors -> [Products -> Reaction]]
    BY <1>2
  <1> QED BY <1>3, <1>4 DEF parseReactions, Tally

\* The new process has the shape.
LEMMA ShapeInit == ReactionsInit => Shape
  <1> SUFFICES ASSUME ReactionsInit PROVE Shape
    OBVIOUS
  <1>1. /\ log = <<>> /\ orphans = {} /\ asked = [i \in ReadIds |-> [from |-> 0, rows |-> <<>>]]
        /\ tally = parseReactions(<<>>) /\ deltas = <<>> /\ overgrown = FALSE
        /\ req = [r \in Requests |-> NoRequest] /\ applied = [r \in Requests |-> <<>>]
        /\ calm = [r \in Requests |-> {}] /\ known = {} /\ quiet = [i \in ReadIds |-> {}]
        /\ acked = [pair \in Pairs |-> "none"]
    BY DEF ReactionsInit
  <1>2. DataTypeOK
    <2>1. tally \in Tally
      BY <1>1, EmptyLog, ParsedType
    <2>2. asked \in [ReadIds -> [from : Nat, rows : Seq(Row)]]
      BY <1>1
    <2>3. acked \in [Pairs -> Heard]
      BY <1>1 DEF Heard, Reaction
    <2>4. log \in Seq(Row) /\ deltas \in Seq(Delta) /\ applied \in [Requests -> Seq(Delta)]
      BY <1>1, EmptyLog
    <2> QED BY <1>1, <2>1, <2>2, <2>3, <2>4 DEF DataTypeOK
  <1>3. WritesOK
    BY <1>1 DEF WritesOK, BodyKnown, WriteOK, NoRequest
  <1> QED BY <1>2, <1>3 DEF Shape

\* What LoadNoted() may do to the two variables.
LEMMA NotedTypes ==
    ASSUME DataTypeOK, CacheTypeOK', LoadNoted
    PROVE  asked' \in [ReadIds -> [from : Nat, rows : Seq(Row)]] /\ quiet' \in [ReadIds -> SUBSET Pairs]
  <1>1. CASE UNCHANGED <<asked, quiet>>
    BY <1>1 DEF DataTypeOK
  <1>2. CASE ~(UNCHANGED <<asked, quiet>>)
    <2>1. /\ asked' = [asked EXCEPT ![inflight'] = [from |-> Len(log), rows |-> <<>>]]
          /\ quiet' = [quiet EXCEPT ![inflight'] = Pairs \ Unsettled]
      BY <1>2 DEF LoadNoted
    <2>2. [from |-> Len(log), rows |-> <<>>] \in [from : Nat, rows : Seq(Row)]
      <3>1. Len(log) \in Nat
        BY LenProperties DEF DataTypeOK
      <3> QED BY <3>1
    <2>3. Pairs \ Unsettled \in SUBSET Pairs
      OBVIOUS
    <2> QED BY <2>1, <2>2, <2>3 DEF DataTypeOK
  <1> QED BY <1>1, <1>2

\* The plan of a request that starts to write.
LEMMA PlanFacts ==
    ASSUME Shape, NEW r \in Requests, req[r].pc = "getting"
    PROVE  /\ PlanOK(req[r].who, req[r].batch, req[r].n, Len(req[r].batch), PlanOf(r))
           /\ req[r].who \in Visitors /\ req[r].batch \in Batches /\ req[r].n \in 1..MaxSubmits
  <1>1. req[r].who \in Visitors /\ req[r].batch \in Batches /\ req[r].n \in 1..MaxSubmits
    BY DEF Shape, WritesOK, BodyKnown
  <1>2. tally \in Tally
    BY DEF Shape, DataTypeOK
  <1> QED BY <1>1, <1>2, PlannedFacts DEF PlanOf

\* A write starts: every delta of its plan is guarded.
LEMMA PlanGuarded ==
    ASSUME NEW who, NEW batch \in Batches, NEW n, NEW plan, PlanOK(who, batch, n, Len(batch), plan)
    PROVE  plan.deltas \in Seq(Delta) /\ OneEach(plan.deltas) /\ Guarded(plan.deltas, who, batch, n)
  <1>1. plan.deltas \in Seq(Delta) /\ OneEach(plan.deltas)
    BY DEF PlanOK, Plan
  <1>2. ASSUME NEW k \in 1..Len(plan.deltas)
        PROVE  /\ plan.deltas[k].n = n
               /\ <<plan.deltas[k].who, plan.deltas[k].product>> \in GuardsOf(who, batch)
    <2>1. Plans(plan.deltas[k], who, batch, n, Len(batch))
      BY DEF PlanOK
    <2>2. PICK i \in 1..Len(batch) : batch[i].product = plan.deltas[k].product
      BY <2>1 DEF Plans
    <2> QED BY <2>1, <2>2 DEF Plans, GuardsOf
  <1> QED BY <1>1, <1>2 DEF Guarded

\* The start of a write, seen from its deltas.
LEMMA StartFacts ==
    ASSUME Shape, ControlInv, NEW r \in Requests, req[r].pc = "getting", StartWrite(r)
    PROVE  \E plan, ds, pairs :
              /\ PlanOK(req[r].who, req[r].batch, req[r].n, Len(req[r].batch), plan)
              /\ ds = plan.deltas /\ ds \in Seq(Delta) /\ pairs = PairsOf(RowsOf(ds)) /\ pairs \subseteq Pairs
              /\ tally' = plan.tally /\ deltas' = deltas \o ds /\ applied' = [applied EXCEPT ![r] = ds]
              /\ calm' = [calm EXCEPT ![r] = pairs \cap known] /\ known' = known \ pairs
              /\ quiet' = [i \in ReadIds |-> quiet[i] \ pairs]
              /\ OthersStay(r)
              /\ applied'[r] = ds /\ calm'[r] = pairs \cap known
              /\ req'[r].pc = "writing" /\ req'[r].write = "new" /\ req'[r].who = req[r].who
              /\ req'[r].batch = req[r].batch /\ req'[r].n = req[r].n
  <1>1. PICK plan, ds, pairs : plan = PlanOf(r) /\ ds = plan.deltas /\ pairs = PairsOf(RowsOf(ds))
    OBVIOUS
  <1>2. PlanOK(req[r].who, req[r].batch, req[r].n, Len(req[r].batch), plan) /\ req[r].batch \in Batches
    BY <1>1, PlanFacts
  <1>3. ds \in Seq(Delta) /\ pairs \subseteq Pairs
    BY <1>1, <1>2, RowsFacts DEF PlanOK, Plan
  <1>4. /\ tally' = plan.tally /\ deltas' = deltas \o ds /\ applied' = [applied EXCEPT ![r] = ds]
        /\ calm' = [calm EXCEPT ![r] = pairs \cap known] /\ known' = known \ pairs
        /\ quiet' = [i \in ReadIds |-> quiet[i] \ pairs]
        /\ req' = [req EXCEPT ![r].pc = "writing", ![r].write = "new"]
    BY <1>1, Zenon DEF StartWrite
  <1>5. req'[r].pc = "writing" /\ req'[r].write = "new" /\ req'[r].who = req[r].who
        /\ req'[r].batch = req[r].batch /\ req'[r].n = req[r].n
    BY <1>4 DEF ControlInv, ControlTypeOK, RequestState
  <1>6. \A q \in Requests \ {r} : req'[q] = req[q]
    BY <1>4 DEF ControlInv, ControlTypeOK
  <1>7. /\ \A q \in Requests \ {r} : applied'[q] = applied[q] /\ calm'[q] = calm[q]
        /\ applied'[r] = ds /\ calm'[r] = pairs \cap known
    BY <1>4 DEF Shape, DataTypeOK
  <1> QED BY <1>1, <1>2, <1>3, <1>4, <1>5, <1>6, <1>7 DEF OthersStay

\* One request changes, and goes on being a write or none.
LEMMA WritesStay ==
    ASSUME WritesOK, NEW r \in Requests, OthersStay(r),
           BodyKnown(req'[r]), WriteOK(req'[r], applied'[r], calm'[r])
    PROVE  WritesOK'
  <1>1. \A q \in Requests : BodyKnown(req'[q]) /\ WriteOK(req'[q], applied'[q], calm'[q])
    <2> SUFFICES ASSUME NEW q \in Requests PROVE BodyKnown(req'[q]) /\ WriteOK(req'[q], applied'[q], calm'[q])
      OBVIOUS
    <2>1. CASE q = r
      BY <2>1
    <2>2. CASE q # r
      BY <2>2 DEF WritesOK, OthersStay
    <2> QED BY <2>1, <2>2
  <1> QED BY <1>1 DEF WritesOK

\* A request that is over.
LEMMA AnswerShape ==
    ASSUME Shape, ControlInv, NEW r \in Requests, Answer(r)
    PROVE  /\ WritesOK' /\ applied' \in [Requests -> Seq(Delta)] /\ calm' \in [Requests -> SUBSET Pairs]
           /\ req'[r] = NoRequest /\ applied'[r] = <<>> /\ calm'[r] = {}
           /\ OthersStay(r)
  <1>1. /\ req' = [req EXCEPT ![r] = NoRequest] /\ applied' = [applied EXCEPT ![r] = <<>>]
        /\ calm' = [calm EXCEPT ![r] = {}]
    BY DEF Answer
  <1>2. applied \in [Requests -> Seq(Delta)] /\ calm \in [Requests -> SUBSET Pairs] /\ req \in [Requests -> RequestState]
    BY DEF Shape, DataTypeOK, ControlInv, ControlTypeOK
  <1>3. /\ req'[r] = NoRequest /\ applied'[r] = <<>> /\ calm'[r] = {}
        /\ \A q \in Requests \ {r} : req'[q] = req[q] /\ applied'[q] = applied[q] /\ calm'[q] = calm[q]
    BY <1>1, <1>2
  <1>4. BodyKnown(req'[r]) /\ WriteOK(req'[r], applied'[r], calm'[r])
    BY <1>3 DEF BodyKnown, WriteOK, NoRequest
  <1>x. OthersStay(r)
    BY <1>3 DEF OthersStay
  <1>5. WritesOK'
    BY <1>4, <1>x, WritesStay DEF Shape
  <1>6. applied' \in [Requests -> Seq(Delta)] /\ calm' \in [Requests -> SUBSET Pairs]
    BY <1>1, <1>2, EmptyLog
  <1> QED BY <1>3, <1>x, <1>5, <1>6

\* What the history says of the pairs stays in its range.
LEMMA HeardFacts ==
    ASSUME DataTypeOK, NEW pairs
    PROVE  /\ Forgotten(pairs) \in [Pairs -> Heard] /\ Overtaken(pairs) \in [Pairs -> Heard]
           /\ \A rows \in Seq(Row) : Acknowledged(rows) \in [Pairs -> Heard]
  <1>1. \A pair \in Pairs : acked[pair] \in Heard
    BY DEF DataTypeOK
  <1>2. "unknown" \in Heard /\ "overtaken" \in Heard /\ Reaction \subseteq Heard
    BY DEF Heard
  <1>3. Forgotten(pairs) \in [Pairs -> Heard]
    BY <1>1, <1>2 DEF Forgotten
  <1>4. Overtaken(pairs) \in [Pairs -> Heard]
    BY <1>1, <1>2 DEF Overtaken
  <1>5. ASSUME NEW rows \in Seq(Row) PROVE Acknowledged(rows) \in [Pairs -> Heard]
    <2>1. \A pair \in Pairs : Current(rows, pair[1], pair[2]) \in Heard
      BY <1>2, CurrentType
    <2> QED BY <1>1, <1>2, <2>1 DEF Acknowledged
  <1> QED BY <1>3, <1>4, <1>5

\* The steps of a request up to its insert keep the shape.
LEMMA ShapeRequest ==
    ASSUME Shape, ControlInv, CacheTypeOK', NEW r \in Requests, Submit(r) \/ Decide(r) \/ Land(r)
    PROVE  Shape'
  <1> USE DEF Shape
  <1>1. CASE Submit(r)
    <2>1. PICK v \in Visitors, batch \in Batches :
            req' = [req EXCEPT ![r] = [NoRequest EXCEPT !.pc = "getting", !.who = v,
                                                        !.batch = batch, !.n = submits + 1]]
      BY <1>1 DEF Submit
    <2>2. /\ UNCHANGED <<log, orphans, tally, deltas, overgrown, applied, calm, known, acked>>
          /\ req[r].pc = "idle" /\ submits < MaxSubmits /\ LoadNoted
      BY <1>1 DEF Submit, sheetVars, memoryVars
    <2>3. DataTypeOK'
      <3>1. asked' \in [ReadIds -> [from : Nat, rows : Seq(Row)]] /\ quiet' \in [ReadIds -> SUBSET Pairs]
        BY <2>2, NotedTypes
      <3> QED BY <2>2, <3>1 DEF DataTypeOK
    <2>4. OthersStay(r)
      BY <2>1, <2>2 DEF ControlInv, ControlTypeOK, OthersStay
    <2>5. /\ req'[r].pc = "getting" /\ req'[r].who = v /\ req'[r].batch = batch /\ req'[r].n = submits + 1
          /\ applied'[r] = applied[r] /\ calm'[r] = calm[r]
      BY <2>1, <2>2 DEF ControlInv, ControlTypeOK, NoRequest
    <2>6. submits + 1 \in 1..MaxSubmits
      BY <2>2, ReactionConstants DEF ControlInv, ControlTypeOK
    <2>7. BodyKnown(req'[r])
      BY <2>5, <2>6 DEF BodyKnown
    <2>8. WriteOK(req'[r], applied'[r], calm'[r])
      BY <2>2, <2>5 DEF WritesOK, WriteOK
    <2> QED BY <2>3, <2>4, <2>7, <2>8, WritesStay
  <1>2. CASE Decide(r) /\ Answer(r) /\ UNCHANGED <<tally, deltas, known, quiet>>
    <2>1. UNCHANGED <<log, orphans, asked, overgrown, acked>>
      BY <1>2 DEF Decide, sheetVars
    <2>2. WritesOK' /\ applied' \in [Requests -> Seq(Delta)] /\ calm' \in [Requests -> SUBSET Pairs]
      BY <1>2, AnswerShape
    <2> QED BY <1>2, <2>1, <2>2 DEF DataTypeOK
  <1>3. CASE Decide(r) /\ StartWrite(r)
    <2>0. req[r].pc = "getting" /\ UNCHANGED <<log, orphans, asked, overgrown, acked>>
      BY <1>3 DEF Decide, sheetVars
    <2>1. PICK plan, ds, pairs :
              /\ PlanOK(req[r].who, req[r].batch, req[r].n, Len(req[r].batch), plan)
              /\ ds = plan.deltas /\ ds \in Seq(Delta) /\ pairs = PairsOf(RowsOf(ds)) /\ pairs \subseteq Pairs
              /\ tally' = plan.tally /\ deltas' = deltas \o ds /\ applied' = [applied EXCEPT ![r] = ds]
              /\ calm' = [calm EXCEPT ![r] = pairs \cap known] /\ known' = known \ pairs
              /\ quiet' = [i \in ReadIds |-> quiet[i] \ pairs]
              /\ OthersStay(r)
              /\ applied'[r] = ds /\ calm'[r] = pairs \cap known
              /\ req'[r].pc = "writing" /\ req'[r].write = "new" /\ req'[r].who = req[r].who
              /\ req'[r].batch = req[r].batch /\ req'[r].n = req[r].n
      BY <1>3, <2>0, StartFacts
    <2>2. DataTypeOK'
      <3>1. tally' \in Tally
        BY <2>1 DEF PlanOK, Plan
      <3>2. deltas' \in Seq(Delta)
        BY <2>1, ConcatProperties DEF DataTypeOK
      <3>3. applied' \in [Requests -> Seq(Delta)] /\ calm' \in [Requests -> SUBSET Pairs]
        BY <2>1 DEF DataTypeOK
      <3>4. known' \in SUBSET Pairs /\ quiet' \in [ReadIds -> SUBSET Pairs]
        BY <2>1 DEF DataTypeOK
      <3> QED BY <2>0, <3>1, <3>2, <3>3, <3>4 DEF DataTypeOK
    <2>3. req[r].who \in Visitors /\ req[r].batch \in Batches /\ req[r].n \in 1..MaxSubmits
      BY <2>0, PlanFacts
    <2>4. OneEach(ds) /\ Guarded(ds, req[r].who, req[r].batch, req[r].n)
      BY <2>1, <2>3, PlanGuarded
    <2>5. BodyKnown(req'[r])
      BY <2>1, <2>3 DEF BodyKnown
    <2>6. WriteOK(req'[r], applied'[r], calm'[r])
      BY <2>1, <2>4 DEF WriteOK
    <2> QED BY <2>1, <2>2, <2>5, <2>6, WritesStay
  <1>4. CASE Land(r)
    <2>1. /\ log' = insertReactionRows(log, RowsOf(applied[r])) /\ req[r].write = "sent"
          /\ req' = [req EXCEPT ![r].write = "landed"]
          /\ UNCHANGED <<orphans, asked, tally, deltas, overgrown, applied, calm, known, quiet, acked>>
      BY <1>4 DEF Land, memoryVars, historyVars
    <2>2. DataTypeOK'
      <3>1. applied[r] \in Seq(Delta) /\ log \in Seq(Row)
        BY DEF DataTypeOK
      <3>2. log' \in Seq(Row)
        BY <2>1, <3>1, RowsFacts, InsertedOnTop
      <3> QED BY <2>1, <3>2 DEF DataTypeOK
    <2>3. /\ req'[r].pc = req[r].pc /\ req'[r].who = req[r].who /\ req'[r].batch = req[r].batch
          /\ req'[r].n = req[r].n /\ req'[r].write = "landed"
          /\ \A q \in Requests \ {r} : req'[q] = req[q]
      BY <2>1 DEF ControlInv, ControlTypeOK, RequestState
    <2>4. BodyKnown(req'[r])
      BY <2>3 DEF WritesOK, BodyKnown
    <2>5. WriteOK(req'[r], applied'[r], calm'[r])
      BY <2>1, <2>3 DEF WritesOK, WriteOK
    <2>7. OthersStay(r)
      BY <2>1, <2>3 DEF OthersStay
    <2> QED BY <2>2, <2>4, <2>5, <2>7, WritesStay
  <1> QED BY <1>1, <1>2, <1>3, <1>4, Zenon DEF Decide

\* A read is the newest rows of the tab, all of them when they fit.
LEMMA WindowFacts ==
    ASSUME NEW rows \in Seq(Row)
    PROVE  Window(rows) \in Seq(Row) /\ (Len(rows) <= WindowRows => Window(rows) = rows)
  <1>1. PICK n : n = IF Len(rows) < WindowRows THEN Len(rows) ELSE WindowRows
    OBVIOUS
  <1>2. Len(rows) \in Nat /\ n \in Nat /\ n <= Len(rows) /\ (Len(rows) <= WindowRows => n = Len(rows))
    BY <1>1, LenProperties, LogConstants
  <1>3. \A i \in 1..n : rows[i] \in Row
    <2>1. \A i \in 1..n : i \in 1..Len(rows)
      BY <1>2
    <2> QED BY <2>1, ElementOfSeq
  <1>4. SubSeq(rows, 1, n) \in Seq(Row)
    BY <1>2, <1>3, SubSeqProperties
  <1>5. SubSeq(rows, 1, Len(rows)) = rows
    BY SubSeqFull
  <1>6. Window(rows) = SubSeq(rows, 1, n)
    BY <1>1, Zenon DEF Window
  <1> QED BY <1>2, <1>4, <1>5, <1>6

\* What giving a write back makes of its deltas.
GivenBack(ds) == [k \in 1..Len(ds) |-> Undo(ds[k])]

\* The inverse deltas name the same pairs, in the same order.
LEMMA GivenBackFacts ==
    ASSUME NEW ds \in Seq(Delta)
    PROVE  /\ GivenBack(ds) \in Seq(Delta) /\ Len(GivenBack(ds)) = Len(ds)
           /\ \A k \in 1..Len(ds) : /\ GivenBack(ds)[k].who = ds[k].who /\ GivenBack(ds)[k].product = ds[k].product
                                    /\ GivenBack(ds)[k].prev = ds[k].next /\ GivenBack(ds)[k].next = ds[k].prev
           /\ OneEach(ds) => OneEach(GivenBack(ds))
  <1>1. Len(ds) \in Nat /\ \A k \in 1..Len(ds) : ds[k] \in Delta
    BY LenProperties, ElementOfSeq
  <1>2. PICK es : es = GivenBack(ds)
    OBVIOUS
  <1>3. \A d \in Delta : /\ Undo(d) \in Delta /\ Undo(d).who = d.who /\ Undo(d).product = d.product
                         /\ Undo(d).prev = d.next /\ Undo(d).next = d.prev
    BY DEF Undo, Delta
  <1>4. es \in [1..Len(ds) -> Delta] /\ \A k \in 1..Len(ds) : es[k] = Undo(ds[k])
    BY <1>1, <1>2, <1>3 DEF GivenBack
  <1>5. es \in Seq(Delta) /\ Len(es) = Len(ds)
    <2>1. es \in Seq(Delta)
      BY <1>1, <1>4, SeqDef
    <2>2. DOMAIN es = 1..Len(ds)
      BY <1>4
    <2> QED BY <1>1, <2>1, <2>2, LenProperties
  <1>6. \A k \in 1..Len(ds) : /\ es[k].who = ds[k].who /\ es[k].product = ds[k].product
                              /\ es[k].prev = ds[k].next /\ es[k].next = ds[k].prev
    BY <1>1, <1>3, <1>4
  <1>7. OneEach(ds) => OneEach(es)
    BY <1>5, <1>6 DEF OneEach
  <1> QED BY <1>2, <1>5, <1>6, <1>7

\* The deltas a millisecond later.
Aged(ds) == [k \in 1..Len(ds) |-> [ds[k] EXCEPT !.age = Older(@)]]

\* A millisecond changes nothing of the deltas but their age.
LEMMA AgedFacts ==
    ASSUME NEW ds \in Seq(Delta)
    PROVE  /\ Aged(ds) \in Seq(Delta) /\ Len(Aged(ds)) = Len(ds)
           /\ \A k \in 1..Len(ds) : /\ Aged(ds)[k].who = ds[k].who /\ Aged(ds)[k].product = ds[k].product
                                    /\ Aged(ds)[k].n = ds[k].n /\ Aged(ds)[k].age = Older(ds[k].age)
  <1>1. Len(ds) \in Nat /\ \A k \in 1..Len(ds) : ds[k] \in Delta
    BY LenProperties, ElementOfSeq
  <1>2. PICK es : es = Aged(ds)
    OBVIOUS
  <1>3. ASSUME NEW d \in Delta
        PROVE  /\ [d EXCEPT !.age = Older(@)] \in Delta /\ [d EXCEPT !.age = Older(@)].who = d.who
               /\ [d EXCEPT !.age = Older(@)].product = d.product /\ [d EXCEPT !.age = Older(@)].n = d.n
               /\ [d EXCEPT !.age = Older(@)].age = Older(d.age)
    <2>1. Older(d.age) \in Age
      BY OlderAge DEF Delta
    <2> QED BY <2>1 DEF Delta
  <1>4. es \in [1..Len(ds) -> Delta] /\ \A k \in 1..Len(ds) : es[k] = [ds[k] EXCEPT !.age = Older(@)]
    BY <1>1, <1>2, <1>3 DEF Aged
  <1>5. es \in Seq(Delta) /\ Len(es) = Len(ds)
    <2>1. es \in Seq(Delta)
      BY <1>1, <1>4, SeqDef
    <2>2. DOMAIN es = 1..Len(ds)
      BY <1>4
    <2> QED BY <1>1, <2>1, <2>2, LenProperties
  <1>6. \A k \in 1..Len(ds) : /\ es[k].who = ds[k].who /\ es[k].product = ds[k].product
                              /\ es[k].n = ds[k].n /\ es[k].age = Older(ds[k].age)
    BY <1>1, <1>3, <1>4
  <1> QED BY <1>2, <1>5, <1>6

\* The tally after a write is given back, and after a refresh.
LEMMA ShapeEnds ==
    ASSUME Shape, ControlInv, NEW r \in Requests, RespondOk(r) \/ InsertFails(r)
    PROVE  Shape'
  <1>0. DataTypeOK
    BY DEF Shape
  <1>1. Answer(r) /\ UNCHANGED <<log, asked, overgrown, quiet>>
    BY DEF RespondOk, InsertFails, sheetVars, memoryVars
  <1>2. /\ WritesOK' /\ applied' \in [Requests -> Seq(Delta)] /\ calm' \in [Requests -> SUBSET Pairs]
        /\ applied[r] \in Seq(Delta) /\ calm[r] \in SUBSET Pairs
    BY <1>0, <1>1, AnswerShape DEF DataTypeOK
  <1>3. RowsOf(applied[r]) \in Seq(Row) /\ GivenBack(applied[r]) \in Seq(Delta)
    BY <1>2, RowsFacts, GivenBackFacts
  <1>4. CASE RespondOk(r)
    <2>1. /\ known' = known \cup calm[r] /\ acked' = Acknowledged(RowsOf(applied[r]))
          /\ UNCHANGED <<orphans, tally, deltas>>
      BY <1>4 DEF RespondOk, sheetVars, memoryVars
    <2>2. acked' \in [Pairs -> Heard]
      BY <1>0, <1>3, <2>1, HeardFacts
    <2> QED BY <1>0, <1>1, <1>2, <2>1, <2>2 DEF Shape, DataTypeOK
  <1>5. CASE InsertFails(r)
    <2>1. /\ tally' = AppliedAll(tally, GivenBack(applied[r]))
          /\ deltas' = Among(deltas, {d \in Range(deltas) : d.n # req[r].n})
      BY <1>5 DEF InsertFails, GivenBack
    <2>2. \E pairs : acked' = Forgotten(pairs)
      BY <1>5 DEF InsertFails
    <2>3. known' \in {known, known \cup calm[r]} /\ orphans' \in {orphans, orphans \cup {applied[r]}}
      BY <1>5 DEF InsertFails
    <2>4. tally' \in Tally
      BY <1>0, <1>3, <2>1, AppliedFacts DEF AfterFirst, DataTypeOK
    <2>5. deltas' \in Seq(Delta)
      BY <1>0, <2>1, AmongFacts DEF DataTypeOK
    <2>6. acked' \in [Pairs -> Heard]
      BY <1>0, <2>2, HeardFacts
    <2>7. known' \in SUBSET Pairs /\ orphans' \in SUBSET Seq(Delta)
      BY <1>0, <1>2, <2>3 DEF DataTypeOK
    <2> QED BY <1>0, <1>1, <1>2, <2>4, <2>5, <2>6, <2>7 DEF Shape, DataTypeOK
  <1> QED BY <1>4, <1>5

\* No request changes.
LEMMA WritesSame == ASSUME WritesOK, UNCHANGED <<req, applied, calm>> PROVE WritesOK'
  BY DEF WritesOK

\* A refresh takes the votes apart from the writes it might have raced with.
LEMMA CalmOver ==
    ASSUME WritesOK, UNCHANGED <<req, applied>>, calm' = [r \in Requests |-> {}]
    PROVE  WritesOK'
  <1>1. ASSUME NEW q \in Requests PROVE BodyKnown(req'[q]) /\ WriteOK(req'[q], applied'[q], calm'[q])
    BY DEF WritesOK, WriteOK
  <1> QED BY <1>1 DEF WritesOK

\* The steps of a load keep the shape.
LEMMA ShapeRead ==
    ASSUME Shape, NEW i \in ReadIds, SheetServes(i) \/ RefreshEnds(i) \/ RefreshFails(i)
    PROVE  Shape'
  <1>0. DataTypeOK /\ WritesOK
    BY DEF Shape
  <1>1. CASE SheetServes(i)
    <2>1. /\ asked' = [asked EXCEPT ![i].rows = Window(log)]
          /\ UNCHANGED <<log, orphans, tally, deltas, overgrown, req, applied, calm, known, quiet, acked>>
      BY <1>1 DEF SheetServes, sheetVars, memoryVars, requestVars, historyVars
    <2>2. Window(log) \in Seq(Row)
      BY <1>0, WindowFacts DEF DataTypeOK
    <2>3. asked' \in [ReadIds -> [from : Nat, rows : Seq(Row)]]
      BY <1>0, <2>1, <2>2 DEF DataTypeOK
    <2>4. WritesOK'
      BY <1>0, <2>1, WritesSame
    <2> QED BY <1>0, <2>1, <2>3, <2>4 DEF Shape, DataTypeOK
  <1>2. CASE RefreshEnds(i)
    <2>1. /\ tally' = AppliedAll(parseReactions(asked[i].rows),
                                 Among(deltas, {d \in Range(deltas) : Replayed(d, i)}))
          /\ deltas' = Among(deltas, {d \in Range(deltas) : d.age <= 2 * Ttl})
          /\ overgrown' \in {overgrown} \cup {rows > MaxRows : rows \in asked[i].from..Len(log)}
          /\ known' = quiet[i] /\ calm' = [r \in Requests |-> {}]
          /\ UNCHANGED <<log, orphans, asked, req, applied, quiet, acked>>
      BY <1>2 DEF RefreshEnds, sheetVars, requestVars
    <2>2. asked[i].rows \in Seq(Row) /\ parseReactions(asked[i].rows) \in Tally
      BY <1>0, ParsedType DEF DataTypeOK
    <2>3. Among(deltas, {d \in Range(deltas) : Replayed(d, i)}) \in Seq(Delta)
      BY <1>0, AmongFacts DEF DataTypeOK
    <2>4. tally' \in Tally
      BY <2>1, <2>2, <2>3, AppliedFacts DEF AfterFirst
    <2>5. deltas' \in Seq(Delta)
      BY <1>0, <2>1, AmongFacts DEF DataTypeOK
    <2>6. overgrown' \in BOOLEAN
      <3>1. CASE overgrown' = overgrown
        BY <1>0, <3>1 DEF DataTypeOK
      <3>2. CASE \E rows \in asked[i].from..Len(log) : overgrown' = (rows > MaxRows)
        <4>1. PICK rows : overgrown' = (rows > MaxRows)
          BY <3>2, Zenon
        <4>2. CASE rows > MaxRows
          BY <4>1, <4>2
        <4>3. CASE ~(rows > MaxRows)
          BY <4>1, <4>3
        <4> QED BY <4>2, <4>3
      <3> QED BY <2>1, <3>1, <3>2, Zenon
    <2>7. WritesOK'
      BY <1>0, <2>1, CalmOver
    <2>8. known' \in SUBSET Pairs /\ calm' \in [Requests -> SUBSET Pairs]
      BY <1>0, <2>1 DEF DataTypeOK
    <2> QED BY <1>0, <2>1, <2>4, <2>5, <2>6, <2>7, <2>8 DEF Shape, DataTypeOK
  <1>3. CASE RefreshFails(i)
    <2>1. UNCHANGED <<log, orphans, asked, tally, deltas, overgrown, req, applied, calm, known, quiet, acked>>
      BY <1>3 DEF RefreshFails, sheetVars, memoryVars, requestVars, historyVars
    <2> QED BY <1>0, <2>1, WritesSame DEF Shape, DataTypeOK
  <1> QED BY <1>1, <1>2, <1>3

\* An insert given up on that lands keeps the shape.
LEMMA ShapeOrphan == ASSUME Shape, OrphanLands PROVE Shape'
  <1>0. DataTypeOK /\ WritesOK
    BY DEF Shape
  <1>1. PICK ds \in orphans :
          /\ log' = insertReactionRows(log, RowsOf(ds)) /\ orphans' = orphans \ {ds}
          /\ known' = known \ PairsOf(RowsOf(ds))
          /\ quiet' = [i \in ReadIds |-> quiet[i] \ PairsOf(RowsOf(ds))]
          /\ acked' = Overtaken(PairsOf(RowsOf(ds)))
          /\ UNCHANGED <<asked, memoryVars, requestVars, calm>>
    BY Zenon DEF OrphanLands
  <1>2. UNCHANGED <<asked, tally, deltas, overgrown, req, applied, calm>>
    BY <1>1 DEF memoryVars, requestVars
  <1>3. ds \in Seq(Delta) /\ log \in Seq(Row)
    BY <1>0, <1>1 DEF DataTypeOK
  <1>4. log' \in Seq(Row)
    BY <1>1, <1>3, RowsFacts, InsertedOnTop
  <1>5. acked' \in [Pairs -> Heard]
    BY <1>0, <1>1, HeardFacts
  <1>6. orphans' \in SUBSET Seq(Delta) /\ known' \in SUBSET Pairs /\ quiet' \in [ReadIds -> SUBSET Pairs]
    BY <1>0, <1>1 DEF DataTypeOK
  <1>7. WritesOK'
    BY <1>0, <1>2, WritesSame
  <1> QED BY <1>0, <1>2, <1>4, <1>5, <1>6, <1>7 DEF Shape, DataTypeOK

\* The clock keeps the shape.
LEMMA ShapeClock == ASSUME Shape, ControlInv, Clock PROVE Shape'
  <1>0. DataTypeOK /\ WritesOK
    BY DEF Shape
  <1>1. /\ deltas' = Aged(deltas)
        /\ req' = [r \in Requests |-> [req[r] EXCEPT !.write = IF @ = "new" THEN "sent" ELSE @]]
        /\ UNCHANGED <<log, orphans, asked, tally, overgrown, applied, calm, known, quiet, acked>>
    BY DEF Clock, Aged, sheetVars, historyVars
  <1>2. deltas' \in Seq(Delta)
    BY <1>0, <1>1, AgedFacts DEF DataTypeOK
  <1>3. \A r \in Requests : /\ req'[r].pc = req[r].pc /\ req'[r].who = req[r].who
                            /\ req'[r].batch = req[r].batch /\ req'[r].n = req[r].n
                            /\ req'[r].write = IF req[r].write = "new" THEN "sent" ELSE req[r].write
    BY <1>1 DEF ControlInv, ControlTypeOK, RequestState
  <1>4. ASSUME NEW r \in Requests PROVE BodyKnown(req'[r]) /\ WriteOK(req'[r], applied'[r], calm'[r])
    <2>1. BodyKnown(req[r]) /\ WriteOK(req[r], applied[r], calm[r])
      BY <1>0 DEF WritesOK
    <2>2. BodyKnown(req'[r])
      BY <1>3, <2>1 DEF BodyKnown
    <2>3. WriteOK(req'[r], applied'[r], calm'[r])
      <3>1. CASE req[r].pc = "writing"
        <4>1. /\ req[r].write \in {"new", "sent", "landed"} /\ OneEach(applied[r])
              /\ Guarded(applied[r], req[r].who, req[r].batch, req[r].n)
              /\ calm[r] \subseteq PairsOf(RowsOf(applied[r]))
          BY <2>1, <3>1 DEF WriteOK
        <4>2. req'[r].pc = "writing" /\ applied'[r] = applied[r] /\ calm'[r] = calm[r]
              /\ req'[r].write \in {"new", "sent", "landed"}
          BY <1>1, <1>3, <3>1, <4>1
        <4>3. Guarded(applied'[r], req'[r].who, req'[r].batch, req'[r].n)
          BY <1>3, <4>1, <4>2
        <4> QED BY <4>1, <4>2, <4>3 DEF WriteOK
      <3>2. CASE req[r].pc # "writing"
        BY <1>1, <1>3, <2>1, <3>2 DEF WriteOK
      <3> QED BY <3>1, <3>2
    <2> QED BY <2>2, <2>3
  <1>5. WritesOK'
    BY <1>4 DEF WritesOK
  <1> QED BY <1>0, <1>1, <1>2, <1>5 DEF Shape, DataTypeOK

\* A restart keeps the shape.
LEMMA ShapeRestart == ASSUME Shape, Restart PROVE Shape'
  <1>0. DataTypeOK
    BY DEF Shape
  <1>1. /\ \E left \in SUBSET {applied[r] : r \in {q \in Requests : req[q].write \in {"new", "sent"}}} :
              orphans' = orphans \cup left
        /\ tally' = parseReactions(<<>>) /\ deltas' = <<>> /\ overgrown' = FALSE
        /\ req' = [r \in Requests |-> NoRequest] /\ applied' = [r \in Requests |-> <<>>]
        /\ calm' = [r \in Requests |-> {}] /\ known' = {} /\ quiet' = [i \in ReadIds |-> {}]
        /\ acked' = Forgotten(PairsInFlight)
        /\ UNCHANGED <<log, asked>>
    BY Zenon DEF Restart
  <1>2. orphans' \in SUBSET Seq(Delta)
    BY <1>0, <1>1 DEF DataTypeOK
  <1>3. tally' \in Tally
    BY <1>1, EmptyLog, ParsedType
  <1>4. acked' \in [Pairs -> Heard]
    BY <1>0, <1>1, HeardFacts
  <1>5. DataTypeOK'
    <2>1. log' \in Seq(Row) /\ deltas' \in Seq(Delta) /\ applied' \in [Requests -> Seq(Delta)]
      BY <1>0, <1>1, EmptyLog DEF DataTypeOK
    <2> QED BY <1>0, <1>1, <1>2, <1>3, <1>4, <2>1 DEF DataTypeOK
  <1>6. WritesOK'
    BY <1>1 DEF WritesOK, BodyKnown, WriteOK, NoRequest
  <1> QED BY <1>5, <1>6 DEF Shape

\* Every step of the endpoint keeps the shape.
LEMMA ShapeNext ==
    ASSUME Shape, ControlInv, CacheTypeOK', [ReactionsNext]_vars
    PROVE  Shape'
  <1>1. ASSUME NEW r \in Requests, Submit(r) \/ Decide(r) \/ Land(r) PROVE Shape'
    BY <1>1, ShapeRequest
  <1>2. ASSUME NEW r \in Requests, RespondOk(r) \/ InsertFails(r) PROVE Shape'
    BY <1>2, ShapeEnds
  <1>3. ASSUME NEW i \in ReadIds, SheetServes(i) \/ RefreshEnds(i) \/ RefreshFails(i) PROVE Shape'
    BY <1>3, ShapeRead
  <1>4. CASE PageStep
    <2>1. LoadNoted /\ UNCHANGED <<log, orphans, tally, deltas, overgrown, req, applied, calm, known, acked>>
      BY <1>4 DEF PageStep, sheetVars, memoryVars, requestVars
    <2>2. asked' \in [ReadIds -> [from : Nat, rows : Seq(Row)]] /\ quiet' \in [ReadIds -> SUBSET Pairs]
      BY <2>1, NotedTypes DEF Shape
    <2>3. WritesOK'
      BY <2>1, WritesSame DEF Shape
    <2> QED BY <2>1, <2>2, <2>3 DEF Shape, DataTypeOK
  <1>5. CASE OrphanLands
    BY <1>5, ShapeOrphan
  <1>6. CASE Clock
    BY <1>6, ShapeClock
  <1>7. CASE Restart
    BY <1>7, ShapeRestart
  <1>8. CASE Shop \/ UNCHANGED vars
    <2>1. UNCHANGED <<log, orphans, asked, tally, deltas, overgrown, req, applied, calm, known, quiet, acked>>
      BY <1>8 DEF Shop, sheetVars, memoryVars, requestVars, historyVars, vars
    <2>2. WritesOK'
      BY <2>1, WritesSame DEF Shape
    <2> QED BY <2>1, <2>2 DEF Shape, DataTypeOK
  <1> QED BY <1>1, <1>2, <1>3, <1>4, <1>5, <1>6, <1>7, <1>8 DEF ReactionsNext

\* Whatever the requests, the loads, the sheet and the process do, the state keeps its shape.
LEMMA ShapeHolds == ReactionsSpec => [](CacheInv /\ ControlInv /\ Shape)
  <1>1. ReactionsSpec => []CacheInv
    BY ReactionsImplementCache, CacheInvHolds, PTL
  <1>2. CacheInv => CacheTypeOK
    BY DEF CacheInv
  <1>3. CacheInv' => CacheTypeOK'
    BY DEF CacheInv
  <1>4. Shape /\ ControlInv /\ CacheInv' /\ [ReactionsNext]_vars => Shape'
    BY <1>3, ShapeNext
  <1> QED BY <1>1, <1>4, ShapeInit, ControlHolds, PTL DEF ReactionsSpec

\* Whatever requests, loads, sheet and process do, all state has its declared type:
\* handleReactions() and the cache keep well-formed tallies, deltas, guards and rows.
THEOREM ReactionsTypeHolds == ReactionsSpec => []ReactionsTypeOK
  <1>1. CacheInv /\ ControlInv /\ Shape => ReactionsTypeOK
    <2> SUFFICES ASSUME CacheInv, ControlInv, Shape PROVE ReactionsTypeOK
      OBVIOUS
    <2>1. CacheTypeOK /\ req \in [Requests -> RequestState] /\ submits \in 0..MaxSubmits
      BY DEF CacheInv, ControlInv, ControlTypeOK
    <2>2. \A i \in ReadIds : asked[i].from \in Nat /\ asked[i].rows \in Seq(Row)
      BY DEF Shape, DataTypeOK
    <2>3. acked \in [Pairs -> Reaction \cup {"unknown", "overtaken"}]
      BY DEF Shape, DataTypeOK, Heard
    <2> QED BY <2>1, <2>2, <2>3 DEF Shape, DataTypeOK, ReactionsTypeOK
  <1> QED BY <1>1, ShapeHolds, PTL

PairsBy(r) == PairsOf(RowsOf(applied[r]))
PairOf(d) == <<d.who, d.product>>

-----------------------------------------------------------------------------
(* the log and the answers                                                 *)

Landed(pair) == \E r \in Requests : req[r].write = "landed" /\ pair \in PairsBy(r)

\* Only a write in flight can be overtaken.
OvertakenFlies == \A pair \in Pairs : acked[pair] = "overtaken" => pair \in PairsInFlight

\* An insert that landed is on top, but for the orphans.
LandedOnTop ==
    \A r \in Requests : \A pair \in PairsBy(r) :
        req[r].write = "landed" /\ pair \notin OrphanPairs /\ acked[pair] # "overtaken"
            => Current(log, pair[1], pair[2]) = Current(RowsOf(applied[r]), pair[1], pair[2])

\* What was answered is what the log says until another insert of the pair lands.
AnswersStand ==
    \A pair \in Pairs \ OrphanPairs :
        acked[pair] \in Reaction /\ ~Landed(pair) => Current(log, pair[1], pair[2]) = acked[pair]

AnswersInv == OvertakenFlies /\ LandedOnTop /\ AnswersStand

-----------------------------------------------------------------------------
(* memory                                                                  *)

AtRest ==
    /\ known \cap Unsettled = {}
    /\ \A i \in ReadIds : quiet[i] \cap Unsettled = {}
    /\ \A r \in Requests : calm[r] \cap OrphanPairs = {}

\* A delta applied just now belongs to a write that was not sent yet.
YoungFlies ==
    \A k \in 1..Len(deltas) : deltas[k].age = 0 =>
        \E r \in Requests : /\ req[r].write = "new" /\ req[r].n = deltas[k].n
                            /\ PairOf(deltas[k]) \in PairsBy(r)

\* A load replays no delta of a pair that was at rest since it was sent.
QuietNotReplayed ==
    \A i \in ReadIds : reads[i].phase # "off" =>
        \A k \in 1..Len(deltas) : PairOf(deltas[k]) \in quiet[i] => deltas[k].age > reads[i].age

\* What a load was given of such a pair is what the log says.
QuietRowsCurrent ==
    Len(log) <= WindowRows =>
        \A i \in ReadIds : reads[i].phase = "served" =>
            \A pair \in quiet[i] : Current(asked[i].rows, pair[1], pair[2]) = Current(log, pair[1], pair[2])

KnownVotes ==
    Len(log) <= WindowRows =>
        \A pair \in known : tally.vote[pair[1]][pair[2]] = Current(log, pair[1], pair[2])

\* A calm write knows what it found, and memory holds what it wrote.
CalmVote(r) ==
    \A k \in 1..Len(applied[r]) : PairOf(applied[r][k]) \in calm[r] =>
        LET d == applied[r][k]
        IN  /\ tally.vote[d.who][d.product] = d.next
            /\ Len(log) <= WindowRows =>
                 Current(log, d.who, d.product) = IF req[r].write = "landed" THEN d.next ELSE d.prev

CalmVotes == \A r \in Requests : CalmVote(r)

Covered(p) == \A v \in Visitors : <<v, p>> \in known \cup UNION {calm[r] : r \in Requests}

VotesFor(t, p) == Cardinality({v \in Visitors : t.vote[v][p] = "like"})

LikesCount == \A p \in Products : Covered(p) => tally.likes[p] = VotesFor(tally, p)

MemoryInv ==
    AtRest /\ YoungFlies /\ QuietNotReplayed /\ QuietRowsCurrent /\ KnownVotes /\ CalmVotes /\ LikesCount

\* The writes in flight share no pair.
Flights ==
    /\ PairsInFlight = UNION {PairsBy(r) : r \in Requests}
    /\ \A r, q \in Requests : r # q => PairsBy(r) \cap PairsBy(q) = {}
    /\ \A r \in Requests : PairsBy(r) \subseteq Pairs
    /\ \A r \in Requests : req[r].pc # "writing" => applied[r] = <<>> /\ PairsBy(r) = {} /\ req[r].write = "none"

\* No delta, no pair.
LEMMA NoPairs == PairsOf(RowsOf(<<>>)) = {}
  <1>1. RowsOf(<<>>) = <<>>
    BY DEF RowsOf
  <1> QED BY <1>1 DEF PairsOf

\* The guards keep the pairs in flight apart.
LEMMA FlightFacts == Shape /\ ControlInv => Flights
  <1> SUFFICES ASSUME Shape, ControlInv PROVE Flights
    OBVIOUS
  <1>1. \A r \in Requests : /\ WriteOK(req[r], applied[r], calm[r]) /\ applied[r] \in Seq(Delta)
                            /\ req[r].write # "none" => req[r].pc = "writing"
    BY DEF Shape, WritesOK, DataTypeOK, ControlInv, InsertIsWriting, Writing
  <1>2. \A r \in Requests : req[r].pc # "writing" => applied[r] = <<>> /\ PairsBy(r) = {} /\ req[r].write = "none"
    BY <1>1, NoPairs DEF WriteOK, PairsBy
  <1>3. ASSUME NEW r \in Requests PROVE PairsBy(r) \subseteq Pairs
    BY <1>1, RowsFacts DEF PairsBy
  <1>4. ASSUME NEW r \in Requests, req[r].pc = "writing"
        PROVE  PairsBy(r) \subseteq GuardsOf(req[r].who, req[r].batch)
    <2> SUFFICES ASSUME NEW pair \in PairsBy(r) PROVE pair \in GuardsOf(req[r].who, req[r].batch)
      OBVIOUS
    <2>1. PICK v \in Visitors, p \in Products : pair = <<v, p>>
      BY <1>3 DEF Pairs
    <2>2. PICK k \in 1..Len(applied[r]) : applied[r][k].who = v /\ applied[r][k].product = p
      BY <1>1, <2>1, RowsFacts DEF PairsBy
    <2>3. Guarded(applied[r], req[r].who, req[r].batch, req[r].n)
      BY <1>1, <1>4 DEF WriteOK
    <2> QED BY <2>1, <2>2, <2>3 DEF Guarded
  <1>5. ASSUME NEW r \in Requests, NEW q \in Requests, r # q PROVE PairsBy(r) \cap PairsBy(q) = {}
    <2>1. CASE req[r].pc = "writing" /\ req[q].pc = "writing"
      <3>1. GuardsOf(req[r].who, req[r].batch) \cap GuardsOf(req[q].who, req[q].batch) = {}
        BY <1>5, <2>1 DEF ControlInv, GuardExclusive, Writing
      <3> QED BY <1>4, <2>1, <3>1
    <2>2. CASE ~(req[r].pc = "writing" /\ req[q].pc = "writing")
      BY <1>2, <2>2
    <2> QED BY <2>1, <2>2
  <1>6. PairsInFlight = UNION {PairsBy(r) : r \in Requests}
    <2>1. PairsInFlight = UNION {PairsBy(r) : r \in {q \in Requests : req[q].pc = "writing"}}
      BY DEF PairsInFlight, PairsBy, Writing
    <2> QED BY <1>2, <2>1
  <1> QED BY <1>2, <1>3, <1>5, <1>6 DEF Flights

\* The same after a step.
LEMMA FlightsNext == Shape' /\ ControlInv' => Flights'
  BY FlightFacts, PTL

\* Nothing was answered yet.
LEMMA AnswersInit == ReactionsInit => AnswersInv
  <1> SUFFICES ASSUME ReactionsInit PROVE AnswersInv
    OBVIOUS
  <1>1. log = <<>> /\ req = [r \in Requests |-> NoRequest] /\ acked = [pair \in Pairs |-> "none"]
    BY DEF ReactionsInit
  <1>2. \A r \in Requests : req[r].write = "none"
    BY <1>1 DEF NoRequest
  <1>3. \A v \in Visitors, p \in Products : Current(log, v, p) = "none"
    <2>1. log \in Seq(Row) /\ 1..Len(log) = {}
      BY <1>1, EmptyLog
    <2> QED BY <2>1, NoEventYet
  <1>4. \A pair \in Pairs : Current(log, pair[1], pair[2]) = "none"
    BY <1>3 DEF Pairs
  <1>5. OvertakenFlies
    BY <1>1 DEF OvertakenFlies
  <1>6. LandedOnTop
    BY <1>2 DEF LandedOnTop
  <1>7. AnswersStand
    BY <1>1, <1>4 DEF AnswersStand
  <1> QED BY <1>5, <1>6, <1>7 DEF AnswersInv

\* Steps that leave the log, the answers and the inserts that landed alone.
LEMMA AnswersSame ==
    ASSUME AnswersInv, UNCHANGED <<log, orphans, acked, applied>>, Flights, Flights',
           \A r \in Requests : req'[r].write = "landed" <=> req[r].write = "landed"
    PROVE  AnswersInv'
  <1>1. \A r \in Requests : PairsBy(r)' = PairsBy(r)
    BY DEF PairsBy
  <1>2. PairsInFlight' = PairsInFlight
    BY <1>1 DEF Flights
  <1>3. OrphanPairs' = OrphanPairs
    BY DEF OrphanPairs
  <1>4. OvertakenFlies'
    BY <1>2 DEF OvertakenFlies, AnswersInv
  <1>5. LandedOnTop'
    BY <1>1, <1>3 DEF LandedOnTop, AnswersInv
  <1>6. \A pair : Landed(pair)' <=> Landed(pair)
    BY <1>1 DEF Landed
  <1>7. AnswersStand'
    BY <1>3, <1>6 DEF AnswersStand, AnswersInv
  <1> QED BY <1>4, <1>5, <1>7 DEF AnswersInv

\* A write that starts answers nothing.
LEMMA AnswersDecide ==
    ASSUME AnswersInv, Shape, ControlInv, Flights, Flights', NEW r \in Requests, Decide(r)
    PROVE  AnswersInv'
  <1>0. req[r].pc = "getting" /\ UNCHANGED <<log, orphans, acked>>
    BY DEF Decide, sheetVars
  <1>1. applied[r] = <<>> /\ PairsBy(r) = {} /\ req[r].write = "none"
    BY <1>0 DEF Flights
  <1>2. CASE Answer(r)
    <2>1. OthersStay(r) /\ req'[r] = NoRequest /\ applied'[r] = <<>> /\ applied' \in [Requests -> Seq(Delta)]
      BY <1>2, AnswerShape
    <2>2. applied' = applied
      BY <1>1, <2>1 DEF OthersStay, Shape, DataTypeOK
    <2>3. \A q \in Requests : req'[q].write = "landed" <=> req[q].write = "landed"
      BY <1>1, <2>1 DEF OthersStay, NoRequest
    <2> QED BY <1>0, <2>2, <2>3, AnswersSame
  <1>3. CASE StartWrite(r)
    <2>1. OthersStay(r) /\ req'[r].write = "new"
      BY <1>0, <1>3, StartFacts
    <2>2. \A q \in Requests \ {r} : PairsBy(q)' = PairsBy(q) /\ req'[q] = req[q] /\ applied'[q] = applied[q]
      BY <2>1 DEF OthersStay, PairsBy
    <2>3. PairsInFlight \subseteq PairsInFlight'
      BY <1>1, <2>2 DEF Flights
    <2>4. OrphanPairs' = OrphanPairs
      BY <1>0 DEF OrphanPairs
    <2>5. OvertakenFlies'
      BY <1>0, <2>3 DEF OvertakenFlies, AnswersInv
    <2>6. LandedOnTop'
      BY <1>0, <2>1, <2>2, <2>4 DEF LandedOnTop, AnswersInv
    <2>7. \A pair : Landed(pair)' <=> Landed(pair)
      BY <1>1, <2>1, <2>2 DEF Landed
    <2>8. AnswersStand'
      BY <1>0, <2>4, <2>7 DEF AnswersStand, AnswersInv
    <2> QED BY <2>5, <2>6, <2>8 DEF AnswersInv
  <1> QED BY <1>2, <1>3, Zenon DEF Decide

\* What inserting the rows of deltas does to the log.
LEMMA LogTakes ==
    ASSUME NEW ds \in Seq(Delta), log \in Seq(Row), log' = insertReactionRows(log, RowsOf(ds))
    PROVE  \A pair \in Pairs :
              Current(log, pair[1], pair[2])' =
                 IF pair \in PairsOf(RowsOf(ds)) THEN Current(RowsOf(ds), pair[1], pair[2])
                 ELSE Current(log, pair[1], pair[2])
  <1> SUFFICES ASSUME NEW pair \in Pairs
               PROVE  Current(log', pair[1], pair[2]) =
                        IF pair \in PairsOf(RowsOf(ds)) THEN Current(RowsOf(ds), pair[1], pair[2])
                        ELSE Current(log, pair[1], pair[2])
    BY DEF Current
  <1>1. PICK v \in Visitors, p \in Products : pair = <<v, p>>
    BY DEF Pairs
  <1>2. RowsOf(ds) \in Seq(Row)
    BY RowsFacts
  <1>3. PICK rows, below : rows = RowsOf(ds) /\ below = log
    OBVIOUS
  <1>4. rows \in Seq(Row) /\ below \in Seq(Row)
    BY <1>2, <1>3
  <1>5. /\ <<v, p>> \in PairsOf(rows) => Current(insertReactionRows(below, rows), v, p) = Current(rows, v, p)
        /\ <<v, p>> \notin PairsOf(rows) => Current(insertReactionRows(below, rows), v, p) = Current(below, v, p)
    <2>1. CASE <<v, p>> \in PairsOf(rows)
      <3>1. Current(insertReactionRows(below, rows), v, p) = Current(rows, v, p)
        BY <1>4, <2>1, InsertedOnTop
      <3> QED BY <2>1, <3>1
    <2>2. CASE <<v, p>> \notin PairsOf(rows)
      <3>1. Current(insertReactionRows(below, rows), v, p) = Current(below, v, p)
        BY <1>4, <2>2, InsertedOnTop
      <3> QED BY <2>2, <3>1
    <2> QED BY <2>1, <2>2
  <1> QED BY <1>1, <1>3, <1>5

\* An insert that lands is on top.
LEMMA AnswersLand ==
    ASSUME AnswersInv, Shape, ControlInv, Flights, Flights', NEW r \in Requests, Land(r)
    PROVE  AnswersInv'
  <1>1. /\ log' = insertReactionRows(log, RowsOf(applied[r])) /\ req[r].write = "sent"
        /\ req' = [req EXCEPT ![r].write = "landed"] /\ UNCHANGED <<orphans, applied, acked>>
    BY DEF Land, historyVars
  <1>2. req'[r].write = "landed" /\ \A q \in Requests \ {r} : req'[q] = req[q]
    BY <1>1 DEF ControlInv, ControlTypeOK, RequestState
  <1>3. applied[r] \in Seq(Delta) /\ log \in Seq(Row)
    BY DEF Shape, DataTypeOK
  <1>4. \A pair \in Pairs :
           Current(log', pair[1], pair[2]) =
              IF pair \in PairsBy(r) THEN Current(RowsOf(applied[r]), pair[1], pair[2])
              ELSE Current(log, pair[1], pair[2])
    BY <1>1, <1>3, LogTakes DEF PairsBy
  <1>5. /\ \A q \in Requests : PairsBy(q)' = PairsBy(q) /\ PairsBy(q) \subseteq Pairs
        /\ \A q \in Requests \ {r} : PairsBy(q) \cap PairsBy(r) = {}
    BY <1>1 DEF PairsBy, Flights
  <1>6. PairsInFlight' = PairsInFlight /\ OrphanPairs' = OrphanPairs
    BY <1>1, <1>5 DEF OrphanPairs, Flights
  <1>7. OvertakenFlies'
    BY <1>1, <1>6 DEF OvertakenFlies, AnswersInv
  <1>8. LandedOnTop'
    <2> SUFFICES ASSUME NEW q \in Requests, NEW pair \in PairsBy(q),
                        req'[q].write = "landed", pair \notin OrphanPairs, acked[pair] # "overtaken"
                 PROVE  Current(log', pair[1], pair[2]) = Current(RowsOf(applied[q]), pair[1], pair[2])
      BY <1>1, <1>5, <1>6 DEF LandedOnTop
    <2>1. CASE q = r
      BY <1>4, <1>5, <2>1
    <2>2. CASE q # r
      <3>1. Current(log, pair[1], pair[2]) = Current(RowsOf(applied[q]), pair[1], pair[2])
        BY <1>2, <2>2 DEF LandedOnTop, AnswersInv
      <3> QED BY <1>4, <1>5, <2>2, <3>1
    <2> QED BY <2>1, <2>2
  <1>9. AnswersStand'
    <2> SUFFICES ASSUME NEW pair \in Pairs \ OrphanPairs, acked[pair] \in Reaction, ~Landed(pair)'
                 PROVE  Current(log', pair[1], pair[2]) = acked[pair]
      BY <1>1, <1>6 DEF AnswersStand
    <2>1. pair \notin PairsBy(r)
      BY <1>2, <1>5 DEF Landed
    <2>2. ~Landed(pair)
      BY <1>1, <1>2, <1>5 DEF Landed
    <2>3. Current(log, pair[1], pair[2]) = acked[pair]
      BY <2>2 DEF AnswersStand, AnswersInv
    <2> QED BY <1>4, <2>1, <2>3
  <1> QED BY <1>7, <1>8, <1>9 DEF AnswersInv

\* A request that ends takes its pairs out of the air.
LEMMA AnswerEnds ==
    ASSUME Shape, ControlInv, Flights, Flights', NEW r \in Requests, Answer(r)
    PROVE  /\ req'[r].write = "none" /\ PairsBy(r)' = {} /\ OthersStay(r)
           /\ \A q \in Requests \ {r} : PairsBy(q)' = PairsBy(q)
           /\ PairsInFlight' = PairsInFlight \ PairsBy(r)
  <1>1. OthersStay(r) /\ req'[r] = NoRequest /\ applied'[r] = <<>>
    BY AnswerShape
  <1>2. \A q \in Requests \ {r} : PairsBy(q)' = PairsBy(q)
    BY <1>1 DEF OthersStay, PairsBy
  <1>3. PairsBy(r)' = {}
    BY <1>1, NoPairs DEF PairsBy
  <1>4. req'[r].write = "none"
    BY <1>1 DEF NoRequest
  <1>5. PairsInFlight' = PairsInFlight \ PairsBy(r)
    BY <1>2, <1>3 DEF Flights
  <1> QED BY <1>1, <1>2, <1>3, <1>4, <1>5

\* A write that is answered leaves its rows on top.
LEMMA AnswersRespond ==
    ASSUME AnswersInv, Shape, ControlInv, Flights, Flights', NEW r \in Requests, RespondOk(r)
    PROVE  AnswersInv'
  <1>1. /\ Answer(r) /\ req[r].write = "landed" /\ acked' = Acknowledged(RowsOf(applied[r]))
        /\ UNCHANGED <<log, orphans>>
    BY DEF RespondOk, sheetVars
  <1>2. /\ req'[r].write = "none" /\ PairsBy(r)' = {} /\ OthersStay(r)
        /\ \A q \in Requests \ {r} : PairsBy(q)' = PairsBy(q)
        /\ PairsInFlight' = PairsInFlight \ PairsBy(r)
    BY <1>1, AnswerEnds
  <1>3. OrphanPairs' = OrphanPairs
    BY <1>1 DEF OrphanPairs
  <1>4. \A pair \in Pairs :
           acked'[pair] = IF pair \notin PairsBy(r) THEN acked[pair]
                          ELSE IF pair \in OrphanPairs \/ acked[pair] = "overtaken" THEN "unknown"
                          ELSE Current(RowsOf(applied[r]), pair[1], pair[2])
    BY <1>1 DEF Acknowledged, PairsBy
  <1>5. \A pair \in Pairs : Current(RowsOf(applied[r]), pair[1], pair[2]) \in Reaction
    <2>1. RowsOf(applied[r]) \in Seq(Row)
      BY RowsFacts DEF Shape, DataTypeOK
    <2> QED BY <2>1, CurrentType
  <1>6. "unknown" # "overtaken" /\ "unknown" \notin Reaction /\ "overtaken" \notin Reaction
    BY DEF Reaction
  <1>7. OvertakenFlies'
    BY <1>2, <1>4, <1>5, <1>6 DEF OvertakenFlies, AnswersInv
  <1>8. LandedOnTop'
    <2> SUFFICES ASSUME NEW q \in Requests, NEW pair \in PairsBy(q)',
                        req'[q].write = "landed", pair \notin OrphanPairs, acked'[pair] # "overtaken"
                 PROVE  Current(log, pair[1], pair[2]) = Current(RowsOf(applied'[q]), pair[1], pair[2])
      BY <1>1, <1>3 DEF LandedOnTop
    <2>1. q # r
      BY <1>2
    <2>2. pair \in PairsBy(q) /\ pair \in Pairs /\ pair \notin PairsBy(r) /\ req'[q] = req[q] /\ applied'[q] = applied[q]
      BY <1>2, <2>1 DEF Flights, OthersStay
    <2>3. acked[pair] # "overtaken"
      BY <1>4, <2>2
    <2> QED BY <2>2, <2>3 DEF LandedOnTop, AnswersInv
  <1>9. AnswersStand'
    <2> SUFFICES ASSUME NEW pair \in Pairs \ OrphanPairs, acked'[pair] \in Reaction, ~Landed(pair)'
                 PROVE  Current(log, pair[1], pair[2]) = acked'[pair]
      BY <1>1, <1>3 DEF AnswersStand
    <2>1. CASE pair \in PairsBy(r)
      <3>1. acked[pair] # "overtaken" /\ acked'[pair] = Current(RowsOf(applied[r]), pair[1], pair[2])
        BY <1>4, <1>6, <2>1
      <3> QED BY <1>1, <2>1, <3>1 DEF LandedOnTop, AnswersInv
    <2>2. CASE pair \notin PairsBy(r)
      <3>1. ~Landed(pair)
        BY <1>2, <2>2 DEF Landed, OthersStay
      <3>2. acked'[pair] = acked[pair]
        BY <1>4, <2>2
      <3> QED BY <3>1, <3>2 DEF AnswersStand, AnswersInv
    <2> QED BY <2>1, <2>2
  <1> QED BY <1>7, <1>8, <1>9 DEF AnswersInv

\* A write that fails forgets what its pairs were told, where it may land yet.
LEMMA AnswersFail ==
    ASSUME AnswersInv, Shape, ControlInv, Flights, Flights', NEW r \in Requests, InsertFails(r)
    PROVE  AnswersInv'
  <1>1. Answer(r) /\ UNCHANGED log
    BY DEF InsertFails
  <1>2. /\ req'[r].write = "none" /\ PairsBy(r)' = {} /\ OthersStay(r)
        /\ \A q \in Requests \ {r} : PairsBy(q)' = PairsBy(q)
        /\ PairsInFlight' = PairsInFlight \ PairsBy(r)
    BY <1>1, AnswerEnds
  <1>3. \/ /\ req[r].write \in {"new", "sent"} /\ orphans' = orphans
           /\ acked' = Forgotten({pair \in PairsBy(r) : acked[pair] = "overtaken"})
        \/ orphans' = orphans \cup {applied[r]} /\ acked' = Forgotten(PairsBy(r))
        \/ orphans' = orphans /\ acked' = Forgotten(PairsBy(r))
    BY DEF InsertFails, PairsBy
  <1>4. OrphanPairs \subseteq OrphanPairs'
    BY <1>3 DEF OrphanPairs
  <1>5. \A pair \in Pairs : /\ pair \notin PairsBy(r) => acked'[pair] = acked[pair]
                            /\ pair \in PairsBy(r) => acked'[pair] # "overtaken"
                            /\ acked'[pair] \in Reaction => acked'[pair] = acked[pair]
                            /\ pair \in PairsBy(r) /\ acked'[pair] \in Reaction => req[r].write # "landed"
    <2>1. "unknown" # "overtaken" /\ "unknown" \notin Reaction
      BY DEF Reaction
    <2>2. \A S : \A pair \in Pairs : Forgotten(S)[pair] = IF pair \in S THEN "unknown" ELSE acked[pair]
      BY DEF Forgotten
    <2> QED BY <1>3, <2>1, <2>2
  <1>6. OvertakenFlies'
    BY <1>2, <1>5 DEF OvertakenFlies, AnswersInv
  <1>7. LandedOnTop'
    <2> SUFFICES ASSUME NEW q \in Requests, NEW pair \in PairsBy(q)',
                        req'[q].write = "landed", pair \notin OrphanPairs', acked'[pair] # "overtaken"
                 PROVE  Current(log, pair[1], pair[2]) = Current(RowsOf(applied'[q]), pair[1], pair[2])
      BY <1>1 DEF LandedOnTop
    <2>1. q # r
      BY <1>2
    <2>2. pair \in PairsBy(q) /\ pair \in Pairs /\ pair \notin PairsBy(r) /\ req'[q] = req[q] /\ applied'[q] = applied[q]
      BY <1>2, <2>1 DEF Flights, OthersStay
    <2>3. acked[pair] # "overtaken" /\ pair \notin OrphanPairs
      BY <1>4, <1>5, <2>2
    <2> QED BY <2>2, <2>3 DEF LandedOnTop, AnswersInv
  <1>8. AnswersStand'
    <2> SUFFICES ASSUME NEW pair \in Pairs \ OrphanPairs', acked'[pair] \in Reaction, ~Landed(pair)'
                 PROVE  Current(log, pair[1], pair[2]) = acked'[pair]
      BY <1>1 DEF AnswersStand
    <2>1. pair \in Pairs \ OrphanPairs /\ acked'[pair] = acked[pair] /\ acked[pair] \in Reaction
      BY <1>4, <1>5
    <2>2. ~Landed(pair)
      <3> SUFFICES ASSUME NEW q \in Requests, req[q].write = "landed", pair \in PairsBy(q) PROVE FALSE
        BY DEF Landed
      <3>1. CASE q = r
        BY <1>5, <3>1
      <3>2. CASE q # r
        BY <1>2, <3>2 DEF Landed, OthersStay
      <3> QED BY <3>1, <3>2
    <2> QED BY <2>1, <2>2 DEF AnswersStand, AnswersInv
  <1> QED BY <1>6, <1>7, <1>8 DEF AnswersInv

\* An orphan that lands overtakes the writes of its pairs.
LEMMA AnswersOrphan ==
    ASSUME AnswersInv, Shape, ControlInv, Flights, Flights', OrphanLands
    PROVE  AnswersInv'
  <1>1. PICK ds \in orphans :
          /\ log' = insertReactionRows(log, RowsOf(ds)) /\ orphans' = orphans \ {ds}
          /\ acked' = Overtaken(PairsOf(RowsOf(ds)))
          /\ UNCHANGED requestVars
    BY Zenon DEF OrphanLands
  <1>2. UNCHANGED <<req, applied>>
    BY <1>1 DEF requestVars
  <1>3. ds \in Seq(Delta) /\ log \in Seq(Row)
    BY <1>1 DEF Shape, DataTypeOK
  <1> DEFINE pairs == PairsOf(RowsOf(ds))
  <1>4. \A pair \in Pairs :
           Current(log', pair[1], pair[2]) =
              IF pair \in pairs THEN Current(RowsOf(ds), pair[1], pair[2])
              ELSE Current(log, pair[1], pair[2])
    BY <1>1, <1>3, LogTakes
  <1>5. \A q \in Requests : PairsBy(q)' = PairsBy(q) /\ PairsBy(q) \subseteq Pairs
    BY <1>2 DEF PairsBy, Flights
  <1>6. PairsInFlight' = PairsInFlight
    BY <1>5 DEF Flights
  <1>7. OrphanPairs \ pairs \subseteq OrphanPairs'
    BY <1>1 DEF OrphanPairs
  <1>8. \A pair \in Pairs :
           acked'[pair] = IF pair \notin pairs THEN acked[pair]
                          ELSE IF pair \in PairsInFlight THEN "overtaken" ELSE "unknown"
    BY <1>1 DEF Overtaken
  <1> HIDE DEF pairs
  <1>9. OvertakenFlies'
    BY <1>6, <1>8 DEF OvertakenFlies, AnswersInv
  <1>10. LandedOnTop'
    <2> SUFFICES ASSUME NEW q \in Requests, NEW pair \in PairsBy(q),
                        req[q].write = "landed", pair \notin OrphanPairs', acked'[pair] # "overtaken"
                 PROVE  Current(log', pair[1], pair[2]) = Current(RowsOf(applied[q]), pair[1], pair[2])
      BY <1>2, <1>5 DEF LandedOnTop
    <2>1. pair \in Pairs /\ pair \in PairsInFlight
      BY <1>5 DEF Flights
    <2>2. pair \notin pairs
      BY <1>8, <2>1
    <2>3. pair \notin OrphanPairs /\ acked[pair] # "overtaken"
      BY <1>7, <1>8, <2>1, <2>2
    <2> QED BY <1>4, <2>1, <2>2, <2>3 DEF LandedOnTop, AnswersInv
  <1>11. AnswersStand'
    <2> SUFFICES ASSUME NEW pair \in Pairs \ OrphanPairs', acked'[pair] \in Reaction, ~Landed(pair)'
                 PROVE  Current(log', pair[1], pair[2]) = acked'[pair]
      BY DEF AnswersStand
    <2>1. pair \notin pairs
      BY <1>8 DEF Reaction
    <2>2. pair \notin OrphanPairs /\ acked'[pair] = acked[pair]
      BY <1>7, <1>8, <2>1
    <2>3. ~Landed(pair)
      BY <1>2, <1>5 DEF Landed
    <2> QED BY <1>4, <2>1, <2>2, <2>3 DEF AnswersStand, AnswersInv
  <1> QED BY <1>9, <1>10, <1>11 DEF AnswersInv

\* A restart forgets what the pairs in flight were told.
LEMMA AnswersRestart ==
    ASSUME AnswersInv, Shape, Flights, Flights', Restart
    PROVE  AnswersInv'
  <1>1. /\ \E left : orphans' = orphans \cup left
        /\ req' = [r \in Requests |-> NoRequest] /\ acked' = Forgotten(PairsInFlight) /\ UNCHANGED log
    BY Zenon DEF Restart
  <1>2. OrphanPairs \subseteq OrphanPairs'
    BY <1>1 DEF OrphanPairs
  <1>3. \A r \in Requests : req'[r].write = "none"
    BY <1>1 DEF NoRequest
  <1>4. \A pair \in Pairs : acked'[pair] = IF pair \in PairsInFlight THEN "unknown" ELSE acked[pair]
    BY <1>1 DEF Forgotten
  <1>5. OvertakenFlies'
    BY <1>4 DEF OvertakenFlies, AnswersInv
  <1>6. LandedOnTop'
    BY <1>3 DEF LandedOnTop
  <1>7. AnswersStand'
    <2> SUFFICES ASSUME NEW pair \in Pairs \ OrphanPairs', acked'[pair] \in Reaction
                 PROVE  Current(log, pair[1], pair[2]) = acked'[pair]
      BY <1>1 DEF AnswersStand
    <2>1. pair \notin PairsInFlight
      BY <1>4 DEF Reaction
    <2>2. ~Landed(pair)
      BY <2>1 DEF Landed, Flights
    <2> QED BY <1>2, <1>4, <2>1, <2>2 DEF AnswersStand, AnswersInv
  <1> QED BY <1>5, <1>6, <1>7 DEF AnswersInv

\* Every step keeps log and answers together.
LEMMA AnswersNext ==
    ASSUME AnswersInv, Shape, ControlInv, Flights, Flights', [ReactionsNext]_vars
    PROVE  AnswersInv'
  <1>1. ASSUME NEW r \in Requests, Submit(r) PROVE AnswersInv'
    <2>1. PICK v \in Visitors, batch \in Batches :
            req' = [req EXCEPT ![r] = [NoRequest EXCEPT !.pc = "getting", !.who = v,
                                                        !.batch = batch, !.n = submits + 1]]
      BY <1>1 DEF Submit
    <2>2. UNCHANGED <<log, orphans, applied, acked>> /\ req[r].pc = "idle"
      BY <1>1 DEF Submit, sheetVars
    <2>3. \A q \in Requests \ {r} : req'[q] = req[q]
      BY <2>1 DEF ControlInv, ControlTypeOK
    <2>4. req'[r].write = "none" /\ req[r].write = "none"
      BY <2>1, <2>2 DEF ControlInv, ControlTypeOK, NoRequest, Flights
    <2> QED BY <2>2, <2>3, <2>4, AnswersSame
  <1>2. ASSUME NEW r \in Requests, Decide(r) \/ Land(r) \/ RespondOk(r) \/ InsertFails(r) PROVE AnswersInv'
    BY <1>2, AnswersDecide, AnswersLand, AnswersRespond, AnswersFail
  <1>3. CASE OrphanLands
    BY <1>3, AnswersOrphan
  <1>4. CASE Clock
    <2>1. UNCHANGED <<log, orphans, applied, acked>>
      BY <1>4 DEF Clock, sheetVars, historyVars
    <2>2. \A r \in Requests : req'[r].write = IF req[r].write = "new" THEN "sent" ELSE req[r].write
      BY <1>4 DEF Clock, ControlInv, ControlTypeOK, RequestState
    <2>3. \A r \in Requests : req'[r].write = "landed" <=> req[r].write = "landed"
      BY <2>2
    <2> QED BY <2>1, <2>3, AnswersSame
  <1>5. CASE Restart
    BY <1>5, AnswersRestart
  <1>6. CASE UNCHANGED <<log, orphans, acked, applied, req>>
    BY <1>6, AnswersSame
  <1> QED
    BY <1>1, <1>2, <1>3, <1>4, <1>5, <1>6
    DEF ReactionsNext, SheetServes, RefreshEnds, RefreshFails, PageStep, Shop,
        sheetVars, requestVars, historyVars, vars

\* Log and answers stay together.
LEMMA AnswersHold == ReactionsSpec => []AnswersInv
  <1>1. AnswersInv /\ Shape /\ ControlInv /\ Shape' /\ ControlInv' /\ [ReactionsNext]_vars => AnswersInv'
    BY AnswersNext, FlightFacts, FlightsNext
  <1> QED BY <1>1, AnswersInit, ShapeHolds, PTL DEF ReactionsSpec

\* Racing writes of one pair never land in the other order than they are answered.
THEOREM LogFollowsAnswersHolds == ReactionsSpec => []LogFollowsAnswers
  <1>1. AnswersInv /\ Flights => LogFollowsAnswers
    <2> SUFFICES ASSUME AnswersInv, Flights, NEW pair \in Pairs \ Unsettled, acked[pair] \in Reaction
                 PROVE  Current(log, pair[1], pair[2]) = acked[pair]
      BY DEF LogFollowsAnswers
    <2>1. pair \notin PairsInFlight /\ pair \notin OrphanPairs
      BY DEF Unsettled
    <2>2. ~Landed(pair)
      BY <2>1 DEF Landed, Flights
    <2> QED BY <2>1, <2>2 DEF AnswersStand, AnswersInv
  <1> QED BY <1>1, FlightFacts, ShapeHolds, AnswersHold, PTL

-----------------------------------------------------------------------------
(* loads that begin                                                        *)

\* Load i is sent.
Began(i) ==
    /\ reads'[i].age = 0 /\ reads'[i].phase = "sent" /\ quiet'[i] = Pairs \ Unsettled
    /\ \A j \in ReadIds \ {i} : reads'[j] = reads[j] /\ quiet'[j] = quiet[j] /\ asked'[j] = asked[j]

LoadStep == UNCHANGED <<reads, asked, quiet>> \/ \E i \in ReadIds : Began(i)

\* The calls of the cache send no load but the one that LoadNoted() looks at.
LEMMA CallsBegin ==
    ASSUME CacheTypeOK, SingleFlight, NEW c \in Callers, Get(c) \/ Bust(c) \/ BustResume(c) \/ Return(c)
    PROVE  \/ UNCHANGED <<inflight, reads>>
           \/ \E i \in ReadIds : inflight = NoRead /\ inflight' = i
                                 /\ reads' = [reads EXCEPT ![i] = [NoLoad EXCEPT !.phase = "sent"]]
  BY DEF Get, Bust, BustResume, Return, ForceRefresh, Refresh

\* A load that starts is noted.
LEMMA NotedBegins ==
    ASSUME CacheTypeOK, SingleFlight, DataTypeOK, LoadNoted,
           NEW c \in Callers, Get(c) \/ Bust(c) \/ BustResume(c) \/ Return(c)
    PROVE  LoadStep
  <1>1. CASE UNCHANGED <<inflight, reads>>
    BY <1>1 DEF LoadNoted, LoadStep
  <1>2. CASE \E i \in ReadIds : inflight = NoRead /\ inflight' = i
                                /\ reads' = [reads EXCEPT ![i] = [NoLoad EXCEPT !.phase = "sent"]]
    <2>1. PICK i \in ReadIds : /\ inflight = NoRead /\ inflight' = i
                               /\ reads' = [reads EXCEPT ![i] = [NoLoad EXCEPT !.phase = "sent"]]
      BY <1>2
    <2>2. i # NoRead
      BY CacheConstants
    <2>3. /\ asked' = [asked EXCEPT ![i] = [from |-> Len(log), rows |-> <<>>]]
          /\ quiet' = [quiet EXCEPT ![i] = Pairs \ Unsettled]
      BY <2>1, <2>2 DEF LoadNoted
    <2>4. [NoLoad EXCEPT !.phase = "sent"] = [phase |-> "sent", age |-> 0, content |-> 0]
      BY DEF NoLoad
    <2>5. reads'[i].age = 0 /\ reads'[i].phase = "sent" /\ \A j \in ReadIds \ {i} : reads'[j] = reads[j]
      BY <2>1, <2>4 DEF CacheTypeOK
    <2>6. quiet'[i] = Pairs \ Unsettled
          /\ \A j \in ReadIds \ {i} : quiet'[j] = quiet[j] /\ asked'[j] = asked[j]
      BY <2>3 DEF DataTypeOK
    <2>7. Began(i)
      BY <2>5, <2>6 DEF Began
    <2> QED BY <2>7 DEF LoadStep
  <1> QED BY <1>1, <1>2, CallsBegin

\* Everything a call of the cache does, but for the request itself.
LEMMA CallStep ==
    ASSUME CacheInv, DataTypeOK, PageStep \/ \E r \in Requests : Submit(r)
    PROVE  /\ LoadStep
           /\ UNCHANGED <<log, orphans, tally, deltas, applied, calm, known, acked>>
  <1>0. CacheTypeOK /\ SingleFlight /\ Requests \subseteq Callers
    BY ReactionConstants DEF CacheInv
  <1>1. ASSUME PageStep PROVE LoadStep
    <2>1. LoadNoted /\ \E c \in Callers : Get(c) \/ Bust(c) \/ BustResume(c) \/ Return(c)
      BY <1>1 DEF PageStep
    <2> QED BY <1>0, <2>1, NotedBegins
  <1>2. ASSUME NEW r \in Requests, Submit(r) PROVE LoadStep
    <2>1. LoadNoted /\ Get(r)
      BY <1>2 DEF Submit
    <2> QED BY <1>0, <2>1, NotedBegins
  <1>3. UNCHANGED <<log, orphans, tally, deltas, applied, calm, known, acked>>
    BY DEF PageStep, Submit, sheetVars, memoryVars, requestVars
  <1> QED BY <1>1, <1>2, <1>3

\* A pair is calm for the write that took it, and for no other.
CalmOwn == \A r \in Requests : calm[r] \subseteq PairsBy(r)

\* A calm pair is one of the write that holds it calm.
LEMMA CalmIsOwn == Shape => CalmOwn
  BY DEF Shape, WritesOK, WriteOK, CalmOwn, PairsBy

-----------------------------------------------------------------------------
(* what is known, quiet and calm                                           *)

\* Less in flight and less known: what is at rest stays at rest.
LEMMA RestShrinks ==
    ASSUME AtRest, Unsettled' \subseteq Unsettled, OrphanPairs' \subseteq OrphanPairs, known' \subseteq known,
           \A i \in ReadIds : quiet'[i] \subseteq quiet[i], \A r \in Requests : calm'[r] \subseteq calm[r]
    PROVE  AtRest'
  BY DEF AtRest

\* At the start all is at rest.
LEMMA RestInit == ReactionsInit => AtRest
  <1> SUFFICES ASSUME ReactionsInit PROVE AtRest
    OBVIOUS
  <1>1. known = {} /\ quiet = [i \in ReadIds |-> {}] /\ calm = [r \in Requests |-> {}]
    BY DEF ReactionsInit
  <1> QED BY <1>1 DEF AtRest

\* The pairs in flight and orphaned stay what they are.
LEMMA PairsSame ==
    ASSUME Flights, Flights', UNCHANGED <<applied, orphans>>
    PROVE  PairsInFlight' = PairsInFlight /\ OrphanPairs' = OrphanPairs /\ Unsettled' = Unsettled
  <1>1. \A r \in Requests : PairsBy(r)' = PairsBy(r)
    BY DEF PairsBy
  <1>2. PairsInFlight' = PairsInFlight
    BY <1>1 DEF Flights
  <1>3. OrphanPairs' = OrphanPairs
    BY DEF OrphanPairs
  <1> QED BY <1>2, <1>3 DEF Unsettled

\* A call of the cache starts a load of the pairs at rest.
LEMMA RestCall ==
    ASSUME AtRest, CacheInv, Shape, Flights, Flights', PageStep \/ \E r \in Requests : Submit(r)
    PROVE  AtRest'
  <1>1. LoadStep /\ UNCHANGED <<orphans, applied, calm, known>>
    BY CallStep DEF Shape
  <1>2. Unsettled' = Unsettled /\ OrphanPairs' = OrphanPairs
    BY <1>1, PairsSame
  <1>3. \A i \in ReadIds : quiet'[i] = quiet[i] \/ quiet'[i] = Pairs \ Unsettled
    BY <1>1 DEF LoadStep, Began
  <1> QED BY <1>1, <1>2, <1>3 DEF AtRest

\* A write that starts takes its pairs from the known and the quiet.
LEMMA RestDecide ==
    ASSUME AtRest, Shape, ControlInv, Flights, Flights', NEW r \in Requests, Decide(r)
    PROVE  AtRest'
  <1>0. req[r].pc = "getting" /\ UNCHANGED orphans
    BY DEF Decide, sheetVars
  <1>1. applied[r] = <<>> /\ PairsBy(r) = {} /\ calm[r] = {}
    BY <1>0, CalmIsOwn DEF Flights, CalmOwn
  <1>2. CASE Answer(r) /\ UNCHANGED <<known, quiet>>
    <2>1. OthersStay(r) /\ applied'[r] = <<>> /\ calm'[r] = {} /\ applied' \in [Requests -> Seq(Delta)]
      BY <1>2, AnswerShape
    <2>2. applied' = applied
      BY <1>1, <2>1 DEF OthersStay, Shape, DataTypeOK
    <2>3. Unsettled' = Unsettled /\ OrphanPairs' = OrphanPairs
      BY <1>0, <2>2, PairsSame
    <2>4. \A q \in Requests : calm'[q] \subseteq calm[q]
      BY <2>1 DEF OthersStay
    <2> QED BY <1>2, <2>3, <2>4, RestShrinks
  <1>3. CASE StartWrite(r)
    <2>1. PICK pairs, ds : /\ OthersStay(r) /\ applied'[r] = ds /\ pairs = PairsOf(RowsOf(ds))
                           /\ calm'[r] = pairs \cap known /\ known' = known \ pairs
                           /\ quiet' = [i \in ReadIds |-> quiet[i] \ pairs]
      BY <1>0, <1>3, StartFacts
    <2>2. PairsBy(r)' = pairs /\ \A q \in Requests \ {r} : PairsBy(q)' = PairsBy(q)
      BY <2>1 DEF OthersStay, PairsBy
    <2>3. PairsInFlight' = PairsInFlight \cup pairs
      BY <1>1, <2>2 DEF Flights
    <2>4. OrphanPairs' = OrphanPairs
      BY <1>0 DEF OrphanPairs
    <2>5. Unsettled' = Unsettled \cup pairs
      BY <2>3, <2>4 DEF Unsettled
    <2>6. \A i \in ReadIds : quiet'[i] = quiet[i] \ pairs
      BY <2>1
    <2>7. \A q \in Requests : calm'[q] \cap OrphanPairs = {}
      BY <2>1 DEF OthersStay, AtRest, Unsettled
    <2> QED BY <2>1, <2>4, <2>5, <2>6, <2>7 DEF AtRest
  <1> QED BY <1>2, <1>3, Zenon DEF Decide

\* A write that ends leaves its pairs at rest, or an orphan.
LEMMA RestEnds ==
    ASSUME AtRest, Shape, ControlInv, Flights, Flights', NEW r \in Requests, RespondOk(r) \/ InsertFails(r)
    PROVE  AtRest'
  <1>1. Answer(r) /\ UNCHANGED quiet
    BY DEF RespondOk, InsertFails
  <1>2. /\ PairsBy(r)' = {} /\ OthersStay(r) /\ PairsInFlight' = PairsInFlight \ PairsBy(r)
    BY <1>1, AnswerEnds
  <1>3. calm'[r] = {}
    BY <1>1, AnswerShape
  <1>4. /\ \A q \in Requests : calm[q] \subseteq PairsBy(q)
        /\ \A q \in Requests \ {r} : calm'[q] = calm[q] /\ PairsBy(q) \cap PairsBy(r) = {}
        /\ PairsBy(r) \subseteq PairsInFlight
    BY <1>2, CalmIsOwn DEF CalmOwn, OthersStay, Flights
  <1>5. \/ orphans' = orphans /\ known' \in {known, known \cup calm[r]}
        \/ orphans' = orphans \cup {applied[r]} /\ known' = known
    BY DEF RespondOk, InsertFails, sheetVars
  <1>6. CASE orphans' = orphans
    <2>1. OrphanPairs' = OrphanPairs
      BY <1>6 DEF OrphanPairs
    <2>2. Unsettled' = OrphanPairs \cup (PairsInFlight \ PairsBy(r))
      BY <1>2, <2>1 DEF Unsettled
    <2>3. known' \cap Unsettled' = {}
      BY <1>4, <1>5, <2>2 DEF AtRest, Unsettled
    <2> QED BY <1>1, <1>3, <1>4, <2>1, <2>2, <2>3 DEF AtRest, Unsettled
  <1>7. CASE orphans' = orphans \cup {applied[r]} /\ known' = known
    <2>1. OrphanPairs' = OrphanPairs \cup PairsBy(r)
      BY <1>7 DEF OrphanPairs, PairsBy
    <2>2. Unsettled' = Unsettled
      BY <1>2, <1>4, <2>1 DEF Unsettled
    <2>3. \A q \in Requests : calm'[q] \cap OrphanPairs' = {}
      BY <1>3, <1>4, <2>1 DEF AtRest
    <2> QED BY <1>1, <1>7, <2>2, <2>3 DEF AtRest
  <1> QED BY <1>5, <1>6, <1>7

\* Every step keeps the known and the quiet at rest.
LEMMA RestNext ==
    ASSUME AtRest, CacheInv, Shape, ControlInv, Flights, Flights', [ReactionsNext]_vars
    PROVE  AtRest'
  <1>1. CASE PageStep \/ \E r \in Requests : Submit(r)
    BY <1>1, RestCall
  <1>2. ASSUME NEW r \in Requests, Decide(r) \/ RespondOk(r) \/ InsertFails(r) PROVE AtRest'
    BY <1>2, RestDecide, RestEnds
  <1>3. CASE OrphanLands
    <2>1. PICK ds \in orphans :
            /\ orphans' = orphans \ {ds} /\ known' = known \ PairsOf(RowsOf(ds))
            /\ quiet' = [i \in ReadIds |-> quiet[i] \ PairsOf(RowsOf(ds))]
            /\ UNCHANGED <<requestVars, calm>>
      BY <1>3, Zenon DEF OrphanLands
    <2>2. \A r \in Requests : PairsBy(r)' = PairsBy(r)
      BY <2>1 DEF requestVars, PairsBy
    <2>3. PairsInFlight' = PairsInFlight
      BY <2>2 DEF Flights
    <2>4. OrphanPairs' \subseteq OrphanPairs
      BY <2>1 DEF OrphanPairs
    <2>5. Unsettled' \subseteq Unsettled
      BY <2>3, <2>4 DEF Unsettled
    <2>6. \A i \in ReadIds : quiet'[i] \subseteq quiet[i]
      BY <2>1
    <2> QED BY <2>1, <2>4, <2>5, <2>6, RestShrinks
  <1>4. ASSUME NEW i \in ReadIds, RefreshEnds(i) PROVE AtRest'
    <2>1. known' = quiet[i] /\ calm' = [r \in Requests |-> {}] /\ UNCHANGED <<orphans, applied, quiet>>
      BY <1>4 DEF RefreshEnds, sheetVars, requestVars
    <2>2. Unsettled' = Unsettled
      BY <2>1, PairsSame
    <2> QED BY <2>1, <2>2 DEF AtRest
  <1>5. CASE Restart
    <2>1. known' = {} /\ calm' = [r \in Requests |-> {}] /\ quiet' = [i \in ReadIds |-> {}]
      BY <1>5 DEF Restart
    <2> QED BY <2>1 DEF AtRest
  <1>6. CASE UNCHANGED <<orphans, applied, known, quiet, calm>>
    BY <1>6, PairsSame, RestShrinks
  <1> QED
    BY <1>1, <1>2, <1>3, <1>4, <1>5, <1>6
    DEF ReactionsNext, Land, SheetServes, RefreshFails, Clock, Shop, sheetVars, requestVars, historyVars, vars

-----------------------------------------------------------------------------
(* deltas and loads                                                        *)

\* No delta is new.
Fewer == \A k \in 1..Len(deltas') : \E j \in 1..Len(deltas) : deltas'[k] = deltas[j]

\* A filter adds no delta.
LEMMA AmongFewer ==
    ASSUME deltas \in Seq(Delta), NEW S, deltas' = Among(deltas, S)
    PROVE  Fewer /\ \A k \in 1..Len(deltas') : deltas'[k] \in S
  <1>1. PICK ds : ds = deltas
    OBVIOUS
  <1>2. /\ Among(ds, S) \in Seq(Delta)
        /\ \A j \in 1..Len(Among(ds, S)) : Among(ds, S)[j] \in S /\ \E k \in 1..Len(ds) : Among(ds, S)[j] = ds[k]
    BY <1>1, AmongFacts
  <1> QED BY <1>1, <1>2 DEF Fewer

\* Nor does a step that leaves the deltas alone.
LEMMA DeltasSame == ASSUME deltas' = deltas PROVE Fewer
  BY DEF Fewer

\* What a write that starts adds to the deltas.
LEMMA DeltasGrow ==
    ASSUME deltas \in Seq(Delta), NEW ds \in Seq(Delta), deltas' = deltas \o ds
    PROVE  \A k \in 1..Len(deltas') : \/ \E j \in 1..Len(deltas) : deltas'[k] = deltas[j]
                                      \/ \E j \in 1..Len(ds) : deltas'[k] = ds[j]
  <1>1. /\ Len(deltas) \in Nat /\ Len(ds) \in Nat /\ Len(deltas') = Len(deltas) + Len(ds)
        /\ \A k \in 1..Len(deltas) + Len(ds) :
              deltas'[k] = IF k <= Len(deltas) THEN deltas[k] ELSE ds[k - Len(deltas)]
    BY ConcatProperties, LenProperties
  <1> SUFFICES ASSUME NEW k \in 1..Len(deltas')
               PROVE  \/ \E j \in 1..Len(deltas) : deltas'[k] = deltas[j]
                      \/ \E j \in 1..Len(ds) : deltas'[k] = ds[j]
    OBVIOUS
  <1>2. CASE k <= Len(deltas)
    BY <1>1, <1>2
  <1>3. CASE ~(k <= Len(deltas))
    <2>1. k - Len(deltas) \in 1..Len(ds) /\ deltas'[k] = ds[k - Len(deltas)]
      BY <1>1, <1>3
    <2> QED BY <2>1
  <1> QED BY <1>2, <1>3

\* The pair of a delta is one of its write.
LEMMA OwnPairs ==
    ASSUME NEW r \in Requests, applied[r] \in Seq(Delta), NEW k \in 1..Len(applied[r])
    PROVE  PairOf(applied[r][k]) \in PairsBy(r)
  BY RowsFacts DEF PairOf, PairsBy

\* Every write that was not sent yet stays what it is.
NewStay == \A r \in Requests : req[r].write = "new" => req'[r] = req[r] /\ applied'[r] = applied[r]

\* No new delta, and the unsent writes stay.
LEMMA YoungSame == ASSUME YoungFlies, Fewer, NewStay PROVE YoungFlies'
  <1> SUFFICES ASSUME NEW k \in 1..Len(deltas'), deltas'[k].age = 0
               PROVE  \E r \in Requests : /\ req'[r].write = "new" /\ req'[r].n = deltas'[k].n
                                          /\ PairOf(deltas'[k]) \in PairsBy(r)'
    BY DEF YoungFlies, PairOf
  <1>1. PICK j \in 1..Len(deltas) : deltas'[k] = deltas[j]
    BY DEF Fewer
  <1>2. PICK r \in Requests : /\ req[r].write = "new" /\ req[r].n = deltas[j].n
                              /\ PairOf(deltas[j]) \in PairsBy(r)
    BY <1>1 DEF YoungFlies
  <1>3. req'[r] = req[r] /\ PairsBy(r)' = PairsBy(r)
    BY <1>2 DEF NewStay, PairsBy
  <1> QED BY <1>1, <1>2, <1>3

\* A write that starts adds deltas of its own.
LEMMA YoungDecide ==
    ASSUME YoungFlies, Shape, ControlInv, Flights, NEW r \in Requests, Decide(r)
    PROVE  YoungFlies'
  <1>0. req[r].pc = "getting" /\ req[r].write = "none"
    BY DEF Decide, Flights
  <1>1. CASE Answer(r) /\ UNCHANGED deltas
    <2>1. OthersStay(r)
      BY <1>1, AnswerShape
    <2>2. NewStay
      BY <1>0, <2>1 DEF NewStay, OthersStay
    <2> QED BY <1>1, <2>2, DeltasSame, YoungSame
  <1>2. CASE StartWrite(r)
    <2>1. PICK plan, ds : /\ PlanOK(req[r].who, req[r].batch, req[r].n, Len(req[r].batch), plan)
                          /\ ds = plan.deltas /\ ds \in Seq(Delta) /\ deltas' = deltas \o ds
                          /\ OthersStay(r) /\ applied'[r] = ds
                          /\ req'[r].write = "new" /\ req'[r].n = req[r].n
      BY <1>0, <1>2, StartFacts
    <2>2. deltas \in Seq(Delta)
      BY DEF Shape, DataTypeOK
    <2> SUFFICES ASSUME NEW k \in 1..Len(deltas'), deltas'[k].age = 0
                 PROVE  \E q \in Requests : /\ req'[q].write = "new" /\ req'[q].n = deltas'[k].n
                                            /\ PairOf(deltas'[k]) \in PairsBy(q)'
      BY DEF YoungFlies, PairOf
    <2>3. CASE \E j \in 1..Len(deltas) : deltas'[k] = deltas[j]
      <3>1. PICK j \in 1..Len(deltas) : deltas'[k] = deltas[j]
        BY <2>3
      <3>2. PICK q \in Requests : /\ req[q].write = "new" /\ req[q].n = deltas[j].n
                                  /\ PairOf(deltas[j]) \in PairsBy(q)
        BY <3>1 DEF YoungFlies
      <3>3. req'[q] = req[q] /\ PairsBy(q)' = PairsBy(q)
        BY <1>0, <2>1, <3>2 DEF OthersStay, PairsBy
      <3> QED BY <3>1, <3>2, <3>3
    <2>4. CASE \E j \in 1..Len(ds) : deltas'[k] = ds[j]
      <3>1. PICK j \in 1..Len(ds) : deltas'[k] = ds[j]
        BY <2>4
      <3>2. Plans(ds[j], req[r].who, req[r].batch, req[r].n, Len(req[r].batch))
        BY <2>1 DEF PlanOK
      <3>3. deltas'[k].n = req'[r].n
        BY <2>1, <3>1, <3>2 DEF Plans
      <3>4. PairOf(ds[j]) \in PairsOf(RowsOf(ds))
        BY <2>1, RowsFacts DEF PairOf
      <3>5. PairOf(deltas'[k]) \in PairsBy(r)'
        BY <2>1, <3>1, <3>4 DEF PairsBy
      <3> QED BY <2>1, <3>3, <3>5
    <2> QED BY <2>1, <2>2, <2>3, <2>4, DeltasGrow
  <1> QED BY <1>1, <1>2, Zenon DEF Decide

\* A write that fails takes its deltas with it.
LEMMA YoungFail ==
    ASSUME YoungFlies, Shape, ControlInv, NEW r \in Requests, InsertFails(r)
    PROVE  YoungFlies'
  <1>1. Answer(r) /\ deltas' = Among(deltas, {d \in Range(deltas) : d.n # req[r].n})
    BY DEF InsertFails
  <1>2. OthersStay(r)
    BY <1>1, AnswerShape
  <1>3. Fewer /\ \A k \in 1..Len(deltas') : deltas'[k].n # req[r].n
    BY <1>1, AmongFewer DEF Shape, DataTypeOK
  <1> SUFFICES ASSUME NEW k \in 1..Len(deltas'), deltas'[k].age = 0
               PROVE  \E q \in Requests : /\ req'[q].write = "new" /\ req'[q].n = deltas'[k].n
                                          /\ PairOf(deltas'[k]) \in PairsBy(q)'
    BY DEF YoungFlies, PairOf
  <1>4. PICK j \in 1..Len(deltas) : deltas'[k] = deltas[j]
    BY <1>3 DEF Fewer
  <1>5. PICK q \in Requests : /\ req[q].write = "new" /\ req[q].n = deltas[j].n
                              /\ PairOf(deltas[j]) \in PairsBy(q)
    BY <1>4 DEF YoungFlies
  <1>6. q # r
    BY <1>3, <1>4, <1>5
  <1>7. req'[q] = req[q] /\ PairsBy(q)' = PairsBy(q)
    BY <1>2, <1>6 DEF OthersStay, PairsBy
  <1> QED BY <1>4, <1>5, <1>7

\* A millisecond later no delta is new.
LEMMA ClockAges ==
    ASSUME Shape, Clock
    PROVE  /\ Len(deltas') = Len(deltas)
           /\ \A k \in 1..Len(deltas) : /\ PairOf(deltas'[k]) = PairOf(deltas[k])
                                        /\ deltas[k].age \in Age /\ deltas'[k].age = Older(deltas[k].age)
                                        /\ deltas'[k].age \in Nat /\ deltas'[k].age # 0
  <1>1. deltas \in Seq(Delta)
    BY DEF Shape, DataTypeOK
  <1>2. deltas' = Aged(deltas)
    BY DEF Clock, Aged
  <1>3. \A a \in Age : Older(a) \in Nat /\ Older(a) # 0
    BY CacheConstants DEF Age, Older
  <1>4. Len(deltas') = Len(deltas)
    BY <1>1, <1>2, AgedFacts
  <1> SUFFICES ASSUME NEW k \in 1..Len(deltas)
               PROVE  /\ PairOf(deltas'[k]) = PairOf(deltas[k])
                      /\ deltas[k].age \in Age /\ deltas'[k].age = Older(deltas[k].age)
                      /\ deltas'[k].age \in Nat /\ deltas'[k].age # 0
    BY <1>4
  <1>5. deltas[k].age \in Age
    <2>1. deltas[k] \in Delta
      BY <1>1, ElementOfSeq
    <2> QED BY <2>1 DEF Delta
  <1>6. deltas'[k].who = deltas[k].who /\ deltas'[k].product = deltas[k].product /\ deltas'[k].age = Older(deltas[k].age)
    BY <1>1, <1>2, AgedFacts
  <1> QED BY <1>3, <1>5, <1>6 DEF PairOf

\* Every step keeps new deltas to unsent writes.
LEMMA NewDeltasNext ==
    ASSUME YoungFlies, CacheInv, Shape, ControlInv, Flights, [ReactionsNext]_vars
    PROVE  YoungFlies'
  <1>1. CASE PageStep \/ Shop \/ OrphanLands \/ UNCHANGED vars
    <2>1. UNCHANGED <<deltas, req, applied>>
      BY <1>1 DEF PageStep, Shop, OrphanLands, memoryVars, requestVars, vars
    <2>2. NewStay
      BY <2>1 DEF NewStay
    <2> QED BY <2>1, <2>2, DeltasSame, YoungSame
  <1>2. ASSUME NEW r \in Requests, Submit(r) PROVE YoungFlies'
    <2>1. \E v \in Visitors, batch \in Batches :
            req' = [req EXCEPT ![r] = [NoRequest EXCEPT !.pc = "getting", !.who = v,
                                                        !.batch = batch, !.n = submits + 1]]
      BY <1>2 DEF Submit
    <2>2. UNCHANGED <<deltas, applied>> /\ req[r].pc = "idle"
      BY <1>2 DEF Submit, memoryVars
    <2>3. \A q \in Requests \ {r} : req'[q] = req[q]
      BY <2>1 DEF ControlInv, ControlTypeOK
    <2>4. NewStay
      BY <2>2, <2>3 DEF NewStay, Flights
    <2> QED BY <2>2, <2>4, DeltasSame, YoungSame
  <1>3. ASSUME NEW r \in Requests, Decide(r) \/ InsertFails(r) PROVE YoungFlies'
    BY <1>3, YoungDecide, YoungFail
  <1>4. ASSUME NEW r \in Requests, Land(r) PROVE YoungFlies'
    <2>1. req' = [req EXCEPT ![r].write = "landed"] /\ req[r].write = "sent" /\ UNCHANGED <<deltas, applied>>
      BY <1>4 DEF Land, memoryVars
    <2>2. NewStay
      BY <2>1 DEF NewStay, ControlInv, ControlTypeOK
    <2> QED BY <2>1, <2>2, DeltasSame, YoungSame
  <1>5. ASSUME NEW r \in Requests, RespondOk(r) PROVE YoungFlies'
    <2>1. Answer(r) /\ req[r].write = "landed" /\ UNCHANGED deltas
      BY <1>5 DEF RespondOk, memoryVars
    <2>2. OthersStay(r)
      BY <2>1, AnswerShape
    <2>3. NewStay
      BY <2>1, <2>2 DEF NewStay, OthersStay
    <2> QED BY <2>1, <2>3, DeltasSame, YoungSame
  <1>6. ASSUME NEW i \in ReadIds, SheetServes(i) \/ RefreshEnds(i) \/ RefreshFails(i) PROVE YoungFlies'
    <2>1. UNCHANGED <<req, applied>>
      BY <1>6 DEF SheetServes, RefreshEnds, RefreshFails, requestVars
    <2>2. NewStay
      BY <2>1 DEF NewStay
    <2>3. deltas' = deltas \/ deltas' = Among(deltas, {d \in Range(deltas) : d.age <= 2 * Ttl})
      BY <1>6 DEF SheetServes, RefreshEnds, RefreshFails, memoryVars
    <2>4. Fewer
      BY <2>3, DeltasSame, AmongFewer DEF Shape, DataTypeOK
    <2> QED BY <2>2, <2>4, YoungSame
  <1>7. CASE Clock
    BY <1>7, ClockAges DEF YoungFlies
  <1>8. CASE Restart
    <2>1. deltas' = <<>>
      BY <1>8 DEF Restart
    <2> QED BY <2>1 DEF YoungFlies
  <1> QED BY <1>1, <1>2, <1>3, <1>4, <1>5, <1>6, <1>7, <1>8, Zenon DEF ReactionsNext

\* No load begins, and those that go on are as old as they were.
LoadsStay ==
    \A i \in ReadIds : /\ quiet'[i] \subseteq quiet[i]
                       /\ reads'[i].phase # "off" => reads[i].phase # "off" /\ reads'[i].age = reads[i].age

\* No new delta and no new load.
LEMMA ReplaySame == ASSUME QuietNotReplayed, Fewer, LoadsStay PROVE QuietNotReplayed'
  BY DEF QuietNotReplayed, Fewer, LoadsStay, PairOf

\* A load that starts knows that the new deltas are of pairs in flight.
LEMMA ReplayCall ==
    ASSUME QuietNotReplayed, YoungFlies, Shape, Flights, LoadStep, UNCHANGED deltas
    PROVE  QuietNotReplayed'
  <1>1. CASE UNCHANGED <<reads, quiet>>
    BY <1>1 DEF QuietNotReplayed, PairOf
  <1>2. ASSUME NEW i \in ReadIds, Began(i) PROVE QuietNotReplayed'
    <2> SUFFICES ASSUME NEW j \in ReadIds, reads'[j].phase # "off", NEW k \in 1..Len(deltas),
                        PairOf(deltas[k]) \in quiet'[j]
                 PROVE  deltas[k].age > reads'[j].age
      BY DEF QuietNotReplayed, PairOf
    <2>1. CASE j # i
      BY <1>2, <2>1 DEF Began, QuietNotReplayed
    <2>2. CASE j = i
      <3>1. reads'[j].age = 0 /\ quiet'[j] = Pairs \ Unsettled
        BY <1>2, <2>2 DEF Began
      <3>2. deltas[k].age \in Nat
        <4>1. deltas[k] \in Delta
          BY ElementOfSeq DEF Shape, DataTypeOK
        <4> QED BY <4>1 DEF Delta, Age
      <3>3. deltas[k].age # 0
        <4> SUFFICES ASSUME deltas[k].age = 0 PROVE FALSE
          OBVIOUS
        <4>1. PICK r \in Requests : PairOf(deltas[k]) \in PairsBy(r)
          BY DEF YoungFlies
        <4>2. PairOf(deltas[k]) \in Unsettled
          BY <4>1 DEF Flights, Unsettled
        <4> QED BY <3>1, <4>2
      <3> QED BY <3>1, <3>2, <3>3
    <2> QED BY <2>1, <2>2
  <1> QED BY <1>1, <1>2 DEF LoadStep

\* A write that starts takes its pairs from the quiet.
LEMMA ReplayDecide ==
    ASSUME QuietNotReplayed, Shape, ControlInv, Flights, NEW r \in Requests, Decide(r)
    PROVE  QuietNotReplayed'
  <1>0. req[r].pc = "getting" /\ UNCHANGED reads
    BY DEF Decide, Return
  <1>1. CASE UNCHANGED <<deltas, quiet>>
    <2>1. LoadsStay
      BY <1>0, <1>1 DEF LoadsStay
    <2> QED BY <1>1, <2>1, DeltasSame, ReplaySame
  <1>2. CASE StartWrite(r)
    <2>1. PICK plan, ds, pairs :
              /\ PlanOK(req[r].who, req[r].batch, req[r].n, Len(req[r].batch), plan)
              /\ ds = plan.deltas /\ ds \in Seq(Delta) /\ pairs = PairsOf(RowsOf(ds)) /\ pairs \subseteq Pairs
              /\ deltas' = deltas \o ds
              /\ quiet' = [i \in ReadIds |-> quiet[i] \ pairs]
      BY <1>0, <1>2, StartFacts
    <2>2. deltas \in Seq(Delta)
      BY DEF Shape, DataTypeOK
    <2> SUFFICES ASSUME NEW i \in ReadIds, reads[i].phase # "off", NEW k \in 1..Len(deltas'),
                        PairOf(deltas'[k]) \in quiet'[i]
                 PROVE  deltas'[k].age > reads[i].age
      BY <1>0 DEF QuietNotReplayed, PairOf
    <2>3. PairOf(deltas'[k]) \in quiet[i] /\ PairOf(deltas'[k]) \notin pairs
      BY <2>1
    <2>4. CASE \E j \in 1..Len(deltas) : deltas'[k] = deltas[j]
      BY <2>3, <2>4 DEF QuietNotReplayed
    <2>5. CASE \E j \in 1..Len(ds) : deltas'[k] = ds[j]
      <3>1. PICK j \in 1..Len(ds) : deltas'[k] = ds[j]
        BY <2>5
      <3>2. PairOf(ds[j]) \in PairsOf(RowsOf(ds))
        BY <2>1, RowsFacts DEF PairOf
      <3> QED BY <2>1, <2>3, <3>1, <3>2
    <2> QED BY <2>1, <2>2, <2>4, <2>5, DeltasGrow
  <1> QED BY <1>1, <1>2, Zenon DEF Decide

\* Deltas and loads grow older together.
LEMMA ReplayClock ==
    ASSUME QuietNotReplayed, CacheInv, CacheInv', Shape, Clock
    PROVE  QuietNotReplayed'
  <1>1. Tick /\ UNCHANGED quiet
    BY DEF Clock, historyVars
  <1>2. CacheTypeOK /\ CacheTypeOK'
    BY DEF CacheInv
  <1> SUFFICES ASSUME NEW i \in ReadIds, reads'[i].phase # "off", NEW k \in 1..Len(deltas'),
                      PairOf(deltas'[k]) \in quiet'[i]
               PROVE  deltas'[k].age > reads'[i].age
    BY DEF QuietNotReplayed, PairOf
  <1>3. reads[i].phase # "off" /\ reads'[i].age = reads[i].age + 1
    BY <1>1, <1>2, TickReads
  <1>4. /\ k \in 1..Len(deltas) /\ PairOf(deltas[k]) \in quiet[i]
        /\ deltas[k].age \in Age /\ deltas'[k].age = Older(deltas[k].age)
    BY <1>1, ClockAges
  <1>5. deltas[k].age > reads[i].age
    BY <1>3, <1>4 DEF QuietNotReplayed
  <1>6. reads[i].age \in Nat /\ reads'[i].age \in 0..ReadLimit
    BY <1>2 DEF CacheTypeOK, Load
  <1>7. AgeCap \in Nat /\ ReadLimit \in Nat /\ ReadLimit < AgeCap
    BY CacheConstants
  <1>8. CASE deltas[k].age < AgeCap
    BY <1>3, <1>4, <1>5, <1>6, <1>7, <1>8 DEF Older, Age
  <1>9. CASE ~(deltas[k].age < AgeCap)
    BY <1>4, <1>6, <1>7, <1>9 DEF Older, Age
  <1> QED BY <1>8, <1>9

\* What a load that ends or is served does to the loads.
LEMMA ReadSteps ==
    ASSUME CacheInv, NEW i \in ReadIds
    PROVE  /\ ServeRead(i) => /\ reads[i].phase = "sent" /\ reads'[i].phase = "served" /\ reads'[i].age = reads[i].age
                              /\ \A j \in ReadIds \ {i} : reads'[j] = reads[j]
           /\ EndReadOk(i) \/ EndReadFail(i) => \A j \in ReadIds : reads'[j].phase = "off"
  <1>0. CacheTypeOK /\ SingleFlight
    BY DEF CacheInv
  <1>1. ASSUME ServeRead(i)
        PROVE  /\ reads[i].phase = "sent" /\ reads'[i].phase = "served" /\ reads'[i].age = reads[i].age
               /\ \A j \in ReadIds \ {i} : reads'[j] = reads[j]
    BY <1>0, <1>1 DEF ServeRead, CacheTypeOK, Load
  <1>2. ASSUME EndReadOk(i) \/ EndReadFail(i) PROVE \A j \in ReadIds : reads'[j].phase = "off"
    BY <1>0, <1>2, LoadEndsEffect DEF EndReadOk, EndReadFail
  <1> QED BY <1>1, <1>2

\* Every step keeps the deltas of quiet pairs from being replayed.
LEMMA ReplayNext ==
    ASSUME QuietNotReplayed, YoungFlies, CacheInv, CacheInv', Shape, ControlInv, Flights, [ReactionsNext]_vars
    PROVE  QuietNotReplayed'
  <1>1. CASE PageStep \/ \E r \in Requests : Submit(r)
    BY <1>1, CallStep, ReplayCall DEF Shape
  <1>2. ASSUME NEW r \in Requests, Decide(r) PROVE QuietNotReplayed'
    BY <1>2, ReplayDecide
  <1>3. ASSUME NEW r \in Requests, Land(r) \/ RespondOk(r) \/ InsertFails(r) PROVE QuietNotReplayed'
    <2>1. UNCHANGED <<reads, quiet>>
      BY <1>3 DEF Land, RespondOk, InsertFails, cacheVars, historyVars
    <2>2. LoadsStay
      BY <2>1 DEF LoadsStay
    <2>3. deltas' = deltas \/ deltas' = Among(deltas, {d \in Range(deltas) : d.n # req[r].n})
      BY <1>3 DEF Land, RespondOk, InsertFails, memoryVars
    <2>4. Fewer
      BY <2>3, DeltasSame, AmongFewer DEF Shape, DataTypeOK
    <2> QED BY <2>2, <2>4, ReplaySame
  <1>4. CASE OrphanLands
    <2>1. UNCHANGED <<reads, deltas>> /\ \E pairs : quiet' = [i \in ReadIds |-> quiet[i] \ pairs]
      BY <1>4 DEF OrphanLands, cacheVars, memoryVars
    <2>2. LoadsStay
      BY <2>1 DEF LoadsStay
    <2> QED BY <2>1, <2>2, DeltasSame, ReplaySame
  <1>5. ASSUME NEW i \in ReadIds, SheetServes(i) PROVE QuietNotReplayed'
    <2>1. ServeRead(i) /\ UNCHANGED <<quiet, deltas>>
      BY <1>5 DEF SheetServes, memoryVars, historyVars
    <2>2. LoadsStay
      BY <2>1, ReadSteps DEF LoadsStay
    <2> QED BY <2>1, <2>2, DeltasSame, ReplaySame
  <1>6. ASSUME NEW i \in ReadIds, RefreshEnds(i) \/ RefreshFails(i) PROVE QuietNotReplayed'
    <2>1. \A j \in ReadIds : reads'[j].phase = "off"
      BY <1>6, ReadSteps DEF RefreshEnds, RefreshFails
    <2> QED BY <2>1 DEF QuietNotReplayed
  <1>7. CASE Clock
    BY <1>7, ReplayClock
  <1>8. CASE Restart
    <2>1. deltas' = <<>>
      BY <1>8 DEF Restart
    <2> QED BY <2>1 DEF QuietNotReplayed
  <1>9. CASE Shop \/ UNCHANGED vars
    <2>1. UNCHANGED <<reads, quiet, deltas>>
      BY <1>9 DEF Shop, Edit, memoryVars, historyVars, cacheVars, vars
    <2>2. LoadsStay
      BY <2>1 DEF LoadsStay
    <2> QED BY <2>1, <2>2, DeltasSame, ReplaySame
  <1> QED BY <1>1, <1>2, <1>3, <1>4, <1>5, <1>6, <1>7, <1>8, <1>9, Zenon DEF ReactionsNext

-----------------------------------------------------------------------------
(* the rows a load was given                                               *)

\* Served loads were served before, and what they were given is as true as it was.
GivenStay ==
    /\ Len(log') \in Nat /\ Len(log) \in Nat /\ Len(log) <= Len(log')
    /\ \A i \in ReadIds : /\ quiet'[i] \subseteq quiet[i]
                          /\ reads'[i].phase = "served" => reads[i].phase = "served" /\ asked'[i] = asked[i]
    /\ \A i \in ReadIds : \A pair \in quiet'[i] : Current(log', pair[1], pair[2]) = Current(log, pair[1], pair[2])

\* The log goes on saying of the quiet pairs what it said.
LEMMA RowsStay == ASSUME QuietRowsCurrent, GivenStay PROVE QuietRowsCurrent'
  <1> SUFFICES ASSUME Len(log') <= WindowRows, NEW i \in ReadIds, reads'[i].phase = "served", NEW pair \in quiet'[i]
               PROVE  Current(asked'[i].rows, pair[1], pair[2]) = Current(log', pair[1], pair[2])
    BY DEF QuietRowsCurrent
  <1>1. Len(log) <= WindowRows
    BY LogConstants DEF GivenStay
  <1>2. reads[i].phase = "served" /\ asked'[i] = asked[i] /\ pair \in quiet[i]
        /\ Current(log', pair[1], pair[2]) = Current(log, pair[1], pair[2])
    BY DEF GivenStay
  <1> QED BY <1>1, <1>2 DEF QuietRowsCurrent

\* The log has a length.
LEMMA LogLength == ASSUME Shape PROVE Len(log) \in Nat /\ Len(log) <= Len(log)
  BY LenProperties DEF Shape, DataTypeOK

\* An insert, on the log and on the pairs it leaves alone.
LEMMA LogGrows ==
    ASSUME Shape, NEW ds \in Seq(Delta), log' = insertReactionRows(log, RowsOf(ds))
    PROVE  /\ Len(log) \in Nat /\ Len(log') \in Nat /\ Len(log) <= Len(log')
           /\ \A pair \in Pairs \ PairsOf(RowsOf(ds)) :
                 Current(log', pair[1], pair[2]) = Current(log, pair[1], pair[2])
           /\ \A pair \in PairsOf(RowsOf(ds)) :
                 Current(log', pair[1], pair[2]) = Current(RowsOf(ds), pair[1], pair[2])
  <1>1. log \in Seq(Row) /\ RowsOf(ds) \in Seq(Row) /\ PairsOf(RowsOf(ds)) \subseteq Pairs
    BY RowsFacts DEF Shape, DataTypeOK
  <1>2. log' = RowsOf(ds) \o log
    BY DEF insertReactionRows
  <1>3. Len(log) \in Nat /\ Len(RowsOf(ds)) \in Nat /\ Len(log') = Len(RowsOf(ds)) + Len(log)
    BY <1>1, <1>2, ConcatProperties, LenProperties
  <1>4. \A pair \in Pairs :
           Current(log', pair[1], pair[2]) =
              IF pair \in PairsOf(RowsOf(ds)) THEN Current(RowsOf(ds), pair[1], pair[2])
              ELSE Current(log, pair[1], pair[2])
    BY <1>1, LogTakes
  <1> QED BY <1>1, <1>3, <1>4

\* A load that starts was given nothing yet.
LEMMA RowsCall ==
    ASSUME QuietRowsCurrent, LoadStep, UNCHANGED log
    PROVE  QuietRowsCurrent'
  <1>1. CASE UNCHANGED <<reads, asked, quiet>>
    BY <1>1 DEF QuietRowsCurrent
  <1>2. ASSUME NEW i \in ReadIds, Began(i) PROVE QuietRowsCurrent'
    BY <1>2 DEF Began, QuietRowsCurrent
  <1> QED BY <1>1, <1>2 DEF LoadStep

\* Every step keeps the rows of a load true of its quiet pairs.
LEMMA RowsNext ==
    ASSUME QuietRowsCurrent, AtRest, CacheInv, Shape, ControlInv, Flights, [ReactionsNext]_vars
    PROVE  QuietRowsCurrent'
  <1>0. Len(log) \in Nat /\ Len(log) <= Len(log)
    BY LogLength
  <1>1. CASE PageStep \/ \E r \in Requests : Submit(r)
    BY <1>1, CallStep, RowsCall DEF Shape
  <1>2. ASSUME NEW r \in Requests, Decide(r) PROVE QuietRowsCurrent'
    <2>1. UNCHANGED <<reads, log, asked>> /\ (quiet' = quiet \/ \E pairs : quiet' = [i \in ReadIds |-> quiet[i] \ pairs])
      BY <1>2, Zenon DEF Decide, Return, StartWrite, sheetVars
    <2>2. \A i \in ReadIds : quiet'[i] \subseteq quiet[i]
      BY <2>1
    <2>3. GivenStay
      BY <1>0, <2>1, <2>2 DEF GivenStay
    <2> QED BY <2>3, RowsStay
  <1>3. ASSUME NEW r \in Requests, Land(r) PROVE QuietRowsCurrent'
    <2>1. log' = insertReactionRows(log, RowsOf(applied[r])) /\ UNCHANGED <<reads, asked, quiet>>
      BY <1>3 DEF Land, cacheVars, historyVars
    <2>2. applied[r] \in Seq(Delta)
      BY DEF Shape, DataTypeOK
    <2>3. \A i \in ReadIds : quiet[i] \subseteq Pairs \ PairsBy(r)
      BY DEF Shape, DataTypeOK, AtRest, Unsettled, Flights
    <2>4. GivenStay
      BY <2>1, <2>2, <2>3, LogGrows DEF GivenStay, PairsBy
    <2> QED BY <2>4, RowsStay
  <1>4. CASE OrphanLands
    <2>1. PICK ds \in orphans : /\ log' = insertReactionRows(log, RowsOf(ds))
                                /\ quiet' = [i \in ReadIds |-> quiet[i] \ PairsOf(RowsOf(ds))]
                                /\ UNCHANGED <<cacheVars, asked>>
      BY <1>4, Zenon DEF OrphanLands
    <2>2. ds \in Seq(Delta) /\ UNCHANGED reads
      BY <2>1 DEF Shape, DataTypeOK, cacheVars
    <2>3. \A i \in ReadIds : quiet'[i] \subseteq quiet[i] /\ quiet'[i] \subseteq Pairs \ PairsOf(RowsOf(ds))
      BY <2>1 DEF Shape, DataTypeOK
    <2>4. GivenStay
      BY <2>1, <2>2, <2>3, LogGrows DEF GivenStay
    <2> QED BY <2>4, RowsStay
  <1>5. ASSUME NEW i \in ReadIds, SheetServes(i) PROVE QuietRowsCurrent'
    <2>1. ServeRead(i) /\ asked' = [asked EXCEPT ![i].rows = Window(log)] /\ UNCHANGED <<log, quiet>>
      BY <1>5 DEF SheetServes, sheetVars, historyVars
    <2>2. asked'[i].rows = Window(log) /\ \A j \in ReadIds \ {i} : asked'[j] = asked[j] /\ reads'[j] = reads[j]
      BY <2>1, ReadSteps DEF Shape, DataTypeOK
    <2>3. Len(log) <= WindowRows => Window(log) = log
      BY WindowFacts DEF Shape, DataTypeOK
    <2> QED BY <2>1, <2>2, <2>3 DEF QuietRowsCurrent
  <1>6. ASSUME NEW i \in ReadIds, RefreshEnds(i) \/ RefreshFails(i) PROVE QuietRowsCurrent'
    <2>1. \A j \in ReadIds : reads'[j].phase = "off"
      BY <1>6, ReadSteps DEF RefreshEnds, RefreshFails
    <2> QED BY <2>1 DEF QuietRowsCurrent
  <1>7. CASE Clock
    <2>1. Tick /\ UNCHANGED <<log, asked, quiet>> /\ CacheTypeOK
      BY <1>7 DEF Clock, sheetVars, historyVars, CacheInv
    <2>2. \A i \in ReadIds : reads'[i].phase = reads[i].phase
      BY <2>1, TickReads
    <2>3. GivenStay
      BY <1>0, <2>1, <2>2 DEF GivenStay
    <2> QED BY <2>3, RowsStay
  <1>8. CASE Restart
    <2>1. quiet' = [i \in ReadIds |-> {}]
      BY <1>8 DEF Restart
    <2> QED BY <2>1 DEF QuietRowsCurrent
  <1>9. CASE UNCHANGED <<reads, log, asked, quiet>>
    <2>1. GivenStay
      BY <1>0, <1>9 DEF GivenStay
    <2> QED BY <2>1, RowsStay
  <1> QED
    BY <1>1, <1>2, <1>3, <1>4, <1>5, <1>6, <1>7, <1>8, <1>9
    DEF ReactionsNext, RespondOk, InsertFails, Shop, Edit, sheetVars, historyVars, cacheVars, vars

-----------------------------------------------------------------------------
(* the votes in memory                                                     *)

VoteIn(t, pair) == t.vote[pair[1]][pair[2]]
InLog(rows, pair) == Current(rows, pair[1], pair[2])

\* Deltas leave the pairs they do not name alone.
LEMMA VoteElsewhere ==
    ASSUME NEW t, NEW s, NEW ds \in Seq(Delta), AfterFirst(t, ds, Len(ds), s),
           NEW pair \in Pairs, \A k \in 1..Len(ds) : PairOf(ds[k]) # pair
    PROVE  VoteIn(s, pair) = VoteIn(t, pair)
  <1>1. PICK v \in Visitors, p \in Products : pair = <<v, p>>
    BY DEF Pairs
  <1>2. \A k \in 1..Len(ds) : <<ds[k].who, ds[k].product>> # <<v, p>>
    BY <1>1 DEF PairOf
  <1>3. s.vote[v][p] = t.vote[v][p]
    BY <1>2 DEF AfterFirst
  <1> QED BY <1>1, <1>3 DEF VoteIn

\* What the rows of a write say of its pairs.
LEMMA OwnRows ==
    ASSUME NEW ds \in Seq(Delta)
    PROVE  /\ \A k \in 1..Len(ds) : PairOf(ds[k]) \in PairsOf(RowsOf(ds))
           /\ \A pair \in PairsOf(RowsOf(ds)) : \E k \in 1..Len(ds) : PairOf(ds[k]) = pair
           /\ OneEach(ds) => \A k \in 1..Len(ds) : InLog(RowsOf(ds), PairOf(ds[k])) = ds[k].next
  <1>1. \A k \in 1..Len(ds) : PairOf(ds[k]) \in PairsOf(RowsOf(ds))
    BY RowsFacts DEF PairOf
  <1>2. ASSUME NEW pair \in PairsOf(RowsOf(ds)) PROVE \E k \in 1..Len(ds) : PairOf(ds[k]) = pair
    <2>1. PICK v \in Visitors, p \in Products : pair = <<v, p>>
      <3>1. pair \in Pairs
        BY RowsFacts
      <3> QED BY <3>1 DEF Pairs
    <2> QED BY <2>1, RowsFacts DEF PairOf
  <1>3. OneEach(ds) => \A k \in 1..Len(ds) : Current(RowsOf(ds), ds[k].who, ds[k].product) = ds[k].next
    BY RowsFacts
  <1>4. \A k \in 1..Len(ds) : PairOf(ds[k])[1] = ds[k].who /\ PairOf(ds[k])[2] = ds[k].product
    BY DEF PairOf
  <1> QED BY <1>1, <1>2, <1>3, <1>4 DEF InLog

\* Known pairs of which neither memory nor the log changes.
KnownStay ==
    /\ Len(log') \in Nat /\ Len(log) \in Nat /\ Len(log) <= Len(log')
    /\ \A pair \in known' : /\ pair \in known
                            /\ VoteIn(tally', pair) = VoteIn(tally, pair) /\ InLog(log', pair) = InLog(log, pair)

\* What is known stays true when memory and log stay.
LEMMA KnownSame == ASSUME KnownVotes, KnownStay PROVE KnownVotes'
  <1> SUFFICES ASSUME Len(log') <= WindowRows, NEW pair \in known'
               PROVE  VoteIn(tally', pair) = InLog(log', pair)
    BY DEF KnownVotes, VoteIn, InLog
  <1>1. Len(log) <= WindowRows
    BY LogConstants DEF KnownStay
  <1>2. pair \in known /\ VoteIn(tally', pair) = VoteIn(tally, pair) /\ InLog(log', pair) = InLog(log, pair)
    BY DEF KnownStay
  <1>3. VoteIn(tally, pair) = InLog(log, pair)
    BY <1>1, <1>2 DEF KnownVotes, VoteIn, InLog
  <1> QED BY <1>2, <1>3

\* A calm write of which nothing changes.
CalmStays(q) ==
    /\ Len(log') \in Nat /\ Len(log) \in Nat /\ Len(log) <= Len(log')
    /\ applied'[q] = applied[q] /\ calm'[q] \subseteq calm[q]
    /\ req'[q].write = "landed" <=> req[q].write = "landed"
    /\ \A pair \in calm'[q] :
          VoteIn(tally', pair) = VoteIn(tally, pair) /\ InLog(log', pair) = InLog(log, pair)

\* A calm write stays calm when memory and log stay.
LEMMA CalmSame == ASSUME NEW q, CalmVote(q), CalmStays(q) PROVE CalmVote(q)'
  <1> SUFFICES ASSUME NEW k \in 1..Len(applied[q]), PairOf(applied[q][k]) \in calm'[q]
               PROVE  /\ tally'.vote[applied[q][k].who][applied[q][k].product] = applied[q][k].next
                      /\ Len(log') <= WindowRows =>
                           Current(log', applied[q][k].who, applied[q][k].product) =
                               IF req'[q].write = "landed" THEN applied[q][k].next ELSE applied[q][k].prev
    BY DEF CalmVote, PairOf, CalmStays
  <1>1. PICK d, pair : d = applied[q][k] /\ pair = PairOf(d)
    OBVIOUS
  <1>2. pair[1] = d.who /\ pair[2] = d.product
    BY <1>1 DEF PairOf
  <1>3. /\ tally.vote[d.who][d.product] = d.next
        /\ Len(log) <= WindowRows =>
              Current(log, d.who, d.product) = IF req[q].write = "landed" THEN d.next ELSE d.prev
    BY <1>1 DEF CalmVote, CalmStays
  <1>4. /\ tally'.vote[d.who][d.product] = tally.vote[d.who][d.product]
        /\ Current(log', d.who, d.product) = Current(log, d.who, d.product)
    BY <1>1, <1>2 DEF CalmStays, VoteIn, InLog
  <1>5. Len(log') <= WindowRows => Len(log) <= WindowRows
    BY LogConstants DEF CalmStays
  <1>6. req'[q].write = "landed" <=> req[q].write = "landed"
    BY DEF CalmStays
  <1> QED BY <1>1, <1>3, <1>4, <1>5, <1>6

\* A write in flight that nobody calls calm.
LEMMA CalmNone == ASSUME NEW q, calm'[q] = {} PROVE CalmVote(q)'
  BY DEF CalmVote

VotesInv == KnownVotes /\ CalmVotes

\* At the start nothing is known.
LEMMA VotesInit == ReactionsInit => VotesInv
  <1> SUFFICES ASSUME ReactionsInit PROVE VotesInv
    OBVIOUS
  <1>1. known = {} /\ calm = [r \in Requests |-> {}]
    BY DEF ReactionsInit
  <1>2. KnownVotes
    BY <1>1 DEF KnownVotes
  <1>3. CalmVotes
    BY <1>1 DEF CalmVotes, CalmVote
  <1> QED BY <1>2, <1>3 DEF VotesInv

\* Steps that change neither memory nor the log.
LEMMA VotesSame ==
    ASSUME VotesInv, Shape, UNCHANGED <<tally, log, known, applied, calm>>,
           \A q \in Requests : req'[q].write = "landed" <=> req[q].write = "landed"
    PROVE  VotesInv'
  <1>0. Len(log) \in Nat /\ Len(log) <= Len(log)
    BY LogLength
  <1>1. KnownStay
    BY <1>0 DEF KnownStay
  <1>2. ASSUME NEW q \in Requests PROVE CalmVote(q)'
    <2>1. CalmStays(q)
      BY <1>0 DEF CalmStays
    <2> QED BY <2>1, CalmSame DEF VotesInv, CalmVotes
  <1> QED BY <1>1, <1>2, KnownSame DEF VotesInv, CalmVotes

\* A write that starts turns what is known of its pairs into what is calm.
LEMMA VotesDecide ==
    ASSUME VotesInv, AtRest, Shape, ControlInv, Flights, NEW r \in Requests, Decide(r)
    PROVE  VotesInv'
  <1>0. req[r].pc = "getting" /\ req[r].write = "none" /\ applied[r] = <<>> /\ calm[r] = {} /\ UNCHANGED log
    BY CalmIsOwn DEF Decide, Flights, CalmOwn, sheetVars
  <1>1. CASE Answer(r) /\ UNCHANGED <<tally, known>>
    <2>1. /\ OthersStay(r) /\ req'[r] = NoRequest /\ applied'[r] = <<>> /\ calm'[r] = {}
          /\ applied' \in [Requests -> Seq(Delta)] /\ calm' \in [Requests -> SUBSET Pairs]
      BY <1>1, AnswerShape
    <2>2. applied' = applied
      BY <1>0, <2>1 DEF OthersStay, Shape, DataTypeOK
    <2>c. calm' = calm
      <3>1. calm \in [Requests -> SUBSET Pairs]
        BY DEF Shape, DataTypeOK
      <3>2. \A q \in Requests : calm'[q] = calm[q]
        BY <1>0, <2>1 DEF OthersStay
      <3> QED BY <2>1, <3>1, <3>2
    <2>3. ASSUME NEW q \in Requests PROVE req'[q].write = "landed" <=> req[q].write = "landed"
      <3>1. CASE q = r
        BY <1>0, <2>1, <3>1 DEF NoRequest
      <3>2. CASE q # r
        BY <2>1, <3>2 DEF OthersStay
      <3> QED BY <3>1, <3>2
    <2> QED BY <1>0, <1>1, <2>2, <2>c, <2>3, VotesSame
  <1>2. CASE ~Refused(r) /\ StartWrite(r)
    <2>1. PICK plan, ds, pairs :
              /\ PlanOK(req[r].who, req[r].batch, req[r].n, Len(req[r].batch), plan)
              /\ ds = plan.deltas /\ ds \in Seq(Delta) /\ pairs = PairsOf(RowsOf(ds)) /\ pairs \subseteq Pairs
              /\ tally' = plan.tally /\ calm' = [calm EXCEPT ![r] = pairs \cap known] /\ known' = known \ pairs
              /\ OthersStay(r)
              /\ applied'[r] = ds /\ calm'[r] = pairs \cap known
              /\ req'[r].pc = "writing" /\ req'[r].write = "new"
      BY <1>0, <1>2, StartFacts
    <2>2. AfterFirst(tally, ds, Len(ds), tally') /\ OneEach(ds)
      BY <2>1 DEF PlanOK
    <2>3. Len(log) \in Nat /\ Len(log) <= Len(log)
      BY LogLength
    <2>4. \A k \in 1..Len(ds) : PairOf(ds[k]) \in pairs
      BY <2>1, OwnRows
    <2>5. \A pair \in Pairs \ pairs : VoteIn(tally', pair) = VoteIn(tally, pair)
      BY <2>1, <2>2, <2>4, VoteElsewhere
    <2>6. known \subseteq Pairs /\ \A q \in Requests : calm[q] \subseteq Pairs
      BY DEF Shape, DataTypeOK
    <2>7. KnownStay
      BY <1>0, <2>1, <2>3, <2>5, <2>6 DEF KnownStay
    <2>8. ASSUME NEW q \in Requests \ {r} PROVE CalmVote(q)'
      <3>1. calm[q] \cap pairs = {}
        <4> SUFFICES ASSUME NEW pair \in calm[q], pair \in pairs PROVE FALSE
          OBVIOUS
        <4>1. pair \in PairsBy(q)
          BY CalmIsOwn DEF CalmOwn
        <4>2. PICK k \in 1..Len(ds) : PairOf(ds[k]) = pair
          BY <2>1, OwnRows
        <4>3. pair \in GuardsOf(req[r].who, req[r].batch)
          <5>1. Guarded(ds, req[r].who, req[r].batch, req[r].n)
            BY <1>0, <2>1, PlanGuarded, PlanFacts
          <5> QED BY <4>2, <5>1 DEF Guarded, PairOf
        <4>4. req[q].pc = "writing" /\ Guarded(applied[q], req[q].who, req[q].batch, req[q].n)
          <5>1. req[q].pc = "writing"
            BY <4>1 DEF Flights
          <5> QED BY <5>1 DEF Shape, WritesOK, WriteOK
        <4>5. PICK j \in 1..Len(applied[q]) : PairOf(applied[q][j]) = pair
          BY <4>1, OwnRows DEF Shape, DataTypeOK, PairsBy
        <4>6. pair \in GuardsOf(req[q].who, req[q].batch)
          BY <4>4, <4>5 DEF Guarded, PairOf
        <4>7. GuardsOf(req[q].who, req[q].batch) \subseteq guards
          BY <4>4 DEF ControlInv, GuardExclusive, Writing
        <4> QED BY <1>2, <4>3, <4>6, <4>7 DEF Refused
      <3>2. CalmStays(q)
        BY <1>0, <2>1, <2>3, <2>5, <2>6, <3>1 DEF CalmStays, OthersStay
      <3> QED BY <3>2, CalmSame DEF VotesInv, CalmVotes
    <2>9. CalmVote(r)'
      <3> SUFFICES ASSUME NEW k \in 1..Len(ds), PairOf(ds[k]) \in known
                   PROVE  /\ tally'.vote[ds[k].who][ds[k].product] = ds[k].next
                          /\ Len(log) <= WindowRows => Current(log, ds[k].who, ds[k].product) = ds[k].prev
        BY <1>0, <2>1 DEF CalmVote, PairOf
      <3>1. tally'.vote[ds[k].who][ds[k].product] = ds[k].next
        BY <2>2 DEF AfterFirst
      <3>2. ASSUME Len(log) <= WindowRows
            PROVE  tally.vote[ds[k].who][ds[k].product] = Current(log, ds[k].who, ds[k].product)
        <4>1. PairOf(ds[k])[1] = ds[k].who /\ PairOf(ds[k])[2] = ds[k].product
          BY DEF PairOf
        <4> QED BY <3>2, <4>1 DEF VotesInv, KnownVotes
      <3>3. ds[k].prev = tally.vote[ds[k].who][ds[k].product]
        <4>1. Plans(ds[k], req[r].who, req[r].batch, req[r].n, Len(req[r].batch))
          BY <2>1 DEF PlanOK
        <4> QED BY <4>1 DEF Plans
      <3> QED BY <3>1, <3>2, <3>3
    <2> QED BY <2>7, <2>8, <2>9, KnownSame DEF VotesInv, CalmVotes
  <1> QED BY <1>1, <1>2, Zenon DEF Decide

\* What a write in flight knows of the pairs of another, and of those at rest: nothing.
LEMMA Apart ==
    ASSUME Shape, Flights, AtRest, NEW r \in Requests
    PROVE  /\ known \subseteq Pairs /\ known \cap PairsBy(r) = {}
           /\ \A q \in Requests \ {r} : calm[q] \subseteq Pairs /\ calm[q] \cap PairsBy(r) = {}
  <1>1. known \cap PairsBy(r) = {}
    BY DEF AtRest, Unsettled, Flights
  <1>2. ASSUME NEW q \in Requests \ {r} PROVE calm[q] \cap PairsBy(r) = {}
    <2>1. calm[q] \subseteq PairsBy(q)
      BY CalmIsOwn DEF CalmOwn
    <2>2. PairsBy(q) \cap PairsBy(r) = {}
      BY DEF Flights
    <2> QED BY <2>1, <2>2
  <1>3. known \subseteq Pairs /\ \A q \in Requests : calm[q] \subseteq Pairs
    BY DEF Shape, DataTypeOK
  <1> QED BY <1>1, <1>2, <1>3

\* A calm insert that lands brings the log to where memory is.
LEMMA VotesLand ==
    ASSUME VotesInv, AtRest, Shape, ControlInv, Flights, NEW r \in Requests, Land(r)
    PROVE  VotesInv'
  <1>1. /\ log' = insertReactionRows(log, RowsOf(applied[r])) /\ req[r].write = "sent"
        /\ req' = [req EXCEPT ![r].write = "landed"] /\ UNCHANGED <<tally, applied, calm, known>>
    BY DEF Land, historyVars, memoryVars
  <1>2. req'[r].write = "landed" /\ \A q \in Requests \ {r} : req'[q] = req[q]
    BY <1>1 DEF ControlInv, ControlTypeOK, RequestState
  <1>3. applied[r] \in Seq(Delta)
    BY DEF Shape, DataTypeOK
  <1>4. /\ Len(log) \in Nat /\ Len(log') \in Nat /\ Len(log) <= Len(log')
        /\ \A pair \in Pairs \ PairsBy(r) : InLog(log', pair) = InLog(log, pair)
        /\ \A pair \in PairsBy(r) : InLog(log', pair) = InLog(RowsOf(applied[r]), pair)
    BY <1>1, <1>3, LogGrows DEF PairsBy, InLog
  <1>5. KnownStay
    BY <1>1, <1>4, Apart DEF KnownStay
  <1>6. ASSUME NEW q \in Requests \ {r} PROVE CalmVote(q)'
    <2>1. CalmStays(q)
      BY <1>1, <1>2, <1>4, Apart DEF CalmStays
    <2> QED BY <2>1, CalmSame DEF VotesInv, CalmVotes
  <1>7. CalmVote(r)'
    <2> SUFFICES ASSUME NEW k \in 1..Len(applied[r]), PairOf(applied[r][k]) \in calm[r]
                 PROVE  /\ tally.vote[applied[r][k].who][applied[r][k].product] = applied[r][k].next
                        /\ Current(log', applied[r][k].who, applied[r][k].product) = applied[r][k].next
      BY <1>1, <1>2 DEF CalmVote, PairOf
    <2>1. tally.vote[applied[r][k].who][applied[r][k].product] = applied[r][k].next
      BY DEF VotesInv, CalmVotes, CalmVote
    <2>2. PairOf(applied[r][k]) \in PairsBy(r)
      BY <1>3, OwnPairs
    <2>3. OneEach(applied[r])
      BY <1>1 DEF Shape, WritesOK, WriteOK, Flights
    <2>4. InLog(RowsOf(applied[r]), PairOf(applied[r][k])) = applied[r][k].next
      BY <1>3, <2>3, OwnRows
    <2>5. InLog(log', PairOf(applied[r][k])) = applied[r][k].next
      BY <1>4, <2>2, <2>4
    <2>6. PairOf(applied[r][k])[1] = applied[r][k].who /\ PairOf(applied[r][k])[2] = applied[r][k].product
      BY DEF PairOf
    <2> QED BY <2>1, <2>5, <2>6 DEF InLog
  <1> QED BY <1>5, <1>6, <1>7, KnownSame DEF VotesInv, CalmVotes

\* A calm pair of a write, and the delta that names it.
LEMMA CalmFacts ==
    ASSUME VotesInv, Shape, NEW r \in Requests, NEW pair \in calm[r]
    PROVE  \E k \in 1..Len(applied[r]) :
              /\ PairOf(applied[r][k]) = pair /\ pair[1] = applied[r][k].who /\ pair[2] = applied[r][k].product
              /\ VoteIn(tally, pair) = applied[r][k].next
              /\ Len(log) <= WindowRows =>
                   InLog(log, pair) = IF req[r].write = "landed" THEN applied[r][k].next ELSE applied[r][k].prev
  <1>1. applied[r] \in Seq(Delta)
    BY DEF Shape, DataTypeOK
  <1>2. pair \in PairsOf(RowsOf(applied[r]))
    BY CalmIsOwn DEF CalmOwn, PairsBy
  <1>3. PICK k \in 1..Len(applied[r]) : PairOf(applied[r][k]) = pair
    BY <1>1, <1>2, OwnRows
  <1>4. pair[1] = applied[r][k].who /\ pair[2] = applied[r][k].product
    BY <1>3 DEF PairOf
  <1>5. CalmVote(r)
    BY DEF VotesInv, CalmVotes
  <1>6. /\ tally.vote[applied[r][k].who][applied[r][k].product] = applied[r][k].next
        /\ Len(log) <= WindowRows =>
              Current(log, applied[r][k].who, applied[r][k].product) =
                  IF req[r].write = "landed" THEN applied[r][k].next ELSE applied[r][k].prev
    BY <1>3, <1>5 DEF CalmVote
  <1> QED BY <1>3, <1>4, <1>6 DEF VoteIn, InLog

\* A calm write that is answered leaves its pairs known.
LEMMA VotesRespond ==
    ASSUME VotesInv, Shape, ControlInv, NEW r \in Requests, RespondOk(r)
    PROVE  VotesInv'
  <1>1. /\ Answer(r) /\ req[r].write = "landed" /\ known' = known \cup calm[r]
        /\ UNCHANGED <<log, tally>>
    BY DEF RespondOk, sheetVars, memoryVars
  <1>2. OthersStay(r) /\ calm'[r] = {}
    BY <1>1, AnswerShape
  <1>3. Len(log) \in Nat /\ Len(log) <= Len(log)
    BY LogLength
  <1>4. KnownVotes'
    <2> SUFFICES ASSUME Len(log) <= WindowRows, NEW pair \in known \cup calm[r]
                 PROVE  VoteIn(tally, pair) = InLog(log, pair)
      BY <1>1 DEF KnownVotes, VoteIn, InLog
    <2>1. CASE pair \in known
      BY <2>1 DEF VotesInv, KnownVotes, VoteIn, InLog
    <2>2. CASE pair \in calm[r]
      <3>1. PICK k : VoteIn(tally, pair) = applied[r][k].next /\ InLog(log, pair) = applied[r][k].next
        BY <1>1, <2>2, CalmFacts
      <3> QED BY <3>1
    <2> QED BY <2>1, <2>2
  <1>5. ASSUME NEW q \in Requests \ {r} PROVE CalmVote(q)'
    <2>1. CalmStays(q)
      BY <1>1, <1>2, <1>3 DEF CalmStays, OthersStay
    <2> QED BY <2>1, CalmSame DEF VotesInv, CalmVotes
  <1>6. CalmVote(r)'
    BY <1>2, CalmNone
  <1> QED BY <1>4, <1>5, <1>6 DEF VotesInv, CalmVotes

\* Giving a write back restores what it found, and leaves all other pairs alone.
LEMMA VotesGivenBack ==
    ASSUME Shape, NEW r \in Requests, req[r].pc = "writing",
           tally' = AppliedAll(tally, GivenBack(applied[r]))
    PROVE  /\ \A pair \in Pairs \ PairsBy(r) : VoteIn(tally', pair) = VoteIn(tally, pair)
           /\ \A k \in 1..Len(applied[r]) : VoteIn(tally', PairOf(applied[r][k])) = applied[r][k].prev
  <1>1. PICK ds, es : ds = applied[r] /\ es = GivenBack(ds)
    OBVIOUS
  <1>2. ds \in Seq(Delta) /\ OneEach(ds) /\ tally \in Tally
    BY <1>1 DEF Shape, DataTypeOK, WritesOK, WriteOK
  <1>3. /\ es \in Seq(Delta) /\ Len(es) = Len(ds) /\ OneEach(es)
        /\ \A k \in 1..Len(ds) : /\ es[k].who = ds[k].who /\ es[k].product = ds[k].product
                                 /\ es[k].next = ds[k].prev
    BY <1>1, <1>2, GivenBackFacts
  <1>4. AfterFirst(tally, es, Len(es), tally')
    BY <1>1, <1>2, <1>3, AppliedFacts
  <1>5. ASSUME NEW pair \in Pairs \ PairsBy(r) PROVE VoteIn(tally', pair) = VoteIn(tally, pair)
    <2>1. \A k \in 1..Len(ds) : PairOf(ds[k]) \in PairsBy(r)
      BY <1>1, <1>2, OwnRows DEF PairsBy
    <2>2. \A k \in 1..Len(es) : PairOf(es[k]) # pair
      BY <1>3, <2>1 DEF PairOf
    <2> QED BY <1>3, <1>4, <2>2, VoteElsewhere
  <1>6. ASSUME NEW k \in 1..Len(ds) PROVE VoteIn(tally', PairOf(ds[k])) = ds[k].prev
    <2>1. tally'.vote[es[k].who][es[k].product] = es[k].next
      BY <1>3, <1>4 DEF AfterFirst
    <2>2. PairOf(ds[k])[1] = ds[k].who /\ PairOf(ds[k])[2] = ds[k].product
      BY DEF PairOf
    <2> QED BY <1>3, <2>1, <2>2 DEF VoteIn
  <1> QED BY <1>1, <1>5, <1>6

\* A calm write given back leaves its pairs as it found them.
LEMMA VotesFail ==
    ASSUME VotesInv, AtRest, Shape, ControlInv, Flights, NEW r \in Requests, InsertFails(r)
    PROVE  VotesInv'
  <1>1. /\ Answer(r) /\ req[r].pc = "writing" /\ tally' = AppliedAll(tally, GivenBack(applied[r])) /\ UNCHANGED log
        /\ \/ known' = known
           \/ known' = known \cup calm[r] /\ req[r].write \in {"new", "sent"}
    BY DEF InsertFails, Writing, GivenBack
  <1>2. OthersStay(r) /\ calm'[r] = {}
    BY <1>1, AnswerShape
  <1>3. Len(log) \in Nat /\ Len(log) <= Len(log)
    BY LogLength
  <1>4. /\ \A pair \in Pairs \ PairsBy(r) : VoteIn(tally', pair) = VoteIn(tally, pair)
        /\ \A k \in 1..Len(applied[r]) : VoteIn(tally', PairOf(applied[r][k])) = applied[r][k].prev
    BY <1>1, VotesGivenBack
  <1>5. KnownVotes'
    <2> SUFFICES ASSUME Len(log) <= WindowRows, NEW pair \in known'
                 PROVE  VoteIn(tally', pair) = InLog(log, pair)
      BY <1>1 DEF KnownVotes, VoteIn, InLog
    <2>1. CASE pair \in known
      <3>1. VoteIn(tally, pair) = InLog(log, pair)
        BY <2>1 DEF VotesInv, KnownVotes, VoteIn, InLog
      <3>2. pair \in Pairs \ PairsBy(r)
        BY <2>1, Apart
      <3> QED BY <1>4, <3>1, <3>2
    <2>2. CASE pair \in calm[r] /\ req[r].write \in {"new", "sent"}
      <3>1. PICK k \in 1..Len(applied[r]) :
                    /\ PairOf(applied[r][k]) = pair /\ pair[1] = applied[r][k].who /\ pair[2] = applied[r][k].product
                    /\ VoteIn(tally, pair) = applied[r][k].next
                    /\ Len(log) <= WindowRows =>
                         InLog(log, pair) = IF req[r].write = "landed" THEN applied[r][k].next ELSE applied[r][k].prev
        BY <2>2, CalmFacts
      <3> QED BY <1>4, <2>2, <3>1
    <2> QED BY <1>1, <2>1, <2>2
  <1>6. ASSUME NEW q \in Requests \ {r} PROVE CalmVote(q)'
    <2>1. CalmStays(q)
      BY <1>1, <1>2, <1>3, <1>4, Apart DEF CalmStays, OthersStay
    <2> QED BY <2>1, CalmSame DEF VotesInv, CalmVotes
  <1>7. CalmVote(r)'
    BY <1>2, CalmNone
  <1> QED BY <1>5, <1>6, <1>7 DEF VotesInv, CalmVotes

\* An orphan that lands is of no pair that is known or calm.
LEMMA VotesOrphan ==
    ASSUME VotesInv, AtRest, Shape, OrphanLands
    PROVE  VotesInv'
  <1>1. PICK ds \in orphans : /\ log' = insertReactionRows(log, RowsOf(ds))
                              /\ known' = known \ PairsOf(RowsOf(ds))
                              /\ UNCHANGED <<memoryVars, requestVars, calm>>
    BY Zenon DEF OrphanLands
  <1>2. ds \in Seq(Delta) /\ known \subseteq Pairs /\ \A q \in Requests : calm[q] \subseteq Pairs
    BY DEF Shape, DataTypeOK
  <1>3. UNCHANGED <<tally, applied, req, calm>>
    BY <1>1 DEF memoryVars, requestVars
  <1>4. /\ Len(log) \in Nat /\ Len(log') \in Nat /\ Len(log) <= Len(log')
        /\ \A pair \in Pairs \ PairsOf(RowsOf(ds)) : InLog(log', pair) = InLog(log, pair)
    BY <1>1, <1>2, LogGrows DEF InLog
  <1>5. KnownStay
    BY <1>1, <1>2, <1>3, <1>4 DEF KnownStay
  <1>6. ASSUME NEW q \in Requests PROVE CalmVote(q)'
    <2>1. calm[q] \cap PairsOf(RowsOf(ds)) = {}
      BY <1>1 DEF AtRest, OrphanPairs
    <2>2. CalmStays(q)
      BY <1>2, <1>3, <1>4, <2>1 DEF CalmStays
    <2> QED BY <2>2, CalmSame DEF VotesInv, CalmVotes
  <1> QED BY <1>5, <1>6, KnownSame DEF VotesInv, CalmVotes

\* The votes a refresh derives are the newest rows.
LEMMA ParsedVote ==
    ASSUME NEW rows, NEW pair \in Pairs
    PROVE  VoteIn(parseReactions(rows), pair) = Current(rows, pair[1], pair[2])
  <1>1. PICK v \in Visitors, p \in Products : pair = <<v, p>>
    BY DEF Pairs
  <1>2. parseReactions(rows).vote = [u \in Visitors |-> [q \in Products |-> Current(rows, u, q)]]
    BY DEF parseReactions
  <1> QED BY <1>1, <1>2 DEF VoteIn

\* What a refresh replays on the rows it was given names no pair that was at rest.
LEMMA ReplayedFacts ==
    ASSUME QuietNotReplayed, CacheInv, Shape, NEW i \in ReadIds, EndReadOk(i), NEW old, NEW ds, NEW s,
           old = parseReactions(asked[i].rows),
           ds = Among(deltas, {d \in Range(deltas) : Replayed(d, i)}),
           s = AppliedAll(old, ds)
    PROVE  /\ ds \in Seq(Delta) /\ old \in Tally /\ AfterFirst(old, ds, Len(ds), s)
           /\ \A j \in 1..Len(ds) : PairOf(ds[j]) \notin quiet[i]
  <1>1. reads[i].phase = "served" /\ asked[i].rows \in Seq(Row) /\ deltas \in Seq(Delta)
    BY DEF EndReadOk, Shape, DataTypeOK
  <1>2. old \in Tally
    BY <1>1, ParsedType
  <1>3. /\ ds \in Seq(Delta)
        /\ \A j \in 1..Len(ds) : Replayed(ds[j], i) /\ \E k \in 1..Len(deltas) : ds[j] = deltas[k]
    <2>1. PICK S, all : S = {d \in Range(deltas) : Replayed(d, i)} /\ all = deltas
      OBVIOUS
    <2>2. all \in Seq(Delta)
      BY <1>1, <2>1
    <2>3. /\ Among(all, S) \in Seq(Delta)
          /\ \A j \in 1..Len(Among(all, S)) :
                Among(all, S)[j] \in S /\ \E k \in 1..Len(all) : Among(all, S)[j] = all[k]
      BY <2>2, AmongFacts
    <2>4. \A d \in S : Replayed(d, i)
      BY <2>1
    <2> QED BY <2>1, <2>3, <2>4
  <1>4. AfterFirst(old, ds, Len(ds), s)
    BY <1>2, <1>3, AppliedFacts
  <1>5. ASSUME NEW j \in 1..Len(ds), PairOf(ds[j]) \in quiet[i] PROVE FALSE
    <2>1. PICK k \in 1..Len(deltas) : ds[j] = deltas[k]
      BY <1>3
    <2>2. deltas[k].age > reads[i].age
      BY <1>1, <1>5, <2>1 DEF QuietNotReplayed
    <2>3. deltas[k].age <= reads[i].age
      BY <1>3, <2>1 DEF Replayed
    <2>4. deltas[k].age \in Nat /\ reads[i].age \in Nat
      <3>1. deltas[k] \in Delta
        BY <1>1, ElementOfSeq
      <3> QED BY <3>1 DEF Delta, Age, CacheInv, CacheTypeOK, Load
    <2> QED BY <2>2, <2>3, <2>4
  <1> QED BY <1>2, <1>3, <1>4, <1>5

\* A refresh knows the pairs that were at rest since it was sent.
LEMMA VotesRefresh ==
    ASSUME VotesInv, QuietNotReplayed, QuietRowsCurrent, CacheInv, Shape, NEW i \in ReadIds, RefreshEnds(i)
    PROVE  VotesInv'
  <1>1. /\ EndReadOk(i)
        /\ tally' = AppliedAll(parseReactions(asked[i].rows), Among(deltas, {d \in Range(deltas) : Replayed(d, i)}))
        /\ known' = quiet[i] /\ calm' = [r \in Requests |-> {}] /\ UNCHANGED log
    BY DEF RefreshEnds, sheetVars
  <1>2. PICK old, ds : /\ old = parseReactions(asked[i].rows)
                       /\ ds = Among(deltas, {d \in Range(deltas) : Replayed(d, i)})
    OBVIOUS
  <1>3. /\ ds \in Seq(Delta) /\ old \in Tally /\ AfterFirst(old, ds, Len(ds), tally')
        /\ \A j \in 1..Len(ds) : PairOf(ds[j]) \notin quiet[i]
    BY <1>1, <1>2, ReplayedFacts
  <1>4. reads[i].phase = "served" /\ quiet[i] \subseteq Pairs
    BY <1>1 DEF EndReadOk, Shape, DataTypeOK
  <1>5. KnownVotes'
    <2> SUFFICES ASSUME Len(log) <= WindowRows, NEW pair \in quiet[i]
                 PROVE  VoteIn(tally', pair) = InLog(log, pair)
      BY <1>1 DEF KnownVotes, VoteIn, InLog
    <2>1. VoteIn(tally', pair) = VoteIn(old, pair)
      BY <1>3, <1>4, VoteElsewhere
    <2>2. VoteIn(old, pair) = Current(asked[i].rows, pair[1], pair[2])
      BY <1>2, <1>4, ParsedVote
    <2>3. Current(asked[i].rows, pair[1], pair[2]) = Current(log, pair[1], pair[2])
      BY <1>4 DEF QuietRowsCurrent
    <2> QED BY <2>1, <2>2, <2>3 DEF InLog
  <1>6. ASSUME NEW q \in Requests PROVE CalmVote(q)'
    BY <1>1, CalmNone
  <1> QED BY <1>5, <1>6 DEF VotesInv, CalmVotes

\* Every step keeps the known and the calm votes right.
LEMMA VotesNext ==
    ASSUME VotesInv, AtRest, QuietNotReplayed, QuietRowsCurrent, CacheInv, Shape, ControlInv, Flights,
           [ReactionsNext]_vars
    PROVE  VotesInv'
  <1>1. ASSUME PageStep \/ \E r \in Requests : Submit(r) PROVE VotesInv'
    <2>1. UNCHANGED <<tally, log, known, applied, calm>>
      BY <1>1, CallStep DEF Shape
    <2>2. ASSUME NEW q \in Requests PROVE req'[q].write = "landed" <=> req[q].write = "landed"
      <3>1. CASE PageStep
        BY <3>1 DEF PageStep, requestVars
      <3>2. ASSUME NEW r \in Requests, Submit(r) PROVE req'[q].write = "landed" <=> req[q].write = "landed"
        <4>1. PICK v \in Visitors, batch \in Batches :
                req' = [req EXCEPT ![r] = [NoRequest EXCEPT !.pc = "getting", !.who = v,
                                                            !.batch = batch, !.n = submits + 1]]
          BY <3>2 DEF Submit
        <4>2. req[r].pc = "idle"
          BY <3>2 DEF Submit
        <4>3. \A p \in Requests \ {r} : req'[p] = req[p]
          BY <4>1 DEF ControlInv, ControlTypeOK
        <4>4. req'[r].write = "none" /\ req[r].write = "none"
          BY <4>1, <4>2 DEF ControlInv, ControlTypeOK, NoRequest, Flights
        <4> QED BY <4>3, <4>4
      <3> QED BY <1>1, <3>1, <3>2
    <2> QED BY <2>1, <2>2, VotesSame
  <1>2. ASSUME NEW r \in Requests, Decide(r) \/ Land(r) \/ RespondOk(r) \/ InsertFails(r) PROVE VotesInv'
    BY <1>2, VotesDecide, VotesLand, VotesRespond, VotesFail
  <1>3. ASSUME NEW i \in ReadIds, RefreshEnds(i) PROVE VotesInv'
    BY <1>3, VotesRefresh
  <1>4. CASE OrphanLands
    BY <1>4, VotesOrphan
  <1>5. CASE Clock
    <2>1. UNCHANGED <<tally, log, known, applied, calm>>
      BY <1>5 DEF Clock, sheetVars, historyVars
    <2>2. \A r \in Requests : req'[r].write = IF req[r].write = "new" THEN "sent" ELSE req[r].write
      BY <1>5 DEF Clock, ControlInv, ControlTypeOK, RequestState
    <2>3. \A r \in Requests : req'[r].write = "landed" <=> req[r].write = "landed"
      BY <2>2
    <2> QED BY <2>1, <2>3, VotesSame
  <1>6. CASE Restart
    <2>1. known' = {} /\ calm' = [r \in Requests |-> {}]
      BY <1>6 DEF Restart
    <2>2. KnownVotes'
      BY <2>1 DEF KnownVotes
    <2>3. ASSUME NEW q \in Requests PROVE CalmVote(q)'
      BY <2>1, CalmNone
    <2> QED BY <2>2, <2>3 DEF VotesInv, CalmVotes
  <1>7. CASE UNCHANGED <<tally, log, known, applied, calm, req>>
    BY <1>7, VotesSame
  <1> QED
    BY <1>1, <1>2, <1>3, <1>4, <1>5, <1>6, <1>7
    DEF ReactionsNext, SheetServes, RefreshFails, Shop, sheetVars, memoryVars, requestVars, historyVars, vars

-----------------------------------------------------------------------------
(* the likes in memory                                                     *)

\* One vote that changes changes the count of likers as applyDelta() changes the likes.
LEMMA LikedCounts ==
    ASSUME NEW A, NEW B, NEW w, NEW d, IsFiniteSet(A), d.prev \in Reaction, d.next \in Reaction,
           w \in A <=> d.prev = "like", w \in B <=> d.next = "like", B \ {w} = A \ {w}
    PROVE  Cardinality(B) = Liked(Cardinality(A), d)
  <1>1. PICK n : n = Cardinality(A)
    OBVIOUS
  <1>2. n \in Nat
    BY <1>1, FS_CardinalityType
  <1>3. w \in A => n > 0
    <2>1. n = 0 <=> A = {}
      BY <1>1, FS_EmptySet
    <2> QED BY <1>2, <2>1
  <1>4. CASE d.prev = "like" /\ d.next = "like"
    <2>1. B = A
      BY <1>4
    <2>2. Liked(n, d) = n - 1 + 1
      BY <1>3, <1>4 DEF Liked
    <2> QED BY <1>1, <1>2, <2>1, <2>2
  <1>5. CASE d.prev = "like" /\ d.next # "like"
    <2>1. B = A \ {w} /\ w \in A
      BY <1>5
    <2>2. Cardinality(A \ {w}) = n - 1
      BY <1>1, <2>1, FS_RemoveElement
    <2>3. Liked(n, d) = n - 1 + 0
      BY <1>3, <1>5 DEF Liked
    <2> QED BY <1>1, <1>2, <2>1, <2>2, <2>3
  <1>6. CASE d.prev # "like" /\ d.next = "like"
    <2>1. B = A \cup {w} /\ w \notin A
      BY <1>6
    <2>2. Cardinality(A \cup {w}) = n + 1
      BY <1>1, <2>1, FS_AddElement
    <2>3. Liked(n, d) = n + 1
      BY <1>6 DEF Liked
    <2> QED BY <1>1, <2>1, <2>2, <2>3
  <1>7. CASE d.prev # "like" /\ d.next # "like"
    <2>1. B = A
      BY <1>7
    <2>2. Liked(n, d) = n + 0
      BY <1>7 DEF Liked
    <2> QED BY <1>1, <1>2, <2>1, <2>2
  <1> QED BY <1>4, <1>5, <1>6, <1>7

LikersIn(t, p) == {v \in Visitors : t.vote[v][p] = "like"}

\* A product that no delta names keeps its likes and its likers.
LEMMA LikesElsewhere ==
    ASSUME NEW t \in Tally, NEW ds \in Seq(Delta), NEW s, AfterFirst(t, ds, Len(ds), s),
           NEW p \in Products, \A k \in 1..Len(ds) : ds[k].product # p, t.likes[p] = VotesFor(t, p)
    PROVE  s.likes[p] = VotesFor(s, p)
  <1>1. s.likes[p] = t.likes[p]
    BY DEF AfterFirst
  <1>2. \A v \in Visitors : s.vote[v][p] = t.vote[v][p]
    BY DEF AfterFirst
  <1>3. LikersIn(s, p) = LikersIn(t, p)
    BY <1>2 DEF LikersIn
  <1> QED BY <1>1, <1>3 DEF VotesFor, LikersIn

\* Deltas of several products, each of which memory was of before, keep the counts right.
LEMMA LikesFollow ==
    ASSUME NEW t \in Tally, NEW ds \in Seq(Delta), NEW s, AfterFirst(t, ds, Len(ds), s), OneEach(ds),
           NEW p \in Products, t.likes[p] = VotesFor(t, p),
           \A k \in 1..Len(ds) : ds[k].product = p => t.vote[ds[k].who][p] = ds[k].prev
    PROVE  s.likes[p] = VotesFor(s, p)
  <1>1. CASE \A k \in 1..Len(ds) : ds[k].product # p
    BY <1>1, LikesElsewhere
  <1>2. CASE \E k \in 1..Len(ds) : ds[k].product = p
    <2>1. PICK k \in 1..Len(ds) : ds[k].product = p
      BY <1>2
    <2>2. PICK d, w : d = ds[k] /\ w = d.who
      OBVIOUS
    <2>3. d \in Delta /\ w \in Visitors /\ d.prev \in Reaction /\ d.next \in Reaction
      <3>1. d \in Delta
        BY <2>2, ElementOfSeq
      <3> QED BY <2>2, <3>1, DeltaFacts
    <2>4. s.vote[w][p] = d.next /\ s.likes[p] = Liked(t.likes[p], d)
      BY <2>1, <2>2 DEF AfterFirst
    <2>5. t.vote[w][p] = d.prev
      BY <2>1, <2>2
    <2>6. ASSUME NEW v \in Visitors \ {w} PROVE s.vote[v][p] = t.vote[v][p]
      <3>1. \A j \in 1..Len(ds) : <<ds[j].who, ds[j].product>> # <<v, p>>
        BY <2>1, <2>2, <2>6 DEF OneEach
      <3> QED BY <2>6, <3>1 DEF AfterFirst
    <2>7. IsFiniteSet(LikersIn(t, p))
      <3>1. LikersIn(t, p) \subseteq Visitors
        BY DEF LikersIn
      <3> QED BY <3>1, LogConstants, FS_Subset
    <2>8. /\ w \in LikersIn(t, p) <=> d.prev = "like"
          /\ w \in LikersIn(s, p) <=> d.next = "like"
          /\ LikersIn(s, p) \ {w} = LikersIn(t, p) \ {w}
      BY <2>3, <2>4, <2>5, <2>6 DEF LikersIn
    <2>9. Cardinality(LikersIn(s, p)) = Liked(Cardinality(LikersIn(t, p)), d)
      BY <2>3, <2>7, <2>8, LikedCounts
    <2> QED BY <2>4, <2>9 DEF VotesFor, LikersIn
  <1> QED BY <1>1, <1>2

\* The likes a refresh derives are the number of its likers.
LEMMA ParsedLikes ==
    ASSUME NEW rows, NEW p \in Products
    PROVE  parseReactions(rows).likes[p] = VotesFor(parseReactions(rows), p)
  <1>1. PICK t : t = parseReactions(rows)
    OBVIOUS
  <1>2. /\ t.vote = [u \in Visitors |-> [q \in Products |-> Current(rows, u, q)]]
        /\ t.likes = [q \in Products |-> Likers(rows, q)]
    BY <1>1 DEF parseReactions
  <1>3. \A v \in Visitors : t.vote[v][p] = Current(rows, v, p)
    BY <1>2
  <1>4. LikersIn(t, p) = {v \in Visitors : Current(rows, v, p) = "like"}
    BY <1>3 DEF LikersIn
  <1> QED BY <1>1, <1>2, <1>4 DEF VotesFor, LikersIn, Likers

\* At the start memory counts right.
LEMMA LikesInit == ReactionsInit => LikesCount
  <1> SUFFICES ASSUME ReactionsInit PROVE LikesCount
    OBVIOUS
  <1>1. tally = parseReactions(<<>>)
    BY DEF ReactionsInit
  <1> QED BY <1>1, ParsedLikes DEF LikesCount

\* Steps after which memory is as it was, and no more is known of it.
CoveredStay == known' \cup UNION {calm'[r] : r \in Requests} \subseteq known \cup UNION {calm[r] : r \in Requests}

\* What is covered after such a step was covered before.
LEMMA CoveredLess == ASSUME CoveredStay, NEW p, Covered(p)' PROVE Covered(p)
  BY DEF CoveredStay, Covered

\* Memory that stays goes on counting right.
LEMMA LikesSame == ASSUME LikesCount, CoveredStay, tally' = tally PROVE LikesCount'
  BY CoveredLess DEF LikesCount, VotesFor

\* A write that starts counts its deltas.
LEMMA LikesDecide ==
    ASSUME LikesCount, Shape, ControlInv, Flights, NEW r \in Requests, Decide(r)
    PROVE  LikesCount'
  <1>0. req[r].pc = "getting" /\ calm[r] = {}
    BY CalmIsOwn DEF Decide, Flights, CalmOwn
  <1>1. CASE Answer(r) /\ UNCHANGED <<tally, known>>
    <2>1. OthersStay(r) /\ calm'[r] = {}
      BY <1>1, AnswerShape
    <2>2. \A q \in Requests : calm'[q] = calm[q]
      BY <1>0, <2>1 DEF OthersStay
    <2>3. CoveredStay
      BY <1>1, <2>2 DEF CoveredStay
    <2> QED BY <1>1, <2>3, LikesSame
  <1>2. CASE StartWrite(r)
    <2>1. PICK plan, ds, pairs :
              /\ PlanOK(req[r].who, req[r].batch, req[r].n, Len(req[r].batch), plan)
              /\ ds = plan.deltas /\ ds \in Seq(Delta) /\ pairs = PairsOf(RowsOf(ds)) /\ pairs \subseteq Pairs
              /\ tally' = plan.tally
              /\ calm' = [calm EXCEPT ![r] = pairs \cap known] /\ known' = known \ pairs
              /\ OthersStay(r)
              /\ applied'[r] = ds /\ calm'[r] = pairs \cap known
      BY <1>0, <1>2, StartFacts
    <2>2. AfterFirst(tally, ds, Len(ds), tally') /\ OneEach(ds) /\ tally \in Tally
      BY <2>1 DEF PlanOK, Shape, DataTypeOK
    <2>3. CoveredStay
      BY <2>1 DEF CoveredStay, OthersStay
    <2>4. \A k \in 1..Len(ds) : tally.vote[ds[k].who][ds[k].product] = ds[k].prev
      <3>1. \A k \in 1..Len(ds) : Plans(ds[k], req[r].who, req[r].batch, req[r].n, Len(req[r].batch))
        BY <2>1 DEF PlanOK
      <3> QED BY <3>1 DEF Plans
    <2> SUFFICES ASSUME NEW p \in Products, Covered(p)' PROVE tally'.likes[p] = VotesFor(tally', p)
      BY DEF LikesCount, VotesFor
    <2>5. tally.likes[p] = VotesFor(tally, p)
      BY <2>3, CoveredLess DEF LikesCount
    <2> QED BY <2>1, <2>2, <2>4, <2>5, LikesFollow
  <1> QED BY <1>1, <1>2, Zenon DEF Decide

\* A write given back uncounts them.
LEMMA LikesFail ==
    ASSUME LikesCount, VotesInv, AtRest, Shape, ControlInv, Flights, NEW r \in Requests, InsertFails(r)
    PROVE  LikesCount'
  <1>1. /\ Answer(r) /\ req[r].pc = "writing" /\ tally' = AppliedAll(tally, GivenBack(applied[r]))
        /\ known' = known \/ known' = known \cup calm[r]
    BY DEF InsertFails, Writing, GivenBack
  <1>2. OthersStay(r) /\ calm'[r] = {}
    BY <1>1, AnswerShape
  <1>3. CoveredStay
    BY <1>1, <1>2 DEF CoveredStay, OthersStay
  <1>4. PICK ds, es : ds = applied[r] /\ es = GivenBack(ds)
    OBVIOUS
  <1>5. ds \in Seq(Delta) /\ OneEach(ds) /\ tally \in Tally
    BY <1>1, <1>4 DEF Shape, DataTypeOK, WritesOK, WriteOK
  <1>6. /\ es \in Seq(Delta) /\ Len(es) = Len(ds) /\ OneEach(es)
        /\ \A k \in 1..Len(ds) : /\ es[k].who = ds[k].who /\ es[k].product = ds[k].product
                                 /\ es[k].prev = ds[k].next
    BY <1>4, <1>5, GivenBackFacts
  <1>7. AfterFirst(tally, es, Len(es), tally')
    BY <1>1, <1>4, <1>5, <1>6, AppliedFacts
  <1> SUFFICES ASSUME NEW p \in Products, Covered(p)' PROVE tally'.likes[p] = VotesFor(tally', p)
    BY DEF LikesCount, VotesFor
  <1>8. Covered(p) /\ tally.likes[p] = VotesFor(tally, p)
    BY <1>3, CoveredLess DEF LikesCount
  <1>9. ASSUME NEW k \in 1..Len(ds), ds[k].product = p PROVE tally.vote[ds[k].who][p] = ds[k].next
    <2>1. PairOf(ds[k]) \in PairsBy(r) /\ ds[k].who \in Visitors
      <3>1. ds[k] \in Delta
        BY <1>5, ElementOfSeq
      <3> QED BY <1>4, <1>5, <3>1, OwnPairs, DeltaFacts
    <2>2. PairOf(ds[k]) \in known \cup UNION {calm[q] : q \in Requests}
      BY <1>8, <1>9, <2>1 DEF Covered, PairOf
    <2>3. PairOf(ds[k]) \in calm[r]
      BY <2>1, <2>2, Apart
    <2>4. CalmVote(r)
      BY DEF VotesInv, CalmVotes
    <2> QED BY <1>4, <1>9, <2>3, <2>4 DEF CalmVote
  <1>10. \A k \in 1..Len(es) : es[k].product = p => tally.vote[es[k].who][p] = es[k].prev
    BY <1>6, <1>9
  <1> QED BY <1>5, <1>6, <1>7, <1>8, <1>10, LikesFollow

\* A refresh counts what it was given, and replays nothing of a covered product.
LEMMA LikesRefresh ==
    ASSUME QuietNotReplayed, CacheInv, Shape, NEW i \in ReadIds, RefreshEnds(i)
    PROVE  LikesCount'
  <1>1. /\ EndReadOk(i)
        /\ tally' = AppliedAll(parseReactions(asked[i].rows), Among(deltas, {d \in Range(deltas) : Replayed(d, i)}))
        /\ known' = quiet[i] /\ calm' = [r \in Requests |-> {}]
    BY DEF RefreshEnds
  <1>2. PICK old, ds : /\ old = parseReactions(asked[i].rows)
                       /\ ds = Among(deltas, {d \in Range(deltas) : Replayed(d, i)})
    OBVIOUS
  <1>3. ds \in Seq(Delta) /\ old \in Tally /\ AfterFirst(old, ds, Len(ds), tally')
        /\ \A j \in 1..Len(ds) : PairOf(ds[j]) \notin quiet[i]
    BY <1>1, <1>2, ReplayedFacts
  <1> SUFFICES ASSUME NEW p \in Products, Covered(p)' PROVE tally'.likes[p] = VotesFor(tally', p)
    BY DEF LikesCount, VotesFor
  <1>4. \A v \in Visitors : <<v, p>> \in quiet[i]
    BY <1>1 DEF Covered
  <1>5. \A j \in 1..Len(ds) : ds[j].product # p
    <2>1. \A j \in 1..Len(ds) : ds[j].who \in Visitors
      BY <1>3, ElementOfSeq, DeltaFacts
    <2> QED BY <1>3, <1>4, <2>1 DEF PairOf
  <1>6. old.likes[p] = VotesFor(old, p)
    BY <1>2, ParsedLikes
  <1> QED BY <1>3, <1>5, <1>6, LikesElsewhere

\* Every step keeps the counts of covered products right.
LEMMA LikesNext ==
    ASSUME LikesCount, VotesInv, AtRest, QuietNotReplayed, CacheInv, Shape, ControlInv, Flights,
           [ReactionsNext]_vars
    PROVE  LikesCount'
  <1>1. CASE PageStep \/ \E r \in Requests : Submit(r)
    <2>1. UNCHANGED <<tally, known, calm>>
      BY <1>1, CallStep DEF Shape
    <2> QED BY <2>1, LikesSame DEF CoveredStay
  <1>2. ASSUME NEW r \in Requests, Decide(r) \/ InsertFails(r) PROVE LikesCount'
    BY <1>2, LikesDecide, LikesFail
  <1>3. ASSUME NEW r \in Requests, RespondOk(r) PROVE LikesCount'
    <2>1. Answer(r) /\ known' = known \cup calm[r] /\ UNCHANGED tally
      BY <1>3 DEF RespondOk, memoryVars
    <2>2. OthersStay(r) /\ calm'[r] = {}
      BY <2>1, AnswerShape
    <2>3. CoveredStay
      BY <2>1, <2>2 DEF CoveredStay, OthersStay
    <2> QED BY <2>1, <2>3, LikesSame
  <1>4. ASSUME NEW i \in ReadIds, RefreshEnds(i) PROVE LikesCount'
    BY <1>4, LikesRefresh
  <1>5. CASE OrphanLands
    <2>1. UNCHANGED <<tally, calm>> /\ \E pairs : known' = known \ pairs
      BY <1>5 DEF OrphanLands, memoryVars
    <2>2. CoveredStay
      BY <2>1 DEF CoveredStay
    <2> QED BY <2>1, <2>2, LikesSame
  <1>6. CASE Restart
    <2>1. tally' = parseReactions(<<>>)
      BY <1>6 DEF Restart
    <2> QED BY <2>1, ParsedLikes DEF LikesCount, VotesFor
  <1>7. CASE UNCHANGED <<tally, known, calm>>
    BY <1>7, LikesSame DEF CoveredStay
  <1> QED
    BY <1>1, <1>2, <1>3, <1>4, <1>5, <1>6, <1>7
    DEF ReactionsNext, Land, SheetServes, RefreshFails, Clock, Shop, memoryVars, historyVars, vars

\* The new process starts with what is true of memory.
LEMMA MemoryInit == ReactionsInit => MemoryInv
  <1> SUFFICES ASSUME ReactionsInit PROVE MemoryInv
    OBVIOUS
  <1>1. deltas = <<>> /\ quiet = [i \in ReadIds |-> {}]
    BY DEF ReactionsInit
  <1>2. YoungFlies /\ QuietNotReplayed /\ QuietRowsCurrent
    BY <1>1 DEF YoungFlies, QuietNotReplayed, QuietRowsCurrent
  <1> QED BY <1>2, RestInit, VotesInit, LikesInit DEF MemoryInv, VotesInv

\* Every step keeps what is true of memory.
LEMMA MemoryNext ==
    ASSUME MemoryInv, CacheInv, CacheInv', Shape, ControlInv, Flights, Flights', [ReactionsNext]_vars
    PROVE  MemoryInv'
  <1>0. AtRest /\ YoungFlies /\ QuietNotReplayed /\ QuietRowsCurrent /\ VotesInv /\ LikesCount
    BY DEF MemoryInv, VotesInv
  <1>1. AtRest' /\ YoungFlies' /\ QuietNotReplayed' /\ QuietRowsCurrent'
    BY <1>0, RestNext, NewDeltasNext, ReplayNext, RowsNext
  <1>2. VotesInv' /\ LikesCount'
    BY <1>0, VotesNext, LikesNext
  <1> QED BY <1>1, <1>2 DEF MemoryInv, VotesInv

\* What is true of memory stays true.
LEMMA MemoryHolds == ReactionsSpec => []MemoryInv
  <1> DEFINE Given == CacheInv /\ ControlInv /\ Shape
  <1>1. MemoryInv /\ Given /\ Given' /\ [ReactionsNext]_vars => MemoryInv'
    BY MemoryNext, FlightFacts, FlightsNext
  <1>2. ReactionsSpec => []Given
    BY ShapeHolds
  <1> HIDE DEF Given
  <1> QED BY <1>1, <1>2, MemoryInit, PTL DEF ReactionsSpec

\* What memory says of the pairs it knows is what the sheet says: no delta is lost or
\* doubled, however refreshes, writes, failures, late inserts and restarts interleave.
THEOREM MemoryMatchesLogHolds == ReactionsSpec => []MemoryMatchesLog
  <1>1. MemoryInv => MemoryMatchesLog
    <2> SUFFICES ASSUME MemoryInv, Len(log) <= WindowRows
                 PROVE  /\ \A pair \in known : tally.vote[pair[1]][pair[2]] = Current(log, pair[1], pair[2])
                        /\ \A p \in Products : (\A v \in Visitors : <<v, p>> \in known) => tally.likes[p] = Likers(log, p)
      BY DEF MemoryMatchesLog
    <2>1. \A pair \in known : tally.vote[pair[1]][pair[2]] = Current(log, pair[1], pair[2])
      BY DEF MemoryInv, KnownVotes
    <2>2. ASSUME NEW p \in Products, \A v \in Visitors : <<v, p>> \in known PROVE tally.likes[p] = Likers(log, p)
      <3>1. tally.likes[p] = VotesFor(tally, p)
        BY <2>2 DEF MemoryInv, LikesCount, Covered
      <3>2. ASSUME NEW v \in Visitors PROVE tally.vote[v][p] = Current(log, v, p)
        <4>1. <<v, p>>[1] = v /\ <<v, p>>[2] = p
          OBVIOUS
        <4> QED BY <2>1, <2>2, <4>1
      <3>3. {v \in Visitors : tally.vote[v][p] = "like"} = {v \in Visitors : Current(log, v, p) = "like"}
        BY <3>2
      <3> QED BY <3>1, <3>3 DEF VotesFor, Likers
    <2> QED BY <2>1, <2>2
  <1> QED BY <1>1, MemoryHolds, PTL

-----------------------------------------------------------------------------
(* the budgets                                                             *)

Unrepeated(s) == \A i, j \in 1..Len(s) : s[i] = s[j] => i = j

\* What the loop of Among() has kept of the first k elements.
Selection(ds, S, k, s) ==
    /\ \A i \in 1..k : ds[i] \in S => \E j \in 1..Len(s) : s[j] = ds[i]
    /\ \A j \in 1..Len(s) : \E i \in 1..k : s[j] = ds[i]
    /\ Unrepeated(ds) => Unrepeated(s)

\* Among() keeps all elements that are in the set, and repeats none.
LEMMA AmongWhole ==
    ASSUME NEW T, NEW ds \in Seq(T), NEW S
    PROVE  Selection(ds, S, Len(ds), Among(ds, S))
  <1>1. PICK n : n = Len(ds)
    OBVIOUS
  <1>2. n \in Nat /\ \A k \in 1..n : ds[k] \in T
    BY <1>1, LenProperties, ElementOfSeq
  <1>3. PICK f : /\ f[n] = Among(ds, S) /\ f[0] = <<>>
                 /\ \A k \in 1..n : f[k] = IF ds[k] \in S THEN Append(f[k - 1], ds[k]) ELSE f[k - 1]
    BY <1>1, AmongSteps
  <1> DEFINE Good == {k \in 0..n : f[k] \in Seq(T) /\ Selection(ds, S, k, f[k])}
  <1>4. 0 \in Good
    <2>1. f[0] \in Seq(T) /\ Len(f[0]) = 0
      BY <1>3
    <2> QED BY <1>2, <2>1 DEF Selection, Unrepeated
  <1>5. ASSUME NEW k \in 1..n, k - 1 \in Good PROVE k \in Good
    <2>1. PICK s, t : s = f[k - 1] /\ t = f[k]
      OBVIOUS
    <2>2. s \in Seq(T) /\ Selection(ds, S, k - 1, s) /\ k \in 0..n
      BY <1>2, <1>5, <2>1
    <2>3. CASE ds[k] \notin S
      <3>1. t = s
        BY <1>3, <2>1, <2>3
      <3>2. Selection(ds, S, k, s)
        <4>1. ASSUME NEW i \in 1..k, ds[i] \in S PROVE \E j \in 1..Len(s) : s[j] = ds[i]
          <5>1. i \in 1..(k - 1)
            BY <2>3, <4>1
          <5> QED BY <2>2, <4>1, <5>1 DEF Selection
        <4>2. ASSUME NEW j \in 1..Len(s) PROVE \E i \in 1..k : s[j] = ds[i]
          <5>1. PICK i \in 1..(k - 1) : s[j] = ds[i]
            BY <2>2 DEF Selection
          <5> QED BY <5>1
        <4> QED BY <2>2, <4>1, <4>2 DEF Selection
      <3> QED BY <2>1, <2>2, <3>1, <3>2
    <2>4. CASE ds[k] \in S
      <3>1. t = Append(s, ds[k])
        BY <1>3, <2>1, <2>4
      <3>2. /\ t \in Seq(T) /\ Len(t) = Len(s) + 1 /\ Len(s) \in Nat
            /\ t[Len(s) + 1] = ds[k]
            /\ \A j \in 1..Len(s) : t[j] = s[j]
        BY <1>2, <2>2, <3>1, AppendProperties, LenProperties
      <3>3. \A j \in 1..Len(t) : j = Len(s) + 1 \/ j \in 1..Len(s)
        BY <3>2
      <3>4. Selection(ds, S, k, t)
        <4>1. ASSUME NEW i \in 1..k, ds[i] \in S PROVE \E j \in 1..Len(t) : t[j] = ds[i]
          <5>1. CASE i = k
            BY <3>2, <5>1
          <5>2. CASE i # k
            <6>1. PICK j \in 1..Len(s) : s[j] = ds[i]
              BY <2>2, <4>1, <5>2 DEF Selection
            <6> QED BY <3>2, <6>1
          <5> QED BY <5>1, <5>2
        <4>2. ASSUME NEW j \in 1..Len(t) PROVE \E i \in 1..k : t[j] = ds[i]
          <5>1. CASE j = Len(s) + 1
            BY <3>2, <5>1
          <5>2. CASE j \in 1..Len(s)
            <6>1. PICK i \in 1..(k - 1) : s[j] = ds[i]
              BY <2>2, <5>2 DEF Selection
            <6> QED BY <3>2, <5>2, <6>1
          <5> QED BY <3>3, <5>1, <5>2
        <4>3. ASSUME Unrepeated(ds) PROVE Unrepeated(t)
          <5>1. ASSUME NEW j \in 1..Len(s) PROVE s[j] # ds[k]
            <6>1. PICK i \in 1..(k - 1) : s[j] = ds[i]
              BY <2>2 DEF Selection
            <6>2. i \in 1..n /\ k \in 1..n /\ i # k
              BY <1>2
            <6> QED BY <1>1, <4>3, <6>1, <6>2 DEF Unrepeated
          <5>2. Unrepeated(s)
            BY <2>2, <4>3 DEF Selection
          <5>3. ASSUME NEW i \in 1..Len(t), NEW j \in 1..Len(t), t[i] = t[j] PROVE i = j
            <6>1. CASE i \in 1..Len(s) /\ j \in 1..Len(s)
              BY <3>2, <5>2, <5>3, <6>1 DEF Unrepeated
            <6>2. CASE i = Len(s) + 1 \/ j = Len(s) + 1
              BY <3>2, <3>3, <5>1, <5>3, <6>2
            <6> QED BY <3>3, <6>1, <6>2
          <5> QED BY <5>3 DEF Unrepeated
        <4> QED BY <4>1, <4>2, <4>3 DEF Selection
      <3> QED BY <2>1, <2>2, <3>2, <3>4
    <2> QED BY <2>3, <2>4
  <1> HIDE DEF Good
  <1>6. \A k \in 0..n : k \in Good
    BY <1>2, <1>4, <1>5, UpTo
  <1>7. n \in Good
    BY <1>2, <1>6
  <1> QED BY <1>1, <1>3, <1>7 DEF Good

\* The keys of all limits.
AllKeys == UNION {Range(KeysOf(v, batch)) : v \in Visitors, batch \in Batches}
AWindow == [key : AllKeys, age : Nat, count : Nat]

\* The limiter's map has one window per key.
MapOK(w) == w \in Seq(AWindow) /\ \A i, j \in 1..Len(w) : w[i].key = w[j].key => i = j

\* No live window counts more than its budget says.
Within(w, budget) == \A i \in 1..Len(w) : ~Over(w[i]) => w[i].count <= budget[w[i].key]

\* The live windows of protected keys are still there, as old as they were.
Protects(w, u) ==
    \A j \in 1..Len(w) : w[j].key \in ProtectedKeys /\ ~Over(w[j]) =>
        \E i \in 1..Len(u) : u[i].key = w[j].key /\ u[i].age = w[j].age

\* Where the window of a key is.
LEMMA PlaceFacts ==
    ASSUME NEW w, MapOK(w)
    PROVE  /\ \A i \in 1..Len(w) : w[i].key \in Keys(w) /\ PlaceOf(w, w[i].key) = i
           /\ \A key \in Keys(w) : PlaceOf(w, key) \in 1..Len(w) /\ w[PlaceOf(w, key)].key = key
  <1>1. ASSUME NEW key \in Keys(w) PROVE PlaceOf(w, key) \in 1..Len(w) /\ w[PlaceOf(w, key)].key = key
    <2>1. \E i \in 1..Len(w) : w[i].key = key
      BY DEF Keys
    <2> QED BY <2>1 DEF PlaceOf
  <1>2. ASSUME NEW i \in 1..Len(w) PROVE w[i].key \in Keys(w) /\ PlaceOf(w, w[i].key) = i
    <2>1. w[i].key \in Keys(w)
      BY DEF Keys
    <2> QED BY <1>1, <2>1 DEF MapOK
  <1> QED BY <1>1, <1>2

\* A window has a key, an age and a count.
LEMMA WindowParts ==
    ASSUME NEW w, MapOK(w)
    PROVE  /\ Len(w) \in Nat
           /\ \A i \in 1..Len(w) : w[i] \in AWindow /\ w[i].key \in AllKeys /\ w[i].age \in Nat /\ w[i].count \in Nat
  <1>1. Len(w) \in Nat /\ \A i \in 1..Len(w) : w[i] \in AWindow
    BY LenProperties, ElementOfSeq DEF MapOK
  <1> QED BY <1>1 DEF AWindow

\* What is picked out of a map.
Part(w, S, u) ==
    /\ \A i \in 1..Len(u) : \E j \in 1..Len(w) : u[i] = w[j]
    /\ \A j \in 1..Len(w) : w[j] \in S => \E i \in 1..Len(u) : u[i] = w[j]

\* A selection of the windows of a map is a map.
LEMMA SelectedMap ==
    ASSUME NEW w, MapOK(w), NEW S, NEW u, u = Among(w, S)
    PROVE  MapOK(u) /\ Part(w, S, u)
  <1>1. u = Among(w, S)
    OBVIOUS
  <1>2. w \in Seq(AWindow)
    BY DEF MapOK
  <1>3. u \in Seq(AWindow)
    BY <1>1, <1>2, AmongFacts
  <1>4. Selection(w, S, Len(w), u)
    BY <1>1, <1>2, AmongWhole
  <1>5. Unrepeated(w)
    BY DEF MapOK, Unrepeated
  <1>6. ASSUME NEW i \in 1..Len(u), NEW j \in 1..Len(u), u[i].key = u[j].key PROVE i = j
    <2>1. PICK k \in 1..Len(w), l \in 1..Len(w) : u[i] = w[k] /\ u[j] = w[l]
      BY <1>4 DEF Selection
    <2>2. k = l
      BY <1>6, <2>1 DEF MapOK
    <2> QED BY <1>4, <1>5, <2>1, <2>2 DEF Selection, Unrepeated
  <1> QED BY <1>3, <1>4, <1>6 DEF MapOK, Selection, Part

\* prune() leaves what it keeps as it is, and keeps the live windows of protected keys.
LEMMA PruneFacts ==
    ASSUME NEW w, MapOK(w)
    PROVE  /\ MapOK(Prune(w))
           /\ \A i \in 1..Len(Prune(w)) : \E j \in 1..Len(w) : Prune(w)[i] = w[j]
           /\ \A j \in 1..Len(w) : w[j].key \in ProtectedKeys /\ ~Over(w[j]) => \E i \in 1..Len(Prune(w)) : Prune(w)[i] = w[j]
  <1>1. PICK fresh, live : fresh = {x \in Range(w) : ~Over(x)} /\ live = Among(w, fresh)
    OBVIOUS
  <1>2. PICK left, S : /\ left = Among(live, S) /\ left = Prune(w)
                       /\ \A n \in 1..Len(live) : live[n].key \in ProtectedKeys => live[n] \in S
    <2> DEFINE excess == IF Len(live) > MaxKeys THEN Len(live) - MaxKeys ELSE 0
               free == {n \in 1..Len(live) : live[n].key \notin ProtectedKeys}
               dropped == {n \in free : Cardinality({m \in free : m <= n}) <= excess}
               S == {live[n] : n \in (1..Len(live)) \ dropped}
    <2>1. Among(live, S) = Prune(w)
      BY <1>1, Zenon DEF Prune
    <2>2. \A n \in 1..Len(live) : live[n].key \in ProtectedKeys => live[n] \in S
      OBVIOUS
    <2> HIDE DEF S
    <2> QED BY <2>1, <2>2
  <1>3. MapOK(live) /\ Part(w, fresh, live)
    BY <1>1, SelectedMap
  <1>4. MapOK(left) /\ Part(live, S, left)
    BY <1>2, <1>3, SelectedMap
  <1>5. ASSUME NEW j \in 1..Len(w), w[j].key \in ProtectedKeys, ~Over(w[j])
        PROVE  \E i \in 1..Len(left) : left[i] = w[j]
    <2>1. w[j] \in Range(w)
      <3>1. DOMAIN w = 1..Len(w)
        BY LenProperties DEF MapOK
      <3> QED BY <3>1 DEF Range
    <2>2. PICK i \in 1..Len(live) : live[i] = w[j]
      BY <1>1, <1>3, <1>5, <2>1 DEF Part
    <2> QED BY <1>2, <1>4, <1>5, <2>2 DEF Part
  <1>6. \A i \in 1..Len(left) : \E j \in 1..Len(w) : left[i] = w[j]
    BY <1>3, <1>4 DEF Part
  <1> QED BY <1>2, <1>4, <1>5, <1>6

\* What opening a window of a key makes of the map: of the others what was there, of the key what
\* was there or a window in which nothing is counted.
LEMMA OpenedFacts ==
    ASSUME NEW w, MapOK(w), NEW key \in AllKeys, NEW o, o = Opened(w, key)
    PROVE  /\ MapOK(o) /\ Protects(w, o)
           /\ \A i \in 1..Len(o) : (o[i].key = key /\ o[i].count = 0) \/ \E j \in 1..Len(w) : o[i] = w[j]
  <1>1. CASE Live(w, key)
    <2>1. o = w
      BY <1>1 DEF Opened
    <2> QED BY <2>1 DEF Protects
  <1>2. CASE ~Live(w, key)
    <2>1. PICK fresh : fresh = [key |-> key, age |-> 0, count |-> 0]
      OBVIOUS
    <2>2. PICK set : set = IF key \in Keys(w) THEN [w EXCEPT ![PlaceOf(w, key)] = fresh] ELSE Append(w, fresh)
      OBVIOUS
    <2>3. o = set \/ o = Prune(set)
      BY <1>2, <2>1, <2>2, Zenon DEF Opened
    <2>4. fresh \in AWindow /\ fresh.key = key /\ fresh.count = 0
      BY <2>1 DEF AWindow
    <2>5. w \in Seq(AWindow) /\ Len(w) \in Nat
      BY LenProperties DEF MapOK
    <2>6. /\ MapOK(set)
          /\ \A i \in 1..Len(set) : set[i] = fresh \/ \E j \in 1..Len(w) : set[i] = w[j]
          /\ \A j \in 1..Len(w) : ~Over(w[j]) => \E i \in 1..Len(set) : set[i] = w[j]
      <3>1. CASE key \in Keys(w)
        <4>1. PICK n : n = PlaceOf(w, key)
          OBVIOUS
        <4>2. n \in 1..Len(w) /\ w[n].key = key
          BY <3>1, <4>1, PlaceFacts
        <4>3. set = [w EXCEPT ![n] = fresh]
          BY <2>2, <3>1, <4>1
        <4>4. /\ set \in Seq(AWindow) /\ Len(set) = Len(w) /\ set[n] = fresh
              /\ \A i \in 1..Len(w) : i # n => set[i] = w[i]
          BY <2>4, <2>5, <4>2, <4>3, ExceptSeq
        <4>5. Over(w[n])
          BY <1>2, <3>1, <4>1 DEF Live
        <4>6. \A i, j \in 1..Len(set) : set[i].key = set[j].key => i = j
          BY <2>4, <4>2, <4>4 DEF MapOK
        <4> QED BY <4>4, <4>5, <4>6 DEF MapOK
      <3>2. CASE key \notin Keys(w)
        <4>1. set = Append(w, fresh)
          BY <2>2, <3>2
        <4>2. /\ set \in Seq(AWindow) /\ Len(set) = Len(w) + 1 /\ set[Len(w) + 1] = fresh
              /\ \A i \in 1..Len(w) : set[i] = w[i]
          BY <2>4, <2>5, <4>1, AppendProperties
        <4>3. \A i \in 1..Len(w) : w[i].key # key
          BY <3>2 DEF Keys
        <4>4. \A i \in 1..Len(set) : i = Len(w) + 1 \/ i \in 1..Len(w)
          BY <2>5, <4>2
        <4>5. ASSUME NEW i \in 1..Len(set), NEW j \in 1..Len(set), set[i].key = set[j].key PROVE i = j
          <5>1. CASE i \in 1..Len(w) /\ j \in 1..Len(w)
            BY <4>2, <4>5, <5>1 DEF MapOK
          <5>2. CASE i = Len(w) + 1 \/ j = Len(w) + 1
            BY <2>4, <4>2, <4>3, <4>4, <4>5, <5>2
          <5> QED BY <4>4, <5>1, <5>2
        <4>6. \A i \in 1..Len(w) : i \in 1..Len(set)
          BY <2>5, <4>2
        <4> QED BY <4>2, <4>4, <4>5, <4>6 DEF MapOK
      <3> QED BY <3>1, <3>2
    <2>7. CASE o = set
      <3>1. Protects(w, o)
        BY <2>6, <2>7 DEF Protects
      <3> QED BY <2>4, <2>6, <2>7, <3>1
    <2>8. CASE o = Prune(set)
      <3>1. /\ MapOK(o)
            /\ \A i \in 1..Len(o) : \E j \in 1..Len(set) : o[i] = set[j]
            /\ \A j \in 1..Len(set) : set[j].key \in ProtectedKeys /\ ~Over(set[j]) => \E i \in 1..Len(o) : o[i] = set[j]
        BY <2>6, <2>8, PruneFacts
      <3>2. Protects(w, o)
        <4> SUFFICES ASSUME NEW j \in 1..Len(w), w[j].key \in ProtectedKeys, ~Over(w[j])
                     PROVE  \E i \in 1..Len(o) : o[i].key = w[j].key /\ o[i].age = w[j].age
          BY DEF Protects
        <4>1. PICK k \in 1..Len(set) : set[k] = w[j]
          BY <2>6
        <4>2. PICK i \in 1..Len(o) : o[i] = set[k]
          BY <3>1, <4>1
        <4> QED BY <4>1, <4>2
      <3>3. ASSUME NEW i \in 1..Len(o) PROVE (o[i].key = key /\ o[i].count = 0) \/ \E j \in 1..Len(w) : o[i] = w[j]
        <4>1. PICK k \in 1..Len(set) : o[i] = set[k]
          BY <3>1
        <4> QED BY <2>4, <2>6, <4>1
      <3> QED BY <3>1, <3>2, <3>3
    <2> QED BY <2>3, <2>7, <2>8
  <1> QED BY <1>1, <1>2

\* Whether a window is over says its key and its age.
LEMMA OverByAge ==
    ASSUME NEW w, NEW u, w.key = u.key, w.age = u.age
    PROVE  Over(w) <=> Over(u)
  BY DEF Over

\* One window has another count.
OneRecounted(w, n, c, u) ==
    /\ Len(u) = Len(w) /\ u[n].count = c
    /\ \A i \in 1..Len(w) : /\ u[i].key = w[i].key /\ u[i].age = w[i].age
                            /\ i # n => u[i] = w[i]

\* A map with another count in one window is a map.
LEMMA Recounted ==
    ASSUME NEW w, MapOK(w), NEW n \in 1..Len(w), NEW c \in Nat, NEW u, u = [w EXCEPT ![n] = [w[n] EXCEPT !.count = c]]
    PROVE  MapOK(u) /\ Protects(w, u) /\ OneRecounted(w, n, c, u)
  <1>1. w \in Seq(AWindow) /\ Len(w) \in Nat /\ \A i \in 1..Len(w) : w[i] \in AWindow
    BY WindowParts DEF MapOK
  <1>2. PICK x : x = [w[n] EXCEPT !.count = c]
    OBVIOUS
  <1>3. x \in AWindow /\ x.key = w[n].key /\ x.age = w[n].age /\ x.count = c
    BY <1>1, <1>2 DEF AWindow
  <1>4. u = [w EXCEPT ![n] = x]
    BY <1>2
  <1>5. /\ u \in Seq(AWindow) /\ Len(u) = Len(w) /\ u[n] = x
        /\ \A i \in 1..Len(w) : i # n => u[i] = w[i]
    BY <1>1, <1>3, <1>4, ExceptSeq
  <1>6. \A i \in 1..Len(w) : u[i].key = w[i].key /\ u[i].age = w[i].age
    BY <1>3, <1>5
  <1>7. MapOK(u)
    BY <1>5, <1>6 DEF MapOK
  <1>8. Protects(w, u)
    BY <1>5, <1>6 DEF Protects
  <1> QED BY <1>3, <1>5, <1>6, <1>7, <1>8 DEF OneRecounted

Budgets == [AllKeys -> Nat]

\* allow() counts one write more of its key at most.
LEMMA AllowFacts ==
    ASSUME NEW w, MapOK(w), NEW key \in AllKeys, NEW budget \in Budgets, Within(w, budget), NEW u, u = allow(w, key)
    PROVE  MapOK(u) /\ Protects(w, u) /\ Within(u, [budget EXCEPT ![key] = budget[key] + 1])
  <1>1. PICK o : o = Opened(w, key)
    OBVIOUS
  <1>2. PICK n : n = PlaceOf(o, key)
    OBVIOUS
  <1>3. PICK more : more = [budget EXCEPT ![key] = budget[key] + 1]
    OBVIOUS
  <1>4. /\ more[key] = budget[key] + 1 /\ budget[key] \in Nat
        /\ \A k \in AllKeys : k # key => more[k] = budget[k]
        /\ \A k \in AllKeys : budget[k] \in Nat /\ more[k] \in Nat /\ budget[k] <= more[k]
    BY <1>3 DEF Budgets
  <1>5. /\ MapOK(o) /\ Protects(w, o)
        /\ \A i \in 1..Len(o) : (o[i].key = key /\ o[i].count = 0) \/ \E j \in 1..Len(w) : o[i] = w[j]
    BY <1>1, OpenedFacts
  <1>6. Within(o, budget)
    <2> SUFFICES ASSUME NEW i \in 1..Len(o), ~Over(o[i]) PROVE o[i].count <= budget[o[i].key]
      BY DEF Within
    <2>1. CASE o[i].key = key /\ o[i].count = 0
      BY <1>4, <2>1
    <2>2. CASE \E j \in 1..Len(w) : o[i] = w[j]
      BY <2>2 DEF Within
    <2> QED BY <1>5, <2>1, <2>2
  <1>7. \A i \in 1..Len(o) : o[i].key \in AllKeys /\ o[i].count \in Nat
    BY <1>5, WindowParts
  <1>8. CASE u = o
    <2>1. Within(u, more)
      BY <1>4, <1>6, <1>7, <1>8 DEF Within
    <2> QED BY <1>3, <1>5, <1>8, <2>1
  <1>9. CASE key \in Keys(o) /\ u = [o EXCEPT ![n].count = o[n].count + 1]
    <2>1. n \in 1..Len(o) /\ o[n].key = key
      BY <1>2, <1>5, <1>9, PlaceFacts
    <2>2. PICK c : c = o[n].count + 1
      OBVIOUS
    <2>6. c \in Nat /\ u = [o EXCEPT ![n] = [o[n] EXCEPT !.count = c]]
      BY <1>7, <1>9, <2>1, <2>2
    <2>3. /\ MapOK(u) /\ Len(u) = Len(o) /\ Protects(o, u)
          /\ u[n].count = c
          /\ \A i \in 1..Len(o) : /\ u[i].key = o[i].key /\ u[i].age = o[i].age
                                  /\ i # n => u[i] = o[i]
      <3>1. MapOK(u) /\ Protects(o, u) /\ OneRecounted(o, n, c, u)
        BY <1>5, <2>1, <2>6, Recounted
      <3> QED BY <3>1 DEF OneRecounted
    <2>4. Within(u, more)
      <3> SUFFICES ASSUME NEW i \in 1..Len(o), ~Over(u[i]) PROVE u[i].count <= more[u[i].key]
        BY <2>3 DEF Within
      <3>1. ~Over(o[i])
        BY <2>3, OverByAge
      <3>2. o[i].count <= budget[o[i].key]
        BY <1>6, <3>1 DEF Within
      <3>3. CASE i = n
        BY <1>4, <1>7, <2>1, <2>2, <2>3, <3>2, <3>3
      <3>4. CASE i # n
        <4>1. PICK k : k = o[i].key
          OBVIOUS
        <4>2. k \in AllKeys /\ u[i].key = k /\ u[i].count = o[i].count
          BY <1>7, <2>3, <3>4, <4>1
        <4>3. budget[k] \in Nat /\ more[k] \in Nat /\ budget[k] <= more[k] /\ o[i].count \in Nat
          BY <1>4, <1>7, <4>2
        <4> QED BY <3>2, <4>1, <4>2, <4>3
      <3> QED BY <3>3, <3>4
    <2>5. Protects(w, u)
      <3> SUFFICES ASSUME NEW j \in 1..Len(w), w[j].key \in ProtectedKeys, ~Over(w[j])
                   PROVE  \E i \in 1..Len(u) : u[i].key = w[j].key /\ u[i].age = w[j].age
        BY DEF Protects
      <3>1. PICK i \in 1..Len(o) : o[i].key = w[j].key /\ o[i].age = w[j].age
        BY <1>5 DEF Protects
      <3> QED BY <2>3, <3>1
    <2> QED BY <1>3, <2>3, <2>4, <2>5
  <1> QED BY <1>1, <1>2, <1>8, <1>9 DEF allow

\* refund() counts one write less of its key, if any was counted.
LEMMA RefundFacts ==
    ASSUME NEW w, MapOK(w), NEW key \in AllKeys, NEW budget \in Budgets, Within(w, budget), NEW u, u = refund(w, key)
    PROVE  /\ MapOK(u) /\ Protects(w, u)
           /\ Within(u, [budget EXCEPT ![key] = IF budget[key] > 0 THEN budget[key] - 1 ELSE 0])
  <1>1. PICK n : n = PlaceOf(w, key)
    OBVIOUS
  <1>2. PICK less : less = [budget EXCEPT ![key] = IF budget[key] > 0 THEN budget[key] - 1 ELSE 0]
    OBVIOUS
  <1>3. /\ less[key] = (IF budget[key] > 0 THEN budget[key] - 1 ELSE 0) /\ budget[key] \in Nat
        /\ \A k \in AllKeys : k # key => less[k] = budget[k]
    BY <1>2 DEF Budgets
  <1>4. \A i \in 1..Len(w) : w[i].key \in AllKeys /\ w[i].count \in Nat
    BY WindowParts
  <1>5. CASE key \in Keys(w) /\ w[n].count > 0
    <2>1. n \in 1..Len(w) /\ w[n].key = key
      BY <1>1, <1>5, PlaceFacts
    <2>2. PICK c : c = w[n].count - 1
      OBVIOUS
    <2>5. c \in Nat /\ u = [w EXCEPT ![n] = [w[n] EXCEPT !.count = c]]
      BY <1>1, <1>4, <1>5, <2>1, <2>2 DEF refund
    <2>3. /\ MapOK(u) /\ Len(u) = Len(w) /\ Protects(w, u)
          /\ u[n].count = c
          /\ \A i \in 1..Len(w) : /\ u[i].key = w[i].key /\ u[i].age = w[i].age
                                  /\ i # n => u[i] = w[i]
      <3>1. MapOK(u) /\ Protects(w, u) /\ OneRecounted(w, n, c, u)
        BY <2>1, <2>5, Recounted
      <3> QED BY <3>1 DEF OneRecounted
    <2>4. Within(u, less)
      <3> SUFFICES ASSUME NEW i \in 1..Len(w), ~Over(u[i]) PROVE u[i].count <= less[u[i].key]
        BY <2>3 DEF Within
      <3>1. ~Over(w[i])
        BY <2>3, OverByAge
      <3>2. w[i].count <= budget[w[i].key]
        BY <3>1 DEF Within
      <3>3. CASE i = n
        BY <1>3, <1>4, <2>1, <2>2, <2>3, <3>2, <3>3
      <3>4. CASE i # n
        <4>1. w[i].key # key
          BY <2>1, <3>4 DEF MapOK
        <4> QED BY <1>3, <1>4, <2>3, <3>2, <3>4, <4>1
      <3> QED BY <3>3, <3>4
    <2> QED BY <1>2, <2>3, <2>4
  <1>6. CASE ~(key \in Keys(w) /\ w[n].count > 0)
    <2>1. u = w
      BY <1>1, <1>6 DEF refund
    <2>2. ASSUME NEW i \in 1..Len(w), ~Over(w[i]) PROVE w[i].count <= less[w[i].key]
      <3>1. w[i].count <= budget[w[i].key]
        BY <2>2 DEF Within
      <3>2. CASE w[i].key = key
        <4>1. i = n /\ key \in Keys(w)
          BY <1>1, <3>2, PlaceFacts
        <4> QED BY <1>3, <1>4, <1>6, <3>2, <4>1
      <3>3. CASE w[i].key # key
        BY <1>3, <1>4, <3>1, <3>3
      <3> QED BY <3>2, <3>3
    <2>3. Within(u, less) /\ Protects(w, u)
      BY <2>1, <2>2 DEF Within, Protects
    <2> QED BY <1>2, <2>1, <2>3
  <1> QED BY <1>5, <1>6

\* The products of a body are named once each.
LEMMA ProductIdsFacts ==
    ASSUME NEW batch \in Batches
    PROVE  \E P : ProductIds(batch) \in Seq(P) /\ Unrepeated(ProductIds(batch))
  <1> DEFINE n == Len(batch)
             P == {batch[k].product : k \in 1..n}
             Rec(g) == g = [k \in 0..n |->
                              IF k = 0 THEN <<>>
                              ELSE IF batch[k].product \in Range(g[k - 1]) THEN g[k - 1]
                              ELSE Append(g[k - 1], batch[k].product)]
             f == CHOOSE g : Rec(g)
  <1>1. n \in Nat /\ \A k \in 1..n : batch[k].product \in P
    BY BatchConstants, LenProperties
  <1>2. \E g : Rec(g)
    <2> DEFINE step == [c \in Seq(P) \X (1..n) |->
                          IF batch[c[2]].product \in Range(c[1]) THEN c[1] ELSE Append(c[1], batch[c[2]].product)]
    <2>1. step \in [Seq(P) \X (1..n) -> Seq(P)]
      <3> HIDE DEF P
      <3> QED BY <1>1, AppendProperties
    <2>2. \A s \in Seq(P), k \in 1..n :
              step[<<s, k>>] = IF batch[k].product \in Range(s) THEN s ELSE Append(s, batch[k].product)
      OBVIOUS
    <2>x. PICK X : X = Seq(P)
      OBVIOUS
    <2>y. PICK first : first = <<>>
      OBVIOUS
    <2>3. X = Seq(P) /\ first = <<>> /\ first \in X
      BY <2>x, <2>y
    <2> HIDE DEF step, n, P
    <2>4. step \in [X \X (1..n) -> X] /\ n \in Nat
      BY <1>1, <2>1, <2>3
    <2>5. \E g : Loop(g, n, X, first, step)
      BY <2>3, <2>4, Iterates
    <2>6. PICK g \in [0..n -> X] : g[0] = first /\ \A k \in 1..n : g[k] = step[<<g[k - 1], k>>]
      BY <2>5 DEF Loop
    <2>7. ASSUME NEW k \in 0..n
          PROVE  g[k] = IF k = 0 THEN <<>>
                        ELSE IF batch[k].product \in Range(g[k - 1]) THEN g[k - 1]
                        ELSE Append(g[k - 1], batch[k].product)
      <3>1. CASE k = 0
        BY <2>3, <2>6, <3>1
      <3>2. CASE k # 0
        <4>1. k \in 1..n /\ k - 1 \in 0..n
          BY <1>1, <3>2
        <4>2. g[k - 1] \in Seq(P)
          BY <2>3, <2>6, <4>1
        <4> QED BY <2>2, <2>6, <3>2, <4>1, <4>2
      <3> QED BY <3>1, <3>2
    <2> USE DEF n
    <2>8. Rec(g)
      BY <2>6, <2>7
    <2> QED BY <2>8
  <1>3. Rec(f)
    <2> HIDE DEF Rec
    <2> QED BY <1>2
  <1>4. ProductIds(batch) = f[n]
    BY Zenon DEF ProductIds
  <1> HIDE DEF f, P
  <1>5. f[0] = <<>> /\ \A k \in 1..n : f[k] = IF batch[k].product \in Range(f[k - 1]) THEN f[k - 1]
                                              ELSE Append(f[k - 1], batch[k].product)
    <2>1. \A k \in 0..n : f[k] = IF k = 0 THEN <<>>
                                 ELSE IF batch[k].product \in Range(f[k - 1]) THEN f[k - 1]
                                 ELSE Append(f[k - 1], batch[k].product)
      BY <1>3, Zenon
    <2>2. 0 \in 0..n /\ \A k \in 1..n : k \in 0..n /\ k # 0
      BY <1>1
    <2> QED BY <2>1, <2>2, Zenon
  <1> DEFINE Good == {k \in 0..n : f[k] \in Seq(P) /\ Unrepeated(f[k])}
  <1>6. 0 \in Good
    <2>1. f[0] \in Seq(P) /\ Len(f[0]) = 0
      BY <1>5
    <2> QED BY <1>1, <2>1 DEF Unrepeated
  <1>7. ASSUME NEW k \in 1..n, k - 1 \in Good PROVE k \in Good
    <2>1. PICK s, p : s = f[k - 1] /\ p = batch[k].product
      OBVIOUS
    <2>2. s \in Seq(P) /\ Unrepeated(s) /\ p \in P /\ k \in 0..n
      BY <1>1, <1>7, <2>1
    <2>3. CASE p \in Range(s)
      BY <1>5, <2>1, <2>2, <2>3
    <2>4. CASE p \notin Range(s)
      <3>1. PICK t : t = Append(s, p)
        OBVIOUS
      <3>2. f[k] = t
        BY <1>5, <2>1, <2>4, <3>1
      <3>3. /\ t \in Seq(P) /\ Len(t) = Len(s) + 1 /\ Len(s) \in Nat /\ t[Len(s) + 1] = p
            /\ \A j \in 1..Len(s) : t[j] = s[j]
        BY <2>2, <3>1, AppendProperties, LenProperties
      <3>4. \A j \in 1..Len(s) : s[j] # p
        <4>1. DOMAIN s = 1..Len(s)
          BY <2>2, LenProperties
        <4> QED BY <2>4, <4>1 DEF Range
      <3>5. \A j \in 1..Len(t) : j = Len(s) + 1 \/ j \in 1..Len(s)
        BY <3>3
      <3>6. Unrepeated(t)
        <4> SUFFICES ASSUME NEW i \in 1..Len(t), NEW j \in 1..Len(t), t[i] = t[j] PROVE i = j
          BY DEF Unrepeated
        <4>1. CASE i \in 1..Len(s) /\ j \in 1..Len(s)
          BY <2>2, <3>3, <4>1 DEF Unrepeated
        <4>2. CASE i = Len(s) + 1 \/ j = Len(s) + 1
          BY <3>3, <3>4, <3>5, <4>2
        <4> QED BY <3>5, <4>1, <4>2
      <3> QED BY <2>2, <3>2, <3>3, <3>6
    <2> QED BY <2>3, <2>4
  <1> HIDE DEF Good
  <1>8. \A k \in 0..n : k \in Good
    BY <1>1, <1>6, <1>7, UpTo
  <1>9. n \in Good
    BY <1>1, <1>8
  <1> QED BY <1>4, <1>9 DEF Good

\* A request charges no key twice.
LEMMA KeysFacts ==
    ASSUME NEW v \in Visitors, NEW batch \in Batches, NEW keys, keys = KeysOf(v, batch)
    PROVE  keys \in Seq(AllKeys) /\ Unrepeated(keys)
  <1>1. PICK ids, P : ids = ProductIds(batch) /\ ids \in Seq(P) /\ Unrepeated(ids)
    BY ProductIdsFacts
  <1>2. PICK n : n = Len(ids)
    OBVIOUS
  <1>3. n \in Nat /\ \A k \in 1..n : ids[k] \in P
    BY <1>1, <1>2, LenProperties, ElementOfSeq
  <1>4. PICK front, middle, back, all :
           /\ front = <<<<"visitor", v>>, <<"ip">>>>
           /\ middle = [k \in 1..n |-> <<"product", ids[k]>>]
           /\ back = <<<<"global">>>>
           /\ all = front \o middle \o back
    OBVIOUS
  <1>5. keys = Among(all, {key \in Range(all) : key[1] \in LimitKinds})
    BY <1>1, <1>2, <1>4, Zenon DEF KeysOf
  <1>6. PICK T : T = {<<"visitor", v>>, <<"ip">>, <<"global">>} \cup {<<"product", p>> : p \in P}
    OBVIOUS
  <1>7. front \in Seq(T) /\ Len(front) = 2 /\ back \in Seq(T) /\ Len(back) = 1
    BY <1>4, <1>6
  <1>8. middle \in Seq(T) /\ Len(middle) = n
    <2>1. middle \in [1..n -> T]
      BY <1>3, <1>4, <1>6
    <2>2. middle \in Seq(T)
      BY <1>3, <2>1, SeqDef
    <2> QED BY <1>3, <2>1, <2>2, LenProperties
  <1>9. PICK head : head = front \o middle
    OBVIOUS
  <1>10. /\ head \in Seq(T) /\ Len(head) = n + 2
         /\ \A i \in 1..Len(head) : head[i] = IF i <= 2 THEN front[i] ELSE middle[i - 2]
    <2>1. /\ head \in Seq(T) /\ Len(head) = Len(front) + Len(middle)
          /\ \A i \in 1..(Len(front) + Len(middle)) : head[i] = IF i <= Len(front) THEN front[i] ELSE middle[i - Len(front)]
      BY <1>7, <1>8, <1>9, ConcatProperties
    <2>2. Len(front) = 2 /\ Len(middle) = n /\ Len(head) = n + 2
      BY <1>3, <1>7, <1>8, <2>1
    <2>3. \A i \in 1..(2 + n) : head[i] = IF i <= 2 THEN front[i] ELSE middle[i - 2]
      BY <2>1, <2>2
    <2>4. 2 + n = n + 2
      BY <1>3
    <2> QED BY <2>1, <2>2, <2>3, <2>4
  <1>11. /\ all \in Seq(T) /\ Len(all) = n + 3
         /\ \A i \in 1..Len(all) : all[i] = IF i <= n + 2 THEN head[i] ELSE back[i - (n + 2)]
    <2>1. /\ all \in Seq(T) /\ Len(all) = Len(head) + Len(back)
          /\ \A i \in 1..(Len(head) + Len(back)) : all[i] = IF i <= Len(head) THEN head[i] ELSE back[i - Len(head)]
      <3>1. all = head \o back /\ head \in Seq(T) /\ back \in Seq(T)
        BY <1>4, <1>7, <1>9, <1>10
      <3> QED BY <3>1, ConcatProperties
    <2>2. Len(head) = n + 2 /\ Len(back) = 1 /\ (n + 2) + 1 = n + 3
      BY <1>3, <1>7, <1>10
    <2>3. \A i \in 1..((n + 2) + 1) : all[i] = IF i <= n + 2 THEN head[i] ELSE back[i - (n + 2)]
      BY <2>1, <2>2
    <2> QED BY <2>1, <2>2, <2>3
  <1>12. /\ \A i \in 1..(n + 3) : i = 1 \/ i = 2 \/ i - 2 \in 1..n \/ i = n + 3
         /\ all[1] = <<"visitor", v>> /\ all[2] = <<"ip">> /\ all[n + 3] = <<"global">>
         /\ \A i \in 1..(n + 3) : i - 2 \in 1..n => all[i] = <<"product", ids[i - 2]>>
    <2>1. \A i \in 1..(n + 3) : i = 1 \/ i = 2 \/ i - 2 \in 1..n \/ i = n + 3
      BY <1>3
    <2>2. all[1] = front[1] /\ all[2] = front[2]
      BY <1>3, <1>10, <1>11
    <2>3. all[n + 3] = back[1]
      <3>1. n + 3 \in 1..Len(all) /\ ~(n + 3 <= n + 2) /\ (n + 3) - (n + 2) = 1
        BY <1>3, <1>11
      <3> QED BY <1>11, <3>1
    <2>4. ASSUME NEW i \in 1..(n + 3), i - 2 \in 1..n PROVE all[i] = <<"product", ids[i - 2]>>
      <3>1. i <= n + 2 /\ ~(i <= 2) /\ i \in 1..Len(all) /\ i \in 1..Len(head)
        BY <1>3, <1>10, <1>11, <2>4
      <3>2. all[i] = middle[i - 2]
        BY <1>10, <1>11, <3>1
      <3> QED BY <1>4, <2>4, <3>2
    <2> QED BY <1>4, <2>1, <2>2, <2>3, <2>4
  <1>13. Unrepeated(all)
    <2> SUFFICES ASSUME NEW i \in 1..(n + 3), NEW j \in 1..(n + 3), all[i] = all[j] PROVE i = j
      BY <1>11 DEF Unrepeated
    <2>1. /\ all[1][1] = "visitor" /\ all[2][1] = "ip" /\ all[n + 3][1] = "global"
          /\ \A k \in 1..(n + 3) : k - 2 \in 1..n => all[k][1] = "product" /\ all[k][2] = ids[k - 2]
      BY <1>12
    <2>2. all[i][1] = all[j][1] /\ all[i][2] = all[j][2]
      OBVIOUS
    <2>3. CASE i - 2 \in 1..n /\ j - 2 \in 1..n
      <3>1. ids[i - 2] = ids[j - 2]
        BY <2>1, <2>2, <2>3
      <3>2. i - 2 = j - 2
        BY <1>1, <1>2, <2>3, <3>1 DEF Unrepeated
      <3> QED BY <1>3, <3>2
    <2>4. CASE ~(i - 2 \in 1..n /\ j - 2 \in 1..n)
      BY <1>12, <2>1, <2>2, <2>4
    <2> QED BY <2>3, <2>4
  <1>14. PICK S : S = {key \in Range(all) : key[1] \in LimitKinds}
    OBVIOUS
  <1>15. keys \in Seq(T) /\ Selection(all, S, Len(all), keys)
    BY <1>5, <1>11, <1>14, AmongFacts, AmongWhole
  <1>16. keys \in Seq(AllKeys)
    <2>1. DOMAIN keys = 1..Len(keys) /\ Len(keys) \in Nat
      BY <1>15, LenProperties
    <2>2. \A i \in 1..Len(keys) : keys[i] \in AllKeys
      <3> SUFFICES ASSUME NEW i \in 1..Len(keys) PROVE keys[i] \in AllKeys
        OBVIOUS
      <3>1. keys[i] \in Range(KeysOf(v, batch))
        BY <2>1 DEF Range
      <3> QED BY <3>1 DEF AllKeys
    <2>3. keys \in [1..Len(keys) -> AllKeys]
      BY <1>15, <2>1, <2>2
    <2> QED BY <2>1, <2>3, SeqDef
  <1> QED BY <1>13, <1>15, <1>16 DEF Selection

Maps == {w \in Seq(AWindow) : MapOK(w)}

\* The budgets when each key of a set counts one more, or one less.
Raised(budget, keys) == [key \in AllKeys |-> budget[key] + (IF key \in keys THEN 1 ELSE 0)]
Lowered(budget, keys) ==
    [key \in AllKeys |-> IF key \in keys THEN (IF budget[key] > 0 THEN budget[key] - 1 ELSE 0) ELSE budget[key]]

\* What is protected twice is protected.
LEMMA ProtectsOn ==
    ASSUME NEW w, NEW u, NEW x, Protects(w, u), Protects(u, x)
    PROVE  Protects(w, x)
  <1> SUFFICES ASSUME NEW j \in 1..Len(w), w[j].key \in ProtectedKeys, ~Over(w[j])
               PROVE  \E i \in 1..Len(x) : x[i].key = w[j].key /\ x[i].age = w[j].age
    BY DEF Protects
  <1>1. PICK i \in 1..Len(u) : u[i].key = w[j].key /\ u[i].age = w[j].age
    BY DEF Protects
  <1>2. ~Over(u[i])
    BY <1>1, OverByAge
  <1> QED BY <1>1, <1>2 DEF Protects

\* Enough for any map of windows.
LEMMA SomeBudget ==
    ASSUME NEW w, MapOK(w)
    PROVE  \E budget \in Budgets : Within(w, budget)
  <1>1. PICK budget : budget = [key \in AllKeys |-> IF key \in Keys(w) THEN w[PlaceOf(w, key)].count ELSE 0]
    OBVIOUS
  <1>2. budget \in Budgets
    BY <1>1, PlaceFacts, WindowParts DEF Budgets
  <1>3. Within(w, budget)
    BY <1>1, PlaceFacts, WindowParts DEF Within
  <1> QED BY <1>2, <1>3

\* A map stays one through allow().
LEMMA allowKeepsMap == \A w \in Maps, key \in AllKeys : allow(w, key) \in Maps
  <1> SUFFICES ASSUME NEW w \in Maps, NEW key \in AllKeys PROVE allow(w, key) \in Maps
    OBVIOUS
  <1>1. MapOK(w)
    BY DEF Maps
  <1>2. PICK budget \in Budgets : Within(w, budget)
    BY <1>1, SomeBudget
  <1>3. MapOK(allow(w, key))
    BY <1>1, <1>2, AllowFacts
  <1> QED BY <1>3 DEF Maps, MapOK

\* A map stays one through refund().
LEMMA refundKeepsMap == \A w \in Maps, key \in AllKeys : refund(w, key) \in Maps
  <1> SUFFICES ASSUME NEW w \in Maps, NEW key \in AllKeys PROVE refund(w, key) \in Maps
    OBVIOUS
  <1>1. MapOK(w)
    BY DEF Maps
  <1>2. PICK budget \in Budgets : Within(w, budget)
    BY <1>1, SomeBudget
  <1>3. MapOK(refund(w, key))
    BY <1>1, <1>2, RefundFacts
  <1> QED BY <1>3 DEF Maps, MapOK

\* The turns of the loop of Charged().
LEMMA ChargedSteps ==
    ASSUME MapOK(windows), NEW keys \in Seq(AllKeys)
    PROVE  \E f : /\ f[Len(keys)] = Charged(keys) /\ f[0] = windows
                  /\ \A k \in 1..Len(keys) : f[k] = allow(f[k - 1], keys[k])
  <1> DEFINE n == Len(keys)
             Rec(g) == g = [k \in 0..n |-> IF k = 0 THEN windows ELSE allow(g[k - 1], keys[k])]
             f == CHOOSE g : Rec(g)
  <1>1. n \in Nat /\ \A k \in 1..n : keys[k] \in AllKeys
    BY LenProperties, ElementOfSeq
  <1>2. \E g : Rec(g)
    <2> DEFINE step == [c \in Maps \X (1..n) |-> allow(c[1], keys[c[2]])]
    <2>1. \A w \in Maps, k \in 1..n : allow(w, keys[k]) \in Maps
      BY <1>1, allowKeepsMap
    <2>2. step \in [Maps \X (1..n) -> Maps]
      BY <2>1
    <2>3. \A w \in Maps, k \in 1..n : step[<<w, k>>] = allow(w, keys[k])
      OBVIOUS
    <2>4. windows \in Maps
      BY DEF Maps, MapOK
    <2>5. PICK first : first = windows
      OBVIOUS
    <2> HIDE DEF step, n
    <2>6. \E g : Loop(g, n, Maps, first, step)
      BY <1>1, <2>2, <2>4, <2>5, Iterates
    <2>7. PICK g \in [0..n -> Maps] : g[0] = first /\ \A k \in 1..n : g[k] = step[<<g[k - 1], k>>]
      BY <2>6 DEF Loop
    <2>8. ASSUME NEW k \in 0..n PROVE g[k] = IF k = 0 THEN windows ELSE allow(g[k - 1], keys[k])
      <3>1. CASE k = 0
        BY <2>5, <2>7, <3>1
      <3>2. CASE k # 0
        <4>1. k \in 1..n /\ k - 1 \in 0..n
          BY <1>1, <3>2
        <4>2. g[k - 1] \in Maps
          BY <2>7, <4>1
        <4> QED BY <2>3, <2>7, <3>2, <4>1, <4>2
      <3> QED BY <3>1, <3>2
    <2> USE DEF n
    <2>9. Rec(g)
      BY <2>7, <2>8
    <2> QED BY <2>9
  <1>3. Rec(f)
    <2> HIDE DEF Rec
    <2> QED BY <1>2
  <1>4. Charged(keys) = f[n]
    BY Zenon DEF Charged
  <1> HIDE DEF f
  <1>5. f[0] = windows /\ \A k \in 1..n : f[k] = allow(f[k - 1], keys[k])
    <2>1. \A k \in 0..n : f[k] = IF k = 0 THEN windows ELSE allow(f[k - 1], keys[k])
      BY <1>3, Zenon
    <2>2. 0 \in 0..n /\ \A k \in 1..n : k \in 0..n /\ k # 0
      BY <1>1
    <2> QED BY <2>1, <2>2, Zenon
  <1> QED BY <1>4, <1>5

\* Charging the keys of a request counts one write more of each of them at most.
LEMMA ChargedFacts ==
    ASSUME MapOK(windows), NEW keys \in Seq(AllKeys), Unrepeated(keys),
           NEW budget \in Budgets, Within(windows, budget), NEW u, u = Charged(keys)
    PROVE  /\ MapOK(u) /\ Protects(windows, u)
           /\ Within(u, Raised(budget, {keys[k] : k \in 1..Len(keys)}))
  <1>1. PICK n : n = Len(keys)
    OBVIOUS
  <1>2. n \in Nat /\ \A k \in 1..n : keys[k] \in AllKeys
    BY <1>1, LenProperties, ElementOfSeq
  <1>3. PICK f : /\ f[n] = u /\ f[0] = windows
                 /\ \A k \in 1..n : f[k] = allow(f[k - 1], keys[k])
    BY <1>1, ChargedSteps
  <1> DEFINE After(k) == Raised(budget, {keys[j] : j \in 1..k})
             Good == {k \in 0..n : MapOK(f[k]) /\ Protects(windows, f[k]) /\ Within(f[k], After(k))}
  <1>4. 0 \in Good
    <2>1. {keys[j] : j \in 1..0} = {}
      OBVIOUS
    <2>2. Within(windows, After(0))
      BY <1>2, <2>1, WindowParts DEF Within, Raised, Budgets
    <2>3. Protects(windows, windows)
      BY DEF Protects
    <2> QED BY <1>2, <1>3, <2>2, <2>3
  <1>5. ASSUME NEW k \in 1..n, k - 1 \in Good PROVE k \in Good
    <2>1. PICK w, key, before, after :
             w = f[k - 1] /\ key = keys[k] /\ before = After(k - 1) /\ after = After(k)
      OBVIOUS
    <2>2. MapOK(w) /\ Protects(windows, w) /\ Within(w, before) /\ key \in AllKeys
      BY <1>2, <1>5, <2>1
    <2>3. \A a : after[a] = after[a] /\ (a \in {keys[j] : j \in 1..k} <=> a \in {keys[j] : j \in 1..(k - 1)} \/ a = key)
      BY <1>2, <2>1
    <2>4. key \notin {keys[j] : j \in 1..(k - 1)}
      <3> SUFFICES ASSUME NEW j \in 1..(k - 1), keys[j] = keys[k] PROVE FALSE
        BY <2>1
      <3>1. j \in 1..n /\ k \in 1..n /\ j # k
        BY <1>2
      <3> QED BY <1>1, <3>1 DEF Unrepeated
    <2>5. before \in Budgets /\ before[key] = budget[key] /\ budget[key] \in Nat
      BY <2>1, <2>2, <2>4 DEF Raised, Budgets
    <2>6. after = [before EXCEPT ![key] = before[key] + 1]
      <3>1. \A a \in AllKeys : after[a] = IF a = key THEN before[key] + 1 ELSE before[a]
        BY <2>1, <2>2, <2>3, <2>4, <2>5 DEF Raised, Budgets
      <3>2. after = [a \in AllKeys |-> after[a]] /\ before \in [AllKeys -> Nat]
        BY <2>1, <2>5 DEF Raised, Budgets
      <3> QED BY <2>2, <3>1, <3>2
    <2>7. PICK x : x = f[k]
      OBVIOUS
    <2>8. MapOK(x) /\ Protects(w, x) /\ Within(x, after)
      <3>1. x = allow(w, key)
        BY <1>3, <2>1, <2>7
      <3> QED BY <2>2, <2>5, <2>6, <3>1, AllowFacts
    <2>9. Protects(windows, x)
      BY <2>2, <2>8, ProtectsOn
    <2> QED BY <1>2, <2>1, <2>7, <2>8, <2>9
  <1> HIDE DEF Good
  <1>6. \A k \in 0..n : k \in Good
    BY <1>2, <1>4, <1>5, UpTo
  <1>7. n \in Good
    BY <1>2, <1>6
  <1> QED BY <1>1, <1>3, <1>7 DEF Good

\* The turns of the loop of Refunded().
LEMMA RefundedSteps ==
    ASSUME MapOK(windows), NEW keys \in Seq(AllKeys)
    PROVE  \E f : /\ f[Len(keys)] = Refunded(keys) /\ f[0] = windows
                  /\ \A k \in 1..Len(keys) : f[k] = refund(f[k - 1], keys[k])
  <1> DEFINE n == Len(keys)
             Rec(g) == g = [k \in 0..n |-> IF k = 0 THEN windows ELSE refund(g[k - 1], keys[k])]
             f == CHOOSE g : Rec(g)
  <1>1. n \in Nat /\ \A k \in 1..n : keys[k] \in AllKeys
    BY LenProperties, ElementOfSeq
  <1>2. \E g : Rec(g)
    <2> DEFINE step == [c \in Maps \X (1..n) |-> refund(c[1], keys[c[2]])]
    <2>1. \A w \in Maps, k \in 1..n : refund(w, keys[k]) \in Maps
      BY <1>1, refundKeepsMap
    <2>2. step \in [Maps \X (1..n) -> Maps]
      BY <2>1
    <2>3. \A w \in Maps, k \in 1..n : step[<<w, k>>] = refund(w, keys[k])
      OBVIOUS
    <2>4. windows \in Maps
      BY DEF Maps, MapOK
    <2>5. PICK first : first = windows
      OBVIOUS
    <2> HIDE DEF step, n
    <2>6. \E g : Loop(g, n, Maps, first, step)
      BY <1>1, <2>2, <2>4, <2>5, Iterates
    <2>7. PICK g \in [0..n -> Maps] : g[0] = first /\ \A k \in 1..n : g[k] = step[<<g[k - 1], k>>]
      BY <2>6 DEF Loop
    <2>8. ASSUME NEW k \in 0..n PROVE g[k] = IF k = 0 THEN windows ELSE refund(g[k - 1], keys[k])
      <3>1. CASE k = 0
        BY <2>5, <2>7, <3>1
      <3>2. CASE k # 0
        <4>1. k \in 1..n /\ k - 1 \in 0..n
          BY <1>1, <3>2
        <4>2. g[k - 1] \in Maps
          BY <2>7, <4>1
        <4> QED BY <2>3, <2>7, <3>2, <4>1, <4>2
      <3> QED BY <3>1, <3>2
    <2> USE DEF n
    <2>9. Rec(g)
      BY <2>7, <2>8
    <2> QED BY <2>9
  <1>3. Rec(f)
    <2> HIDE DEF Rec
    <2> QED BY <1>2
  <1>4. Refunded(keys) = f[n]
    BY Zenon DEF Refunded
  <1> HIDE DEF f
  <1>5. f[0] = windows /\ \A k \in 1..n : f[k] = refund(f[k - 1], keys[k])
    <2>1. \A k \in 0..n : f[k] = IF k = 0 THEN windows ELSE refund(f[k - 1], keys[k])
      BY <1>3, Zenon
    <2>2. 0 \in 0..n /\ \A k \in 1..n : k \in 0..n /\ k # 0
      BY <1>1
    <2> QED BY <2>1, <2>2, Zenon
  <1> QED BY <1>4, <1>5

\* Refunding the keys of a request counts one write less of each of them.
LEMMA RefundedFacts ==
    ASSUME MapOK(windows), NEW keys \in Seq(AllKeys), Unrepeated(keys),
           NEW budget \in Budgets, Within(windows, budget), NEW u, u = Refunded(keys)
    PROVE  /\ MapOK(u) /\ Protects(windows, u)
           /\ Within(u, Lowered(budget, {keys[k] : k \in 1..Len(keys)}))
  <1>1. PICK n : n = Len(keys)
    OBVIOUS
  <1>2. n \in Nat /\ \A k \in 1..n : keys[k] \in AllKeys
    BY <1>1, LenProperties, ElementOfSeq
  <1>3. PICK f : /\ f[n] = u /\ f[0] = windows
                 /\ \A k \in 1..n : f[k] = refund(f[k - 1], keys[k])
    BY <1>1, RefundedSteps
  <1> DEFINE After(k) == Lowered(budget, {keys[j] : j \in 1..k})
             Good == {k \in 0..n : MapOK(f[k]) /\ Protects(windows, f[k]) /\ Within(f[k], After(k))}
  <1>4. 0 \in Good
    <2>1. {keys[j] : j \in 1..0} = {}
      OBVIOUS
    <2>2. Within(windows, After(0))
      BY <1>2, <2>1, WindowParts DEF Within, Lowered, Budgets
    <2>3. Protects(windows, windows)
      BY DEF Protects
    <2> QED BY <1>2, <1>3, <2>2, <2>3
  <1>5. ASSUME NEW k \in 1..n, k - 1 \in Good PROVE k \in Good
    <2>1. PICK w, key, before, after :
             w = f[k - 1] /\ key = keys[k] /\ before = After(k - 1) /\ after = After(k)
      OBVIOUS
    <2>2. MapOK(w) /\ Protects(windows, w) /\ Within(w, before) /\ key \in AllKeys
      BY <1>2, <1>5, <2>1
    <2>3. \A a : after[a] = after[a] /\ (a \in {keys[j] : j \in 1..k} <=> a \in {keys[j] : j \in 1..(k - 1)} \/ a = key)
      BY <1>2, <2>1
    <2>4. key \notin {keys[j] : j \in 1..(k - 1)}
      <3> SUFFICES ASSUME NEW j \in 1..(k - 1), keys[j] = keys[k] PROVE FALSE
        BY <2>1
      <3>1. j \in 1..n /\ k \in 1..n /\ j # k
        BY <1>2
      <3> QED BY <1>1, <3>1 DEF Unrepeated
    <2>5. before \in Budgets /\ before[key] = budget[key] /\ budget[key] \in Nat
      BY <2>1, <2>2, <2>4 DEF Lowered, Budgets
    <2>6. after = [before EXCEPT ![key] = IF before[key] > 0 THEN before[key] - 1 ELSE 0]
      <3>1. \A a \in AllKeys : after[a] = IF a = key THEN IF before[key] > 0 THEN before[key] - 1 ELSE 0 ELSE before[a]
        BY <2>1, <2>2, <2>3, <2>4, <2>5 DEF Lowered, Budgets
      <3>2. after = [a \in AllKeys |-> after[a]] /\ before \in [AllKeys -> Nat]
        BY <2>1, <2>5 DEF Lowered, Budgets
      <3> QED BY <2>2, <3>1, <3>2
    <2>7. PICK x : x = f[k]
      OBVIOUS
    <2>8. MapOK(x) /\ Protects(w, x) /\ Within(x, after)
      <3>1. x = refund(w, key)
        BY <1>3, <2>1, <2>7
      <3> QED BY <2>2, <2>5, <2>6, <3>1, RefundFacts
    <2>9. Protects(windows, x)
      BY <2>2, <2>8, ProtectsOn
    <2> QED BY <1>2, <2>1, <2>7, <2>8, <2>9
  <1> HIDE DEF Good
  <1>6. \A k \in 0..n : k \in Good
    BY <1>2, <1>4, <1>5, UpTo
  <1>7. n \in Good
    BY <1>2, <1>6
  <1> QED BY <1>1, <1>3, <1>7 DEF Good

\* The units of a key that the entries of a ledger took.
UnitsOf(taken, key) == {entry \in taken : entry[2] = key}
Counted(taken) == [key \in AllKeys |-> Cardinality(UnitsOf(taken, key))]

KeySet(keys) == {keys[k] : k \in 1..Len(keys)}
ChargesOf(q) == KeySet(KeysOf(q.who, q.batch))

\* A ledger when a request takes a unit of some keys, and when its entries go.
Taking(taken, n, S) == taken \cup {<<n, k>> : k \in S}
Without(taken, n) == {entry \in taken : entry[1] # n}

LedgerOK == ledger \subseteq Nat \X AllKeys /\ IsFiniteSet(ledger) /\ \A entry \in ledger : entry[1] <= submits

\* A request has a number of its own, has taken nothing before it writes, and then of its own keys.
Numbered ==
    /\ \A r, q \in Requests : req[r].pc # "idle" /\ req[q].pc # "idle" /\ req[r].n = req[q].n => r = q
    /\ \A r \in Requests : req[r].pc # "idle" => req[r].n <= submits
    /\ \A r \in Requests : req[r].pc = "getting" => \A entry \in ledger : entry[1] # req[r].n
    /\ \A r \in Requests :
          req[r].pc = "writing" =>
              \A entry \in ledger : entry[1] = req[r].n => entry[2] \in ChargesOf(req[r])

LimitInv == MapOK(windows) /\ LedgerOK /\ Numbered /\ Within(windows, Counted(ledger))

\* A ledger counts finitely many units of a key.
LEMMA UnitsFacts ==
    ASSUME NEW taken, IsFiniteSet(taken)
    PROVE  Counted(taken) \in Budgets /\ \A key : IsFiniteSet(UnitsOf(taken, key)) /\ Cardinality(UnitsOf(taken, key)) \in Nat
  <1>1. ASSUME NEW key PROVE IsFiniteSet(UnitsOf(taken, key)) /\ Cardinality(UnitsOf(taken, key)) \in Nat
    <2>1. UnitsOf(taken, key) \subseteq taken
      BY DEF UnitsOf
    <2>2. IsFiniteSet(UnitsOf(taken, key))
      BY <2>1, FS_Subset
    <2> QED BY <2>2, FS_CardinalityType
  <1> QED BY <1>1 DEF Counted, Budgets

\* More may be counted where the budget is higher.
LEMMA WithinMore ==
    ASSUME NEW w, MapOK(w), NEW less \in Budgets, NEW more \in Budgets, Within(w, less),
           \A i \in 1..Len(w) : ~Over(w[i]) => less[w[i].key] <= more[w[i].key]
    PROVE  Within(w, more)
  <1> SUFFICES ASSUME NEW i \in 1..Len(w), ~Over(w[i]) PROVE w[i].count <= more[w[i].key]
    BY DEF Within
  <1>1. w[i].count <= less[w[i].key] /\ less[w[i].key] <= more[w[i].key]
    BY DEF Within
  <1>2. w[i].count \in Nat /\ less[w[i].key] \in Nat /\ more[w[i].key] \in Nat
    BY WindowParts DEF Budgets
  <1> QED BY <1>1, <1>2

\* Requests that are answered or go on as they are keep their numbers and what they took.
Fades ==
    \A r \in Requests :
        \/ req'[r].pc = "idle"
        \/ /\ req'[r].pc = req[r].pc /\ req'[r].who = req[r].who
           /\ req'[r].batch = req[r].batch /\ req'[r].n = req[r].n

\* Such steps keep the numbering.
LEMMA NumberedStays ==
    ASSUME Numbered, Fades, ledger' \subseteq ledger, submits' = submits
    PROVE  Numbered'
  <1>1. ASSUME NEW r \in Requests, NEW q \in Requests, req'[r].pc # "idle", req'[q].pc # "idle", req'[r].n = req'[q].n
        PROVE  r = q
    BY <1>1 DEF Numbered, Fades
  <1>2. ASSUME NEW r \in Requests, req'[r].pc # "idle" PROVE req'[r].n <= submits'
    BY <1>2 DEF Numbered, Fades
  <1>3. ASSUME NEW r \in Requests, req'[r].pc = "getting", NEW entry \in ledger' PROVE entry[1] # req'[r].n
    BY <1>3 DEF Numbered, Fades
  <1>4. ASSUME NEW r \in Requests, req'[r].pc = "writing", NEW entry \in ledger', entry[1] = req'[r].n
        PROVE  entry[2] \in ChargesOf(req'[r])
    <2>1. /\ req'[r].pc = req[r].pc /\ req'[r].who = req[r].who
          /\ req'[r].batch = req[r].batch /\ req'[r].n = req[r].n
      BY <1>4 DEF Fades
    <2>2. ChargesOf(req'[r]) = ChargesOf(req[r])
      BY <2>1 DEF ChargesOf
    <2> QED BY <1>4, <2>1, <2>2 DEF Numbered
  <1> QED BY <1>1, <1>2, <1>3, <1>4 DEF Numbered

\* Nothing is counted at first.
LEMMA LimitInit == ReactionsInit => LimitInv
  <1> SUFFICES ASSUME ReactionsInit PROVE LimitInv
    OBVIOUS
  <1>1. windows = <<>> /\ ledger = {} /\ \A r \in Requests : req[r].pc = "idle"
    BY DEF ReactionsInit, NoRequest
  <1>2. MapOK(windows) /\ Len(windows) = 0
    BY <1>1 DEF MapOK
  <1>3. LedgerOK
    BY <1>1, FS_EmptySet DEF LedgerOK
  <1>4. Numbered
    BY <1>1 DEF Numbered
  <1>5. Within(windows, Counted(ledger))
    BY <1>2 DEF Within
  <1> QED BY <1>2, <1>3, <1>4, <1>5 DEF LimitInv

\* Steps that charge nothing, give nothing back and number no request.
LEMMA LimitSame ==
    ASSUME LimitInv, Fades, UNCHANGED <<windows, ledger, submits>>
    PROVE  LimitInv'
  <1>1. Numbered'
    BY NumberedStays DEF LimitInv
  <1>2. LedgerOK' /\ MapOK(windows')
    BY DEF LimitInv, LedgerOK
  <1>3. Within(windows', Counted(ledger'))
    BY DEF LimitInv
  <1> QED BY <1>1, <1>2, <1>3 DEF LimitInv

\* A request that comes in takes the next number.
LEMMA LimitSubmit ==
    ASSUME LimitInv, Shape, ControlInv, NEW r \in Requests, Submit(r)
    PROVE  LimitInv'
  <1>1. PICK v \in Visitors, batch \in Batches :
          req' = [req EXCEPT ![r] = [NoRequest EXCEPT !.pc = "getting", !.who = v,
                                                      !.batch = batch, !.n = submits + 1]]
    BY DEF Submit
  <1>2. UNCHANGED <<windows, ledger>> /\ submits' = submits + 1 /\ submits \in Nat
    BY ReactionConstants DEF Submit, ControlInv, ControlTypeOK
  <1>3. /\ \A q \in Requests \ {r} : req'[q] = req[q]
        /\ req'[r].pc = "getting" /\ req'[r].n = submits + 1
    BY <1>1 DEF ControlInv, ControlTypeOK, NoRequest
  <1>4. \A q \in Requests : req[q].pc # "idle" => req[q].n \in Nat /\ req[q].n <= submits
    BY ReactionConstants DEF LimitInv, Numbered, Shape, WritesOK, BodyKnown
  <1>5. \A entry \in ledger : entry[1] \in Nat /\ entry[1] <= submits
    BY DEF LimitInv, LedgerOK
  <1>6. LedgerOK'
    <2>1. \A entry \in ledger' : entry[1] <= submits'
      BY <1>2, <1>5
    <2> QED BY <1>2, <2>1 DEF LimitInv, LedgerOK
  <1>7. Numbered'
    <2>1. ASSUME NEW p \in Requests, NEW q \in Requests, req'[p].pc # "idle", req'[q].pc # "idle", req'[p].n = req'[q].n
          PROVE  p = q
      <3>1. CASE p # r /\ q # r
        BY <1>3, <2>1, <3>1 DEF LimitInv, Numbered
      <3>2. CASE p = r /\ q # r
        BY <1>2, <1>3, <1>4, <2>1, <3>2
      <3>3. CASE p # r /\ q = r
        BY <1>2, <1>3, <1>4, <2>1, <3>3
      <3> QED BY <3>1, <3>2, <3>3
    <2>2. ASSUME NEW q \in Requests, req'[q].pc # "idle" PROVE req'[q].n <= submits'
      <3>1. CASE q = r
        BY <1>2, <1>3, <3>1
      <3>2. CASE q # r
        BY <1>2, <1>3, <1>4, <2>2, <3>2
      <3> QED BY <3>1, <3>2
    <2>3. ASSUME NEW q \in Requests, req'[q].pc = "getting", NEW entry \in ledger' PROVE entry[1] # req'[q].n
      <3>1. CASE q = r
        BY <1>2, <1>3, <1>5, <3>1
      <3>2. CASE q # r
        BY <1>2, <1>3, <2>3, <3>2 DEF LimitInv, Numbered
      <3> QED BY <3>1, <3>2
    <2>4. ASSUME NEW q \in Requests, req'[q].pc = "writing", NEW entry \in ledger', entry[1] = req'[q].n
          PROVE  entry[2] \in ChargesOf(req'[q])
      <3>1. q # r
        BY <1>3, <2>4
      <3>2. req'[q] = req[q]
        BY <1>3, <3>1
      <3> QED BY <1>2, <2>4, <3>2 DEF LimitInv, Numbered
    <2> QED BY <2>1, <2>2, <2>3, <2>4 DEF Numbered
  <1> QED BY <1>2, <1>6, <1>7 DEF LimitInv

\* What a function on a finite set takes for values is finite.
LEMMA FiniteImage ==
    ASSUME NEW S, IsFiniteSet(S), NEW T, NEW f \in [S -> T], \A t \in T : \E s \in S : f[s] = t
    PROVE  IsFiniteSet(T)
  <1>1. f \in Surjection(S, T)
    BY DEF Surjection
  <1> QED BY <1>1, FS_Surjection

\* The keys of a request on its way.
LEMMA RequestKeys ==
    ASSUME Shape, NEW r \in Requests, req[r].pc # "idle", NEW keys, keys = KeysOf(req[r].who, req[r].batch)
    PROVE  /\ keys \in Seq(AllKeys) /\ Unrepeated(keys) /\ req[r].n \in Nat
           /\ ChargesOf(req[r]) = KeySet(keys)
  <1>1. req[r].who \in Visitors /\ req[r].batch \in Batches /\ req[r].n \in Nat
    BY ReactionConstants DEF Shape, WritesOK, BodyKnown
  <1>2. keys \in Seq(AllKeys) /\ Unrepeated(keys)
    BY <1>1, KeysFacts
  <1> QED BY <1>1, <1>2 DEF ChargesOf

\* A new entry of a key is one unit more of it.
LEMMA UnitsCharged ==
    ASSUME NEW taken, IsFiniteSet(taken), NEW n, \A entry \in taken : entry[1] # n,
           NEW S, NEW key, NEW more, more = Taking(taken, n, S)
    PROVE  Cardinality(UnitsOf(more, key)) = Cardinality(UnitsOf(taken, key)) + (IF key \in S THEN 1 ELSE 0)
  <1>1. IsFiniteSet(UnitsOf(taken, key)) /\ Cardinality(UnitsOf(taken, key)) \in Nat
    BY UnitsFacts
  <1>2. CASE key \in S
    <2>1. <<n, key>> \notin UnitsOf(taken, key)
      BY DEF UnitsOf
    <2>2. UnitsOf(more, key) = UnitsOf(taken, key) \cup {<<n, key>>}
      BY <1>2 DEF UnitsOf, Taking
    <2> QED BY <1>1, <1>2, <2>1, <2>2, FS_AddElement
  <1>3. CASE key \notin S
    <2>1. UnitsOf(more, key) = UnitsOf(taken, key)
      BY <1>3 DEF UnitsOf, Taking
    <2> QED BY <1>1, <1>3, <2>1
  <1> QED BY <1>2, <1>3

\* Without the entries of a request there is at most one unit less of a key.
LEMMA UnitsGivenBack ==
    ASSUME NEW taken, taken \subseteq Nat \X AllKeys, IsFiniteSet(taken), NEW n, NEW key,
           NEW less, less = Without(taken, n)
    PROVE  /\ (\A entry \in taken : entry[1] = n => entry[2] # key)
                => Cardinality(UnitsOf(less, key)) = Cardinality(UnitsOf(taken, key))
           /\ Cardinality(UnitsOf(taken, key)) - 1 <= Cardinality(UnitsOf(less, key))
  <1>1. /\ IsFiniteSet(UnitsOf(taken, key)) /\ Cardinality(UnitsOf(taken, key)) \in Nat
    BY UnitsFacts
  <1>2. CASE <<n, key>> \in taken
    <2>1. <<n, key>> \in UnitsOf(taken, key)
      BY <1>2 DEF UnitsOf
    <2>2. UnitsOf(less, key) = UnitsOf(taken, key) \ {<<n, key>>}
      BY DEF UnitsOf, Without
    <2>3. Cardinality(UnitsOf(less, key)) = Cardinality(UnitsOf(taken, key)) - 1
      BY <1>1, <2>1, <2>2, FS_RemoveElement
    <2> QED BY <1>1, <1>2, <2>3
  <1>3. CASE <<n, key>> \notin taken
    <2>1. UnitsOf(less, key) = UnitsOf(taken, key)
      BY <1>3 DEF UnitsOf, Without
    <2> QED BY <1>1, <2>1
  <1> QED BY <1>2, <1>3

\* A write takes a unit of each of its keys.
LEMMA LimitCharge ==
    ASSUME LimitInv, Shape, ControlInv, NEW r \in Requests, req[r].pc = "getting", StartWrite(r), submits' = submits
    PROVE  LimitInv'
  <1>1. PICK keys, n : keys = KeysOf(req[r].who, req[r].batch) /\ n = req[r].n
    OBVIOUS
  <1>2. /\ windows' = Charged(keys) /\ ledger' = ChargedLedger(keys, n)
        /\ req' = [req EXCEPT ![r].pc = "writing", ![r].write = "new"]
    BY <1>1, Zenon DEF StartWrite
  <1>3. PICK taken : taken = {entry \in ledger : Live(windows, entry[2])}
    OBVIOUS
  <1>4. PICK S : S = KeySet(keys)
    OBVIOUS
  <1>5. keys \in Seq(AllKeys) /\ Unrepeated(keys) /\ n \in Nat /\ ChargesOf(req[r]) = S
    BY <1>1, <1>4, RequestKeys
  <1>6. S \subseteq AllKeys /\ IsFiniteSet(S)
    <2>1. \A k \in 1..Len(keys) : keys[k] \in AllKeys
      BY <1>5, ElementOfSeq
    <2>2. Len(keys) \in Nat
      BY <1>5, LenProperties
    <2>3. IsFiniteSet(1..Len(keys))
      BY <2>2, UpToIsFinite
    <2>4. PICK f : f = [k \in 1..Len(keys) |-> keys[k]]
      OBVIOUS
    <2>5. f \in [1..Len(keys) -> S] /\ \A k \in S : \E i \in 1..Len(keys) : f[i] = k
      BY <1>4, <2>4 DEF KeySet
    <2>6. IsFiniteSet(S)
      BY <2>3, <2>5, FiniteImage
    <2> QED BY <1>4, <2>1, <2>6 DEF KeySet
  <1>7. PICK more : more = Taking(taken, n, S)
    OBVIOUS
  <1>8. ledger' = more
    <2>1. Taking(taken, n, S) = taken \cup {<<n, keys[k]>> : k \in 1..Len(keys)}
      BY <1>4 DEF Taking, KeySet
    <2> QED BY <1>2, <1>3, <1>7, <2>1 DEF ChargedLedger
  <1>9. taken \subseteq ledger /\ IsFiniteSet(taken) /\ taken \subseteq Nat \X AllKeys
    BY <1>3, FS_Subset DEF LimitInv, LedgerOK
  <1>10. \A entry \in ledger : entry[1] # n
    BY <1>1 DEF LimitInv, Numbered
  <1>11. /\ \A q \in Requests \ {r} : req'[q] = req[q]
         /\ req'[r].pc = "writing" /\ req'[r].who = req[r].who /\ req'[r].batch = req[r].batch /\ req'[r].n = n
    BY <1>1, <1>2 DEF ControlInv, ControlTypeOK, RequestState
  <1>12. LedgerOK'
    <2>1. PICK T, f : T = {<<n, k>> : k \in S} /\ f = [k \in S |-> <<n, k>>]
      OBVIOUS
    <2>2. IsFiniteSet(T)
      <3>1. f \in [S -> T] /\ \A t \in T : \E k \in S : f[k] = t
        BY <2>1
      <3> QED BY <1>6, <3>1, FiniteImage
    <2>3. more = taken \cup T
      BY <1>7, <2>1 DEF Taking
    <2>4. IsFiniteSet(more)
      BY <1>9, <2>2, <2>3, FS_Union
    <2>5. more \subseteq Nat \X AllKeys
      BY <1>5, <1>6, <1>9, <2>1, <2>3
    <2>6. n <= submits
      BY <1>1 DEF LimitInv, Numbered
    <2>7. \A entry \in more : entry[1] <= submits
      BY <1>9, <2>1, <2>6, <2>3 DEF LimitInv, LedgerOK
    <2> QED BY <1>8, <2>4, <2>5, <2>7 DEF LedgerOK
  <1>13. \A entry \in more : entry \in taken \/ (entry[1] = n /\ entry[2] \in S)
    BY <1>7 DEF Taking
  <1>14. Numbered'
    <2>1. ASSUME NEW p \in Requests, NEW q \in Requests, req'[p].pc # "idle", req'[q].pc # "idle", req'[p].n = req'[q].n
          PROVE  p = q
      <3>1. \A x \in Requests : req'[x].n = req[x].n /\ (req'[x].pc # "idle" => req[x].pc # "idle")
        BY <1>1, <1>11
      <3> QED BY <2>1, <3>1 DEF LimitInv, Numbered
    <2>2. ASSUME NEW q \in Requests, req'[q].pc # "idle" PROVE req'[q].n <= submits'
      BY <1>1, <1>11, <2>2 DEF LimitInv, Numbered
    <2>3. \A q \in Requests \ {r} : req[q].pc # "idle" => req[q].n # n
      BY <1>1 DEF LimitInv, Numbered
    <2>4. ASSUME NEW q \in Requests, req'[q].pc = "getting", NEW entry \in ledger' PROVE entry[1] # req'[q].n
      <3>1. q # r /\ req'[q] = req[q]
        BY <1>11, <2>4
      <3>2. entry \in ledger \/ entry[1] = n
        BY <1>8, <1>9, <1>13, <2>4
      <3> QED BY <2>3, <2>4, <3>1, <3>2 DEF LimitInv, Numbered
    <2>5. ASSUME NEW q \in Requests, req'[q].pc = "writing", NEW entry \in ledger', entry[1] = req'[q].n
          PROVE  entry[2] \in ChargesOf(req'[q])
      <3>1. CASE q = r
        <4>1. ChargesOf(req'[q]) = S
          BY <1>5, <1>11, <3>1 DEF ChargesOf
        <4>2. entry \notin ledger
          BY <1>10, <1>11, <2>5, <3>1
        <4>3. entry[2] \in S
          BY <1>8, <1>9, <1>13, <2>5, <4>2
        <4> QED BY <4>1, <4>3
      <3>2. CASE q # r
        <4>1. req'[q] = req[q] /\ req[q].pc = "writing"
          BY <1>11, <2>5, <3>2
        <4>2. entry \in ledger
          BY <1>8, <1>9, <1>13, <2>3, <2>5, <3>2, <4>1
        <4> QED BY <2>5, <4>1, <4>2 DEF LimitInv, Numbered
      <3> QED BY <3>1, <3>2
    <2> QED BY <2>1, <2>2, <2>4, <2>5 DEF Numbered
  <1>15. PICK budget, higher : budget = Counted(taken) /\ higher = Raised(budget, S)
    OBVIOUS
  <1>16. MapOK(windows') /\ Within(windows', Counted(ledger'))
    <2>1. budget \in Budgets
      BY <1>9, <1>15, UnitsFacts
    <2>2. MapOK(windows) /\ Within(windows, budget)
      <3> SUFFICES ASSUME NEW i \in 1..Len(windows), ~Over(windows[i])
                   PROVE  windows[i].count <= budget[windows[i].key]
        BY DEF LimitInv, Within
      <3>1. PICK key : key = windows[i].key
        OBVIOUS
      <3>2. key \in AllKeys /\ Live(windows, key)
        BY <3>1, WindowParts, PlaceFacts DEF LimitInv, Live
      <3>3. UnitsOf(taken, key) = UnitsOf(ledger, key)
        BY <1>3, <3>2 DEF UnitsOf
      <3>4. windows[i].count <= Counted(ledger)[key]
        BY <3>1 DEF LimitInv, Within
      <3> QED BY <1>15, <3>1, <3>2, <3>3, <3>4 DEF Counted
    <2>3. PICK u : u = windows'
      OBVIOUS
    <2>4. MapOK(u) /\ Within(u, higher)
      <3>1. u = Charged(keys)
        BY <1>2, <2>3
      <3>2. MapOK(u) /\ Within(u, Raised(budget, KeySet(keys)))
        BY <1>5, <2>1, <2>2, <3>1, ChargedFacts DEF KeySet
      <3> QED BY <1>4, <1>15, <3>2
    <2>5. higher = Counted(more)
      <3>1. ASSUME NEW key \in AllKeys
            PROVE  Cardinality(UnitsOf(more, key)) = Cardinality(UnitsOf(taken, key)) + (IF key \in S THEN 1 ELSE 0)
        BY <1>7, <1>9, <1>10, UnitsCharged
      <3> QED BY <1>15, <3>1 DEF Raised, Counted
    <2> QED BY <1>8, <2>3, <2>4, <2>5
  <1> QED BY <1>12, <1>14, <1>16 DEF LimitInv

\* A write that failed gives a unit of each of its keys back.
LEMMA LimitFail ==
    ASSUME LimitInv, Shape, ControlInv, NEW r \in Requests, InsertFails(r)
    PROVE  LimitInv'
  <1>1. PICK keys, n : keys = KeysOf(req[r].who, req[r].batch) /\ n = req[r].n
    OBVIOUS
  <1>2. /\ windows' = Refunded(keys) /\ ledger' = {entry \in ledger : entry[1] # n}
        /\ req' = [req EXCEPT ![r] = NoRequest] /\ UNCHANGED submits /\ req[r].pc = "writing"
    BY <1>1, Zenon DEF InsertFails, Answer, Writing
  <1>3. PICK S : S = KeySet(keys)
    OBVIOUS
  <1>4. keys \in Seq(AllKeys) /\ Unrepeated(keys) /\ n \in Nat /\ ChargesOf(req[r]) = S
    BY <1>1, <1>2, <1>3, RequestKeys
  <1>5. PICK less : less = ledger'
    OBVIOUS
  <1>6. less \subseteq ledger /\ IsFiniteSet(less)
    BY <1>2, <1>5, FS_Subset DEF LimitInv, LedgerOK
  <1>7. LedgerOK'
    BY <1>2, <1>5, <1>6 DEF LimitInv, LedgerOK
  <1>8. Numbered'
    <2>1. Fades
      BY <1>2 DEF Fades, ControlInv, ControlTypeOK, NoRequest
    <2> QED BY <1>2, <1>5, <1>6, <2>1, NumberedStays DEF LimitInv
  <1>9. PICK budget, lower, after : budget = Counted(ledger) /\ lower = Lowered(budget, S) /\ after = Counted(less)
    OBVIOUS
  <1>10. budget \in Budgets /\ after \in Budgets
    BY <1>6, <1>9, UnitsFacts DEF LimitInv, LedgerOK
  <1>11. lower \in Budgets
    BY <1>9, <1>10 DEF Lowered, Budgets
  <1>12. PICK u : u = windows'
    OBVIOUS
  <1>13. MapOK(u) /\ Within(u, lower)
    <2>1. u = Refunded(keys)
      BY <1>2, <1>12
    <2>2. MapOK(windows) /\ Within(windows, budget)
      BY <1>9 DEF LimitInv
    <2>3. MapOK(u) /\ Within(u, Lowered(budget, KeySet(keys)))
      BY <1>4, <1>10, <2>1, <2>2, RefundedFacts DEF KeySet
    <2> QED BY <1>3, <1>9, <2>3
  <1>14. ASSUME NEW key \in AllKeys PROVE lower[key] <= after[key]
    <2>1. /\ (\A entry \in ledger : entry[1] = n => entry[2] # key)
                => Cardinality(UnitsOf(less, key)) = Cardinality(UnitsOf(ledger, key))
          /\ Cardinality(UnitsOf(ledger, key)) - 1 <= Cardinality(UnitsOf(less, key))
      <3>1. less = Without(ledger, n)
        BY <1>2, <1>5 DEF Without
      <3> QED BY <3>1, UnitsGivenBack DEF LimitInv, LedgerOK
    <2>2. budget[key] = Cardinality(UnitsOf(ledger, key)) /\ after[key] = Cardinality(UnitsOf(less, key))
      BY <1>9 DEF Counted
    <2>3. budget[key] \in Nat /\ after[key] \in Nat
      BY <1>10 DEF Budgets
    <2>4. CASE key \in S
      BY <1>9, <2>1, <2>2, <2>3, <2>4 DEF Lowered
    <2>5. CASE key \notin S
      <3>1. \A entry \in ledger : entry[1] = n => entry[2] # key
        BY <1>1, <1>2, <1>4, <2>5 DEF LimitInv, Numbered
      <3> QED BY <1>9, <2>1, <2>2, <2>3, <2>5, <3>1 DEF Lowered
    <2> QED BY <2>4, <2>5
  <1>15. Within(u, after)
    BY <1>10, <1>11, <1>13, <1>14, WithinMore, WindowParts
  <1> QED BY <1>5, <1>7, <1>8, <1>9, <1>12, <1>13, <1>15 DEF LimitInv

\* The clock ends windows, and never revives one.
LEMMA OlderFacts ==
    ASSUME NEW w, MapOK(w), NEW budget, Within(w, budget), NEW u, u = OlderWindows(w)
    PROVE  /\ MapOK(u) /\ Within(u, budget) /\ Len(u) = Len(w)
           /\ \A i \in 1..Len(w) : u[i].key = w[i].key /\ u[i].age >= w[i].age
  <1>1. Len(w) \in Nat /\ \A i \in 1..Len(w) : w[i] \in AWindow /\ w[i].age \in Nat
    BY WindowParts
  <1>2. u = [i \in 1..Len(w) |-> [w[i] EXCEPT !.age = IF Over(w[i]) THEN w[i].age ELSE w[i].age + 1]]
    BY DEF OlderWindows
  <1>3. ASSUME NEW i \in 1..Len(w)
        PROVE  /\ u[i] \in AWindow /\ u[i].key = w[i].key /\ u[i].count = w[i].count
               /\ u[i].age >= w[i].age /\ (Over(w[i]) => u[i].age = w[i].age)
    BY <1>1, <1>2 DEF AWindow
  <1>4. u \in Seq(AWindow) /\ Len(u) = Len(w)
    <2>1. u \in [1..Len(w) -> AWindow]
      BY <1>2, <1>3
    <2>2. u \in Seq(AWindow)
      BY <1>1, <2>1, SeqDef
    <2> QED BY <1>1, <2>1, <2>2, LenProperties
  <1>5. MapOK(u)
    BY <1>3, <1>4 DEF MapOK
  <1>6. Within(u, budget)
    <2> SUFFICES ASSUME NEW i \in 1..Len(w), ~Over(u[i]) PROVE u[i].count <= budget[u[i].key]
      BY <1>4 DEF Within
    <2>1. ~Over(w[i])
      BY <1>3, OverByAge
    <2> QED BY <1>3, <2>1 DEF Within
  <1> QED BY <1>3, <1>4, <1>5, <1>6

\* The clock keeps counts and ledger together.
LEMMA LimitClock ==
    ASSUME LimitInv, ControlInv, Clock
    PROVE  LimitInv'
  <1>1. windows' = OlderWindows(windows) /\ UNCHANGED <<ledger, submits>>
    BY DEF Clock, historyVars
  <1>2. Fades
    BY DEF Clock, Fades, ControlInv, ControlTypeOK, RequestState
  <1>3. Numbered'
    BY <1>1, <1>2, NumberedStays DEF LimitInv
  <1>4. MapOK(windows') /\ Within(windows', Counted(ledger'))
    BY <1>1, OlderFacts DEF LimitInv
  <1> QED BY <1>1, <1>3, <1>4 DEF LimitInv, LedgerOK

\* A process that starts anew has counted nothing.
LEMMA LimitRestart ==
    ASSUME LimitInv, Restart
    PROVE  LimitInv'
  <1>1. /\ windows' = <<>> /\ ledger' = {} /\ UNCHANGED submits
        /\ req' = [r \in Requests |-> NoRequest]
    BY Zenon DEF Restart
  <1>2. MapOK(windows') /\ Len(windows') = 0
    BY <1>1 DEF MapOK
  <1>3. LedgerOK'
    BY <1>1, FS_EmptySet DEF LedgerOK
  <1>4. Fades
    BY <1>1 DEF Fades, NoRequest
  <1>5. Numbered'
    BY <1>1, <1>4, NumberedStays DEF LimitInv
  <1>6. Within(windows', Counted(ledger'))
    BY <1>2 DEF Within
  <1> QED BY <1>2, <1>3, <1>5, <1>6 DEF LimitInv

\* Every step keeps counts and ledger together.
LEMMA LimitNext ==
    ASSUME LimitInv, Shape, ControlInv, [ReactionsNext]_vars
    PROVE  LimitInv'
  <1>1. ASSUME NEW r \in Requests, Submit(r) PROVE LimitInv'
    BY <1>1, LimitSubmit
  <1>2. ASSUME NEW r \in Requests, Answer(r) PROVE Fades
    BY <1>2 DEF Answer, Fades, ControlInv, ControlTypeOK, NoRequest
  <1>3. ASSUME NEW r \in Requests, Decide(r) PROVE LimitInv'
    <2>1. req[r].pc = "getting" /\ submits' = submits
      BY <1>3 DEF Decide
    <2>2. CASE Answer(r) /\ UNCHANGED <<windows, ledger>>
      BY <1>2, <2>1, <2>2, LimitSame
    <2>3. CASE StartWrite(r)
      BY <2>1, <2>3, LimitCharge
    <2> QED BY <1>3, <2>2, <2>3, Zenon DEF Decide
  <1>4. ASSUME NEW r \in Requests, Land(r) PROVE LimitInv'
    <2>1. Fades
      BY <1>4 DEF Land, Fades, ControlInv, ControlTypeOK, RequestState
    <2> QED BY <1>4, <2>1, LimitSame DEF Land, historyVars
  <1>5. ASSUME NEW r \in Requests, RespondOk(r) PROVE LimitInv'
    <2>1. Fades /\ UNCHANGED <<windows, ledger, submits>>
      BY <1>2, <1>5 DEF RespondOk
    <2> QED BY <2>1, LimitSame
  <1>6. ASSUME NEW r \in Requests, InsertFails(r) PROVE LimitInv'
    BY <1>6, LimitFail
  <1>7. CASE Clock
    BY <1>7, LimitClock
  <1>8. CASE Restart
    BY <1>8, LimitRestart
  <1>9. CASE UNCHANGED <<req, windows, ledger, submits>>
    <2>1. Fades
      BY <1>9 DEF Fades
    <2> QED BY <1>9, <2>1, LimitSame
  <1> QED
    BY <1>1, <1>3, <1>4, <1>5, <1>6, <1>7, <1>8, <1>9
    DEF ReactionsNext, SheetServes, RefreshEnds, RefreshFails, PageStep, OrphanLands, Shop,
        requestVars, historyVars, vars

\* Counts and ledger stay together.
LEMMA LimitHolds == ReactionsSpec => []LimitInv
  <1>1. LimitInv /\ Shape /\ ControlInv /\ [ReactionsNext]_vars => LimitInv'
    BY LimitNext
  <1> QED BY <1>1, LimitInit, ShapeHolds, PTL DEF ReactionsSpec

\* A write that failed burns no budget: what the limiter counts in a live window is at most the
\* writes that took a unit of it and did not fail, refunds that come after the window is over,
\* replaced or evicted included.
THEOREM FailuresBurnNoBudgetHolds == ReactionsSpec => []FailuresBurnNoBudget
  <1>1. LimitInv => FailuresBurnNoBudget
    <2> SUFFICES ASSUME LimitInv, NEW key \in Keys(windows)
                 PROVE  CountOf(windows, key) <= WritesInWindow(key)
      BY DEF FailuresBurnNoBudget
    <2>1. PICK n : n = PlaceOf(windows, key)
      OBVIOUS
    <2>2. n \in 1..Len(windows) /\ windows[n].key = key
      BY <2>1, PlaceFacts DEF LimitInv
    <2>3. key \in AllKeys
      BY <2>2, WindowParts DEF LimitInv
    <2>4. Cardinality(UnitsOf(ledger, key)) \in Nat
      BY UnitsFacts DEF LimitInv, LedgerOK
    <2>5. CASE Live(windows, key)
      <3>1. windows[n].count <= Counted(ledger)[key]
        BY <2>1, <2>2, <2>5 DEF LimitInv, Within, Live
      <3> QED BY <2>1, <2>3, <2>5, <3>1 DEF CountOf, WritesInWindow, Counted, UnitsOf
    <2>6. CASE ~Live(windows, key)
      BY <2>4, <2>6 DEF CountOf, WritesInWindow, UnitsOf
    <2> QED BY <2>5, <2>6
  <1> QED BY <1>1, LimitHolds, PTL

\* What is true of one protected key while the process runs.
Survives(key) ==
    Live(windows, key) /\ crashes' = crashes =>
        /\ key \in Keys(windows')
        /\ windows'[PlaceOf(windows', key)].age >= windows[PlaceOf(windows, key)].age

\* A map that protects what was there keeps the windows of protected keys.
LEMMA SurvivesWhenProtected ==
    ASSUME MapOK(windows), MapOK(windows'), Protects(windows, windows'), NEW key \in ProtectedKeys
    PROVE  Survives(key)
  <1> SUFFICES ASSUME Live(windows, key)
               PROVE  /\ key \in Keys(windows')
                      /\ windows'[PlaceOf(windows', key)].age >= windows[PlaceOf(windows, key)].age
    BY DEF Survives
  <1>1. PICK w, u : w = windows /\ u = windows'
    OBVIOUS
  <1>2. PICK j : j = PlaceOf(w, key)
    OBVIOUS
  <1>3. j \in 1..Len(w) /\ w[j].key = key /\ ~Over(w[j]) /\ w[j].age \in Nat
    BY <1>1, <1>2, PlaceFacts, WindowParts DEF Live
  <1>4. PICK i \in 1..Len(u) : u[i].key = key /\ u[i].age = w[j].age
    BY <1>1, <1>3 DEF Protects
  <1>5. key \in Keys(u) /\ PlaceOf(u, key) = i
    BY <1>1, <1>4, PlaceFacts
  <1> QED BY <1>1, <1>2, <1>3, <1>4, <1>5

\* The live window of a protected key is never evicted, nor opened anew: pruning takes other keys,
\* allow() and refund() change counts only, and the clock only ages it.
THEOREM ProtectedSurvivesHolds == ReactionsSpec => ProtectedSurvives
  <1>1. ASSUME LimitInv, LimitInv', Shape, ControlInv, CacheTypeOK, ReactionsNext, NEW key \in ProtectedKeys
        PROVE  Survives(key)
    <2>1. MapOK(windows) /\ MapOK(windows') /\ LedgerOK
      BY <1>1 DEF LimitInv
    <2>2. PICK budget \in Budgets : Within(windows, budget)
      BY <2>1, SomeBudget
    <2>3. ASSUME NEW r \in Requests, Decide(r) \/ InsertFails(r) PROVE Survives(key)
      <3>1. PICK keys : keys = KeysOf(req[r].who, req[r].batch)
        OBVIOUS
      <3>2. req[r].pc # "idle"
        BY <2>3 DEF Decide, InsertFails, Writing
      <3>3. keys \in Seq(AllKeys) /\ Unrepeated(keys)
        BY <1>1, <3>1, <3>2, RequestKeys
      <3>4. windows' = windows \/ windows' = Charged(keys) \/ windows' = Refunded(keys)
        BY <2>3, <3>1, Zenon DEF Decide, StartWrite, InsertFails
      <3>5. Protects(windows, windows')
        <4>1. PICK u : u = windows'
          OBVIOUS
        <4>2. CASE u = windows
          BY <4>1, <4>2 DEF Protects
        <4>3. CASE u = Charged(keys)
          BY <2>1, <2>2, <3>3, <4>1, <4>3, ChargedFacts
        <4>4. CASE u = Refunded(keys)
          BY <2>1, <2>2, <3>3, <4>1, <4>4, RefundedFacts
        <4> QED BY <3>4, <4>1, <4>2, <4>3, <4>4
      <3> QED BY <2>1, <3>5, SurvivesWhenProtected
    <2>4. CASE Clock
      <3>1. PICK w, u : w = windows /\ u = windows'
        OBVIOUS
      <3>2. MapOK(u) /\ Len(u) = Len(w) /\ \A i \in 1..Len(w) : u[i].key = w[i].key /\ u[i].age >= w[i].age
        <4>1. u = OlderWindows(w)
          BY <2>4, <3>1 DEF Clock
        <4> QED BY <2>1, <2>2, <3>1, <4>1, OlderFacts
      <3> SUFFICES ASSUME Live(w, key)
                   PROVE  key \in Keys(u) /\ u[PlaceOf(u, key)].age >= w[PlaceOf(w, key)].age
        BY <3>1 DEF Survives
      <3>3. PICK j : j = PlaceOf(w, key)
        OBVIOUS
      <3>4. j \in 1..Len(w) /\ w[j].key = key
        BY <2>1, <3>1, <3>3, PlaceFacts DEF Live
      <3>5. key \in Keys(u) /\ PlaceOf(u, key) = j
        BY <3>2, <3>4, PlaceFacts
      <3> QED BY <3>2, <3>3, <3>4, <3>5
    <2>5. CASE Restart
      <3>1. crashes' # crashes
        BY <1>1, <2>5, CacheConstants DEF Restart, Crash, CacheTypeOK
      <3> QED BY <3>1 DEF Survives
    <2>6. CASE UNCHANGED windows
      <3>1. Protects(windows, windows')
        BY <2>6 DEF Protects
      <3> QED BY <2>1, <3>1, SurvivesWhenProtected
    <2>7. ASSUME NEW r \in Requests, Submit(r) \/ Land(r) \/ RespondOk(r) PROVE Survives(key)
      BY <2>6, <2>7 DEF Submit, Land, RespondOk
    <2> QED
      BY <1>1, <2>3, <2>4, <2>5, <2>6, <2>7
      DEF ReactionsNext, SheetServes, RefreshEnds, RefreshFails, PageStep, OrphanLands, Shop, requestVars
  <1>2. LimitInv /\ LimitInv' /\ Shape /\ ControlInv /\ CacheTypeOK /\ ReactionsNext =>
            \A key \in ProtectedKeys :
               Live(windows, key) /\ crashes' = crashes =>
                  /\ key \in Keys(windows')
                  /\ windows'[PlaceOf(windows', key)].age >= windows[PlaceOf(windows, key)].age
    BY <1>1 DEF Survives
  <1>3. CacheInv => CacheTypeOK
    BY DEF CacheInv
  <1> QED BY <1>2, <1>3, LimitHolds, ShapeHolds, PTL DEF ReactionsSpec, ProtectedSurvives
=============================================================================
