------------------------ MODULE CatalogueCacheProofs ------------------------
(***************************************************************************)
(* Proofs about the snapshot cache, for every number of callers, every     *)
(* bound and every choice of the three durations.  The inductive invariant *)
(* CacheInv is CatalogueCache's; its conjuncts are preserved one after the *)
(* other, in the order in which they use each other.  And what the monitor *)
(* of the site owes its owner, for any faults and restarts: that the last  *)
(* mail and the script's record say the same.                              *)
(***************************************************************************)
EXTENDS CatalogueCache, HealthWatch, TLAPS

USE CacheConstants DEF Age, Version

\* The steps of the cache, action by action.
LEMMA CacheCases ==
    ASSUME [CacheNext]_cacheVars, NEW Goal,
           \A c \in Callers : Get(c) => Goal,
           \A c \in Callers : Bust(c) => Goal,
           \A c \in Callers : BustResume(c) => Goal,
           \A c \in Callers : Return(c) => Goal,
           \A i \in ReadIds : ServeRead(i) => Goal,
           \A i \in ReadIds : EndReadOk(i) => Goal,
           \A i \in ReadIds : EndReadFail(i) => Goal,
           Edit => Goal, Tick => Goal, Crash => Goal,
           UNCHANGED cacheVars => Goal
    PROVE  Goal
  BY Zenon DEF CacheNext

-----------------------------------------------------------------------------

\* Ages stay in range.
LEMMA OlderAge == \A a \in Age : Older(a) \in Age /\ Older(a) >= a /\ (a < AgeCap => Older(a) = a + 1)
  BY DEF Older

\* A caller record written by the code is a caller record.
LEMMA AwaitingType ==
    ASSUME CacheTypeOK, NEW c \in Callers, NEW op \in {"get", "bust"}, NEW since \in Version,
           NEW pc \in {"joined", "prior"}, NEW i \in ReadIds \cup {NoRead},
           Awaiting(c, op, since, pc, i)
    PROVE  callers' \in [Callers -> Call]
  <1> DEFINE call == [pc |-> pc, op |-> op, on |-> i, since |-> since, got |-> 0, ok |-> FALSE]
  <1>1. call \in Call
    BY DEF Call
  <1>2. callers' = [callers EXCEPT ![c] = call]
    BY DEF Awaiting
  <1> HIDE DEF call
  <1> QED BY <1>1, <1>2 DEF CacheTypeOK

\* get() and bust() answer a caller with a record of the declared form.
LEMMA AnsweredType ==
    ASSUME CacheTypeOK, NEW c \in Callers, NEW op \in {"get", "bust"}, NEW since \in Version,
           NEW ok \in BOOLEAN, Answered(c, op, since, ok)
    PROVE  callers' \in [Callers -> Call]
  <1> DEFINE call == [pc |-> IF snap.loaded THEN "served" ELSE "failed", op |-> op, on |-> NoRead,
                      since |-> since, got |-> snap.content, ok |-> ok]
  <1>1. call \in Call
    BY DEF Call, CacheTypeOK, Snapshot
  <1>2. callers' = [callers EXCEPT ![c] = call]
    BY DEF Answered
  <1> HIDE DEF call
  <1> QED BY <1>1, <1>2 DEF CacheTypeOK

\* refresh() starts or joins a load and keeps the types.
LEMMA RefreshType ==
    ASSUME CacheTypeOK, NEW c \in Callers, NEW op \in {"get", "bust"}, NEW since \in Version,
           Refresh(c, op, since)
    PROVE  /\ inflight' \in ReadIds \cup {NoRead}
           /\ reads' \in [ReadIds -> Load]
           /\ callers' \in [Callers -> Call]
  <1>1. CASE inflight # NoRead
    BY <1>1, AwaitingType DEF CacheTypeOK, Refresh
  <1>2. CASE inflight = NoRead
    <2>1. PICK i \in ReadIds :
             /\ reads' = [reads EXCEPT ![i] = [NoLoad EXCEPT !.phase = "sent"]]
             /\ inflight' = i
             /\ Awaiting(c, op, since, "joined", i)
      BY <1>2 DEF Refresh
    <2>2. [NoLoad EXCEPT !.phase = "sent"] \in Load
      BY DEF NoLoad, Load
    <2>3. reads' \in [ReadIds -> Load]
      BY <2>1, <2>2 DEF CacheTypeOK
    <2>4. callers' \in [Callers -> Call]
      BY <2>1, AwaitingType
    <2> QED BY <2>1, <2>3, <2>4
  <1> QED BY <1>1, <1>2

\* The end of a load releases its waiters with records of the declared form.
LEMMA ReleasedType ==
    ASSUME CacheTypeOK, NEW i \in ReadIds, NEW s \in Snapshot, NEW ok \in BOOLEAN
    PROVE  Released(i, s, ok) \in [Callers -> Call]
  <1> SUFFICES ASSUME NEW c \in Callers
               PROVE  Released(i, s, ok)[c] \in Call
    BY DEF Released
  <1>1. callers[c] \in Call
    BY DEF CacheTypeOK
  <1> QED BY <1>1 DEF Released, Call, Snapshot

\* A caller at rest has the declared form.
LEMMA NoCallType == NoCall \in Call
  BY DEF NoCall, Call

\* The new cache has the declared types.
LEMMA TypeInit == CacheInit => CacheTypeOK
  <1> SUFFICES ASSUME CacheInit PROVE CacheTypeOK
    OBVIOUS
  <1>1. snap \in Snapshot
    BY DEF CacheInit, NoSnapshot, Snapshot
  <1>2. reads \in [ReadIds -> Load]
    BY DEF CacheInit, NoLoad, Load
  <1>3. callers \in [Callers -> Call]
    BY NoCallType DEF CacheInit
  <1> QED BY <1>1, <1>2, <1>3 DEF CacheInit, CacheTypeOK, NoFile, File

\* Every step of the cache keeps the declared types.
LEMMA TypeNext == CacheTypeOK /\ [CacheNext]_cacheVars => CacheTypeOK'
  <1> SUFFICES ASSUME CacheTypeOK, [CacheNext]_cacheVars PROVE CacheTypeOK'
    OBVIOUS
  <1>1. ASSUME NEW c \in Callers, Get(c) PROVE CacheTypeOK'
    <2>1. CASE Fresh \/ CoolingDown
      <3>1. Answered(c, "get", edits, Fresh) \/ Refresh(c, "get", edits)
        BY <1>1 DEF Get
      <3>2. CASE Answered(c, "get", edits, Fresh)
        <4>1. Fresh \in BOOLEAN /\ edits \in Version
          BY DEF Fresh, CacheTypeOK, Snapshot
        <4>2. callers' \in [Callers -> Call]
          BY <3>2, <4>1, AnsweredType
        <4> QED BY <1>1, <2>1, <4>2 DEF Get, CacheTypeOK
      <3> QED BY <1>1, <2>1, <3>1, <3>2 DEF Get
    <2>2. CASE Refresh(c, "get", edits)
      BY <1>1, <2>2, RefreshType DEF Get, CacheTypeOK
    <2> QED BY <1>1, <2>1, <2>2 DEF Get
  <1>2. ASSUME NEW c \in Callers, NEW since \in Version, ForceRefresh(c, since),
               UNCHANGED <<edits, editAge, disk, lastOk, crashes>>
        PROVE  CacheTypeOK'
    <2>1. [snap EXCEPT !.age = AgeCap] \in Snapshot
      <3>1. snap \in Snapshot
        BY DEF CacheTypeOK
      <3>2. AgeCap \in Age
        OBVIOUS
      <3> QED BY <3>1, <3>2 DEF Snapshot
    <2>2. /\ inflight' \in ReadIds \cup {NoRead}
          /\ reads' \in [ReadIds -> Load]
          /\ callers' \in [Callers -> Call]
      BY <1>2, RefreshType DEF ForceRefresh
    <2>3. snap' \in Snapshot /\ failAge' \in Age
      BY <1>2, <2>1 DEF ForceRefresh
    <2> QED BY <1>2, <2>2, <2>3 DEF CacheTypeOK
  <1>3. ASSUME NEW c \in Callers, Bust(c) PROVE CacheTypeOK'
    <2>1. CASE inflight # NoRead
      <3>1. callers' \in [Callers -> Call]
        BY <1>3, <2>1, AwaitingType DEF Bust, CacheTypeOK
      <3> QED BY <1>3, <2>1, <3>1 DEF Bust, CacheTypeOK
    <2>2. CASE inflight = NoRead
      BY <1>2, <1>3, <2>2 DEF Bust, CacheTypeOK
    <2> QED BY <2>1, <2>2
  <1>4. ASSUME NEW c \in Callers, BustResume(c) PROVE CacheTypeOK'
    <2>1. callers[c].since \in Version
      BY DEF CacheTypeOK, Call
    <2> QED BY <1>2, <1>4, <2>1 DEF BustResume
  <1>5. ASSUME NEW c \in Callers, Return(c) PROVE CacheTypeOK'
    BY <1>5, NoCallType DEF Return, CacheTypeOK
  <1>6. ASSUME NEW i \in ReadIds, ServeRead(i) PROVE CacheTypeOK'
    BY <1>6 DEF ServeRead, CacheTypeOK, Load
  <1>7. NoLoad \in Load
    BY DEF NoLoad, Load
  <1>8. ASSUME NEW i \in ReadIds, EndReadOk(i) PROVE CacheTypeOK'
    <2>1. reads[i].content \in Version
      BY DEF CacheTypeOK, Load
    <2>2. snap' \in Snapshot /\ disk' \in File
      <3>1. snap' = [loaded |-> TRUE, age |-> 0, content |-> reads[i].content]
        BY <1>8 DEF EndReadOk
      <3>2. disk' = disk \/ disk' = [saved |-> TRUE, content |-> reads[i].content]
        BY <1>8 DEF EndReadOk
      <3>3. snap' \in Snapshot
        BY <2>1, <3>1 DEF Snapshot
      <3>4. [saved |-> TRUE, content |-> reads[i].content] \in File
        BY <2>1 DEF File
      <3> QED BY <3>2, <3>3, <3>4 DEF CacheTypeOK
    <2>3. callers' \in [Callers -> Call]
      BY <1>8, <2>2, ReleasedType DEF EndReadOk
    <2> QED BY <1>7, <1>8, <2>2, <2>3 DEF EndReadOk, LoadEnds, CacheTypeOK
  <1>9. ASSUME NEW i \in ReadIds, EndReadFail(i) PROVE CacheTypeOK'
    <2>1. callers' \in [Callers -> Call]
      BY <1>9, ReleasedType DEF EndReadFail, CacheTypeOK
    <2>2. reads' \in [ReadIds -> Load]
      BY <1>7, <1>9 DEF EndReadFail, LoadEnds, CacheTypeOK
    <2>3. failAge' \in Age /\ inflight' \in ReadIds \cup {NoRead}
      BY <1>9 DEF EndReadFail, LoadEnds
    <2> QED BY <1>9, <2>1, <2>2, <2>3 DEF EndReadFail, CacheTypeOK
  <1>10. CASE Edit
    BY <1>10 DEF Edit, CacheTypeOK
  <1>11. CASE Tick
    <2>1. editAge' \in [1..MaxEdits -> Age]
      BY <1>11, OlderAge DEF Tick, CacheTypeOK
    <2>2. snap' \in Snapshot
      BY <1>11, OlderAge DEF Tick, CacheTypeOK, Snapshot
    <2>3. reads' \in [ReadIds -> Load]
      <3> SUFFICES ASSUME NEW i \in ReadIds PROVE reads'[i] \in Load
        BY <1>11 DEF Tick
      <3>1. CASE reads[i].phase = "off"
        BY <1>11, <3>1 DEF Tick, CacheTypeOK
      <3>2. CASE reads[i].phase # "off"
        <4>1. reads[i] \in Load /\ reads[i].age < ReadLimit
          BY <1>11, <3>2 DEF Tick, WithinTimeouts, CacheTypeOK
        <4>2. reads'[i] = [reads[i] EXCEPT !.age = @ + 1]
          BY <1>11, <3>2 DEF Tick
        <4> QED BY <4>1, <4>2 DEF Load
      <3> QED BY <3>1, <3>2
    <2> QED BY <1>11, <2>1, <2>2, <2>3, OlderAge DEF Tick, CacheTypeOK
  <1>12. CASE Crash
    <2>1. NoSnapshot \in Snapshot /\ Restored \in Snapshot
      <3>1. NoSnapshot \in Snapshot
        BY DEF NoSnapshot, Snapshot
      <3>2. disk.content \in Version
        BY DEF CacheTypeOK, File
      <3>3. [NoSnapshot EXCEPT !.loaded = TRUE, !.content = disk.content] \in Snapshot
        BY <3>1, <3>2 DEF Snapshot
      <3> QED BY <3>1, <3>3 DEF Restored
    <2> QED BY <1>7, <1>12, <2>1, NoCallType DEF Crash, CacheTypeOK
  <1>13. CASE UNCHANGED cacheVars
    BY <1>13 DEF cacheVars, CacheTypeOK
  <1> QED
    BY <1>1, <1>3, <1>4, <1>5, <1>6, <1>8, <1>9, <1>10, <1>11, <1>12, <1>13, CacheCases

\* The cache's variables keep their types.
THEOREM CacheTypeCorrect == CacheSpec => []CacheTypeOK
  BY TypeInit, TypeNext, PTL DEF CacheSpec

-----------------------------------------------------------------------------
(* single flight                                                           *)

\* What refresh() leaves behind: one load in flight, which the caller awaits;
\* no load becomes served, and a load already in flight is not touched.
LEMMA RefreshEffect ==
    ASSUME CacheTypeOK, SingleFlight,
           NEW c \in Callers, NEW op, NEW since, Refresh(c, op, since)
    PROVE  /\ SingleFlight'
           /\ inflight' \in ReadIds
           /\ inflight # NoRead => UNCHANGED <<inflight, reads>>
           /\ \A i \in ReadIds :
                reads'[i].phase = "served" => reads[i].phase = "served" /\ reads'[i] = reads[i]
           /\ \A i \in ReadIds : reads'[i].content = reads[i].content \/ reads'[i].content = 0
           /\ callers' = [callers EXCEPT ![c] =
                [pc |-> "joined", op |-> op, on |-> inflight', since |-> since, got |-> 0, ok |-> FALSE]]
  <1>1. CASE inflight # NoRead
    BY <1>1 DEF Refresh, Awaiting, CacheTypeOK, SingleFlight
  <1>2. CASE inflight = NoRead
    <2>1. PICK j \in ReadIds :
             /\ reads' = [reads EXCEPT ![j] = [NoLoad EXCEPT !.phase = "sent"]]
             /\ inflight' = j
             /\ Awaiting(c, op, since, "joined", j)
      BY <1>2 DEF Refresh
    <2>2. \A i \in ReadIds : reads[i].phase = "off"
      BY <1>2 DEF SingleFlight
    <2>3. [NoLoad EXCEPT !.phase = "sent"] = [phase |-> "sent", age |-> 0, content |-> 0]
      BY DEF NoLoad
    <2>4. reads'[j] = [phase |-> "sent", age |-> 0, content |-> 0]
      BY <2>1, <2>3 DEF CacheTypeOK
    <2>5. \A i \in ReadIds \ {j} : reads'[i] = reads[i]
      BY <2>1 DEF CacheTypeOK
    <2>6. SingleFlight'
      BY <2>1, <2>2, <2>4, <2>5 DEF SingleFlight
    <2>7. callers' = [callers EXCEPT ![c] =
            [pc |-> "joined", op |-> op, on |-> inflight', since |-> since, got |-> 0, ok |-> FALSE]]
      BY <2>1 DEF Awaiting
    <2> QED BY <1>2, <2>1, <2>2, <2>4, <2>5, <2>6, <2>7
  <1> QED BY <1>1, <1>2

\* Only the load in flight ends, and then no load is left.
LEMMA LoadEndsEffect ==
    ASSUME CacheTypeOK, SingleFlight, NEW i \in ReadIds, reads[i].phase # "off", LoadEnds(i)
    PROVE  /\ SingleFlight'
           /\ inflight = i /\ inflight' = NoRead
           /\ \A j \in ReadIds : reads'[j].phase = "off"
           /\ \A j \in ReadIds : reads'[j].content = reads[j].content \/ reads'[j].content = 0
  <1>1. \A j \in ReadIds \ {i} : reads[j].phase = "off"
    BY DEF SingleFlight
  <1>2. \A j \in ReadIds : reads'[j] = IF j = i THEN NoLoad ELSE reads[j]
    BY DEF LoadEnds, CacheTypeOK
  <1>3. NoLoad.phase = "off" /\ NoLoad.content = 0
    BY DEF NoLoad
  <1>4. \A j \in ReadIds : reads'[j].phase = "off"
    BY <1>1, <1>2, <1>3
  <1> QED BY <1>2, <1>3, <1>4 DEF SingleFlight, LoadEnds

\* Time moves neither the phase nor the content of a load.
LEMMA TickReads ==
    ASSUME CacheTypeOK, Tick, NEW i \in ReadIds
    PROVE  /\ reads'[i].phase = reads[i].phase
           /\ reads'[i].content = reads[i].content
           /\ reads[i].phase # "off" => reads'[i].age = reads[i].age + 1
  <1>1. reads[i] \in Load
    BY DEF CacheTypeOK
  <1>2. reads'[i] = IF reads[i].phase = "off" THEN reads[i] ELSE [reads[i] EXCEPT !.age = @ + 1]
    BY DEF Tick
  <1> QED BY <1>1, <1>2 DEF Load

\* A new cache has no load.
LEMMA SingleFlightInit == CacheInit => SingleFlight
  BY DEF CacheInit, SingleFlight, NoLoad

\* refresh() never starts a load beside another.
LEMMA SingleFlightNext ==
    CacheTypeOK /\ SingleFlight /\ [CacheNext]_cacheVars => SingleFlight'
  <1> SUFFICES ASSUME CacheTypeOK, SingleFlight, [CacheNext]_cacheVars
               PROVE  SingleFlight'
    OBVIOUS
  <1>1. ASSUME NEW c \in Callers, Get(c) PROVE SingleFlight'
    BY <1>1, RefreshEffect DEF Get, SingleFlight
  <1>2. ASSUME NEW c \in Callers, Bust(c) PROVE SingleFlight'
    BY <1>2, RefreshEffect DEF Bust, ForceRefresh, SingleFlight
  <1>3. ASSUME NEW c \in Callers, BustResume(c) PROVE SingleFlight'
    BY <1>3, RefreshEffect DEF BustResume, ForceRefresh
  <1>4. ASSUME NEW c \in Callers, Return(c) PROVE SingleFlight'
    BY <1>4 DEF Return, SingleFlight
  <1>5. ASSUME NEW i \in ReadIds, ServeRead(i) PROVE SingleFlight'
    BY <1>5 DEF ServeRead, SingleFlight, CacheTypeOK, Load
  <1>6. ASSUME NEW i \in ReadIds, EndReadOk(i) PROVE SingleFlight'
    BY <1>6, LoadEndsEffect DEF EndReadOk
  <1>7. ASSUME NEW i \in ReadIds, EndReadFail(i) PROVE SingleFlight'
    BY <1>7, LoadEndsEffect DEF EndReadFail
  <1>8. CASE Edit
    BY <1>8 DEF Edit, SingleFlight
  <1>9. CASE Tick
    BY <1>9, TickReads DEF SingleFlight, Tick
  <1>10. CASE Crash
    BY <1>10 DEF Crash, SingleFlight, NoLoad
  <1>11. CASE UNCHANGED cacheVars
    BY <1>11 DEF cacheVars, SingleFlight
  <1> QED
    BY <1>1, <1>2, <1>3, <1>4, <1>5, <1>6, <1>7, <1>8, <1>9, <1>10, <1>11, CacheCases

-----------------------------------------------------------------------------
(* who waits, waits on the load in flight                                  *)

\* The record a call without a wait writes, and the callers it leaves alone.
LEMMA AnsweredEffect ==
    ASSUME CacheTypeOK, NEW c \in Callers, NEW op, NEW since, NEW ok,
           Answered(c, op, since, ok)
    PROVE  /\ callers'[c].pc \in {"served", "failed"}
           /\ callers'[c].pc = "failed" => ~snap.loaded
           /\ callers'[c].op = op
           /\ callers'[c].on = NoRead
           /\ callers'[c].since = since
           /\ callers'[c].got = snap.content
           /\ \A d \in Callers \ {c} : callers'[d] = callers[d]
  BY DEF Answered, CacheTypeOK

\* The end of load i answers the joined callers and lets the others go on.
LEMMA ReleasedEffect ==
    ASSUME CacheTypeOK, WaitersOnInflight, NEW i \in ReadIds, inflight = i,
           NEW s, NEW ok, NEW c \in Callers, callers' = Released(i, s, ok)
    PROVE  /\ callers'[c].on = NoRead
           /\ callers'[c].op = callers[c].op
           /\ callers'[c].since = callers[c].since
           /\ callers[c].pc = "joined" =>
                /\ callers'[c].pc = IF s.loaded THEN "served" ELSE "failed"
                /\ callers'[c].got = s.content
                /\ callers'[c].ok = ok
           /\ callers[c].pc = "prior" => callers'[c].pc = "resume"
           /\ callers[c].pc \notin {"joined", "prior"} => callers'[c] = callers[c]
  <1> DEFINE d == callers[c]
  <1>1. d \in Call /\ i # NoRead
    BY DEF CacheTypeOK
  <1>2. d.on = i <=> d.pc \in {"joined", "prior"}
    BY <1>1 DEF WaitersOnInflight
  <1>3. CASE d.pc = "joined"
    <2>1. callers'[c] = [d EXCEPT !.pc = IF s.loaded THEN "served" ELSE "failed",
                                  !.on = NoRead, !.got = s.content, !.ok = ok]
      BY <1>2, <1>3 DEF Released
    <2> QED BY <1>1, <1>3, <2>1 DEF Call
  <1>4. CASE d.pc = "prior"
    <2>1. callers'[c] = [d EXCEPT !.pc = "resume", !.on = NoRead]
      BY <1>2, <1>4 DEF Released
    <2> QED BY <1>1, <1>4, <2>1 DEF Call
  <1>5. CASE d.pc \notin {"joined", "prior"}
    <2>1. callers'[c] = d
      BY <1>1, <1>2, <1>5 DEF Released
    <2> QED BY <1>5, <2>1 DEF WaitersOnInflight
  <1> QED BY <1>3, <1>4, <1>5

\* Nobody waits on a new cache.
LEMMA WaitersInit == CacheInit => WaitersOnInflight
  <1> SUFFICES ASSUME CacheInit, NEW c \in Callers
               PROVE  callers[c].on = NoRead /\ callers[c].pc = "idle"
    BY DEF WaitersOnInflight
  <1> QED BY DEF CacheInit, NoCall

\* Whoever waits goes on waiting for the load in flight, until it ends and releases all.
LEMMA WaitersNext ==
    CacheTypeOK /\ SingleFlight /\ WaitersOnInflight /\ [CacheNext]_cacheVars => WaitersOnInflight'
  <1> SUFFICES ASSUME CacheTypeOK, SingleFlight, WaitersOnInflight, [CacheNext]_cacheVars
               PROVE  WaitersOnInflight'
    OBVIOUS
  <1>1. ASSUME NEW c \in Callers, NEW op, NEW since, Refresh(c, op, since)
        PROVE  WaitersOnInflight'
    <2>1. /\ callers'[c].pc = "joined" /\ callers'[c].on = inflight'
          /\ inflight' \in ReadIds
          /\ inflight # NoRead => inflight' = inflight
          /\ \A d \in Callers \ {c} : callers'[d] = callers[d]
      BY <1>1, RefreshEffect DEF CacheTypeOK
    <2> QED BY <2>1 DEF WaitersOnInflight
  <1>2. ASSUME NEW c \in Callers, Get(c) PROVE WaitersOnInflight'
    <2>1. CASE Refresh(c, "get", edits)
      BY <1>1, <2>1
    <2>2. CASE Answered(c, "get", edits, Fresh) /\ UNCHANGED inflight
      BY <2>2, AnsweredEffect DEF WaitersOnInflight
    <2> QED BY <1>2, <2>1, <2>2 DEF Get
  <1>3. ASSUME NEW c \in Callers, Bust(c) PROVE WaitersOnInflight'
    <2>1. CASE Refresh(c, "bust", edits)
      BY <1>1, <2>1
    <2>2. CASE inflight # NoRead /\ Awaiting(c, "bust", edits, "prior", inflight) /\ UNCHANGED inflight
      <3>1. callers'[c].pc = "prior" /\ callers'[c].on = inflight
        BY <2>2 DEF Awaiting, CacheTypeOK
      <3>2. \A d \in Callers \ {c} : callers'[d] = callers[d]
        BY <2>2 DEF Awaiting, CacheTypeOK
      <3> QED BY <2>2, <3>1, <3>2 DEF WaitersOnInflight
    <2> QED BY <1>3, <2>1, <2>2 DEF Bust, ForceRefresh
  <1>4. ASSUME NEW c \in Callers, BustResume(c) PROVE WaitersOnInflight'
    BY <1>1, <1>4 DEF BustResume, ForceRefresh
  <1>5. ASSUME NEW c \in Callers, Return(c) PROVE WaitersOnInflight'
    BY <1>5 DEF Return, WaitersOnInflight, NoCall, CacheTypeOK
  <1>6. ASSUME NEW i \in ReadIds, ServeRead(i) PROVE WaitersOnInflight'
    BY <1>6 DEF ServeRead, WaitersOnInflight
  <1>7. ASSUME NEW i \in ReadIds, NEW s \in Snapshot, NEW ok, reads[i].phase # "off", LoadEnds(i),
               callers' = Released(i, s, ok)
        PROVE  WaitersOnInflight'
    <2> SUFFICES ASSUME NEW c \in Callers
                 PROVE  callers'[c].on = NoRead /\ callers'[c].pc \notin {"joined", "prior"}
      BY DEF WaitersOnInflight
    <2>1. inflight = i
      BY <1>7, LoadEndsEffect
    <2> QED BY <1>7, <2>1, ReleasedEffect
  <1>8. ASSUME NEW i \in ReadIds, EndReadOk(i) PROVE WaitersOnInflight'
    <2>1. snap' \in Snapshot
      BY <1>8, TypeNext DEF CacheTypeOK
    <2> QED BY <1>7, <1>8, <2>1 DEF EndReadOk
  <1>9. ASSUME NEW i \in ReadIds, EndReadFail(i) PROVE WaitersOnInflight'
    BY <1>7, <1>9 DEF EndReadFail, CacheTypeOK
  <1>10. CASE Edit \/ Tick
    BY <1>10 DEF Edit, Tick, WaitersOnInflight
  <1>11. CASE Crash
    BY <1>11 DEF Crash, WaitersOnInflight, NoCall
  <1>12. CASE UNCHANGED cacheVars
    BY <1>12 DEF cacheVars, WaitersOnInflight
  <1> QED
    BY <1>2, <1>3, <1>4, <1>5, <1>6, <1>8, <1>9, <1>10, <1>11, <1>12, CacheCases

-----------------------------------------------------------------------------
(* versions: nothing is invented, and loads are newer than what waits      *)

\* The values the versions range over are numbers.
LEMMA VersionsAreNumbers ==
    ASSUME CacheTypeOK
    PROVE  /\ edits \in Nat
           /\ snap.content \in Nat
           /\ disk.content \in Nat
           /\ \A i \in ReadIds : reads[i].content \in Nat
           /\ \A c \in Callers : callers[c].since \in Nat
  BY DEF CacheTypeOK, Snapshot, File, Load, Call

\* What any step does to the moment a caller called: it keeps it or it is now.
LEMMA SinceIsNowOrBefore ==
    ASSUME CacheTypeOK, SingleFlight, WaitersOnInflight, OnlyRealEdits,
           [CacheNext]_cacheVars, NEW c \in Callers
    PROVE  callers'[c].since <= edits
  <1> USE VersionsAreNumbers
  <1>0. callers[c].since <= edits
    BY DEF OnlyRealEdits
  <1>1. ASSUME NEW d \in Callers, NEW op, NEW since \in Nat, since <= edits, Refresh(d, op, since)
        PROVE  callers'[c].since <= edits
    BY <1>0, <1>1, RefreshEffect DEF CacheTypeOK
  <1>2. ASSUME NEW d \in Callers, Get(d) PROVE callers'[c].since <= edits
    <2>1. CASE Refresh(d, "get", edits)
      BY <1>1, <2>1
    <2>2. CASE Answered(d, "get", edits, Fresh)
      BY <1>0, <2>2, AnsweredEffect
    <2> QED BY <1>2, <2>1, <2>2 DEF Get
  <1>3. ASSUME NEW d \in Callers, Bust(d) PROVE callers'[c].since <= edits
    <2>1. CASE Refresh(d, "bust", edits)
      BY <1>1, <2>1
    <2>2. CASE Awaiting(d, "bust", edits, "prior", inflight)
      BY <1>0, <2>2 DEF Awaiting, CacheTypeOK
    <2> QED BY <1>3, <2>1, <2>2 DEF Bust, ForceRefresh
  <1>4. ASSUME NEW d \in Callers, BustResume(d) PROVE callers'[c].since <= edits
    <2>1. callers[d].since \in Nat /\ callers[d].since <= edits
      BY DEF OnlyRealEdits
    <2> QED BY <1>1, <1>4, <2>1 DEF BustResume, ForceRefresh
  <1>5. ASSUME NEW d \in Callers, Return(d) PROVE callers'[c].since <= edits
    BY <1>0, <1>5 DEF Return, NoCall, CacheTypeOK
  <1>6. ASSUME NEW i \in ReadIds, ServeRead(i) PROVE callers'[c].since <= edits
    BY <1>0, <1>6 DEF ServeRead
  <1>7. ASSUME NEW i \in ReadIds, EndReadOk(i) \/ EndReadFail(i) PROVE callers'[c].since <= edits
    <2>1. inflight = i
      BY <1>7, LoadEndsEffect DEF EndReadOk, EndReadFail
    <2>2. \E s, ok : callers' = Released(i, s, ok)
      BY <1>7 DEF EndReadOk, EndReadFail
    <2>3. PICK s, ok : callers' = Released(i, s, ok)
      BY <2>2
    <2> QED BY <1>0, <2>1, <2>3, ReleasedEffect
  <1>9. CASE Edit \/ Tick
    BY <1>0, <1>9 DEF Edit, Tick
  <1>10. CASE Crash
    BY <1>10 DEF Crash, NoCall
  <1>11. CASE UNCHANGED cacheVars
    BY <1>0, <1>11 DEF cacheVars
  <1> QED
    BY <1>2, <1>3, <1>4, <1>5, <1>6, <1>7, <1>9, <1>10, <1>11, CacheCases

\* What any step does to the contents of the loads, the snapshot and the file.
LEMMA ContentsAreReal ==
    ASSUME CacheTypeOK, SingleFlight, OnlyRealEdits, [CacheNext]_cacheVars
    PROVE  /\ snap'.content <= edits
           /\ disk'.content <= edits
           /\ \A i \in ReadIds : reads'[i].content <= edits
  <1> DEFINE Goal == /\ snap'.content <= edits
                     /\ disk'.content <= edits
                     /\ \A i \in ReadIds : reads'[i].content <= edits
  <1> USE VersionsAreNumbers
  <1>0. /\ snap.content <= edits /\ disk.content <= edits
        /\ \A i \in ReadIds : reads[i].content <= edits
    BY DEF OnlyRealEdits
  <1>1. ASSUME NEW c \in Callers, Get(c) PROVE Goal
    BY <1>0, <1>1, RefreshEffect DEF Get
  <1>2. ASSUME NEW c \in Callers, NEW since, ForceRefresh(c, since), UNCHANGED disk PROVE Goal
    <2>1. snap'.content = snap.content
      BY <1>2 DEF ForceRefresh, CacheTypeOK, Snapshot
    <2>2. \A i \in ReadIds : reads'[i].content = reads[i].content \/ reads'[i].content = 0
      BY <1>2, RefreshEffect DEF ForceRefresh
    <2> QED BY <1>0, <1>2, <2>1, <2>2
  <1>3. ASSUME NEW c \in Callers, Bust(c) PROVE Goal
    BY <1>0, <1>2, <1>3 DEF Bust
  <1>4. ASSUME NEW c \in Callers, BustResume(c) PROVE Goal
    BY <1>2, <1>4 DEF BustResume
  <1>5. ASSUME NEW c \in Callers, Return(c) PROVE Goal
    BY <1>0, <1>5 DEF Return
  <1>6. ASSUME NEW i \in ReadIds, ServeRead(i) PROVE Goal
    BY <1>0, <1>6 DEF ServeRead, CacheTypeOK, Load
  <1>7. ASSUME NEW i \in ReadIds, EndReadOk(i) PROVE Goal
    <2>1. snap'.content = reads[i].content
      BY <1>7 DEF EndReadOk
    <2>2. disk'.content = disk.content \/ disk'.content = reads[i].content
      BY <1>7 DEF EndReadOk
    <2>3. \A j \in ReadIds : reads'[j].content = reads[j].content \/ reads'[j].content = 0
      BY <1>7, LoadEndsEffect DEF EndReadOk
    <2> QED BY <1>0, <2>1, <2>2, <2>3
  <1>8. ASSUME NEW i \in ReadIds, EndReadFail(i) PROVE Goal
    BY <1>0, <1>8, LoadEndsEffect DEF EndReadFail
  <1>9. CASE Edit
    BY <1>0, <1>9 DEF Edit
  <1>10. CASE Tick
    <2>1. snap'.content = snap.content
      BY <1>10 DEF Tick, CacheTypeOK, Snapshot
    <2> QED BY <1>0, <1>10, <2>1, TickReads DEF Tick
  <1>11. CASE Crash
    <2>1. NoSnapshot.content = 0 /\ NoLoad.content = 0
      BY DEF NoSnapshot, NoLoad
    <2>2. Restored.content = disk.content \/ Restored.content = 0
      BY DEF Restored, NoSnapshot
    <2>3. snap'.content = disk.content \/ snap'.content = 0
      BY <1>11, <2>1, <2>2 DEF Crash
    <2>4. \A i \in ReadIds : reads'[i].content = 0
      BY <1>11, <2>1 DEF Crash
    <2> QED BY <1>0, <1>11, <2>3, <2>4 DEF Crash
  <1>12. CASE UNCHANGED cacheVars
    BY <1>0, <1>12 DEF cacheVars
  <1> QED
    BY <1>1, <1>3, <1>4, <1>5, <1>6, <1>7, <1>8, <1>9, <1>10, <1>11, <1>12, CacheCases

\* A new cache holds no edit.
LEMMA OnlyRealEditsInit == CacheInit => OnlyRealEdits
  BY DEF CacheInit, OnlyRealEdits, NoSnapshot, NoFile, NoLoad, NoCall

\* Edits are never undone: a commit counts up.
LEMMA EditsGrow == CacheTypeOK /\ [CacheNext]_cacheVars => edits' \in Nat /\ edits <= edits'
  <1> SUFFICES ASSUME CacheTypeOK, [CacheNext]_cacheVars PROVE edits' = edits \/ edits' = edits + 1
    BY VersionsAreNumbers
  <1> QED
    BY DEF CacheNext, cacheVars, Get, Bust, BustResume, Return, ServeRead, EndReadOk,
        EndReadFail, Edit, Tick, Crash

\* No step puts into memory, disk or a load an edit that was not made.
LEMMA OnlyRealEditsNext ==
    CacheTypeOK /\ SingleFlight /\ WaitersOnInflight /\ OnlyRealEdits /\ [CacheNext]_cacheVars
        => OnlyRealEdits'
  <1> SUFFICES ASSUME CacheTypeOK, SingleFlight, WaitersOnInflight, OnlyRealEdits,
                      [CacheNext]_cacheVars
               PROVE  OnlyRealEdits'
    OBVIOUS
  <1>1. CacheTypeOK'
    BY TypeNext
  <1>2. /\ edits' \in Nat /\ snap'.content \in Nat /\ disk'.content \in Nat
        /\ \A i \in ReadIds : reads'[i].content \in Nat
        /\ \A c \in Callers : callers'[c].since \in Nat
    BY <1>1, SMTT(30) DEF CacheTypeOK, Snapshot, File, Load, Call
  <1>3. edits \in Nat /\ edits <= edits'
    BY EditsGrow, VersionsAreNumbers
  <1>4. \A c \in Callers : callers'[c].since <= edits
    BY SinceIsNowOrBefore
  <1> QED BY <1>2, <1>3, <1>4, ContentsAreReal DEF OnlyRealEdits

-----------------------------------------------------------------------------
(* bust() gets what it promises                                            *)

\* A new cache has no load that could be older than its snapshot.
LEMMA ServedReadsInit == CacheInit => ServedReadsAreNewer
  BY DEF CacheInit, ServedReadsAreNewer, NoLoad

\* The snapshot never overtakes a load that was served.
LEMMA ServedReadsNext ==
    /\ CacheTypeOK /\ SingleFlight /\ WaitersOnInflight /\ OnlyRealEdits /\ ServedReadsAreNewer
    /\ [CacheNext]_cacheVars
    => ServedReadsAreNewer'
  <1> SUFFICES ASSUME CacheTypeOK, SingleFlight, WaitersOnInflight, OnlyRealEdits,
                      ServedReadsAreNewer, [CacheNext]_cacheVars
               PROVE  ServedReadsAreNewer'
    OBVIOUS
  <1> USE VersionsAreNumbers
  <1>1. ASSUME NEW c \in Callers, Get(c) PROVE ServedReadsAreNewer'
    <2>1. \A i \in ReadIds :
             reads'[i].phase = "served" => reads[i].phase = "served" /\ reads'[i] = reads[i]
      BY <1>1, RefreshEffect DEF Get
    <2>2. /\ callers'[c].op = "get" /\ callers'[c].pc # "resume"
          /\ \A d \in Callers \ {c} : callers'[d] = callers[d]
      <3>1. CASE Refresh(c, "get", edits)
        BY <3>1, RefreshEffect DEF CacheTypeOK
      <3>2. CASE Answered(c, "get", edits, Fresh)
        BY <3>2, AnsweredEffect
      <3> QED BY <1>1, <3>1, <3>2 DEF Get
    <2>3. snap' = snap
      BY <1>1 DEF Get
    <2> QED BY <2>1, <2>2, <2>3 DEF ServedReadsAreNewer
  <1>2. ASSUME NEW c \in Callers, NEW since, ForceRefresh(c, since),
               \A i \in ReadIds : reads[i].phase = "served" => reads[i].content >= since
        PROVE  ServedReadsAreNewer'
    <2>1. \A i \in ReadIds :
             reads'[i].phase = "served" => reads[i].phase = "served" /\ reads'[i] = reads[i]
      BY <1>2, RefreshEffect DEF ForceRefresh
    <2>2. callers'[c].since = since /\ \A d \in Callers \ {c} : callers'[d] = callers[d]
      BY <1>2, RefreshEffect DEF ForceRefresh, CacheTypeOK
    <2>3. snap'.content = snap.content
      BY <1>2 DEF ForceRefresh, CacheTypeOK, Snapshot
    <2> QED BY <1>2, <2>1, <2>2, <2>3 DEF ServedReadsAreNewer
  <1>3. ASSUME NEW c \in Callers, Bust(c) PROVE ServedReadsAreNewer'
    <2>1. CASE inflight = NoRead
      <3>1. \A i \in ReadIds : reads[i].phase = "off"
        BY <2>1 DEF SingleFlight
      <3> QED BY <1>2, <1>3, <2>1, <3>1 DEF Bust
    <2>2. CASE inflight # NoRead
      <3>1. callers'[c].pc = "prior" /\ \A d \in Callers \ {c} : callers'[d] = callers[d]
        BY <1>3, <2>2 DEF Bust, Awaiting, CacheTypeOK
      <3> QED BY <1>3, <2>2, <3>1 DEF Bust, ServedReadsAreNewer
    <2> QED BY <2>1, <2>2
  <1>4. ASSUME NEW c \in Callers, BustResume(c) PROVE ServedReadsAreNewer'
    <2>1. \A i \in ReadIds : reads[i].phase = "served" => reads[i].content >= callers[c].since
      BY <1>4 DEF BustResume, ServedReadsAreNewer
    <2> QED BY <1>2, <1>4, <2>1 DEF BustResume
  <1>5. ASSUME NEW c \in Callers, Return(c) PROVE ServedReadsAreNewer'
    BY <1>5 DEF Return, ServedReadsAreNewer, NoCall, CacheTypeOK
  <1>6. ASSUME NEW i \in ReadIds, ServeRead(i) PROVE ServedReadsAreNewer'
    <2>1. reads'[i].content = edits /\ \A j \in ReadIds \ {i} : reads'[j] = reads[j]
      BY <1>6 DEF ServeRead, CacheTypeOK, Load
    <2> QED BY <1>6, <2>1 DEF ServeRead, ServedReadsAreNewer, OnlyRealEdits
  <1>7. ASSUME NEW i \in ReadIds, EndReadOk(i) \/ EndReadFail(i) PROVE ServedReadsAreNewer'
    <2>1. \A j \in ReadIds : reads'[j].phase = "off"
      BY <1>7, LoadEndsEffect DEF EndReadOk, EndReadFail
    <2> QED BY <2>1 DEF ServedReadsAreNewer
  <1>8. CASE Edit
    BY <1>8 DEF Edit, ServedReadsAreNewer
  <1>9. CASE Tick
    <2>1. snap'.content = snap.content
      BY <1>9 DEF Tick, CacheTypeOK, Snapshot
    <2> QED BY <1>9, <2>1, TickReads DEF Tick, ServedReadsAreNewer
  <1>10. CASE Crash
    BY <1>10 DEF Crash, ServedReadsAreNewer, NoLoad
  <1>11. CASE UNCHANGED cacheVars
    BY <1>11 DEF cacheVars, ServedReadsAreNewer
  <1> QED
    BY <1>1, <1>3, <1>4, <1>5, <1>6, <1>7, <1>8, <1>9, <1>10, <1>11, CacheCases

\* Nobody was answered by a new cache.
LEMMA BustInit == CacheInit => BustYieldsLaterRead
  BY DEF CacheInit, BustYieldsLaterRead, NoCall

\* A bust is answered only by a load served after the call, whichever step answers it.
LEMMA BustNext ==
    /\ CacheTypeOK /\ SingleFlight /\ WaitersOnInflight /\ ServedReadsAreNewer
    /\ BustYieldsLaterRead /\ [CacheNext]_cacheVars
    => BustYieldsLaterRead'
  <1> SUFFICES ASSUME CacheTypeOK, SingleFlight, WaitersOnInflight, ServedReadsAreNewer,
                      BustYieldsLaterRead, [CacheNext]_cacheVars
               PROVE  BustYieldsLaterRead'
    OBVIOUS
  <1>1. ASSUME NEW c \in Callers, NEW op, NEW since, Refresh(c, op, since)
        PROVE  BustYieldsLaterRead'
    BY <1>1, RefreshEffect DEF BustYieldsLaterRead, CacheTypeOK
  <1>2. ASSUME NEW c \in Callers, Get(c) PROVE BustYieldsLaterRead'
    <2>1. CASE Answered(c, "get", edits, Fresh)
      BY <2>1, AnsweredEffect DEF BustYieldsLaterRead
    <2> QED BY <1>1, <1>2, <2>1 DEF Get
  <1>3. ASSUME NEW c \in Callers, Bust(c) PROVE BustYieldsLaterRead'
    <2>1. CASE Awaiting(c, "bust", edits, "prior", inflight)
      BY <2>1 DEF Awaiting, BustYieldsLaterRead, CacheTypeOK
    <2> QED BY <1>1, <1>3, <2>1 DEF Bust, ForceRefresh
  <1>4. ASSUME NEW c \in Callers, BustResume(c) PROVE BustYieldsLaterRead'
    BY <1>1, <1>4 DEF BustResume, ForceRefresh
  <1>5. ASSUME NEW c \in Callers, Return(c) PROVE BustYieldsLaterRead'
    BY <1>5 DEF Return, BustYieldsLaterRead, NoCall, CacheTypeOK
  <1>6. ASSUME NEW i \in ReadIds, NEW s, NEW ok, LoadEnds(i), reads[i].phase # "off",
               callers' = Released(i, s, ok),
               ok = TRUE => reads[i].phase = "served" /\ s.content = reads[i].content
        PROVE  BustYieldsLaterRead'
    <2> SUFFICES ASSUME NEW c \in Callers, callers'[c].pc = "served", callers'[c].op = "bust",
                        callers'[c].ok = TRUE
                 PROVE  callers'[c].got >= callers'[c].since
      BY DEF BustYieldsLaterRead
    <2>1. inflight = i
      BY <1>6, LoadEndsEffect
    <2>2. CASE callers[c].pc = "joined"
      <3>1. callers'[c].got = s.content /\ ok = TRUE /\ callers[c].op = "bust"
             /\ callers'[c].since = callers[c].since
        BY <1>6, <2>1, <2>2, ReleasedEffect
      <3> QED BY <1>6, <2>2, <3>1 DEF ServedReadsAreNewer
    <2>3. CASE callers[c].pc # "joined"
      <3>1. callers[c].pc # "prior"
        BY <1>6, <2>1, ReleasedEffect
      <3>2. callers'[c] = callers[c]
        BY <1>6, <2>1, <2>3, <3>1, ReleasedEffect
      <3> QED BY <3>2 DEF BustYieldsLaterRead
    <2> QED BY <2>2, <2>3
  <1>7. ASSUME NEW i \in ReadIds, EndReadOk(i) PROVE BustYieldsLaterRead'
    <2>1. snap'.content = reads[i].content
      BY <1>7 DEF EndReadOk
    <2> QED BY <1>6, <1>7, <2>1 DEF EndReadOk
  <1>8. ASSUME NEW i \in ReadIds, EndReadFail(i) PROVE BustYieldsLaterRead'
    BY <1>6, <1>8 DEF EndReadFail
  <1>9. ASSUME UNCHANGED callers PROVE BustYieldsLaterRead'
    BY <1>9 DEF BustYieldsLaterRead
  <1>10. CASE Crash
    BY <1>10 DEF Crash, BustYieldsLaterRead, NoCall
  <1> QED
    BY <1>2, <1>3, <1>4, <1>5, <1>7, <1>8, <1>9, <1>10, CacheCases
    DEF ServeRead, Edit, Tick, cacheVars

-----------------------------------------------------------------------------
(* how stale a fresh snapshot can be                                       *)

\* No edit is made before the first state.
LEMMA YoungInit == CacheInit => MissingEditsAreYoung
  BY DEF CacheInit, MissingEditsAreYoung

\* An edit the snapshot or a served load lacks stays young against the age of that read.
LEMMA YoungNext ==
    CacheTypeOK /\ SingleFlight /\ OnlyRealEdits /\ MissingEditsAreYoung /\ [CacheNext]_cacheVars
        => MissingEditsAreYoung'
  <1> SUFFICES ASSUME CacheTypeOK, SingleFlight, OnlyRealEdits, MissingEditsAreYoung,
                      [CacheNext]_cacheVars
               PROVE  MissingEditsAreYoung'
    OBVIOUS
  <1> USE VersionsAreNumbers
  <1>0. /\ snap.age \in Age /\ edits \in Version
        /\ \A e \in 1..edits : editAge[e] \in Age
        /\ \A i \in ReadIds : reads[i].age \in 0..ReadLimit
    BY DEF CacheTypeOK, Snapshot, Load
  <1>1. ASSUME UNCHANGED <<edits, editAge>>,
               snap'.content = snap.content, snap'.age = snap.age \/ snap'.age = AgeCap,
               \A i \in ReadIds : reads'[i].phase = "served" => reads[i].phase = "served" /\ reads'[i] = reads[i]
        PROVE  MissingEditsAreYoung'
    BY <1>0, <1>1 DEF MissingEditsAreYoung
  <1>2. ASSUME NEW c \in Callers, Get(c) PROVE MissingEditsAreYoung'
    BY <1>1, <1>2, RefreshEffect DEF Get
  <1>3. ASSUME NEW c \in Callers, Bust(c) \/ BustResume(c) PROVE MissingEditsAreYoung'
    <2>1. snap'.content = snap.content /\ (snap'.age = snap.age \/ snap'.age = AgeCap)
      BY <1>3 DEF Bust, BustResume, ForceRefresh, CacheTypeOK, Snapshot
    <2>2. \A i \in ReadIds : reads'[i].phase = "served" => reads[i].phase = "served" /\ reads'[i] = reads[i]
      BY <1>3, RefreshEffect DEF Bust, BustResume, ForceRefresh
    <2> QED BY <1>1, <1>3, <2>1, <2>2 DEF Bust, BustResume
  <1>4. ASSUME NEW i \in ReadIds, ServeRead(i) PROVE MissingEditsAreYoung'
    <2>1. reads'[i].content = edits /\ \A j \in ReadIds \ {i} : reads'[j] = reads[j]
      BY <1>4 DEF ServeRead, CacheTypeOK, Load
    <2>2. UNCHANGED <<edits, editAge, snap>>
      BY <1>4 DEF ServeRead
    <2>3. \A e \in 1..edits : e > reads'[i].content => FALSE
      BY <1>0, <2>1
    <2>4. \A e \in 1..edits : \A j \in ReadIds :
            reads'[j].phase = "served" /\ e > reads'[j].content => editAge[e] <= reads'[j].age
      BY <2>1, <2>3 DEF MissingEditsAreYoung
    <2> QED BY <2>2, <2>4 DEF MissingEditsAreYoung
  <1>5. ASSUME NEW i \in ReadIds, EndReadOk(i) PROVE MissingEditsAreYoung'
    <2>1. \A j \in ReadIds : reads'[j].phase = "off"
      BY <1>5, LoadEndsEffect DEF EndReadOk
    <2>2. snap'.content = reads[i].content /\ snap'.age = 0 /\ reads[i].phase = "served"
      BY <1>5 DEF EndReadOk
    <2> QED BY <1>0, <1>5, <2>1, <2>2 DEF EndReadOk, MissingEditsAreYoung
  <1>6. ASSUME NEW i \in ReadIds, EndReadFail(i) PROVE MissingEditsAreYoung'
    <2>1. \A j \in ReadIds : reads'[j].phase = "off"
      BY <1>6, LoadEndsEffect DEF EndReadFail
    <2> QED BY <1>6, <2>1 DEF EndReadFail, MissingEditsAreYoung
  <1>7. CASE Edit
    <2>1. editAge'[edits + 1] = 0 /\ \A e \in 1..edits : editAge'[e] = editAge[e]
      BY <1>7 DEF Edit, CacheTypeOK
    <2> QED BY <1>0, <1>7, <2>1 DEF Edit, MissingEditsAreYoung
  <1>8. CASE Tick
    <2>1. snap'.content = snap.content /\ snap'.age = Older(snap.age)
      BY <1>8 DEF Tick, CacheTypeOK, Snapshot
    <2>2. \A e \in 1..edits : editAge'[e] = Older(editAge[e])
      BY <1>8 DEF Tick, CacheTypeOK
    <2>3. \A i \in ReadIds : reads'[i].phase = reads[i].phase /\ reads'[i].content = reads[i].content
                             /\ (reads[i].phase = "served" => reads'[i].age = reads[i].age + 1)
      BY <1>8, TickReads
    <2>4. edits' = edits
      BY <1>8 DEF Tick
    <2>5. \A e \in 1..edits : e > snap'.content => editAge'[e] <= snap'.age + ReadLimit
      BY <1>0, <2>1, <2>2 DEF MissingEditsAreYoung, Older
    <2>6. \A e \in 1..edits : \A i \in ReadIds :
            reads'[i].phase = "served" /\ e > reads'[i].content => editAge'[e] <= reads'[i].age
      BY <1>0, <2>2, <2>3 DEF MissingEditsAreYoung, Older
    <2> QED BY <2>4, <2>5, <2>6 DEF MissingEditsAreYoung
  <1>9. CASE Crash
    <2>0. NoSnapshot.age = AgeCap /\ Restored.age = AgeCap
      BY DEF NoSnapshot, Restored
    <2>1. snap'.age = AgeCap
      BY <1>9, <2>0 DEF Crash
    <2>2. \A j \in ReadIds : reads'[j].phase = "off"
      BY <1>9 DEF Crash, NoLoad
    <2> QED BY <1>0, <1>9, <2>1, <2>2 DEF Crash, MissingEditsAreYoung
  <1>10. ASSUME UNCHANGED <<edits, editAge, snap, reads>> PROVE MissingEditsAreYoung'
    BY <1>10 DEF MissingEditsAreYoung
  <1> QED
    BY <1>2, <1>3, <1>4, <1>5, <1>6, <1>7, <1>8, <1>9, <1>10, CacheCases DEF Return, cacheVars

-----------------------------------------------------------------------------
(* the theorems                                                            *)

\* The inductive invariant of cache.ts: types, one load at a time, its waiters, and how
\* the contents of sheet, load, memory and disk are ordered. The promises below follow from it.
THEOREM CacheInvHolds == CacheSpec => []CacheInv
  <1>1. CacheInit => CacheInv
    BY TypeInit, SingleFlightInit, WaitersInit, OnlyRealEditsInit, ServedReadsInit, BustInit,
       YoungInit DEF CacheInv
  <1>2. CacheInv /\ [CacheNext]_cacheVars => CacheInv'
    BY TypeNext, SingleFlightNext, WaitersNext, OnlyRealEditsNext, ServedReadsNext, BustNext,
       YoungNext DEF CacheInv
  <1> QED BY <1>1, <1>2, PTL DEF CacheSpec

\* A bust() that succeeds contains every edit made before the call.
THEOREM BustYieldsLaterReadHolds == CacheSpec => []BustYieldsLaterRead
  BY CacheInvHolds, PTL DEF CacheInv

\* What a cache hit serves lacks no edit older than Ttl + ReadLimit.
THEOREM StalenessBoundHolds == CacheSpec => []StalenessBound
  <1>1. CacheInv => StalenessBound
    <2> SUFFICES ASSUME CacheInv, Fresh, NEW e \in 1..edits, editAge[e] >= Ttl + ReadLimit,
                        e > snap.content
                 PROVE  FALSE
      BY DEF StalenessBound, CacheInv, CacheTypeOK, Snapshot
    <2>1. editAge[e] \in Age /\ snap.age \in Age
      BY DEF CacheInv, CacheTypeOK, Snapshot
    <2>2. editAge[e] <= snap.age + ReadLimit /\ snap.age < Ttl
      BY DEF CacheInv, MissingEditsAreYoung, Fresh
    <2> QED BY <2>1, <2>2
  <1> QED BY <1>1, CacheInvHolds, PTL

\* Between restarts the snapshot is never lost and its content never goes back.
THEOREM ContentNeverGoesBackHolds == CacheSpec => ContentNeverGoesBack
  <1> DEFINE Forward == crashes' = crashes /\ snap.loaded => snap'.loaded /\ snap'.content >= snap.content
  <1>1. CacheInv /\ [CacheNext]_cacheVars => [Forward]_cacheVars
    <2> SUFFICES ASSUME CacheInv, [CacheNext]_cacheVars PROVE Forward
      OBVIOUS
    <2>0. CacheTypeOK /\ snap.content \in Nat
      BY VersionsAreNumbers DEF CacheInv
    <2>1. ASSUME NEW i \in ReadIds, EndReadOk(i) PROVE Forward
      BY <2>1 DEF EndReadOk, CacheInv, ServedReadsAreNewer
    <2>2. ASSUME NEW c \in Callers, Bust(c) \/ BustResume(c) PROVE Forward
      BY <2>0, <2>2, SMTT(30) DEF Bust, BustResume, ForceRefresh, CacheTypeOK, Snapshot
    <2>3. CASE Tick
      BY <2>0, <2>3 DEF Tick, CacheTypeOK, Snapshot
    <2>4. CASE Crash
      <3>1. crashes' # crashes
        BY <2>0, <2>4 DEF Crash, CacheTypeOK
      <3> QED BY <3>1
    <2>5. ASSUME UNCHANGED snap PROVE Forward
      BY <2>0, <2>5
    <2> QED BY <2>1, <2>2, <2>3, <2>4, <2>5, CacheCases
            DEF Get, Return, ServeRead, EndReadFail, Edit, cacheVars
  <1> QED BY <1>1, CacheInvHolds, PTL DEF CacheSpec, ContentNeverGoesBack

\* Once there is a snapshot, no call is rejected.
THEOREM NeverBlankAgainHolds == CacheSpec => NeverBlankAgain
  <1> DEFINE Served == \A c \in Callers :
                  callers'[c].pc = "failed" /\ callers[c].pc # "failed" => ~snap.loaded
  <1>1. CacheInv /\ [CacheNext]_cacheVars => [Served]_cacheVars
    <2> SUFFICES ASSUME CacheInv, [CacheNext]_cacheVars PROVE Served
      OBVIOUS
    <2>0. CacheTypeOK /\ SingleFlight /\ WaitersOnInflight
      BY DEF CacheInv
    <2>1. ASSUME NEW d \in Callers, NEW op, NEW since, Refresh(d, op, since) PROVE Served
      BY <2>0, <2>1, RefreshEffect DEF CacheTypeOK
    <2>2. ASSUME NEW d \in Callers, Get(d) PROVE Served
      <3>1. CASE Answered(d, "get", edits, Fresh)
        BY <2>0, <3>1, AnsweredEffect
      <3> QED BY <2>1, <2>2, <3>1 DEF Get
    <2>3. ASSUME NEW d \in Callers, Bust(d) PROVE Served
      <3>1. CASE Awaiting(d, "bust", edits, "prior", inflight)
        BY <2>0, <3>1 DEF Awaiting, CacheTypeOK
      <3> QED BY <2>1, <2>3, <3>1 DEF Bust, ForceRefresh
    <2>4. ASSUME NEW d \in Callers, BustResume(d) PROVE Served
      BY <2>1, <2>4 DEF BustResume, ForceRefresh
    <2>5. ASSUME NEW d \in Callers, Return(d) PROVE Served
      BY <2>0, <2>5 DEF Return, NoCall, CacheTypeOK
    <2>6. ASSUME NEW i \in ReadIds, NEW s, NEW ok, inflight = i, callers' = Released(i, s, ok),
                 snap.loaded => s.loaded
          PROVE  Served
      <3> SUFFICES ASSUME NEW c \in Callers, callers'[c].pc = "failed", callers[c].pc # "failed",
                          snap.loaded
                   PROVE  FALSE
        OBVIOUS
      <3>1. callers[c].pc \in {"joined", "prior"}
        BY <2>0, <2>6, ReleasedEffect
      <3> QED BY <2>0, <2>6, <3>1, ReleasedEffect
    <2>7. ASSUME NEW i \in ReadIds, EndReadOk(i) PROVE Served
      <3>1. inflight = i /\ snap'.loaded
        BY <2>0, <2>7, LoadEndsEffect DEF EndReadOk
      <3> QED BY <2>6, <2>7, <3>1 DEF EndReadOk
    <2>8. ASSUME NEW i \in ReadIds, EndReadFail(i) PROVE Served
      <3>1. inflight = i
        BY <2>0, <2>8, LoadEndsEffect DEF EndReadFail
      <3> QED BY <2>6, <2>8, <3>1 DEF EndReadFail
    <2>9. CASE Crash
      BY <2>9 DEF Crash, NoCall
    <2>10. ASSUME UNCHANGED callers PROVE Served
      BY <2>10
    <2> QED BY <2>2, <2>3, <2>4, <2>5, <2>7, <2>8, <2>9, <2>10, CacheCases
            DEF ServeRead, Edit, Tick, cacheVars
  <1> QED BY <1>1, CacheInvHolds, PTL DEF CacheSpec, NeverBlankAgain

-----------------------------------------------------------------------------
(* The monitor                                                             *)

States == {"ok", "bad"}

\* What the owner takes the site to be, from the last mail: before the first one, well.
Said == IF told = "nothing" THEN "ok" ELSE told

\* The state that is on record, or is about to be.
OnRecord == IF run.at = "record" THEN run.state ELSE lastState

\* The mailbox and the script's record say the same, through any restarts of the site, runs by hand
\* and runs cut short: unless a run ended between its mail and its record, the next change is told
\* (health-monitor.gs checkHealth).
MailKeepsRecord == ~misled => Said = OnRecord

Runs == {NoRun} \cup [at : {"attempt", "problems"}, n : 0..1] \cup [at : {"decided", "record"}, state : States]

MonitorTypeOK == lastState \in States /\ told \in States \cup {"nothing"} /\ run \in Runs

MonitorInv == MonitorTypeOK /\ MailKeepsRecord

\* Where a run can be, and what it knows there.
LEMMA RunsAt ==
    ASSUME NEW r \in Runs
    PROVE  /\ r.at \in {"none", "attempt", "problems", "decided", "record"} /\ (r.at = "none" => r = NoRun)
           /\ r.at \in {"attempt", "problems"} => r.n \in 0..1
           /\ r.at \in {"decided", "record"} => r = [at |-> r.at, state |-> r.state] /\ r.state \in States
  BY DEF Runs, NoRun

\* Before the first run nothing is told and nothing is wrong.
LEMMA MonitorInitInv == WatchInit => MonitorInv
  BY DEF WatchInit, MonitorInv, MonitorTypeOK, MailKeepsRecord, Said, OnRecord, States, NoRun, Runs

\* A step that leaves the mail and the record alone, and is not about to write the record, keeps both
\* in agreement.
LEMMA MonitorKept ==
    ASSUME MonitorInv, UNCHANGED <<lastState, told, misled>>,
           run.at # "record" \/ run.state = lastState, run' \in Runs, run' = run \/ run'.at # "record"
    PROVE  MonitorInv'
  BY DEF MonitorInv, MonitorTypeOK, MailKeepsRecord, Said, OnRecord

\* A step of the site is none of the script's.
LEMMA SiteInv == MonitorInv /\ UNCHANGED <<lastState, told, misled, run>> => MonitorInv'
  BY DEF MonitorInv, MonitorTypeOK, MailKeepsRecord, Said, OnRecord

\* The answer of the site, or that there is none.
LEMMA FetchInv == MonitorInv /\ fetchHealth => MonitorInv'
  <1> SUFFICES ASSUME MonitorInv, fetchHealth PROVE MonitorInv'
    OBVIOUS
  <1>1. run.at = "attempt" /\ run.n \in 0..1 /\ UNCHANGED <<lastState, told, misled>>
    BY RunsAt DEF fetchHealth, MonitorInv, MonitorTypeOK
  <1>2. run' = [at |-> "problems", n |-> run.n] \/ run' = [at |-> "decided", state |-> "ok"]
    <2>1. CASE Broken("away")
      BY <2>1 DEF fetchHealth
    <2>2. CASE ~Broken("away")
      <3>1. problemsFor
        BY <2>2 DEF fetchHealth
      <3> QED
        BY <3>1, Zenon DEF problemsFor
    <2> QED
      BY <2>1, <2>2
  <1>3. run' \in Runs /\ run'.at # "record"
    BY <1>1, <1>2 DEF Runs, States
  <1> QED
    BY <1>1, <1>3, MonitorKept

\* The mail tells a change of state, and only a change.
LEMMA MailInv == MonitorInv /\ Mail => MonitorInv'
  <1> SUFFICES ASSUME MonitorInv, Mail PROVE MonitorInv'
    OBVIOUS
  <1>1. PICK s \in States : run = [at |-> "decided", state |-> s]
    BY RunsAt DEF Mail, MonitorInv, MonitorTypeOK
  <1>2. run' = [at |-> "record", state |-> s] /\ UNCHANGED <<lastState, misled>>
    BY <1>1 DEF Mail
  <1>3. told' = IF s # lastState THEN s ELSE told
    BY <1>1 DEF Mail
  <1> QED
    BY <1>1, <1>2, <1>3 DEF MonitorInv, MonitorTypeOK, MailKeepsRecord, Said, OnRecord, States, Runs

\* The record is what was told.
LEMMA RecordInv == MonitorInv /\ Record => MonitorInv'
  <1> SUFFICES ASSUME MonitorInv, Record PROVE MonitorInv'
    OBVIOUS
  <1>1. PICK s \in States : run = [at |-> "record", state |-> s]
    BY RunsAt DEF Record, MonitorInv, MonitorTypeOK
  <1>2. run' = NoRun /\ lastState' = s /\ UNCHANGED <<told, misled>>
    BY <1>1 DEF Record
  <1> QED
    BY <1>1, <1>2 DEF MonitorInv, MonitorTypeOK, MailKeepsRecord, Said, OnRecord, States, Runs, NoRun

\* A run that is cut short while it records a change is the exception.
LEMMA CutInv == MonitorInv /\ Cut => MonitorInv'
  <1> SUFFICES ASSUME MonitorInv, Cut PROVE MonitorInv'
    OBVIOUS
  <1>1. run' = NoRun /\ UNCHANGED <<lastState, told>> /\ NoRun \in Runs /\ NoRun.at # "record"
    BY DEF Cut, Runs, NoRun
  <1>2. CASE run.at = "record" /\ run.state # lastState
    <2>1. misled'
      BY <1>2 DEF Cut
    <2> QED
      BY <1>1, <2>1 DEF MonitorInv, MonitorTypeOK, MailKeepsRecord
  <1>3. CASE ~(run.at = "record" /\ run.state # lastState)
    <2>1. misled' <=> misled
      BY <1>3 DEF Cut
    <2> QED
      BY <1>1, <1>3, <2>1 DEF MonitorInv, MonitorTypeOK, MailKeepsRecord, Said, OnRecord
  <1> QED
    BY <1>2, <1>3

\* No step parts the mail and the record.
LEMMA MonitorInvNext == MonitorInv /\ [WatchNext]_watchVars => MonitorInv'
  <1> SUFFICES ASSUME MonitorInv, [WatchNext]_watchVars PROVE MonitorInv'
    OBVIOUS
  <1>1. CASE Turn \/ Minutes \/ Reboot \/ loadCatalogue \/ sweepPhotos \/ UNCHANGED watchVars
    <2>1. UNCHANGED <<lastState, told, misled, run>>
      BY <1>1 DEF Turn, Minutes, Reboot, loadCatalogue, sweepPhotos, watchVars, scriptVars
    <2> QED
      BY <2>1, SiteInv
  <1>2. CASE Scheduled \/ ByHand
    <2>1. run.at # "record" /\ run' \in Runs /\ run'.at # "record" /\ UNCHANGED <<lastState, told, misled>>
      <3>1. Start
        BY <1>2 DEF Scheduled, ByHand
      <3> QED
        BY <3>1 DEF Start, Runs, NoRun
    <2> QED
      BY <2>1, MonitorKept
  <1>3. CASE Again
    <2>1. run.at # "record" /\ UNCHANGED <<lastState, told, misled>>
          /\ run' = (IF run.n = 0 THEN [at |-> "attempt", n |-> 1] ELSE [at |-> "decided", state |-> "bad"])
      BY <1>3 DEF Again
    <2>2. run' \in Runs /\ run'.at # "record"
      BY <2>1 DEF Runs, States
    <2> QED
      BY <2>1, <2>2, MonitorKept
  <1> QED
    BY <1>1, <1>2, <1>3, FetchInv, MailInv, RecordInv, CutInv DEF WatchNext, checkHealth

\* The mailbox and the record of the monitor agree: for any faults, and any number of restarts and of
\* runs cut short.
THEOREM MailKeepsRecordHolds == WatchSpec => []MailKeepsRecord
  <1>1. MonitorInv => MailKeepsRecord
    BY DEF MonitorInv
  <1> QED
    BY <1>1, MonitorInitInv, MonitorInvNext, PTL DEF WatchSpec
=============================================================================
