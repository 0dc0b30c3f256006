-------------------------- MODULE AdminSheetProofs --------------------------
(***************************************************************************)
(* What the lock of the admin buys, for any editors, tabs, rows and ids:   *)
(* the requests use the lock as AsyncMutex allows, so one of them holds it *)
(* at a time; only a holder has checked its row and only a holder writes,  *)
(* so what was checked is still so when it is written. Then what the edits *)
(* do to the sheet: its types, that customer codes stay unique, and that   *)
(* no edit is lost to somebody who had not seen it. A job carries the row  *)
(* its editor has on screen, which is still there when the job is written, *)
(* so what each kind of job makes of the rows of its tab settles           *)
(* everything. Last, the page of collections, which replaces nothing it    *)
(* did not show, and whose audit tells what is in the tab.                 *)
(***************************************************************************)
EXTENDS AdminSheet, CollectionsDesk, AsyncMutexProofs, SequenceTheorems, FiniteSetTheorems, WellFoundedInduction

-----------------------------------------------------------------------------
(* The lock                                                                *)

ControlOK ==
    /\ pc \in [Requests -> {"idle", "queued", "checked", "detach"}]
    /\ DOMAIN job = Requests

CheckedHolds == \A r \in Requests : pc[r] = "checked" => Holds(r)

AdminInv == LockInv /\ ControlOK /\ CheckedHolds /\ CheckedStillThere

-----------------------------------------------------------------------------
(* every step of a request is a step of the lock or leaves it alone        *)

\* A decision reads: it asks for a write, joins the queue of the lock and leaves the tabs alone.
LEMMA DecideAsks ==
  ASSUME NEW r \in Requests, Decide(r)
  PROVE  Run(r) /\ sheet' = sheet /\ pc' = [pc EXCEPT ![r] = "queued"] /\ \E j : job' = [job EXCEPT ![r] = j]
<1>1. ASSUME NEW j, Ask(r, j)
      PROVE  Run(r) /\ sheet' = sheet /\ pc' = [pc EXCEPT ![r] = "queued"]
             /\ \E i : job' = [job EXCEPT ![r] = i]
  BY <1>1 DEF Ask
<1>2. CASE RugCreate(r)
  BY <1>1, <1>2 DEF RugCreate
<1>3. CASE RugUpdate(r)
  BY <1>1, <1>3 DEF RugUpdate
<1>4. CASE RowDelete(r)
  BY <1>1, <1>4 DEF RowDelete
<1>5. CASE CollectionCreate(r)
  BY <1>1, <1>5 DEF CollectionCreate
<1>6. CASE CollectionUpdate(r)
  BY <1>1, <1>6 DEF CollectionUpdate
<1>7. CASE CollectionDelete(r)
  BY <1>1, <1>7 DEF CollectionDelete
<1>8. CASE ClientCreate(r)
  BY <1>1, <1>8 DEF ClientCreate
<1>9. CASE ClientUpdate(r)
  BY <1>1, <1>9 DEF ClientUpdate
<1> QED
  BY <1>2, <1>3, <1>4, <1>5, <1>6, <1>7, <1>8, <1>9 DEF Decide

\* Every step of an endpoint is a call of run(), a release, or nothing to the lock.
LEMMA StepOfLock == [AdminNext]_adminVars => [LockNext]_lockVars
<1> SUFFICES ASSUME NEW r \in Requests, Browse(r) \/ Decide(r) \/ Work(r)
             PROVE  [LockNext]_lockVars
  BY DEF AdminNext, adminVars, lockVars
<1>1. CASE Browse(r)
  BY <1>1 DEF Browse, Open, Close
<1>2. CASE Decide(r)
  BY <1>2, DecideAsks DEF LockNext
<1>3. CASE Work(r)
  BY <1>3 DEF Work, Recheck, RecheckFails, Commit, CommitFails, Detach, LockNext
<1> QED
  BY <1>1, <1>2, <1>3

\* The admin uses the lock as AsyncMutex specifies.
THEOREM AdminImplementsLock == AdminSpec => LockSpec
<1>1. AdminInit => LockInit
  BY DEF AdminInit
<1> QED
  BY <1>1, StepOfLock, PTL DEF AdminSpec, LockSpec

-----------------------------------------------------------------------------
(* what one step may do to a request that has checked its row              *)

\* Request s is as it was, and so is the sheet.
Untouched(s) == sheet' = sheet /\ pc'[s] = pc[s] /\ job'[s] = job[s]

\* A step that leaves the tabs and a compared request alone leaves its comparison true.
LEMMA CheckedUntouched ==
  ASSUME AdminInv, NEW s \in Requests, Untouched(s), pc'[s] = "checked"
  PROVE  StillThere(job[s])'
<1>1. StillThere(job[s])
  BY DEF AdminInv, CheckedStillThere, Untouched
<1> QED
  BY <1>1 DEF Untouched, StillThere, IdsOf

\* While r holds the lock, nobody else has checked a row.
LEMMA OthersNotChecked ==
  ASSUME AdminInv, NEW r \in Requests, Holds(r), NEW s \in Requests, pc[s] = "checked"
  PROVE  s = r
<1>1. Holds(s)
  BY DEF AdminInv, CheckedHolds
<1> QED
  BY <1>1, HolderIsAlone DEF AdminInv, LockExclusive

\* A new caller joins behind: who is under the lock stays there.
LEMMA RunKeepsHolder ==
  ASSUME LockInv, NEW r \in Requests, Run(r), NEW s \in Requests, Holds(s)
  PROVE  Holds(s)'
  BY DEF LockInv, LockTypeOK, Run, Holds, Queued

\* No step of an endpoint breaks the invariant.
LEMMA AdminInvStep ==
  ASSUME AdminInv, [AdminNext]_adminVars
  PROVE  AdminInv'
<1>1. LockInv'
  BY StepOfLock, LockInvNext DEF AdminInv
<1>2. SUFFICES ControlOK' /\ \A s \in Requests : pc'[s] = "checked" => Holds(s)' /\ StillThere(job[s])'
  BY <1>1 DEF AdminInv, CheckedHolds, CheckedStillThere
<1>3. CASE UNCHANGED adminVars
  <2>1. \A s \in Requests : Untouched(s) /\ (Holds(s) => Holds(s)')
    BY <1>3 DEF adminVars, lockVars, Untouched, Holds, Queued
  <2>2. ControlOK'
    BY <1>3 DEF adminVars, AdminInv, ControlOK
  <2> QED
    BY <2>1, <2>2, CheckedUntouched DEF AdminInv, CheckedHolds, Untouched
<1>4. ASSUME NEW r \in Requests, Browse(r)
      PROVE  ControlOK' /\ \A s \in Requests : pc'[s] = "checked" => Holds(s)' /\ StillThere(job[s])'
  <2>1. \A s \in Requests : Untouched(s) /\ (Holds(s) => Holds(s)')
    BY <1>4 DEF Browse, Open, Close, lockVars, Untouched, Holds, Queued
  <2>2. ControlOK'
    BY <1>4 DEF Browse, Open, Close, AdminInv, ControlOK
  <2> QED
    BY <2>1, <2>2, CheckedUntouched DEF AdminInv, CheckedHolds, Untouched
<1>5. ASSUME NEW r \in Requests, Decide(r) \/ Detach(r)
      PROVE  ControlOK' /\ \A s \in Requests : pc'[s] = "checked" => Holds(s)' /\ StillThere(job[s])'
  <2>1. /\ Run(r) /\ sheet' = sheet /\ pc' = [pc EXCEPT ![r] = "queued"]
        /\ \E j : job' = [job EXCEPT ![r] = j]
    BY <1>5, DecideAsks DEF Detach
  <2>2. ControlOK'
    BY <2>1 DEF AdminInv, ControlOK
  <2>3. \A s \in Requests : pc'[s] = "checked" => Untouched(s)
    BY <2>1 DEF AdminInv, ControlOK, Untouched
  <2> QED
    BY <2>1, <2>2, <2>3, RunKeepsHolder, CheckedUntouched DEF AdminInv, CheckedHolds, Untouched
<1>6. ASSUME NEW r \in Requests, Recheck(r)
      PROVE  ControlOK' /\ \A s \in Requests : pc'[s] = "checked" => Holds(s)' /\ StillThere(job[s])'
  <2>1. ControlOK'
    BY <1>6 DEF Recheck, AdminInv, ControlOK
  <2>2. StillThere(job[r])' /\ Holds(r)'
    BY <1>6 DEF Recheck, StillThere, IdsOf, lockVars, Holds, Queued
  <2>3. \A s \in Requests : pc'[s] = "checked" => s = r
    BY <1>6, OthersNotChecked DEF Recheck, AdminInv, ControlOK
  <2> QED
    BY <2>1, <2>2, <2>3
<1>7. ASSUME NEW r \in Requests, RecheckFails(r) \/ Commit(r) \/ CommitFails(r)
      PROVE  ControlOK' /\ \A s \in Requests : pc'[s] = "checked" => Holds(s)' /\ StillThere(job[s])'
  <2>1. Holds(r)
    BY <1>7 DEF RecheckFails, Commit, CommitFails, Release
  <2>2. ControlOK' /\ pc'[r] # "checked" /\ \A s \in Requests \ {r} : pc'[s] = pc[s]
    BY <1>7 DEF RecheckFails, Commit, CommitFails, Answered, AdminInv, ControlOK
  <2>3. \A s \in Requests : pc'[s] # "checked"
    BY <2>1, <2>2, OthersNotChecked
  <2> QED
    BY <2>2, <2>3
<1> QED
  BY <1>3, <1>4, <1>5, <1>6, <1>7 DEF AdminNext, Work

\* The invariant holds before the first request.
LEMMA AdminInitInv == AdminInit => AdminInv
<1> SUFFICES ASSUME AdminInit
             PROVE  AdminInv
  OBVIOUS
<1>1. LockInv
  BY LockInitInv DEF AdminInit
<1>2. ControlOK /\ \A r \in Requests : pc[r] # "checked"
  BY DEF AdminInit, ControlOK
<1> QED
  BY <1>1, <1>2 DEF AdminInv, CheckedHolds, CheckedStillThere

-----------------------------------------------------------------------------
\* The control of the requests and the lock agree in every reachable state.
THEOREM AdminInvHolds == AdminSpec => []AdminInv
  BY AdminInitInv, AdminInvStep, PTL DEF AdminSpec

\* Between the re-read and the batch, the rows a request is about to write do not change.
THEOREM CheckedStillThereHolds == AdminSpec => []CheckedStillThere
<1>1. AdminInv => CheckedStillThere
  BY DEF AdminInv
<1> QED
  BY <1>1, AdminInvHolds, PTL

\* At most one request of the admin is under the lock.
THEOREM AdminLockExclusive == AdminSpec => []LockExclusive
  BY AdminImplementsLock, LockExclusiveHolds, PTL

\* While a request is not answered, one can go on: the one whose turn it is under the lock, or a
\* cascade that is to ask for it (admin/lock.ts, collections/[id]/delete.ts).
NeverStuck ==
    (\E r \in Requests : ~Idle(r)) =>
        \E r \in Requests : pc[r] = "detach" \/ (pc[r] \in {"queued", "checked"} /\ Holds(r))

\* Who has a place in the queue is at work on it.
InQueue == \A r \in Requests : Queued(r) <=> pc[r] \in {"queued", "checked"}

\* No step of an endpoint gives up its place without its answer.
LEMMA InQueueStep == AdminInv /\ InQueue /\ [AdminNext]_adminVars => InQueue'
<1> SUFFICES ASSUME AdminInv, InQueue, [AdminNext]_adminVars
             PROVE  InQueue'
  OBVIOUS
<1>0. tail \in Nat /\ DOMAIN ticket = Requests /\ DOMAIN pc = Requests
  BY DEF AdminInv, LockInv, LockTypeOK, ControlOK
<1>1. CASE UNCHANGED adminVars
  BY <1>1 DEF adminVars, lockVars, InQueue, Queued
<1>2. ASSUME NEW r \in Requests, Browse(r)
      PROVE  InQueue'
  BY <1>2 DEF Browse, Open, Close, lockVars, InQueue, Queued
<1>3. ASSUME NEW r \in Requests, Decide(r) \/ Detach(r)
      PROVE  InQueue'
  <2>1. Run(r) /\ pc' = [pc EXCEPT ![r] = "queued"]
    BY <1>3, DecideAsks DEF Detach
  <2> QED
    BY <1>0, <2>1 DEF Run, InQueue, Queued
<1>4. ASSUME NEW r \in Requests, Recheck(r)
      PROVE  InQueue'
  BY <1>0, <1>4 DEF Recheck, lockVars, InQueue, Queued
<1>5. ASSUME NEW r \in Requests, RecheckFails(r) \/ Commit(r) \/ CommitFails(r)
      PROVE  InQueue'
  <2>1. Release(r) /\ \E at \in {"idle", "detach"} : pc' = [pc EXCEPT ![r] = at]
    BY <1>5 DEF RecheckFails, Commit, CommitFails, Answered
  <2> QED
    BY <1>0, <2>1 DEF Release, InQueue, Queued
<1> QED
  BY <1>1, <1>2, <1>3, <1>4, <1>5 DEF AdminNext, Work

\* No request of the admin waits for a lock that nobody will give back: for any sheet and any requests.
THEOREM NeverStuckHolds == AdminSpec => []NeverStuck
<1>1. AdminInit => InQueue
  BY DEF AdminInit, LockInit, InQueue, Queued
<1>2. AdminInv /\ InQueue /\ LockNeverIdle => NeverStuck
  <2> SUFFICES ASSUME AdminInv, InQueue, LockNeverIdle, NEW r \in Requests, ~Idle(r)
               PROVE  \E s \in Requests : pc[s] = "detach" \/ (pc[s] \in {"queued", "checked"} /\ Holds(s))
    BY DEF NeverStuck
  <2>1. pc[r] = "detach" \/ pc[r] \in {"queued", "checked"}
    BY DEF AdminInv, ControlOK, Idle
  <2>2. ASSUME Queued(r)
        PROVE  \E s \in Requests : pc[s] \in {"queued", "checked"} /\ Holds(s)
    BY <2>2 DEF LockNeverIdle, InQueue, Holds
  <2> QED
    BY <2>1, <2>2 DEF InQueue
<1>3. AdminSpec => []LockNeverIdle
  BY AdminImplementsLock, LockNeverIdleHolds, PTL
<1>4. AdminSpec => []InQueue
  BY <1>1, InQueueStep, AdminInvHolds, PTL DEF AdminSpec
<1> QED
  BY <1>2, <1>3, <1>4, AdminInvHolds, PTL

-----------------------------------------------------------------------------
(* The edits                                                               *)

SheetOK == DOMAIN sheet = Tabs /\ \A tab \in Tabs : sheet[tab] \in Seq(RowOf(tab))

\* Editor r has this row of this tab on screen.
Shows(r, tab, row) == form[r] = [tab |-> tab, row |-> row]

FormOK ==
    /\ DOMAIN form = Requests
    /\ \A r \in Requests :
          form[r] = NoForm \/ \E tab \in Tabs : \E row \in RowOf(tab) : Shows(r, tab, row)

UpdatesOK(updates) == \A u \in updates : u.names \subseteq Names

\* A job writes rows of its tab, replaces or removes only the row its editor has on
\* screen, and adds customers only where their code is looked up again.
JobOK(r) ==
    LET j == job[r]
    IN  \/ /\ j.kind = "update"
           /\ j.tab \in Tabs
           /\ Shows(r, j.tab, j.version)
           /\ \A row \in RowOf(j.tab) : [row EXCEPT !.body = j.body] \in RowOf(j.tab)
        \/ /\ j.kind = "delete"
           /\ j.tab \in Tabs
           /\ Shows(r, j.tab, j.version)
           /\ j.tab = "Collections" => UpdatesOK(j.updates)
        \/ /\ j.kind = "insert"
           /\ j.tab \in {"Products", "Collections"}
           /\ j.row \in RowOf(j.tab)
        \/ /\ j.kind = "insertTop"
           /\ j.tab = "Customers"
           /\ j.row \in RowOf(j.tab)
        \/ /\ j.kind = "cells"
           /\ j.tab = "Products"
           /\ UpdatesOK(j.updates)

JobsOK ==
    \A r \in Requests :
        /\ pc[r] \in {"queued", "checked"} => JobOK(r)
        /\ pc[r] = "detach" => UpdatesOK(job[r].updates)

EditsInv == AdminInv /\ SheetOK /\ FormOK /\ JobsOK /\ CodesUnique

IdsDiffer(rows) == \A j, k \in DOMAIN rows : rows[j].id = rows[k].id => j = k

\* What job j of editor r makes of the rows of its tab.
GoodWrite(r, j, rows) ==
    /\ rows \in Seq(RowOf(j.tab))
    /\ \A row \in ToSet(sheet[j.tab]) \ ToSet(rows) : j.kind = "cells" \/ Shows(r, j.tab, row)
    /\ j.tab = "Customers" /\ CodesUnique => IdsDiffer(rows)

-----------------------------------------------------------------------------
(* rows without one of them, and with one more on top                      *)

\* Removing row i: the rows above it stay, the rows below it move up by one.
LEMMA RemoveAtRows ==
  ASSUME NEW S, NEW rows \in Seq(S), NEW i \in 1..Len(rows)
  PROVE  /\ RemoveAt(rows, i) \in Seq(S)
         /\ Len(RemoveAt(rows, i)) = Len(rows) - 1
         /\ \A k \in 1..(Len(rows) - 1) : RemoveAt(rows, i)[k] = IF k < i THEN rows[k] ELSE rows[k + 1]
<1> DEFINE above == SubSeq(rows, 1, i - 1)
           below == SubSeq(rows, i + 1, Len(rows))
<1>1. Len(rows) \in Nat /\ i \in Int /\ \A k \in 1..Len(rows) : rows[k] \in S
  BY LenProperties, ElementOfSeq
<1>2. /\ above \in Seq(S)
      /\ Len(above) = i - 1
      /\ \A k \in 1..(i - 1) : above[k] = rows[k]
  <2>1. \A k \in 1..(i - 1) : rows[k] \in S
    BY <1>1
  <2>2. 1 \in Int /\ i - 1 \in Int
    BY <1>1, SMTT(30)
  <2> HIDE DEF above
  <2> QED
    BY <2>1, <2>2, <1>1, SubSeqProperties DEF above
<1>3. /\ below \in Seq(S)
      /\ Len(below) = Len(rows) - i
      /\ \A k \in 1..(Len(rows) - i) : below[k] = rows[k + i]
  <2>1. \A k \in (i + 1)..Len(rows) : rows[k] \in S
    BY <1>1
  <2>2. i + 1 \in Int /\ Len(rows) \in Int
    BY <1>1
  <2>3. /\ below \in Seq(S)
        /\ Len(below) = IF i + 1 <= Len(rows) THEN Len(rows) - (i + 1) + 1 ELSE 0
        /\ \A k \in 1..(Len(rows) - (i + 1) + 1) : below[k] = rows[(i + 1) + k - 1]
    BY <2>1, <2>2, SubSeqProperties
  <2> HIDE DEF below
  <2>4. Len(rows) - (i + 1) + 1 = Len(rows) - i /\ (~(i + 1 <= Len(rows)) => Len(rows) - i = 0)
    BY <1>1, SMTT(30)
  <2>5. ASSUME NEW k \in 1..(Len(rows) - i)
        PROVE  below[k] = rows[k + i]
    <3>1. (i + 1) + k - 1 = k + i
      BY <1>1
    <3> QED
      BY <3>1, <2>3, <2>4
  <2> QED
    BY <2>3, <2>4, <2>5
<1> HIDE DEF above, below
<1>4. /\ above \o below \in Seq(S)
      /\ Len(above \o below) = Len(above) + Len(below)
      /\ \A k \in 1..(Len(above) + Len(below)) :
            (above \o below)[k] = IF k <= Len(above) THEN above[k] ELSE below[k - Len(above)]
  BY <1>2, <1>3, ConcatProperties
<1>5. RemoveAt(rows, i) = above \o below
  BY DEF RemoveAt, above, below
<1>6. Len(above) + Len(below) = Len(rows) - 1
  BY <1>1, <1>2, <1>3
<1>7. ASSUME NEW k \in 1..(Len(rows) - 1)
      PROVE  (above \o below)[k] = IF k < i THEN rows[k] ELSE rows[k + 1]
  <2>1. CASE k < i
    BY <2>1, <1>1, <1>2, <1>4, <1>6
  <2>2. CASE ~(k < i)
    <3>1. k - (i - 1) \in 1..(Len(rows) - i) /\ (k - (i - 1)) + i = k + 1
      BY <2>2, <1>1
    <3>2. (above \o below)[k] = below[k - (i - 1)]
      BY <2>2, <1>1, <1>2, <1>4, <1>6
    <3> QED
      BY <3>1, <3>2, <2>2, <1>3
  <2> QED
    BY <2>1, <2>2
<1> QED
  BY <1>4, <1>5, <1>6, <1>7

\* A row put on top: the others move down by one.
LEMMA PrependRow ==
  ASSUME NEW S, NEW rows \in Seq(S), NEW row \in S
  PROVE  /\ <<row>> \o rows \in Seq(S)
         /\ Len(<<row>> \o rows) = Len(rows) + 1
         /\ (<<row>> \o rows)[1] = row
         /\ \A k \in 1..Len(rows) : (<<row>> \o rows)[k + 1] = rows[k]
<1> DEFINE top == <<row>>
<1>1. top \in Seq(S) /\ Len(top) = 1 /\ top[1] = row
  OBVIOUS
<1>2. Len(rows) \in Nat
  BY LenProperties
<1> HIDE DEF top
<1>3. /\ top \o rows \in Seq(S)
      /\ Len(top \o rows) = Len(top) + Len(rows)
      /\ \A k \in 1..(Len(top) + Len(rows)) :
            (top \o rows)[k] = IF k <= Len(top) THEN top[k] ELSE rows[k - Len(top)]
  BY <1>1, ConcatProperties
<1>4. \A k \in 1..Len(rows) : (top \o rows)[k + 1] = rows[k]
  <2> TAKE k \in 1..Len(rows)
  <2>1. k + 1 \in 1..(1 + Len(rows)) /\ ~(k + 1 <= 1) /\ (k + 1) - 1 = k
    BY <1>2
  <2> QED
    BY <2>1, <1>1, <1>3
<1> QED
  BY <1>1, <1>2, <1>3, <1>4 DEF top

-----------------------------------------------------------------------------
(* what each kind of job writes                                            *)

\* A new body leaves the id of a row alone.
LEMMA RowsAreRecords ==
  ASSUME NEW tab \in Tabs, NEW row \in RowOf(tab), NEW body
  PROVE  [row EXCEPT !.body = body].id = row.id
  BY DEF Tabs, RowOf

\* A tab is a sequence of rows of its kind.
LEMMA SheetRows ==
  ASSUME SheetOK, NEW tab \in Tabs
  PROVE  /\ sheet[tab] \in Seq(RowOf(tab))
         /\ Len(sheet[tab]) \in Nat
         /\ DOMAIN sheet[tab] = 1..Len(sheet[tab])
         /\ \A k \in 1..Len(sheet[tab]) : sheet[tab][k] \in RowOf(tab)
  BY LenProperties, ElementOfSeq DEF SheetOK

\* An update replaces the row on screen and keeps its id.
LEMMA UpdateIsGood ==
  ASSUME SheetOK, NEW r \in Requests, JobOK(r), job[r].kind = "update", StillThere(job[r])
  PROVE  GoodWrite(r, job[r], Written(job[r]))
<1> DEFINE j == job[r]
           rows == sheet[j.tab]
           row == [rows[j.at] EXCEPT !.body = j.body]
<1>1. /\ j.tab \in Tabs
      /\ Shows(r, j.tab, j.version)
      /\ \A x \in RowOf(j.tab) : [x EXCEPT !.body = j.body] \in RowOf(j.tab)
  BY DEF JobOK
<1>2. /\ rows \in Seq(RowOf(j.tab))
      /\ DOMAIN rows = 1..Len(rows)
      /\ Len(rows) \in Nat
      /\ j.at \in 1..Len(rows)
      /\ rows[j.at] = j.version
      /\ rows[j.at] \in RowOf(j.tab)
  BY <1>1, SheetRows DEF StillThere
<1>3. Written(j) = [rows EXCEPT ![j.at] = row]
  BY DEF Written
<1>4. row \in RowOf(j.tab) /\ row.id = rows[j.at].id
  BY <1>1, <1>2, RowsAreRecords
<1> HIDE DEF row, j, rows
<1>5. /\ Written(j) \in Seq(RowOf(j.tab))
      /\ Len(Written(j)) = Len(rows)
      /\ \A k \in 1..Len(rows) : Written(j)[k] = IF k = j.at THEN row ELSE rows[k]
  BY <1>2, <1>3, <1>4, ExceptSeq
<1>6. DOMAIN Written(j) = 1..Len(rows)
  BY <1>5, LenProperties
<1>7. ASSUME NEW x \in ToSet(rows) \ ToSet(Written(j))
      PROVE  Shows(r, j.tab, x)
  <2>1. PICK k \in 1..Len(rows) : x = rows[k]
    BY <1>2, <1>7 DEF ToSet
  <2>2. k = j.at
    BY <2>1, <1>5, <1>6, <1>7 DEF ToSet
  <2> QED
    BY <2>1, <2>2, <1>1, <1>2
<1>8. ASSUME j.tab = "Customers", CodesUnique
      PROVE  IdsDiffer(Written(j))
  <2>1. IdsDiffer(rows)
    BY <1>8 DEF CodesUnique, UniqueIn, IdsDiffer, rows
  <2> QED
    BY <2>1, <1>2, <1>4, <1>5, <1>6 DEF IdsDiffer
<1> QED
  BY <1>5, <1>7, <1>8 DEF GoodWrite, j, rows

\* A deletion removes the row on screen and nothing else.
LEMMA DeleteIsGood ==
  ASSUME SheetOK, NEW r \in Requests, JobOK(r), job[r].kind = "delete", StillThere(job[r])
  PROVE  GoodWrite(r, job[r], Written(job[r]))
<1> DEFINE j == job[r]
           rows == sheet[j.tab]
<1>1. j.tab \in Tabs /\ Shows(r, j.tab, j.version)
  BY DEF JobOK
<1>2. /\ rows \in Seq(RowOf(j.tab))
      /\ DOMAIN rows = 1..Len(rows)
      /\ Len(rows) \in Nat
      /\ j.at \in 1..Len(rows)
      /\ rows[j.at] = j.version
  BY <1>1, SheetRows DEF StillThere
<1>3. Written(j) = RemoveAt(rows, j.at)
  BY SMTT(30) DEF Written
<1> HIDE DEF j, rows
<1>4. /\ Written(j) \in Seq(RowOf(j.tab))
      /\ Len(Written(j)) = Len(rows) - 1
      /\ \A k \in 1..(Len(rows) - 1) : Written(j)[k] = IF k < j.at THEN rows[k] ELSE rows[k + 1]
  BY <1>2, <1>3, RemoveAtRows
<1>5. DOMAIN Written(j) = 1..(Len(rows) - 1)
  BY <1>4, LenProperties
<1>6. ASSUME NEW x \in ToSet(rows) \ ToSet(Written(j))
      PROVE  Shows(r, j.tab, x)
  <2>1. PICK k \in 1..Len(rows) : x = rows[k]
    BY <1>2, <1>6 DEF ToSet
  <2>2. \A n \in 1..(Len(rows) - 1) : Written(j)[n] # x
    BY <1>5, <1>6 DEF ToSet
  <2>3. k = j.at
    <3>1. CASE k < j.at
      <4>1. k \in 1..(Len(rows) - 1) /\ Written(j)[k] = rows[k]
        BY <3>1, <1>2, <1>4
      <4> QED
        BY <4>1, <2>1, <2>2
    <3>2. CASE k > j.at
      <4>1. k - 1 \in 1..(Len(rows) - 1) /\ ~(k - 1 < j.at) /\ (k - 1) + 1 = k
        BY <3>2, <1>2
      <4>2. Written(j)[k - 1] = rows[k]
        BY <4>1, <1>4
      <4> QED
        BY <4>1, <4>2, <2>1, <2>2
    <3> QED
      BY <3>1, <3>2, <1>2
  <2> QED
    BY <2>1, <2>3, <1>1, <1>2
<1>7. ASSUME j.tab = "Customers", CodesUnique
      PROVE  IdsDiffer(Written(j))
  <2>1. IdsDiffer(rows)
    BY <1>7 DEF CodesUnique, UniqueIn, IdsDiffer, rows
  <2> DEFINE old(k) == IF k < j.at THEN k ELSE k + 1
  <2>2. \A k \in 1..(Len(rows) - 1) : old(k) \in 1..Len(rows) /\ Written(j)[k] = rows[old(k)]
    BY <1>2, <1>4
  <2>3. \A k, n \in 1..(Len(rows) - 1) : old(k) = old(n) => k = n
    BY <1>2
  <2> HIDE DEF old
  <2> QED
    BY <2>1, <2>2, <2>3, <1>2, <1>5 DEF IdsDiffer
<1> QED
  BY <1>4, <1>6, <1>7 DEF GoodWrite, j, rows

\* A row put at the bottom replaces nothing.
LEMMA InsertIsGood ==
  ASSUME SheetOK, NEW r \in Requests, JobOK(r), job[r].kind = "insert"
  PROVE  GoodWrite(r, job[r], Written(job[r]))
<1> DEFINE j == job[r]
           rows == sheet[j.tab]
<1>1. j.tab \in Tabs /\ j.tab # "Customers" /\ j.row \in RowOf(j.tab)
  BY DEF JobOK, Tabs
<1>2. rows \in Seq(RowOf(j.tab)) /\ DOMAIN rows = 1..Len(rows) /\ Len(rows) \in Nat
  BY <1>1, SheetRows
<1>3. Written(j) = Append(rows, j.row)
  BY DEF Written
<1> HIDE DEF j, rows
<1>4. /\ Written(j) \in Seq(RowOf(j.tab))
      /\ Len(Written(j)) = Len(rows) + 1
      /\ \A k \in 1..Len(rows) : Written(j)[k] = rows[k]
  BY <1>1, <1>2, <1>3, AppendProperties
<1>5. DOMAIN Written(j) = 1..(Len(rows) + 1)
  BY <1>4, LenProperties
<1>6. ToSet(rows) \subseteq ToSet(Written(j))
  BY <1>2, <1>4, <1>5 DEF ToSet
<1> QED
  BY <1>1, <1>4, <1>6 DEF GoodWrite, j, rows

\* A customer put on top has a code no other row has.
LEMMA InsertTopIsGood ==
  ASSUME SheetOK, NEW r \in Requests, JobOK(r), job[r].kind = "insertTop", StillThere(job[r])
  PROVE  GoodWrite(r, job[r], Written(job[r]))
<1> DEFINE j == job[r]
           rows == sheet[j.tab]
<1>1. j.tab \in Tabs /\ j.row \in RowOf(j.tab)
  BY DEF JobOK, Tabs
<1>2. /\ rows \in Seq(RowOf(j.tab)) /\ DOMAIN rows = 1..Len(rows) /\ Len(rows) \in Nat
      /\ \A k \in 1..Len(rows) : rows[k].id # j.row.id
  BY <1>1, SheetRows DEF StillThere, IdsOf, ToSet
<1>3. Written(j) = <<j.row>> \o rows
  BY DEF Written
<1> HIDE DEF j, rows
<1>4. /\ Written(j) \in Seq(RowOf(j.tab))
      /\ Len(Written(j)) = Len(rows) + 1
      /\ Written(j)[1] = j.row
      /\ \A k \in 1..Len(rows) : Written(j)[k + 1] = rows[k]
  BY <1>1, <1>2, <1>3, PrependRow
<1>5. DOMAIN Written(j) = 1..(Len(rows) + 1) /\ \A k \in 1..Len(rows) : k + 1 \in 1..(Len(rows) + 1)
  BY <1>2, <1>4, LenProperties
<1>6. ToSet(rows) \subseteq ToSet(Written(j))
  BY <1>2, <1>4, <1>5 DEF ToSet
<1>7. ASSUME j.tab = "Customers", CodesUnique
      PROVE  IdsDiffer(Written(j))
  <2>1. IdsDiffer(rows)
    BY <1>7 DEF CodesUnique, UniqueIn, IdsDiffer, rows
  <2>2. \A k \in 1..(Len(rows) + 1) : k = 1 \/ (k - 1 \in 1..Len(rows) /\ Written(j)[k] = rows[k - 1])
    <3> TAKE k \in 1..(Len(rows) + 1)
    <3>1. k = 1 \/ (k - 1 \in 1..Len(rows) /\ (k - 1) + 1 = k)
      BY <1>2
    <3> QED
      BY <3>1, <1>4
  <2>3. \A k, n \in 1..(Len(rows) + 1) : k - 1 = n - 1 => k = n
    BY <1>2
  <2> QED
    BY <2>1, <2>2, <2>3, <1>2, <1>4, <1>5 DEF IdsDiffer
<1> QED
  BY <1>4, <1>6, <1>7 DEF GoodWrite, j, rows

\* A cascade rewrites names of products and touches no customer.
LEMMA CellsAreGood ==
  ASSUME SheetOK, NEW r \in Requests, JobOK(r), job[r].kind = "cells"
  PROVE  GoodWrite(r, job[r], Written(job[r]))
<1> DEFINE j == job[r]
           rows == sheet[j.tab]
           at(k) == {u \in j.updates : u.at = k}
           row(k) == IF at(k) = {} THEN rows[k] ELSE [rows[k] EXCEPT !.body.names = (CHOOSE u \in at(k) : TRUE).names]
<1>1. j.tab = "Products" /\ j.tab \in Tabs /\ UpdatesOK(j.updates)
  BY DEF JobOK, Tabs
<1>2. /\ rows \in Seq(RowOf(j.tab)) /\ DOMAIN rows = 1..Len(rows) /\ Len(rows) \in Nat
      /\ \A k \in 1..Len(rows) : rows[k] \in RowOf("Products")
  BY <1>1, SheetRows
<1>3. Written(j) = [k \in 1..Len(rows) |-> row(k)]
  BY <1>2 DEF Written
<1>4. ASSUME NEW k \in 1..Len(rows)
      PROVE  row(k) \in RowOf("Products")
  <2>1. CASE at(k) = {}
    BY <2>1, <1>2
  <2>2. CASE at(k) # {}
    <3> DEFINE u == CHOOSE v \in at(k) : TRUE
    <3>1. u.names \subseteq Names
      <4>1. u \in at(k)
        BY <2>2
      <4> QED
        BY <4>1, <1>1 DEF UpdatesOK
    <3>2. rows[k] \in [id : Ids, body : [val : Nat, names : SUBSET Names]]
      BY <1>2 DEF RowOf
    <3>3. row(k) = [rows[k] EXCEPT !.body.names = u.names]
      BY <2>2
    <3> HIDE DEF u, row
    <3> QED
      BY <3>1, <3>2, <3>3 DEF RowOf
  <2> QED
    BY <2>1, <2>2
<1> HIDE DEF row, j, rows
<1>5. Written(j) \in Seq(RowOf("Products"))
  BY <1>2, <1>3, <1>4
<1> QED
  BY <1>1, <1>5 DEF GoodWrite, j

\* Whatever a request that has checked its rows writes is good.
LEMMA WriteIsGood ==
  ASSUME EditsInv, NEW r \in Requests, pc[r] = "checked"
  PROVE  job[r].tab \in Tabs /\ GoodWrite(r, job[r], Written(job[r]))
<1>1. SheetOK /\ JobOK(r) /\ StillThere(job[r])
  BY DEF EditsInv, JobsOK, AdminInv, CheckedStillThere
<1>2. job[r].tab \in Tabs
  BY <1>1 DEF JobOK, Tabs
<1>3. job[r].kind \in {"update", "delete", "insert", "insertTop", "cells"}
  BY <1>1 DEF JobOK
<1> QED
  BY <1>1, <1>2, <1>3, UpdateIsGood, DeleteIsGood, InsertIsGood, InsertTopIsGood, CellsAreGood

\* A step leaves the sheet as it is, or a request that has checked its rows writes them.
LEMMA SheetStep ==
  ASSUME AdminNext
  PROVE  \/ sheet' = sheet
         \/ \E r \in Requests : /\ pc[r] = "checked"
                               /\ sheet' = [sheet EXCEPT ![job[r].tab] = Written(job[r])]
<1> SUFFICES ASSUME NEW r \in Requests, Browse(r) \/ Decide(r) \/ Work(r)
             PROVE  \/ sheet' = sheet
                    \/ /\ pc[r] = "checked"
                       /\ sheet' = [sheet EXCEPT ![job[r].tab] = Written(job[r])]
  BY DEF AdminNext
<1>1. CASE Browse(r)
  BY <1>1 DEF Browse, Open, Close
<1>2. CASE Decide(r)
  BY <1>2, DecideAsks
<1>3. CASE Work(r)
  BY <1>3 DEF Work, Recheck, RecheckFails, Commit, CommitFails, Detach
<1> QED
  BY <1>1, <1>2, <1>3

\* Every step keeps the rows well typed and the codes unique.
LEMMA SheetNext ==
  ASSUME EditsInv, AdminNext
  PROVE  SheetOK' /\ CodesUnique'
<1>1. CASE sheet' = sheet
  BY <1>1 DEF EditsInv, SheetOK, CodesUnique, UniqueIn
<1>2. ASSUME NEW r \in Requests, pc[r] = "checked", sheet' = [sheet EXCEPT ![job[r].tab] = Written(job[r])]
      PROVE  SheetOK' /\ CodesUnique'
  <2>1. job[r].tab \in Tabs /\ GoodWrite(r, job[r], Written(job[r]))
    BY <1>2, WriteIsGood
  <2>2. SheetOK'
    BY <1>2, <2>1 DEF EditsInv, SheetOK, GoodWrite
  <2>3. CASE job[r].tab = "Customers"
    BY <1>2, <2>1, <2>3 DEF EditsInv, SheetOK, GoodWrite, CodesUnique, UniqueIn, IdsDiffer
  <2>4. CASE job[r].tab # "Customers"
    <3>1. sheet'["Customers"] = sheet["Customers"]
      BY <1>2, <2>1, <2>4 DEF EditsInv, SheetOK, Tabs
    <3> QED
      BY <3>1, <2>2 DEF EditsInv, CodesUnique, UniqueIn
  <2> QED
    BY <2>2, <2>3, <2>4
<1> QED
  BY <1>1, <1>2, SheetStep

-----------------------------------------------------------------------------
(* forms and jobs                                                          *)

\* Nothing a request sees or wants has changed.
LEMMA SameJob ==
  ASSUME NEW s \in Requests, form'[s] = form[s], job'[s] = job[s], JobOK(s)
  PROVE  JobOK(s)'
  BY DEF JobOK, Shows

\* Opening and closing a form leaves the jobs as they are.
LEMMA BrowseNext ==
  ASSUME EditsInv, NEW r \in Requests, Browse(r)
  PROVE  FormOK' /\ JobsOK'
<1>1. pc' = pc /\ job' = job /\ pc[r] = "idle" /\ \E x : form' = [form EXCEPT ![r] = x]
  BY DEF Browse, Open, Close, Idle
<1>2. JobsOK'
  BY <1>1, SameJob DEF EditsInv, FormOK, JobsOK
<1>3. CASE Open(r)
  <2>1. PICK tab \in Tabs : \E k \in Listed(tab) : form' = [form EXCEPT ![r] = [tab |-> tab, row |-> sheet[tab][k]]]
    BY <1>3 DEF Open
  <2>2. PICK k \in Listed(tab) : form' = [form EXCEPT ![r] = [tab |-> tab, row |-> sheet[tab][k]]]
    BY <2>1
  <2>3. sheet[tab][k] \in RowOf(tab)
    BY SheetRows DEF Listed, EditsInv
  <2> QED
    BY <2>2, <2>3, <1>2 DEF EditsInv, FormOK, Shows
<1>4. CASE Close(r)
  BY <1>2, <1>4 DEF Close, EditsInv, FormOK, Shows
<1> QED
  BY <1>3, <1>4 DEF Browse

\* Whoever asks about a tab has one of its rows on screen.
LEMMA FoundIsShown ==
  ASSUME EditsInv, NEW r \in Requests, NEW tab \in Tabs, form[r].tab = tab
  PROVE  Shows(r, tab, form[r].row)
  BY DEF EditsInv, FormOK, Shows, NoForm, Tabs

\* The names a snapshot offers are names.
LEMMA CollectionNamesAreNames ==
  ASSUME SheetOK
  PROVE  CollectionNames \subseteq Names
<1>1. \A k \in DOMAIN sheet["Collections"] : sheet["Collections"][k].body \in Names
  BY SheetRows DEF Tabs, RowOf
<1> QED
  BY <1>1 DEF CollectionNames, ToSet

\* A cascade writes names only.
LEMMA DetachUpdatesOK ==
  ASSUME SheetOK, NEW name
  PROVE  UpdatesOK(DetachUpdates(name))
<1>1. \A k \in DOMAIN sheet["Products"] : sheet["Products"][k].body.names \subseteq Names
  BY SheetRows DEF Tabs, RowOf
<1> QED
  BY <1>1 DEF DetachUpdates, UpdatesOK, Listed

\* Ask(r, j) gives r the job j.
LEMMA AskedJob ==
  ASSUME EditsInv, NEW r \in Requests, NEW j, Ask(r, j)
  PROVE  job'[r] = j /\ form' = form
  BY DEF Ask, EditsInv, AdminInv, ControlOK

\* Every handler asks for a good job.
LEMMA DecideJob ==
  ASSUME EditsInv, NEW r \in Requests, Decide(r)
  PROVE  JobOK(r)'
<1>0. tail + 1 \in Nat /\ SheetOK /\ CollectionNames \subseteq Names
  BY CollectionNamesAreNames DEF EditsInv, AdminInv, LockInv, LockTypeOK
<1>1. CASE RugCreate(r)
  <2>1. PICK id \in Ids, names \in SUBSET CollectionNames :
               Ask(r, Insert("insert", "Products", [id |-> id, body |-> [val |-> tail + 1, names |-> names]]))
    BY <1>1 DEF RugCreate, resolveCollections
  <2>2. job'[r] = Insert("insert", "Products", [id |-> id, body |-> [val |-> tail + 1, names |-> names]])
    BY <2>1, AskedJob
  <2> QED
    BY <2>2, <1>0 DEF JobOK, Insert, RowOf
<1>2. CASE CollectionCreate(r)
  <2>1. PICK name \in Names : Ask(r, Insert("insert", "Collections", [id |-> name, body |-> name]))
    BY <1>2 DEF CollectionCreate
  <2>2. job'[r] = Insert("insert", "Collections", [id |-> name, body |-> name])
    BY <2>1, AskedJob
  <2> QED
    BY <2>2 DEF JobOK, Insert, RowOf
<1>3. CASE ClientCreate(r)
  <2>1. PICK code \in Codes : Ask(r, Insert("insertTop", "Customers", [id |-> code, body |-> tail + 1]))
    BY <1>3 DEF ClientCreate
  <2>2. job'[r] = Insert("insertTop", "Customers", [id |-> code, body |-> tail + 1])
    BY <2>1, AskedJob
  <2> QED
    BY <2>2, <1>0 DEF JobOK, Insert, RowOf
<1>4. ASSUME NEW tab \in Tabs, NEW k, NEW body, form[r].tab = tab, Ask(r, Update(r, k, body)),
             \A row \in RowOf(tab) : [row EXCEPT !.body = body] \in RowOf(tab)
      PROVE  JobOK(r)'
  <2>1. job'[r] = Update(r, k, body) /\ form' = form
    BY <1>4, AskedJob
  <2>2. Shows(r, tab, form[r].row)
    BY <1>4, FoundIsShown
  <2> QED
    BY <2>1, <2>2, <1>4 DEF JobOK, Update, Shows
<1>5. CASE RugUpdate(r)
  <2>1. PICK k \in Listed("Products"), names \in SUBSET CollectionNames :
               form[r].tab = "Products" /\ Ask(r, Update(r, k, [val |-> tail + 1, names |-> names]))
    BY <1>5 DEF RugUpdate, Found, resolveCollections
  <2>2. \A row \in RowOf("Products") : [row EXCEPT !.body = [val |-> tail + 1, names |-> names]] \in RowOf("Products")
    BY <1>0 DEF RowOf
  <2> QED
    BY <2>1, <2>2, <1>4 DEF Tabs
<1>6. CASE CollectionUpdate(r)
  <2>1. PICK k \in Listed("Collections"), name \in Names :
               form[r].tab = "Collections" /\ Ask(r, Update(r, k, name))
    BY <1>6 DEF CollectionUpdate, Found
  <2>2. \A row \in RowOf("Collections") : [row EXCEPT !.body = name] \in RowOf("Collections")
    BY DEF RowOf
  <2> QED
    BY <2>1, <2>2, <1>4 DEF Tabs
<1>7. CASE ClientUpdate(r)
  <2>1. PICK k \in Listed("Customers") : form[r].tab = "Customers" /\ Ask(r, Update(r, k, tail + 1))
    BY <1>7 DEF ClientUpdate, Found
  <2>2. \A row \in RowOf("Customers") : [row EXCEPT !.body = tail + 1] \in RowOf("Customers")
    BY <1>0 DEF RowOf
  <2> QED
    BY <2>1, <2>2, <1>4 DEF Tabs
<1>8. CASE RowDelete(r)
  <2>1. PICK tab \in {"Products", "Customers"} : \E k \in Listed(tab) : form[r].tab = tab /\ Ask(r, Delete(r, k))
    BY <1>8 DEF RowDelete, Found
  <2>2. PICK k : form[r].tab = tab /\ Ask(r, Delete(r, k))
    BY <2>1
  <2>3. job'[r] = Delete(r, k) /\ form' = form
    BY <2>2, AskedJob
  <2>4. tab \in Tabs /\ tab # "Collections" /\ Shows(r, tab, form[r].row)
    BY <2>2, FoundIsShown DEF Tabs
  <2> QED
    BY <2>2, <2>3, <2>4 DEF JobOK, Delete, Shows
<1>9. CASE CollectionDelete(r)
  <2>1. PICK k \in Listed("Collections") :
               /\ form[r].tab = "Collections"
               /\ LET name == sheet["Collections"][k].body
                  IN  Ask(r, [kind |-> "delete", tab |-> "Collections", at |-> k, version |-> form[r].row,
                              name |-> name, updates |-> DetachUpdates(name)])
    BY <1>9 DEF CollectionDelete, Found
  <2> DEFINE name == sheet["Collections"][k].body
  <2>2. /\ job'[r] = [kind |-> "delete", tab |-> "Collections", at |-> k, version |-> form[r].row,
                      name |-> name, updates |-> DetachUpdates(name)]
        /\ form' = form
    BY <2>1, AskedJob
  <2>3. UpdatesOK(DetachUpdates(name))
    BY <1>0, DetachUpdatesOK
  <2>4. "Collections" \in Tabs /\ Shows(r, "Collections", form[r].row)
    BY <2>1, FoundIsShown DEF Tabs
  <2> QED
    BY <2>2, <2>3, <2>4 DEF JobOK, Shows, UpdatesOK
<1> QED
  BY <1>1, <1>2, <1>3, <1>5, <1>6, <1>7, <1>8, <1>9 DEF Decide

\* Every step keeps forms and jobs together.
LEMMA ControlNext ==
  ASSUME EditsInv, AdminNext
  PROVE  FormOK' /\ JobsOK'
<1> SUFFICES ASSUME NEW r \in Requests, Browse(r) \/ Decide(r) \/ Work(r)
             PROVE  FormOK' /\ JobsOK'
  BY DEF AdminNext
<1>1. CASE Browse(r)
  BY <1>1, BrowseNext
<1>2. CASE Decide(r)
  <2>1. form' = form
    BY <1>2 DEF Decide, RugCreate, RugUpdate, RowDelete, CollectionCreate, CollectionUpdate,
                CollectionDelete, ClientCreate, ClientUpdate, Ask
  <2>2. pc' = [pc EXCEPT ![r] = "queued"] /\ \E j : job' = [job EXCEPT ![r] = j]
    BY <1>2, DecideAsks
  <2>3. JobOK(r)'
    BY <1>2, DecideJob
  <2>4. \A s \in Requests \ {r} : pc'[s] = pc[s] /\ job'[s] = job[s]
    BY <2>2
  <2>5. pc'[r] = "queued"
    BY <2>2 DEF EditsInv, AdminInv, ControlOK
  <2>6. FormOK'
    BY <2>1 DEF EditsInv, FormOK, Shows
  <2>7. JobsOK'
    BY <2>1, <2>3, <2>4, <2>5, SameJob DEF EditsInv, JobsOK
  <2> QED
    BY <2>6, <2>7
<1>3. CASE Recheck(r)
  <2>1. form' = form /\ job' = job /\ pc[r] = "queued" /\ pc' = [pc EXCEPT ![r] = "checked"]
    BY <1>3 DEF Recheck
  <2>2. FormOK'
    BY <2>1 DEF EditsInv, FormOK, Shows
  <2>3. \A s \in Requests : pc'[s] = pc[s] \/ (s = r /\ pc'[s] = "checked")
    BY <2>1 DEF EditsInv, AdminInv, ControlOK
  <2>4. JobsOK'
    BY <2>1, <2>3, SameJob DEF EditsInv, JobsOK
  <2> QED
    BY <2>2, <2>4
<1>4. CASE Answered(r)
  <2>1. pc'[r] = "idle" /\ form'[r] = NoForm /\ DOMAIN form' = Requests
    BY <1>4 DEF Answered, EditsInv, FormOK, AdminInv, ControlOK
  <2>2. \A s \in Requests \ {r} : pc'[s] = pc[s] /\ job'[s] = job[s] /\ form'[s] = form[s]
    BY <1>4 DEF Answered
  <2>3. FormOK'
    BY <2>1, <2>2 DEF EditsInv, FormOK, Shows
  <2>4. JobsOK'
    BY <2>1, <2>2, SameJob DEF EditsInv, JobsOK
  <2> QED
    BY <2>3, <2>4
<1>5. ASSUME pc[r] = "checked", HasCascade(job[r]), pc' = [pc EXCEPT ![r] = "detach"], UNCHANGED <<form, job>>
      PROVE  FormOK' /\ JobsOK'
  <2>1. FormOK'
    BY <1>5 DEF EditsInv, FormOK, Shows
  <2>2. UpdatesOK(job[r].updates)
    BY <1>5 DEF EditsInv, JobsOK, JobOK, HasCascade
  <2>3. \A s \in Requests \ {r} : pc'[s] = pc[s]
    BY <1>5
  <2>4. pc'[r] = "detach"
    BY <1>5 DEF EditsInv, AdminInv, ControlOK
  <2>5. JobsOK'
    BY <1>5, <2>2, <2>3, <2>4, SameJob DEF EditsInv, JobsOK, UpdatesOK
  <2> QED
    BY <2>1, <2>5
<1>6. CASE Detach(r)
  <2>1. /\ pc[r] = "detach" /\ pc' = [pc EXCEPT ![r] = "queued"] /\ form' = form
        /\ job' = [job EXCEPT ![r] = [kind |-> "cells", tab |-> "Products",
                                      name |-> job[r].name, updates |-> job[r].updates]]
    BY <1>6 DEF Detach
  <2>2. FormOK'
    BY <2>1 DEF EditsInv, FormOK, Shows
  <2>3. /\ pc'[r] = "queued"
        /\ job'[r] = [kind |-> "cells", tab |-> "Products", name |-> job[r].name, updates |-> job[r].updates]
    BY <2>1 DEF EditsInv, AdminInv, ControlOK
  <2>4. JobOK(r)'
    BY <2>1, <2>3 DEF EditsInv, JobsOK, JobOK, UpdatesOK
  <2>5. \A s \in Requests \ {r} : pc'[s] = pc[s] /\ job'[s] = job[s]
    BY <2>1
  <2>6. JobsOK'
    BY <2>1, <2>3, <2>4, <2>5, SameJob DEF EditsInv, JobsOK
  <2> QED
    BY <2>2, <2>6
<1> QED
  BY <1>1, <1>2, <1>3, <1>4, <1>5, <1>6 DEF Work, RecheckFails, Commit, CommitFails

-----------------------------------------------------------------------------
(* the invariant and what follows                                          *)

\* The invariant holds at the start, by what is assumed of Initial.
LEMMA EditsInvInit == AdminInit => EditsInv
<1> SUFFICES ASSUME AdminInit
             PROVE  EditsInv
  OBVIOUS
<1>1. AdminInv
  BY AdminInitInv
<1>2. SheetOK /\ CodesUnique
  BY AdminConstants DEF AdminInit, SheetOK, CodesUnique, UniqueIn
<1>3. FormOK /\ JobsOK
  BY DEF AdminInit, FormOK, JobsOK
<1> QED
  BY <1>1, <1>2, <1>3 DEF EditsInv

\* The invariant is inductive.
LEMMA EditsInvNext ==
  ASSUME EditsInv, [AdminNext]_adminVars
  PROVE  EditsInv'
<1>1. AdminInv'
  BY AdminInvStep DEF EditsInv
<1>2. CASE AdminNext
  BY <1>1, <1>2, SheetNext, ControlNext DEF EditsInv
<1>3. CASE UNCHANGED adminVars
  <2>1. sheet' = sheet /\ form' = form /\ pc' = pc /\ job' = job
    BY <1>3 DEF adminVars
  <2>2. SheetOK' /\ CodesUnique' /\ FormOK'
    BY <2>1 DEF EditsInv, SheetOK, CodesUnique, UniqueIn, FormOK, Shows
  <2>3. JobsOK'
    BY <2>1, SameJob DEF EditsInv, JobsOK
  <2> QED
    BY <1>1, <2>2, <2>3 DEF EditsInv
<1> QED
  BY <1>2, <1>3

\* The sheet, the forms and the jobs stay as the handlers expect them.
THEOREM EditsInvHolds == AdminSpec => []EditsInv
  BY EditsInvInit, EditsInvNext, PTL DEF AdminSpec

\* Types of the lock, the sheet and the requests, whatever the editors do.
THEOREM AdminTypeCorrect == AdminSpec => []AdminTypeOK
<1>1. ASSUME EditsInv
      PROVE  AdminTypeOK
  <2>1. ASSUME NEW r \in Requests, form[r] # NoForm
        PROVE  form[r].row \in RowOf(form[r].tab)
    BY <1>1, <2>1 DEF EditsInv, FormOK, Shows
  <2> QED
    BY <1>1, <2>1 DEF AdminTypeOK, EditsInv, SheetOK, AdminInv, LockInv, ControlOK
<1> QED
  BY <1>1, EditsInvHolds, PTL

\* No two customers ever have one code.
THEOREM CodesUniqueHolds == AdminSpec => []CodesUnique
<1>1. EditsInv => CodesUnique
  BY DEF EditsInv
<1> QED
  BY <1>1, EditsInvHolds, PTL

\* A row disappears only at the hands of an editor who had it on screen, or in a cascade.
THEOREM NoLostUpdateHolds == AdminSpec => NoLostUpdate
<1> DEFINE Seen == \A tab \in Tabs : \A row \in ToSet(sheet[tab]) \ ToSet(sheet'[tab]) :
                     \E r \in Requests :
                        /\ pc[r] = "checked"
                        /\ job[r].kind = "cells" \/ form[r] = [tab |-> tab, row |-> row]
<1>1. ASSUME EditsInv, [AdminNext]_adminVars
      PROVE  Seen
  <2>1. CASE sheet' = sheet
    BY <2>1
  <2>2. ASSUME NEW r \in Requests, pc[r] = "checked", sheet' = [sheet EXCEPT ![job[r].tab] = Written(job[r])]
        PROVE  Seen
    <3>1. job[r].tab \in Tabs /\ GoodWrite(r, job[r], Written(job[r]))
      BY <1>1, <2>2, WriteIsGood
    <3>2. ASSUME NEW tab \in Tabs, NEW row \in ToSet(sheet[tab]) \ ToSet(sheet'[tab])
          PROVE  tab = job[r].tab /\ (job[r].kind = "cells" \/ form[r] = [tab |-> tab, row |-> row])
      <4>1. tab = job[r].tab
        BY <2>2, <3>2
      <4>2. sheet'[tab] = Written(job[r])
        BY <1>1, <2>2, <3>1, <4>1 DEF EditsInv, SheetOK
      <4> QED
        BY <3>1, <3>2, <4>1, <4>2 DEF GoodWrite, Shows
    <3> QED
      BY <2>2, <3>2
  <2>3. sheet' = sheet \/ AdminNext
    BY <1>1 DEF adminVars
  <2> QED
    BY <2>1, <2>2, <2>3, SheetStep
<1>2. EditsInv /\ [AdminNext]_adminVars => [Seen]_adminVars
  BY <1>1
<1> QED
  BY <1>2, EditsInvHolds, PTL DEF AdminSpec, NoLostUpdate

-----------------------------------------------------------------------------
(* The page of collections                                                 *)

\* What is typed lies over the row as the page has it.
TypedOverThePage == \A k \in DOMAIN typed : k \in DOMAIN page /\ typed[k].over = page[k]

\* A request under way carries the version of what its author had on screen.
SendsWhatItShowed(q) ==
    /\ "at" \in DOMAIN q
    /\ q.at \in {"sent", "queued"} =>
          {"kind", "version", "over"} \subseteq DOMAIN q /\ (q.kind # "create" => q.version = q.over)

DeskInv ==
    /\ TypedOverThePage
    /\ DOMAIN call = Calls
    /\ \A r \in Calls : SendsWhatItShowed(call[r])
    /\ ~blind

LEMMA DeskInitInv == CollectionsInit => DeskInv
  <1>1. "at" \in DOMAIN NoCall /\ NoCall.at = "none"
    BY DEF NoCall
  <1> QED BY <1>1 DEF CollectionsInit, DeskInv, TypedOverThePage, SendsWhatItShowed

\* One request changes, and what becomes of it is none that is decided or carries what its author saw.
LEMMA OneCallChanges ==
    ASSUME DeskInv, NEW r \in Calls, NEW q, call' = [call EXCEPT ![r] = q], SendsWhatItShowed(q)
    PROVE  DOMAIN call' = Calls /\ (\A c \in Calls : SendsWhatItShowed(call[c]))'
  <1>1. DOMAIN call' = Calls /\ \A c \in Calls : call'[c] = IF c = r THEN q ELSE call[c]
    BY DEF DeskInv
  <1> QED BY <1>1 DEF DeskInv, SendsWhatItShowed

LEMMA AnsweredShows ==
    \A at, heard, kind, id, answer : at \notin {"sent", "queued"} =>
        SendsWhatItShowed([at |-> at, heard |-> heard, kind |-> kind, id |-> id, answer |-> answer])
  BY DEF SendsWhatItShowed

LEMMA ReplyKeeps ==
    ASSUME DeskInv, NEW r \in Calls, NEW status, NEW answer, status \notin {"sent", "queued"}, Reply(r, status, answer)
    PROVE  DOMAIN call' = Calls /\ (\A c \in Calls : SendsWhatItShowed(call[c]))'
  <1>1. call' = [call EXCEPT ![r] = [at |-> status, heard |-> call[r].heard, kind |-> call[r].kind,
                                     id |-> call[r].id, answer |-> answer]]
    BY DEF Reply, DeskInv
  <1>2. PICK q : q = [at |-> status, heard |-> call[r].heard, kind |-> call[r].kind, id |-> call[r].id,
                      answer |-> answer]
    OBVIOUS
  <1>3. SendsWhatItShowed(q)
    BY <1>2, AnsweredShows
  <1>4. call' = [call EXCEPT ![r] = q]
    BY <1>1, <1>2
  <1> QED BY <1>3, <1>4, OneCallChanges

LEMMA PostKeeps ==
    ASSUME DeskInv, NEW r \in Calls, NEW kind, NEW id, NEW version, NEW cells, NEW over,
           kind # "create" => version = over, Post(r, Request(kind, id, version, cells, over))
    PROVE  DeskInv'
  <1>1. PICK q : q = Request(kind, id, version, cells, over)
    OBVIOUS
  <1>2. SendsWhatItShowed(q)
    BY <1>1 DEF Request, SendsWhatItShowed
  <1>3. call' = [call EXCEPT ![r] = q] /\ UNCHANGED <<page, typed, blind>>
    BY <1>1 DEF Post
  <1>4. DOMAIN call' = Calls /\ (\A c \in Calls : SendsWhatItShowed(call[c]))'
    BY <1>2, <1>3, OneCallChanges
  <1> QED BY <1>3, <1>4 DEF DeskInv, TypedOverThePage

LEMMA AsksKeep ==
    ASSUME DeskInv, NEW r \in Calls, saveCollection(r) \/ deleteCollection(r) \/ addCollection(r)
    PROVE  DeskInv'
  <1>1. CASE saveCollection(r)
    <2>1. PICK id \in DOMAIN page : \E key \in Drawn(id) :
              Post(r, Request("save", id, page[key], InRow(key), Over(key)))
      BY <1>1 DEF saveCollection
    <2>2. PICK key \in Drawn(id) : Post(r, Request("save", id, page[key], InRow(key), Over(key)))
      BY <2>1
    <2>3. page[key] = Over(key)
      BY DEF Over, DeskInv, TypedOverThePage
    <2>4. PICK version, cells, over : version = page[key] /\ cells = InRow(key) /\ over = Over(key)
      OBVIOUS
    <2>5. version = over /\ Post(r, Request("save", id, version, cells, over))
      BY <2>2, <2>3, <2>4
    <2> QED BY <2>5, PostKeeps
  <1>2. CASE deleteCollection(r)
    <2>1. PICK id \in DOMAIN page : \E key \in Drawn(id) : Post(r, Request("delete", id, page[key], None, page[key]))
      BY <1>2 DEF deleteCollection
    <2>2. PICK key \in Drawn(id) : Post(r, Request("delete", id, page[key], None, page[key]))
      BY <2>1
    <2>3. PICK version : version = page[key]
      OBVIOUS
    <2>4. Post(r, Request("delete", id, version, None, version))
      BY <2>2, <2>3
    <2> QED BY <2>4, PostKeeps
  <1>3. CASE addCollection(r)
    <2>1. PICK id \in Slugs : Post(r, Request("create", id, None, [f \in Fields |-> texts + 1], None))
      BY <1>3 DEF addCollection
    <2>2. PICK cells : cells = [f \in Fields |-> texts + 1]
      OBVIOUS
    <2>3. Post(r, Request("create", id, None, cells, None))
      BY <2>1, <2>2
    <2> QED BY <2>3, PostKeeps
  <1> QED BY <1>1, <1>2, <1>3

\* A decided request goes on with the version it came with.
LEMMA GoingKeeps ==
    ASSUME DeskInv, NEW r \in Calls, call[r].at = "sent", NEW i, NEW change, NEW cells, Going(r, i, change, cells)
    PROVE  DOMAIN call' = Calls /\ (\A c \in Calls : SendsWhatItShowed(call[c]))'
  <1>1. PICK q : q = [at |-> "queued", heard |-> call[r].heard, kind |-> call[r].kind, id |-> call[r].id,
                      version |-> call[r].version, over |-> call[r].over, row |-> i, cells |-> cells, change |-> change]
    OBVIOUS
  <1>2. call' = [call EXCEPT ![r] = q]
    BY <1>1 DEF Going, DeskInv
  <1>3. call[r].kind # "create" => call[r].version = call[r].over
    BY DEF DeskInv, SendsWhatItShowed
  <1>4. SendsWhatItShowed(q)
    <2>1. q.kind = call[r].kind /\ q.version = call[r].version /\ q.over = call[r].over
          /\ {"at", "kind", "version", "over"} \subseteq DOMAIN q
      BY <1>1
    <2> QED BY <1>3, <2>1 DEF SendsWhatItShowed
  <1> QED BY <1>2, <1>4, OneCallChanges

LEMMA HandleKeeps ==
    ASSUME DeskInv, NEW r \in Calls, Handle(r)
    PROVE  DeskInv'
  <1>1. TypedOverThePage' /\ UNCHANGED <<page, typed>>
    BY DEF Handle, DeskInv, TypedOverThePage
  <1>2. CASE Check(r) /\ UNCHANGED blind
    <2>1. \/ \E status \in {"conflict", "refused", "unchanged"} : \E answer : Reply(r, status, answer)
          \/ \E i, change, cells : Going(r, i, change, cells)
      <3> DEFINE q == call[r]
                 current == collections[First(q.id)]
      <3>1. CASE q.kind = "create"
        <4>1. \/ Reply(r, "conflict", None)
              \/ Going(r, 0, [f \in Fields |-> [before |-> 0, after |-> q.cells[f]]], q.cells)
          BY <1>2, <3>1 DEF Check
        <4> QED BY <4>1
      <3>2. CASE q.kind # "create" /\ Bearing(q.id) = {}
        <4>1. Reply(r, "refused", None)
          BY <1>2, <3>2 DEF Check
        <4> QED BY <4>1
      <3>3. CASE q.kind = "save" /\ Bearing(q.id) # {}
        <4>1. \/ Reply(r, "unchanged", None)
              \/ Going(r, First(q.id), diffFields(current, q.cells), q.cells)
          BY <1>2, <3>3 DEF Check
        <4> QED BY <4>1
      <3>4. CASE q.kind \notin {"create", "save"} /\ Bearing(q.id) # {}
        <4>1. Going(r, First(q.id), <<>>, q.cells)
          BY <1>2, <3>4 DEF Check
        <4> QED BY <4>1
      <3> QED BY <3>1, <3>2, <3>3, <3>4
    <2>2. call[r].at = "sent"
      BY <1>2 DEF Check
    <2>3. DOMAIN call' = Calls /\ (\A c \in Calls : SendsWhatItShowed(call[c]))'
      BY <2>1, <2>2, GoingKeeps, ReplyKeeps
    <2> QED BY <1>1, <1>2, <2>3 DEF DeskInv
  <1>3. CASE Clashes(r) /\ UNCHANGED blind
    <2>1. DOMAIN call' = Calls /\ (\A c \in Calls : SendsWhatItShowed(call[c]))'
      BY <1>3, ReplyKeeps DEF Clashes
    <2> QED BY <1>1, <1>3, <2>1 DEF DeskInv
  <1>4. CASE freshCollection(r) /\ UNCHANGED blind
    <2>1. \E status \in {"ok", "refused"} : \E answer : Reply(r, status, answer)
      BY <1>4 DEF freshCollection
    <2>2. DOMAIN call' = Calls /\ (\A c \in Calls : SendsWhatItShowed(call[c]))'
      BY <2>1, ReplyKeeps
    <2> QED BY <1>1, <1>4, <2>2 DEF DeskInv
  <1>5. CASE List(r) /\ UNCHANGED blind
    <2>1. PICK q : q = [at |-> "listed", heard |-> call[r].heard, rows |-> collections]
      OBVIOUS
    <2>2. call' = [call EXCEPT ![r] = q] /\ SendsWhatItShowed(q)
      BY <1>5, <2>1 DEF List, SendsWhatItShowed, DeskInv
    <2>3. DOMAIN call' = Calls /\ (\A c \in Calls : SendsWhatItShowed(call[c]))'
      BY <2>2, OneCallChanges
    <2> QED BY <1>1, <1>5, <2>3 DEF DeskInv
  <1>6. CASE Write(r)
    <2>1. call[r].at = "queued" /\ (call[r].kind # "create" => call[r].version = call[r].over)
      BY <1>6 DEF Write, DeskInv, SendsWhatItShowed
    <2>2. CASE call[r].kind # "create" /\ ~SameVersion(call[r])
      <3>1. Reply(r, "conflict", None) /\ UNCHANGED blind
        BY <1>6, <2>2 DEF Write
      <3>2. DOMAIN call' = Calls /\ (\A c \in Calls : SendsWhatItShowed(call[c]))'
        BY <3>1, ReplyKeeps
      <3> QED BY <1>1, <3>1, <3>2 DEF DeskInv
    <2>3. CASE ~(call[r].kind # "create" /\ ~SameVersion(call[r]))
      <3>1. blind' = (blind \/ (call[r].kind # "create" /\ collections[call[r].row] # call[r].over))
        BY <1>6, <2>3 DEF Write
      <3>2. ~blind'
        BY <2>1, <2>3, <3>1 DEF SameVersion, DeskInv
      <3>3. CASE call[r].kind = "delete"
        <4>1. Reply(r, "ok", None)
          BY <1>6, <2>3, <3>3 DEF Write
        <4>2. DOMAIN call' = Calls /\ (\A c \in Calls : SendsWhatItShowed(call[c]))'
          BY <4>1, ReplyKeeps
        <4> QED BY <1>1, <3>2, <4>2 DEF DeskInv
      <3>4. CASE call[r].kind # "delete"
        <4>1. PICK q : q = [at |-> "written", heard |-> call[r].heard, kind |-> call[r].kind, id |-> call[r].id,
                            row |-> IF call[r].kind = "create" THEN Len(collections') ELSE call[r].row]
          OBVIOUS
        <4>2. call' = [call EXCEPT ![r] = q]
          BY <1>6, <2>3, <3>4, <4>1 DEF Write, DeskInv
        <4>3. SendsWhatItShowed(q)
          BY <4>1 DEF SendsWhatItShowed
        <4>4. DOMAIN call' = Calls /\ (\A c \in Calls : SendsWhatItShowed(call[c]))'
          BY <4>2, <4>3, OneCallChanges
        <4> QED BY <1>1, <3>2, <4>4 DEF DeskInv
      <3> QED BY <3>3, <3>4
    <2> QED BY <2>2, <2>3
  <1> QED BY <1>2, <1>3, <1>4, <1>5, <1>6 DEF Handle

LEMMA NoCallShows == SendsWhatItShowed(NoCall)
  BY DEF NoCall, SendsWhatItShowed

LEMMA HearKeeps ==
    ASSUME DeskInv, NEW r \in Calls, Hear(r)
    PROVE  DeskInv'
  <1>1. \/ call' = [call EXCEPT ![r] = NoCall]
        \/ call' = [call EXCEPT ![r] = [at |-> "asked", heard |-> TRUE]]
    BY DEF Hear, Took, Refused, refresh, DeskInv
  <1>2. DOMAIN call' = Calls /\ (\A c \in Calls : SendsWhatItShowed(call[c]))'
    <2>1. PICK q : q = [at |-> "asked", heard |-> TRUE]
      OBVIOUS
    <2>2. SendsWhatItShowed(q)
      BY <2>1 DEF SendsWhatItShowed
    <2>3. PICK none : none = NoCall
      OBVIOUS
    <2>4. CASE call' = [call EXCEPT ![r] = q]
      BY <2>2, <2>4, OneCallChanges
    <2>5. CASE call' = [call EXCEPT ![r] = none]
      BY <2>3, <2>5, NoCallShows, OneCallChanges
    <2> QED BY <1>1, <2>1, <2>3, <2>4, <2>5
  <1>3. typed' = <<>> \/ UNCHANGED <<page, typed>>
    BY DEF Hear, Took, Refused, refresh, renderCollections
  <1>4. TypedOverThePage'
    BY <1>3 DEF TypedOverThePage, DeskInv
  <1>5. ~blind'
    BY DEF Hear, DeskInv
  <1> QED BY <1>2, <1>4, <1>5 DEF DeskInv

LEMMA UpsetKeeps ==
    ASSUME DeskInv, NEW r \in Calls, Upset(r)
    PROVE  DeskInv'
  <1>1. UNCHANGED <<page, typed, blind>>
    BY DEF Upset
  <1>2. CASE Reply(r, "refused", None)
    <2>1. DOMAIN call' = Calls /\ (\A c \in Calls : SendsWhatItShowed(call[c]))'
      BY <1>2, ReplyKeeps
    <2> QED BY <1>1, <2>1 DEF DeskInv, TypedOverThePage
  <1>3. CASE call' = [call EXCEPT ![r].heard = FALSE]
    <2>1. call' = [call EXCEPT ![r] = [call[r] EXCEPT !["heard"] = FALSE]]
      BY <1>3, Zenon
    <2>2. PICK old : old = call[r]
      OBVIOUS
    <2> DEFINE q == [old EXCEPT !["heard"] = FALSE]
    <2>3. call' = [call EXCEPT ![r] = q]
      BY <2>1, <2>2, Zenon
    <2>4. SendsWhatItShowed(old)
      BY <2>2 DEF DeskInv, SendsWhatItShowed
    <2>5. DOMAIN q = DOMAIN old /\ \A f \in DOMAIN old : f # "heard" => q[f] = old[f]
      OBVIOUS
    <2> HIDE DEF q
    <2>6. SendsWhatItShowed(q)
      BY <2>4, <2>5 DEF SendsWhatItShowed
    <2>7. DOMAIN call' = Calls /\ (\A c \in Calls : SendsWhatItShowed(call[c]))'
      BY <2>3, <2>6, OneCallChanges
    <2> QED BY <1>1, <2>7 DEF DeskInv, TypedOverThePage
  <1> QED BY <1>2, <1>3 DEF Upset

LEMMA DeskStepKeepsInv ==
    ASSUME DeskInv, [CollectionsNext]_collectionsVars
    PROVE  DeskInv'
  <1>1. CASE Type
    <2>1. PICK key \in DOMAIN page \ DOMAIN typed, fields \in (SUBSET Fields) \ {{}} :
          typed' = [k \in DOMAIN typed \cup {key} |->
                       IF k = key THEN [cells |-> [f \in Fields |-> IF f \in fields THEN texts + 1 ELSE page[key][f]],
                                        over |-> page[key]]
                       ELSE typed[k]]
      BY <1>1 DEF Type
    <2>2. UNCHANGED <<page, call, blind>>
      BY <1>1 DEF Type
    <2>3. /\ DOMAIN typed' = DOMAIN typed \cup {key} /\ typed'[key].over = page[key]
          /\ \A k \in DOMAIN typed : typed'[k] = typed[k]
      BY <2>1
    <2> QED BY <2>2, <2>3 DEF DeskInv, TypedOverThePage, SendsWhatItShowed
  <1>2. CASE Elsewhere
    BY <1>2 DEF Elsewhere, DeskInv, TypedOverThePage, SendsWhatItShowed
  <1>3. CASE UNCHANGED collectionsVars
    BY <1>3 DEF collectionsVars, DeskInv, TypedOverThePage, SendsWhatItShowed
  <1> QED BY <1>1, <1>2, <1>3, AsksKeep, HandleKeeps, HearKeeps, UpsetKeeps DEF CollectionsNext

\* What a save or a deletion replaces is what its author had on screen, for any number of requests and
\* other windows, whatever arrives late or in another order between the typing and the click.
THEOREM NothingReplacedUnseenHolds == CollectionsSpec => []NothingReplacedUnseen
  <1>1. DeskInv => NothingReplacedUnseen
    BY DEF DeskInv, NothingReplacedUnseen
  <1> QED BY <1>1, DeskInitInv, DeskStepKeepsInv, PTL DEF CollectionsSpec

-----------------------------------------------------------------------------
(* The audit of the collections: rows and their pasts                      *)

\* G is a past of v: the rows of G are of the tab no more, unless it is v, nothing under way makes one of
\* them but out of another of them, or of v, and nothing makes one of them out of v.
Past(G, v, tab, edits, births, R) ==
    /\ v \in G /\ G \subseteq R /\ tab \cap G \subseteq {v} /\ births \cap G = {}
    /\ \A e \in edits : e.to \in G => e.from \in G /\ (e.from = v => e.to = v)

\* No two texts are one, unless they were typed over the same row.
Sane(tab, seen, edits, births, R) ==
    /\ tab \subseteq seen /\ seen \subseteq R /\ births \subseteq R /\ births \cap seen = {}
    /\ \A e \in edits : e.from \in seen /\ e.to \in R /\ e.to \notin births
    /\ \A d, e \in edits : d.to = e.to => d.from = e.from \/ d.from = d.to \/ e.from = e.to
    /\ \A v \in seen : \E G : Past(G, v, tab, edits, births, R)

LEMMA LessIsSane ==
    ASSUME NEW tab, NEW seen, NEW edits, NEW births, NEW R, Sane(tab, seen, edits, births, R),
           NEW tab2 \in SUBSET tab, NEW seen2 \in SUBSET seen, NEW edits2, NEW births2 \in SUBSET births, NEW R2,
           tab2 \subseteq seen2, R \subseteq R2,
           \A e \in edits2 : e.from \in seen2 /\ (e \in edits \/ e.to = e.from)
    PROVE  Sane(tab2, seen2, edits2, births2, R2)
  <1>1. ASSUME NEW v \in seen2 PROVE \E G : Past(G, v, tab2, edits2, births2, R2)
    <2>1. PICK G : Past(G, v, tab, edits, births, R)
      BY DEF Sane
    <2>2. Past(G, v, tab2, edits2, births2, R2)
      BY <2>1 DEF Past
    <2> QED BY <2>2
  <1>2. \A e \in edits2 : e.from \in seen2 /\ e.to \in R2 /\ e.to \notin births2
    BY DEF Sane
  <1>3. \A d, e \in edits2 : d.to = e.to => d.from = e.from \/ d.from = d.to \/ e.from = e.to
    BY DEF Sane
  <1> QED BY <1>1, <1>2, <1>3 DEF Sane

\* A text that is new is typed over a row.
LEMMA NewTextIsSane ==
    ASSUME NEW tab, NEW seen, NEW edits, NEW births, NEW R, Sane(tab, seen, edits, births, R),
           NEW R2, R \subseteq R2, NEW edits2, NEW v \in seen, NEW w \in R2 \ R,
           \A e \in edits2 : e \in edits \/ (e.from = v /\ e.to = w)
    PROVE  Sane(tab, seen, edits2, births, R2)
  <1>1. ASSUME NEW u \in seen PROVE \E G : Past(G, u, tab, edits2, births, R2)
    <2>1. PICK G : Past(G, u, tab, edits, births, R)
      BY DEF Sane
    <2>2. Past(G, u, tab, edits2, births, R2)
      BY <2>1 DEF Past
    <2> QED BY <2>2
  <1>2. \A e \in edits2 : e.from \in seen /\ e.to \in R2 /\ e.to \notin births
    BY DEF Sane
  <1>3. \A d, e \in edits2 : d.to = e.to => d.from = e.from \/ d.from = d.to \/ e.from = e.to
    BY DEF Sane
  <1> QED BY <1>1, <1>2, <1>3 DEF Sane

\* A new row is asked for.
LEMMA NewBirthIsSane ==
    ASSUME NEW tab, NEW seen, NEW edits, NEW births, NEW R, Sane(tab, seen, edits, births, R),
           NEW R2, R \subseteq R2, NEW w \in R2 \ R, NEW births2, births2 \subseteq births \cup {w}
    PROVE  Sane(tab, seen, edits, births2, R2)
  <1>1. ASSUME NEW u \in seen PROVE \E G : Past(G, u, tab, edits, births2, R2)
    <2>1. PICK G : Past(G, u, tab, edits, births, R)
      BY DEF Sane
    <2>2. Past(G, u, tab, edits, births2, R2)
      BY <2>1 DEF Past
    <2> QED BY <2>2
  <1> QED BY <1>1 DEF Sane

\* A row that was typed over another replaces it.
LEMMA ReplacedIsSane ==
    ASSUME NEW tab, NEW seen, NEW edits, NEW births, NEW R, Sane(tab, seen, edits, births, R),
           NEW e \in edits, e.from \in tab,
           NEW tab2, tab2 \subseteq (tab \ {e.from}) \cup {e.to}
    PROVE  Sane(tab2, seen \cup {e.to}, edits, births, R) /\ tab2 \cap seen \subseteq tab
  <1> DEFINE v == e.from
             w == e.to
  <1>0. v \in seen /\ w \in R /\ w \notin births
    BY DEF Sane
  <1>1. ASSUME NEW u \in seen PROVE \E G : Past(G, u, tab, edits, births, R) /\ Past(G, u, tab2, edits, births, R)
    <2>1. PICK G : Past(G, u, tab, edits, births, R)
      BY DEF Sane
    <2>2. w \in G => v = u /\ w = u
      BY <2>1 DEF Past
    <2>3. Past(G, u, tab2, edits, births, R)
      BY <2>1, <2>2 DEF Past
    <2> QED BY <2>1, <2>3
  <1>2. \E G : Past(G, w, tab2, edits, births, R)
    <2>1. CASE w = v
      BY <1>0, <1>1, <2>1
    <2>2. CASE w # v
      <3>1. PICK G : Past(G, v, tab, edits, births, R)
        BY <1>0 DEF Sane
      <3>2. w \notin G
        BY <2>2, <3>1 DEF Past
      <3>3. PICK H : H = G \cup {w}
        OBVIOUS
      <3>4. tab2 \cap H \subseteq {w} /\ births \cap H = {} /\ H \subseteq R /\ w \in H
        BY <1>0, <3>1, <3>2, <3>3 DEF Past
      <3>5. ASSUME NEW d \in edits, d.to \in H PROVE d.from \in H /\ (d.from = w => d.to = w)
        <4>1. CASE d.to \in G
          BY <3>1, <3>2, <3>3, <4>1 DEF Past
        <4>2. CASE d.to = w
          <5>1. d.from = v \/ d.from = w
            BY <2>2, <4>2 DEF Sane
          <5> QED BY <3>1, <3>3, <4>2, <5>1 DEF Past
        <4> QED BY <3>3, <3>5, <4>1, <4>2
      <3>6. Past(H, w, tab2, edits, births, R)
        BY <3>4, <3>5 DEF Past
      <3> QED BY <3>6
    <2> QED BY <2>1, <2>2
  <1>3. tab2 \cap seen \subseteq tab
    <2> SUFFICES ASSUME w \in seen PROVE w \in tab
      OBVIOUS
    <2>1. PICK G : Past(G, w, tab, edits, births, R)
      BY DEF Sane
    <2>2. v \in G /\ v \in tab
      BY <2>1 DEF Past
    <2> QED BY <2>1, <2>2 DEF Past
  <1>4. \A u \in seen \cup {w} : \E G : Past(G, u, tab2, edits, births, R)
    BY <1>1, <1>2
  <1>5. tab2 \subseteq seen \cup {w} /\ seen \cup {w} \subseteq R /\ births \cap (seen \cup {w}) = {}
    BY <1>0 DEF Sane
  <1>6. \A d \in edits : d.from \in seen \cup {w} /\ d.to \in R /\ d.to \notin births
    BY DEF Sane
  <1>7. \A c, d \in edits : c.to = d.to => c.from = d.from \/ c.from = c.to \/ d.from = d.to
    BY DEF Sane
  <1> QED BY <1>3, <1>4, <1>5, <1>6, <1>7 DEF Sane

\* A row that nobody has seen comes into the tab: one that was asked for, or a new text.
LEMMA BornIsSane ==
    ASSUME NEW tab, NEW seen, NEW edits, NEW births, NEW R, Sane(tab, seen, edits, births, R),
           NEW R2, R \subseteq R2, NEW w \in R2, w \in births \/ w \notin R,
           NEW tab2, tab2 \subseteq tab \cup {w}, NEW births2, births2 \subseteq births \ {w}
    PROVE  Sane(tab2, seen \cup {w}, edits, births2, R2) /\ tab2 \cap seen \subseteq tab
  <1>0. w \notin seen /\ \A d \in edits : d.to # w /\ d.from # w
    BY DEF Sane
  <1>1. ASSUME NEW u \in seen PROVE \E G : Past(G, u, tab2, edits, births2, R2)
    <2>1. PICK G : Past(G, u, tab, edits, births, R)
      BY DEF Sane
    <2>2. w \notin G
      BY <2>1 DEF Past
    <2>3. Past(G, u, tab2, edits, births2, R2)
      BY <2>1, <2>2 DEF Past
    <2> QED BY <2>3
  <1>2. Past({w}, w, tab2, edits, births2, R2)
    BY <1>0 DEF Past
  <1>3. \A u \in seen \cup {w} : \E G : Past(G, u, tab2, edits, births2, R2)
    BY <1>1, <1>2
  <1>4. tab2 \subseteq seen \cup {w} /\ seen \cup {w} \subseteq R2 /\ births2 \subseteq R2 /\ births2 \cap (seen \cup {w}) = {}
    BY <1>0 DEF Sane
  <1>5. \A d \in edits : d.from \in seen \cup {w} /\ d.to \in R2 /\ d.to \notin births2
    BY DEF Sane
  <1>6. \A c, d \in edits : c.to = d.to => c.from = d.from \/ c.from = c.to \/ d.from = d.to
    BY DEF Sane
  <1> QED BY <1>0, <1>3, <1>4, <1>5, <1>6 DEF Sane

-----------------------------------------------------------------------------
(* what the log tells, and one more entry                                  *)

LEMMA NewestFacts ==
    ASSUME NEW n \in Nat, NEW S \in SUBSET (1..n), S # {}
    PROVE  Newest(S) \in S /\ \A j \in S : j <= Newest(S)
  <1>1. IsWellFoundedOn(OpToRel(<, Nat), Nat)
    BY NatLessThanWellFounded
  <1> DEFINE D == {d \in Nat : n - d \in S}
  <1>2. PICK s : s \in S
    OBVIOUS
  <1>3. n - s \in D /\ D \in SUBSET Nat
    BY <1>2
  <1>4. PICK d \in D : \A c \in D : ~(<<c, d>> \in OpToRel(<, Nat))
    BY <1>1, <1>3, WFMin
  <1>5. \A c \in D : ~(c < d)
    BY <1>4 DEF OpToRel
  <1>6. ASSUME NEW j \in S PROVE j <= n - d
    <2>0. j \in Nat /\ j <= n
      OBVIOUS
    <2>3. d \in Nat
      OBVIOUS
    <2>1. n - j \in D
      OBVIOUS
    <2>2. ~(n - j < d)
      BY <1>5, <2>1
    <2> QED BY <2>0, <2>2, <2>3
  <1>7. n - d \in S
    BY <1>4
  <1>8. \E i \in S : \A j \in S : j <= i
    BY <1>6, <1>7
  <1> HIDE DEF D
  <1> QED BY <1>8 DEF Newest

\* One log goes on from the other.
GoesOn(log, n, log2) == \A i \in 1..n : log2[i] = log[i]

\* What its next entry adds to what it tells.
CellEntered(log, n, log2, id, f) ==
    /\ \A k \in 0..n : ToldCell(log2, k, id, f) = ToldCell(log, k, id, f)
    /\ ToldCell(log2, n + 1, id, f) =
          IF log2[n + 1].id = id /\ f \in DOMAIN log2[n + 1].change THEN log2[n + 1].change[f].after
          ELSE ToldCell(log, n, id, f)
Entered(log, n, e, log2) ==
    /\ \A id : ToldThere(log2, n + 1, id) <=> IF e.id = id THEN e.kind # "delete" ELSE ToldThere(log, n, id)
    /\ \A id, f : ToldCell(log2, n + 1, id, f) =
          IF e.id = id /\ f \in DOMAIN e.change THEN e.change[f].after ELSE ToldCell(log, n, id, f)
    /\ \A id, f : \A k \in 0..n : ToldCell(log2, k, id, f) = ToldCell(log, k, id, f)

LEMMA ToldCellGrows ==
    ASSUME NEW n \in Nat, NEW log, NEW log2, GoesOn(log, n, log2), NEW id, NEW f
    PROVE  CellEntered(log, n, log2, id, f)
  <1>0. \A i \in 1..n : log2[i] = log[i]
    BY DEF GoesOn
  <1> DEFINE Of(l, k) == {i \in 1..k : l[i].id = id /\ f \in DOMAIN l[i].change}
  <1>1. \A l, k : ToldCell(l, k, id, f) = IF Of(l, k) = {} THEN 0 ELSE l[Newest(Of(l, k))].change[f].after
    BY DEF ToldCell
  <1>2. ASSUME NEW k \in 0..n PROVE ToldCell(log2, k, id, f) = ToldCell(log, k, id, f)
    <2>1. Of(log2, k) = Of(log, k) /\ Of(log, k) \in SUBSET (1..k)
      BY <1>0
    <2> HIDE DEF Of
    <2>2. CASE Of(log, k) = {}
      BY <1>1, <2>1, <2>2
    <2>3. CASE Of(log, k) # {}
      <3>1. Newest(Of(log, k)) \in 1..k
        <4>1. k \in Nat
          OBVIOUS
        <4> QED BY <2>1, <2>3, <4>1, NewestFacts
      <3>2. log2[Newest(Of(log, k))] = log[Newest(Of(log, k))]
        BY <1>0, <3>1
      <3> QED BY <1>1, <2>1, <2>3, <3>2
    <2> QED BY <2>2, <2>3
  <1>3. ToldCell(log2, n + 1, id, f) =
            IF log2[n + 1].id = id /\ f \in DOMAIN log2[n + 1].change THEN log2[n + 1].change[f].after
            ELSE ToldCell(log, n, id, f)
    <2>1. CASE log2[n + 1].id = id /\ f \in DOMAIN log2[n + 1].change
      <3>1. n + 1 \in Of(log2, n + 1) /\ Of(log2, n + 1) \in SUBSET (1..(n + 1))
        BY <2>1
      <3> HIDE DEF Of
      <3>2. Newest(Of(log2, n + 1)) = n + 1
        <4>1. n + 1 \in Nat
          OBVIOUS
        <4>2. Newest(Of(log2, n + 1)) \in Of(log2, n + 1) /\ n + 1 <= Newest(Of(log2, n + 1))
          BY <3>1, <4>1, NewestFacts
        <4> QED BY <3>1, <4>2
      <3> QED BY <1>1, <2>1, <3>1, <3>2
    <2>2. CASE ~(log2[n + 1].id = id /\ f \in DOMAIN log2[n + 1].change)
      <3>1. Of(log2, n + 1) = Of(log2, n)
        BY <2>2
      <3> HIDE DEF Of
      <3>2. ToldCell(log2, n + 1, id, f) = ToldCell(log2, n, id, f)
        BY <1>1, <3>1
      <3> QED BY <1>2, <2>2, <3>2
    <2> QED BY <2>1, <2>2
  <1> QED BY <1>2, <1>3 DEF CellEntered

LEMMA ToldThereGrows ==
    ASSUME NEW n \in Nat, NEW log, NEW log2, GoesOn(log, n, log2), NEW id
    PROVE  ToldThere(log2, n + 1, id) <=>
               IF log2[n + 1].id = id THEN log2[n + 1].kind # "delete" ELSE ToldThere(log, n, id)
  <1>0. \A i \in 1..n : log2[i] = log[i]
    BY DEF GoesOn
  <1> DEFINE Of(l, k) == {i \in 1..k : l[i].id = id}
  <1>1. \A l, k : ToldThere(l, k, id) <=> IF Of(l, k) = {} THEN id \in FirstSlugs ELSE l[Newest(Of(l, k))].kind # "delete"
    BY DEF ToldThere
  <1>2. CASE log2[n + 1].id = id
    <2>1. n + 1 \in Of(log2, n + 1) /\ Of(log2, n + 1) \in SUBSET (1..(n + 1))
      BY <1>2
    <2> HIDE DEF Of
    <2>2. Newest(Of(log2, n + 1)) = n + 1
      <3>1. n + 1 \in Nat
        OBVIOUS
      <3>2. Newest(Of(log2, n + 1)) \in Of(log2, n + 1) /\ n + 1 <= Newest(Of(log2, n + 1))
        BY <2>1, <3>1, NewestFacts
      <3> QED BY <2>1, <3>2
    <2> QED BY <1>1, <1>2, <2>1, <2>2
  <1>3. CASE log2[n + 1].id # id
    <2>1. Of(log2, n + 1) = Of(log, n) /\ Of(log, n) \in SUBSET (1..n)
      BY <1>0, <1>3
    <2> HIDE DEF Of
    <2>2. CASE Of(log, n) = {}
      BY <1>1, <1>3, <2>1, <2>2
    <2>3. CASE Of(log, n) # {}
      <3>1. Newest(Of(log, n)) \in 1..n
        BY <2>1, <2>3, NewestFacts
      <3>2. log2[Newest(Of(log, n))] = log[Newest(Of(log, n))]
        BY <1>0, <3>1
      <3> QED BY <1>1, <1>3, <2>1, <2>3, <3>2
    <2> QED BY <2>2, <2>3
  <1> QED BY <1>2, <1>3

-----------------------------------------------------------------------------
\* What the log and the tab say of one another.
OneRowEach(rows) == \A i, j \in DOMAIN rows : rows[i].id = rows[j].id => i = j
Tells(log, rows) ==
    /\ \A id \in Slugs : (\E i \in DOMAIN rows : rows[i].id = id) <=> ToldThere(log, Len(log), id)
    /\ \A i \in DOMAIN rows, f \in Fields : rows[i][f] = ToldCell(log, Len(log), rows[i].id, f)
    /\ \A i \in DOMAIN log : log[i].kind = "save" =>
          \A f \in DOMAIN log[i].change : log[i].change[f].before = ToldCell(log, i - 1, log[i].id, f)

LEMMA AuditTells == AuditTellsTheTab <=> (~twice => Tells(audit, collections))
  BY DEF AuditTellsTheTab, Tells, Bearing

LEMMA LogGrows ==
    ASSUME NEW S, NEW log \in Seq(S), NEW e, NEW log2, log2 = Append(log, e)
    PROVE  /\ Len(log) \in Nat /\ Len(log2) = Len(log) + 1 /\ log2[Len(log) + 1] = e
           /\ DOMAIN log = 1..Len(log) /\ DOMAIN log2 = 1..(Len(log) + 1)
           /\ \A i \in 1..Len(log) : log2[i] = log[i]
           /\ GoesOn(log, Len(log), log2)
           /\ \E T : log2 \in Seq(T)
  <1>1. PICK T : T = S \cup {e}
    OBVIOUS
  <1>2. log \in Seq(T) /\ e \in T
    BY <1>1
  <1>3. log2 \in Seq(T) /\ Len(log2) = Len(log) + 1 /\ log2[Len(log) + 1] = e
        /\ \A i \in 1..Len(log) : log2[i] = log[i]
    BY <1>2, AppendProperties
  <1> QED BY <1>2, <1>3, LenProperties DEF GoesOn

LEMMA EntryTells ==
    ASSUME NEW S, NEW log \in Seq(S), NEW e, NEW log2, log2 = Append(log, e), NEW n, n = Len(log)
    PROVE  Entered(log, n, e, log2)
  <1>1. n \in Nat /\ log2[n + 1] = e /\ GoesOn(log, n, log2)
    BY LogGrows
  <1>2. ASSUME NEW id
        PROVE  ToldThere(log2, n + 1, id) <=> IF e.id = id THEN e.kind # "delete" ELSE ToldThere(log, n, id)
    <2>1. ToldThere(log2, n + 1, id) <=> IF log2[n + 1].id = id THEN log2[n + 1].kind # "delete" ELSE ToldThere(log, n, id)
      BY <1>1, ToldThereGrows
    <2> QED BY <1>1, <2>1
  <1>3. ASSUME NEW id, NEW f
        PROVE  /\ ToldCell(log2, n + 1, id, f) =
                     IF e.id = id /\ f \in DOMAIN e.change THEN e.change[f].after ELSE ToldCell(log, n, id, f)
               /\ \A k \in 0..n : ToldCell(log2, k, id, f) = ToldCell(log, k, id, f)
    <2>1. CellEntered(log, n, log2, id, f)
      BY <1>1, ToldCellGrows
    <2> QED BY <1>1, <2>1 DEF CellEntered
  <1> QED BY <1>2, <1>3 DEF Entered

\* A row is changed and the log tells how.
LEMMA ChangeTold ==
    ASSUME NEW S, NEW log \in Seq(S), NEW e, NEW log2, log2 = Append(log, e), NEW rows, OneRowEach(rows), Tells(log, rows),
           NEW k \in DOMAIN rows, NEW row, row.id = rows[k].id, NEW rows2, rows2 = [rows EXCEPT ![k] = row],
           e.kind = "save", e.id = rows[k].id, e.change = diffFields(rows[k], row)
    PROVE  Tells(log2, rows2) /\ OneRowEach(rows2)
  <1> DEFINE n == Len(log)
  <1>1. /\ n \in Nat /\ Len(log2) = n + 1 /\ log2[n + 1] = e /\ DOMAIN log = 1..n /\ DOMAIN log2 = 1..(n + 1)
        /\ \A i \in 1..n : log2[i] = log[i]
    BY LogGrows
  <1>2. DOMAIN rows2 = DOMAIN rows /\ \A i \in DOMAIN rows : rows2[i] = IF i = k THEN row ELSE rows[i]
    OBVIOUS
  <1>3. \A i \in DOMAIN rows : rows2[i].id = rows[i].id
    BY <1>2
  <1>0. /\ \A id : ToldThere(log2, n + 1, id) <=> IF e.id = id THEN e.kind # "delete" ELSE ToldThere(log, n, id)
        /\ \A id, f : ToldCell(log2, n + 1, id, f) =
               IF e.id = id /\ f \in DOMAIN e.change THEN e.change[f].after ELSE ToldCell(log, n, id, f)
        /\ \A id, f : \A j \in 0..n : ToldCell(log2, j, id, f) = ToldCell(log, j, id, f)
    <2>1. PICK z : z = Len(log)
      OBVIOUS
    <2>2. Entered(log, z, e, log2)
      BY <2>1, EntryTells
    <2> QED BY <2>1, <2>2 DEF Entered
  <1> HIDE DEF n
  <1>4. ASSUME NEW id \in Slugs PROVE (\E i \in DOMAIN rows2 : rows2[i].id = id) <=> ToldThere(log2, n + 1, id)
    <2>1. ToldThere(log2, n + 1, id) <=> IF e.id = id THEN e.kind # "delete" ELSE ToldThere(log, n, id)
      BY <1>0
    <2> QED BY <1>2, <1>3, <2>1 DEF Tells, n
  <1>5. \A f \in DOMAIN e.change : f \in Fields /\ e.change[f].before = rows[k][f] /\ e.change[f].after = row[f]
    BY DEF diffFields
  <1>6. \A f \in Fields : f \notin DOMAIN e.change => rows[k][f] = row[f]
    BY DEF diffFields
  <1>7. ASSUME NEW i \in DOMAIN rows2, NEW f \in Fields PROVE rows2[i][f] = ToldCell(log2, n + 1, rows2[i].id, f)
    <2>1. ToldCell(log2, n + 1, rows[i].id, f) =
              IF e.id = rows[i].id /\ f \in DOMAIN e.change THEN e.change[f].after ELSE ToldCell(log, n, rows[i].id, f)
      BY <1>0
    <2>2. rows[i][f] = ToldCell(log, n, rows[i].id, f)
      BY <1>2 DEF Tells, n
    <2>3. CASE i = k
      BY <1>2, <1>3, <1>5, <1>6, <2>1, <2>2, <2>3
    <2>4. CASE i # k
      <3>1. e.id # rows[i].id
        BY <1>2, <2>4 DEF OneRowEach
      <3> QED BY <1>2, <1>3, <2>1, <2>2, <2>4, <3>1
    <2> QED BY <2>3, <2>4
  <1>8. ASSUME NEW i \in DOMAIN log2, log2[i].kind = "save", NEW f \in DOMAIN log2[i].change
        PROVE  log2[i].change[f].before = ToldCell(log2, i - 1, log2[i].id, f)
    <2>1. i - 1 \in 0..n
      BY <1>1
    <2>2. ToldCell(log2, i - 1, log2[i].id, f) = ToldCell(log, i - 1, log2[i].id, f)
      BY <1>0, <2>1
    <2>3. CASE i = n + 1
      <3>1. e.change[f].before = rows[k][f] /\ f \in Fields
        BY <1>1, <1>5, <1>8, <2>3
      <3>2. rows[k][f] = ToldCell(log, n, rows[k].id, f)
        BY <3>1 DEF Tells, n
      <3> QED BY <1>1, <2>2, <2>3, <3>1, <3>2
    <2>4. CASE i \in 1..n
      BY <1>1, <1>8, <2>2, <2>4 DEF Tells
    <2> QED BY <1>1, <2>3, <2>4
  <1> QED BY <1>1, <1>2, <1>3, <1>4, <1>7, <1>8 DEF Tells, OneRowEach

\* A row is added and the log tells all of it.
NoneBears(rows, id) == \A i \in DOMAIN rows : rows[i].id # id
TellsAll(change, row) == DOMAIN change = Fields /\ \A f \in Fields : change[f].after = row[f]

LEMMA BirthTold ==
    ASSUME NEW S, NEW log \in Seq(S), NEW e, NEW log2, log2 = Append(log, e), NEW R, NEW rows \in Seq(R), OneRowEach(rows),
           Tells(log, rows), NEW row, NEW rows2, rows2 = Append(rows, row), NoneBears(rows, row.id),
           e.kind = "create", e.id = row.id, TellsAll(e.change, row)
    PROVE  Tells(log2, rows2) /\ OneRowEach(rows2)
  <1>a. \A i \in DOMAIN rows : rows[i].id # row.id
    BY DEF NoneBears
  <1>b. DOMAIN e.change = Fields /\ \A f \in Fields : e.change[f].after = row[f]
    BY DEF TellsAll
  <1> DEFINE n == Len(log)
             m == Len(rows)
  <1>1. /\ n \in Nat /\ Len(log2) = n + 1 /\ log2[n + 1] = e /\ DOMAIN log = 1..n /\ DOMAIN log2 = 1..(n + 1)
        /\ \A i \in 1..n : log2[i] = log[i]
    BY LogGrows
  <1>2. m \in Nat /\ rows2[m + 1] = row /\ DOMAIN rows = 1..m /\ DOMAIN rows2 = 1..(m + 1) /\ \A i \in 1..m : rows2[i] = rows[i]
    BY LogGrows
  <1>0. /\ \A id : ToldThere(log2, n + 1, id) <=> IF e.id = id THEN e.kind # "delete" ELSE ToldThere(log, n, id)
        /\ \A id, f : ToldCell(log2, n + 1, id, f) =
               IF e.id = id /\ f \in DOMAIN e.change THEN e.change[f].after ELSE ToldCell(log, n, id, f)
        /\ \A id, f : \A j \in 0..n : ToldCell(log2, j, id, f) = ToldCell(log, j, id, f)
    <2>1. PICK z : z = Len(log)
      OBVIOUS
    <2>2. Entered(log, z, e, log2)
      BY <2>1, EntryTells
    <2> QED BY <2>1, <2>2 DEF Entered
  <1> HIDE DEF n, m
  <1>4. ASSUME NEW id \in Slugs PROVE (\E i \in DOMAIN rows2 : rows2[i].id = id) <=> ToldThere(log2, n + 1, id)
    <2>1. ToldThere(log2, n + 1, id) <=> IF e.id = id THEN e.kind # "delete" ELSE ToldThere(log, n, id)
      BY <1>0
    <2>2. (\E i \in DOMAIN rows2 : rows2[i].id = id) <=> (row.id = id \/ \E i \in DOMAIN rows : rows[i].id = id)
      BY <1>2, <1>a, SMTT(30)
    <2> QED BY <2>1, <2>2 DEF Tells, n
  <1>7. ASSUME NEW i \in DOMAIN rows2, NEW f \in Fields PROVE rows2[i][f] = ToldCell(log2, n + 1, rows2[i].id, f)
    <2>1. ToldCell(log2, n + 1, rows2[i].id, f) =
              IF e.id = rows2[i].id /\ f \in DOMAIN e.change THEN e.change[f].after ELSE ToldCell(log, n, rows2[i].id, f)
      BY <1>0
    <2>3. CASE i = m + 1
      BY <1>2, <1>b, <2>1, <2>3
    <2>4. CASE i \in DOMAIN rows
      <3>1. e.id # rows[i].id /\ rows2[i] = rows[i]
        BY <1>2, <1>a, <2>4
      <3>2. rows[i][f] = ToldCell(log, n, rows[i].id, f)
        BY <2>4 DEF Tells, n
      <3> QED BY <2>1, <3>1, <3>2
    <2> QED BY <1>2, <2>3, <2>4
  <1>8. ASSUME NEW i \in DOMAIN log2, log2[i].kind = "save", NEW f \in DOMAIN log2[i].change
        PROVE  log2[i].change[f].before = ToldCell(log2, i - 1, log2[i].id, f)
    <2>1. i \in 1..n
      BY <1>1, <1>8
    <2>2. i - 1 \in 0..n
      BY <1>1, <2>1
    <2>3. ToldCell(log2, i - 1, log2[i].id, f) = ToldCell(log, i - 1, log2[i].id, f)
      BY <1>0, <2>2
    <2> QED BY <1>1, <1>8, <2>1, <2>3 DEF Tells
  <1>9. OneRowEach(rows2)
    BY <1>2, <1>a DEF OneRowEach
  <1> QED BY <1>1, <1>4, <1>7, <1>8, <1>9 DEF Tells

\* A row is deleted and the log tells it.
LEMMA DeletionTold ==
    ASSUME NEW S, NEW log \in Seq(S), NEW e, NEW log2, log2 = Append(log, e), NEW R, NEW rows \in Seq(R), OneRowEach(rows),
           Tells(log, rows), NEW k \in DOMAIN rows, NEW rows2, rows2 = RemoveAt(rows, k),
           e.kind = "delete", e.id = rows[k].id, e.change = <<>>
    PROVE  Tells(log2, rows2) /\ OneRowEach(rows2)
  <1> DEFINE n == Len(log)
             m == Len(rows)
  <1>1. /\ n \in Nat /\ Len(log2) = n + 1 /\ log2[n + 1] = e /\ DOMAIN log = 1..n /\ DOMAIN log2 = 1..(n + 1)
        /\ \A i \in 1..n : log2[i] = log[i]
    BY LogGrows
  <1>2. m \in Nat /\ DOMAIN rows = 1..m /\ k \in 1..m
    BY LenProperties
  <1>3. DOMAIN rows2 = 1..(m - 1) /\ \A i \in 1..(m - 1) : rows2[i] = IF i < k THEN rows[i] ELSE rows[i + 1]
    BY <1>2, RemoveAtRows, LenProperties
  <1>0. /\ \A id : ToldThere(log2, n + 1, id) <=> IF e.id = id THEN e.kind # "delete" ELSE ToldThere(log, n, id)
        /\ \A id, f : ToldCell(log2, n + 1, id, f) =
               IF e.id = id /\ f \in DOMAIN e.change THEN e.change[f].after ELSE ToldCell(log, n, id, f)
        /\ \A id, f : \A j \in 0..n : ToldCell(log2, j, id, f) = ToldCell(log, j, id, f)
    <2>1. PICK z : z = Len(log)
      OBVIOUS
    <2>2. Entered(log, z, e, log2)
      BY <2>1, EntryTells
    <2> QED BY <2>1, <2>2 DEF Entered
  <1> HIDE DEF n, m
  <1>4. ASSUME NEW i \in DOMAIN rows2 PROVE \E j \in DOMAIN rows \ {k} : rows2[i] = rows[j]
    <2>1. CASE i < k
      BY <1>2, <1>3, <2>1
    <2>2. CASE ~(i < k)
      <3>1. i + 1 \in DOMAIN rows \ {k} /\ rows2[i] = rows[i + 1]
        BY <1>2, <1>3, <2>2
      <3> QED BY <3>1
    <2> QED BY <2>1, <2>2
  <1>5. ASSUME NEW j \in DOMAIN rows \ {k} PROVE \E i \in DOMAIN rows2 : rows2[i] = rows[j]
    <2>1. CASE j < k
      BY <1>2, <1>3, <2>1
    <2>2. CASE j > k
      <3>1. j - 1 \in DOMAIN rows2 /\ ~(j - 1 < k) /\ (j - 1) + 1 = j
        BY <1>2, <1>3, <2>2
      <3> QED BY <1>3, <3>1
    <2> QED BY <1>2, <2>1, <2>2
  <1>6. ASSUME NEW id \in Slugs PROVE (\E i \in DOMAIN rows2 : rows2[i].id = id) <=> ToldThere(log2, n + 1, id)
    <2>1. ToldThere(log2, n + 1, id) <=> IF e.id = id THEN e.kind # "delete" ELSE ToldThere(log, n, id)
      BY <1>0
    <2>2. (\E i \in DOMAIN rows2 : rows2[i].id = id) => (id # e.id /\ \E i \in DOMAIN rows : rows[i].id = id)
      <3> SUFFICES ASSUME NEW i \in DOMAIN rows2, rows2[i].id = id PROVE id # e.id /\ \E j \in DOMAIN rows : rows[j].id = id
        OBVIOUS
      <3>1. PICK j \in DOMAIN rows \ {k} : rows2[i] = rows[j]
        BY <1>4
      <3> QED BY <3>1 DEF OneRowEach
    <2>3. (id # e.id /\ \E i \in DOMAIN rows : rows[i].id = id) => \E i \in DOMAIN rows2 : rows2[i].id = id
      <3> SUFFICES ASSUME id # e.id, NEW j \in DOMAIN rows, rows[j].id = id PROVE \E i \in DOMAIN rows2 : rows2[i].id = id
        OBVIOUS
      <3>1. PICK i \in DOMAIN rows2 : rows2[i] = rows[j]
        BY <1>5
      <3> QED BY <3>1
    <2> QED BY <2>1, <2>2, <2>3 DEF Tells, n
  <1>7. ASSUME NEW i \in DOMAIN rows2, NEW f \in Fields PROVE rows2[i][f] = ToldCell(log2, n + 1, rows2[i].id, f)
    <2>1. ToldCell(log2, n + 1, rows2[i].id, f) =
              IF e.id = rows2[i].id /\ f \in DOMAIN e.change THEN e.change[f].after ELSE ToldCell(log, n, rows2[i].id, f)
      BY <1>0
    <2>2. PICK j \in DOMAIN rows \ {k} : rows2[i] = rows[j]
      BY <1>4
    <2>3. e.id # rows[j].id
      BY DEF OneRowEach
    <2>4. rows[j][f] = ToldCell(log, n, rows[j].id, f)
      BY DEF Tells, n
    <2> QED BY <2>1, <2>2, <2>3, <2>4
  <1>8. ASSUME NEW i \in DOMAIN log2, log2[i].kind = "save", NEW f \in DOMAIN log2[i].change
        PROVE  log2[i].change[f].before = ToldCell(log2, i - 1, log2[i].id, f)
    <2>1. i \in 1..n
      BY <1>1, <1>8
    <2>2. i - 1 \in 0..n
      BY <1>1, <2>1
    <2>3. ToldCell(log2, i - 1, log2[i].id, f) = ToldCell(log, i - 1, log2[i].id, f)
      BY <1>0, <2>2
    <2> QED BY <1>1, <1>8, <2>1, <2>3 DEF Tells
  <1>9. OneRowEach(rows2)
    <2> SUFFICES ASSUME NEW i \in DOMAIN rows2, NEW j \in DOMAIN rows2, rows2[i].id = rows2[j].id PROVE i = j
      BY DEF OneRowEach
    <2>1. PICK x \in DOMAIN rows : x = IF i < k THEN i ELSE i + 1
      BY <1>2, <1>3
    <2>2. PICK y \in DOMAIN rows : y = IF j < k THEN j ELSE j + 1
      BY <1>2, <1>3
    <2>3. rows2[i] = rows[x] /\ rows2[j] = rows[y]
      BY <1>3, <2>1, <2>2
    <2>4. x = y
      BY <2>3 DEF OneRowEach
    <2> QED BY <1>2, <1>3, <2>1, <2>2, <2>4
  <1> QED BY <1>1, <1>6, <1>7, <1>8, <1>9 DEF Tells

-----------------------------------------------------------------------------
(* what the page and the requests hold                                     *)

\* The rows whose texts are among the first n.
RowsUpTo(n) == [id : Slugs, name : 0..n, description : 0..n]

\* What a request holds: rows that somebody was shown, what it makes of one, what it asks for.
Pending(q) == q.at \in {"sent", "queued"}
Shown(q) ==
    IF Pending(q) THEN IF q.kind # "create" THEN {q.version} ELSE {}
    ELSE IF q.at = "ok" THEN IF q.kind # "delete" THEN {q.answer} ELSE {}
    ELSE IF q.at = "listed" THEN {q.rows[i] : i \in DOMAIN q.rows} ELSE {}
Edit(v, w) == [from |-> v, to |-> w]
EditsOf(q) == IF Pending(q) /\ q.kind = "save" THEN {Edit(q.version, Cells(q))} ELSE {}
BirthsOf(q) == IF Pending(q) /\ q.kind = "create" THEN {Cells(q)} ELSE {}

TabRows == {collections[i] : i \in DOMAIN collections}
PageRows == {page[k] : k \in DOMAIN page}
Seen == TabRows \cup PageRows \cup UNION {Shown(call[r]) : r \in Calls}
Typing(k) == Edit(page[k], Row(page[k].id, typed[k].cells["name"], typed[k].cells["description"]))
Edits == {Typing(k) : k \in DOMAIN typed} \cup UNION {EditsOf(call[r]) : r \in Calls}
Births == UNION {BirthsOf(call[r]) : r \in Calls}

\* A decided change is right about the row it was asked for, or that row is gone.
ChangeOK(q, tab) ==
    /\ "change" \in DOMAIN q
    /\ q.kind = "create" => DOMAIN q.change = Fields /\ \A f \in Fields : q.change[f].after = q.cells[f]
    /\ q.kind = "delete" => q.change = <<>>
    /\ q.kind = "save" => q.version \notin tab \/ q.change = diffFields(q.version, Cells(q))

CallOK(q, tab) ==
    /\ "at" \in DOMAIN q
    /\ Pending(q) => /\ {"kind", "id", "version", "cells"} \subseteq DOMAIN q
                     /\ q.kind \in {"save", "delete", "create"} /\ q.id \in Slugs
                     /\ q.kind # "create" => q.version.id = q.id
    /\ q.at = "ok" => {"kind", "answer"} \subseteq DOMAIN q
    /\ q.at = "listed" => "rows" \in DOMAIN q
    /\ q.at = "queued" => ChangeOK(q, tab)

CallsApart == \A r, s \in Calls : r # s => BirthsOf(call[r]) \cap BirthsOf(call[s]) = {}
CallsOK == \A r \in Calls : CallOK(call[r], TabRows)
DeskSane == Sane(TabRows, Seen, Edits, Births, RowsUpTo(texts))
IsLog == \E S : audit \in Seq(S)

LogInv ==
    /\ texts \in Nat /\ collections \in Seq(RowsUpTo(texts)) /\ IsLog
    /\ DeskSane /\ CallsApart /\ CallsOK
    /\ OneRowEach(collections) /\ Tells(audit, collections)

-----------------------------------------------------------------------------
LEMMA MoreTexts == \A m, n \in Nat : m <= n => RowsUpTo(m) \subseteq RowsUpTo(n)
  BY DEF RowsUpTo

LEMMA RowIs == \A id, a, b : LET row == Row(id, a, b) IN
    row.id = id /\ row.name = a /\ row.description = b /\ row["name"] = a /\ row["description"] = b
  BY DEF Row

LEMMA RowOfRows == \A n, row : row \in RowsUpTo(n) => row = Row(row.id, row["name"], row["description"]) /\ row.id \in Slugs
  BY DEF Row, RowsUpTo

LEMMA RowInRows == ASSUME NEW n, NEW id \in Slugs, NEW a \in 0..n, NEW b \in 0..n PROVE Row(id, a, b) \in RowsUpTo(n)
  BY DEF Row, RowsUpTo

LEMMA CellsAre == \A q : /\ Cells(q).id = q.id /\ \A f \in Fields : Cells(q)[f] = q.cells[f]
  BY DEF Cells, Row, Fields

LEMMA DiffOfCells == \A row, q : diffFields(row, q.cells) = diffFields(row, Cells(q))
  <1> TAKE row, q
  <1>1. \A f \in Fields : Cells(q)[f] = q.cells[f]
    BY CellsAre
  <1> QED BY <1>1 DEF diffFields

LEMMA EditsFrom == TypedOverThePage => \A e \in Edits : e.from \in Seen
  <1> SUFFICES ASSUME TypedOverThePage, NEW e \in Edits PROVE e.from \in Seen
    OBVIOUS
  <1>1. CASE \E k \in DOMAIN typed : e = Typing(k)
    BY <1>1 DEF TypedOverThePage, Typing, Edit, Seen, PageRows
  <1>2. CASE \E r \in Calls : e \in EditsOf(call[r])
    BY <1>2 DEF EditsOf, Edit, Seen, Shown
  <1> QED BY <1>1, <1>2 DEF Edits

\* What the calls hold when one of them becomes q.
LEMMA CallsBecome ==
    ASSUME DOMAIN call = Calls, NEW r \in Calls, NEW q, call' = [call EXCEPT ![r] = q]
    PROVE  /\ (UNION {Shown(call'[c]) : c \in Calls}) \subseteq (UNION {Shown(call[c]) : c \in Calls}) \cup Shown(q)
           /\ (UNION {EditsOf(call'[c]) : c \in Calls}) \subseteq (UNION {EditsOf(call[c]) : c \in Calls}) \cup EditsOf(q)
           /\ (UNION {BirthsOf(call'[c]) : c \in Calls}) \subseteq (UNION {BirthsOf(call[c]) : c \in Calls \ {r}}) \cup BirthsOf(q)
           /\ \A c \in Calls : call'[c] = IF c = r THEN q ELSE call[c]
  <1>1. \A c \in Calls : call'[c] = IF c = r THEN q ELSE call[c]
    OBVIOUS
  <1>2. \A c \in Calls \ {r} : call'[c] = call[c]
    BY <1>1
  <1>3. call'[r] = q
    BY <1>1
  <1>4. ASSUME NEW x, NEW c \in Calls, x \in Shown(call'[c])
        PROVE  x \in (UNION {Shown(call[d]) : d \in Calls}) \cup Shown(q)
    <2>1. CASE c = r
      <3>1. call'[c] = q
        BY <1>3, <2>1
      <3> QED BY <1>4, <3>1
    <2>2. CASE c # r
      <3>1. call'[c] = call[c]
        BY <1>2, <2>2
      <3> QED BY <1>4, <3>1
    <2> QED BY <2>1, <2>2
  <1>5. ASSUME NEW x, NEW c \in Calls, x \in EditsOf(call'[c])
        PROVE  x \in (UNION {EditsOf(call[d]) : d \in Calls}) \cup EditsOf(q)
    <2>1. CASE c = r
      <3>1. call'[c] = q
        BY <1>3, <2>1
      <3> QED BY <1>5, <3>1
    <2>2. CASE c # r
      <3>1. call'[c] = call[c]
        BY <1>2, <2>2
      <3> QED BY <1>5, <3>1
    <2> QED BY <2>1, <2>2
  <1>6. ASSUME NEW x, NEW c \in Calls, x \in BirthsOf(call'[c])
        PROVE  x \in (UNION {BirthsOf(call[d]) : d \in Calls \ {r}}) \cup BirthsOf(q)
    <2>1. CASE c = r
      <3>1. call'[c] = q
        BY <1>3, <2>1
      <3> QED BY <1>6, <3>1
    <2>2. CASE c # r
      <3>1. call'[c] = call[c] /\ c \in Calls \ {r}
        BY <1>2, <2>2
      <3> QED BY <1>6, <3>1
    <2> QED BY <2>1, <2>2
  <1> QED BY <1>1, <1>4, <1>5, <1>6

\* One request moves on, and the page may take an answer.
LEMMA OneCallMoves ==
    ASSUME LogInv, DeskInv, DeskInv', NEW r \in Calls, NEW q, call' = [call EXCEPT ![r] = q],
           UNCHANGED <<collections, audit, texts>>, PageRows' \subseteq Seen, UNCHANGED <<page, typed>> \/ typed' = <<>>,
           Shown(q) \subseteq Seen, \A e \in EditsOf(q) : e \in Edits \/ e.to = e.from,
           BirthsOf(q) \subseteq BirthsOf(call[r]), CallOK(q, TabRows)
    PROVE  LogInv'
  <1>1. /\ (UNION {Shown(call'[c]) : c \in Calls}) \subseteq (UNION {Shown(call[c]) : c \in Calls}) \cup Shown(q)
        /\ (UNION {EditsOf(call'[c]) : c \in Calls}) \subseteq (UNION {EditsOf(call[c]) : c \in Calls}) \cup EditsOf(q)
        /\ (UNION {BirthsOf(call'[c]) : c \in Calls}) \subseteq (UNION {BirthsOf(call[c]) : c \in Calls \ {r}}) \cup BirthsOf(q)
        /\ \A c \in Calls : call'[c] = IF c = r THEN q ELSE call[c]
    BY CallsBecome DEF DeskInv
  <1>2. TabRows' = TabRows
    BY DEF TabRows
  <1>3. Seen' \subseteq Seen /\ TabRows' \subseteq Seen'
    BY <1>1, <1>2 DEF Seen
  <1>4. Births' \subseteq Births
    BY <1>1 DEF Births
  <1>5. \A e \in Edits' : e \in Edits \/ e.to = e.from
    <2>1. {Typing(k) : k \in DOMAIN typed}' \subseteq {Typing(k) : k \in DOMAIN typed}
      BY DEF Typing
    <2> QED BY <1>1, <2>1 DEF Edits
  <1>6. \A e \in Edits' : e.from \in Seen'
    <2>1. (TypedOverThePage => \A e \in Edits : e.from \in Seen)'
      BY EditsFrom, PTL
    <2> QED BY <2>1 DEF DeskInv
  <1>7. DeskSane'
    <2>1. PICK T, S, E, B, R : T = TabRows' /\ S = Seen' /\ E = Edits' /\ B = Births' /\ R = RowsUpTo(texts')
      OBVIOUS
    <2>2. Sane(TabRows, Seen, Edits, Births, RowsUpTo(texts)) /\ RowsUpTo(texts) = R
      BY <2>1 DEF LogInv, DeskSane
    <2>3. T \in SUBSET TabRows /\ S \in SUBSET Seen /\ T \subseteq S /\ B \in SUBSET Births
          /\ \A e \in E : e.from \in S /\ (e \in Edits \/ e.to = e.from)
      BY <1>2, <1>3, <1>4, <1>5, <1>6, <2>1
    <2>4. Sane(T, S, E, B, R)
      BY <2>2, <2>3, LessIsSane
    <2> QED BY <2>1, <2>4 DEF DeskSane
  <1>8. CallsApart'
    BY <1>1 DEF CallsApart, LogInv
  <1>9. CallsOK'
    BY <1>1, <1>2 DEF CallsOK, LogInv
  <1> QED BY <1>7, <1>8, <1>9 DEF LogInv, IsLog

-----------------------------------------------------------------------------
(* the page asks and hears                                                 *)

LEMMA NoCallHolds == Shown(NoCall) = {} /\ EditsOf(NoCall) = {} /\ BirthsOf(NoCall) = {} /\ \A tab : CallOK(NoCall, tab)
  BY DEF NoCall, Shown, EditsOf, BirthsOf, Pending, CallOK

LEMMA SaveLogged ==
    ASSUME LogInv, DeskInv, DeskInv', NEW r \in Calls, saveCollection(r)
    PROVE  LogInv'
  <1>1. PICK id \in DOMAIN page : \E key \in Drawn(id) : Post(r, Request("save", id, page[key], InRow(key), Over(key))) /\ UNCHANGED texts
    BY DEF saveCollection
  <1>2. PICK key \in Drawn(id) : Post(r, Request("save", id, page[key], InRow(key), Over(key))) /\ UNCHANGED texts
    BY <1>1
  <1>3. PICK q : q = Request("save", id, page[key], InRow(key), Over(key))
    OBVIOUS
  <1>4. call' = [call EXCEPT ![r] = q] /\ UNCHANGED <<collections, audit, texts, page, typed>>
    BY <1>2, <1>3 DEF Post
  <1>5. q.at = "sent" /\ q.kind = "save" /\ q.id = id /\ q.version = page[key] /\ q.cells = InRow(key)
        /\ {"at", "kind", "id", "version", "cells"} \subseteq DOMAIN q
    BY <1>3 DEF Request
  <1>6. key \in DOMAIN page /\ page[key].id = id /\ page[key] \in Seen
    BY DEF Drawn, Seen, PageRows
  <1>7. page[key] \in RowsUpTo(texts)
    BY <1>6 DEF LogInv, DeskSane, Sane
  <1>8. Shown(q) \subseteq Seen /\ BirthsOf(q) = {}
    BY <1>5, <1>6 DEF Shown, BirthsOf, Pending
  <1>9. EditsOf(q) = {Edit(page[key], Row(page[key].id, InRow(key)["name"], InRow(key)["description"]))}
    BY <1>5, <1>6 DEF EditsOf, Pending, Cells
  <1>10. ASSUME NEW e \in EditsOf(q) PROVE e \in Edits \/ e.to = e.from
    <2>1. CASE key \in DOMAIN typed
      BY <1>9, <2>1 DEF Edits, Typing, InRow
    <2>2. CASE key \notin DOMAIN typed
      <3>1. InRow(key)["name"] = page[key]["name"] /\ InRow(key)["description"] = page[key]["description"]
        BY <2>2 DEF InRow, Fields
      <3> QED BY <1>7, <1>9, <3>1, RowOfRows DEF Edit
    <2> QED BY <2>1, <2>2
  <1>11. CallOK(q, TabRows)
    BY <1>5, <1>6, <1>7, RowOfRows DEF CallOK, Pending
  <1>12. PageRows' \subseteq Seen
    BY <1>4 DEF PageRows, Seen
  <1> QED BY <1>4, <1>8, <1>10, <1>11, <1>12, OneCallMoves

LEMMA DeleteLogged ==
    ASSUME LogInv, DeskInv, DeskInv', NEW r \in Calls, deleteCollection(r)
    PROVE  LogInv'
  <1>1. PICK id \in DOMAIN page : \E key \in Drawn(id) : Post(r, Request("delete", id, page[key], None, page[key])) /\ UNCHANGED texts
    BY DEF deleteCollection
  <1>2. PICK key \in Drawn(id) : Post(r, Request("delete", id, page[key], None, page[key])) /\ UNCHANGED texts
    BY <1>1
  <1>3. PICK q : q = Request("delete", id, page[key], None, page[key])
    OBVIOUS
  <1>4. call' = [call EXCEPT ![r] = q] /\ UNCHANGED <<collections, audit, texts, page, typed>>
    BY <1>2, <1>3 DEF Post
  <1>5. q.at = "sent" /\ q.kind = "delete" /\ q.id = id /\ q.version = page[key]
        /\ {"at", "kind", "id", "version", "cells"} \subseteq DOMAIN q
    BY <1>3 DEF Request
  <1>6. key \in DOMAIN page /\ page[key].id = id /\ page[key] \in Seen
    BY DEF Drawn, Seen, PageRows
  <1>7. page[key] \in RowsUpTo(texts)
    BY <1>6 DEF LogInv, DeskSane, Sane
  <1>8. Shown(q) \subseteq Seen /\ BirthsOf(q) = {} /\ EditsOf(q) = {}
    BY <1>5, <1>6 DEF Shown, BirthsOf, EditsOf, Pending
  <1>11. CallOK(q, TabRows)
    BY <1>5, <1>6, <1>7, RowOfRows DEF CallOK, Pending
  <1>12. PageRows' \subseteq Seen
    BY <1>4 DEF PageRows, Seen
  <1> QED BY <1>4, <1>8, <1>11, <1>12, OneCallMoves

LEMMA HearLogged ==
    ASSUME LogInv, DeskInv, DeskInv', NEW r \in Calls, Hear(r)
    PROVE  LogInv'
  <1>1. UNCHANGED <<collections, audit, texts>>
    BY DEF Hear
  <1>2. \E q : /\ call' = [call EXCEPT ![r] = q] /\ Shown(q) = {} /\ EditsOf(q) = {} /\ BirthsOf(q) = {} /\ CallOK(q, TabRows)
    <2>1. \/ call' = [call EXCEPT ![r] = NoCall]
          \/ call' = [call EXCEPT ![r] = [at |-> "asked", heard |-> TRUE]]
      BY DEF Hear, Took, Refused, refresh, DeskInv
    <2>2. PICK q : q = [at |-> "asked", heard |-> TRUE]
      OBVIOUS
    <2>3. Shown(q) = {} /\ EditsOf(q) = {} /\ BirthsOf(q) = {} /\ CallOK(q, TabRows)
      BY <2>2 DEF Shown, EditsOf, BirthsOf, Pending, CallOK
    <2>4. CASE call' = [call EXCEPT ![r] = NoCall]
      BY <2>4, NoCallHolds
    <2>5. CASE call' = [call EXCEPT ![r] = [at |-> "asked", heard |-> TRUE]]
      BY <2>2, <2>3, <2>5
    <2> QED BY <2>1, <2>4, <2>5
  <1>3. UNCHANGED <<page, typed>> \/ typed' = <<>>
    BY DEF Hear, Took, Refused, refresh, renderCollections
  <1>4. PageRows' \subseteq Seen
    <2>1. PageRows \subseteq Seen /\ Shown(call[r]) \subseteq Seen
      BY DEF Seen
    <2>2. CASE UNCHANGED page
      BY <2>1, <2>2 DEF PageRows
    <2>3. CASE Took(r)
      <3>1. call[r].at = "ok"
        BY <2>3 DEF Took
      <3>2. call[r].kind # "delete" => call[r].answer \in Seen
        BY <2>1, <3>1 DEF Shown, Pending
      <3>3. CASE call[r].kind = "delete"
        <4>1. page' = [k \in DOMAIN page \ {call[r].id} |-> page[k]]
          BY <2>3, <3>3 DEF Took
        <4> QED BY <2>1, <4>1 DEF PageRows
      <3>4. CASE call[r].kind # "delete"
        <4>1. \E key : page' = Keep(key, call[r].answer)
          BY <2>3, <3>4 DEF Took
        <4>2. PICK key : page' = Keep(key, call[r].answer)
          BY <4>1
        <4>3. DOMAIN page' = DOMAIN page \cup {key} /\ \A k \in DOMAIN page' : page'[k] = IF k = key THEN call[r].answer ELSE page[k]
          BY <4>2 DEF Keep
        <4> QED BY <2>1, <3>2, <3>4, <4>3 DEF PageRows
      <3> QED BY <3>3, <3>4
    <2>4. CASE refresh(r)
      <3>1. PICK rows : rows = call[r].rows
        OBVIOUS
      <3>2. page' = ById(rows) /\ call[r].at = "listed"
        BY <2>4, <3>1 DEF refresh
      <3>3. \A i \in DOMAIN rows : rows[i] \in Seen
        BY <2>1, <3>1, <3>2 DEF Shown, Pending
      <3>4. ASSUME NEW k \in DOMAIN page' PROVE page'[k] \in Seen
        <4>1. page'[k] = rows[CHOOSE i \in DOMAIN rows : rows[i].id = k] /\ \E i \in DOMAIN rows : rows[i].id = k
          BY <3>2 DEF ById
        <4> QED BY <3>3, <4>1
      <3> QED BY <3>4 DEF PageRows
    <2> QED BY <2>2, <2>3, <2>4 DEF Hear, Refused
  <1>5. PICK q : call' = [call EXCEPT ![r] = q] /\ Shown(q) = {} /\ EditsOf(q) = {} /\ BirthsOf(q) = {} /\ CallOK(q, TabRows)
    BY <1>2
  <1> QED BY <1>1, <1>3, <1>4, <1>5, OneCallMoves

-----------------------------------------------------------------------------
(* the endpoints before the lock                                           *)

\* A request gets an answer that shows at most a row of the tab.
LEMMA ReplyLogged ==
    ASSUME LogInv, DeskInv, DeskInv', NEW r \in Calls, NEW status, NEW answer, Reply(r, status, answer),
           status \in {"conflict", "refused", "unchanged", "ok"}, status = "ok" => answer \in TabRows,
           UNCHANGED <<collections, audit, texts, page, typed>>
    PROVE  LogInv'
  <1>1. PICK q : q = [at |-> status, heard |-> call[r].heard, kind |-> call[r].kind, id |-> call[r].id, answer |-> answer]
    OBVIOUS
  <1>2. call' = [call EXCEPT ![r] = q]
    BY <1>1 DEF Reply, DeskInv
  <1>3. q.at = status /\ q.answer = answer /\ {"at", "kind", "answer"} \subseteq DOMAIN q
    BY <1>1
  <1>4. Shown(q) \subseteq Seen /\ EditsOf(q) = {} /\ BirthsOf(q) = {}
    BY <1>3 DEF Shown, EditsOf, BirthsOf, Pending, Seen
  <1>5. CallOK(q, TabRows)
    BY <1>3 DEF CallOK, Pending
  <1>6. PageRows' \subseteq Seen
    BY DEF PageRows, Seen
  <1> QED BY <1>2, <1>4, <1>5, <1>6, OneCallMoves

\* A request is decided, and its change is right about the row it was asked for unless that is gone.
LEMMA GoingLogged ==
    ASSUME LogInv, DeskInv, DeskInv', NEW r \in Calls, call[r].at = "sent", NEW i, NEW change, Going(r, i, change, call[r].cells),
           UNCHANGED <<collections, audit, texts, page, typed>>,
           call[r].kind = "create" => DOMAIN change = Fields /\ \A f \in Fields : change[f].after = call[r].cells[f],
           call[r].kind = "delete" => change = <<>>,
           call[r].kind = "save" => call[r].version \notin TabRows \/ change = diffFields(call[r].version, call[r].cells)
    PROVE  LogInv'
  <1>1. PICK old : old = call[r]
    OBVIOUS
  <1>2. PICK q : q = [at |-> "queued", heard |-> old.heard, kind |-> old.kind, id |-> old.id,
                      version |-> old.version, over |-> old.over, row |-> i, cells |-> old.cells, change |-> change]
    OBVIOUS
  <1>3. call' = [call EXCEPT ![r] = q]
    BY <1>1, <1>2 DEF Going, DeskInv
  <1>4. q.at = "queued" /\ q.kind = old.kind /\ q.id = old.id /\ q.version = old.version /\ q.cells = old.cells /\ q.change = change
        /\ {"at", "kind", "id", "version", "cells", "change"} \subseteq DOMAIN q
    BY <1>2
  <1>5. old.at = "sent" /\ CallOK(old, TabRows)
    BY <1>1 DEF LogInv, CallsOK
  <1>6. Shown(q) = Shown(old) /\ BirthsOf(q) = BirthsOf(old) /\ EditsOf(q) = EditsOf(old)
    BY <1>4, <1>5 DEF Shown, EditsOf, BirthsOf, Pending, Cells
  <1>7. Shown(old) \subseteq Seen /\ EditsOf(old) \subseteq Edits
    BY <1>1 DEF Seen, Edits
  <1>8. ChangeOK(q, TabRows)
    <2>1. q.kind = "save" => q.version \notin TabRows \/ q.change = diffFields(q.version, q.cells)
      BY <1>1, <1>4
    <2> QED BY <1>1, <1>4, <2>1, DiffOfCells DEF ChangeOK
  <1>9. CallOK(q, TabRows)
    BY <1>4, <1>5, <1>8 DEF CallOK, Pending
  <1>10. PageRows' \subseteq Seen
    BY DEF PageRows, Seen
  <1> QED BY <1>1, <1>3, <1>6, <1>7, <1>9, <1>10, OneCallMoves

LEMMA FirstFacts ==
    ASSUME collections \in Seq(RowsUpTo(texts)), NEW id, Bearing(id) # {}
    PROVE  First(id) \in DOMAIN collections /\ collections[First(id)].id = id
  <1>1. IsWellFoundedOn(OpToRel(<, Nat), Nat)
    BY NatLessThanWellFounded
  <1>2. Bearing(id) \in SUBSET Nat /\ Bearing(id) \subseteq DOMAIN collections
    BY LenProperties DEF Bearing
  <1>3. PICK x \in Bearing(id) : \A y \in Bearing(id) : ~(<<y, x>> \in OpToRel(<, Nat))
    BY <1>1, <1>2, WFMin
  <1>4. \A y \in Bearing(id) : ~(y < x)
    BY <1>2, <1>3 DEF OpToRel
  <1>5. \A y \in Bearing(id) : x <= y
    BY <1>2, <1>4
  <1>6. First(id) \in Bearing(id)
    BY <1>5 DEF First
  <1> QED BY <1>6 DEF Bearing

LEMMA CheckLogged ==
    ASSUME LogInv, DeskInv, DeskInv', NEW r \in Calls, Check(r), UNCHANGED <<texts, page, typed>>
    PROVE  LogInv'
  <1> DEFINE q == call[r]
             current == collections[First(q.id)]
  <1>0. q.at = "sent" /\ UNCHANGED <<collections, audit>> /\ CallOK(q, TabRows)
    BY DEF Check, LogInv, CallsOK
  <1>1. q.kind \in {"save", "delete", "create"}
    BY <1>0 DEF CallOK, Pending
  <1>2. CASE q.kind = "create"
    <2>1. \/ Reply(r, "conflict", None)
          \/ Going(r, 0, [f \in Fields |-> [before |-> 0, after |-> q.cells[f]]], q.cells)
      BY <1>2 DEF Check
    <2>2. PICK change : change = [f \in Fields |-> [before |-> 0, after |-> q.cells[f]]]
      OBVIOUS
    <2>3. DOMAIN change = Fields /\ \A f \in Fields : change[f].after = q.cells[f]
      BY <2>2
    <2>4. CASE Reply(r, "conflict", None)
      BY <1>0, <2>4, ReplyLogged
    <2>5. CASE Going(r, 0, change, q.cells)
      BY <1>0, <1>2, <2>3, <2>5, GoingLogged
    <2> QED BY <2>1, <2>2, <2>4, <2>5
  <1>3. CASE q.kind # "create" /\ Bearing(q.id) = {}
    <2>1. Reply(r, "refused", None)
      BY <1>3 DEF Check
    <2> QED BY <1>0, <2>1, ReplyLogged
  <1>4. CASE q.kind = "save" /\ Bearing(q.id) # {}
    <2>1. \/ Reply(r, "unchanged", None)
          \/ Going(r, First(q.id), diffFields(current, q.cells), q.cells)
      BY <1>4 DEF Check
    <2>2. q.version \in TabRows => q.version = current
      <3>1. First(q.id) \in DOMAIN collections /\ current.id = q.id
        BY <1>4, FirstFacts DEF LogInv
      <3>2. q.version.id = q.id
        BY <1>0, <1>4 DEF CallOK, Pending
      <3>3. OneRowEach(collections)
        BY DEF LogInv
      <3> QED BY <3>1, <3>2, <3>3 DEF OneRowEach, TabRows
    <2>3. PICK i, change : i = First(q.id) /\ change = diffFields(current, q.cells)
      OBVIOUS
    <2>4. CASE Reply(r, "unchanged", None)
      BY <1>0, <2>4, ReplyLogged
    <2>5. CASE Going(r, i, change, q.cells)
      <3>1. q.version \notin TabRows \/ change = diffFields(q.version, q.cells)
        BY <2>2, <2>3
      <3> QED BY <1>0, <1>4, <2>5, <3>1, GoingLogged
    <2> QED BY <2>1, <2>3, <2>4, <2>5
  <1>5. CASE q.kind = "delete" /\ Bearing(q.id) # {}
    <2>1. Going(r, First(q.id), <<>>, q.cells)
      BY <1>5 DEF Check
    <2>2. PICK i, change : i = First(q.id) /\ change = <<>>
      OBVIOUS
    <2>3. Going(r, i, change, q.cells)
      BY <2>1, <2>2
    <2> QED BY <1>0, <1>5, <2>2, <2>3, GoingLogged
  <1> QED BY <1>1, <1>2, <1>3, <1>4, <1>5

LEMMA ListLogged ==
    ASSUME LogInv, DeskInv, DeskInv', NEW r \in Calls, List(r), UNCHANGED <<texts, page, typed>>
    PROVE  LogInv'
  <1>1. PICK q : q = [at |-> "listed", heard |-> call[r].heard, rows |-> collections]
    OBVIOUS
  <1>2. call' = [call EXCEPT ![r] = q] /\ UNCHANGED <<collections, audit>>
    BY <1>1 DEF List, DeskInv
  <1>3. q.at = "listed" /\ q.rows = collections /\ {"at", "rows"} \subseteq DOMAIN q
    BY <1>1
  <1>4. Shown(q) \subseteq Seen /\ EditsOf(q) = {} /\ BirthsOf(q) = {}
    BY <1>3 DEF Shown, EditsOf, BirthsOf, Pending, Seen, TabRows
  <1>5. CallOK(q, TabRows)
    BY <1>3 DEF CallOK, Pending
  <1>6. PageRows' \subseteq Seen
    BY DEF PageRows, Seen
  <1> QED BY <1>2, <1>4, <1>5, <1>6, OneCallMoves

LEMMA UpsetLogged ==
    ASSUME LogInv, DeskInv, DeskInv', NEW r \in Calls, Upset(r)
    PROVE  LogInv'
  <1>1. UNCHANGED <<collections, audit, texts, page, typed>>
    BY DEF Upset
  <1>2. CASE Reply(r, "refused", None)
    BY <1>1, <1>2, ReplyLogged
  <1>3. CASE call' = [call EXCEPT ![r].heard = FALSE]
    <2>1. call' = [call EXCEPT ![r] = [call[r] EXCEPT !["heard"] = FALSE]]
      BY <1>3, Zenon
    <2>2. PICK old : old = call[r]
      OBVIOUS
    <2> DEFINE q == [old EXCEPT !["heard"] = FALSE]
    <2>3. call' = [call EXCEPT ![r] = q]
      BY <2>1, <2>2, Zenon
    <2>4. DOMAIN q = DOMAIN old /\ \A f \in DOMAIN old : f # "heard" => q[f] = old[f]
      OBVIOUS
    <2> HIDE DEF q
    <2>5. CallOK(old, TabRows) /\ Shown(old) \subseteq Seen /\ EditsOf(old) \subseteq Edits
      BY <2>2 DEF LogInv, CallsOK, Seen, Edits
    <2>6. q.at = old.at
      BY <2>4, <2>5 DEF CallOK
    <2>7. Pending(old) => q.kind = old.kind /\ q.id = old.id /\ q.version = old.version /\ q.cells = old.cells
      BY <2>4, <2>5 DEF CallOK
    <2>8. /\ old.at = "ok" => q.kind = old.kind /\ q.answer = old.answer
          /\ old.at = "listed" => q.rows = old.rows
          /\ old.at = "queued" => q.change = old.change
      BY <2>4, <2>5 DEF CallOK, ChangeOK
    <2>9. Shown(q) = Shown(old) /\ EditsOf(q) = EditsOf(old) /\ BirthsOf(q) = BirthsOf(old)
      BY <2>6, <2>7, <2>8 DEF Shown, EditsOf, BirthsOf, Pending, Cells
    <2>10. CallOK(q, TabRows)
      <3>1. old.at = "queued" => ChangeOK(q, TabRows)
        BY <2>4, <2>5, <2>6, <2>7, <2>8 DEF CallOK, ChangeOK, Pending, Cells
      <3> QED BY <2>4, <2>5, <2>6, <2>7, <3>1 DEF CallOK, Pending
    <2>11. PageRows' \subseteq Seen
      BY <1>1 DEF PageRows, Seen
    <2> QED BY <1>1, <2>2, <2>3, <2>5, <2>9, <2>10, <2>11, OneCallMoves
  <1> QED BY <1>2, <1>3 DEF Upset

LEMMA FreshLogged ==
    ASSUME LogInv, DeskInv, DeskInv', NEW r \in Calls, freshCollection(r), UNCHANGED <<texts, page, typed>>
    PROVE  LogInv'
  <1>1. \/ call[r].row \in DOMAIN collections /\ Reply(r, "ok", collections[call[r].row])
        \/ Reply(r, "refused", None)
    BY DEF freshCollection
  <1>2. UNCHANGED <<collections, audit>>
    BY DEF freshCollection
  <1>3. CASE Reply(r, "refused", None)
    BY <1>2, <1>3, ReplyLogged
  <1>4. CASE call[r].row \in DOMAIN collections /\ Reply(r, "ok", collections[call[r].row])
    <2>1. PICK answer : answer = collections[call[r].row]
      OBVIOUS
    <2>2. Reply(r, "ok", answer) /\ answer \in TabRows
      BY <1>4, <2>1 DEF TabRows
    <2> QED BY <1>2, <2>2, ReplyLogged
  <1> QED BY <1>1, <1>3, <1>4

-----------------------------------------------------------------------------
(* new texts                                                               *)

LEMMA TypeLogged ==
    ASSUME LogInv, DeskInv, DeskInv', Type
    PROVE  LogInv'
  <1>0. texts' = texts + 1 /\ texts \in Nat /\ UNCHANGED <<collections, audit, page, call>>
    BY DEF Type, LogInv
  <1>1. PICK key \in DOMAIN page \ DOMAIN typed, fields \in (SUBSET Fields) \ {{}} :
          typed' = [k \in DOMAIN typed \cup {key} |->
                       IF k = key THEN [cells |-> [f \in Fields |-> IF f \in fields THEN texts + 1 ELSE page[key][f]],
                                        over |-> page[key]]
                       ELSE typed[k]]
    BY DEF Type
  <1>2. PICK cells : cells = [f \in Fields |-> IF f \in fields THEN texts + 1 ELSE page[key][f]]
    OBVIOUS
  <1>3. DOMAIN typed' = DOMAIN typed \cup {key} /\ typed'[key].cells = cells /\ \A k \in DOMAIN typed : typed'[k] = typed[k]
    BY <1>1, <1>2
  <1>4. PICK v : v = page[key]
    OBVIOUS
  <1>5. v \in Seen
    BY <1>4 DEF Seen, PageRows
  <1>6. v \in RowsUpTo(texts)
    BY <1>5 DEF LogInv, DeskSane, Sane
  <1>7. PICK w : w = Row(v.id, cells["name"], cells["description"])
    OBVIOUS
  <1>8. /\ cells["name"] = (IF "name" \in fields THEN texts + 1 ELSE v["name"])
        /\ cells["description"] = (IF "description" \in fields THEN texts + 1 ELSE v["description"])
    BY <1>2, <1>4 DEF Fields
  <1>9. w \in RowsUpTo(texts + 1) \ RowsUpTo(texts)
    <2>1. "name" \in fields \/ "description" \in fields
      BY DEF Fields
    <2>2. v.id \in Slugs /\ v["name"] \in 0..texts /\ v["description"] \in 0..texts
      BY <1>6 DEF RowsUpTo
    <2>3. cells["name"] \in 0..(texts + 1) /\ cells["description"] \in 0..(texts + 1)
      BY <1>0, <1>8, <2>2
    <2>4. w \in RowsUpTo(texts + 1)
      BY <1>7, <2>2, <2>3, RowInRows
    <2>5. w.name = cells["name"] /\ w.description = cells["description"]
      BY <1>7, RowIs
    <2>6. w.name = texts + 1 \/ w.description = texts + 1
      BY <1>8, <2>1, <2>5
    <2>7. w \notin RowsUpTo(texts)
      BY <1>0, <2>6 DEF RowsUpTo
    <2> QED BY <2>4, <2>7
  <1>10. \A e \in Edits' : e \in Edits \/ (e.from = v /\ e.to = w)
    <2>1. Typing(key)' = Edit(v, w)
      BY <1>0, <1>3, <1>4, <1>7 DEF Typing
    <2>2. \A k \in DOMAIN typed : Typing(k)' = Typing(k)
      BY <1>0, <1>3 DEF Typing
    <2>3. ASSUME NEW e \in Edits' PROVE e \in Edits \/ (e.from = v /\ e.to = w)
      <3>1. CASE \E r \in Calls : e \in EditsOf(call'[r])
        BY <1>0, <3>1 DEF Edits
      <3>2. CASE \E k \in DOMAIN typed' : e = Typing(k)'
        BY <1>3, <2>1, <2>2, <3>2 DEF Edits, Edit
      <3> QED BY <3>1, <3>2 DEF Edits
    <2> QED BY <2>3
  <1>11. TabRows' = TabRows /\ Seen' = Seen /\ Births' = Births
    BY <1>0 DEF TabRows, Seen, PageRows, Births
  <1>12. DeskSane'
    <2>1. PICK R : R = RowsUpTo(texts + 1)
      OBVIOUS
    <2>2. RowsUpTo(texts) \subseteq R
      BY <1>0, <2>1, MoreTexts
    <2>3. PICK E : E = Edits'
      OBVIOUS
    <2>4. Sane(TabRows, Seen, E, Births, R)
      <3>1. w \in R \ RowsUpTo(texts) /\ \A e \in E : e \in Edits \/ (e.from = v /\ e.to = w)
        BY <1>9, <1>10, <2>1, <2>3
      <3>2. Sane(TabRows, Seen, Edits, Births, RowsUpTo(texts))
        BY DEF LogInv, DeskSane
      <3> QED BY <1>5, <2>2, <3>1, <3>2, NewTextIsSane
    <2> QED BY <1>0, <1>11, <2>1, <2>3, <2>4 DEF DeskSane
  <1>13. CallsApart' /\ CallsOK'
    BY <1>0, <1>11 DEF LogInv, CallsApart, CallsOK
  <1>14. texts' \in Nat /\ collections' \in Seq(RowsUpTo(texts'))
    <2>1. RowsUpTo(texts) \subseteq RowsUpTo(texts')
      BY <1>0, MoreTexts
    <2> QED BY <1>0, <2>1 DEF LogInv
  <1> QED BY <1>0, <1>12, <1>13, <1>14 DEF LogInv, IsLog

LEMMA AddLogged ==
    ASSUME LogInv, DeskInv, DeskInv', NEW r \in Calls, addCollection(r)
    PROVE  LogInv'
  <1>1. PICK id \in Slugs : texts' = texts + 1 /\ Post(r, Request("create", id, None, [f \in Fields |-> texts + 1], None))
    BY DEF addCollection
  <1>2. PICK cells : cells = [f \in Fields |-> texts + 1]
    OBVIOUS
  <1>3. PICK q : q = Request("create", id, None, cells, None)
    OBVIOUS
  <1>4. call' = [call EXCEPT ![r] = q] /\ UNCHANGED <<collections, audit, page, typed>> /\ texts' = texts + 1 /\ texts \in Nat
    BY <1>1, <1>2, <1>3 DEF Post, LogInv
  <1>5. q.at = "sent" /\ q.kind = "create" /\ q.id = id /\ q.cells = cells /\ {"at", "kind", "id", "version", "cells"} \subseteq DOMAIN q
    BY <1>3 DEF Request
  <1>6. PICK w : w = Cells(q)
    OBVIOUS
  <1>7. w \in RowsUpTo(texts + 1) \ RowsUpTo(texts)
    <2>1. cells["name"] = texts + 1 /\ cells["description"] = texts + 1
      BY <1>2 DEF Fields
    <2>2. w = Row(id, texts + 1, texts + 1)
      BY <1>5, <1>6, <2>1 DEF Cells
    <2>3. w \in RowsUpTo(texts + 1)
      BY <1>4, <2>2, RowInRows
    <2>4. w.name = texts + 1
      BY <2>2, RowIs
    <2> QED BY <1>4, <2>3, <2>4 DEF RowsUpTo
  <1>8. Shown(q) = {} /\ EditsOf(q) = {} /\ BirthsOf(q) = {w}
    BY <1>5, <1>6 DEF Shown, EditsOf, BirthsOf, Pending
  <1>9. /\ (UNION {Shown(call'[c]) : c \in Calls}) \subseteq (UNION {Shown(call[c]) : c \in Calls}) \cup Shown(q)
        /\ (UNION {EditsOf(call'[c]) : c \in Calls}) \subseteq (UNION {EditsOf(call[c]) : c \in Calls}) \cup EditsOf(q)
        /\ (UNION {BirthsOf(call'[c]) : c \in Calls}) \subseteq (UNION {BirthsOf(call[c]) : c \in Calls \ {r}}) \cup BirthsOf(q)
        /\ \A c \in Calls : call'[c] = IF c = r THEN q ELSE call[c]
    BY <1>4, CallsBecome DEF DeskInv
  <1>10. TabRows' = TabRows /\ Seen' \subseteq Seen /\ TabRows' \subseteq Seen' /\ Births' \subseteq Births \cup {w}
    BY <1>4, <1>8, <1>9 DEF TabRows, Seen, PageRows, Births
  <1>11. \A e \in Edits' : e \in Edits
    <2>1. {Typing(k) : k \in DOMAIN typed}' = {Typing(k) : k \in DOMAIN typed}
      BY <1>4 DEF Typing
    <2> QED BY <1>8, <1>9, <2>1 DEF Edits
  <1>12. \A e \in Edits' : e.from \in Seen'
    <2>1. (TypedOverThePage => \A e \in Edits : e.from \in Seen)'
      BY EditsFrom, PTL
    <2> QED BY <2>1 DEF DeskInv
  <1>13. DeskSane'
    <2>1. PICK T, S, E, B, R : T = TabRows' /\ S = Seen' /\ E = Edits' /\ B = Births' /\ R = RowsUpTo(texts + 1)
      OBVIOUS
    <2>2. Sane(TabRows, Seen, Edits, Births, RowsUpTo(texts)) /\ RowsUpTo(texts) \subseteq R
      BY <1>4, <2>1, MoreTexts DEF LogInv, DeskSane
    <2>3. Sane(TabRows, Seen, Edits, B, R)
      BY <1>7, <1>10, <2>1, <2>2, NewBirthIsSane
    <2>4. T \in SUBSET TabRows /\ S \in SUBSET Seen /\ T \subseteq S /\ \A e \in E : e.from \in S /\ e \in Edits
      BY <1>10, <1>11, <1>12, <2>1
    <2>5. Sane(T, S, E, B, R)
      BY <2>3, <2>4, LessIsSane
    <2> QED BY <1>4, <2>1, <2>5 DEF DeskSane
  <1>14. CallsApart'
    <2>1. w \notin Births
      BY <1>7 DEF LogInv, DeskSane, Sane
    <2>2. \A c \in Calls : BirthsOf(call[c]) \subseteq Births
      BY DEF Births
    <2> QED BY <1>8, <1>9, <2>1, <2>2 DEF CallsApart, LogInv
  <1>15. CallOK(q, TabRows)
    BY <1>5 DEF CallOK, Pending
  <1>16. CallsOK'
    BY <1>9, <1>10, <1>15 DEF CallsOK, LogInv
  <1>17. texts' \in Nat /\ collections' \in Seq(RowsUpTo(texts'))
    <2>1. RowsUpTo(texts) \subseteq RowsUpTo(texts')
      BY <1>4, MoreTexts
    <2> QED BY <1>4, <2>1 DEF LogInv
  <1> QED BY <1>4, <1>13, <1>14, <1>16, <1>17 DEF LogInv, IsLog

-----------------------------------------------------------------------------
(* under the lock                                                          *)

\* The tab changes: what it becomes is sane with what the calls and the page still hold.
LEMMA TabMoves ==
    ASSUME DeskInv', NEW seen, NEW R, Sane(TabRows', seen, Edits, Births, R), R = RowsUpTo(texts'), UNCHANGED <<page, typed>>,
           DOMAIN call = Calls, PageRows \subseteq seen, (UNION {Shown(call[c]) : c \in Calls}) \subseteq seen,
           call' = call \/ (\E r \in Calls : \E q : call' = [call EXCEPT ![r] = q] /\ Shown(q) = {} /\ EditsOf(q) = {} /\ BirthsOf(q) = {})
    PROVE  DeskSane'
  <1>1. /\ (UNION {Shown(call'[c]) : c \in Calls}) \subseteq (UNION {Shown(call[c]) : c \in Calls})
        /\ (UNION {EditsOf(call'[c]) : c \in Calls}) \subseteq (UNION {EditsOf(call[c]) : c \in Calls})
        /\ (UNION {BirthsOf(call'[c]) : c \in Calls}) \subseteq (UNION {BirthsOf(call[c]) : c \in Calls})
    <2>1. CASE call' = call
      BY <2>1
    <2>2. CASE \E r \in Calls : \E q : call' = [call EXCEPT ![r] = q] /\ Shown(q) = {} /\ EditsOf(q) = {} /\ BirthsOf(q) = {}
      <3>0. PICK r \in Calls : \E q : call' = [call EXCEPT ![r] = q] /\ Shown(q) = {} /\ EditsOf(q) = {} /\ BirthsOf(q) = {}
        BY <2>2
      <3>1. PICK q : call' = [call EXCEPT ![r] = q] /\ Shown(q) = {} /\ EditsOf(q) = {} /\ BirthsOf(q) = {}
        BY <3>0
      <3>2. /\ (UNION {Shown(call'[c]) : c \in Calls}) \subseteq (UNION {Shown(call[c]) : c \in Calls}) \cup Shown(q)
            /\ (UNION {EditsOf(call'[c]) : c \in Calls}) \subseteq (UNION {EditsOf(call[c]) : c \in Calls}) \cup EditsOf(q)
            /\ (UNION {BirthsOf(call'[c]) : c \in Calls}) \subseteq (UNION {BirthsOf(call[c]) : c \in Calls \ {r}}) \cup BirthsOf(q)
        BY <3>1, CallsBecome
      <3> QED BY <3>1, <3>2
    <2> QED BY <2>1, <2>2
  <1>2. PageRows' = PageRows
    BY DEF PageRows
  <1>3. TabRows' \subseteq seen
    BY DEF Sane
  <1>4. Seen' \subseteq seen /\ TabRows' \subseteq Seen'
    BY <1>1, <1>2, <1>3 DEF Seen
  <1>5. \A e \in Edits' : e \in Edits
    <2>1. {Typing(k) : k \in DOMAIN typed}' = {Typing(k) : k \in DOMAIN typed}
      BY DEF Typing
    <2> QED BY <1>1, <2>1 DEF Edits
  <1>6. \A e \in Edits' : e.from \in Seen'
    <2>1. (TypedOverThePage => \A e \in Edits : e.from \in Seen)'
      BY EditsFrom, PTL
    <2> QED BY <2>1 DEF DeskInv
  <1>7. Births' \subseteq Births
    BY <1>1 DEF Births
  <1>8. PICK T, S, E, B : T = TabRows' /\ S = Seen' /\ E = Edits' /\ B = Births'
    OBVIOUS
  <1>9. T \in SUBSET T /\ S \in SUBSET seen /\ T \subseteq S /\ B \in SUBSET Births /\ \A e \in E : e.from \in S /\ e \in Edits
    BY <1>4, <1>5, <1>6, <1>7, <1>8
  <1>10. Sane(T, seen, Edits, Births, R)
    BY <1>8
  <1>11. Sane(T, S, E, B, R)
    BY <1>9, <1>10, LessIsSane
  <1> QED BY <1>8, <1>11 DEF DeskSane

\* A row that had gone is not back, so the changes decided are still right.
LEMMA CallsStayOK ==
    ASSUME CallsOK, TabRows' \cap Seen \subseteq TabRows, DOMAIN call = Calls,
           call' = call \/ (\E r \in Calls : \E q : call' = [call EXCEPT ![r] = q] /\ CallOK(q, TabRows'))
    PROVE  CallsOK'
  <1>1. ASSUME NEW c \in Calls PROVE CallOK(call[c], TabRows')
    <2>1. CallOK(call[c], TabRows)
      BY DEF CallsOK
    <2>2. Pending(call[c]) /\ call[c].kind = "save" => call[c].version \in Seen
      BY DEF Seen, Shown
    <2>3. call[c].at = "queued" => ChangeOK(call[c], TabRows')
      BY <2>1, <2>2 DEF CallOK, ChangeOK, Pending
    <2> QED BY <2>1, <2>3 DEF CallOK
  <1>2. CASE call' = call
    BY <1>1, <1>2 DEF CallsOK
  <1>3. CASE \E r \in Calls : \E q : call' = [call EXCEPT ![r] = q] /\ CallOK(q, TabRows')
    <2>0. PICK r \in Calls : \E q : call' = [call EXCEPT ![r] = q] /\ CallOK(q, TabRows')
      BY <1>3
    <2>1. PICK q : call' = [call EXCEPT ![r] = q] /\ CallOK(q, TabRows')
      BY <2>0
    <2>2. \A c \in Calls : call'[c] = IF c = r THEN q ELSE call[c]
      BY <2>1
    <2> QED BY <1>1, <2>1, <2>2 DEF CallsOK
  <1> QED BY <1>2, <1>3

LEMMA CallsStayApart ==
    ASSUME CallsApart, DOMAIN call = Calls,
           call' = call \/ (\E r \in Calls : \E q : call' = [call EXCEPT ![r] = q] /\ BirthsOf(q) = {})
    PROVE  CallsApart'
  <1>1. CASE call' = call
    BY <1>1 DEF CallsApart
  <1>2. CASE \E r \in Calls : \E q : call' = [call EXCEPT ![r] = q] /\ BirthsOf(q) = {}
    <2>0. PICK r \in Calls : \E q : call' = [call EXCEPT ![r] = q] /\ BirthsOf(q) = {}
      BY <1>2
    <2>1. PICK q : call' = [call EXCEPT ![r] = q] /\ BirthsOf(q) = {}
      BY <2>0
    <2>2. \A c \in Calls : call'[c] = IF c = r THEN q ELSE call[c]
      BY <2>1
    <2>3. \A c \in Calls : BirthsOf(call'[c]) = {} \/ (c # r /\ BirthsOf(call'[c]) = BirthsOf(call[c]))
      BY <2>1, <2>2
    <2> QED BY <2>3 DEF CallsApart
  <1> QED BY <1>1, <1>2

\* Once written, a request shows nothing until it is answered.
LEMMA WriterLeaves ==
    ASSUME DeskInv, NEW r \in Calls, Write(r), ~(call[r].kind # "create" /\ ~SameVersion(call[r])), NEW tab
    PROVE  \E q : /\ call' = [call EXCEPT ![r] = q] /\ Shown(q) = {} /\ EditsOf(q) = {} /\ BirthsOf(q) = {} /\ CallOK(q, tab)
  <1>1. CASE call[r].kind = "delete"
    <2>1. Reply(r, "ok", None)
      BY <1>1 DEF Write
    <2>2. PICK q : q = [at |-> "ok", heard |-> call[r].heard, kind |-> call[r].kind, id |-> call[r].id, answer |-> None]
      OBVIOUS
    <2>3. call' = [call EXCEPT ![r] = q]
      BY <2>1, <2>2 DEF Reply, DeskInv
    <2>4. q.at = "ok" /\ q.kind = "delete" /\ {"at", "kind", "answer"} \subseteq DOMAIN q
      BY <1>1, <2>2
    <2>5. Shown(q) = {} /\ EditsOf(q) = {} /\ BirthsOf(q) = {} /\ CallOK(q, tab)
      BY <2>4 DEF Shown, EditsOf, BirthsOf, CallOK, Pending
    <2> QED BY <2>3, <2>5
  <1>2. CASE call[r].kind # "delete"
    <2>1. PICK q : q = [at |-> "written", heard |-> call[r].heard, kind |-> call[r].kind, id |-> call[r].id,
                        row |-> IF call[r].kind = "create" THEN Len(collections') ELSE call[r].row]
      OBVIOUS
    <2>2. call' = [call EXCEPT ![r] = q]
      BY <1>2, <2>1 DEF Write, DeskInv
    <2>3. q.at = "written" /\ "at" \in DOMAIN q
      BY <2>1
    <2>4. Shown(q) = {} /\ EditsOf(q) = {} /\ BirthsOf(q) = {} /\ CallOK(q, tab)
      BY <2>3 DEF Shown, EditsOf, BirthsOf, CallOK, Pending
    <2> QED BY <2>2, <2>4
  <1> QED BY <1>1, <1>2

\* The tab is a sequence whose rows change as its set does.
LEMMA TabIsSeq ==
    ASSUME NEW R, NEW rows \in Seq(R)
    PROVE  Len(rows) \in Nat /\ DOMAIN rows = 1..Len(rows) /\ \A i \in DOMAIN rows : rows[i] \in R
  BY LenProperties, ElementOfSeq

\* A row is replaced by the text that was typed over it.
LEMMA SavedLogged ==
    ASSUME LogInv, DeskInv, DeskInv', NEW r \in Calls, Write(r), call[r].kind = "save", SameVersion(call[r]),
           UNCHANGED <<texts, page, typed>>
    PROVE  LogInv'
  <1>1. PICK q : q = call[r]
    OBVIOUS
  <1>2. q.at = "queued" /\ q.kind = "save" /\ CallOK(q, TabRows) /\ q.row \in DOMAIN collections /\ collections[q.row] = q.version
    BY <1>1 DEF Write, LogInv, CallsOK, SameVersion
  <1>3. audit' = Append(audit, Entry(q)) /\ collections' = [collections EXCEPT ![q.row] = Cells(q)]
    BY <1>1 DEF Write
  <1>4. PICK v, w : v = q.version /\ w = Cells(q)
    OBVIOUS
  <1>5. v \in TabRows /\ q.version.id = q.id /\ q.change = diffFields(v, w)
    BY <1>2, <1>4 DEF TabRows, CallOK, ChangeOK, Pending
  <1>6. PICK e : e = Edit(v, w)
    OBVIOUS
  <1>7. e \in Edits /\ e.from = v /\ e.to = w
    BY <1>1, <1>2, <1>4, <1>6 DEF Edits, EditsOf, Pending, Edit
  <1>8. DeskSane /\ OneRowEach(collections) /\ Tells(audit, collections) /\ collections \in Seq(RowsUpTo(texts)) /\ texts \in Nat
    BY DEF LogInv
  <1>9. w \in RowsUpTo(texts)
    BY <1>7, <1>8 DEF DeskSane, Sane
  <1>10. DOMAIN collections' = DOMAIN collections /\ \A i \in DOMAIN collections : collections'[i] = IF i = q.row THEN w ELSE collections[i]
    BY <1>3, <1>4
  <1>11. TabRows' \subseteq (TabRows \ {v}) \cup {w}
    BY <1>2, <1>4, <1>8, <1>10 DEF TabRows, OneRowEach
  <1>12. PICK T : T = TabRows'
    OBVIOUS
  <1>13. Sane(T, Seen \cup {w}, Edits, Births, RowsUpTo(texts)) /\ T \cap Seen \subseteq TabRows
    <2>1. Sane(TabRows, Seen, Edits, Births, RowsUpTo(texts))
      BY <1>8 DEF DeskSane
    <2>2. e.from \in TabRows /\ T \subseteq (TabRows \ {e.from}) \cup {e.to}
      BY <1>5, <1>7, <1>11, <1>12
    <2>3. Sane(T, Seen \cup {e.to}, Edits, Births, RowsUpTo(texts)) /\ T \cap Seen \subseteq TabRows
      BY <1>7, <2>1, <2>2, ReplacedIsSane
    <2> QED BY <1>7, <2>3
  <1>14. \E z : call' = [call EXCEPT ![r] = z] /\ Shown(z) = {} /\ EditsOf(z) = {} /\ BirthsOf(z) = {} /\ CallOK(z, T)
    BY WriterLeaves
  <1>15. DOMAIN call = Calls /\ CallsOK /\ CallsApart /\ PageRows \subseteq Seen /\ (UNION {Shown(call[c]) : c \in Calls}) \subseteq Seen
    BY DEF DeskInv, LogInv, Seen
  <1>16. DeskSane'
    <2>1. PICK S, R : S = Seen \cup {w} /\ R = RowsUpTo(texts)
      OBVIOUS
    <2>2. Sane(TabRows', S, Edits, Births, R) /\ R = RowsUpTo(texts') /\ PageRows \subseteq S /\ (UNION {Shown(call[c]) : c \in Calls}) \subseteq S
      BY <1>12, <1>13, <1>15, <2>1
    <2>3. \E s \in Calls : \E z : call' = [call EXCEPT ![s] = z] /\ Shown(z) = {} /\ EditsOf(z) = {} /\ BirthsOf(z) = {}
      BY <1>14
    <2> QED BY <1>15, <2>2, <2>3, TabMoves
  <1>17. CallsOK'
    BY <1>12, <1>13, <1>14, <1>15, CallsStayOK
  <1>18. CallsApart'
    BY <1>14, <1>15, CallsStayApart
  <1>19. Tells(audit', collections') /\ OneRowEach(collections')
    <2>1. PICK S : audit \in Seq(S)
      BY DEF LogInv, IsLog
    <2>2. PICK x : x = Entry(q)
      OBVIOUS
    <2>3. x.kind = "save" /\ x.id = q.id /\ x.change = q.change
      BY <1>2, <2>2 DEF Entry
    <2>4. w.id = q.id
      BY <1>4, CellsAre
    <2>5. PICK k, log2, rows2 : k = q.row /\ log2 = audit' /\ rows2 = collections'
      OBVIOUS
    <2>6. /\ log2 = Append(audit, x) /\ rows2 = [collections EXCEPT ![k] = w] /\ k \in DOMAIN collections
          /\ w.id = collections[k].id /\ x.id = collections[k].id /\ x.change = diffFields(collections[k], w)
      BY <1>2, <1>3, <1>4, <1>5, <2>2, <2>3, <2>4, <2>5
    <2>7. Tells(log2, rows2) /\ OneRowEach(rows2)
      BY <1>8, <2>1, <2>3, <2>6, ChangeTold
    <2> QED BY <2>5, <2>7
  <1>20. IsLog'
    <2>1. PICK S : audit \in Seq(S)
      BY DEF LogInv, IsLog
    <2>2. \E U : audit' \in Seq(U)
      BY <1>3, <2>1, LogGrows
    <2> QED BY <2>2 DEF IsLog
  <1>21. collections' \in Seq(RowsUpTo(texts'))
    BY <1>2, <1>3, <1>4, <1>8, <1>9, TabIsSeq, ExceptSeq
  <1> QED BY <1>8, <1>16, <1>17, <1>18, <1>19, <1>20, <1>21 DEF LogInv

LEMMA CreatedLogged ==
    ASSUME LogInv, DeskInv, DeskInv', NEW r \in Calls, Write(r), call[r].kind = "create", Bearing(call[r].id) = {},
           UNCHANGED <<texts, page, typed>>
    PROVE  LogInv'
  <1>1. PICK q : q = call[r]
    OBVIOUS
  <1>2. q.at = "queued" /\ q.kind = "create" /\ CallOK(q, TabRows)
    BY <1>1 DEF Write, LogInv, CallsOK
  <1>3. audit' = Append(audit, Entry(q)) /\ collections' = Append(collections, Cells(q))
    BY <1>1 DEF Write
  <1>4. PICK w : w = Cells(q)
    OBVIOUS
  <1>5. BirthsOf(q) = {w} /\ w \in Births
    BY <1>1, <1>2, <1>4 DEF Births, BirthsOf, Pending
  <1>8. DeskSane /\ OneRowEach(collections) /\ Tells(audit, collections) /\ collections \in Seq(RowsUpTo(texts)) /\ texts \in Nat
    BY DEF LogInv
  <1>9. w \in RowsUpTo(texts)
    BY <1>5, <1>8 DEF DeskSane, Sane
  <1>10. /\ DOMAIN collections = 1..Len(collections) /\ DOMAIN collections' = 1..(Len(collections) + 1) /\ Len(collections) \in Nat
         /\ collections'[Len(collections) + 1] = w
         /\ \A i \in 1..Len(collections) : collections'[i] = collections[i]
    BY <1>3, <1>4, <1>8, LogGrows
  <1>11. TabRows' \subseteq TabRows \cup {w}
    BY <1>10 DEF TabRows
  <1>12. PICK T, B : T = TabRows' /\ B = Births'
    OBVIOUS
  <1>14. \E z : call' = [call EXCEPT ![r] = z] /\ Shown(z) = {} /\ EditsOf(z) = {} /\ BirthsOf(z) = {} /\ CallOK(z, T)
    BY <1>2, <1>1, WriterLeaves
  <1>15. DOMAIN call = Calls /\ CallsOK /\ CallsApart /\ PageRows \subseteq Seen /\ (UNION {Shown(call[c]) : c \in Calls}) \subseteq Seen
    BY DEF DeskInv, LogInv, Seen
  <1>6. B \subseteq Births \ {w}
    <2>1. PICK z : call' = [call EXCEPT ![r] = z] /\ BirthsOf(z) = {}
      BY <1>14
    <2>2. (UNION {BirthsOf(call'[c]) : c \in Calls}) \subseteq (UNION {BirthsOf(call[c]) : c \in Calls \ {r}}) \cup BirthsOf(z)
      BY <1>15, <2>1, CallsBecome
    <2>3. \A c \in Calls \ {r} : w \notin BirthsOf(call[c])
      BY <1>1, <1>5, <1>15 DEF CallsApart
    <2> QED BY <1>12, <2>1, <2>2, <2>3 DEF Births
  <1>13. Sane(T, Seen \cup {w}, Edits, B, RowsUpTo(texts)) /\ T \cap Seen \subseteq TabRows
    <2>1. Sane(TabRows, Seen, Edits, Births, RowsUpTo(texts))
      BY <1>8 DEF DeskSane
    <2>2. PICK R : R = RowsUpTo(texts)
      OBVIOUS
    <2>3. Sane(T, Seen \cup {w}, Edits, B, R) /\ T \cap Seen \subseteq TabRows
      <3>1. R \subseteq R /\ w \in R /\ w \in Births /\ T \subseteq TabRows \cup {w} /\ B \subseteq Births \ {w}
            /\ Sane(TabRows, Seen, Edits, Births, R)
        BY <1>5, <1>6, <1>9, <1>11, <1>12, <2>1, <2>2
      <3> QED BY <3>1, BornIsSane
    <2> QED BY <2>2, <2>3
  <1>16. DeskSane'
    <2>1. PICK z : call' = [call EXCEPT ![r] = z] /\ Shown(z) = {} /\ EditsOf(z) = {} /\ BirthsOf(z) = {}
      BY <1>14
    <2>2. /\ (UNION {Shown(call'[c]) : c \in Calls}) \subseteq (UNION {Shown(call[c]) : c \in Calls}) \cup Shown(z)
          /\ (UNION {EditsOf(call'[c]) : c \in Calls}) \subseteq (UNION {EditsOf(call[c]) : c \in Calls}) \cup EditsOf(z)
      BY <1>15, <2>1, CallsBecome
    <2>3. Seen' \subseteq Seen \cup {w} /\ T \subseteq Seen'
      <3>1. PageRows' = PageRows
        BY DEF PageRows
      <3>2. TabRows \subseteq Seen
        BY DEF Seen
      <3> QED BY <1>11, <1>12, <1>15, <2>1, <2>2, <3>1, <3>2 DEF Seen
    <2>4. \A e \in Edits' : e \in Edits
      <3>1. {Typing(k) : k \in DOMAIN typed}' = {Typing(k) : k \in DOMAIN typed}
        BY DEF Typing
      <3> QED BY <2>1, <2>2, <3>1 DEF Edits
    <2>5. \A e \in Edits' : e.from \in Seen'
      <3>1. (TypedOverThePage => \A e \in Edits : e.from \in Seen)'
        BY EditsFrom, PTL
      <3> QED BY <3>1 DEF DeskInv
    <2>6. PICK S, E, seen, R : S = Seen' /\ E = Edits' /\ seen = Seen \cup {w} /\ R = RowsUpTo(texts)
      OBVIOUS
    <2>7. Sane(T, seen, Edits, B, R) /\ S \in SUBSET seen /\ T \subseteq S /\ \A e \in E : e.from \in S /\ e \in Edits
      BY <1>13, <2>3, <2>4, <2>5, <2>6
    <2>8. Sane(T, S, E, B, R)
      BY <2>7, LessIsSane
    <2> QED BY <1>12, <2>6, <2>8 DEF DeskSane
  <1>17. CallsOK'
    BY <1>12, <1>13, <1>14, <1>15, CallsStayOK
  <1>18. CallsApart'
    BY <1>14, <1>15, CallsStayApart
  <1>19. Tells(audit', collections') /\ OneRowEach(collections')
    <2>1. PICK S : audit \in Seq(S)
      BY DEF LogInv, IsLog
    <2>2. PICK x : x = Entry(q)
      OBVIOUS
    <2>3. x.kind = "create" /\ x.id = q.id /\ x.change = q.change
      BY <1>2, <2>2 DEF Entry
    <2>4. w.id = q.id /\ \A f \in Fields : w[f] = q.cells[f]
      BY <1>4, CellsAre
    <2>5. PICK log2, rows2, R : log2 = audit' /\ rows2 = collections' /\ R = RowsUpTo(texts)
      OBVIOUS
    <2>6. log2 = Append(audit, x) /\ rows2 = Append(collections, w) /\ collections \in Seq(R)
      BY <1>3, <1>4, <1>8, <2>2, <2>5
    <2>7. TellsAll(x.change, w)
      BY <1>2, <2>3, <2>4 DEF CallOK, ChangeOK, TellsAll
    <2>8. NoneBears(collections, w.id)
      BY <1>1, <2>4 DEF Bearing, NoneBears
    <2>9. Tells(log2, rows2) /\ OneRowEach(rows2)
      <3>1. x.kind = "create" /\ x.id = w.id /\ OneRowEach(collections) /\ Tells(audit, collections)
        BY <1>8, <2>3, <2>4
      <3> QED BY <2>1, <2>6, <2>7, <2>8, <3>1, BirthTold
    <2> QED BY <2>5, <2>9
  <1>20. IsLog'
    <2>1. PICK S : audit \in Seq(S)
      BY DEF LogInv, IsLog
    <2>2. \E U : audit' \in Seq(U)
      BY <1>3, <2>1, LogGrows
    <2> QED BY <2>2 DEF IsLog
  <1>21. collections' \in Seq(RowsUpTo(texts'))
    BY <1>3, <1>4, <1>8, <1>9, AppendProperties
  <1> QED BY <1>8, <1>16, <1>17, <1>18, <1>19, <1>20, <1>21 DEF LogInv

\* A row is deleted, by the page or by another window, and the calls may move on.
LEMMA RowDeleted ==
    ASSUME LogInv, DeskInv, DeskInv', NEW k \in DOMAIN collections, collections' = RemoveAt(collections, k),
           NEW x, audit' = Append(audit, x), x.kind = "delete", x.id = collections[k].id, x.change = <<>>,
           UNCHANGED <<texts, page, typed>>,
           call' = call \/ (\E r \in Calls : \E q : /\ call' = [call EXCEPT ![r] = q] /\ Shown(q) = {} /\ EditsOf(q) = {}
                                                    /\ BirthsOf(q) = {} /\ CallOK(q, TabRows'))
    PROVE  LogInv'
  <1>1. collections \in Seq(RowsUpTo(texts)) /\ texts \in Nat /\ DeskSane /\ CallsOK /\ CallsApart /\ OneRowEach(collections)
        /\ Tells(audit, collections) /\ DOMAIN call = Calls
    BY DEF LogInv, DeskInv
  <1>2. Len(collections) \in Nat /\ DOMAIN collections = 1..Len(collections)
    BY <1>1, TabIsSeq
  <1>3. /\ collections' \in Seq(RowsUpTo(texts)) /\ Len(collections') = Len(collections) - 1
        /\ \A i \in 1..(Len(collections) - 1) : collections'[i] = IF i < k THEN collections[i] ELSE collections[i + 1]
    <2>1. k \in 1..Len(collections)
      BY <1>2
    <2> QED BY <1>1, <2>1, RemoveAtRows
  <1>4. TabRows' \subseteq TabRows
    <2>1. DOMAIN collections' = 1..(Len(collections) - 1)
      BY <1>3, LenProperties
    <2>2. \A i \in DOMAIN collections' : i \in DOMAIN collections /\ i + 1 \in DOMAIN collections
      BY <1>2, <2>1
    <2> QED BY <1>3, <2>1, <2>2 DEF TabRows
  <1>5. PageRows \subseteq Seen /\ TabRows \subseteq Seen /\ (UNION {Shown(call[c]) : c \in Calls}) \subseteq Seen
    BY DEF Seen
  <1>6. PICK T, seen, R : T = TabRows' /\ seen = Seen /\ R = RowsUpTo(texts)
    OBVIOUS
  <1>7. Sane(T, seen, Edits, Births, R)
    <2>1. Sane(TabRows, seen, Edits, Births, R)
      BY <1>1, <1>6 DEF DeskSane
    <2>2. T \in SUBSET TabRows /\ seen \in SUBSET seen /\ T \subseteq seen /\ R \subseteq R /\ Births \in SUBSET Births
      BY <1>4, <1>5, <1>6
    <2>3. \A e \in Edits : e.from \in seen /\ (e \in Edits \/ e.to = e.from)
      BY <2>1 DEF Sane
    <2> QED BY <2>1, <2>2, <2>3, LessIsSane
  <1>8. DeskSane'
    <2>1. call' = call \/ (\E r \in Calls : \E q : call' = [call EXCEPT ![r] = q] /\ Shown(q) = {} /\ EditsOf(q) = {} /\ BirthsOf(q) = {})
      OBVIOUS
    <2>2. Sane(TabRows', seen, Edits, Births, R) /\ R = RowsUpTo(texts') /\ PageRows \subseteq seen
          /\ (UNION {Shown(call[c]) : c \in Calls}) \subseteq seen
      BY <1>5, <1>6, <1>7
    <2> QED BY <1>1, <2>1, <2>2, TabMoves
  <1>9. CallsOK'
    <2>1. call' = call \/ (\E r \in Calls : \E q : call' = [call EXCEPT ![r] = q] /\ CallOK(q, TabRows'))
      OBVIOUS
    <2> QED BY <1>1, <1>4, <2>1, CallsStayOK
  <1>10. CallsApart'
    <2>1. call' = call \/ (\E r \in Calls : \E q : call' = [call EXCEPT ![r] = q] /\ BirthsOf(q) = {})
      OBVIOUS
    <2> QED BY <1>1, <2>1, CallsStayApart
  <1>11. PICK S : audit \in Seq(S)
    BY DEF LogInv, IsLog
  <1>12. Tells(audit', collections') /\ OneRowEach(collections')
    <2>1. PICK log2, rows2 : log2 = audit' /\ rows2 = collections'
      OBVIOUS
    <2>2. log2 = Append(audit, x) /\ rows2 = RemoveAt(collections, k) /\ collections \in Seq(R)
      BY <1>1, <1>6, <2>1
    <2>3. Tells(log2, rows2) /\ OneRowEach(rows2)
      BY <1>1, <1>11, <2>2, DeletionTold
    <2> QED BY <2>1, <2>3
  <1>13. IsLog'
    <2>1. \E U : audit' \in Seq(U)
      BY <1>11, LogGrows
    <2> QED BY <2>1 DEF IsLog
  <1> QED BY <1>1, <1>3, <1>8, <1>9, <1>10, <1>12, <1>13 DEF LogInv

LEMMA DeletedLogged ==
    ASSUME LogInv, DeskInv, DeskInv', NEW r \in Calls, Write(r), call[r].kind = "delete", SameVersion(call[r]),
           UNCHANGED <<texts, page, typed>>
    PROVE  LogInv'
  <1>1. PICK q : q = call[r]
    OBVIOUS
  <1>2. q.at = "queued" /\ q.kind = "delete" /\ CallOK(q, TabRows) /\ q.row \in DOMAIN collections /\ collections[q.row] = q.version
    BY <1>1 DEF Write, LogInv, CallsOK, SameVersion
  <1>3. audit' = Append(audit, Entry(q)) /\ collections' = RemoveAt(collections, q.row)
    BY <1>1, <1>2 DEF Write
  <1>4. PICK x, k : x = Entry(q) /\ k = q.row
    OBVIOUS
  <1>5. x.kind = "delete" /\ x.id = collections[k].id /\ x.change = <<>>
    BY <1>2, <1>4 DEF Entry, CallOK, ChangeOK, Pending
  <1>6. PICK T : T = TabRows'
    OBVIOUS
  <1>7. \E z : call' = [call EXCEPT ![r] = z] /\ Shown(z) = {} /\ EditsOf(z) = {} /\ BirthsOf(z) = {} /\ CallOK(z, T)
    BY WriterLeaves
  <1>8. \E s \in Calls : \E z : call' = [call EXCEPT ![s] = z] /\ Shown(z) = {} /\ EditsOf(z) = {} /\ BirthsOf(z) = {} /\ CallOK(z, TabRows')
    BY <1>6, <1>7
  <1>9. k \in DOMAIN collections /\ collections' = RemoveAt(collections, k) /\ audit' = Append(audit, x)
    BY <1>2, <1>3, <1>4
  <1> QED BY <1>5, <1>8, <1>9, RowDeleted

\* Under the lock: a conflict, or the write that was decided.
LEMMA WriteLogged ==
    ASSUME LogInv, DeskInv, DeskInv', NEW r \in Calls, Write(r), ~twice', UNCHANGED <<texts, page, typed>>
    PROVE  LogInv'
  <1>1. call[r].at = "queued" /\ call[r].kind \in {"save", "delete", "create"}
    BY DEF Write, LogInv, CallsOK, CallOK, Pending
  <1>2. CASE call[r].kind # "create" /\ ~SameVersion(call[r])
    <2>1. Reply(r, "conflict", None) /\ UNCHANGED <<collections, audit>>
      BY <1>2 DEF Write
    <2> QED BY <2>1, ReplyLogged
  <1>3. CASE call[r].kind = "create"
    <2>1. Bearing(call[r].id) = {}
      BY <1>3 DEF Write
    <2> QED BY <1>3, <2>1, CreatedLogged
  <1>4. CASE call[r].kind = "save" /\ SameVersion(call[r])
    BY <1>4, SavedLogged
  <1>5. CASE call[r].kind = "delete" /\ SameVersion(call[r])
    BY <1>5, DeletedLogged
  <1> QED BY <1>1, <1>2, <1>3, <1>4, <1>5

LEMMA HandleLogged ==
    ASSUME LogInv, DeskInv, DeskInv', NEW r \in Calls, Handle(r), ~twice'
    PROVE  LogInv'
  <1>1. UNCHANGED <<texts, page, typed>>
    BY DEF Handle
  <1>2. CASE Check(r)
    BY <1>1, <1>2, CheckLogged
  <1>3. CASE Clashes(r)
    <2>1. Reply(r, "conflict", None) /\ UNCHANGED <<collections, audit>>
      BY <1>3 DEF Clashes
    <2> QED BY <1>1, <2>1, ReplyLogged
  <1>4. CASE freshCollection(r)
    BY <1>1, <1>4, FreshLogged
  <1>5. CASE List(r)
    BY <1>1, <1>5, ListLogged
  <1>6. CASE Write(r)
    BY <1>1, <1>6, WriteLogged
  <1> QED BY <1>2, <1>3, <1>4, <1>5, <1>6 DEF Handle

\* Another window types a new text over a row, and it is in the tab at once.
NewText(row, f, w) == w = [row EXCEPT ![f] = texts + 1]
SavedRow(row, w, x) == x = [kind |-> "save", id |-> w.id, change |-> diffFields(row, w)]

LEMMA NewTextIs ==
    ASSUME texts \in Nat, NEW v \in RowsUpTo(texts), NEW f \in Fields, NEW w, NewText(v, f, w)
    PROVE  w.id = v.id /\ w \in RowsUpTo(texts + 1) \ RowsUpTo(texts)
  <1>1. v.id \in Slugs /\ v.name \in 0..texts /\ v.description \in 0..texts /\ v = [id |-> v.id, name |-> v.name, description |-> v.description]
    BY DEF RowsUpTo
  <1>2. v.name \in 0..(texts + 1) /\ v.description \in 0..(texts + 1) /\ texts + 1 \in 0..(texts + 1) /\ texts + 1 \notin 0..texts
    BY <1>1
  <1>3. f = "name" \/ f = "description"
    BY DEF Fields
  <1>4. CASE f = "name"
    <2>1. w = [v EXCEPT !["name"] = texts + 1]
      BY <1>4 DEF NewText
    <2>2. w = [id |-> v.id, name |-> texts + 1, description |-> v.description]
      BY <1>1, <2>1
    <2> QED BY <1>1, <1>2, <2>2 DEF RowsUpTo
  <1>5. CASE f = "description"
    <2>1. w = [v EXCEPT !["description"] = texts + 1]
      BY <1>5 DEF NewText
    <2>2. w = [id |-> v.id, name |-> v.name, description |-> texts + 1]
      BY <1>1, <2>1
    <2> QED BY <1>1, <1>2, <2>2 DEF RowsUpTo
  <1> QED BY <1>3, <1>4, <1>5

LEMMA NewRowIsSane ==
    ASSUME NEW tab, NEW seen, NEW edits, NEW births, NEW R, Sane(tab, seen, edits, births, R),
           NEW R2, R \subseteq R2, NEW w \in R2, w \notin R, NEW tab2, tab2 \subseteq tab \cup {w}
    PROVE  Sane(tab2, seen \cup {w}, edits, births, R2) /\ tab2 \cap seen \subseteq tab
  <1>1. PICK b : b = births
    OBVIOUS
  <1>2. b \subseteq births \ {w}
    BY <1>1 DEF Sane
  <1>3. Sane(tab2, seen \cup {w}, edits, b, R2) /\ tab2 \cap seen \subseteq tab
    BY <1>2, BornIsSane
  <1> QED BY <1>1, <1>3

LEMMA ElsewhereChanged ==
    ASSUME LogInv, DeskInv, DeskInv', UNCHANGED <<page, typed, call>>, texts' = texts + 1,
           NEW k \in DOMAIN collections, NEW f \in Fields, NEW w, NewText(collections[k], f, w),
           collections' = [collections EXCEPT ![k] = w],
           NEW x, SavedRow(collections[k], w, x), audit' = Append(audit, x)
    PROVE  LogInv'
  <1>1. collections \in Seq(RowsUpTo(texts)) /\ texts \in Nat /\ DeskSane /\ CallsOK /\ CallsApart /\ OneRowEach(collections)
        /\ Tells(audit, collections) /\ DOMAIN call = Calls
    BY DEF LogInv, DeskInv
  <1>2. PICK v : v = collections[k]
    OBVIOUS
  <1>3. v \in RowsUpTo(texts) /\ v \in TabRows
    BY <1>1, <1>2, TabIsSeq DEF TabRows
  <1>4. w.id = v.id /\ w \in RowsUpTo(texts + 1) \ RowsUpTo(texts)
    BY <1>1, <1>2, <1>3, NewTextIs
  <1>5. PICK R : R = RowsUpTo(texts')
    OBVIOUS
  <1>6. RowsUpTo(texts) \subseteq R /\ w \in R
    <2>1. texts + 1 \in Nat /\ texts <= texts + 1 /\ R = RowsUpTo(texts + 1)
      BY <1>1, <1>5
    <2>2. RowsUpTo(texts) \subseteq RowsUpTo(texts + 1)
      BY <1>1, <2>1, MoreTexts
    <2> QED BY <1>4, <2>1, <2>2
  <1>7. DOMAIN collections' = DOMAIN collections /\ \A i \in DOMAIN collections : collections'[i] = IF i = k THEN w ELSE collections[i]
    OBVIOUS
  <1>8. PICK T : T = TabRows'
    OBVIOUS
  <1>9. T \subseteq TabRows \cup {w}
    BY <1>7, <1>8 DEF TabRows
  <1>10. Sane(T, Seen \cup {w}, Edits, Births, R) /\ T \cap Seen \subseteq TabRows
    <2>1. Sane(TabRows, Seen, Edits, Births, RowsUpTo(texts))
      BY <1>1 DEF DeskSane
    <2>2. PICK R0 : R0 = RowsUpTo(texts)
      OBVIOUS
    <2>3. Sane(TabRows, Seen, Edits, Births, R0) /\ R0 \subseteq R /\ w \in R /\ w \notin R0 /\ T \subseteq TabRows \cup {w}
      BY <1>4, <1>6, <1>9, <2>1, <2>2
    <2> QED BY <2>3, NewRowIsSane
  <1>11. DeskSane'
    <2>1. PICK S : S = Seen \cup {w}
      OBVIOUS
    <2>2. Sane(TabRows', S, Edits, Births, R) /\ PageRows \subseteq S /\ (UNION {Shown(call[c]) : c \in Calls}) \subseteq S
      BY <1>8, <1>10, <2>1 DEF Seen
    <2> QED BY <1>1, <1>5, <2>2, TabMoves
  <1>12. CallsOK' /\ CallsApart'
    <2>1. TabRows' \cap Seen \subseteq TabRows
      BY <1>8, <1>10
    <2> QED BY <1>1, <2>1, CallsStayOK, CallsStayApart
  <1>13. PICK S : audit \in Seq(S)
    BY DEF LogInv, IsLog
  <1>15. x.kind = "save" /\ x.id = collections[k].id /\ x.change = diffFields(collections[k], w) /\ w.id = collections[k].id
    BY <1>2, <1>4 DEF SavedRow
  <1>16. PICK log2, rows2 : log2 = audit' /\ rows2 = collections'
    OBVIOUS
  <1>17. Tells(log2, rows2) /\ OneRowEach(rows2)
    <2>1. /\ log2 = Append(audit, x) /\ rows2 = [collections EXCEPT ![k] = w] /\ w.id = collections[k].id
          /\ x.kind = "save" /\ x.id = collections[k].id /\ x.change = diffFields(collections[k], w)
      BY <1>15, <1>16
    <2>2. OneRowEach(collections) /\ Tells(audit, collections)
      BY <1>1
    <2> QED BY <1>13, <2>1, <2>2, ChangeTold
  <1>18. IsLog'
    <2>1. \E U : audit' \in Seq(U)
      BY <1>13, LogGrows
    <2> QED BY <2>1 DEF IsLog
  <1>19. collections' \in Seq(RowsUpTo(texts')) /\ texts' \in Nat
    <2>1. collections \in Seq(R)
      BY <1>1, <1>6
    <2>2. k \in 1..Len(collections)
      BY <2>1, TabIsSeq
    <2>3. collections' \in Seq(R)
      BY <1>6, <2>1, <2>2, ExceptSeq
    <2> QED BY <1>1, <1>5, <2>3
  <1> QED BY <1>11, <1>12, <1>16, <1>17, <1>18, <1>19 DEF LogInv

LEMMA ElsewhereLogged ==
    ASSUME LogInv, DeskInv, DeskInv', Elsewhere
    PROVE  LogInv'
  <1>0. UNCHANGED <<page, typed, call>>
    BY DEF Elsewhere
  <1>1. PICK k \in DOMAIN collections :
         \/ /\ texts' = texts + 1
            /\ \E f \in Fields :
                 LET row == [collections[k] EXCEPT ![f] = texts + 1] IN
                 /\ collections' = [collections EXCEPT ![k] = row]
                 /\ audit' = Append(audit, [kind |-> "save", id |-> row.id, change |-> diffFields(collections[k], row)])
         \/ /\ collections' = RemoveAt(collections, k) /\ UNCHANGED texts
            /\ audit' = Append(audit, [kind |-> "delete", id |-> collections[k].id, change |-> <<>>])
    BY DEF Elsewhere
  <1>2. CASE texts' = texts + 1 /\ \E f \in Fields :
                 LET row == [collections[k] EXCEPT ![f] = texts + 1] IN
                 /\ collections' = [collections EXCEPT ![k] = row]
                 /\ audit' = Append(audit, [kind |-> "save", id |-> row.id, change |-> diffFields(collections[k], row)])
    <2>1. PICK f \in Fields :
                 LET row == [collections[k] EXCEPT ![f] = texts + 1] IN
                 /\ collections' = [collections EXCEPT ![k] = row]
                 /\ audit' = Append(audit, [kind |-> "save", id |-> row.id, change |-> diffFields(collections[k], row)])
      BY <1>2
    <2>2. PICK w : w = [collections[k] EXCEPT ![f] = texts + 1]
      OBVIOUS
    <2>3. PICK x : x = [kind |-> "save", id |-> w.id, change |-> diffFields(collections[k], w)]
      OBVIOUS
    <2>4. NewText(collections[k], f, w) /\ SavedRow(collections[k], w, x)
      BY <2>2, <2>3 DEF NewText, SavedRow
    <2>5. collections' = [collections EXCEPT ![k] = w] /\ audit' = Append(audit, x)
      BY <2>1, <2>2, <2>3
    <2> QED BY <1>0, <1>2, <2>4, <2>5, ElsewhereChanged
  <1>3. CASE /\ collections' = RemoveAt(collections, k) /\ UNCHANGED texts
             /\ audit' = Append(audit, [kind |-> "delete", id |-> collections[k].id, change |-> <<>>])
    <2>1. PICK x : x = [kind |-> "delete", id |-> collections[k].id, change |-> <<>>]
      OBVIOUS
    <2>2. x.kind = "delete" /\ x.id = collections[k].id /\ x.change = <<>> /\ audit' = Append(audit, x)
      BY <1>3, <2>1
    <2> QED BY <1>0, <1>3, <2>2, RowDeleted
  <1> QED BY <1>1, <1>2, <1>3

LEMMA StutterLogged ==
    ASSUME LogInv, UNCHANGED collectionsVars
    PROVE  LogInv'
  <1> USE DEF collectionsVars
  <1>1. TabRows' = TabRows /\ PageRows' = PageRows /\ Births' = Births
    BY DEF TabRows, PageRows, Births
  <1>2. Seen' = Seen
    BY <1>1 DEF Seen
  <1>3. Edits' = Edits
    BY DEF Edits, Typing
  <1>4. DeskSane'
    BY <1>1, <1>2, <1>3 DEF LogInv, DeskSane
  <1>5. CallsApart' /\ CallsOK'
    BY <1>1 DEF LogInv, CallsApart, CallsOK
  <1> QED BY <1>4, <1>5 DEF LogInv, IsLog

\* The tab the page was rendered with has one row for each of the first collections.
LEMMA FirstRowsFacts ==
    ASSUME NEW ids, ids = SetToSeq(FirstSlugs)
    PROVE  /\ DOMAIN ids = 1..Cardinality(FirstSlugs) /\ Cardinality(FirstSlugs) \in Nat
           /\ \A i \in DOMAIN ids : ids[i] \in FirstSlugs
           /\ \A id \in FirstSlugs : \E i \in DOMAIN ids : ids[i] = id
           /\ \A i, j \in DOMAIN ids : ids[i] = ids[j] => i = j
  <1>0. IsFiniteSet(FirstSlugs)
    BY SlugsAssumption
  <1>1. PICK n, F : n = Cardinality(FirstSlugs) /\ F = FirstSlugs
    OBVIOUS
  <1>2. n \in Nat /\ ExistsBijection(1..n, F)
    BY <1>0, <1>1, FS_CardinalityType
  <1>3. PICK b \in Bijection(1..n, F) : TRUE
    BY <1>2 DEF ExistsBijection
  <1>4. b \in [1..n -> F] /\ IsInjective(b)
    BY <1>3 DEF Bijection, Injection, IsInjective
  <1>5. ids \in [1..n -> F] /\ IsInjective(ids)
    BY <1>1, <1>4 DEF SetToSeq
  <1>6. ids \in Injection(1..n, F)
    BY <1>5 DEF Injection, IsInjective
  <1>7. Cardinality(1..n) = n /\ IsFiniteSet(1..n)
    BY <1>2, FS_Interval
  <1>8. ids \in Surjection(1..n, F)
    BY <1>0, <1>1, <1>6, <1>7, FS_Injection
  <1>9. \A id \in F : \E i \in 1..n : ids[i] = id
    BY <1>8 DEF Surjection
  <1> QED BY <1>1, <1>2, <1>5, <1>9 DEF IsInjective

LEMMA InitLogged == CollectionsInit => LogInv
  <1> SUFFICES ASSUME CollectionsInit PROVE LogInv
    OBVIOUS
  <1>1. /\ audit = <<>> /\ page = [id \in FirstSlugs |-> Row(id, 0, 0)] /\ typed = <<>>
        /\ call = [r \in Calls |-> NoCall] /\ texts = 0
    BY DEF CollectionsInit
  <1>2. PICK ids : ids = SetToSeq(FirstSlugs)
    OBVIOUS
  <1>3. PICK n : n = Cardinality(FirstSlugs)
    OBVIOUS
  <1>4. /\ DOMAIN ids = 1..n /\ n \in Nat /\ \A i \in DOMAIN ids : ids[i] \in FirstSlugs
        /\ \A id \in FirstSlugs : \E i \in DOMAIN ids : ids[i] = id
        /\ \A i, j \in DOMAIN ids : ids[i] = ids[j] => i = j
    BY <1>2, <1>3, FirstRowsFacts
  <1>5. collections = [i \in 1..n |-> Row(ids[i], 0, 0)]
    BY <1>2, <1>4 DEF CollectionsInit
  <1>6. DOMAIN collections = 1..n /\ \A i \in 1..n : collections[i] = Row(ids[i], 0, 0) /\ collections[i].id = ids[i]
    BY <1>5, RowIs
  <1>7. \A id \in FirstSlugs : Row(id, 0, 0) \in RowsUpTo(0)
    BY SlugsAssumption, RowInRows
  <1>8. collections \in Seq(RowsUpTo(texts))
    <2>1. \A i \in 1..n : Row(ids[i], 0, 0) \in RowsUpTo(texts)
      BY <1>1, <1>4, <1>7
    <2> QED BY <1>4, <1>5, <2>1, IsASeq
  <1>9. \A r \in Calls : Shown(call[r]) = {} /\ EditsOf(call[r]) = {} /\ BirthsOf(call[r]) = {} /\ CallOK(call[r], TabRows)
    BY <1>1, NoCallHolds
  <1>10. DeskSane
    <2>1. DOMAIN typed = {}
      BY <1>1
    <2>2. Edits = {} /\ Births = {} /\ Seen = TabRows \cup PageRows
      BY <1>9, <2>1 DEF Edits, Births, Seen
    <2>3. TabRows \subseteq RowsUpTo(0)
      BY <1>4, <1>6, <1>7 DEF TabRows
    <2>4. PageRows \subseteq RowsUpTo(0)
      BY <1>1, <1>7 DEF PageRows
    <2>5. PICK tab, seen, R : tab = TabRows /\ seen = Seen /\ R = RowsUpTo(0)
      OBVIOUS
    <2>6. tab \subseteq seen /\ seen \subseteq R
      BY <2>2, <2>3, <2>4, <2>5
    <2>7. \A v \in seen : Past({v}, v, tab, {}, {}, R)
      BY <2>6 DEF Past
    <2>8. Sane(tab, seen, {}, {}, R)
      BY <2>6, <2>7 DEF Sane
    <2> QED BY <1>1, <2>2, <2>5, <2>8 DEF DeskSane
  <1>11. OneRowEach(collections)
    BY <1>4, <1>6 DEF OneRowEach
  <1>12. Tells(audit, collections)
    <2>0. Len(audit) = 0 /\ DOMAIN audit = {}
      BY <1>1
    <2>1. ASSUME NEW id PROVE ToldThere(audit, 0, id) <=> id \in FirstSlugs
      BY DEF ToldThere
    <2>2. ASSUME NEW id, NEW f PROVE ToldCell(audit, 0, id, f) = 0
      BY DEF ToldCell
    <2>3. \A id \in Slugs : (\E i \in DOMAIN collections : collections[i].id = id) <=> ToldThere(audit, Len(audit), id)
      BY <1>4, <1>6, <2>0, <2>1
    <2>4. ASSUME NEW i \in DOMAIN collections, NEW f \in Fields PROVE collections[i][f] = ToldCell(audit, Len(audit), collections[i].id, f)
      <3>1. collections[i][f] = 0
        BY <1>6, RowIs DEF Fields
      <3> QED BY <2>0, <2>2, <3>1
    <2> QED BY <2>0, <2>3, <2>4 DEF Tells
  <1>13. IsLog
    <2>1. audit \in Seq({})
      BY <1>1
    <2> QED BY <2>1 DEF IsLog
  <1>14. CallsApart /\ CallsOK
    BY <1>9 DEF CallsApart, CallsOK
  <1> QED BY <1>1, <1>8, <1>10, <1>11, <1>12, <1>13, <1>14 DEF LogInv

\* While no two rows have had one id.
LEMMA StepLogged == DeskInv /\ (~twice => LogInv) /\ [CollectionsNext]_collectionsVars => (~twice' => LogInv')
  <1> SUFFICES ASSUME DeskInv, ~twice => LogInv, [CollectionsNext]_collectionsVars, ~twice' PROVE LogInv'
    OBVIOUS
  <1>1. DeskInv'
    BY DeskStepKeepsInv
  <1>2. ~twice
    <2>1. CASE Type \/ Elsewhere
      BY <2>1 DEF Type, Elsewhere
    <2>2. CASE \E r \in Calls : saveCollection(r) \/ deleteCollection(r) \/ addCollection(r)
      BY <2>2 DEF saveCollection, deleteCollection, addCollection, Post
    <2>3. CASE \E r \in Calls : Hear(r) \/ Upset(r)
      BY <2>3 DEF Hear, Upset
    <2>4. CASE \E r \in Calls : Handle(r)
      <3>1. PICK r \in Calls : Handle(r)
        BY <2>4
      <3>2. UNCHANGED twice \/ Write(r)
        BY <3>1 DEF Handle
      <3>3. Write(r) => twice' = twice \/ twice' = (twice \/ (call[r].kind = "create" /\ Bearing(call[r].id) # {}))
        BY DEF Write
      <3> QED BY <3>2, <3>3
    <2>5. CASE UNCHANGED collectionsVars
      BY <2>5 DEF collectionsVars
    <2> QED BY <2>1, <2>2, <2>3, <2>4, <2>5 DEF CollectionsNext
  <1>3. LogInv
    BY <1>2
  <1>4. CASE Type
    BY <1>1, <1>3, <1>4, TypeLogged
  <1>5. CASE Elsewhere
    BY <1>1, <1>3, <1>5, ElsewhereLogged
  <1>6. ASSUME NEW r \in Calls, saveCollection(r) \/ deleteCollection(r) \/ addCollection(r) \/ Handle(r) \/ Hear(r) \/ Upset(r)
        PROVE  LogInv'
    <2>1. CASE saveCollection(r)
      BY <1>1, <1>3, <2>1, SaveLogged
    <2>2. CASE deleteCollection(r)
      BY <1>1, <1>3, <2>2, DeleteLogged
    <2>3. CASE addCollection(r)
      BY <1>1, <1>3, <2>3, AddLogged
    <2>4. CASE Handle(r)
      BY <1>1, <1>3, <2>4, HandleLogged
    <2>5. CASE Hear(r)
      BY <1>1, <1>3, <2>5, HearLogged
    <2>6. CASE Upset(r)
      BY <1>1, <1>3, <2>6, UpsetLogged
    <2> QED BY <1>6, <2>1, <2>2, <2>3, <2>4, <2>5, <2>6
  <1>7. CASE UNCHANGED collectionsVars
    BY <1>3, <1>7, StutterLogged
  <1> QED BY <1>4, <1>5, <1>6, <1>7 DEF CollectionsNext

\* Read from its start, the AuditLog tells the tab and what each save found there, for any number of
\* requests and other windows, however their answers, failures and conflicts fall: what a request was
\* decided to change is right about the row it was asked for, or that row is gone and never comes back.
THEOREM AuditTellsTheTabHolds == CollectionsSpec => []AuditTellsTheTab
  <1>1. CollectionsInit => DeskInv /\ (~twice => LogInv)
    BY DeskInitInv, InitLogged
  <1>2. DeskInv /\ (~twice => LogInv) /\ [CollectionsNext]_collectionsVars => (DeskInv /\ (~twice => LogInv))'
    BY DeskStepKeepsInv, StepLogged
  <1>3. DeskInv /\ (~twice => LogInv) => AuditTellsTheTab
    BY AuditTells DEF LogInv
  <1> QED BY <1>1, <1>2, <1>3, PTL DEF CollectionsSpec

=============================================================================
