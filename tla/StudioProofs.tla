---------------------------- MODULE StudioProofs ----------------------------
(***************************************************************************)
(* What the studio promises, for any number of visitors, products,         *)
(* compactors, pages, buyers and hours, and for every photo: no reaction   *)
(* is lost and no vote changed by compaction, a studio that works is not   *)
(* signed out, a visit has one row per window, the page of customers shows *)
(* the tab.                                                                *)
(***************************************************************************)
EXTENDS Compaction, AdminSession, VisitLog, CustomersDesk, SequenceTheorems, WellFoundedInduction,
        FiniteSetTheorems, TLAPS

-----------------------------------------------------------------------------
(* The reactions compactor                                                 *)

Survivors(rows) == planCompaction(rows).keep
IdsIn(rows) == {rows[k].id : k \in DOMAIN rows}

\* The survivors lead the tab.
Led(rows) ==
    /\ Len(Survivors(rows)) <= Len(rows)
    /\ \A k \in 1..Len(Survivors(rows)) : rows[k] = Survivors(rows)[k]

\* What the survivors do not keep is archived.
Archived == IdsIn(tab) \subseteq IdsIn(Survivors(tab)) \cup archive

\* A call that leaves every vote and all history as they are, now or later.
Harmless(call) ==
    \/ call.do = "archive" /\ call.rows \in Seq(Row)
    \/ /\ call.do = "write" /\ Archived
       /\ \/ call.from = 1 /\ call.rows = Survivors(tab)
          \/ /\ call.from = Len(Survivors(tab)) + 1 /\ Led(tab)
             /\ \E n \in Nat : /\ call.rows = [k \in 1..n |-> Blank]
                               /\ Len(tab) <= Len(Survivors(tab)) + n

\* A run's plan is one for the tab as it is, however many others have been at it since.
OnPlan(r) ==
    /\ r.pc \in {"planned", "archived", "rewritten"}
    /\ r.keep = Survivors(tab) /\ r.supersede \in Seq(Row)
    /\ Len(tab) <= Len(r.keep) + Len(r.supersede)
    /\ IdsIn(tab) \subseteq IdsIn(r.keep) \cup IdsIn(r.supersede)
    /\ r.pc # "planned" => IdsIn(r.supersede) \subseteq archive
    /\ r.pc = "rewritten" => Led(tab)

TabOK ==
    /\ tab \in Seq(Row) /\ archive \subseteq Events /\ events \in 0..MaxEvents
    /\ HistoryConserved

Run == [pc : {"idle", "planned", "archived", "rewritten"}, keep : Seq(Row), supersede : Seq(Row)]

CompactionInv ==
    /\ TabOK
    /\ run \in [Compactors -> Run]
    /\ \A c \in Compactors : run[c].pc = "idle" \/ OnPlan(run[c])
    /\ \A call \in late : Harmless(call)

-----------------------------------------------------------------------------
(* Places and ranks                                                        *)

Rank(places, k) == Cardinality({j \in places : j <= k})

LEMMA LeastPlace ==
    ASSUME NEW S \in SUBSET Nat, S # {}
    PROVE  \E x \in S : \A y \in S : x <= y
  <1>1. IsWellFoundedOn(OpToRel(<, Nat), Nat)
    BY NatLessThanWellFounded
  <1>2. PICK x \in S : \A y \in S : ~(<<y, x>> \in OpToRel(<, Nat))
    BY <1>1, WFMin
  <1>3. \A y \in S : ~(y < x)
    BY <1>2 DEF OpToRel
  <1> QED BY <1>3

LEMMA PlacesFinite ==
    ASSUME NEW n \in Nat, NEW places \in SUBSET (1..n)
    PROVE  /\ IsFiniteSet(places) /\ Cardinality(places) \in 0..n
           /\ \A q \in SUBSET places : IsFiniteSet(q) /\ Cardinality(q) \in 0..Cardinality(places)
  <1>1. IsFiniteSet(1..n) /\ Cardinality(1..n) = n
    BY FS_Interval
  <1>2. IsFiniteSet(places) /\ Cardinality(places) <= n
    BY <1>1, FS_Subset
  <1>3. Cardinality(places) \in Nat
    BY <1>2, FS_CardinalityType
  <1>4. ASSUME NEW q \in SUBSET places PROVE IsFiniteSet(q) /\ Cardinality(q) \in 0..Cardinality(places)
    <2>1. IsFiniteSet(q) /\ Cardinality(q) <= Cardinality(places)
      BY <1>2, FS_Subset
    <2>2. Cardinality(q) \in Nat
      BY <2>1, FS_CardinalityType
    <2> QED BY <1>3, <2>1, <2>2
  <1> QED BY <1>2, <1>3, <1>4

\* The places are ranked without gaps.
LEMMA RanksCover ==
    ASSUME NEW n \in Nat, NEW places \in SUBSET (1..n)
    PROVE  /\ \A k \in places : Rank(places, k) \in 1..Cardinality(places)
           /\ \A j, k \in places : Rank(places, j) = Rank(places, k) => j = k
           /\ \A i \in 1..Cardinality(places) : \E k \in places : Rank(places, k) = i
  <1> DEFINE UpTo(k) == {j \in places : j <= k}
             m == Cardinality(places)
             rank == [k \in places |-> Rank(places, k)]
  <1>1. m \in Nat /\ IsFiniteSet(places) /\ places \subseteq Nat
    BY PlacesFinite
  <1>2. ASSUME NEW k \in places PROVE Rank(places, k) \in 1..m
    <2>1. UpTo(k) \in SUBSET places
      OBVIOUS
    <2>2. IsFiniteSet(UpTo(k)) /\ Cardinality(UpTo(k)) \in 0..m
      BY <2>1, PlacesFinite
    <2>3. k \in UpTo(k)
      BY <1>1
    <2>4. Cardinality(UpTo(k)) # 0
      BY <2>2, <2>3, FS_EmptySet
    <2> QED BY <1>1, <2>2, <2>4 DEF Rank
  <1>3. ASSUME NEW j \in places, NEW k \in places, j < k PROVE Rank(places, j) # Rank(places, k)
    <2>1. UpTo(j) \in SUBSET UpTo(k) /\ k \in UpTo(k) /\ k \notin UpTo(j)
      <3>1. j \in Nat /\ k \in Nat /\ ~(k <= j) /\ k <= k /\ \A i \in places : i <= j => i <= k
        BY <1>1, <1>3
      <3> QED BY <3>1
    <2>2. IsFiniteSet(UpTo(k))
      <3>1. UpTo(k) \in SUBSET places
        OBVIOUS
      <3> QED BY <3>1, PlacesFinite
    <2>3. Cardinality(UpTo(k)) = Cardinality(UpTo(j)) => UpTo(k) = UpTo(j)
      BY <2>1, <2>2, FS_Subset
    <2> QED BY <2>1, <2>3 DEF Rank
  <1>4. \A j, k \in places : Rank(places, j) = Rank(places, k) => j = k
    BY <1>1, <1>3
  <1>5. rank \in Injection(places, 1..m)
    BY <1>2, <1>4 DEF Injection, IsInjective
  <1>6. rank \in Surjection(places, 1..m)
    <2>1. IsFiniteSet(1..m) /\ Cardinality(1..m) = m
      BY <1>1, FS_Interval
    <2> QED BY <1>5, <2>1, FS_Injection
  <1>7. \A i \in 1..m : \E k \in places : rank[k] = i
    BY <1>6 DEF Surjection
  <1> QED BY <1>2, <1>4, <1>7

\* The place of rank i.
Nth(places, i) == CHOOSE k \in places : Rank(places, k) = i

LEMMA NthRanked ==
    ASSUME NEW n \in Nat, NEW places \in SUBSET (1..n)
    PROVE  /\ \A i \in 1..Cardinality(places) : Nth(places, i) \in places /\ Rank(places, Nth(places, i)) = i
           /\ \A k \in places : Rank(places, k) \in 1..Cardinality(places) /\ Nth(places, Rank(places, k)) = k
  <1>1. \A i \in 1..Cardinality(places) : Nth(places, i) \in places /\ Rank(places, Nth(places, i)) = i
    BY RanksCover DEF Nth
  <1>2. ASSUME NEW k \in places
        PROVE  Rank(places, k) \in 1..Cardinality(places) /\ Nth(places, Rank(places, k)) = k
    <2>1. Rank(places, k) \in 1..Cardinality(places)
      BY RanksCover
    <2>2. Nth(places, Rank(places, k)) \in places /\ Rank(places, Nth(places, Rank(places, k))) = Rank(places, k)
      BY <1>1, <2>1
    <2> QED BY <2>1, <2>2, RanksCover
  <1> QED BY <1>1, <1>2

LEMMA RowsAtNth ==
    ASSUME NEW rows, NEW places
    PROVE  RowsAt(rows, places) = [i \in 1..Cardinality(places) |-> rows[Nth(places, i)]]
  BY DEF RowsAt, Nth, Rank

-----------------------------------------------------------------------------
(* What a plan keeps                                                       *)

LEMMA FirstExists ==
    ASSUME NEW rows \in Seq(Row), NEW k \in 1..Len(rows)
    PROVE  \E j \in 1..Len(rows) : FirstOfPair(rows, j) /\ PairOf(rows[j]) = PairOf(rows[k])
  <1> DEFINE same == {j \in 1..Len(rows) : PairOf(rows[j]) = PairOf(rows[k])}
  <1>1. same \in SUBSET Nat /\ same # {}
    OBVIOUS
  <1>2. PICK j \in same : \A i \in same : j <= i
    BY <1>1, LeastPlace
  <1>3. FirstOfPair(rows, j)
    <2> SUFFICES ASSUME NEW i \in 1..(j - 1) PROVE PairOf(rows[i]) # PairOf(rows[j])
      BY DEF FirstOfPair
    <2>1. i \in 1..Len(rows) /\ ~(j <= i)
      BY <1>2
    <2> QED BY <1>2, <2>1
  <1> QED BY <1>2, <1>3

LEMMA SurvivorsForm ==
    ASSUME NEW rows \in Seq(Row)
    PROVE  /\ Survivors(rows) \in Seq(Row) /\ Len(Survivors(rows)) \in 0..Len(rows)
           /\ \A n \in 1..Len(Survivors(rows)) :
                  \E k \in 1..Len(rows) : FirstOfPair(rows, k) /\ Survivors(rows)[n] = rows[k]
           /\ \A k \in 1..Len(rows) : FirstOfPair(rows, k) =>
                  \E n \in 1..Len(Survivors(rows)) : Survivors(rows)[n] = rows[k]
           /\ \A i, j \in 1..Len(Survivors(rows)) : PairOf(Survivors(rows)[i]) = PairOf(Survivors(rows)[j]) => i = j
  <1> DEFINE N == Len(rows)
             places == {k \in 1..N : FirstOfPair(rows, k)}
             m == Cardinality(places)
             K == Survivors(rows)
  <1>1. N \in Nat /\ DOMAIN rows = 1..N /\ \A k \in 1..N : rows[k] \in Row
    OBVIOUS
  <1>2. K = RowsAt(rows, places)
    BY <1>1 DEF Survivors, planCompaction
  <1>3. places \in SUBSET (1..N)
    OBVIOUS
  <1>4. m \in 0..N
    <2> HIDE DEF places, N
    <2> QED BY <1>1, <1>3, PlacesFinite
  <1>5. /\ K = [i \in 1..m |-> rows[Nth(places, i)]]
        /\ \A i \in 1..m : Nth(places, i) \in places /\ Rank(places, Nth(places, i)) = i
        /\ \A k \in places : Rank(places, k) \in 1..m /\ Nth(places, Rank(places, k)) = k
    <2> HIDE DEF places, N, K
    <2>1. N \in Nat /\ places \in SUBSET (1..N)
      BY <1>1, <1>3
    <2>2. K = [i \in 1..m |-> rows[Nth(places, i)]]
      BY <1>2, RowsAtNth
    <2> QED BY <2>1, <2>2, NthRanked
  <1> HIDE DEF m, K, N
  <1>6. K \in Seq(Row) /\ Len(K) = m
    <2>1. \A i \in 1..m : rows[Nth(places, i)] \in Row
      BY <1>1, <1>5
    <2> HIDE DEF places
    <2> QED BY <1>4, <1>5, <2>1
  <1>7. \A n \in 1..m : \E k \in 1..N : FirstOfPair(rows, k) /\ K[n] = rows[k]
    BY <1>5
  <1>8. \A k \in 1..N : FirstOfPair(rows, k) => \E n \in 1..m : K[n] = rows[k]
    <2> SUFFICES ASSUME NEW k \in 1..N, FirstOfPair(rows, k) PROVE \E n \in 1..m : K[n] = rows[k]
      OBVIOUS
    <2>1. k \in places
      OBVIOUS
    <2> HIDE DEF places
    <2> QED BY <1>5, <2>1
  <1>9. ASSUME NEW i \in 1..m, NEW j \in 1..m, PairOf(K[i]) = PairOf(K[j]) PROVE i = j
    <2>1. PICK a \in places : a = Nth(places, i) /\ K[i] = rows[a] /\ Rank(places, a) = i
      BY <1>5
    <2>2. PICK b \in places : b = Nth(places, j) /\ K[j] = rows[b] /\ Rank(places, b) = j
      BY <1>5
    <2>3. ~(a < b) /\ ~(b < a)
      BY <1>1, <1>9, <2>1, <2>2 DEF FirstOfPair
    <2>4. a = b
      BY <1>1, <2>3
    <2> QED BY <2>1, <2>2, <2>4
  <1>10. Len(K) \in 0..N
    BY <1>4, <1>6
  <1> HIDE DEF places
  <1> QED BY <1>6, <1>7, <1>8, <1>9, <1>10 DEF K, N

\* Rows whose first m are of different pairs, and the rest of the same, keep the first m.
LEMMA PrefixSurvives ==
    ASSUME NEW rows \in Seq(Row), NEW m \in 0..Len(rows),
           \A k \in 1..Len(rows) : FirstOfPair(rows, k) <=> k <= m
    PROVE  Len(Survivors(rows)) = m /\ \A n \in 1..m : Survivors(rows)[n] = rows[n]
  <1> DEFINE N == Len(rows)
             places == {k \in 1..N : FirstOfPair(rows, k)}
  <1>1. N \in Nat /\ m \in Nat /\ m <= N /\ DOMAIN rows = 1..N
    OBVIOUS
  <1>2. places = 1..m
    BY <1>1
  <1>3. Survivors(rows) = RowsAt(rows, 1..m)
    BY <1>1, <1>2 DEF Survivors, planCompaction
  <1>4. Cardinality(1..m) = m /\ 1..m \in SUBSET (1..m)
    BY <1>1, FS_Interval
  <1>5. /\ RowsAt(rows, 1..m) = [i \in 1..m |-> rows[Nth(1..m, i)]]
        /\ \A k \in 1..m : Nth(1..m, Rank(1..m, k)) = k
    BY <1>1, <1>4, RowsAtNth, NthRanked
  <1>6. ASSUME NEW k \in 1..m PROVE Rank(1..m, k) = k
    <2>1. {j \in 1..m : j <= k} = 1..k
      BY <1>1
    <2>2. Cardinality(1..k) = k
      BY FS_Interval
    <2> QED BY <2>1, <2>2 DEF Rank
  <1>7. \A i \in 1..m : Nth(1..m, i) = i
    BY <1>5, <1>6
  <1> QED BY <1>1, <1>3, <1>5, <1>7

\* Every pair of the rows is among their survivors.
LEMMA PairSurvives ==
    ASSUME NEW rows \in Seq(Row), NEW k \in 1..Len(rows)
    PROVE  \E n \in 1..Len(Survivors(rows)) : PairOf(Survivors(rows)[n]) = PairOf(rows[k])
  <1>1. PICK j \in 1..Len(rows) : FirstOfPair(rows, j) /\ PairOf(rows[j]) = PairOf(rows[k])
    BY FirstExists
  <1>2. PICK n \in 1..Len(Survivors(rows)) : Survivors(rows)[n] = rows[j]
    BY <1>1, SurvivorsForm
  <1> QED BY <1>1, <1>2

\* A plan forgets no row.
LEMMA PlanCovers ==
    ASSUME NEW rows \in Seq(Row), NEW sup, sup = planCompaction(rows).supersede
    PROVE  /\ sup \in Seq(Row)
           /\ Len(rows) = Len(Survivors(rows)) + Len(sup)
           /\ IdsIn(rows) \subseteq IdsIn(Survivors(rows)) \cup IdsIn(sup)
  <1> DEFINE N == Len(rows)
             firsts == {k \in 1..N : FirstOfPair(rows, k)}
             others == {k \in 1..N : ~FirstOfPair(rows, k)}
  <1>1. N \in Nat /\ DOMAIN rows = 1..N /\ \A k \in 1..N : rows[k] \in Row
    OBVIOUS
  <1>2. sup = RowsAt(rows, others) /\ Survivors(rows) = RowsAt(rows, firsts)
    BY <1>1 DEF Survivors, planCompaction
  <1>3. firsts \in SUBSET (1..N) /\ others \in SUBSET (1..N)
    OBVIOUS
  <1>4. others = (1..N) \ firsts /\ firsts \cap (1..N) = firsts
    OBVIOUS
  <1>5. \A k \in 1..N : k \in firsts \/ k \in others
    OBVIOUS
  <1> DEFINE m == Cardinality(firsts)
             l == Cardinality(others)
  <1> HIDE DEF firsts, others, N
  <1>6. m \in Nat /\ l \in Nat
    BY <1>1, <1>3, PlacesFinite
  <1>7. l = N - m
    <2>1. IsFiniteSet(1..N) /\ Cardinality(1..N) = N
      BY <1>1, FS_Interval
    <2>2. Cardinality((1..N) \ firsts) = Cardinality(1..N) - Cardinality((1..N) \cap firsts)
      BY <2>1, FS_Difference
    <2>3. (1..N) \cap firsts = firsts
      BY <1>4
    <2> QED BY <1>4, <2>1, <2>2, <2>3
  <1>8. /\ sup = [i \in 1..l |-> rows[Nth(others, i)]]
        /\ Survivors(rows) = [i \in 1..m |-> rows[Nth(firsts, i)]]
    BY <1>2, RowsAtNth
  <1>9. /\ \A i \in 1..l : Nth(others, i) \in others
        /\ \A k \in others : Rank(others, k) \in 1..l /\ Nth(others, Rank(others, k)) = k
        /\ \A k \in firsts : Rank(firsts, k) \in 1..m /\ Nth(firsts, Rank(firsts, k)) = k
    BY <1>1, <1>3, NthRanked
  <1> HIDE DEF m, l
  <1>10. sup \in Seq(Row) /\ Len(sup) = l
    <2>1. \A i \in 1..l : rows[Nth(others, i)] \in Row
      BY <1>1, <1>3, <1>9
    <2>2. sup \in [1..l -> Row]
      BY <1>8, <2>1
    <2> QED BY <1>6, <2>2
  <1>11. Len(Survivors(rows)) = m /\ DOMAIN Survivors(rows) = 1..m /\ DOMAIN sup = 1..l
    BY <1>6, <1>8
  <1>12. ASSUME NEW k \in 1..N PROVE rows[k].id \in IdsIn(Survivors(rows)) \cup IdsIn(sup)
    <2>1. CASE k \in firsts
      <3>1. Survivors(rows)[Rank(firsts, k)] = rows[k]
        BY <1>8, <1>9, <2>1
      <3> QED BY <1>9, <1>11, <2>1, <3>1 DEF IdsIn
    <2>2. CASE k \in others
      <3>1. sup[Rank(others, k)] = rows[k]
        BY <1>8, <1>9, <2>2
      <3> QED BY <1>9, <1>11, <2>2, <3>1 DEF IdsIn
    <2> QED BY <1>5, <2>1, <2>2
  <1>13. N = m + l
    BY <1>1, <1>6, <1>7
  <1> QED BY <1>1, <1>10, <1>11, <1>12, <1>13 DEF IdsIn, N

-----------------------------------------------------------------------------
(* What a write leaves                                                     *)

\* Fewer rows perhaps, but none new, and the same survive, in front.
Milder(new, old) ==
    /\ new \in Seq(Row) /\ Survivors(new) = Survivors(old) /\ Led(new)
    /\ Len(new) <= Len(old)
    /\ IdsIn(new) \subseteq IdsIn(old)
    /\ IdsIn(Survivors(old)) \subseteq IdsIn(new)

LEMMA MaxOfPrefix ==
    ASSUME NEW n \in Nat
    PROVE  Max({0} \cup (1..n)) = n
  <1> DEFINE S == {0} \cup (1..n)
  <1>1. n \in S /\ \A y \in S : n >= y
    OBVIOUS
  <1>2. \A x \in S : (\A y \in S : x >= y) => x = n
    OBVIOUS
  <1>3. Max(S) = CHOOSE x \in S : \A y \in S : x >= y
    BY DEF Max
  <1>4. Max(S) \in S /\ \A y \in S : Max(S) >= y
    <2> HIDE DEF S
    <2> QED BY <1>1, <1>3, Zenon
  <1> QED BY <1>2, <1>4

\* The rows that lead, with only blank ones below.
LEMMA TrimmedIsLead ==
    ASSUME NEW m \in Nat, NEW n \in Nat, m <= n, NEW rows, NEW lead \in Seq(Row), Len(lead) = m,
           rows = [k \in 1..n |-> IF k <= m THEN lead[k] ELSE Blank]
    PROVE  Trimmed(rows) = lead
  <1>1. \A k \in 1..m : lead[k] \in Row
    OBVIOUS
  <1>2. Blank \notin Row
    <2>1. Blank.id = 0
      BY DEF Blank
    <2>2. \A r \in Row : r.id \in 1..MaxEvents
      BY DEF Row, Events
    <2> QED BY <2>1, <2>2, CompactionConstants
  <1>3. Len(rows) = n /\ rows \in Seq(Row \cup {Blank})
    BY <1>1
  <1>4. {k \in 1..Len(rows) : rows[k] # Blank} = 1..m
    <2>1. \A k \in 1..n : rows[k] # Blank <=> k <= m
      BY <1>1, <1>2
    <2> QED BY <1>3, <2>1
  <1>5. Trimmed(rows) = SubSeq(rows, 1, m)
    BY <1>4, MaxOfPrefix DEF Trimmed
  <1>6. SubSeq(rows, 1, m) \in Seq(Row \cup {Blank}) /\ Len(SubSeq(rows, 1, m)) = m
    BY <1>3
  <1>7. \A k \in 1..m : SubSeq(rows, 1, m)[k] = lead[k]
    BY <1>3
  <1> QED BY <1>5, <1>6, <1>7

LEMMA IdOf ==
    ASSUME NEW rows, NEW k \in DOMAIN rows
    PROVE  rows[k].id \in IdsIn(rows)
  BY DEF IdsIn

\* Writing the survivors over the rows.
LEMMA RewriteIsMilder ==
    ASSUME tab \in Seq(Row), NEW new, new = Trimmed(Overwritten(1, Survivors(tab)))
    PROVE  Milder(new, tab)
  <1> DEFINE K == Survivors(tab)
             N == Len(tab)
             m == Len(K)
             T == [k \in 1..N |-> IF k <= m THEN K[k] ELSE tab[k]]
  <1>1. /\ N \in Nat /\ m \in 0..N /\ K \in Seq(Row)
        /\ DOMAIN tab = 1..N /\ DOMAIN K = 1..m
        /\ \A k \in 1..N : tab[k] \in Row
        /\ \A k \in 1..m : K[k] \in Row
    BY SurvivorsForm
  <1>a. \A k \in 1..m : \E j \in 1..N : K[k] = tab[j]
    <2>1. \A k \in 1..Len(Survivors(tab)) : \E j \in 1..Len(tab) : FirstOfPair(tab, j) /\ Survivors(tab)[k] = tab[j]
      BY SurvivorsForm
    <2> QED BY <2>1
  <1> HIDE DEF K, N, m
  <1>2. Overwritten(1, K) = T
    <2>1. Overwritten(1, K) = [k \in 1..(IF N < 1 + m - 1 THEN 1 + m - 1 ELSE N) |->
                                 IF k \in 1..(1 + m - 1) THEN K[k - 1 + 1] ELSE tab[k]]
      BY DEF Overwritten, N, m
    <2>2. (IF N < 1 + m - 1 THEN 1 + m - 1 ELSE N) = N /\ 1 + m - 1 = m /\ \A k \in 1..m : k - 1 + 1 = k
      BY <1>1
    <2>3. \A k \in 1..N : (k \in 1..m) <=> (k <= m)
      BY <1>1
    <2> QED BY <2>1, <2>2, <2>3
  <1>3. T \in Seq(Row) /\ Len(T) = N /\ DOMAIN T = 1..N
    BY <1>1
  <1>4. \A k \in 1..m : k \in 1..N /\ T[k] = K[k]
    BY <1>1
  <1>5. \A k \in 1..N : ~(k <= m) => T[k] = tab[k]
    OBVIOUS
  <1> HIDE DEF T
  <1>6. new = T
    <2>1. T = [k \in 1..N |-> IF k <= N THEN T[k] ELSE Blank]
      BY <1>1, <1>3
    <2>2. Trimmed(T) = T
      BY <1>1, <1>3, <2>1, TrimmedIsLead
    <2> QED BY <1>2, <2>2 DEF K
  <1>7. \A k \in 1..Len(T) : FirstOfPair(T, k) <=> k <= m
    <2>1. ASSUME NEW k \in 1..N, k <= m PROVE FirstOfPair(T, k)
      <3> SUFFICES ASSUME NEW j \in 1..(k - 1) PROVE PairOf(T[j]) # PairOf(T[k])
        BY DEF FirstOfPair
      <3>1. j \in 1..m /\ k \in 1..m /\ j # k
        BY <1>1, <2>1
      <3>2. PairOf(K[j]) = PairOf(K[k]) => j = k
        BY <3>1, SurvivorsForm DEF K, m
      <3> QED BY <1>4, <3>1, <3>2
    <2>2. ASSUME NEW k \in 1..N, ~(k <= m) PROVE ~FirstOfPair(T, k)
      <3>1. PICK n \in 1..m : PairOf(K[n]) = PairOf(tab[k])
        BY PairSurvives DEF K, m, N
      <3>2. n \in 1..(k - 1) /\ PairOf(T[n]) = PairOf(T[k])
        BY <1>1, <1>4, <1>5, <2>2, <3>1
      <3> QED BY <3>2 DEF FirstOfPair
    <2> QED BY <1>3, <2>1, <2>2
  <1>8. Survivors(T) = K
    <2>1. Len(Survivors(T)) = m /\ \A n \in 1..m : Survivors(T)[n] = T[n]
      BY <1>1, <1>3, <1>7, PrefixSurvives
    <2>2. Survivors(T) \in Seq(Row)
      BY <1>3, SurvivorsForm
    <2> QED BY <1>1, <1>4, <2>1, <2>2 DEF m
  <1>9. Led(T)
    BY <1>1, <1>3, <1>4, <1>8 DEF Led, m
  <1>10. IdsIn(T) \subseteq IdsIn(tab)
    <2> SUFFICES ASSUME NEW k \in 1..N PROVE T[k].id \in IdsIn(tab)
      BY <1>3 DEF IdsIn
    <2>1. CASE k <= m
      <3>1. k \in 1..m
        BY <1>1, <2>1
      <3>2. PICK j \in 1..N : K[k] = tab[j]
        BY <1>a, <3>1
      <3> QED BY <1>1, <1>4, <3>1, <3>2, IdOf
    <2>2. CASE ~(k <= m)
      BY <1>1, <1>5, <2>2, IdOf
    <2> QED BY <2>1, <2>2
  <1>11. IdsIn(K) \subseteq IdsIn(T)
    <2> SUFFICES ASSUME NEW k \in 1..m PROVE K[k].id \in IdsIn(T)
      BY <1>1 DEF IdsIn
    <2> QED BY <1>3, <1>4, IdOf
  <1> QED BY <1>1, <1>3, <1>6, <1>8, <1>9, <1>10, <1>11 DEF Milder, K, N

\* Blanking every row below the survivors.
LEMMA BlankingIsMilder ==
    ASSUME tab \in Seq(Row), Led(tab), NEW n \in Nat, Len(tab) <= Len(Survivors(tab)) + n,
           NEW new, new = Trimmed(Overwritten(Len(Survivors(tab)) + 1, [k \in 1..n |-> Blank]))
    PROVE  Milder(new, tab)
  <1> DEFINE K == Survivors(tab)
             N == Len(tab)
             m == Len(K)
             blanks == [k \in 1..n |-> Blank]
             T == [k \in 1..(m + n) |-> IF k <= m THEN K[k] ELSE Blank]
  <1>1. /\ N \in Nat /\ m \in 0..N /\ K \in Seq(Row)
        /\ DOMAIN tab = 1..N /\ DOMAIN K = 1..m
        /\ \A k \in 1..m : K[k] \in Row /\ tab[k] = K[k]
    BY SurvivorsForm DEF Led
  <1>a. \A k \in 1..m : \E j \in 1..N : K[k] = tab[j]
    <2>1. \A k \in 1..Len(Survivors(tab)) : \E j \in 1..Len(tab) : FirstOfPair(tab, j) /\ Survivors(tab)[k] = tab[j]
      BY SurvivorsForm
    <2> QED BY <2>1
  <1>2. Len(blanks) = n /\ \A k \in 1..n : blanks[k] = Blank
    OBVIOUS
  <1>3. N <= m + n
    OBVIOUS
  <1> HIDE DEF K, N, m, blanks
  <1>4. Overwritten(m + 1, blanks) = T
    <2>1. Overwritten(m + 1, blanks) =
             [k \in 1..(IF N < m + 1 + n - 1 THEN m + 1 + n - 1 ELSE N) |->
                IF k \in (m + 1)..(m + 1 + n - 1) THEN blanks[k - (m + 1) + 1] ELSE tab[k]]
      BY <1>2 DEF Overwritten, N
    <2>2. (IF N < m + 1 + n - 1 THEN m + 1 + n - 1 ELSE N) = m + n /\ m + 1 + n - 1 = m + n
      <3>1. N \in Nat /\ m \in Nat /\ n \in Nat /\ N <= m + n
        BY <1>1, <1>3
      <3> QED BY <3>1
    <2>3. \A k \in 1..(m + n) :
             /\ (k \in (m + 1)..(m + n)) <=> ~(k <= m)
             /\ ~(k <= m) => k - (m + 1) + 1 \in 1..n
             /\ k <= m => k \in 1..m
      BY <1>1
    <2> QED BY <1>1, <1>2, <2>1, <2>2, <2>3
  <1>5. new = K
    <2>1. m \in Nat /\ m + n \in Nat /\ m <= m + n
      BY <1>1
    <2>2. Trimmed(T) = K
      BY <1>1, <2>1, TrimmedIsLead DEF m
    <2> QED BY <1>4, <2>2 DEF K, m, blanks
  <1>6. \A k \in 1..Len(K) : FirstOfPair(K, k) <=> k <= m
    <2> SUFFICES ASSUME NEW k \in 1..m PROVE FirstOfPair(K, k)
      BY <1>1 DEF m
    <2> SUFFICES ASSUME NEW j \in 1..(k - 1) PROVE PairOf(K[j]) # PairOf(K[k])
      BY DEF FirstOfPair
    <2>1. j \in 1..m /\ k \in 1..m /\ j # k
      BY <1>1
    <2>2. PairOf(K[j]) = PairOf(K[k]) => j = k
      BY <2>1, SurvivorsForm DEF K, m
    <2> QED BY <2>1, <2>2
  <1>7. Survivors(K) = K
    <2>1. Len(Survivors(K)) = m /\ \A i \in 1..m : Survivors(K)[i] = K[i]
      <3>1. m \in 0..Len(K) /\ m = Len(K)
        BY <1>1 DEF m
      <3> QED BY <1>1, <1>6, <3>1, PrefixSurvives
    <2>2. Survivors(K) \in Seq(Row)
      BY <1>1, SurvivorsForm
    <2> QED BY <1>1, <2>1, <2>2 DEF m
  <1>8. Led(K)
    BY <1>1, <1>7 DEF Led, m
  <1>9. IdsIn(K) \subseteq IdsIn(tab)
    <2> SUFFICES ASSUME NEW k \in 1..m PROVE K[k].id \in IdsIn(tab)
      BY <1>1 DEF IdsIn
    <2>1. PICK j \in 1..N : K[k] = tab[j]
      BY <1>a
    <2> QED BY <1>1, <2>1, IdOf
  <1> QED BY <1>1, <1>5, <1>7, <1>8, <1>9 DEF Milder, K, N, m

-----------------------------------------------------------------------------
(* A harmless call                                                         *)

\* What the steps of a compactor do to the sheet.
Gentle ==
    /\ tab' = tab \/ Milder(tab', tab)
    /\ archive \subseteq archive' /\ archive' \subseteq Events

LEMMA HarmlessCall ==
    ASSUME TabOK, NEW call, Harmless(call), Apply(call)
    PROVE  /\ Gentle
           /\ (\A e \in 1..events : e \in archive' \/ \E k \in 1..Len(tab') : tab'[k].id = e)
           /\ call.do = "archive" => IdsIn(call.rows) \subseteq archive'
           /\ call.do = "write" => Milder(tab', tab)
  <1>1. tab \in Seq(Row) /\ archive \subseteq Events
    BY DEF TabOK
  <1>2. CASE call.do = "archive"
    <2>1. /\ tab' = tab /\ call.rows \in Seq(Row)
          /\ archive' = archive \cup {call.rows[k].id : k \in 1..Len(call.rows)}
      BY <1>2 DEF Harmless, Apply
    <2>2. \A k \in 1..Len(call.rows) : call.rows[k] \in Row
      BY <2>1
    <2>3. {call.rows[k].id : k \in 1..Len(call.rows)} \subseteq Events
      BY <2>2 DEF Row
    <2>4. IdsIn(call.rows) = {call.rows[k].id : k \in 1..Len(call.rows)}
      BY <2>1 DEF IdsIn
    <2>5. archive \subseteq archive' /\ archive' \subseteq Events
      BY <1>1, <2>1, <2>3
    <2> QED BY <1>2, <2>1, <2>4, <2>5 DEF Gentle, TabOK, HistoryConserved
  <1>3. CASE call.do = "write"
    <2>1. /\ tab' = Trimmed(Overwritten(call.from, call.rows)) /\ archive' = archive /\ Archived
      BY <1>3 DEF Harmless, Apply
    <2>2. Milder(tab', tab)
      <3>1. CASE call.from = 1 /\ call.rows = Survivors(tab)
        BY <1>1, <2>1, <3>1, RewriteIsMilder
      <3>2. CASE /\ call.from = Len(Survivors(tab)) + 1 /\ Led(tab)
                 /\ \E n \in Nat : /\ call.rows = [k \in 1..n |-> Blank]
                                   /\ Len(tab) <= Len(Survivors(tab)) + n
        <4>1. PICK n \in Nat : /\ call.rows = [k \in 1..n |-> Blank]
                               /\ Len(tab) <= Len(Survivors(tab)) + n
          BY <3>2
        <4> QED BY <1>1, <2>1, <3>2, <4>1, BlankingIsMilder
      <3> QED BY <1>3, <3>1, <3>2 DEF Harmless
    <2>3. ASSUME NEW e \in 1..events PROVE e \in archive' \/ \E k \in 1..Len(tab') : tab'[k].id = e
      <3>1. CASE e \in archive
        BY <2>1, <3>1
      <3>2. CASE e \notin archive
        <4>1. e \in IdsIn(tab)
          BY <1>1, <3>2 DEF TabOK, HistoryConserved, IdsIn
        <4>2. e \in IdsIn(tab')
          BY <2>1, <2>2, <3>2, <4>1 DEF Archived, Milder
        <4>3. DOMAIN tab' = 1..Len(tab')
          BY <2>2 DEF Milder
        <4> QED BY <4>2, <4>3 DEF IdsIn
      <3> QED BY <3>1, <3>2
    <2> QED BY <1>1, <1>3, <2>1, <2>2, <2>3 DEF Gentle
  <1> QED BY <1>2, <1>3 DEF Apply

\* Whatever the others do, a plan stays good and a call stays harmless.
LEMMA PlanSurvives ==
    ASSUME Gentle, NEW r, OnPlan(r)
    PROVE  OnPlan(r)'
  <1>1. Survivors(tab') = Survivors(tab) /\ archive \subseteq archive'
    BY DEF Gentle, Milder
  <1>2. CASE tab' = tab
    <2>1. Led(tab) => Led(tab')
      BY <1>2 DEF Led
    <2>2. IdsIn(tab') = IdsIn(tab) /\ Len(tab') = Len(tab)
      BY <1>2
    <2> QED BY <1>1, <2>1, <2>2 DEF OnPlan
  <1>3. CASE Milder(tab', tab)
    <2>1. Led(tab') /\ Len(tab') <= Len(tab) /\ IdsIn(tab') \subseteq IdsIn(tab)
      BY <1>3 DEF Milder
    <2> QED BY <1>1, <2>1 DEF OnPlan
  <1> QED BY <1>2, <1>3 DEF Gentle

LEMMA StaysHarmless ==
    ASSUME Gentle, NEW call, Harmless(call)
    PROVE  Harmless(call)'
  <1>1. Survivors(tab') = Survivors(tab) /\ archive \subseteq archive'
    BY DEF Gentle, Milder
  <1>2. IdsIn(tab') \subseteq IdsIn(tab)
    BY DEF Gentle, Milder
  <1>3. Archived => Archived'
    BY <1>1, <1>2 DEF Archived
  <1>4. Len(tab') = Len(tab) \/ Len(tab') <= Len(tab)
    BY DEF Gentle, Milder
  <1>5. Led(tab) => Led(tab')
    <2>1. tab' = tab => (Led(tab) => Led(tab'))
      BY DEF Led
    <2> QED BY <2>1 DEF Gentle, Milder
  <1>6. CASE call.do = "archive" /\ call.rows \in Seq(Row)
    BY <1>6 DEF Harmless
  <1>7. CASE call.do = "write" /\ Archived /\ call.from = 1 /\ call.rows = Survivors(tab)
    BY <1>1, <1>3, <1>7 DEF Harmless
  <1>8. CASE /\ call.do = "write" /\ Archived
             /\ call.from = Len(Survivors(tab)) + 1 /\ Led(tab)
             /\ \E n \in Nat : /\ call.rows = [k \in 1..n |-> Blank]
                               /\ Len(tab) <= Len(Survivors(tab)) + n
    <2>1. PICK n \in Nat : /\ call.rows = [k \in 1..n |-> Blank]
                           /\ Len(tab) <= Len(Survivors(tab)) + n
      BY <1>8
    <2>2. Len(tab') <= Len(Survivors(tab')) + n
      BY <1>1, <1>4, <2>1 DEF TabOK, Gentle, Milder
    <2> QED BY <1>1, <1>3, <1>5, <1>8, <2>1, <2>2 DEF Harmless
  <1> QED BY <1>6, <1>7, <1>8 DEF Harmless

\* The next call of a run on plan is harmless, and leaves the run on plan.
LEMMA PlannedCallHarmless ==
    ASSUME NEW r, OnPlan(r)
    PROVE  Harmless(NextCall(r))
  <1>1. CASE r.pc = "planned"
    <2>1. NextCall(r) = [do |-> "archive", from |-> 0, rows |-> r.supersede]
      BY <1>1 DEF NextCall, Archive, Call
    <2> QED BY <2>1 DEF Harmless, OnPlan
  <1>2. CASE r.pc = "archived"
    <2>1. NextCall(r) = [do |-> "write", from |-> 1, rows |-> r.keep]
      BY <1>2 DEF NextCall, Rewrite, Call
    <2>2. Archived
      BY <1>2 DEF OnPlan, Archived
    <2> QED BY <2>1, <2>2 DEF Harmless, OnPlan
  <1>3. CASE r.pc = "rewritten"
    <2>1. NextCall(r) = [do |-> "write", from |-> Len(r.keep) + 1,
                         rows |-> [k \in 1..Len(r.supersede) |-> Blank]]
      BY <1>3 DEF NextCall, BlankTail, Call
    <2>2. Archived
      BY <1>3 DEF OnPlan, Archived
    <2>3. Len(r.supersede) \in Nat
      BY DEF OnPlan
    <2> DEFINE call == NextCall(r)
    <2>4. /\ call.do = "write" /\ call.from = Len(Survivors(tab)) + 1 /\ Led(tab)
          /\ call.rows = [k \in 1..Len(r.supersede) |-> Blank]
          /\ Len(tab) <= Len(Survivors(tab)) + Len(r.supersede)
      BY <1>3, <2>1 DEF OnPlan
    <2> HIDE DEF call
    <2>5. Harmless(call)
      BY <2>2, <2>3, <2>4 DEF Harmless
    <2> QED BY <2>5 DEF call
  <1> QED BY <1>1, <1>2, <1>3 DEF OnPlan

LEMMA WriteKeepsPlan ==
    ASSUME TabOK, NEW r \in Run, OnPlan(r), Apply(NextCall(r))
    PROVE  /\ After(r) \in Run
           /\ After(r).pc = "idle" \/ OnPlan(After(r))'
  <1>1. Harmless(NextCall(r))
    BY PlannedCallHarmless
  <1>2. /\ Gentle
        /\ NextCall(r).do = "archive" => IdsIn(NextCall(r).rows) \subseteq archive'
        /\ NextCall(r).do = "write" => Milder(tab', tab)
    BY <1>1, HarmlessCall
  <1>3. OnPlan(r)'
    BY <1>2, PlanSurvives
  <1>4. CASE r.pc = "planned"
    <2> DEFINE a == [r EXCEPT !.pc = "archived"]
    <2>1. After(r) = a
      BY <1>4 DEF After
    <2>2. a \in Run /\ a.pc = "archived" /\ a.keep = r.keep /\ a.supersede = r.supersede
      BY DEF Run
    <2> HIDE DEF a
    <2>3. IdsIn(r.supersede) \subseteq archive'
      BY <1>2, <1>4 DEF NextCall, Archive, Call
    <2>4. OnPlan(a)'
      BY <1>3, <2>2, <2>3 DEF OnPlan
    <2> QED BY <2>1, <2>2, <2>4
  <1>5. CASE r.pc = "archived"
    <2> DEFINE a == [r EXCEPT !.pc = "rewritten"]
    <2>1. After(r) = a
      BY <1>5 DEF After
    <2>2. a \in Run /\ a.pc = "rewritten" /\ a.keep = r.keep /\ a.supersede = r.supersede
      BY DEF Run
    <2> HIDE DEF a
    <2>3. Led(tab')
      BY <1>2, <1>5 DEF NextCall, Rewrite, Call, Milder
    <2>4. OnPlan(a)'
      BY <1>3, <1>5, <2>2, <2>3 DEF OnPlan
    <2> QED BY <2>1, <2>2, <2>4
  <1>6. CASE r.pc = "rewritten"
    <2>1. After(r) = NoRun
      BY <1>6 DEF After
    <2>2. NoRun \in Run /\ NoRun.pc = "idle"
      BY DEF NoRun, Run
    <2> QED BY <2>1, <2>2
  <1> QED BY <1>4, <1>5, <1>6 DEF OnPlan

-----------------------------------------------------------------------------
(* The steps *)

\* What every step of a compactor leaves true.
LEMMA GentleStep ==
    ASSUME CompactionInv, Gentle, events' = events,
           \A e \in 1..events : e \in archive' \/ \E k \in 1..Len(tab') : tab'[k].id = e
    PROVE  TabOK' /\ \A r : OnPlan(r) => OnPlan(r)'
  <1>1. TabOK
    BY DEF CompactionInv
  <1>2. tab' \in Seq(Row)
    BY <1>1 DEF TabOK, Gentle, Milder
  <1>3. TabOK'
    BY <1>1, <1>2 DEF TabOK, Gentle, HistoryConserved
  <1> QED BY <1>3, PlanSurvives

LEMMA StandingStill ==
    ASSUME TabOK, tab' = tab, archive' = archive
    PROVE  Gentle /\ \A e \in 1..events : e \in archive' \/ \E k \in 1..Len(tab') : tab'[k].id = e
  BY DEF Gentle, TabOK, HistoryConserved

\* The other runs stay on plan when one is replaced by a run that is.
LEMMA RunsStayOnPlan ==
    ASSUME CompactionInv, Gentle, NEW c \in Compactors, NEW q \in Run,
           run' = [run EXCEPT ![c] = q], q.pc = "idle" \/ OnPlan(q)'
    PROVE  /\ run' \in [Compactors -> Run]
           /\ (\A b \in Compactors : run[b].pc = "idle" \/ OnPlan(run[b]))'
  <1>1. run \in [Compactors -> Run] /\ \A b \in Compactors : run[b].pc = "idle" \/ OnPlan(run[b])
    BY DEF CompactionInv
  <1>2. run' \in [Compactors -> Run]
    BY <1>1
  <1>3. ASSUME NEW b \in Compactors PROVE (run[b].pc = "idle" \/ OnPlan(run[b]))'
    <2>1. PICK s \in Run : s = run'[b]
      BY <1>2
    <2>2. s.pc = "idle" \/ OnPlan(s)'
      <3>1. CASE b = c
        BY <1>1, <2>1, <3>1
      <3>2. CASE b # c
        <4>1. s = run[b]
          BY <1>1, <2>1, <3>2
        <4>2. s.pc = "idle" \/ OnPlan(s)
          BY <1>1, <4>1 DEF OnPlan
        <4> QED BY <4>2, PlanSurvives
      <3> QED BY <3>1, <3>2
    <2> QED BY <2>1, <2>2 DEF OnPlan
  <1> QED BY <1>2, <1>3

LEMMA CallsStayHarmless ==
    ASSUME CompactionInv, Gentle, \A call \in late' : call \in late \/ Harmless(call)'
    PROVE  (\A call \in late : Harmless(call))'
  BY StaysHarmless DEF CompactionInv

LEMMA PlanKeeps ==
    ASSUME CompactionInv, NEW c \in Compactors, Plan(c)
    PROVE  CompactionInv'
  <1>1. /\ TabOK /\ run \in [Compactors -> Run] /\ tab \in Seq(Row)
        /\ UNCHANGED <<tab, archive, late, events>>
    BY DEF CompactionInv, TabOK, Plan
  <1>2. Gentle /\ \A e \in 1..events : e \in archive' \/ \E k \in 1..Len(tab') : tab'[k].id = e
    BY <1>1, StandingStill
  <1> DEFINE r == [pc |-> "planned", keep |-> planCompaction(tab).keep,
                   supersede |-> planCompaction(tab).supersede]
  <1>3. run' = [run EXCEPT ![c] = r]
    BY DEF Plan
  <1>4. r \in Run /\ OnPlan(r)
    <2> DEFINE sup == planCompaction(tab).supersede
    <2>1. /\ sup \in Seq(Row) /\ Len(tab) = Len(Survivors(tab)) + Len(sup)
          /\ IdsIn(tab) \subseteq IdsIn(Survivors(tab)) \cup IdsIn(sup)
      BY <1>1, PlanCovers
    <2>2. Survivors(tab) \in Seq(Row) /\ Len(Survivors(tab)) \in Nat
      BY <1>1, SurvivorsForm
    <2>3. r = [pc |-> "planned", keep |-> Survivors(tab), supersede |-> sup]
      BY DEF Survivors
    <2> HIDE DEF sup, r
    <2>4. r.pc = "planned" /\ r.keep = Survivors(tab) /\ r.supersede = sup /\ r \in Run
      BY <2>1, <2>2, <2>3 DEF Run
    <2>5. Len(tab) <= Len(r.keep) + Len(r.supersede)
      BY <1>1, <2>1, <2>2, <2>4
    <2> QED BY <2>1, <2>4, <2>5 DEF OnPlan
  <1> HIDE DEF r
  <1>5. TabOK'
    BY <1>1, <1>2, GentleStep
  <1>6. PICK q \in Run : q = r
    BY <1>4
  <1>7. run' \in [Compactors -> Run] /\ (\A b \in Compactors : run[b].pc = "idle" \/ OnPlan(run[b]))'
    <2>1. OnPlan(q)
      BY <1>4, <1>6 DEF OnPlan
    <2>2. OnPlan(q)'
      BY <1>2, <2>1, PlanSurvives
    <2>3. run' = [run EXCEPT ![c] = q]
      BY <1>3, <1>6
    <2> QED BY <1>2, <2>2, <2>3, RunsStayOnPlan
  <1>8. (\A call \in late : Harmless(call))'
    BY <1>1, <1>2, CallsStayHarmless
  <1> QED BY <1>5, <1>7, <1>8 DEF CompactionInv

LEMMA WriteKeeps ==
    ASSUME CompactionInv, NEW c \in Compactors, Write(c)
    PROVE  CompactionInv' /\ Gentle /\ events' = events
  <1>1. TabOK /\ run \in [Compactors -> Run] /\ UNCHANGED <<late, events>>
    BY DEF CompactionInv, Write
  <1>2. PICK r \in Run : r = run[c]
    BY <1>1
  <1>3. OnPlan(r) /\ Apply(NextCall(r)) /\ run' = [run EXCEPT ![c] = After(r)]
    <2>1. run[c].pc # "idle" /\ Apply(NextCall(run[c])) /\ run' = [run EXCEPT ![c] = After(run[c])]
      BY <1>1 DEF Write
    <2>2. OnPlan(run[c])
      BY <2>1 DEF CompactionInv
    <2> QED BY <1>2, <2>1, <2>2 DEF OnPlan
  <1>4. After(r) \in Run /\ (After(r).pc = "idle" \/ OnPlan(After(r))')
    BY <1>1, <1>3, WriteKeepsPlan
  <1>5. Gentle /\ \A e \in 1..events : e \in archive' \/ \E k \in 1..Len(tab') : tab'[k].id = e
    BY <1>1, <1>3, PlannedCallHarmless, HarmlessCall
  <1>6. TabOK'
    BY <1>1, <1>5, GentleStep
  <1>7. run' \in [Compactors -> Run] /\ (\A b \in Compactors : run[b].pc = "idle" \/ OnPlan(run[b]))'
    BY <1>3, <1>4, <1>5, RunsStayOnPlan
  <1>8. (\A call \in late : Harmless(call))'
    BY <1>1, <1>5, CallsStayHarmless
  <1> QED BY <1>1, <1>5, <1>6, <1>7, <1>8 DEF CompactionInv

LEMMA WriteFailsKeeps ==
    ASSUME CompactionInv, NEW c \in Compactors, WriteFails(c)
    PROVE  CompactionInv' /\ Gentle /\ events' = events
  <1>1. TabOK /\ run \in [Compactors -> Run] /\ events' = events /\ run' = [run EXCEPT ![c] = NoRun]
    BY DEF CompactionInv, WriteFails
  <1>2. PICK r \in Run : r = run[c]
    BY <1>1
  <1> DEFINE call == NextCall(r)
  <1>3. /\ OnPlan(r)
        /\ \/ Apply(call) /\ UNCHANGED late
           \/ late' = late \cup {call} /\ UNCHANGED <<tab, archive>>
           \/ UNCHANGED <<tab, archive, late>>
    <2>1. /\ run[c].pc # "idle"
          /\ \/ Apply(NextCall(run[c])) /\ UNCHANGED late
             \/ late' = late \cup {NextCall(run[c])} /\ UNCHANGED <<tab, archive>>
             \/ UNCHANGED <<tab, archive, late>>
      BY DEF WriteFails
    <2>2. OnPlan(run[c])
      BY <2>1 DEF CompactionInv
    <2>3. OnPlan(r)
      BY <1>2, <2>2 DEF OnPlan
    <2> QED BY <1>2, <2>1, <2>3
  <1>4. Harmless(call)
    BY <1>3, PlannedCallHarmless
  <1> HIDE DEF call
  <1>5. Gentle /\ \A e \in 1..events : e \in archive' \/ \E k \in 1..Len(tab') : tab'[k].id = e
    <2>1. CASE Apply(call)
      BY <1>1, <1>4, <2>1, HarmlessCall
    <2>2. CASE UNCHANGED <<tab, archive>>
      BY <1>1, <2>2, StandingStill
    <2> QED BY <1>3, <2>1, <2>2
  <1>6. TabOK'
    BY <1>1, <1>5, GentleStep
  <1>7. NoRun \in Run /\ NoRun.pc = "idle"
    BY DEF NoRun, Run
  <1>8. run' \in [Compactors -> Run] /\ (\A b \in Compactors : run[b].pc = "idle" \/ OnPlan(run[b]))'
    BY <1>1, <1>5, <1>7, RunsStayOnPlan
  <1>9. Harmless(call)'
    BY <1>4, <1>5, StaysHarmless
  <1>10. (\A d \in late : Harmless(d))'
    <2>1. \A d \in late' : d \in late \/ Harmless(d)'
      <3>1. \A d \in late' : d \in late \/ d = call
        BY <1>3
      <3> QED BY <1>9, <3>1 DEF Harmless
    <2> QED BY <1>5, <2>1, CallsStayHarmless
  <1> QED BY <1>1, <1>5, <1>6, <1>8, <1>10 DEF CompactionInv

LEMMA LateLandsKeeps ==
    ASSUME CompactionInv, LateLands
    PROVE  CompactionInv' /\ Gentle /\ events' = events
  <1>1. PICK call \in late : Apply(call) /\ late' = late \ {call} /\ UNCHANGED <<run, events>>
    BY DEF LateLands
  <1>2. TabOK /\ Harmless(call)
    BY DEF CompactionInv
  <1>3. Gentle /\ \A e \in 1..events : e \in archive' \/ \E k \in 1..Len(tab') : tab'[k].id = e
    BY <1>1, <1>2, HarmlessCall
  <1>4. TabOK'
    BY <1>1, <1>3, GentleStep
  <1>5. (\A d \in late : Harmless(d))'
    BY <1>1, <1>3, CallsStayHarmless
  <1>6. run' \in [Compactors -> Run] /\ (\A b \in Compactors : run[b].pc = "idle" \/ OnPlan(run[b]))'
    <2>1. run' = run /\ run \in [Compactors -> Run] /\ \A b \in Compactors : run[b].pc = "idle" \/ OnPlan(run[b])
      BY <1>1 DEF CompactionInv
    <2>2. ASSUME NEW b \in Compactors PROVE (run[b].pc = "idle" \/ OnPlan(run[b]))'
      <3>1. PICK s \in Run : s = run[b]
        BY <2>1
      <3>2. s.pc = "idle" \/ OnPlan(s)
        BY <2>1, <3>1 DEF OnPlan
      <3>3. s.pc = "idle" \/ OnPlan(s)'
        BY <1>3, <3>2, PlanSurvives
      <3> QED BY <2>1, <3>1, <3>3 DEF OnPlan
    <2> QED BY <2>1, <2>2
  <1> QED BY <1>1, <1>3, <1>4, <1>5, <1>6 DEF CompactionInv

LEMMA ReactKeeps ==
    ASSUME CompactionInv, React
    PROVE  CompactionInv'
  <1>1. /\ TabOK /\ tab \in Seq(Row) /\ run \in [Compactors -> Run]
        /\ events \in 0..MaxEvents /\ events < MaxEvents /\ events' = events + 1
        /\ UNCHANGED <<archive, run, late>>
        /\ late = {} /\ \A c \in Compactors : run[c].pc = "idle"
    BY DEF CompactionInv, TabOK, React, Quiet
  <1>2. PICK v \in Visitors, p \in Products, x \in Reaction :
            tab' = insertReactionRows(tab, <<[id |-> events + 1, who |-> v, product |-> p, reaction |-> x]>>)
    BY DEF React
  <1>3. PICK row \in Row : row.id = events' /\ tab' = <<row>> \o tab
    <2>1. events' \in Events /\ events' \in 0..MaxEvents
      BY <1>1, CompactionConstants DEF Events
    <2>2. [id |-> events', who |-> v, product |-> p, reaction |-> x] \in Row
      BY <2>1 DEF Row
    <2> QED BY <1>1, <1>2, <2>2 DEF insertReactionRows
  <1>4. /\ tab' \in Seq(Row) /\ Len(tab') = Len(tab) + 1
        /\ tab'[1] = row /\ \A k \in 1..Len(tab) : tab'[k + 1] = tab[k]
    BY <1>1, <1>3
  <1>5. HistoryConserved'
    <2> SUFFICES ASSUME NEW e \in 1..events'
                 PROVE  e \in archive' \/ \E k \in 1..Len(tab') : tab'[k].id = e
      BY DEF HistoryConserved
    <2>1. CASE e = events'
      BY <1>1, <1>3, <1>4, <2>1
    <2>2. CASE e # events'
      <3>1. e \in 1..events
        BY <1>1, <2>2
      <3>2. CASE e \in archive
        BY <1>1, <3>2
      <3>3. CASE \E k \in 1..Len(tab) : tab[k].id = e
        <4>1. PICK k \in 1..Len(tab) : tab[k].id = e
          BY <3>3
        <4>2. k + 1 \in 1..Len(tab') /\ tab'[k + 1].id = e
          BY <1>1, <1>4, <4>1
        <4> QED BY <4>2
      <3> QED BY <1>1, <3>1, <3>2, <3>3 DEF TabOK, HistoryConserved
    <2> QED BY <2>1, <2>2
  <1>6. TabOK'
    <2>1. events' \in 0..MaxEvents
      BY <1>1, CompactionConstants
    <2> QED BY <1>1, <1>4, <1>5, <2>1 DEF TabOK
  <1> QED BY <1>1, <1>6 DEF CompactionInv

LEMMA CompactionStep ==
    ASSUME CompactionInv, [CompactionNext]_compactionVars
    PROVE  CompactionInv'
  <1>1. CASE React
    BY <1>1, ReactKeeps
  <1>2. CASE LateLands
    BY <1>2, LateLandsKeeps
  <1>3. ASSUME NEW c \in Compactors, Plan(c) PROVE CompactionInv'
    BY <1>3, PlanKeeps
  <1>4. ASSUME NEW c \in Compactors, Write(c) PROVE CompactionInv'
    BY <1>4, WriteKeeps
  <1>5. ASSUME NEW c \in Compactors, WriteFails(c) PROVE CompactionInv'
    BY <1>5, WriteFailsKeeps
  <1>6. CASE UNCHANGED compactionVars
    BY <1>6 DEF compactionVars, CompactionInv, TabOK, HistoryConserved, OnPlan, Harmless, Archived, Led
  <1> QED BY <1>1, <1>2, <1>3, <1>4, <1>5, <1>6 DEF CompactionNext

LEMMA CompactionStart ==
    ASSUME CompactionInit
    PROVE  CompactionInv
  <1>1. NoRun \in Run /\ NoRun.pc = "idle"
    BY DEF NoRun, Run
  <1>2. TabOK
    BY CompactionConstants DEF CompactionInit, TabOK, HistoryConserved
  <1> QED BY <1>1, <1>2 DEF CompactionInit, CompactionInv

\* Every run under way holds a plan for the tab as it is, and every late call is harmless.
THEOREM CompactionInvHolds == CompactionSpec => []CompactionInv
  <1> QED BY CompactionStart, CompactionStep, PTL DEF CompactionSpec

\* No reaction is ever lost: whatever compactors overlap, fail or land late, the row of
\* every reaction is in the tab or in the archive at every moment.
THEOREM HistoryConservedHolds == CompactionSpec => []HistoryConserved
  <1>1. CompactionInv => HistoryConserved
    BY DEF CompactionInv, TabOK
  <1> QED BY <1>1, CompactionInvHolds, PTL

-----------------------------------------------------------------------------
(* The compactor implements the register of votes *)

\* The first row of a pair is its current reaction.
LEMMA FirstDecides ==
    ASSUME NEW rows \in Seq(Row), NEW k \in 1..Len(rows), FirstOfPair(rows, k)
    PROVE  Current(rows, rows[k].who, rows[k].product) = rows[k].reaction
  <1> DEFINE S == {j \in DOMAIN rows : rows[j].who = rows[k].who /\ rows[j].product = rows[k].product}
  <1>1. k \in S /\ S \subseteq 1..Len(rows)
    OBVIOUS
  <1>2. \A j \in S : k <= j
    <2> SUFFICES ASSUME NEW j \in S, ~(k <= j) PROVE FALSE
      OBVIOUS
    <2>1. j \in 1..(k - 1)
      OBVIOUS
    <2> QED BY <2>1 DEF FirstOfPair, PairOf
  <1>3. Min(S) \in S /\ \A y \in S : Min(S) <= y
    <2> HIDE DEF S
    <2> QED BY <1>1, <1>2, Zenon DEF Min
  <1>4. Min(S) = k
    <2> HIDE DEF S
    <2>1. Min(S) \in 1..Len(rows) /\ k <= Min(S) /\ Min(S) <= k
      BY <1>1, <1>2, <1>3
    <2> DEFINE least == Min(S)
    <2> HIDE DEF least
    <2>2. least \in 1..Len(rows) /\ k <= least /\ least <= k
      BY <2>1 DEF least
    <2>3. least = k
      BY <2>2
    <2> QED BY <2>3 DEF least
  <1>5. Current(rows, rows[k].who, rows[k].product) = rows[Min(S)].reaction
    BY <1>1 DEF Current
  <1> HIDE DEF S
  <1> QED BY <1>4, <1>5

LEMMA NoneWithoutRows ==
    ASSUME NEW rows \in Seq(Row), NEW v, NEW p,
           \A k \in 1..Len(rows) : rows[k].who # v \/ rows[k].product # p
    PROVE  Current(rows, v, p) = "none"
  BY DEF Current

\* The survivors say what the whole log says.
LEMMA SurvivorsDecide ==
    ASSUME NEW rows \in Seq(Row), NEW v, NEW p
    PROVE  Current(rows, v, p) = Current(Survivors(rows), v, p)
  <1> DEFINE K == Survivors(rows)
  <1>1. /\ K \in Seq(Row) /\ Len(K) \in 0..Len(rows)
        /\ \A n \in 1..Len(K) : \E k \in 1..Len(rows) : FirstOfPair(rows, k) /\ K[n] = rows[k]
        /\ \A k \in 1..Len(rows) : FirstOfPair(rows, k) => \E n \in 1..Len(K) : K[n] = rows[k]
        /\ \A i, j \in 1..Len(K) : PairOf(K[i]) = PairOf(K[j]) => i = j
    BY SurvivorsForm
  <1> HIDE DEF K
  <1>2. CASE \E k \in 1..Len(rows) : rows[k].who = v /\ rows[k].product = p
    <2>1. PICK k \in 1..Len(rows) : rows[k].who = v /\ rows[k].product = p
      BY <1>2
    <2>2. PICK j \in 1..Len(rows) : FirstOfPair(rows, j) /\ PairOf(rows[j]) = PairOf(rows[k])
      BY FirstExists
    <2>3. PICK n \in 1..Len(K) : K[n] = rows[j]
      BY <1>1, <2>2
    <2>4. FirstOfPair(K, n)
      <3> SUFFICES ASSUME NEW i \in 1..(n - 1) PROVE PairOf(K[i]) # PairOf(K[n])
        BY DEF FirstOfPair
      <3>1. i \in 1..Len(K) /\ i # n
        BY <1>1
      <3> QED BY <1>1, <3>1
    <2>5. rows[j].who = v /\ rows[j].product = p
      BY <2>1, <2>2 DEF PairOf
    <2>6. Current(rows, v, p) = rows[j].reaction
      BY <2>2, <2>5, FirstDecides
    <2>7. Current(K, v, p) = K[n].reaction
      BY <1>1, <2>3, <2>4, <2>5, FirstDecides
    <2> QED BY <2>3, <2>6, <2>7 DEF K
  <1>3. CASE ~\E k \in 1..Len(rows) : rows[k].who = v /\ rows[k].product = p
    <2>1. Current(rows, v, p) = "none"
      BY <1>3, NoneWithoutRows
    <2>2. \A n \in 1..Len(K) : K[n].who # v \/ K[n].product # p
      BY <1>1, <1>3
    <2>3. Current(K, v, p) = "none"
      BY <1>1, <2>2, NoneWithoutRows
    <2> QED BY <2>1, <2>3 DEF K
  <1> QED BY <1>2, <1>3

\* A row on top decides its own pair.
LEMMA TopOfPair ==
    ASSUME NEW row \in Row, NEW new \in Seq(Row), Len(new) > 0, new[1] = row
    PROVE  Current(new, row.who, row.product) = row.reaction
  <1>1. 1 \in 1..Len(new) /\ FirstOfPair(new, 1)
    BY DEF FirstOfPair
  <1> QED BY <1>1, FirstDecides

\* And no other.
LEMMA OthersKeepTheirs ==
    ASSUME NEW v, NEW p, NEW rows \in Seq(Row), NEW row \in Row, NEW new \in Seq(Row),
           Len(new) = Len(rows) + 1, new[1] = row, \A k \in 1..Len(rows) : new[k + 1] = rows[k],
           ~(row.who = v /\ row.product = p)
    PROVE  Current(new, v, p) = Current(rows, v, p)
  <1>1. /\ Len(rows) \in Nat /\ \A k \in 1..Len(rows) : k + 1 \in 1..Len(new)
        /\ \A k \in 1..Len(new) : k = 1 \/ (k - 1 \in 1..Len(rows) /\ new[k] = rows[k - 1])
    OBVIOUS
  <1>2. CASE \E k \in 1..Len(rows) : rows[k].who = v /\ rows[k].product = p
    <2>1. PICK k \in 1..Len(rows) : rows[k].who = v /\ rows[k].product = p
      BY <1>2
    <2>2. PICK j \in 1..Len(rows) : FirstOfPair(rows, j) /\ PairOf(rows[j]) = PairOf(rows[k])
      BY FirstExists
    <2>3. rows[j].who = v /\ rows[j].product = p
      BY <2>1, <2>2 DEF PairOf
    <2>4. j + 1 \in 1..Len(new) /\ new[j + 1] = rows[j]
      BY <1>1
    <2>5. FirstOfPair(new, j + 1)
      <3> SUFFICES ASSUME NEW i \in 1..(j + 1 - 1) PROVE PairOf(new[i]) # PairOf(new[j + 1])
        BY DEF FirstOfPair
      <3>1. CASE i = 1
        BY <2>3, <2>4, <3>1 DEF PairOf
      <3>2. CASE i # 1
        <4>1. i \in 1..Len(new) /\ i - 1 \in 1..(j - 1)
          BY <1>1, <3>2
        <4>2. new[i] = rows[i - 1]
          BY <1>1, <3>2, <4>1
        <4> QED BY <2>2, <2>4, <4>1, <4>2 DEF FirstOfPair
      <3> QED BY <3>1, <3>2
    <2>6. Current(rows, v, p) = rows[j].reaction
      BY <2>2, <2>3, FirstDecides
    <2>7. Current(new, v, p) = new[j + 1].reaction
      BY <2>3, <2>4, <2>5, FirstDecides
    <2> QED BY <2>4, <2>6, <2>7
  <1>3. CASE ~\E k \in 1..Len(rows) : rows[k].who = v /\ rows[k].product = p
    <2>1. Current(rows, v, p) = "none"
      BY <1>3, NoneWithoutRows
    <2>2. \A k \in 1..Len(new) : new[k].who # v \/ new[k].product # p
      BY <1>1, <1>3
    <2>3. Current(new, v, p) = "none"
      BY <2>2, NoneWithoutRows
    <2> QED BY <2>1, <2>3
  <1> QED BY <1>2, <1>3

\* A gentle step leaves every vote as it is.
LEMMA GentleKeepsVotes ==
    ASSUME TabOK, Gentle
    PROVE  Votes' = Votes
  <1>1. tab \in Seq(Row) /\ tab' \in Seq(Row)
    BY DEF TabOK, Gentle, Milder
  <1>2. Survivors(tab') = Survivors(tab)
    BY DEF Gentle, Milder
  <1>3. \A v \in Visitors, p \in Products : Current(tab', v, p) = Current(tab, v, p)
    BY <1>1, <1>2, SurvivorsDecide
  <1> QED BY <1>3 DEF Votes

LEMMA ReactIsRecord ==
    ASSUME CompactionInv, React
    PROVE  \E v \in Visitors, p \in Products : Register!Record(v, p)
  <1>1. tab \in Seq(Row) /\ events \in 0..MaxEvents /\ events < MaxEvents /\ events' = events + 1
    BY DEF CompactionInv, TabOK, React
  <1>2. PICK v \in Visitors, p \in Products, x \in Reaction :
            tab' = insertReactionRows(tab, <<[id |-> events + 1, who |-> v, product |-> p, reaction |-> x]>>)
    BY DEF React
  <1>3. PICK row \in Row : row.who = v /\ row.product = p /\ row.reaction = x /\ tab' = <<row>> \o tab
    <2>1. events + 1 \in Events
      BY <1>1, CompactionConstants DEF Events
    <2>2. [id |-> events + 1, who |-> v, product |-> p, reaction |-> x] \in Row
      BY <2>1 DEF Row
    <2> QED BY <1>2, <2>2 DEF insertReactionRows
  <1>4. \A w \in Visitors, q \in Products :
            Current(tab', w, q) = IF v = w /\ p = q THEN x ELSE Current(tab, w, q)
    <2> SUFFICES ASSUME NEW w \in Visitors, NEW q \in Products
                 PROVE  Current(tab', w, q) = IF v = w /\ p = q THEN x ELSE Current(tab, w, q)
      OBVIOUS
    <2>1. /\ row.who = w /\ row.product = q => Current(tab', w, q) = row.reaction
          /\ ~(row.who = w /\ row.product = q) => Current(tab', w, q) = Current(tab, w, q)
      <3>1. tab \in Seq(Row) /\ row \in Row /\ tab' = <<row>> \o tab
        BY <1>1, <1>3
      <3>2. PICK old, new : old = tab /\ new = tab'
        OBVIOUS
      <3>3. /\ old \in Seq(Row) /\ new \in Seq(Row)
            /\ Len(new) = Len(old) + 1 /\ new[1] = row /\ \A k \in 1..Len(old) : new[k + 1] = old[k]
        BY <3>1, <3>2
      <3>4. ASSUME row.who = w /\ row.product = q PROVE Current(new, w, q) = row.reaction
        <4>1. Current(new, row.who, row.product) = row.reaction
          BY <3>3, TopOfPair
        <4> QED BY <3>4, <4>1
      <3>5. ASSUME ~(row.who = w /\ row.product = q) PROVE Current(new, w, q) = Current(old, w, q)
        BY <3>3, <3>5, OthersKeepTheirs
      <3> QED BY <3>2, <3>4, <3>5
    <2> QED BY <1>3, <2>1
  <1>5. Votes' = [Votes EXCEPT ![<<v, p>>] = x]
    <2> SUFFICES ASSUME NEW pair \in Visitors \X Products
                 PROVE  Current(tab', pair[1], pair[2]) = IF pair = <<v, p>> THEN x ELSE Current(tab, pair[1], pair[2])
      BY DEF Votes
    <2>1. pair[1] \in Visitors /\ pair[2] \in Products /\ pair = <<pair[1], pair[2]>>
      OBVIOUS
    <2> QED BY <1>4, <2>1
  <1> QED BY <1>1, <1>2, <1>5 DEF Register!Record

LEMMA RegisterStart ==
    ASSUME CompactionInit
    PROVE  Register!RegisterInit
  <1>1. \A v \in Visitors, p \in Products : Current(tab, v, p) = "none"
    <2>1. tab = <<>> /\ tab \in Seq(Row) /\ Len(tab) = 0
      BY DEF CompactionInit
    <2>2. \A k \in 1..Len(tab) : FALSE
      BY <2>1
    <2> TAKE v \in Visitors, p \in Products
    <2> QED BY <2>1, <2>2, NoneWithoutRows
  <1> QED BY <1>1 DEF CompactionInit, Register!RegisterInit, Votes

LEMMA RegisterStep ==
    ASSUME CompactionInv, [CompactionNext]_compactionVars
    PROVE  [\E v \in Visitors, p \in Products : Register!Record(v, p)]_<<Votes, events>>
  <1>1. TabOK
    BY DEF CompactionInv
  <1>2. CASE React
    BY <1>2, ReactIsRecord
  <1>3. CASE LateLands
    BY <1>1, <1>3, LateLandsKeeps, GentleKeepsVotes
  <1>4. ASSUME NEW c \in Compactors, Plan(c) PROVE Votes' = Votes /\ events' = events
    BY <1>1, <1>4, StandingStill, GentleKeepsVotes DEF Plan
  <1>5. ASSUME NEW c \in Compactors, Write(c) PROVE Votes' = Votes /\ events' = events
    BY <1>1, <1>5, WriteKeeps, GentleKeepsVotes
  <1>6. ASSUME NEW c \in Compactors, WriteFails(c) PROVE Votes' = Votes /\ events' = events
    BY <1>1, <1>6, WriteFailsKeeps, GentleKeepsVotes
  <1>7. CASE UNCHANGED compactionVars
    BY <1>7 DEF compactionVars, Votes
  <1> QED BY <1>2, <1>3, <1>4, <1>5, <1>6, <1>7 DEF CompactionNext

\* The compactor implements the register: only a reaction changes what the log says.
\* Every step of a compactor, a failed one and a late one too, leaves every vote as it is.
THEOREM CompactionImplementsRegister == CompactionSpec => RefinesVoteRegister
  <1>1. CompactionInit => Register!RegisterInit
    BY RegisterStart
  <1>2. CompactionInv /\ [CompactionNext]_compactionVars =>
            [\E v \in Visitors, p \in Products : Register!Record(v, p)]_<<Votes, events>>
    BY RegisterStep
  <1> QED BY <1>1, <1>2, CompactionInvHolds, PTL
        DEF CompactionSpec, RefinesVoteRegister, Register!RegisterSpec

-----------------------------------------------------------------------------
(* The studio's session                                                    *)

SessionToken == [sid : Nat, iat : Nat, exp : Nat, abs : Nat]
StudioPage == [at : {"away", "open"}, session : SessionToken, since : Nat]

SessionTypeOK ==
    /\ hour \in Nat /\ logins \in Nat /\ served \in Nat
    /\ token \in SessionToken /\ page \in [Pages -> StudioPage]
    /\ revoked \in [1..MaxLogins -> Nat] /\ out \subseteq 1..MaxLogins

Open(p) == page[p].at = "open"
InUse == {token} \cup {page[p].session : p \in Pages}

\* A session ends with its idle window or with its absolute limit, which every token of it carries;
\* it is on the list until then if it was logged out of.
TokenInv(t) ==
    t.sid # 0 =>
        /\ t.sid <= logins
        /\ t.exp = Least(t.iat + IDLE, t.abs)
        /\ t.sid \in out => t.abs <= revoked[t.sid]

OneLimit == \A t, u \in InUse : t.sid # 0 /\ t.sid = u.sid => t.abs = u.abs
ListedAreOut == \A s \in 1..MaxLogins : (revoked[s] # 0 => s \in out) /\ (s \in out => s <= logins)
Arrived == served <= hour /\ \A p \in Pages : Open(p) => page[p].since <= hour /\ hour <= page[p].since + 1

\* The cookie is not older than REISSUE_AFTER before what was answered, nor before what is yet to be
\* answered without a new cookie.
CookieIsRecent ==
    token.sid # 0 =>
        /\ served <= token.iat + REISSUE_AFTER
        /\ \A p \in Pages : Open(p) /\ ~needsReissue(page[p].session, page[p].since)
                               => page[p].since <= token.iat + REISSUE_AFTER

SessionInv ==
    /\ SessionTypeOK /\ logins <= MaxLogins
    /\ \A t \in InUse : TokenInv(t)
    /\ OneLimit /\ ListedAreOut /\ Arrived /\ CookieIsRecent

LEMMA SessionNumbers ==
    /\ REISSUE_AFTER \in Nat /\ REISSUE_AFTER >= 1 /\ IDLE \in Nat /\ ABSOLUTE \in Nat /\ REISSUE_AFTER < IDLE
    /\ MaxLogins \in Nat
  BY SessionConstants

LEMMA LeastBounds ==
    ASSUME NEW a \in Nat, NEW b \in Nat
    PROVE  Least(a, b) \in Nat /\ Least(a, b) <= a /\ Least(a, b) <= b /\ Least(a, b) \in {a, b}
  BY DEF Least

LEMMA AwayForms == NoToken \in SessionToken /\ Away \in StudioPage /\ Away.at = "away" /\ Away.session = NoToken /\ NoToken.sid = 0
  BY DEF NoToken, Away, SessionToken, StudioPage

LEMMA InUseTyped ==
    ASSUME SessionTypeOK
    PROVE  /\ \A t \in InUse : t \in SessionToken
           /\ token \in InUse /\ \A p \in Pages : page[p] \in StudioPage /\ page[p].session \in InUse
  BY DEF SessionTypeOK, InUse, StudioPage

\* A session that is issued again keeps its number and its absolute limit.
LEMMA RefreshForm ==
    ASSUME NEW t \in SessionToken, NEW at \in Nat
    PROVE  LET u == refreshSession(t, at)
           IN  u \in SessionToken /\ u.sid = t.sid /\ u.abs = t.abs /\ u.iat = at /\ u.exp = Least(at + IDLE, t.abs)
  <1> DEFINE exp == Least(at + IDLE, t.abs)
  <1>1. exp \in Nat
    <2>1. at + IDLE \in Nat /\ t.abs \in Nat
      BY SessionNumbers DEF SessionToken
    <2> QED BY <2>1, LeastBounds
  <1> HIDE DEF exp
  <1>2. [t EXCEPT !.iat = at, !.exp = exp] \in SessionToken
    BY <1>1 DEF SessionToken
  <1>3. [t EXCEPT !.iat = at, !.exp = exp].sid = t.sid /\ [t EXCEPT !.iat = at, !.exp = exp].abs = t.abs
        /\ [t EXCEPT !.iat = at, !.exp = exp].iat = at /\ [t EXCEPT !.iat = at, !.exp = exp].exp = exp
    BY <1>1 DEF SessionToken
  <1> QED BY <1>2, <1>3 DEF refreshSession, exp

\* A new session's window is the shorter of the two limits.
LEMMA NewSessionForm ==
    ASSUME NEW sid \in Nat, hour \in Nat
    PROVE  LET u == newSession(sid)
           IN  u \in SessionToken /\ u.sid = sid /\ u.abs = hour + ABSOLUTE /\ u.iat = hour
               /\ u.exp = Least(u.iat + IDLE, u.abs)
  <1>1. hour + Least(IDLE, ABSOLUTE) = Least(hour + IDLE, hour + ABSOLUTE) /\ hour + ABSOLUTE \in Nat
        /\ hour + Least(IDLE, ABSOLUTE) \in Nat
    BY SessionNumbers DEF Least
  <1> QED BY <1>1 DEF newSession, SessionToken

LEMMA SessionInitInv == SessionInit => SessionInv
  <1> SUFFICES ASSUME SessionInit PROVE SessionInv
    OBVIOUS
  <1>1. \A t \in InUse : t = NoToken
    BY AwayForms DEF SessionInit, InUse
  <1>2. \A p \in Pages : ~Open(p)
    BY AwayForms DEF SessionInit, Open
  <1>3. SessionTypeOK
    BY AwayForms, SessionNumbers DEF SessionInit, SessionTypeOK
  <1>4. logins <= MaxLogins /\ Arrived /\ ListedAreOut /\ CookieIsRecent
    BY <1>2, AwayForms, SessionNumbers DEF SessionInit, Arrived, ListedAreOut, CookieIsRecent
  <1>5. OneLimit /\ \A t \in InUse : TokenInv(t)
    BY <1>1, AwayForms DEF OneLimit, TokenInv
  <1> QED BY <1>3, <1>4, <1>5 DEF SessionInv

\* Tokens that are in use after a step, each of a session that was in use before it.
LEMMA SameSessions ==
    ASSUME SessionInv, logins' = logins,
           \A u \in InUse' : u.sid # 0 => /\ \E t \in InUse : u.sid = t.sid /\ u.abs = t.abs
                                         /\ u.exp = Least(u.iat + IDLE, u.abs),
           \A t \in InUse : t.sid # 0 /\ t.sid \in out' => t.abs <= revoked'[t.sid]
    PROVE  OneLimit' /\ (\A t \in InUse : TokenInv(t))'
  <1>1. OneLimit'
    BY DEF SessionInv, OneLimit
  <1>2. ASSUME NEW u \in InUse' PROVE TokenInv(u)'
    <2> SUFFICES ASSUME u.sid # 0 PROVE TokenInv(u)'
      BY DEF TokenInv
    <2>1. PICK t \in InUse : u.sid = t.sid /\ u.abs = t.abs
      OBVIOUS
    <2> QED BY <2>1 DEF SessionInv, TokenInv
  <1> QED BY <1>1, <1>2

LEMMA SessionFacts ==
    ASSUME SessionInv
    PROVE  /\ SessionTypeOK /\ hour \in Nat /\ logins \in Nat /\ served \in Nat /\ token \in SessionToken
           /\ token.sid \in Nat /\ token.iat \in Nat /\ token.abs \in Nat
           /\ \A p \in Pages : /\ page[p] \in StudioPage /\ page[p].session \in SessionToken /\ page[p].since \in Nat
                               /\ page[p].session.sid \in Nat /\ page[p].session.iat \in Nat
                               /\ page[p].session.abs \in Nat
           /\ \A t \in InUse : t.sid # 0 => t.exp = Least(t.iat + IDLE, t.abs)
           /\ \A t \in InUse : t.sid # 0 /\ t.sid \in out => t.abs <= revoked[t.sid]
           /\ token \in InUse /\ \A p \in Pages : page[p].session \in InUse
  <1>1. SessionTypeOK /\ token \in SessionToken /\ \A p \in Pages : page[p] \in StudioPage
    BY DEF SessionInv, SessionTypeOK
  <1>2. token.sid \in Nat /\ token.iat \in Nat /\ token.abs \in Nat
    BY <1>1 DEF SessionToken
  <1>3. \A p \in Pages : page[p].session \in SessionToken /\ page[p].since \in Nat
    BY <1>1 DEF StudioPage
  <1>4. \A p \in Pages : page[p].session.sid \in Nat /\ page[p].session.iat \in Nat /\ page[p].session.abs \in Nat
    BY <1>3 DEF SessionToken
  <1>5. \A t \in InUse : t.sid # 0 => t.exp = Least(t.iat + IDLE, t.abs) /\ (t.sid \in out => t.abs <= revoked[t.sid])
    BY DEF SessionInv, TokenInv
  <1> QED BY <1>1, <1>2, <1>3, <1>4, <1>5, InUseTyped DEF SessionTypeOK

LEMMA ArriveKeepsInv ==
    ASSUME SessionInv, NEW p \in Pages, Arrive(p)
    PROVE  SessionInv'
  <1>1. /\ page[p] = Away /\ page' = [page EXCEPT ![p] = [at |-> "open", session |-> token, since |-> hour]]
        /\ UNCHANGED <<hour, token, revoked, logins, reboots, served, out>>
    BY DEF Arrive
  <1>2. [at |-> "open", session |-> token, since |-> hour] \in StudioPage
    BY SessionFacts DEF StudioPage
  <1>3. /\ page'[p] = [at |-> "open", session |-> token, since |-> hour]
        /\ \A q \in Pages \ {p} : page'[q] = page[q]
    BY <1>1, SessionFacts DEF SessionTypeOK
  <1>4. SessionTypeOK'
    BY <1>1, <1>2, SessionFacts DEF SessionTypeOK
  <1>5. \A u \in InUse' : u \in InUse
    BY <1>1, <1>3 DEF InUse
  <1>6. OneLimit' /\ (\A t \in InUse : TokenInv(t))'
    BY <1>1, <1>5, SessionFacts, SameSessions
  <1>7. Arrived' /\ ListedAreOut'
    BY <1>1, <1>3, SessionFacts DEF SessionInv, Arrived, ListedAreOut, Open
  <1>8. CookieIsRecent'
    <2>1. ~needsReissue(token, hour) => hour <= token.iat + REISSUE_AFTER
      BY SessionFacts, SessionNumbers DEF needsReissue
    <2> QED BY <2>1, <1>1, <1>3 DEF SessionInv, CookieIsRecent, Open, needsReissue
  <1> QED BY <1>1, <1>4, <1>6, <1>7, <1>8 DEF SessionInv

LEMMA AnswerKeepsInv ==
    ASSUME SessionInv, NEW p \in Pages, Answer(p)
    PROVE  SessionInv'
  <1> DEFINE session == page[p].session
             since == page[p].since
             new == refreshSession(session, since)
  <1>1. /\ Open(p) /\ page' = [page EXCEPT ![p] = Away]
        /\ IF needsReissue(session, since) THEN token' = new ELSE token' = token
        /\ served' = IF since > served THEN since ELSE served
        /\ UNCHANGED <<hour, revoked, logins, reboots, out>>
    BY DEF Answer, Open, setSessionCookie
  <1>2. /\ page'[p] = Away
        /\ \A q \in Pages \ {p} : page'[q] = page[q]
    BY <1>1, SessionFacts DEF SessionTypeOK
  <1>3. /\ new \in SessionToken /\ new.sid = session.sid /\ new.abs = session.abs /\ new.iat = since
        /\ new.exp = Least(new.iat + IDLE, new.abs)
    <2>1. session \in SessionToken /\ since \in Nat
      BY SessionFacts
    <2> HIDE DEF session, since
    <2> QED BY <2>1, RefreshForm
  <1>4. since \in Nat /\ since <= hour /\ hour <= since + 1 /\ served <= hour
    BY <1>1, SessionFacts DEF SessionInv, Arrived
  <1> HIDE DEF new
  <1>5. SessionTypeOK'
    BY <1>1, <1>3, <1>4, SessionFacts, AwayForms DEF SessionTypeOK
  <1>6. ASSUME NEW u \in InUse', u.sid # 0
        PROVE  (\E t \in InUse : u.sid = t.sid /\ u.abs = t.abs) /\ u.exp = Least(u.iat + IDLE, u.abs)
    <2>1. CASE u = token'
      BY <2>1, <1>1, <1>3, <1>6, SessionFacts
    <2>2. ASSUME NEW q \in Pages, u = page'[q].session
          PROVE  (\E t \in InUse : u.sid = t.sid /\ u.abs = t.abs) /\ u.exp = Least(u.iat + IDLE, u.abs)
      <3>1. q # p
        BY <2>2, <1>2, <1>6, AwayForms
      <3> QED BY <3>1, <2>2, <1>2, <1>6, SessionFacts
    <2> QED BY <2>1, <2>2 DEF InUse
  <1>7. OneLimit' /\ (\A t \in InUse : TokenInv(t))'
    BY <1>1, <1>6, SessionFacts, SameSessions
  <1>8. Arrived' /\ ListedAreOut'
    BY <1>1, <1>2, <1>4, SessionFacts, AwayForms DEF SessionInv, Arrived, ListedAreOut, Open
  <1>9. CookieIsRecent'
    <2>1. CASE needsReissue(session, since)
      <3>1. token'.iat = since /\ served' <= hour
        BY <2>1, <1>1, <1>3, <1>4
      <3>2. \A q \in Pages : Open(q)' => page'[q].since <= hour /\ page'[q].since \in Nat
        BY <1>1, <1>5, <1>8 DEF Arrived, SessionTypeOK, StudioPage
      <3>3. since + REISSUE_AFTER >= hour /\ since + REISSUE_AFTER \in Nat /\ hour \in Nat /\ served' \in Nat
        BY <1>4, <1>5, SessionFacts, SessionNumbers DEF SessionTypeOK
      <3> HIDE DEF since
      <3>4. \A q \in Pages : Open(q)' => page'[q].since <= since + REISSUE_AFTER
        BY <3>2, <3>3
      <3>5. served' <= since + REISSUE_AFTER
        BY <3>1, <3>3
      <3> QED BY <3>1, <3>4, <3>5 DEF CookieIsRecent
    <2>2. CASE ~needsReissue(session, since)
      BY <2>2, <1>1, <1>2, AwayForms DEF SessionInv, CookieIsRecent, Open, needsReissue
    <2> QED BY <2>1, <2>2
  <1> QED BY <1>1, <1>5, <1>7, <1>8, <1>9 DEF SessionInv

LEMMA LoginKeepsInv ==
    ASSUME SessionInv, Login
    PROVE  SessionInv'
  <1> DEFINE new == newSession(logins + 1)
  <1>1. /\ logins < MaxLogins /\ logins' = logins + 1 /\ token' = new /\ served' = hour
        /\ UNCHANGED <<hour, revoked, page, reboots, out>>
    BY DEF Login, setSessionCookie
  <1>2. /\ new \in SessionToken /\ new.sid = logins + 1 /\ new.iat = hour /\ new.exp = Least(new.iat + IDLE, new.abs)
    <2>1. logins + 1 \in Nat /\ hour \in Nat
      BY SessionFacts
    <2> QED BY <2>1, NewSessionForm
  <1> HIDE DEF new
  <1>3. SessionTypeOK'
    BY <1>1, <1>2, SessionFacts DEF SessionTypeOK
  <1>4. \A u \in InUse' : u = new \/ u \in InUse
    BY <1>1 DEF InUse
  <1>5. \A t \in InUse : t.sid \in Nat /\ (t.sid # 0 => t.sid <= logins)
    BY SessionFacts, InUseTyped DEF SessionInv, TokenInv, SessionToken
  <1>6. logins + 1 \notin out
    BY <1>1, SessionFacts DEF SessionInv, ListedAreOut, SessionTypeOK
  <1>7. OneLimit'
    <2> SUFFICES ASSUME NEW t \in InUse', NEW u \in InUse', t.sid # 0, t.sid = u.sid PROVE t.abs = u.abs
      BY DEF OneLimit
    <2>1. logins \in Nat
      BY SessionFacts
    <2> QED BY <2>1, <1>2, <1>4, <1>5 DEF SessionInv, OneLimit
  <1>8. (\A t \in InUse : TokenInv(t))'
    <2> SUFFICES ASSUME NEW u \in InUse', u.sid # 0 PROVE TokenInv(u)'
      BY DEF TokenInv
    <2>1. CASE u = new
      BY <2>1, <1>1, <1>2, <1>6, SessionFacts DEF TokenInv
    <2>2. CASE u \in InUse
      BY <2>2, <1>1, <1>5, SessionFacts DEF TokenInv
    <2> QED BY <1>4, <2>1, <2>2
  <1>9. Arrived'
    BY <1>1, SessionFacts DEF SessionInv, Arrived, Open
  <1>10. ListedAreOut' /\ (logins <= MaxLogins)'
    BY <1>1, SessionFacts, SessionNumbers DEF SessionInv, ListedAreOut, SessionTypeOK
  <1>11. CookieIsRecent'
    <2>1. \A p \in Pages : Open(p)' => page'[p].since \in Nat /\ page'[p].since <= hour
      BY <1>1, SessionFacts DEF SessionInv, Arrived, Open
    <2>2. hour \in Nat /\ token'.iat = hour /\ served' = hour
      BY <1>1, <1>2, SessionFacts
    <2> QED BY <2>1, <2>2, SessionNumbers DEF CookieIsRecent
  <1> QED BY <1>3, <1>7, <1>8, <1>9, <1>10, <1>11 DEF SessionInv

LEMMA LogoutKeepsInv ==
    ASSUME SessionInv, Logout
    PROVE  SessionInv'
  <1> DEFINE new == refreshSession(token, hour)
  <1>1. UNCHANGED <<hour, page, logins, reboots, served>>
    BY DEF Logout
  <1>2. \/ token' = NoToken
        \/ verifyToken(token) /\ token' = new
    BY DEF Logout, setSessionCookie, clearSessionCookie
  <1>3. \/ UNCHANGED <<revoked, out>>
        \/ /\ verifyToken(token) /\ revoked' = [revoked EXCEPT ![token.sid] = token.abs]
           /\ out' = out \cup {token.sid}
    BY DEF Logout
  <1>4. /\ new \in SessionToken /\ new.sid = token.sid /\ new.abs = token.abs /\ new.iat = hour
        /\ new.exp = Least(new.iat + IDLE, new.abs)
    <2>1. token \in SessionToken /\ hour \in Nat
      BY SessionFacts
    <2> QED BY <2>1, RefreshForm
  <1> HIDE DEF new
  <1>5. verifyToken(token) => token.sid \in 1..MaxLogins /\ token.sid <= logins /\ token.sid # 0
    BY SessionFacts, SessionNumbers DEF verifyToken, SessionInv, TokenInv
  <1>6. SessionTypeOK'
    <2>1. token' \in SessionToken
      BY <1>2, <1>4, AwayForms
    <2>2. revoked' \in [1..MaxLogins -> Nat] /\ out' \subseteq 1..MaxLogins
      BY <1>3, <1>5, SessionFacts DEF SessionTypeOK
    <2> QED BY <2>1, <2>2, <1>1, SessionFacts DEF SessionTypeOK
  <1>7. ASSUME NEW u \in InUse', u.sid # 0
        PROVE  (\E t \in InUse : u.sid = t.sid /\ u.abs = t.abs) /\ u.exp = Least(u.iat + IDLE, u.abs)
    <2>1. CASE u = token'
      BY <2>1, <1>2, <1>4, <1>7, SessionFacts, AwayForms
    <2>2. CASE u \in InUse
      BY <2>2, <1>7, SessionFacts
    <2> QED BY <2>1, <2>2, <1>1 DEF InUse
  <1>8. ASSUME NEW t \in InUse, t.sid # 0, t.sid \in out' PROVE t.abs <= revoked'[t.sid]
    <2>1. t.sid \in 1..MaxLogins /\ t.abs \in Nat
      BY <1>6, <1>8, SessionFacts, InUseTyped DEF SessionTypeOK, SessionToken
    <2>2. CASE UNCHANGED <<revoked, out>>
      BY <2>2, <1>8, SessionFacts
    <2>3. CASE /\ verifyToken(token) /\ revoked' = [revoked EXCEPT ![token.sid] = token.abs]
               /\ out' = out \cup {token.sid}
      <3>1. CASE t.sid = token.sid
        <4>1. revoked'[t.sid] = token.abs
          BY <2>1, <2>3, <3>1, SessionFacts DEF SessionTypeOK
        <4>2. t.abs = token.abs
          BY <1>8, <3>1, SessionFacts DEF SessionInv, OneLimit
        <4> QED BY <2>1, <4>1, <4>2
      <3>2. CASE t.sid # token.sid
        BY <2>1, <2>3, <3>2, <1>8, SessionFacts DEF SessionTypeOK
      <3> QED BY <3>1, <3>2
    <2> QED BY <1>3, <2>2, <2>3
  <1>9. OneLimit' /\ (\A t \in InUse : TokenInv(t))'
    BY <1>1, <1>7, <1>8, SameSessions
  <1>10. Arrived'
    BY <1>1, SessionFacts DEF SessionInv, Arrived, Open
  <1>11. ListedAreOut' /\ (logins <= MaxLogins)'
    <2>1. CASE UNCHANGED <<revoked, out>>
      BY <2>1, <1>1 DEF SessionInv, ListedAreOut
    <2>2. CASE /\ verifyToken(token) /\ revoked' = [revoked EXCEPT ![token.sid] = token.abs]
               /\ out' = out \cup {token.sid}
      BY <2>2, <1>1, <1>5, SessionFacts DEF SessionInv, ListedAreOut, SessionTypeOK
    <2> QED BY <1>3, <2>1, <2>2
  <1>12. CookieIsRecent'
    <2>1. CASE token' = NoToken
      BY <2>1, AwayForms DEF CookieIsRecent
    <2>2. CASE token' = new
      <3>1. \A p \in Pages : Open(p)' => page'[p].since \in Nat /\ page'[p].since <= hour
        BY <1>1, SessionFacts DEF SessionInv, Arrived, Open
      <3>2. hour \in Nat /\ token'.iat = hour /\ served' <= hour /\ served' \in Nat
        BY <1>1, <1>4, <2>2, SessionFacts DEF SessionInv, Arrived
      <3> QED BY <3>1, <3>2, SessionNumbers DEF CookieIsRecent
    <2> QED BY <1>2, <2>1, <2>2
  <1> QED BY <1>1, <1>6, <1>9, <1>10, <1>11, <1>12 DEF SessionInv

LEMMA RebootKeepsInv ==
    ASSUME SessionInv, Reboot
    PROVE  SessionInv'
  <1>1. /\ revoked' = [s \in 1..MaxLogins |-> 0] /\ out' = {} /\ page' = [p \in Pages |-> Away]
        /\ UNCHANGED <<hour, token, logins, served>>
    BY DEF Reboot
  <1>2. \A p \in Pages : page'[p] = Away /\ ~Open(p)'
    BY <1>1, AwayForms DEF Open
  <1>3. SessionTypeOK'
    BY <1>1, SessionFacts, AwayForms, SessionNumbers DEF SessionTypeOK
  <1>4. ASSUME NEW u \in InUse', u.sid # 0
        PROVE  (\E t \in InUse : u.sid = t.sid /\ u.abs = t.abs) /\ u.exp = Least(u.iat + IDLE, u.abs)
    <2>1. u = token
      BY <1>1, <1>2, <1>4, AwayForms DEF InUse
    <2> QED BY <2>1, <1>4, SessionFacts
  <1>5. OneLimit' /\ (\A t \in InUse : TokenInv(t))'
    BY <1>1, <1>4, SameSessions
  <1>6. Arrived' /\ ListedAreOut' /\ CookieIsRecent'
    BY <1>1, <1>2 DEF SessionInv, Arrived, ListedAreOut, CookieIsRecent
  <1> QED BY <1>1, <1>3, <1>5, <1>6 DEF SessionInv

LEMMA HourKeepsInv ==
    ASSUME SessionInv, Hour
    PROVE  SessionInv'
  <1>1. /\ \A p \in Pages : Open(p) => page[p].since = hour
        /\ hour' = hour + 1
        /\ UNCHANGED <<token, revoked, page, logins, reboots, served, out>>
    BY DEF Hour, Open
  <1>2. SessionTypeOK'
    BY <1>1, SessionFacts DEF SessionTypeOK
  <1>3. OneLimit' /\ (\A t \in InUse : TokenInv(t))'
    BY <1>1 DEF SessionInv, OneLimit, TokenInv, InUse
  <1>4. Arrived'
    BY <1>1, SessionFacts DEF SessionInv, Arrived, Open
  <1>5. ListedAreOut' /\ CookieIsRecent'
    BY <1>1 DEF SessionInv, ListedAreOut, CookieIsRecent, Open, needsReissue
  <1> QED BY <1>1, <1>2, <1>3, <1>4, <1>5 DEF SessionInv

LEMMA SessionStepKeepsInv == SessionInv /\ [SessionNext]_sessionVars => SessionInv'
  <1> SUFFICES ASSUME SessionInv, [SessionNext]_sessionVars
               PROVE  SessionInv'
    OBVIOUS
  <1>1. CASE UNCHANGED sessionVars
    BY <1>1 DEF sessionVars, SessionInv, SessionTypeOK, InUse, TokenInv, OneLimit, ListedAreOut, Arrived,
                CookieIsRecent, Open, needsReissue
  <1> QED BY <1>1, HourKeepsInv, LoginKeepsInv, LogoutKeepsInv, RebootKeepsInv, ArriveKeepsInv, AnswerKeepsInv
          DEF SessionNext

\* The cookie is never older than what was answered by more than the time after which a session is
\* issued again, whatever order the answers wrote it in.
THEOREM SessionInvHolds == SessionSpec => []SessionInv
  <1> QED BY SessionInitInv, SessionStepKeepsInv, PTL DEF SessionSpec

\* A studio that works is not signed out before the absolute limit, for any number of requests in
\* flight, any windows and any number of hours.
THEOREM WorkStaysSignedInHolds == SessionSpec => []WorkStaysSignedIn
  <1>1. SessionInv => WorkStaysSignedIn
    <2> SUFFICES ASSUME SessionInv, token.sid # 0, token.sid \notin out, hour < token.abs,
                        hour - served < IDLE - REISSUE_AFTER
                 PROVE  verifyToken(token)
      BY DEF WorkStaysSignedIn
    <2>1. hour < token.iat + IDLE
      BY SessionFacts, SessionNumbers DEF SessionInv, CookieIsRecent
    <2>2. hour < token.exp
      BY <2>1, SessionFacts DEF Least
    <2>3. token.sid \in 1..MaxLogins
      BY SessionFacts, SessionNumbers DEF SessionInv, TokenInv
    <2>4. ~isRevoked(token.sid)
      BY <2>3, SessionFacts DEF SessionInv, ListedAreOut, isRevoked
    <2> QED BY <2>2, <2>4 DEF verifyToken
  <1> QED BY <1>1, SessionInvHolds, PTL

\* A session that was logged out of is refused from then on, although the cookie may come back.
THEOREM LoggedOutStaysOutHolds == SessionSpec => []LoggedOutStaysOut
  <1>1. SessionInv => LoggedOutStaysOut
    <2> SUFFICES ASSUME SessionInv, token.sid \in out, token.sid # 0, hour < token.abs
                 PROVE  isRevoked(token.sid)
      BY DEF LoggedOutStaysOut, verifyToken
    <2>1. token.abs <= revoked[token.sid] /\ revoked[token.sid] \in Nat
      BY SessionFacts DEF SessionTypeOK
    <2> QED BY <2>1, SessionFacts DEF isRevoked
  <1> QED BY <1>1, SessionInvHolds, PTL

-----------------------------------------------------------------------------
(* The log of the buyers' visits                                           *)

Entry == [buyer : Buyers, at : Nat]

VisitTypeOK == clock \in Nat /\ seen \in Seq(Entry) /\ visits \subseteq Entry /\ forgotten \subseteq Entry

\* A buyer is put in once; what the process remembers of one that it did not forget after a row of
\* theirs is no older than that row.
ForgottenAfter(r) == \E f \in forgotten : f.buyer = r.buyer /\ r.at <= f.at
EachOnce == \A i, j \in DOMAIN seen : seen[i].buyer = seen[j].buyer => i = j
RowsAreRemembered ==
    \A r \in visits : ForgottenAfter(r) \/ \E i \in DOMAIN seen : seen[i].buyer = r.buyer /\ r.at <= seen[i].at
ForgottenBetween ==
    \A r, s \in visits : Within(r, s) => \E f \in forgotten : f.buyer = r.buyer /\ r.at <= f.at /\ f.at <= s.at

VisitInv ==
    /\ VisitTypeOK /\ Len(seen) <= MAX_KEYS
    /\ EachOnce /\ RowsAreRemembered
    /\ \A i \in DOMAIN seen : seen[i].at <= clock
    /\ \A f \in visits \cup forgotten : f.at <= clock
    /\ ForgottenBetween

LEMMA VisitNumbers == VISIT_WINDOW \in Nat /\ VISIT_WINDOW > 0 /\ MAX_KEYS \in Nat /\ MAX_KEYS > 0
  BY VisitConstants

LEMMA VisitInitInv == VisitInit => VisitInv
  BY VisitNumbers DEF VisitInit, VisitInv, VisitTypeOK, EachOnce, RowsAreRemembered, ForgottenBetween

\* What is left of a sequence without its first entry.
LEMMA TailEntries ==
    ASSUME NEW S, NEW q \in Seq(S), Len(q) >= 1
    PROVE  DOMAIN Tail(q) = 1..(Len(q) - 1) /\ \A i \in 1..(Len(q) - 1) : Tail(q)[i] = q[i + 1]
  OBVIOUS

LEMMA VisitFacts ==
    ASSUME VisitInv
    PROVE  /\ VisitTypeOK /\ clock \in Nat
           /\ \A r \in visits \cup forgotten : r \in Entry /\ r.at \in Nat /\ r.at <= clock
           /\ \A i \in DOMAIN seen : seen[i] \in Entry /\ seen[i].at \in Nat /\ seen[i].at <= clock
  <1>1. \A r \in visits \cup forgotten : r \in Entry
    BY DEF VisitInv, VisitTypeOK
  <1>2. \A i \in DOMAIN seen : seen[i] \in Entry
    BY DEF VisitInv, VisitTypeOK
  <1> QED BY <1>1, <1>2 DEF VisitInv, VisitTypeOK, Entry

\* Where a buyer is in the map.
LEMMA PlaceIsThere ==
    ASSUME VisitTypeOK, NEW b
    PROVE  /\ Place(b) = 0 => \A i \in DOMAIN seen : seen[i].buyer # b
           /\ Place(b) # 0 => Place(b) \in DOMAIN seen /\ seen[Place(b)].buyer = b
  <1> DEFINE I == {i \in 1..Len(seen) : seen[i].buyer = b}
  <1>1. Place(b) = IF I # {} THEN Min(I) ELSE 0
    BY DEF Place, SelectInSeq
  <1>2. DOMAIN seen = 1..Len(seen) /\ Len(seen) \in Nat
    BY DEF VisitTypeOK
  <1>3. I # {} => Min(I) \in I
    <2>1. I \in SUBSET Nat
      OBVIOUS
    <2> HIDE DEF I
    <2> QED BY <2>1, LeastPlace DEF Min
  <1> QED BY <1>1, <1>2, <1>3

\* Putting a buyer in: it is there once, with the time, and nobody else changes; a new one may push
\* the first one out.
LEMMA StampForms ==
    ASSUME VisitInv, NEW b \in Buyers
    PROVE  /\ stamp(b) \in Seq(Entry) /\ Len(stamp(b)) <= MAX_KEYS
           /\ \A i, j \in DOMAIN stamp(b) : stamp(b)[i].buyer = stamp(b)[j].buyer => i = j
           /\ \E i \in DOMAIN stamp(b) : stamp(b)[i] = [buyer |-> b, at |-> clock]
           /\ \A i \in DOMAIN stamp(b) : stamp(b)[i].buyer # b => \E j \in DOMAIN seen : seen[j] = stamp(b)[i]
           /\ \A i \in DOMAIN stamp(b) : stamp(b)[i].at <= clock
  <1> DEFINE new == [buyer |-> b, at |-> clock]
             full == Len(seen) >= MAX_KEYS
             kept == IF full THEN Tail(seen) ELSE seen
  <1>1. VisitTypeOK /\ clock \in Nat /\ seen \in Seq(Entry) /\ Len(seen) \in Nat /\ Len(seen) <= MAX_KEYS
        /\ DOMAIN seen = 1..Len(seen) /\ \A i \in DOMAIN seen : seen[i] \in Entry
    BY DEF VisitInv, VisitTypeOK
  <1>2. new \in Entry /\ new.buyer = b /\ new.at = clock
    BY <1>1 DEF Entry
  <1>3. stamp(b) = IF Place(b) # 0 THEN [seen EXCEPT ![Place(b)] = new] ELSE Append(kept, new)
    BY DEF stamp
  <1> HIDE DEF new
  <1>4. CASE Place(b) # 0
    <2>1. Place(b) \in DOMAIN seen /\ seen[Place(b)].buyer = b /\ stamp(b) = [seen EXCEPT ![Place(b)] = new]
      BY <1>1, <1>3, <1>4, PlaceIsThere
    <2> DEFINE k == Place(b)
               s == stamp(b)
    <2> HIDE DEF k, s
    <2>2. s \in Seq(Entry) /\ Len(s) = Len(seen) /\ DOMAIN s = DOMAIN seen /\ s[k] = new
          /\ \A i \in DOMAIN s : i # k => s[i] = seen[i]
      BY <1>1, <1>2, <2>1 DEF k, s
    <2>3. \A i, j \in DOMAIN s : s[i].buyer = s[j].buyer => i = j
      <3>1. \A i \in DOMAIN s : s[i].buyer = seen[i].buyer
        BY <1>2, <2>1, <2>2 DEF k
      <3> QED BY <2>2, <3>1 DEF VisitInv, EachOnce
    <2>4. \A i \in DOMAIN s : s[i].at <= clock
      BY <1>1, <1>2, <2>2 DEF VisitInv
    <2>5. \A i \in DOMAIN s : s[i].buyer # b => \E j \in DOMAIN seen : seen[j] = s[i]
      BY <1>2, <2>2
    <2>6. \E i \in DOMAIN s : s[i] = new
      BY <2>1, <2>2 DEF k
    <2> QED BY <1>1, <2>2, <2>3, <2>4, <2>5, <2>6 DEF s, new
  <1>5. CASE Place(b) = 0
    <2>1. \A i \in DOMAIN seen : seen[i].buyer # b
      BY <1>1, <1>5, PlaceIsThere
    <2>2. kept \in Seq(Entry) /\ Len(kept) < MAX_KEYS /\ Len(kept) \in Nat /\ DOMAIN kept = 1..Len(kept)
      BY <1>1, VisitNumbers
    <2>3. PICK d \in {0, 1} : \A i \in DOMAIN kept : i + d \in DOMAIN seen /\ kept[i] = seen[i + d]
      <3>1. CASE full
        <4>1. Len(seen) >= 1 /\ kept = Tail(seen)
          BY <1>1, <3>1, VisitNumbers
        <4>2. \A i \in DOMAIN kept : i + 1 \in DOMAIN seen /\ kept[i] = seen[i + 1]
          <5>1. DOMAIN kept = 1..(Len(seen) - 1) /\ \A i \in 1..(Len(seen) - 1) : kept[i] = seen[i + 1]
            BY <1>1, <4>1, TailEntries
          <5>2. \A i \in 1..(Len(seen) - 1) : i + 1 \in 1..Len(seen)
            BY <1>1
          <5> QED BY <1>1, <4>1, <5>1, <5>2
        <4> QED BY <4>2
      <3>2. CASE ~full
        <4>1. \A i \in DOMAIN kept : i + 0 \in DOMAIN seen /\ kept[i] = seen[i + 0]
          BY <1>1, <3>2
        <4> QED BY <4>1
      <3> QED BY <3>1, <3>2
    <2> DEFINE s == Append(kept, new)
    <2> HIDE DEF kept
    <2>4. s \in Seq(Entry) /\ Len(s) = Len(kept) + 1 /\ DOMAIN s = 1..(Len(kept) + 1) /\ s[Len(kept) + 1] = new
          /\ \A i \in 1..Len(kept) : s[i] = kept[i]
      BY <1>2, <2>2
    <2>5. stamp(b) = s
      BY <1>3, <1>5
    <2> HIDE DEF s
    <2>6. \A i \in 1..Len(kept) : s[i].buyer # b /\ s[i].at <= clock /\ \E j \in DOMAIN seen : seen[j] = s[i]
      BY <2>1, <2>2, <2>3, <2>4 DEF VisitInv
    <2>7. \A i, j \in DOMAIN s : s[i].buyer = s[j].buyer => i = j
      <3> SUFFICES ASSUME NEW i \in DOMAIN s, NEW j \in DOMAIN s, s[i].buyer = s[j].buyer PROVE i = j
        OBVIOUS
      <3>1. CASE i = Len(kept) + 1 \/ j = Len(kept) + 1
        BY <3>1, <1>2, <2>2, <2>4, <2>6
      <3>2. CASE i # Len(kept) + 1 /\ j # Len(kept) + 1
        <4>1. i \in 1..Len(kept) /\ j \in 1..Len(kept)
          BY <3>2, <2>2, <2>4
        <4>2. i + d = j + d
          BY <4>1, <2>2, <2>3, <2>4 DEF VisitInv, EachOnce
        <4> QED BY <4>1, <4>2
      <3> QED BY <3>1, <3>2
    <2>8. \A i \in DOMAIN s : i \in 1..Len(kept) \/ s[i] = new
      BY <2>2, <2>4
    <2>9. \A i \in DOMAIN s : s[i].at <= clock
      BY <1>1, <1>2, <2>6, <2>8
    <2>10. \A i \in DOMAIN s : s[i].buyer # b => \E j \in DOMAIN seen : seen[j] = s[i]
      BY <1>2, <2>6, <2>8
    <2>11. \E i \in DOMAIN s : s[i] = new
      BY <2>2, <2>4
    <2>12. Len(s) <= MAX_KEYS
      BY <2>2, <2>4, VisitNumbers
    <2> QED BY <2>4, <2>5, <2>7, <2>9, <2>10, <2>11, <2>12 DEF new
  <1> QED BY <1>4, <1>5

LEMMA ViewKeepsInv ==
    ASSUME VisitInv, NEW b \in Buyers, NEW logged \in BOOLEAN, View(b, logged)
    PROVE  VisitInv'
  <1> DEFINE new == [buyer |-> b, at |-> clock]
  <1>1. /\ shouldRecord(b) /\ seen' = stamp(b) /\ clock' = clock
        /\ visits' \subseteq visits \cup {new}
        /\ forgotten' = forgotten \cup {[buyer |-> o, at |-> clock] : o \in Remembered \ Remembered'}
    BY DEF View, Forget
  <1>2. /\ VisitTypeOK /\ clock \in Nat /\ new \in Entry /\ new.buyer = b /\ new.at = clock
        /\ \A r \in visits : r \in Entry /\ r.at \in Nat /\ r.at <= clock
        /\ \A i \in DOMAIN seen : seen[i].at \in Nat /\ seen[i] \in Entry
    BY VisitFacts DEF Entry
  <1> HIDE DEF new
  <1>3. (Len(seen) <= MAX_KEYS)' /\ EachOnce' /\ (\A i \in DOMAIN seen : seen[i].at <= clock)'
        /\ seen' \in Seq(Entry)
    BY <1>1, <1>2, StampForms DEF EachOnce
  <1>4. forgotten \subseteq forgotten' /\ forgotten' \subseteq Entry /\ \A f \in forgotten' : f.at <= clock
    <2>1. Remembered \subseteq Buyers
      BY <1>2 DEF Remembered, Entry
    <2>2. forgotten \subseteq Entry /\ \A f \in forgotten : f.at <= clock
      BY <1>2, VisitFacts DEF VisitTypeOK
    <2>3. \A f \in {[buyer |-> o, at |-> clock] : o \in Remembered \ Remembered'} : f \in Entry /\ f.at <= clock
      BY <1>2, <2>1 DEF Entry
    <2> HIDE DEF Remembered
    <2> QED BY <1>1, <2>2, <2>3
  <1>5. VisitTypeOK' /\ (\A f \in visits \cup forgotten : f.at <= clock)'
    BY <1>1, <1>2, <1>3, <1>4 DEF VisitTypeOK
  <1>6. PICK n \in DOMAIN seen' : seen'[n].buyer = b /\ seen'[n].at = clock
    BY <1>1, <1>2, StampForms DEF new
  <1>7. RowsAreRemembered'
    <2> SUFFICES ASSUME NEW r \in visits', ~ForgottenAfter(r)'
                 PROVE  \E i \in DOMAIN seen' : seen'[i].buyer = r.buyer /\ r.at <= seen'[i].at
      BY DEF RowsAreRemembered, ForgottenAfter
    <2>1. CASE r.buyer = b
      <3>1. r.at <= clock
        BY <1>1, <1>2
      <3> QED BY <2>1, <3>1, <1>6
    <2>2. CASE r \in visits /\ r.buyer # b
      <3>1. ~ForgottenAfter(r)
        BY <1>4 DEF ForgottenAfter
      <3>2. PICK i \in DOMAIN seen : seen[i].buyer = r.buyer /\ r.at <= seen[i].at
        BY <2>2, <3>1 DEF VisitInv, RowsAreRemembered
      <3>3. r.buyer \in Remembered'
        <4> SUFFICES ASSUME r.buyer \notin Remembered' PROVE FALSE
          OBVIOUS
        <4>1. [buyer |-> r.buyer, at |-> clock] \in forgotten'
          BY <1>1, <3>2 DEF Remembered
        <4> QED BY <4>1, <2>2, <1>2 DEF ForgottenAfter
      <3>4. PICK j \in DOMAIN seen' : seen'[j].buyer = r.buyer
        BY <3>3 DEF Remembered
      <3>5. PICK k \in DOMAIN seen : seen[k] = seen'[j]
        BY <1>1, <2>2, <3>4, StampForms
      <3>6. k = i
        BY <3>2, <3>4, <3>5 DEF VisitInv, EachOnce
      <3> QED BY <3>2, <3>4, <3>5, <3>6
    <2> QED BY <1>1, <1>2, <2>1, <2>2
  <1>8. ASSUME NEW r \in visits, r.buyer = b, clock - r.at < VISIT_WINDOW
        PROVE  ForgottenAfter(r)
    <2> SUFFICES ASSUME ~ForgottenAfter(r) PROVE FALSE
      OBVIOUS
    <2>1. PICK i \in DOMAIN seen : seen[i].buyer = b /\ r.at <= seen[i].at
      BY <1>8 DEF VisitInv, RowsAreRemembered
    <2>2. Place(b) # 0 /\ Place(b) \in DOMAIN seen /\ seen[Place(b)].buyer = b
      BY <1>2, <2>1, PlaceIsThere
    <2>3. Place(b) = i
      BY <2>1, <2>2 DEF VisitInv, EachOnce
    <2>4. clock - seen[i].at >= VISIT_WINDOW
      BY <1>1, <2>2, <2>3 DEF shouldRecord
    <2>5. seen[i].at \in Nat /\ r.at \in Nat
      BY <1>2
    <2> QED BY <1>2, <1>8, <2>1, <2>4, <2>5, VisitNumbers
  <1>9. ForgottenBetween'
    <2> SUFFICES ASSUME NEW r \in visits', NEW s \in visits', Within(r, s)
                 PROVE  \E f \in forgotten' : f.buyer = r.buyer /\ r.at <= f.at /\ f.at <= s.at
      BY DEF ForgottenBetween, Within
    <2>1. r # s /\ r.buyer = s.buyer /\ r.at <= s.at /\ s.at - r.at < VISIT_WINDOW
      BY DEF Within
    <2>2. CASE r \in visits /\ s \in visits
      BY <2>2, <1>4 DEF VisitInv, ForgottenBetween
    <2>3. CASE r \in visits /\ s = new
      <3>1. PICK f \in forgotten : f.buyer = r.buyer /\ r.at <= f.at
        BY <2>1, <2>3, <1>2, <1>8 DEF ForgottenAfter
      <3> QED BY <3>1, <2>3, <1>2, <1>4
    <2>4. CASE s \in visits /\ r = new
      <3>1. s.at = r.at
        BY <2>1, <2>4, <1>2
      <3>2. s = r
        BY <2>1, <2>4, <3>1, <1>2 DEF Entry
      <3> QED BY <3>2, <2>1
    <2>5. CASE r = new /\ s = new
      BY <2>1, <2>5
    <2> QED BY <1>1, <2>2, <2>3, <2>4, <2>5
  <1> QED BY <1>3, <1>5, <1>7, <1>9 DEF VisitInv

LEMMA ForgetAllKeepsInv ==
    ASSUME VisitInv, ForgetAll
    PROVE  VisitInv'
  <1>1. /\ seen' = <<>> /\ clock' = clock /\ visits' = visits
        /\ forgotten' = forgotten \cup {[buyer |-> o, at |-> clock] : o \in Remembered \ Remembered'}
    BY DEF ForgetAll, Forget
  <1>2. clock \in Nat /\ seen \in Seq(Entry) /\ visits \subseteq Entry /\ forgotten \subseteq Entry
        /\ (\A i \in DOMAIN seen : seen[i].buyer \in Buyers /\ seen[i].at <= clock /\ seen[i].at \in Nat)
        /\ \A f \in visits \cup forgotten : f.at <= clock /\ f.at \in Nat
    BY VisitFacts DEF VisitTypeOK, Entry
  <1>3. Remembered \subseteq Buyers /\ Remembered' = {}
    BY <1>1, <1>2 DEF Remembered
  <1>4. forgotten \subseteq forgotten' /\ forgotten' \subseteq Entry /\ \A f \in forgotten' : f.at <= clock
    BY <1>1, <1>2, <1>3 DEF Entry
  <1>5. VisitTypeOK' /\ EachOnce' /\ (Len(seen) <= MAX_KEYS)' /\ (\A i \in DOMAIN seen : seen[i].at <= clock)'
    BY <1>1, <1>2, <1>4, VisitNumbers DEF VisitTypeOK, EachOnce
  <1>6. (\A f \in visits \cup forgotten : f.at <= clock)'
    BY <1>1, <1>2, <1>4
  <1>7. RowsAreRemembered'
    <2> SUFFICES ASSUME NEW r \in visits PROVE ForgottenAfter(r)'
      BY <1>1 DEF RowsAreRemembered
    <2>1. CASE ForgottenAfter(r)
      BY <2>1, <1>4 DEF ForgottenAfter
    <2>2. CASE \E i \in DOMAIN seen : seen[i].buyer = r.buyer /\ r.at <= seen[i].at
      <3>1. [buyer |-> r.buyer, at |-> clock] \in forgotten'
        BY <2>2, <1>1, <1>3 DEF Remembered
      <3>2. r.at <= clock
        BY <1>2
      <3> QED BY <3>1, <3>2 DEF ForgottenAfter
    <2> QED BY <2>1, <2>2 DEF VisitInv, RowsAreRemembered
  <1>8. ForgottenBetween'
    BY <1>1, <1>4 DEF VisitInv, ForgottenBetween, Within
  <1> QED BY <1>5, <1>6, <1>7, <1>8 DEF VisitInv

LEMMA VisitStepKeepsInv == VisitInv /\ [VisitNext]_visitVars => VisitInv'
  <1> USE DEF VisitInv, VisitTypeOK, EachOnce, RowsAreRemembered, ForgottenAfter, ForgottenBetween, Within
  <1> SUFFICES ASSUME VisitInv, [VisitNext]_visitVars
               PROVE  VisitInv'
    OBVIOUS
  <1>1. CASE TimePasses
    <2>1. /\ clock' = clock + 1 /\ seen' = seen /\ visits' = visits /\ forgotten' = forgotten
      BY <1>1 DEF TimePasses
    <2>2. VisitTypeOK' /\ EachOnce' /\ RowsAreRemembered' /\ (Len(seen) <= MAX_KEYS)' /\ ForgottenBetween'
      BY <2>1
    <2>3. (\A i \in DOMAIN seen : seen[i].at <= clock)' /\ (\A f \in visits \cup forgotten : f.at <= clock)'
      <3>1. clock \in Nat /\ (\A i \in DOMAIN seen : seen[i].at \in Nat /\ seen[i].at <= clock)
            /\ \A f \in visits \cup forgotten : f.at \in Nat /\ f.at <= clock
        BY VisitFacts
      <3> QED BY <2>1, <3>1
    <2> QED BY <2>2, <2>3
  <1>2. ASSUME NEW b \in Buyers, LogIn(b) \/ LogOut(b) \/ SwitchActive(b)
        PROVE  VisitInv'
    BY <1>2 DEF LogIn, LogOut, SwitchActive
  <1>3. CASE UNCHANGED visitVars
    BY <1>3 DEF visitVars
  <1> QED BY <1>1, <1>2, <1>3, ViewKeepsInv, ForgetAllKeepsInv DEF VisitNext

\* What the process remembers of a buyer is no older than the rows since it last forgot them.
THEOREM VisitInvHolds == VisitSpec => []VisitInv
  <1> QED BY VisitInitInv, VisitStepKeepsInv, PTL DEF VisitSpec

\* A buyer has a second row in a window only when the process forgot them between the two, pushed out
\* or restarted, and it remembers a bounded number: for any number of buyers, any window and any
\* bound.
THEOREM OneRowPerWindowHolds == VisitSpec => []OneRowPerWindow
  <1>1. VisitInv => OneRowPerWindow
    BY DEF VisitInv, OneRowPerWindow, ForgottenBetween
  <1> QED BY <1>1, VisitInvHolds, PTL

-----------------------------------------------------------------------------
(* The page of customers                                                   *)

IsSeq(s) == s \in Seq(Range(s))

\* The requests under way about a customer who is there, and those that have made one.
Edits(c) == {r \in Asks : ask[r].at # "idle" /\ ask[r].kind # "create" /\ ask[r].code = c}
Made(q) == q.at = "written" \/ (q.at = "answered" /\ q.answer.code # Refused.code)
Births(c) == {r \in Asks : ask[r].at # "idle" /\ ask[r].kind = "create" /\ ask[r].code = c /\ Made(ask[r])}

\* A request that still counts on the customer: all but a removal that is done.
Counts(q) == q.kind # "delete" \/ q.at \notin {"written", "answered"}

There(c) == \E x \in Range(customers) : x.code = c

\* An answer about its customer is a row of the tab.
AnswerStands(q) ==
    q.at = "answered" /\ q.kind # "delete" /\ q.answer.code # Refused.code /\ q.answer.code = q.code
        => q.answer \in Range(customers)

\* The page shows the row of the tab, and a line of its table says the same.
Shows(c) ==
    /\ desk[c] \in Range(customers)
    /\ \E l \in Range(lines) : l.code = c /\ l.nick = desk[c].nick /\ l.on = desk[c].on

\* What holds of a customer nothing went wrong about.
Kempt(c) ==
    /\ \A r, s \in Edits(c) : r = s
    /\ \A r, s \in Births(c) : r = s
    /\ Births(c) # {} => There(c)
    /\ \A r \in Births(c) : AnswerStands(ask[r])
    /\ \A r \in Edits(c) : ask[r].heard /\ AnswerStands(ask[r])
    /\ \A r \in Edits(c) : Counts(ask[r]) =>
          c \in DOMAIN desk /\ There(c) /\ Births(c) = {} /\ \E l \in Range(lines) : l.el = ask[r].el /\ l.code = c
    /\ c \in DOMAIN desk /\ Edits(c) = {} => Births(c) = {} /\ Shows(c)

AskForm(q) ==
    /\ "at" \in DOMAIN q
    /\ q.at # "idle" => {"kind", "code", "nick", "on", "version", "el", "row", "heard", "answer"} \subseteq DOMAIN q

LineForm(l) == {"el", "code", "nick", "on", "busy"} \subseteq DOMAIN l

DeskShape ==
    /\ IsSeq(customers) /\ IsSeq(lines)
    /\ DOMAIN ask = Asks /\ \A r \in Asks : AskForm(ask[r])
    /\ drawn \in Nat /\ \A l \in Range(lines) : LineForm(l) /\ l.el \in Nat /\ l.el <= drawn

\* A row is kept under its own code, and a row of the table is one customer's for as long as it is drawn.
NamesRight ==
    /\ \A c \in DOMAIN desk : desk[c].code = c
    /\ \A l, m \in Range(lines) : l.el = m.el => l.code = m.code
    /\ \A r \in Asks : ask[r].at # "idle" /\ ask[r].kind # "create" =>
          /\ ask[r].el \in Nat /\ ask[r].el <= drawn
          /\ \A l \in Range(lines) : l.el = ask[r].el => l.code = ask[r].code

CustomersInv == DeskShape /\ (~strayed => NamesRight /\ \A c : c \notin doubtful => Kempt(c))

\* Removing row i: the rows above it stay, the rows below it move up by one.
LEMMA RemoveAtRows ==
  ASSUME NEW S, NEW rows \in Seq(S), NEW i \in 1..Len(rows)
  PROVE  /\ RemoveAt(rows, i) \in Seq(S)
         /\ Len(RemoveAt(rows, i)) = Len(rows) - 1
         /\ \A k \in 1..(Len(rows) - 1) : RemoveAt(rows, i)[k] = IF k < i THEN rows[k] ELSE rows[k + 1]
<1> DEFINE above == SubSeq(rows, 1, i - 1)
           below == SubSeq(rows, i + 1, Len(rows))
<1>1. Len(rows) \in Nat /\ i \in Int /\ \A k \in 1..Len(rows) : rows[k] \in S
  BY LenProperties, ElementOfSeq
<1>2. /\ above \in Seq(S)
      /\ Len(above) = i - 1
      /\ \A k \in 1..(i - 1) : above[k] = rows[k]
  <2>1. \A k \in 1..(i - 1) : rows[k] \in S
    BY <1>1
  <2>2. 1 \in Int /\ i - 1 \in Int
    BY <1>1, SMTT(30)
  <2> HIDE DEF above
  <2> QED
    BY <2>1, <2>2, <1>1, SubSeqProperties DEF above
<1>3. /\ below \in Seq(S)
      /\ Len(below) = Len(rows) - i
      /\ \A k \in 1..(Len(rows) - i) : below[k] = rows[k + i]
  <2>1. \A k \in (i + 1)..Len(rows) : rows[k] \in S
    BY <1>1
  <2>2. i + 1 \in Int /\ Len(rows) \in Int
    BY <1>1
  <2>3. /\ below \in Seq(S)
        /\ Len(below) = IF i + 1 <= Len(rows) THEN Len(rows) - (i + 1) + 1 ELSE 0
        /\ \A k \in 1..(Len(rows) - (i + 1) + 1) : below[k] = rows[(i + 1) + k - 1]
    BY <2>1, <2>2, SubSeqProperties
  <2> HIDE DEF below
  <2>4. Len(rows) - (i + 1) + 1 = Len(rows) - i /\ (~(i + 1 <= Len(rows)) => Len(rows) - i = 0)
    BY <1>1, SMTT(30)
  <2>5. ASSUME NEW k \in 1..(Len(rows) - i)
        PROVE  below[k] = rows[k + i]
    <3>1. (i + 1) + k - 1 = k + i
      BY <1>1
    <3> QED
      BY <3>1, <2>3, <2>4
  <2> QED
    BY <2>3, <2>4, <2>5
<1> HIDE DEF above, below
<1>4. /\ above \o below \in Seq(S)
      /\ Len(above \o below) = Len(above) + Len(below)
      /\ \A k \in 1..(Len(above) + Len(below)) :
            (above \o below)[k] = IF k <= Len(above) THEN above[k] ELSE below[k - Len(above)]
  BY <1>2, <1>3, ConcatProperties
<1>5. RemoveAt(rows, i) = above \o below
  BY DEF RemoveAt, above, below
<1>6. Len(above) + Len(below) = Len(rows) - 1
  BY <1>1, <1>2, <1>3
<1>7. ASSUME NEW k \in 1..(Len(rows) - 1)
      PROVE  (above \o below)[k] = IF k < i THEN rows[k] ELSE rows[k + 1]
  <2>1. CASE k < i
    BY <2>1, <1>1, <1>2, <1>4, <1>6
  <2>2. CASE ~(k < i)
    <3>1. k - (i - 1) \in 1..(Len(rows) - i) /\ (k - (i - 1)) + i = k + 1
      BY <2>2, <1>1
    <3>2. (above \o below)[k] = below[k - (i - 1)]
      BY <2>2, <1>1, <1>2, <1>4, <1>6
    <3> QED
      BY <3>1, <3>2, <2>2, <1>3
  <2> QED
    BY <2>1, <2>2
<1> QED
  BY <1>4, <1>5, <1>6, <1>7

\* What is in a sequence without one of its entries, with one more on top, and with some replaced.
LEMMA RemoveAtRange ==
  ASSUME NEW s, IsSeq(s), NEW i \in DOMAIN s
  PROVE  /\ IsSeq(RemoveAt(s, i)) /\ Range(RemoveAt(s, i)) \subseteq Range(s)
         /\ \A x \in Range(s) : x # s[i] => x \in Range(RemoveAt(s, i))
<1>1. s \in Seq(Range(s)) /\ DOMAIN s = 1..Len(s) /\ Len(s) \in Nat /\ i \in 1..Len(s)
  BY LenProperties DEF IsSeq
<1>2. PICK t : t = RemoveAt(s, i)
  OBVIOUS
<1>3. /\ t \in Seq(Range(s)) /\ Len(t) = Len(s) - 1
      /\ \A k \in 1..(Len(s) - 1) : t[k] = IF k < i THEN s[k] ELSE s[k + 1]
  BY <1>1, <1>2, RemoveAtRows
<1>4. DOMAIN t = 1..(Len(s) - 1) /\ \A k \in DOMAIN t : t[k] \in Range(s)
  BY <1>3, LenProperties, ElementOfSeq
<1>5. Range(t) \subseteq Range(s)
  BY <1>4 DEF Range
<1>6. ASSUME NEW x \in Range(s), x # s[i]
      PROVE  x \in Range(t)
  <2>1. PICK k \in 1..Len(s) : x = s[k]
    BY <1>1 DEF Range
  <2>2. CASE k < i
    <3>1. k \in 1..(Len(s) - 1)
      BY <1>1, <2>1, <2>2
    <3>2. t[k] = x
      BY <3>1, <1>3, <2>1, <2>2
    <3> QED BY <3>1, <3>2, <1>4 DEF Range
  <2>3. CASE ~(k < i)
    <3>1. k # i
      BY <2>1, <1>6
    <3>2. k - 1 \in 1..(Len(s) - 1) /\ ~(k - 1 < i) /\ (k - 1) + 1 = k
      BY <1>1, <2>1, <2>3, <3>1
    <3>3. t[k - 1] = x
      BY <3>2, <1>3, <2>1
    <3> QED BY <3>2, <3>3, <1>4 DEF Range
  <2> QED BY <2>2, <2>3
<1>7. \A k \in 1..Len(t) : t[k] \in Range(t)
  BY <1>3, <1>4 DEF Range
<1>8. t \in Seq(Range(t))
  BY <1>3, <1>7, SeqDef, IsASeq
<1> QED BY <1>2, <1>5, <1>6, <1>8 DEF IsSeq

LEMMA OnTopRange ==
  ASSUME NEW s, IsSeq(s), NEW x
  PROVE  IsSeq(<<x>> \o s) /\ Range(<<x>> \o s) = Range(s) \cup {x}
<1> DEFINE S == Range(s) \cup {x}
<1>1. s \in Seq(S) /\ <<x>> \in Seq(S) /\ Len(<<x>>) = 1 /\ <<x>>[1] = x
  BY DEF IsSeq
<1>2. DOMAIN s = 1..Len(s) /\ Len(s) \in Nat
  BY <1>1, LenProperties
<1> HIDE DEF S
<1>3. PICK t : t = <<x>> \o s
  OBVIOUS
<1>4. /\ t \in Seq(S) /\ Len(t) = 1 + Len(s)
      /\ \A k \in 1..(1 + Len(s)) : t[k] = IF k <= 1 THEN <<x>>[k] ELSE s[k - 1]
  BY <1>1, <1>3, ConcatProperties
<1>5. DOMAIN t = 1..(1 + Len(s))
  BY <1>4, LenProperties
<1>6. t[1] = x
  BY <1>1, <1>2, <1>4
<1>7. \A k \in 1..Len(s) : k + 1 \in DOMAIN t /\ t[k + 1] = s[k]
  BY <1>2, <1>4, <1>5
<1>8. \A k \in DOMAIN t : k = 1 \/ (k - 1 \in 1..Len(s) /\ t[k] = s[k - 1])
  BY <1>2, <1>4, <1>5
<1>9. Range(t) = Range(s) \cup {x}
  <2>1. Range(t) \subseteq Range(s) \cup {x}
    BY <1>2, <1>6, <1>8 DEF Range
  <2>2. x \in Range(t)
    BY <1>2, <1>5, <1>6 DEF Range
  <2>3. Range(s) \subseteq Range(t)
    BY <1>2, <1>7 DEF Range
  <2> QED BY <2>1, <2>2, <2>3
<1> QED BY <1>3, <1>4, <1>9 DEF IsSeq, S

LEMMA InPlaceRange ==
  ASSUME NEW s, IsSeq(s), NEW t, DOMAIN t = DOMAIN s, t = [i \in DOMAIN s |-> t[i]]
  PROVE  IsSeq(t)
<1>1. DOMAIN s = 1..Len(s) /\ Len(s) \in Nat
  BY LenProperties DEF IsSeq
<1>2. t \in [1..Len(s) -> Range(t)]
  BY <1>1 DEF Range
<1> QED BY <1>1, <1>2, SeqDef DEF IsSeq

LEMMA DeskInitInv == DeskInit => CustomersInv
<1> SUFFICES ASSUME DeskInit PROVE CustomersInv
  OBVIOUS
<1>1. PICK first : first = SetToSeq(FirstCodes)
  OBVIOUS
<1> DEFINE n == Cardinality(FirstCodes)
<1>2. /\ n \in Nat /\ DOMAIN first = 1..n
      /\ \A c \in FirstCodes : \E i \in 1..n : first[i] = c
      /\ \A i, j \in 1..n : first[i] = first[j] => i = j
      /\ \A i \in 1..n : first[i] \in FirstCodes
  <2>1. n \in Nat /\ Bijection(1..n, FirstCodes) # {}
    BY FS_CardinalityType, FirstCustomers DEF ExistsBijection
  <2> HIDE DEF n
  <2>2. \E f \in [1..n -> FirstCodes] : IsInjective(f)
    BY <2>1 DEF Bijection, Injection
  <2>3. first = CHOOSE f \in [1..n -> FirstCodes] : IsInjective(f)
    BY <1>1 DEF SetToSeq, n
  <2>4. first \in [1..n -> FirstCodes] /\ IsInjective(first)
    BY <2>2, <2>3
  <2>5. first \in Injection(1..n, FirstCodes)
    BY <2>4 DEF Injection
  <2>6. Cardinality(1..n) = n
    BY <2>1, FS_Bijection, FS_Interval
  <2>7. first \in Surjection(1..n, FirstCodes)
    BY <2>5, <2>6, FS_Injection, FirstCustomers DEF n
  <2> QED BY <2>1, <2>4, <2>7 DEF Surjection, IsInjective
<1> HIDE DEF n
<1>3. PICK nick : nick = CHOOSE m \in Nicks : TRUE
  OBVIOUS
<1>4. customers = [i \in 1..n |-> [code |-> first[i], nick |-> nick, on |-> TRUE, version |-> 0]]
  BY <1>1, <1>2, <1>3 DEF DeskInit
<1>5. \A i \in 1..n : customers[i].code = first[i]
  BY <1>4
<1>6. DOMAIN customers = 1..n /\ DOMAIN lines = 1..n /\ \A i \in 1..n : lines[i] = clientRow(customers[i], i)
  BY <1>4 DEF DeskInit
<1>7. \A i \in 1..n : /\ lines[i].el = i /\ lines[i].code = customers[i].code
                      /\ lines[i].nick = customers[i].nick /\ lines[i].on = customers[i].on
  BY <1>6 DEF clientRow
<1>8. customers \in [1..n -> Range(customers)] /\ lines \in [1..n -> Range(lines)]
  BY <1>4, <1>6 DEF Range, DeskInit
<1>9. IsSeq(customers) /\ IsSeq(lines) /\ Len(lines) = n
  BY <1>2, <1>8, SeqDef DEF IsSeq
<1>10. \A r \in Asks : ask[r] = Unasked
  BY DEF DeskInit
<1>11. \A r \in Asks : "at" \in DOMAIN ask[r] /\ ask[r].at = "idle"
  BY <1>10 DEF Unasked
<1>12. \A l \in Range(lines) : \E i \in 1..n : l = lines[i]
  BY <1>6 DEF Range
<1>13. drawn = n
  BY <1>9 DEF DeskInit
<1>14. DeskShape
  <2>1. \A l \in Range(lines) : l.el \in Nat /\ l.el <= drawn
    BY <1>2, <1>7, <1>12, <1>13
  <2>2. \A l \in Range(lines) : LineForm(l)
    BY <1>6, <1>12 DEF LineForm, clientRow
  <2> QED BY <2>2, <1>2, <1>9, <1>11, <1>13, <2>1 DEF DeskShape, AskForm, DeskInit
<1>15. DOMAIN desk = FirstCodes /\ \A c \in FirstCodes : \E i \in 1..n : desk[c] = customers[i] /\ customers[i].code = c
  <2>1. \A c \in FirstCodes : desk[c] = customers[CHOOSE i \in 1..n : customers[i].code = c]
    BY <1>6 DEF DeskInit
  <2>2. \A c \in FirstCodes : \E i \in 1..n : customers[i].code = c
    BY <1>2, <1>5
  <2>3. DOMAIN desk = FirstCodes
    BY DEF DeskInit
  <2>4. ASSUME NEW c \in FirstCodes
        PROVE  \E i \in 1..n : desk[c] = customers[i] /\ customers[i].code = c
    <3>1. PICK i \in 1..n : i = CHOOSE j \in 1..n : customers[j].code = c
      BY <2>2
    <3>2. customers[i].code = c
      BY <2>2, <3>1
    <3> QED BY <2>1, <3>1, <3>2
  <2> QED BY <2>3, <2>4
<1>16. NamesRight
  <2>1. \A c \in DOMAIN desk : desk[c].code = c
    BY <1>15
  <2>2. \A l, m \in Range(lines) : l.el = m.el => l.code = m.code
    BY <1>7, <1>12
  <2> QED BY <1>11, <2>1, <2>2 DEF NamesRight
<1>17. ASSUME NEW c
       PROVE  Kempt(c)
  <2>1. Edits(c) = {} /\ Births(c) = {}
    BY <1>11 DEF Edits, Births
  <2>2. ASSUME c \in DOMAIN desk
        PROVE  Shows(c)
    <3>1. PICK i \in 1..n : desk[c] = customers[i] /\ customers[i].code = c
      BY <1>15, <2>2
    <3> QED BY <3>1, <1>6, <1>7 DEF Shows, Range
  <2> QED BY <2>1, <2>2 DEF Kempt
<1> QED BY <1>14, <1>16, <1>17 DEF CustomersInv

\* Nothing that customer c depends on changes.
LEMMA OthersStayKempt ==
  ASSUME NEW c, Kempt(c), Edits(c)' = Edits(c), Births(c)' = Births(c),
         \A r \in Edits(c) \cup Births(c) : ask'[r] = ask[r],
         \A x \in Range(customers) : x.code = c => x \in Range(customers'),
         (c \in DOMAIN desk') <=> (c \in DOMAIN desk),
         c \in DOMAIN desk => desk'[c] = desk[c] /\ desk[c].code = c,
         \A l \in Range(lines) : l.code = c =>
            \E m \in Range(lines') : m.el = l.el /\ m.code = c /\ m.nick = l.nick /\ m.on = l.on
  PROVE  Kempt(c)'
<1>1. There(c) => There(c)'
  BY DEF There
<1>2. \A r \in Edits(c) \cup Births(c) : ask[r].code = c
  BY DEF Edits, Births
<1>3. \A r \in Edits(c) \cup Births(c) : AnswerStands(ask[r]) => AnswerStands(ask[r])'
  BY <1>2 DEF AnswerStands
<1>4. c \in DOMAIN desk /\ Shows(c) => Shows(c)'
  BY DEF Shows
<1>5. /\ \A r \in Edits(c)' : ask'[r].heard /\ AnswerStands(ask[r])'
      /\ \A r \in Births(c)' : AnswerStands(ask[r])'
  BY <1>3 DEF Kempt
<1>6. \A r \in Edits(c)' : Counts(ask'[r]) =>
         c \in DOMAIN desk' /\ There(c)' /\ Births(c)' = {} /\ \E l \in Range(lines') : l.el = ask'[r].el /\ l.code = c
  BY <1>1 DEF Kempt
<1>7. c \in DOMAIN desk' /\ Edits(c)' = {} => Births(c)' = {} /\ Shows(c)'
  BY <1>4 DEF Kempt
<1>8. (\A r, s \in Edits(c)' : r = s) /\ (\A r, s \in Births(c)' : r = s) /\ (Births(c)' # {} => There(c)')
  BY <1>1 DEF Kempt
<1> QED BY <1>5, <1>6, <1>7, <1>8 DEF Kempt

\* A request that is about somebody else, before and after.
LEMMA OthersRequests ==
  ASSUME DOMAIN ask = Asks, NEW r \in Asks, NEW q, ask' = [ask EXCEPT ![r] = q], NEW c,
         r \notin Edits(c), r \notin Births(c), r \notin Edits(c)', r \notin Births(c)'
  PROVE  /\ Edits(c)' = Edits(c) /\ Births(c)' = Births(c)
         /\ \A s \in Edits(c) \cup Births(c) : ask'[s] = ask[s]
<1>1. \A s \in Asks : s # r => ask'[s] = ask[s]
  OBVIOUS
<1>2. \A s \in Asks : s # r => (s \in Edits(c)' <=> s \in Edits(c)) /\ (s \in Births(c)' <=> s \in Births(c))
  BY <1>1 DEF Edits, Births, Made
<1>3. Edits(c) \subseteq Asks /\ Births(c) \subseteq Asks /\ Edits(c)' \subseteq Asks /\ Births(c)' \subseteq Asks
  BY DEF Edits, Births
<1> QED BY <1>1, <1>2, <1>3

\* The line the page writes on is in the table.
LEMMA LineIsThere ==
  ASSUME DeskShape, NEW c, Drawn(c) # {}
  PROVE  Line(c) \in DOMAIN lines /\ lines[Line(c)] \in Range(lines) /\ lines[Line(c)].code = c
<1>1. DOMAIN lines = 1..Len(lines) /\ Len(lines) \in Nat
  BY LenProperties DEF DeskShape, IsSeq
<1>2. Drawn(c) \in SUBSET Nat
  BY <1>1 DEF Drawn
<1>3. \E i \in Drawn(c) : \A j \in Drawn(c) : i <= j
  BY <1>2, LeastPlace
<1>4. Line(c) \in Drawn(c)
  BY <1>3 DEF Line
<1> QED BY <1>4 DEF Drawn, Range

\* The table holds the same rows, and those of the others say the same.
SameTable(code) ==
  /\ IsSeq(lines')
  /\ \A l \in Range(lines) : \E m \in Range(lines') :
        m.el = l.el /\ m.code = l.code /\ (l.code # code => m.nick = l.nick /\ m.on = l.on)
  /\ \A m \in Range(lines') : LineForm(m) /\ \E l \in Range(lines) : m.el = l.el /\ m.code = l.code

LEMMA SameLines == ASSUME DeskShape, NEW code, UNCHANGED lines PROVE SameTable(code)
  BY DEF DeskShape, SameTable, IsSeq, Range

LEMMA PostKeeps ==
  ASSUME CustomersInv, NEW r \in Asks, NEW kind, NEW code, NEW nick, NEW on, Post(r, kind, code, nick, on),
         kind = "create" => UNCHANGED lines,
         kind # "create" => Shown(code) /\ SameTable(code)
  PROVE  CustomersInv'
<1>1. DeskShape
  BY DEF CustomersInv
<1> DEFINE version == IF kind = "create" THEN 0 ELSE desk[code].version
           el == IF kind = "create" THEN 0 ELSE lines[Line(code)].el
<1>2. PICK q : q = [at |-> "sent", kind |-> kind, code |-> code, nick |-> nick, on |-> on,
                    version |-> version, el |-> el, row |-> 0, heard |-> TRUE, answer |-> Nothing]
  OBVIOUS
<1>3. ask' = [ask EXCEPT ![r] = q] /\ ask[r].at = "idle" /\ doubtful' = Cross(code)
  BY <1>2 DEF Post
<1>4. /\ q.at = "sent" /\ q.kind = kind /\ q.code = code /\ q.el = el /\ q.heard
      /\ {"at", "kind", "code", "nick", "on", "version", "el", "row", "heard", "answer"} \subseteq DOMAIN q
  BY <1>2
<1>5. UNCHANGED <<customers, written, desk, drawn, misses, strayed>>
  BY DEF Post
<1>6. ask'[r] = q /\ (\A s \in Asks : s # r => ask'[s] = ask[s]) /\ DOMAIN ask' = Asks
  BY <1>1, <1>3 DEF DeskShape
<1> HIDE DEF version
<1>7. SameTable(code)
  BY <1>1, SameLines
<1>8. kind # "create" => /\ el \in Nat /\ el <= drawn
                         /\ \E l \in Range(lines) : l.el = el /\ l.code = code
  <2> SUFFICES ASSUME kind # "create" PROVE el \in Nat /\ el <= drawn /\ \E l \in Range(lines) : l.el = el /\ l.code = code
    OBVIOUS
  <2>1. lines[Line(code)] \in Range(lines) /\ lines[Line(code)].code = code
    BY <1>1, LineIsThere DEF Shown
  <2>2. el = lines[Line(code)].el
    OBVIOUS
  <2> QED BY <1>1, <2>1, <2>2 DEF DeskShape
<1> HIDE DEF el
<1>9. DeskShape'
  <2>1. \A m \in Range(lines') : LineForm(m) /\ m.el \in Nat /\ m.el <= drawn
    BY <1>1, <1>7 DEF SameTable, DeskShape
  <2>2. \A s \in Asks : AskForm(ask'[s])
    BY <1>1, <1>4, <1>6 DEF DeskShape, AskForm
  <2>3. IsSeq(customers') /\ IsSeq(lines') /\ drawn' \in Nat
    BY <1>1, <1>5, <1>7 DEF DeskShape, SameTable, IsSeq
  <2> QED BY <1>5, <1>6, <2>1, <2>2, <2>3 DEF DeskShape
<1>10. ASSUME ~strayed'
       PROVE  NamesRight' /\ \A c : c \notin doubtful' => Kempt(c)'
  <2>1. NamesRight /\ \A c : c \notin doubtful => Kempt(c)
    BY <1>5, <1>10 DEF CustomersInv
  <2>2. NamesRight'
    <3>1. \A l, m \in Range(lines') : l.el = m.el => l.code = m.code
      BY <1>7, <2>1 DEF NamesRight, SameTable
    <3>2. ASSUME NEW s \in Asks, ask'[s].at # "idle", ask'[s].kind # "create"
          PROVE  /\ ask'[s].el \in Nat /\ ask'[s].el <= drawn
                 /\ \A m \in Range(lines') : m.el = ask'[s].el => m.code = ask'[s].code
      <4>1. CASE s = r
        <5>1. PICK l \in Range(lines) : l.el = el /\ l.code = code
          BY <1>4, <1>6, <1>8, <3>2, <4>1
        <5>2. ASSUME NEW m \in Range(lines'), m.el = el
              PROVE  m.code = code
          <6>1. PICK k \in Range(lines) : k.el = m.el /\ k.code = m.code
            BY <1>7 DEF SameTable
          <6>2. k.el = l.el => k.code = l.code
            BY <2>1 DEF NamesRight
          <6> QED BY <5>1, <5>2, <6>1, <6>2
        <5> QED BY <1>4, <1>6, <1>8, <3>2, <4>1, <5>2
      <4>2. CASE s # r
        <5>1. ask'[s] = ask[s]
          BY <1>6, <4>2
        <5>2. /\ ask[s].el \in Nat /\ ask[s].el <= drawn
              /\ \A l \in Range(lines) : l.el = ask[s].el => l.code = ask[s].code
          BY <2>1, <3>2, <5>1 DEF NamesRight
        <5>3. ASSUME NEW m \in Range(lines'), m.el = ask[s].el
              PROVE  m.code = ask[s].code
          <6>1. PICK k \in Range(lines) : k.el = m.el /\ k.code = m.code
            BY <1>7 DEF SameTable
          <6> QED BY <5>2, <5>3, <6>1
        <5> QED BY <5>1, <5>2, <5>3
      <4> QED BY <4>1, <4>2
    <3>3. \A c \in DOMAIN desk' : desk'[c].code = c
      BY <1>5, <2>1 DEF NamesRight
    <3> QED BY <1>5, <3>1, <3>2, <3>3 DEF NamesRight
  <2>3. ASSUME NEW c, c \notin doubtful'
        PROVE  Kempt(c)'
    <3>1. c \notin doubtful
      BY <1>3, <2>3 DEF Cross
    <3>2. Kempt(c)
      BY <2>1, <3>1
    <3>3. c \in DOMAIN desk => desk[c].code = c
      BY <2>1 DEF NamesRight
    <3>4. r \notin Edits(c) /\ r \notin Births(c) /\ r \notin Births(c)'
      BY <1>3, <1>4, <1>6 DEF Edits, Births, Made
    <3>5. CASE kind = "create" \/ c # code
      <4>1. r \notin Edits(c)'
        BY <1>4, <1>6, <3>5 DEF Edits
      <4>2. /\ Edits(c)' = Edits(c) /\ Births(c)' = Births(c)
            /\ \A s \in Edits(c) \cup Births(c) : ask'[s] = ask[s]
        BY <1>1, <1>3, <3>4, <4>1, OthersRequests DEF DeskShape
      <4>3. \A l \in Range(lines) : l.code = c =>
               \E m \in Range(lines') : m.el = l.el /\ m.code = c /\ m.nick = l.nick /\ m.on = l.on
        <5>1. CASE kind = "create"
          BY <5>1
        <5>2. CASE c # code
          BY <1>7, <5>2 DEF SameTable
        <5> QED BY <3>5, <5>1, <5>2
      <4> QED BY <1>5, <3>2, <3>3, <4>2, <4>3, OthersStayKempt
    <3>6. CASE kind # "create" /\ c = code
      <4>1. About(c) = {}
        BY <1>3, <2>3, <3>6 DEF Cross
      <4>2. Edits(c) = {} /\ Births(c) = {}
        BY <4>1 DEF Edits, Births, About
      <4>3. \A s \in Edits(c)' : s = r
        BY <1>6, <4>2 DEF Edits
      <4>4. Births(c)' = {}
        BY <1>6, <3>4, <4>2 DEF Births
      <4>5. c \in DOMAIN desk /\ Shows(c)
        BY <3>2, <3>6, <4>2 DEF Kempt, Shown
      <4>6. There(c)'
        BY <1>5, <2>1, <4>5 DEF Shows, There, NamesRight
      <4>7. AnswerStands(ask[r])'
        BY <1>4, <1>6 DEF AnswerStands
      <4>8. \E m \in Range(lines') : m.el = ask'[r].el /\ m.code = c
        <5>1. PICK l \in Range(lines) : l.el = el /\ l.code = code
          BY <1>8, <3>6
        <5> QED BY <1>4, <1>6, <1>7, <3>6, <5>1 DEF SameTable
      <4>9. r \in Edits(c)'
        BY <1>4, <1>6, <3>6 DEF Edits
      <4>10. \A s \in Edits(c)' : ask'[s].heard /\ AnswerStands(ask[s])'
        BY <1>4, <1>6, <4>3, <4>7
      <4> QED BY <1>5, <4>3, <4>4, <4>5, <4>6, <4>8, <4>9, <4>10 DEF Kempt
    <3> QED BY <3>5, <3>6
  <2> QED BY <2>2, <2>3
<1> QED BY <1>9, <1>10 DEF CustomersInv

\* Lines some of which are put in again with other words are still the same table.
LEMMA LinesInPlace ==
  ASSUME DeskShape, NEW code, DOMAIN lines' = DOMAIN lines, lines' = [i \in DOMAIN lines |-> lines'[i]],
         \A i \in DOMAIN lines :
            /\ LineForm(lines'[i]) /\ lines'[i].el = lines[i].el /\ lines'[i].code = lines[i].code
            /\ lines[i].code # code => lines'[i].nick = lines[i].nick /\ lines'[i].on = lines[i].on
  PROVE  SameTable(code)
<1>1. IsSeq(lines')
  BY InPlaceRange DEF DeskShape
<1>2. ASSUME NEW l \in Range(lines)
      PROVE  \E m \in Range(lines') : m.el = l.el /\ m.code = l.code /\ (l.code # code => m.nick = l.nick /\ m.on = l.on)
  <2>1. PICK i \in DOMAIN lines : l = lines[i]
    BY DEF Range
  <2>2. lines'[i] \in Range(lines')
    BY DEF Range
  <2> QED BY <2>1, <2>2
<1>3. ASSUME NEW m \in Range(lines')
      PROVE  LineForm(m) /\ \E l \in Range(lines) : m.el = l.el /\ m.code = l.code
  <2>1. PICK i \in DOMAIN lines : m = lines'[i]
    BY DEF Range
  <2>2. lines[i] \in Range(lines)
    BY DEF Range
  <2> QED BY <2>1, <2>2
<1> QED BY <1>1, <1>2, <1>3 DEF SameTable

LEMMA AsksKeep ==
  ASSUME CustomersInv, NEW r \in Asks, doGenerate(r) \/ setStatus(r) \/ rename(r) \/ remove(r)
  PROVE  CustomersInv'
<1>1. DeskShape
  BY DEF CustomersInv
<1>2. CASE doGenerate(r)
  BY <1>2, PostKeeps DEF doGenerate
<1>3. CASE rename(r)
  <2>1. PICK code \in DOMAIN desk, nick \in Nicks : Shown(code) /\ Post(r, "rename", code, nick, desk[code].on) /\ UNCHANGED lines
    BY <1>3 DEF rename
  <2>2. PICK on : on = desk[code].on
    OBVIOUS
  <2>3. SameTable(code)
    BY <1>1, <2>1, SameLines
  <2> QED BY <2>1, <2>2, <2>3, PostKeeps
<1>4. CASE remove(r)
  <2>1. PICK code \in DOMAIN desk : Shown(code) /\ Post(r, "delete", code, desk[code].nick, desk[code].on) /\ UNCHANGED lines
    BY <1>4 DEF remove
  <2>2. PICK on, nick : on = desk[code].on /\ nick = desk[code].nick
    OBVIOUS
  <2>3. SameTable(code)
    BY <1>1, <2>1, SameLines
  <2> QED BY <2>1, <2>2, <2>3, PostKeeps
<1>5. CASE setStatus(r)
  <2>1. PICK code \in DOMAIN desk :
           /\ Shown(code) /\ Post(r, "status", code, desk[code].nick, ~lines[Line(code)].on)
           /\ lines' = [lines EXCEPT ![Line(code)] = [@ EXCEPT !.on = ~lines[Line(code)].on, !.busy = TRUE]]
    BY <1>5 DEF setStatus
  <2>2. PICK on, nick : on = ~lines[Line(code)].on /\ nick = desk[code].nick
    OBVIOUS
  <2>3. PICK at, old : at = Line(code) /\ old = lines[at]
    OBVIOUS
  <2>4. at \in DOMAIN lines /\ old \in Range(lines) /\ old.code = code
    BY <1>1, <2>1, <2>3, LineIsThere DEF Shown
  <2>5. PICK new : new = [old EXCEPT !["on"] = ~old["on"], !["busy"] = TRUE]
    OBVIOUS
  <2>6. lines' = [lines EXCEPT ![at] = new]
    <3>1. lines' = [lines EXCEPT ![Line(code)] = [lines[Line(code)] EXCEPT !["on"] = ~lines[Line(code)]["on"], !["busy"] = TRUE]]
      BY <2>1, Zenon
    <3> QED BY <2>3, <2>5, <3>1
  <2>7. LineForm(old)
    BY <1>1, <2>4 DEF DeskShape
  <2>8. DOMAIN new = DOMAIN old /\ new["el"] = old["el"] /\ new["code"] = old["code"]
    BY <2>5, <2>7 DEF LineForm
  <2>9. LineForm(new) /\ new.el = old.el /\ new.code = old.code
    BY <2>7, <2>8 DEF LineForm
  <2>10. lines'[at] = new /\ \A i \in DOMAIN lines : i # at => lines'[i] = lines[i]
    BY <2>4, <2>6
  <2>11. \A i \in DOMAIN lines : LineForm(lines[i])
    BY <1>1 DEF DeskShape, Range
  <2>12. SameTable(code)
    <3>1. DOMAIN lines' = DOMAIN lines /\ lines' = [i \in DOMAIN lines |-> lines'[i]]
      BY <2>6
    <3>2. \A i \in DOMAIN lines :
            /\ LineForm(lines'[i]) /\ lines'[i].el = lines[i].el /\ lines'[i].code = lines[i].code
            /\ lines[i].code # code => lines'[i].nick = lines[i].nick /\ lines'[i].on = lines[i].on
      BY <2>3, <2>4, <2>9, <2>10, <2>11
    <3> QED BY <1>1, <3>1, <3>2, LinesInPlace
  <2> QED BY <2>1, <2>2, <2>12, PostKeeps
<1> QED BY <1>2, <1>3, <1>4, <1>5

-----------------------------------------------------------------------------
(* requests at the server                                                  *)

\* What a request is about stays as it goes on.
GoesOn(q, old) ==
  /\ AskForm(q) /\ q.at # "idle" /\ q.kind = old.kind /\ q.el = old.el /\ q.heard = old.heard

LEMMA AnsweredIs ==
  ASSUME DeskShape, NEW r \in Asks, ask[r].at # "idle", NEW answer, Answered(r, answer)
  PROVE  \E q : /\ ask' = [ask EXCEPT ![r] = q] /\ GoesOn(q, ask[r]) /\ q.code = ask[r].code
                /\ q.at = "answered" /\ q.answer = answer
<1>1. ask' = [ask EXCEPT ![r] = [ask[r] EXCEPT !["at"] = "answered", !["answer"] = answer]]
  BY Zenon DEF Answered
<1>2. PICK old : old = ask[r]
  OBVIOUS
<1>3. PICK q : q = [old EXCEPT !["at"] = "answered", !["answer"] = answer]
  OBVIOUS
<1>4. ask' = [ask EXCEPT ![r] = q]
  BY <1>1, <1>2, <1>3
<1>5. {"at", "kind", "code", "nick", "on", "version", "el", "row", "heard", "answer"} \subseteq DOMAIN old
  BY <1>2 DEF DeskShape, AskForm
<1>6. /\ DOMAIN q = DOMAIN old /\ q["at"] = "answered" /\ q["answer"] = answer
      /\ q["kind"] = old["kind"] /\ q["code"] = old["code"] /\ q["el"] = old["el"] /\ q["heard"] = old["heard"]
  BY <1>3, <1>5
<1>7. GoesOn(q, old) /\ q.code = old.code /\ q.at = "answered" /\ q.answer = answer
  BY <1>5, <1>6 DEF GoesOn, AskForm
<1> QED BY <1>2, <1>4, <1>7

\* A request that goes on leaves the customers it is not about as they were.
LEMMA ServerKeeps ==
  ASSUME CustomersInv, NEW r \in Asks, ask[r].at # "idle", NEW q, ask' = [ask EXCEPT ![r] = q], GoesOn(q, ask[r]),
         q.code = ask[r].code \/ (ask[r].kind = "create" /\ ~Made(ask[r])),
         UNCHANGED <<desk, lines, drawn, doubtful, strayed>>, IsSeq(customers'),
         \A x \in Range(customers) : x.code # q.code => x \in Range(customers'),
         ~strayed /\ q.code \notin doubtful => Kempt(q.code)'
  PROVE  CustomersInv'
<1>1. DeskShape
  BY DEF CustomersInv
<1>2. ask'[r] = q /\ (\A s \in Asks : s # r => ask'[s] = ask[s]) /\ DOMAIN ask' = Asks
  BY <1>1 DEF DeskShape
<1>3. IsSeq(lines')
  BY <1>1 DEF DeskShape, IsSeq
<1>4. DeskShape'
  BY <1>1, <1>2, <1>3 DEF DeskShape, GoesOn
<1>5. ASSUME ~strayed'
      PROVE  NamesRight' /\ \A c : c \notin doubtful' => Kempt(c)'
  <2>1. NamesRight /\ \A c : c \notin doubtful => Kempt(c)
    BY <1>5 DEF CustomersInv
  <2>2. NamesRight'
    <3>1. ASSUME NEW s \in Asks, ask'[s].at # "idle", ask'[s].kind # "create"
          PROVE  ask[s].at # "idle" /\ ask[s].kind # "create" /\ ask'[s].el = ask[s].el /\ ask'[s].code = ask[s].code
      <4>1. CASE s = r
        BY <1>2, <3>1, <4>1 DEF GoesOn
      <4>2. CASE s # r
        BY <1>2, <3>1, <4>2
      <4> QED BY <4>1, <4>2
    <3>2. \A s \in Asks : ask'[s].at # "idle" /\ ask'[s].kind # "create" =>
             /\ ask'[s].el \in Nat /\ ask'[s].el <= drawn
             /\ \A l \in Range(lines) : l.el = ask'[s].el => l.code = ask'[s].code
      BY <2>1, <3>1 DEF NamesRight
    <3> QED BY <2>1, <3>2 DEF NamesRight
  <2>3. ASSUME NEW c, c \notin doubtful', c # q.code
        PROVE  Kempt(c)'
    <3>1. Kempt(c)
      BY <2>1, <2>3
    <3>2. r \notin Edits(c)' /\ r \notin Births(c)'
      BY <1>2, <2>3 DEF Edits, Births
    <3>3. r \notin Edits(c) /\ r \notin Births(c)
      BY <2>3 DEF Edits, Births
    <3>4. /\ Edits(c)' = Edits(c) /\ Births(c)' = Births(c)
          /\ \A s \in Edits(c) \cup Births(c) : ask'[s] = ask[s]
      BY <1>1, <3>2, <3>3, OthersRequests DEF DeskShape
    <3>5. c \in DOMAIN desk => desk[c].code = c
      BY <2>1 DEF NamesRight
    <3>6. \A x \in Range(customers) : x.code = c => x \in Range(customers')
      BY <2>3
    <3>7. \A l \in Range(lines) : l.code = c =>
               \E m \in Range(lines') : m.el = l.el /\ m.code = c /\ m.nick = l.nick /\ m.on = l.on
      OBVIOUS
    <3> QED BY <3>1, <3>4, <3>5, <3>6, <3>7, OthersStayKempt
  <2> QED BY <1>5, <2>2, <2>3
<1> QED BY <1>4, <1>5 DEF CustomersInv

\* A request about a customer who is there goes on, or is answered.
LEMMA EditGoesOn ==
  ASSUME DeskShape, NEW r \in Asks, NEW q, ask' = [ask EXCEPT ![r] = q], GoesOn(q, ask[r]), q.code = ask[r].code,
         Kempt(q.code), r \in Edits(q.code), AnswerStands(q)',
         UNCHANGED <<desk, lines>>, UNCHANGED customers \/ Counts(ask[r]),
         Counts(q) => Counts(ask[r]) /\ There(q.code)'
  PROVE  Kempt(q.code)'
<1> DEFINE c == q.code
<1>1. ask'[r] = q /\ (\A s \in Asks : s # r => ask'[s] = ask[s]) /\ DOMAIN ask' = Asks
  BY DEF DeskShape
<1>2. ask[r].kind # "create" /\ ask[r].at # "idle" /\ ask[r].heard
  BY DEF Edits, Kempt
<1>3. \A s \in Asks : s \in Edits(c)' <=> s \in Edits(c)
  BY <1>1, <1>2 DEF Edits, GoesOn
<1>4. \A s \in Asks : s \in Births(c)' <=> s \in Births(c)
  BY <1>1, <1>2 DEF Births, GoesOn, Made
<1>5. Edits(c)' = Edits(c) /\ Births(c)' = Births(c) /\ \A s \in Births(c) : s # r /\ ask'[s] = ask[s]
  <2>1. Edits(c) \subseteq Asks /\ Births(c) \subseteq Asks /\ Edits(c)' \subseteq Asks /\ Births(c)' \subseteq Asks
    BY DEF Edits, Births
  <2>2. r \notin Births(c)
    BY <1>2 DEF Births
  <2> QED BY <1>1, <1>3, <1>4, <2>1, <2>2
<1>6. \A s \in Edits(c) : s = r
  BY DEF Kempt
<1>7. Births(c) # {} => UNCHANGED customers
  BY DEF Kempt
<1>8. (Births(c)' # {} => There(c)') /\ \A s \in Births(c)' : AnswerStands(ask[s])'
  BY <1>5, <1>7 DEF Kempt, There, AnswerStands
<1>9. \A s \in Edits(c)' : ask'[s].heard /\ AnswerStands(ask[s])'
  BY <1>1, <1>2, <1>5, <1>6 DEF GoesOn
<1>10. Counts(q) => c \in DOMAIN desk /\ Births(c) = {} /\ \E l \in Range(lines) : l.el = q.el /\ l.code = c
  BY DEF Kempt, GoesOn
<1>11. \A s \in Edits(c)' : Counts(ask'[s]) =>
          c \in DOMAIN desk' /\ There(c)' /\ Births(c)' = {} /\ \E l \in Range(lines') : l.el = ask'[s].el /\ l.code = c
  BY <1>1, <1>5, <1>6, <1>10
<1>12. Edits(c)' # {} /\ (\A s, t \in Edits(c)' : s = t) /\ \A s, t \in Births(c)' : s = t
  BY <1>5 DEF Kempt
<1> QED BY <1>8, <1>9, <1>11, <1>12 DEF Kempt

\* A request that made a customer is answered.
LEMMA BirthGoesOn ==
  ASSUME DeskShape, NEW r \in Asks, NEW q, ask' = [ask EXCEPT ![r] = q], GoesOn(q, ask[r]), q.code = ask[r].code,
         Kempt(q.code), r \in Births(q.code), AnswerStands(q)', UNCHANGED <<desk, lines, customers>>
  PROVE  Kempt(q.code)'
<1> DEFINE c == q.code
<1>1. ask'[r] = q /\ (\A s \in Asks : s # r => ask'[s] = ask[s]) /\ DOMAIN ask' = Asks
  BY DEF DeskShape
<1>2. ask[r].kind = "create" /\ r \notin Edits(c)
  BY DEF Births, Edits
<1>3. Edits(c)' = Edits(c) /\ \A s \in Edits(c) : s # r /\ ask'[s] = ask[s]
  <2>1. \A s \in Asks : s \in Edits(c)' <=> s \in Edits(c)
    BY <1>1, <1>2 DEF Edits, GoesOn
  <2>2. Edits(c) \subseteq Asks /\ Edits(c)' \subseteq Asks
    BY DEF Edits
  <2> QED BY <1>1, <1>2, <2>1, <2>2
<1>4. \A s \in Births(c)' : s = r
  BY <1>1 DEF Births, Kempt
<1>5. \A s \in Edits(c) : ~Counts(ask[s])
  BY DEF Kempt
<1>6. There(c)' /\ ~(c \in DOMAIN desk /\ Edits(c) = {})
  BY DEF Kempt, There
<1>7. \A s \in Births(c)' : AnswerStands(ask[s])'
  BY <1>1, <1>4
<1>8. \A s \in Edits(c)' : ask'[s].heard /\ AnswerStands(ask[s])'
  BY <1>3 DEF Kempt, AnswerStands
<1>9. \A s \in Edits(c)' : ~Counts(ask'[s])
  BY <1>3, <1>5
<1>10. (\A s, t \in Edits(c)' : s = t) /\ \A s, t \in Births(c)' : s = t
  BY <1>3, <1>4 DEF Kempt
<1>11. ~(c \in DOMAIN desk' /\ Edits(c)' = {})
  BY <1>3, <1>6
<1> QED BY <1>6, <1>7, <1>8, <1>9, <1>10, <1>11 DEF Kempt

\* A request that has made nobody yet, or never does.
LEMMA WaitingKeeps ==
  ASSUME DeskShape, NEW r \in Asks, ask[r].at # "idle", NEW q, ask' = [ask EXCEPT ![r] = q], GoesOn(q, ask[r]),
         ask[r].kind = "create", ~Made(ask[r]), ~Made(q), Kempt(q.code), NamesRight, UNCHANGED <<desk, lines, customers>>
  PROVE  Kempt(q.code)'
<1> DEFINE c == q.code
<1>1. ask'[r] = q
  BY DEF DeskShape
<1>2. r \notin Edits(c) /\ r \notin Births(c) /\ r \notin Edits(c)' /\ r \notin Births(c)'
  BY <1>1 DEF Edits, Births, GoesOn
<1>3. /\ Edits(c)' = Edits(c) /\ Births(c)' = Births(c)
      /\ \A s \in Edits(c) \cup Births(c) : ask'[s] = ask[s]
  BY <1>2, OthersRequests DEF DeskShape
<1>4. c \in DOMAIN desk => desk[c].code = c
  BY DEF NamesRight
<1>5. \A l \in Range(lines) : l.code = c =>
         \E m \in Range(lines') : m.el = l.el /\ m.code = c /\ m.nick = l.nick /\ m.on = l.on
  OBVIOUS
<1> QED BY <1>3, <1>4, <1>5, OthersStayKempt

\* What the server does to a request that is about a customer it has, when the tab stays as it is.
LEMMA RefusedKeeps ==
  ASSUME CustomersInv, NEW r \in Asks, ask[r].at # "idle", Answered(r, Refused),
         UNCHANGED <<customers, desk, lines, drawn, doubtful, strayed>>
  PROVE  CustomersInv'
<1>1. DeskShape /\ IsSeq(customers')
  BY DEF CustomersInv, DeskShape, IsSeq
<1>2. PICK q : /\ ask' = [ask EXCEPT ![r] = q] /\ GoesOn(q, ask[r]) /\ q.code = ask[r].code
               /\ q.at = "answered" /\ q.answer = Refused
  BY <1>1, AnsweredIs
<1>3. AnswerStands(q)' /\ ~Made(q)
  BY <1>2 DEF AnswerStands, Made
<1>4. ASSUME ~strayed, q.code \notin doubtful
      PROVE  Kempt(q.code)'
  <2>1. Kempt(q.code) /\ NamesRight
    BY <1>4 DEF CustomersInv
  <2>2. CASE ask[r].kind # "create"
    <3>1. r \in Edits(q.code)
      BY <1>2, <2>2 DEF Edits
    <3>2. Counts(q) => Counts(ask[r])
      BY <1>2 DEF Counts, GoesOn
    <3>3. Counts(q) => There(q.code)'
      BY <2>1, <3>1, <3>2 DEF Kempt, There
    <3> QED BY <1>1, <1>2, <1>3, <2>1, <3>1, <3>2, <3>3, EditGoesOn
  <2>3. CASE ask[r].kind = "create" /\ Made(ask[r])
    <3>1. r \in Births(q.code)
      BY <1>2, <2>3 DEF Births
    <3> QED BY <1>1, <1>2, <1>3, <2>1, <3>1, BirthGoesOn
  <2>4. CASE ask[r].kind = "create" /\ ~Made(ask[r])
    BY <1>1, <1>2, <1>3, <2>1, <2>4, WaitingKeeps
  <2> QED BY <2>2, <2>3, <2>4
<1> QED BY <1>1, <1>2, <1>4, ServerKeeps

LEMMA QueuedIs ==
  ASSUME DeskShape, NEW r \in Asks, ask[r].at # "idle", NEW code, NEW row,
         ask' = [ask EXCEPT ![r] = [@ EXCEPT !.at = "queued", !.code = code, !.row = row]]
  PROVE  \E q : ask' = [ask EXCEPT ![r] = q] /\ GoesOn(q, ask[r]) /\ q.code = code /\ q.at = "queued"
<1>1. PICK old : old = ask[r]
  OBVIOUS
<1>2. {"at", "kind", "code", "nick", "on", "version", "el", "row", "heard", "answer"} \subseteq DOMAIN old
  BY <1>1 DEF DeskShape, AskForm
<1>3. PICK q : q = [old EXCEPT !["at"] = "queued", !["code"] = code, !["row"] = row]
  OBVIOUS
<1>4. ask' = [ask EXCEPT ![r] = [ask[r] EXCEPT !["at"] = "queued", !["code"] = code, !["row"] = row]]
  BY Zenon
<1>5. ask' = [ask EXCEPT ![r] = q]
  BY <1>1, <1>3, <1>4
<1>6. /\ DOMAIN q = DOMAIN old /\ q["at"] = "queued" /\ q["code"] = code
      /\ q["kind"] = old["kind"] /\ q["el"] = old["el"] /\ q["heard"] = old["heard"]
  BY <1>2, <1>3
<1>7. GoesOn(q, old) /\ q.code = code /\ q.at = "queued"
  BY <1>2, <1>6 DEF GoesOn, AskForm
<1> QED BY <1>1, <1>5, <1>7

LEMMA RewordedIs ==
  ASSUME DeskShape, NEW r \in Asks, ask[r].at # "idle", NEW row, NEW nick, NEW on,
         ask' = [ask EXCEPT ![r] = [@ EXCEPT !.at = "queued", !.row = row, !.nick = nick, !.on = on]]
  PROVE  \E q : ask' = [ask EXCEPT ![r] = q] /\ GoesOn(q, ask[r]) /\ q.code = ask[r].code /\ q.at = "queued"
<1>1. PICK old : old = ask[r]
  OBVIOUS
<1>2. {"at", "kind", "code", "nick", "on", "version", "el", "row", "heard", "answer"} \subseteq DOMAIN old
  BY <1>1 DEF DeskShape, AskForm
<1>3. PICK q : q = [old EXCEPT !["at"] = "queued", !["row"] = row, !["nick"] = nick, !["on"] = on]
  OBVIOUS
<1>4. ask' = [ask EXCEPT ![r] = [ask[r] EXCEPT !["at"] = "queued", !["row"] = row, !["nick"] = nick, !["on"] = on]]
  BY Zenon
<1>5. ask' = [ask EXCEPT ![r] = q]
  BY <1>1, <1>3, <1>4
<1>6. /\ DOMAIN q = DOMAIN old /\ q["at"] = "queued" /\ q["code"] = old["code"]
      /\ q["kind"] = old["kind"] /\ q["el"] = old["el"] /\ q["heard"] = old["heard"]
  BY <1>2, <1>3
<1>7. GoesOn(q, old) /\ q.code = old.code /\ q.at = "queued"
  BY <1>2, <1>6 DEF GoesOn, AskForm
<1> QED BY <1>1, <1>5, <1>7

LEMMA LoadKeeps ==
  ASSUME CustomersInv, NEW r \in Asks, loadSnapshot(r), UNCHANGED <<desk, lines, drawn, asks, misses, doubtful, strayed>>
  PROVE  CustomersInv'
<1>1. DeskShape /\ IsSeq(customers') /\ UNCHANGED customers
  BY DEF CustomersInv, DeskShape, IsSeq, loadSnapshot, Untouched
<1>2. ask[r].at = "sent" /\ ~Made(ask[r]) /\ Counts(ask[r])
  BY DEF loadSnapshot, Made, Counts
<1>3. CASE ask[r].kind = "create"
  <2>1. PICK code : ask' = [ask EXCEPT ![r] = [@ EXCEPT !.at = "queued", !.code = code, !.row = 1]]
    BY <1>3 DEF loadSnapshot
  <2>2. PICK q : ask' = [ask EXCEPT ![r] = q] /\ GoesOn(q, ask[r]) /\ q.code = code /\ q.at = "queued"
    BY <1>1, <1>2, <2>1, QueuedIs, ZenonT(40)
  <2>3. ~Made(q)
    BY <2>2 DEF Made
  <2>4. ~strayed /\ q.code \notin doubtful => Kempt(q.code)'
    BY <1>1, <1>2, <1>3, <2>2, <2>3, WaitingKeeps DEF CustomersInv
  <2> QED BY <1>1, <1>2, <1>3, <2>2, <2>4, ServerKeeps
<1>4. ASSUME ask[r].kind # "create", NEW q, ask' = [ask EXCEPT ![r] = q], GoesOn(q, ask[r]), q.code = ask[r].code,
             AnswerStands(q)'
      PROVE  CustomersInv'
  <2>1. ASSUME ~strayed, q.code \notin doubtful
        PROVE  Kempt(q.code)'
    <3>1. Kempt(q.code)
      BY <2>1 DEF CustomersInv
    <3>2. r \in Edits(q.code)
      BY <1>2, <1>4 DEF Edits
    <3>3. There(q.code)'
      BY <1>1, <1>2, <3>1, <3>2 DEF Kempt, There
    <3> QED BY <1>1, <1>2, <1>4, <3>1, <3>2, <3>3, EditGoesOn
  <2> QED BY <1>1, <1>2, <1>4, <2>1, ServerKeeps
<1>5. CASE ask[r].kind # "create" /\ Answered(r, Refused)
  BY <1>1, <1>2, <1>5, RefusedKeeps
<1>6. CASE ask[r].kind # "create" /\ ~Answered(r, Refused)
  <2>1. PICK i \in RowsOf(ask[r].code) :
           IF Unchanged(ask[r], customers[i]) THEN Answered(r, customers[i])
           ELSE ask' = [ask EXCEPT ![r] = [@ EXCEPT !.at = "queued", !.row = i,
                                                    !.nick = IF ask[r].kind = "rename" THEN ask[r].nick ELSE customers[i].nick,
                                                    !.on = IF ask[r].kind = "status" THEN ask[r].on ELSE customers[i].on]]
    BY <1>6 DEF loadSnapshot
  <2>2. customers[i] \in Range(customers)
    BY <2>1 DEF RowsOf, Range
  <2>3. CASE Unchanged(ask[r], customers[i])
    <3>1. PICK row : row = customers[i]
      OBVIOUS
    <3>2. PICK q : /\ ask' = [ask EXCEPT ![r] = q] /\ GoesOn(q, ask[r]) /\ q.code = ask[r].code
                   /\ q.at = "answered" /\ q.answer = row
      BY <1>1, <1>2, <2>1, <2>3, <3>1, AnsweredIs
    <3>3. AnswerStands(q)'
      BY <1>1, <2>2, <3>1, <3>2 DEF AnswerStands
    <3> QED BY <1>4, <1>6, <3>2, <3>3
  <2>4. CASE ~Unchanged(ask[r], customers[i])
    <3>1. PICK nick, on : /\ nick = IF ask[r].kind = "rename" THEN ask[r].nick ELSE customers[i].nick
                          /\ on = IF ask[r].kind = "status" THEN ask[r].on ELSE customers[i].on
      OBVIOUS
    <3>2. ask' = [ask EXCEPT ![r] = [@ EXCEPT !.at = "queued", !.row = i, !.nick = nick, !.on = on]]
      BY <2>1, <2>4, <3>1, Zenon
    <3>3. PICK q : ask' = [ask EXCEPT ![r] = q] /\ GoesOn(q, ask[r]) /\ q.code = ask[r].code /\ q.at = "queued"
      BY <1>1, <1>2, <3>2, RewordedIs
    <3>4. AnswerStands(q)'
      BY <3>3 DEF AnswerStands
    <3> QED BY <1>4, <1>6, <3>3, <3>4
  <2> QED BY <2>3, <2>4
<1> QED BY <1>3, <1>5, <1>6

LEMMA WrittenIs ==
  ASSUME DeskShape, NEW r \in Asks, ask[r].at # "idle", ask' = [ask EXCEPT ![r] = [@ EXCEPT !.at = "written"]]
  PROVE  \E q : ask' = [ask EXCEPT ![r] = q] /\ GoesOn(q, ask[r]) /\ q.code = ask[r].code /\ q.at = "written"
<1>1. PICK old : old = ask[r]
  OBVIOUS
<1>2. {"at", "kind", "code", "nick", "on", "version", "el", "row", "heard", "answer"} \subseteq DOMAIN old
  BY <1>1 DEF DeskShape, AskForm
<1>3. PICK q : q = [old EXCEPT !["at"] = "written"]
  OBVIOUS
<1>4. ask' = [ask EXCEPT ![r] = [ask[r] EXCEPT !["at"] = "written"]]
  BY Zenon
<1>5. ask' = [ask EXCEPT ![r] = q]
  BY <1>1, <1>3, <1>4
<1>6. /\ DOMAIN q = DOMAIN old /\ q["at"] = "written" /\ q["code"] = old["code"]
      /\ q["kind"] = old["kind"] /\ q["el"] = old["el"] /\ q["heard"] = old["heard"]
  BY <1>2, <1>3
<1>7. GoesOn(q, old) /\ q.code = old.code /\ q.at = "written"
  BY <1>2, <1>6 DEF GoesOn, AskForm
<1> QED BY <1>1, <1>5, <1>7

\* A customer is put on top of the tab.
LEMMA BornKeeps ==
  ASSUME CustomersInv, NEW r \in Asks, ask[r].at = "queued", ask[r].kind = "create", RowsOf(ask[r].code) = {},
         NEW cells, cells.code = ask[r].code, customers' = <<cells>> \o customers,
         ask' = [ask EXCEPT ![r] = [@ EXCEPT !.at = "written"]],
         UNCHANGED <<desk, lines, drawn, asks, misses, doubtful, strayed>>
  PROVE  CustomersInv'
<1>1. DeskShape
  BY DEF CustomersInv
<1>2. PICK q : ask' = [ask EXCEPT ![r] = q] /\ GoesOn(q, ask[r]) /\ q.code = ask[r].code /\ q.at = "written"
  BY <1>1, WrittenIs
<1>3. IsSeq(customers') /\ Range(customers') = Range(customers) \cup {cells}
  BY <1>1, OnTopRange DEF DeskShape
<1>4. ASSUME ~strayed, q.code \notin doubtful
      PROVE  Kempt(q.code)'
  <2> DEFINE c == q.code
  <2>1. Kempt(c) /\ NamesRight
    BY <1>4 DEF CustomersInv
  <2>2. ~There(c)
    BY <1>2 DEF There, RowsOf, Range
  <2>3. Births(c) = {} /\ \A s \in Edits(c) : ~Counts(ask[s])
    BY <2>1, <2>2 DEF Kempt
  <2>4. ~(c \in DOMAIN desk /\ Edits(c) = {})
    BY <2>1, <2>2 DEF Kempt, Shows, There, NamesRight
  <2>5. There(c)'
    BY <1>2, <1>3 DEF There
  <2>6. ask'[r] = q /\ (\A s \in Asks : s # r => ask'[s] = ask[s]) /\ DOMAIN ask' = Asks
    BY <1>1, <1>2 DEF DeskShape
  <2>7. Edits(c)' = Edits(c) /\ \A s \in Edits(c) : ask'[s] = ask[s]
    <3>1. r \notin Edits(c) /\ r \notin Edits(c)'
      BY <1>2, <2>6 DEF Edits, GoesOn
    <3>2. \A s \in Asks : s \in Edits(c)' <=> s \in Edits(c)
      BY <2>6, <3>1 DEF Edits
    <3>3. Edits(c) \subseteq Asks /\ Edits(c)' \subseteq Asks
      BY DEF Edits
    <3> QED BY <2>6, <3>1, <3>2, <3>3
  <2>8. \A s \in Births(c)' : s = r
    BY <2>3, <2>6 DEF Births
  <2>9. \A s \in Births(c)' : AnswerStands(ask[s])'
    BY <1>2, <2>6, <2>8 DEF AnswerStands
  <2>10. \A s \in Edits(c)' : ask'[s].heard /\ AnswerStands(ask[s])'
    BY <1>3, <2>1, <2>7 DEF Kempt, AnswerStands
  <2>11. \A s \in Edits(c)' : ~Counts(ask'[s])
    BY <2>3, <2>7
  <2>12. (\A s, t \in Edits(c)' : s = t) /\ (\A s, t \in Births(c)' : s = t) /\ ~(c \in DOMAIN desk' /\ Edits(c)' = {})
    BY <2>1, <2>4, <2>7, <2>8 DEF Kempt
  <2> QED BY <2>5, <2>9, <2>10, <2>11, <2>12 DEF Kempt
<1> QED BY <1>2, <1>3, <1>4, ServerKeeps

\* The row of a customer is written, or goes.
LEMMA ChangedKeeps ==
  ASSUME CustomersInv, NEW r \in Asks, ask[r].at = "queued", ask[r].kind # "create",
         NEW q, ask' = [ask EXCEPT ![r] = q], GoesOn(q, ask[r]), q.code = ask[r].code, AnswerStands(q)', IsSeq(customers'),
         \A x \in Range(customers) : x.code # q.code => x \in Range(customers'),
         Counts(q) => There(q.code)',
         UNCHANGED <<desk, lines, drawn, asks, misses, doubtful, strayed>>
  PROVE  CustomersInv'
<1>1. ASSUME ~strayed, q.code \notin doubtful
      PROVE  Kempt(q.code)'
  <2>1. Kempt(q.code) /\ DeskShape
    BY <1>1 DEF CustomersInv
  <2>2. r \in Edits(q.code) /\ Counts(ask[r])
    BY DEF Edits, Counts
  <2> QED BY <2>1, <2>2, EditGoesOn
<1> QED BY <1>1, ServerKeeps

LEMMA WrittenKeeps ==
  ASSUME CustomersInv, NEW r \in Asks, Written(r), UNCHANGED <<desk, lines, drawn, asks, misses, doubtful, strayed>>
  PROVE  CustomersInv'
<1>1. DeskShape /\ ask[r].at = "queued"
  BY DEF CustomersInv, Written
<1>2. CASE Answered(r, Refused) /\ Untouched
  BY <1>1, <1>2, RefusedKeeps DEF Untouched
<1>3. CASE ~(Answered(r, Refused) /\ Untouched)
  <2>1. PICK cells : cells = Cells(ask[r])
    OBVIOUS
  <2>2. cells.code = ask[r].code
    BY <2>1 DEF Cells
  <2>3. CASE ask[r].kind = "create"
    <3>1. /\ RowsOf(ask[r].code) = {} /\ customers' = <<cells>> \o customers
          /\ ask' = [ask EXCEPT ![r] = [@ EXCEPT !.at = "written"]]
      BY <1>3, <2>1, <2>3, Zenon DEF Written
    <3> QED BY <1>1, <2>2, <2>3, <3>1, BornKeeps
  <2>4. CASE ask[r].kind = "delete"
    <3>1. /\ Stands(ask[r]) /\ customers' = RemoveAt(customers, ask[r].row)
          /\ Answered(r, [code |-> ask[r].code])
      BY <1>3, <2>4 DEF Written
    <3>2. PICK row, answer : row = ask[r].row /\ answer = [code |-> ask[r].code]
      OBVIOUS
    <3>3. row \in DOMAIN customers /\ customers[row].code = ask[r].code /\ customers' = RemoveAt(customers, row)
      BY <3>1, <3>2 DEF Stands
    <3>4. PICK q : /\ ask' = [ask EXCEPT ![r] = q] /\ GoesOn(q, ask[r]) /\ q.code = ask[r].code
                   /\ q.at = "answered" /\ q.answer = answer
      BY <1>1, <3>1, <3>2, AnsweredIs
    <3>5. IsSeq(customers') /\ \A x \in Range(customers) : x # customers[row] => x \in Range(customers')
      BY <1>1, <3>3, RemoveAtRange DEF DeskShape
    <3>6. \A x \in Range(customers) : x.code # q.code => x \in Range(customers')
      BY <3>3, <3>4, <3>5
    <3>7. AnswerStands(q)' /\ ~Counts(q)
      BY <2>4, <3>4 DEF AnswerStands, Counts, GoesOn
    <3> QED BY <1>1, <2>4, <3>4, <3>5, <3>6, <3>7, ChangedKeeps
  <2>5. CASE ask[r].kind \notin {"create", "delete"}
    <3>1. /\ Stands(ask[r]) /\ customers' = [customers EXCEPT ![ask[r].row] = cells]
          /\ ask' = [ask EXCEPT ![r] = [@ EXCEPT !.at = "written"]]
      BY <1>3, <2>1, <2>5, Zenon DEF Written
    <3>2. PICK row : row = ask[r].row
      OBVIOUS
    <3>3. row \in DOMAIN customers /\ customers[row].code = ask[r].code /\ customers' = [customers EXCEPT ![row] = cells]
      BY <3>1, <3>2 DEF Stands
    <3>4. PICK q : ask' = [ask EXCEPT ![r] = q] /\ GoesOn(q, ask[r]) /\ q.code = ask[r].code /\ q.at = "written"
      BY <1>1, <3>1, WrittenIs
    <3>5. IsSeq(customers')
      BY <1>1, <3>3, InPlaceRange DEF DeskShape
    <3>6. \A x \in Range(customers) : x.code # q.code => x \in Range(customers')
      BY <3>3, <3>4 DEF Range
    <3>7. There(q.code)' /\ AnswerStands(q)'
      BY <2>2, <3>3, <3>4 DEF There, Range, AnswerStands
    <3> QED BY <1>1, <2>5, <3>4, <3>5, <3>6, <3>7, ChangedKeeps
  <2> QED BY <2>3, <2>4, <2>5
<1> QED BY <1>2, <1>3

LEMMA FreshKeeps ==
  ASSUME CustomersInv, NEW r \in Asks, freshClient(r), UNCHANGED <<desk, lines, drawn, asks, misses, doubtful, strayed>>
  PROVE  CustomersInv'
<1>1. DeskShape /\ ask[r].at = "written" /\ UNCHANGED customers /\ IsSeq(customers')
  BY DEF CustomersInv, freshClient, Untouched, DeskShape, IsSeq
<1>2. CASE ask[r].row \notin DOMAIN customers
  BY <1>1, <1>2, RefusedKeeps DEF freshClient
<1>3. CASE ask[r].row \in DOMAIN customers
  <2>1. PICK answer : answer = customers[ask[r].row]
    OBVIOUS
  <2>2. Answered(r, answer) /\ answer \in Range(customers)
    BY <1>3, <2>1 DEF freshClient, Range
  <2>3. PICK q : /\ ask' = [ask EXCEPT ![r] = q] /\ GoesOn(q, ask[r]) /\ q.code = ask[r].code
                 /\ q.at = "answered" /\ q.answer = answer
    BY <1>1, <2>2, AnsweredIs
  <2>4. AnswerStands(q)'
    BY <1>1, <2>2, <2>3 DEF AnswerStands
  <2>5. ASSUME ~strayed, q.code \notin doubtful
        PROVE  Kempt(q.code)'
    <3>1. Kempt(q.code)
      BY <2>5 DEF CustomersInv
    <3>2. CASE ask[r].kind = "create"
      <4>1. r \in Births(q.code)
        BY <1>1, <2>3, <3>2 DEF Births, Made
      <4> QED BY <1>1, <2>3, <2>4, <3>1, <4>1, BirthGoesOn
    <3>3. CASE ask[r].kind # "create"
      <4>1. r \in Edits(q.code)
        BY <1>1, <2>3, <3>3 DEF Edits
      <4>2. Counts(q) => Counts(ask[r])
        BY <1>1, <2>3 DEF Counts, GoesOn
      <4>3. Counts(q) => There(q.code)'
        BY <1>1, <3>1, <4>1, <4>2 DEF Kempt, There
      <4> QED BY <1>1, <2>3, <2>4, <3>1, <4>1, <4>2, <4>3, EditGoesOn
    <3> QED BY <3>2, <3>3
  <2> QED BY <1>1, <2>3, <2>5, ServerKeeps
<1> QED BY <1>2, <1>3

LEMMA ServerStepKeeps ==
  ASSUME CustomersInv, NEW r \in Asks, Handle(r) \/ Breaks(r)
  PROVE  CustomersInv'
<1>1. CASE Handle(r)
  BY <1>1, LoadKeeps, WrittenKeeps, FreshKeeps DEF Handle
<1>2. CASE Breaks(r)
  BY <1>2, RefusedKeeps DEF Breaks
<1> QED BY <1>1, <1>2

-----------------------------------------------------------------------------
(* what the page makes of the answers                                      *)

\* The table has rows it had, and rows of this customer that are drawn for the first time.
NewTable(code) ==
  /\ IsSeq(lines') /\ drawn' \in {drawn, drawn + 1}
  /\ \A m \in Range(lines') :
        /\ LineForm(m)
        /\ \/ \E l \in Range(lines) : m.el = l.el /\ m.code = l.code
           \/ m.el = drawn + 1 /\ drawn' = drawn + 1 /\ (~strayed' => m.code = code)

OthersShown(code) ==
  /\ \A c \in DOMAIN desk' : desk'[c].code = c
  /\ \A c : c # code =>
        ((c \in DOMAIN desk') <=> (c \in DOMAIN desk)) /\ (c \in DOMAIN desk => desk'[c] = desk[c])
  /\ \A l \in Range(lines) : l.code # code =>
        \E m \in Range(lines') : m.el = l.el /\ m.code = l.code /\ m.nick = l.nick /\ m.on = l.on

\* An answer, or the lack of one, leaves the customers it is not about as they were.
LEMMA PageKeeps ==
  ASSUME CustomersInv, NEW r \in Asks, ask[r].at # "idle",
         NEW q, ask' = [ask EXCEPT ![r] = q], AskForm(q), NEW code, code = ask[r].code,
         q.at # "idle" => q.kind = ask[r].kind /\ q.el = ask[r].el /\ q.code = code,
         UNCHANGED customers, doubtful \subseteq doubtful', ~strayed' => ~strayed,
         NewTable(code),
         ~strayed' => OthersShown(code) /\ (code \notin doubtful' => Kempt(code)')
  PROVE  CustomersInv'
<1>1. DeskShape
  BY DEF CustomersInv
<1>2. ask'[r] = q /\ (\A s \in Asks : s # r => ask'[s] = ask[s]) /\ DOMAIN ask' = Asks
  BY <1>1 DEF DeskShape
<1>3. \A m \in Range(lines') : m.el \in Nat /\ m.el <= drawn'
  <2> SUFFICES ASSUME NEW m \in Range(lines') PROVE m.el \in Nat /\ m.el <= drawn'
    OBVIOUS
  <2>1. CASE \E l \in Range(lines) : m.el = l.el /\ m.code = l.code
    BY <1>1, <2>1 DEF NewTable, DeskShape
  <2>2. CASE m.el = drawn + 1 /\ drawn' = drawn + 1
    BY <1>1, <2>2 DEF DeskShape
  <2> QED BY <2>1, <2>2 DEF NewTable
<1>4. DeskShape'
  <2>1. IsSeq(customers') /\ IsSeq(lines') /\ drawn' \in Nat
    BY <1>1 DEF DeskShape, NewTable, IsSeq
  <2>2. \A s \in Asks : AskForm(ask'[s])
    BY <1>1, <1>2 DEF DeskShape
  <2>3. \A m \in Range(lines') : LineForm(m)
    BY DEF NewTable
  <2> QED BY <1>2, <1>3, <2>1, <2>2, <2>3 DEF DeskShape
<1>5. ASSUME ~strayed'
      PROVE  NamesRight' /\ \A c : c \notin doubtful' => Kempt(c)'
  <2>1. NamesRight /\ \A c : c \notin doubtful => Kempt(c)
    BY <1>5 DEF CustomersInv
  <2>2. \A l \in Range(lines) : l.el # drawn + 1
    BY <1>1 DEF DeskShape
  <2>3. ASSUME NEW l \in Range(lines'), NEW m \in Range(lines'), l.el = m.el
        PROVE  l.code = m.code
    <3>1. CASE l.el = drawn + 1
      <4>1. \A k \in Range(lines') : k.el = drawn + 1 => k.code = code
        BY <1>5, <2>2 DEF NewTable
      <4> QED BY <2>3, <3>1, <4>1
    <3>2. CASE l.el # drawn + 1
      <4>1. PICK k \in Range(lines) : l.el = k.el /\ l.code = k.code
        BY <3>2 DEF NewTable
      <4>2. PICK j \in Range(lines) : m.el = j.el /\ m.code = j.code
        BY <2>3, <3>2 DEF NewTable
      <4>3. k.el = j.el => k.code = j.code
        BY <2>1 DEF NamesRight
      <4> QED BY <2>3, <4>1, <4>2, <4>3
    <3> QED BY <3>1, <3>2
  <2>4. ASSUME NEW s \in Asks, ask'[s].at # "idle", ask'[s].kind # "create"
        PROVE  /\ ask'[s].el \in Nat /\ ask'[s].el <= drawn'
               /\ \A m \in Range(lines') : m.el = ask'[s].el => m.code = ask'[s].code
    <3>1. ask[s].at # "idle" /\ ask[s].kind # "create" /\ ask'[s].el = ask[s].el /\ ask'[s].code = ask[s].code
      <4>1. CASE s = r
        BY <1>2, <2>4, <4>1
      <4>2. CASE s # r
        BY <1>2, <2>4, <4>2
      <4> QED BY <4>1, <4>2
    <3>2. /\ ask[s].el \in Nat /\ ask[s].el <= drawn
          /\ \A l \in Range(lines) : l.el = ask[s].el => l.code = ask[s].code
      BY <2>1, <3>1 DEF NamesRight
    <3>3. drawn \in Nat /\ (drawn' = drawn \/ drawn' = drawn + 1)
      BY <1>1 DEF DeskShape, NewTable
    <3>4. ask[s].el <= drawn' /\ ask[s].el # drawn + 1
      BY <3>2, <3>3
    <3>5. ASSUME NEW m \in Range(lines'), m.el = ask[s].el
          PROVE  m.code = ask[s].code
      <4>1. PICK k \in Range(lines) : m.el = k.el /\ m.code = k.code
        BY <3>4, <3>5 DEF NewTable
      <4> QED BY <3>2, <3>5, <4>1
    <3> QED BY <3>1, <3>2, <3>4, <3>5
  <2>5. NamesRight'
    BY <1>5, <2>3, <2>4 DEF NamesRight, OthersShown
  <2>6. ASSUME NEW c, c \notin doubtful', c # code
        PROVE  Kempt(c)'
    <3>1. Kempt(c)
      BY <2>1, <2>6
    <3>2. r \notin Edits(c) /\ r \notin Births(c) /\ r \notin Edits(c)' /\ r \notin Births(c)'
      BY <1>2, <2>6 DEF Edits, Births
    <3>3. /\ Edits(c)' = Edits(c) /\ Births(c)' = Births(c)
          /\ \A s \in Edits(c) \cup Births(c) : ask'[s] = ask[s]
      BY <1>1, <3>2, OthersRequests DEF DeskShape
    <3>4. /\ (c \in DOMAIN desk') <=> (c \in DOMAIN desk)
          /\ c \in DOMAIN desk => desk'[c] = desk[c] /\ desk[c].code = c
      BY <1>5, <2>1, <2>6 DEF NamesRight, OthersShown
    <3>5. \A l \in Range(lines) : l.code = c =>
               \E m \in Range(lines') : m.el = l.el /\ m.code = c /\ m.nick = l.nick /\ m.on = l.on
      BY <1>5, <2>6 DEF OthersShown
    <3> QED BY <3>1, <3>3, <3>4, <3>5, OthersStayKempt
  <2> QED BY <1>5, <2>5, <2>6
<1> QED BY <1>4, <1>5 DEF CustomersInv

\* What went wrong about a customer is doubtful from then on; the switch is freed.
LEMMA FailedTable ==
  ASSUME DeskShape, NEW r \in Asks, Failed(r)
  PROVE  /\ NewTable(ask[r].code)
         /\ \A l \in Range(lines) : \E m \in Range(lines') : m.el = l.el /\ m.code = l.code /\ m.nick = l.nick /\ m.on = l.on
<1>1. DOMAIN lines' = DOMAIN lines /\ lines' = [i \in DOMAIN lines |-> lines'[i]]
  BY Zenon DEF Failed
<1>2. ASSUME NEW i \in DOMAIN lines
      PROVE  /\ LineForm(lines'[i]) /\ lines'[i].el = lines[i].el /\ lines'[i].code = lines[i].code
             /\ lines'[i].nick = lines[i].nick /\ lines'[i].on = lines[i].on
  <2>1. PICK old : old = lines[i]
    OBVIOUS
  <2>2. LineForm(old)
    BY <2>1 DEF DeskShape, Range
  <2>3. lines'[i] = IF ask[r].kind = "status" /\ lines[i].el = ask[r].el THEN [lines[i] EXCEPT !["busy"] = FALSE] ELSE lines[i]
    BY Zenon DEF Failed
  <2>4. CASE ask[r].kind = "status" /\ lines[i].el = ask[r].el
    <3>1. PICK new : new = [old EXCEPT !["busy"] = FALSE]
      OBVIOUS
    <3>2. lines'[i] = new
      BY <2>1, <2>3, <2>4, <3>1
    <3>3. /\ DOMAIN new = DOMAIN old /\ new["el"] = old["el"] /\ new["code"] = old["code"]
          /\ new["nick"] = old["nick"] /\ new["on"] = old["on"]
      BY <2>2, <3>1 DEF LineForm
    <3>4. LineForm(new) /\ new.el = old.el /\ new.code = old.code /\ new.nick = old.nick /\ new.on = old.on
      BY <2>2, <3>3 DEF LineForm
    <3> QED BY <2>1, <3>2, <3>4
  <2>5. CASE ~(ask[r].kind = "status" /\ lines[i].el = ask[r].el)
    BY <2>1, <2>2, <2>3, <2>5
  <2> QED BY <2>4, <2>5
<1>3. IsSeq(lines')
  BY <1>1, InPlaceRange DEF DeskShape
<1>4. ASSUME NEW m \in Range(lines')
      PROVE  LineForm(m) /\ \E l \in Range(lines) : m.el = l.el /\ m.code = l.code
  <2>1. PICK i \in DOMAIN lines : m = lines'[i]
    BY <1>1 DEF Range
  <2>2. lines[i] \in Range(lines)
    BY DEF Range
  <2> QED BY <1>2, <2>1, <2>2
<1>5. ASSUME NEW l \in Range(lines)
      PROVE  \E m \in Range(lines') : m.el = l.el /\ m.code = l.code /\ m.nick = l.nick /\ m.on = l.on
  <2>1. PICK i \in DOMAIN lines : l = lines[i]
    BY DEF Range
  <2>2. lines'[i] \in Range(lines')
    BY <1>1 DEF Range
  <2> QED BY <1>2, <2>1, <2>2
<1>6. drawn' = drawn
  BY DEF Failed
<1> QED BY <1>3, <1>4, <1>5, <1>6 DEF NewTable

LEMMA FailedKeeps ==
  ASSUME CustomersInv, NEW r \in Asks, ask[r].at # "idle", Failed(r), UNCHANGED customers,
         NEW q, ask' = [ask EXCEPT ![r] = q], AskForm(q),
         q.at # "idle" => q.kind = ask[r].kind /\ q.el = ask[r].el /\ q.code = ask[r].code
  PROVE  CustomersInv'
<1>1. DeskShape
  BY DEF CustomersInv
<1>2. UNCHANGED <<desk, drawn, strayed>> /\ doubtful' = doubtful \cup {ask[r].code}
  BY DEF Failed
<1>3. /\ NewTable(ask[r].code)
      /\ \A l \in Range(lines) : \E m \in Range(lines') : m.el = l.el /\ m.code = l.code /\ m.nick = l.nick /\ m.on = l.on
  BY <1>1, FailedTable
<1>4. ~strayed => \A c \in DOMAIN desk : desk[c].code = c
  BY DEF CustomersInv, NamesRight
<1>5. PICK code : code = ask[r].code
  OBVIOUS
<1>6. code \in doubtful' /\ doubtful \subseteq doubtful'
  BY <1>2, <1>5
<1>7. ~strayed => OthersShown(code)
  BY <1>2, <1>3, <1>4 DEF OthersShown
<1> QED BY <1>2, <1>3, <1>4, <1>5, <1>6, <1>7, PageKeeps

LEMMA TimesOutKeeps ==
  ASSUME CustomersInv, NEW r \in Asks, TimesOut(r)
  PROVE  CustomersInv'
<1>1. DeskShape /\ ask[r].at # "idle" /\ Failed(r) /\ UNCHANGED customers
  BY DEF CustomersInv, TimesOut
<1>2. PICK old : old = ask[r]
  OBVIOUS
<1>3. {"at", "kind", "code", "nick", "on", "version", "el", "row", "heard", "answer"} \subseteq DOMAIN old
  BY <1>1, <1>2 DEF DeskShape, AskForm
<1>4. PICK q : q = [old EXCEPT !["heard"] = FALSE]
  OBVIOUS
<1>5. ask' = [ask EXCEPT ![r] = [ask[r] EXCEPT !["heard"] = FALSE]]
  BY Zenon DEF TimesOut
<1>6. ask' = [ask EXCEPT ![r] = q]
  BY <1>2, <1>4, <1>5
<1>7. /\ DOMAIN q = DOMAIN old /\ q["at"] = old["at"] /\ q["kind"] = old["kind"]
      /\ q["el"] = old["el"] /\ q["code"] = old["code"]
  BY <1>3, <1>4
<1>8. AskForm(q) /\ q.kind = old.kind /\ q.el = old.el /\ q.code = old.code
  BY <1>3, <1>7 DEF AskForm
<1> QED BY <1>1, <1>2, <1>6, <1>8, FailedKeeps

LEMMA UnheardKeeps ==
  ASSUME CustomersInv, NEW r \in Asks, ask[r].at = "answered", ~ask[r].heard, ask' = [ask EXCEPT ![r] = Unasked],
         UNCHANGED <<customers, desk, lines, drawn, doubtful, strayed>>
  PROVE  CustomersInv'
<1>1. DeskShape
  BY DEF CustomersInv
<1>2. PICK code, q : code = ask[r].code /\ q = Unasked
  OBVIOUS
<1>3. q.at = "idle" /\ AskForm(q) /\ ask' = [ask EXCEPT ![r] = q]
  BY <1>2 DEF Unasked, AskForm
<1>4. NewTable(code)
  BY <1>1 DEF NewTable, DeskShape, IsSeq
<1>5. ASSUME ~strayed, code \notin doubtful
      PROVE  Kempt(code)'
  <2>1. Kempt(code)
    BY <1>5 DEF CustomersInv
  <2>2. ask'[r] = q /\ (\A s \in Asks : s # r => ask'[s] = ask[s])
    BY <1>1, <1>3 DEF DeskShape
  <2>3. r \notin Edits(code)
    BY <2>1 DEF Kempt
  <2>4. Edits(code)' = Edits(code) /\ \A s \in Edits(code) : ask'[s] = ask[s]
    <3>1. \A s \in Asks : s \in Edits(code)' <=> s \in Edits(code)
      BY <1>3, <2>2, <2>3 DEF Edits
    <3>2. Edits(code) \subseteq Asks /\ Edits(code)' \subseteq Asks
      BY DEF Edits
    <3> QED BY <2>2, <2>3, <3>1, <3>2
  <2>5. Births(code)' \subseteq Births(code) /\ \A s \in Births(code)' : ask'[s] = ask[s]
    BY <1>3, <2>2 DEF Births, Made
  <2>6. \A s \in Edits(code)' : ask'[s].heard /\ AnswerStands(ask[s])'
    BY <2>1, <2>4 DEF Kempt, AnswerStands
  <2>7. \A s \in Births(code)' : AnswerStands(ask[s])'
    BY <2>1, <2>5 DEF Kempt, AnswerStands
  <2>8. (There(code)' <=> There(code)) /\ (Shows(code)' <=> Shows(code)) /\ desk' = desk
    BY DEF There, Shows
  <2>9. \A s \in Edits(code)' : Counts(ask'[s]) =>
           code \in DOMAIN desk' /\ There(code)' /\ Births(code)' = {} /\ \E l \in Range(lines') : l.el = ask'[s].el /\ l.code = code
    BY <2>1, <2>4, <2>5, <2>8 DEF Kempt
  <2>10. code \in DOMAIN desk' /\ Edits(code)' = {} => Births(code)' = {} /\ Shows(code)'
    BY <2>1, <2>4, <2>5, <2>8 DEF Kempt
  <2>11. (\A s, t \in Edits(code)' : s = t) /\ (\A s, t \in Births(code)' : s = t) /\ (Births(code)' # {} => There(code)')
    BY <2>1, <2>4, <2>5, <2>8 DEF Kempt
  <2> QED BY <2>6, <2>7, <2>9, <2>10, <2>11 DEF Kempt
<1>6. ~strayed => \A c \in DOMAIN desk : desk[c].code = c
  BY DEF CustomersInv, NamesRight
<1>7. ~strayed => OthersShown(code)
  BY <1>6 DEF OthersShown
<1> QED BY <1>2, <1>3, <1>4, <1>5, <1>6, <1>7, PageKeeps

\* Once a request about a customer is over, the others that made one are as they were.
LEMMA OverIs ==
  ASSUME DeskShape, NEW r \in Asks, ask' = [ask EXCEPT ![r] = Unasked], NEW code, Kempt(code)
  PROVE  /\ r \in Edits(code) => Edits(code)' = {} /\ Births(code)' = Births(code)
                                 /\ \A s \in Births(code) : ask'[s] = ask[s]
         /\ r \in Births(code) => Births(code)' = {} /\ Edits(code)' = Edits(code)
                                  /\ \A s \in Edits(code) : ask'[s] = ask[s]
<1>1. ask'[r] = Unasked /\ (\A s \in Asks : s # r => ask'[s] = ask[s]) /\ Unasked.at = "idle"
  BY DEF DeskShape, Unasked
<1>2. Edits(code) \subseteq Asks /\ Births(code) \subseteq Asks /\ Edits(code)' \subseteq Asks /\ Births(code)' \subseteq Asks
  BY DEF Edits, Births
<1>3. r \notin Edits(code)' /\ r \notin Births(code)'
  BY <1>1 DEF Edits, Births
<1>4. \A s \in Asks : s # r => (s \in Edits(code)' <=> s \in Edits(code)) /\ (s \in Births(code)' <=> s \in Births(code))
  BY <1>1 DEF Edits, Births, Made
<1>5. ~(r \in Edits(code) /\ r \in Births(code))
  BY DEF Edits, Births
<1>6. (\A s, t \in Edits(code) : s = t) /\ (\A s, t \in Births(code) : s = t)
  BY DEF Kempt
<1> QED BY <1>1, <1>2, <1>3, <1>4, <1>5, <1>6

LEMMA RemovesKeeps ==
  ASSUME CustomersInv, NEW r \in Asks, ask[r].at = "answered", ask[r].kind = "delete", Removes(ask[r]),
         ask' = [ask EXCEPT ![r] = Unasked], UNCHANGED customers
  PROVE  CustomersInv'
<1>1. DeskShape
  BY DEF CustomersInv
<1>2. PICK code, el, q : code = ask[r].code /\ el = ask[r].el /\ q = Unasked
  OBVIOUS
<1>3. q.at = "idle" /\ AskForm(q) /\ ask' = [ask EXCEPT ![r] = q]
  BY <1>2 DEF Unasked, AskForm
<1>4. /\ desk' = [c \in DOMAIN desk \ {code} |-> desk[c]]
      /\ lines' = IF Same(el) = {} THEN lines ELSE RemoveAt(lines, CHOOSE i \in Same(el) : TRUE)
      /\ UNCHANGED <<drawn, doubtful, strayed>>
  BY <1>2 DEF Removes
<1>5. /\ IsSeq(lines') /\ Range(lines') \subseteq Range(lines)
      /\ \A l \in Range(lines) : l.el # el => l \in Range(lines')
  <2>1. CASE Same(el) = {}
    BY <1>1, <1>4, <2>1 DEF DeskShape, IsSeq
  <2>2. CASE Same(el) # {}
    <3>1. PICK i : i = CHOOSE j \in Same(el) : TRUE
      OBVIOUS
    <3>2. i \in DOMAIN lines /\ lines[i].el = el /\ lines' = RemoveAt(lines, i)
      BY <1>4, <2>2, <3>1 DEF Same
    <3>3. /\ IsSeq(lines') /\ Range(lines') \subseteq Range(lines)
          /\ \A l \in Range(lines) : l # lines[i] => l \in Range(lines')
      BY <1>1, <3>2, RemoveAtRange DEF DeskShape
    <3> QED BY <3>2, <3>3
  <2> QED BY <2>1, <2>2
<1>6. NewTable(code)
  BY <1>1, <1>4, <1>5 DEF NewTable, DeskShape
<1>7. ASSUME ~strayed'
      PROVE  OthersShown(code) /\ (code \notin doubtful' => Kempt(code)')
  <2>1. NamesRight
    BY <1>4, <1>7 DEF CustomersInv
  <2>2. \A c \in DOMAIN desk' : desk'[c].code = c
    BY <1>4, <2>1 DEF NamesRight
  <2>3. \A l \in Range(lines) : l.el = el => l.code = code
    BY <1>2, <2>1 DEF NamesRight
  <2>4. ASSUME code \notin doubtful'
        PROVE  Kempt(code)'
    <3>1. Kempt(code)
      BY <1>4, <1>7, <2>4 DEF CustomersInv
    <3>2. r \in Edits(code)
      BY <1>2 DEF Edits
    <3>3. Edits(code)' = {} /\ Births(code)' = Births(code) /\ \A s \in Births(code) : ask'[s] = ask[s]
      BY <1>1, <3>1, <3>2, OverIs
    <3>4. code \notin DOMAIN desk'
      BY <1>4
    <3>5. /\ \A s \in Births(code)' : AnswerStands(ask[s])'
          /\ \A s, t \in Births(code)' : s = t
          /\ Births(code)' # {} => There(code)'
      BY <3>1, <3>3 DEF Kempt, AnswerStands, There
    <3> QED BY <3>3, <3>4, <3>5 DEF Kempt
  <2> QED BY <1>4, <1>5, <2>2, <2>3, <2>4 DEF OthersShown
<1>8. ask[r].at # "idle" /\ doubtful \subseteq doubtful' /\ (~strayed' => ~strayed)
  BY <1>4
<1>9. q.at # "idle" => q.kind = ask[r].kind /\ q.el = ask[r].el /\ q.code = code
  BY <1>3
<1> QED BY <1>2, <1>3, <1>6, <1>7, <1>8, <1>9, PageKeeps

LEMMA TakesKeeps ==
  ASSUME CustomersInv, NEW r \in Asks, ask[r].at = "answered", ask[r].kind # "delete",
         NEW answer, answer = ask[r].answer, answer.code # Refused.code, Takes(r, answer),
         ask' = [ask EXCEPT ![r] = Unasked], UNCHANGED customers
  PROVE  CustomersInv'
<1>1. DeskShape
  BY DEF CustomersInv
<1>2. PICK code, el, q : code = ask[r].code /\ el = ask[r].el /\ q = Unasked
  OBVIOUS
<1>3. q.at = "idle" /\ AskForm(q) /\ ask' = [ask EXCEPT ![r] = q]
  BY <1>2 DEF Unasked, AskForm
<1>4. drawn' = drawn + 1 /\ doubtful' = doubtful /\ (~strayed' => ~strayed /\ answer.code = code)
  BY <1>2 DEF Takes
<1>5. PICK row : row = clientRow(answer, drawn + 1)
  OBVIOUS
<1>6. LineForm(row) /\ row.el = drawn + 1 /\ row.code = answer.code /\ row.nick = answer.nick /\ row.on = answer.on
  BY <1>5 DEF clientRow, LineForm
<1>7. /\ NewTable(code)
      /\ ~strayed => \A l \in Range(lines) : l.code # code => l \in Range(lines')
      /\ (ask[r].kind = "create" \/ \E l \in Range(lines) : l.el = el) => row \in Range(lines')
  <2>1. CASE ask[r].kind = "create"
    <3>1. lines' = <<row>> \o lines
      BY <1>4, <1>5, <2>1 DEF Takes
    <3>2. IsSeq(lines') /\ Range(lines') = Range(lines) \cup {row}
      BY <1>1, <3>1, OnTopRange DEF DeskShape
    <3>3. NewTable(code)
      BY <1>1, <1>4, <1>6, <3>2 DEF NewTable, DeskShape
    <3> QED BY <3>2, <3>3
  <2>2. CASE ask[r].kind # "create"
    <3>1. lines' = [i \in DOMAIN lines |-> IF lines[i].el = el THEN row ELSE lines[i]]
      BY <1>2, <1>4, <1>5, <2>2 DEF Takes
    <3>2. IsSeq(lines')
      BY <1>1, <3>1, InPlaceRange DEF DeskShape
    <3>3. \A m \in Range(lines') : m = row \/ m \in Range(lines)
      BY <3>1 DEF Range
    <3>4. NewTable(code)
      BY <1>1, <1>4, <1>6, <3>2, <3>3 DEF NewTable, DeskShape
    <3>5. \A l \in Range(lines) : l.el # el => l \in Range(lines')
      BY <3>1 DEF Range
    <3>6. ~strayed => \A l \in Range(lines) : l.el = el => l.code = code
      BY <1>2, <2>2 DEF CustomersInv, NamesRight
    <3>7. (\E l \in Range(lines) : l.el = el) => row \in Range(lines')
      BY <3>1 DEF Range
    <3> QED BY <2>2, <3>4, <3>5, <3>6, <3>7
  <2> QED BY <2>1, <2>2
<1>8. ASSUME ~strayed'
      PROVE  OthersShown(code) /\ (code \notin doubtful' => Kempt(code)')
  <2>1. NamesRight /\ ~strayed /\ answer.code = code
    BY <1>4, <1>8 DEF CustomersInv
  <2>2. desk' = [d \in DOMAIN desk \cup {code} |-> IF d = code THEN answer ELSE desk[d]]
    BY <1>2, <2>1 DEF Takes, Kept
  <2>3. \A c \in DOMAIN desk' : desk'[c].code = c
    BY <2>1, <2>2 DEF NamesRight
  <2>4. ASSUME code \notin doubtful'
        PROVE  Kempt(code)'
    <3>1. Kempt(code)
      BY <1>4, <2>1, <2>4 DEF CustomersInv
    <3>2. ask[r].answer = answer /\ Made(ask[r]) /\ Counts(ask[r])
      BY DEF Made, Counts
    <3>3. AnswerStands(ask[r]) => answer \in Range(customers')
      BY <1>2, <2>1 DEF AnswerStands
    <3>4. row \in Range(lines') /\ answer \in Range(customers') => Shows(code)'
      BY <1>6, <2>1, <2>2 DEF Shows
    <3>5. CASE ask[r].kind = "create"
      <4>1. r \in Births(code)
        BY <1>2, <3>2, <3>5 DEF Births
      <4>2. Births(code)' = {} /\ Edits(code)' = Edits(code) /\ \A s \in Edits(code) : ask'[s] = ask[s]
        BY <1>1, <3>1, <4>1, OverIs
      <4>3. Shows(code)'
        BY <1>7, <3>1, <3>3, <3>4, <3>5, <4>1 DEF Kempt
      <4>4. \A s \in Edits(code)' : ~Counts(ask'[s])
        BY <3>1, <4>1, <4>2 DEF Kempt
      <4>5. (\A s \in Edits(code)' : ask'[s].heard /\ AnswerStands(ask[s])') /\ \A s, t \in Edits(code)' : s = t
        BY <3>1, <4>2 DEF Kempt, AnswerStands
      <4> QED BY <4>2, <4>3, <4>4, <4>5 DEF Kempt
    <3>6. CASE ask[r].kind # "create"
      <4>1. r \in Edits(code)
        BY <1>2, <3>6 DEF Edits
      <4>2. Births(code) = {} /\ \E l \in Range(lines) : l.el = el
        BY <1>2, <3>1, <3>2, <4>1 DEF Kempt
      <4>3. Edits(code)' = {} /\ Births(code)' = {}
        BY <1>1, <3>1, <4>1, <4>2, OverIs
      <4>4. Shows(code)'
        BY <1>7, <3>1, <3>3, <3>4, <4>1, <4>2 DEF Kempt
      <4> QED BY <4>3, <4>4 DEF Kempt
    <3> QED BY <3>5, <3>6
  <2>5. \A c : c # code =>
           ((c \in DOMAIN desk') <=> (c \in DOMAIN desk)) /\ (c \in DOMAIN desk => desk'[c] = desk[c])
    BY <2>2
  <2> QED BY <1>7, <2>1, <2>3, <2>4, <2>5 DEF OthersShown
<1>9. ask[r].at # "idle" /\ doubtful \subseteq doubtful' /\ (~strayed' => ~strayed)
  BY <1>4
<1>10. q.at # "idle" => q.kind = ask[r].kind /\ q.el = ask[r].el /\ q.code = code
  BY <1>3
<1>11. NewTable(code)
  BY <1>7
<1> QED BY <1>2, <1>3, <1>8, <1>9, <1>10, <1>11, PageKeeps

LEMMA HearsKeeps ==
  ASSUME CustomersInv, NEW r \in Asks, Hears(r)
  PROVE  CustomersInv'
<1>1. ask[r].at = "answered" /\ ask' = [ask EXCEPT ![r] = Unasked] /\ UNCHANGED customers
  BY DEF Hears
<1>2. CASE ~ask[r].heard
  BY <1>1, <1>2, UnheardKeeps DEF Hears
<1>3. CASE ask[r].heard /\ ask[r].answer.code = Refused.code
  <2>1. PICK q : q = Unasked
    OBVIOUS
  <2>2. q.at = "idle" /\ AskForm(q)
    BY <2>1 DEF Unasked, AskForm
  <2>3. Failed(r)
    BY <1>3 DEF Hears
  <2> QED BY <1>1, <2>1, <2>2, <2>3, FailedKeeps
<1>4. CASE ask[r].heard /\ ask[r].answer.code # Refused.code /\ ask[r].kind = "delete"
  BY <1>1, <1>4, RemovesKeeps DEF Hears
<1>5. CASE ask[r].heard /\ ask[r].answer.code # Refused.code /\ ask[r].kind # "delete"
  <2>1. PICK answer : answer = ask[r].answer
    OBVIOUS
  <2>2. Takes(r, answer)
    BY <1>5, <2>1 DEF Hears
  <2> QED BY <1>1, <1>5, <2>1, <2>2, TakesKeeps
<1> QED BY <1>2, <1>3, <1>4, <1>5

LEMMA CustomersStepKeepsInv == CustomersInv /\ [DeskNext]_deskVars => CustomersInv'
<1> SUFFICES ASSUME CustomersInv, [DeskNext]_deskVars PROVE CustomersInv'
  OBVIOUS
<1>1. CASE DeskNext
  BY <1>1, AsksKeep, ServerStepKeeps, HearsKeeps, TimesOutKeeps DEF DeskNext
<1>2. CASE UNCHANGED deskVars
  <2>1. UNCHANGED <<customers, desk, lines, drawn, ask, doubtful, strayed>>
    BY <1>2 DEF deskVars
  <2>2. DeskShape' <=> DeskShape
    BY <2>1 DEF DeskShape, IsSeq
  <2>3. NamesRight' <=> NamesRight
    BY <2>1 DEF NamesRight
  <2>4. \A c : Kempt(c)' <=> Kempt(c)
    BY <2>1 DEF Kempt, Edits, Births, There, AnswerStands, Shows
  <2> QED BY <2>1, <2>2, <2>3, <2>4 DEF CustomersInv
<1> QED BY <1>1, <1>2

\* The row of a customer nothing is under way about is the tab's, and the table says the same: for any
\* customers, names, requests crossing, failing or not heard (scripts/admin/clients.ts over the endpoints).
THEOREM CustomersInvHolds == DeskSpec => []CustomersInv
<1>1. DeskInit => CustomersInv
  BY DeskInitInv
<1> QED BY <1>1, CustomersStepKeepsInv, PTL DEF DeskSpec

\* As long as no answer was about somebody else, the page shows of a customer no request is under way about, and
\* nothing went wrong about, what the tab says, and holds the version the next request is compared with.
THEOREM DeskInStepHolds == DeskSpec => []DeskInStep
<1>1. CustomersInv => DeskInStep
  <2> SUFFICES ASSUME CustomersInv, ~strayed, NEW c \in DOMAIN desk \ doubtful, About(c) = {}
               PROVE  /\ \E i \in DOMAIN customers : customers[i] = desk[c]
                      /\ \E i \in DOMAIN lines : lines[i].code = c /\ lines[i].nick = desk[c].nick /\ lines[i].on = desk[c].on
    BY DEF DeskInStep
  <2>1. Edits(c) = {}
    BY DEF Edits, About
  <2>2. Shows(c)
    BY <2>1 DEF CustomersInv, Kempt
  <2> QED BY <2>2 DEF Shows, Range
<1> QED BY <1>1, CustomersInvHolds, PTL

=============================================================================
