------------------------ MODULE ThreadSelectorProofs ------------------------
(***************************************************************************)
(* Proofs about the thread selector, for any threads, checkpoints and      *)
(* budgets: the lists never name a thread twice, the selected index is in  *)
(* the filtered list, and what is drawn is what Enter and Ctrl+D act on.   *)
(***************************************************************************)
EXTENDS ThreadSelector, FiniteSetTheorems, SequenceTheorems, WellFoundedInduction, TLAPS

-----------------------------------------------------------------------------
(* The operators on rows *)

\* Lists of rows that name no thread twice.
Rows == {rows \in Seq(Row) : \A i, j \in DOMAIN rows : rows[i].id = rows[j].id => i = j}

\* A strict order of K in which any two are comparable.
Orders(K, ahead) ==
  /\ \A i \in K : <<i, i>> \notin ahead
  /\ \A i, j, k \in K : <<i, j>> \in ahead /\ <<j, k>> \in ahead => <<i, k>> \in ahead
  /\ \A i, j \in K : i # j => <<i, j>> \in ahead \/ <<j, i>> \in ahead

\* The places of the elements of a finite set, in such an order, are 1 to its size,
\* each taken once.
LEMMA PlacesBijective ==
  ASSUME NEW K, IsFiniteSet(K), NEW ahead, Orders(K, ahead)
  PROVE  [i \in K |-> 1 + Cardinality({j \in K : <<j, i>> \in ahead})]
           \in Bijection(K, 1 .. Cardinality(K))
<1> DEFINE before(i) == {j \in K : <<j, i>> \in ahead}
           place == [i \in K |-> 1 + Cardinality(before(i))]
           n == Cardinality(K)
<1>1. n \in Nat
  BY FS_CardinalityType
<1>2. \A i \in K : IsFiniteSet(before(i)) /\ Cardinality(before(i)) \in Nat /\ Cardinality(before(i)) < n
  <2> SUFFICES ASSUME NEW i \in K
               PROVE  IsFiniteSet(before(i)) /\ Cardinality(before(i)) \in Nat /\ Cardinality(before(i)) < n
    OBVIOUS
  <2>1. before(i) \in SUBSET K /\ i \notin before(i)
    BY DEF Orders
  <2>2. IsFiniteSet(before(i)) /\ Cardinality(before(i)) <= n /\ (n = Cardinality(before(i)) => K = before(i))
    BY <2>1, FS_Subset
  <2>3. Cardinality(before(i)) \in Nat
    BY <2>2, FS_CardinalityType
  <2>4. K # before(i)
    BY <2>1
  <2> QED
    BY <1>1, <2>2, <2>3, <2>4
<1>3. place \in [K -> 1 .. n]
  BY <1>1, <1>2
<1>4. ASSUME NEW i \in K, NEW j \in K, <<i, j>> \in ahead
      PROVE  place[i] < place[j]
  <2>1. before(i) \in SUBSET before(j)
    BY <1>4 DEF Orders
  <2>2. i \in before(j) /\ i \notin before(i)
    BY <1>4 DEF Orders
  <2>3. Cardinality(before(i)) <= Cardinality(before(j))
        /\ (Cardinality(before(j)) = Cardinality(before(i)) => before(j) = before(i))
    BY <1>2, <2>1, FS_Subset
  <2>4. before(j) # before(i)
    BY <2>2
  <2>5. place[i] = 1 + Cardinality(before(i)) /\ place[j] = 1 + Cardinality(before(j))
    OBVIOUS
  <2>6. Cardinality(before(i)) \in Nat /\ Cardinality(before(j)) \in Nat
    BY <1>2
  <2> HIDE DEF before, place
  <2> QED
    BY <2>3, <2>4, <2>5, <2>6
<1>5. place \in Injection(K, 1 .. n)
  <2>1. \A i, j \in K : place[i] = place[j] => i = j
    <3> SUFFICES ASSUME NEW i \in K, NEW j \in K, i # j
                 PROVE  place[i] # place[j]
      OBVIOUS
    <3>1. <<i, j>> \in ahead \/ <<j, i>> \in ahead
      BY DEF Orders
    <3>2. place[i] \in Nat /\ place[j] \in Nat
      BY <1>1, <1>3
    <3> HIDE DEF place
    <3> QED
      BY <1>4, <3>1, <3>2
  <2> HIDE DEF place
  <2> QED
    BY <1>3, <2>1 DEF Injection, IsInjective
<1>6. IsFiniteSet(1 .. n) /\ Cardinality(1 .. n) = n
  BY <1>1, FS_Interval
<1>7. place \in Surjection(K, 1 .. n)
  <2> HIDE DEF place
  <2> QED
    BY <1>5, <1>6, FS_Injection
<1> QED
  BY <1>5, <1>7 DEF Bijection

\* Rows put in an order are those rows, each once.
LEMMA ArrangedRows ==
  ASSUME NEW rows \in Rows, NEW K \in SUBSET DOMAIN rows, NEW ahead, Orders(K, ahead)
  PROVE  /\ Arranged(rows, K, ahead) \in Rows
         /\ Len(Arranged(rows, K, ahead)) = Cardinality(K)
<1> DEFINE place == [i \in K |-> 1 + Cardinality({j \in K : <<j, i>> \in ahead})]
           n == Cardinality(K)
           at(k) == CHOOSE i \in K : 1 + Cardinality({j \in K : <<j, i>> \in ahead}) = k
           s == Arranged(rows, K, ahead)
<1>1. rows \in Seq(Row) /\ DOMAIN rows = 1 .. Len(rows) /\ Len(rows) \in Nat
  BY LenProperties DEF Rows
<1>2. IsFiniteSet(K) /\ n \in Nat
  <2>1. IsFiniteSet(1 .. Len(rows))
    BY <1>1, FS_Interval
  <2>2. IsFiniteSet(K)
    BY <1>1, <2>1, FS_Subset
  <2> QED
    BY <2>2, FS_CardinalityType
<1>3. place \in Surjection(K, 1 .. n)
  BY <1>2, PlacesBijective DEF Bijection
<1>4. \A k \in 1 .. n : at(k) \in K /\ place[at(k)] = k
  <2> SUFFICES ASSUME NEW k \in 1 .. n
               PROVE  at(k) \in K /\ place[at(k)] = k
    OBVIOUS
  <2>1. PICK i \in K : place[i] = k
    <3> HIDE DEF place
    <3> QED
      BY <1>3 DEF Surjection
  <2> QED
    BY <2>1
<1>5. s = [k \in 1 .. n |-> rows[at(k)]]
  BY DEF Arranged
<1> HIDE DEF place, at, s
<1>6. s \in Seq(Row) /\ Len(s) = n /\ DOMAIN s = 1 .. n
  <2>1. \A k \in 1 .. n : rows[at(k)] \in Row
    BY <1>1, <1>4, ElementOfSeq
  <2>2. s \in [1 .. n -> Row]
    BY <1>5, <2>1
  <2> QED
    BY <1>2, <2>2, SeqDef, LenProperties
<1>7. ASSUME NEW k \in 1 .. n, NEW l \in 1 .. n, s[k].id = s[l].id
      PROVE  k = l
  <2>1. at(k) \in K /\ at(l) \in K /\ place[at(k)] = k /\ place[at(l)] = l
    BY <1>4
  <2>2. rows[at(k)].id = rows[at(l)].id
    BY <1>5, <1>7
  <2>3. at(k) = at(l)
    BY <2>1, <2>2 DEF Rows
  <2> QED
    BY <2>1, <2>3
<1> QED
  BY <1>6, <1>7 DEF Rows, s

\* The first of two indices comes first: what _apply_sort and the comprehensions keep.
LEMMA KeptRows ==
  ASSUME NEW rows \in Rows, NEW S
  PROVE  Kept(rows, S) \in Rows
<1> DEFINE K == {i \in DOMAIN rows : rows[i].id \in S}
           ahead == {p \in Pairs(rows) : p[1] < p[2]}
<1>1. DOMAIN rows \in SUBSET Nat
  BY LenProperties DEF Rows
<1>2. \A i, j : <<i, j>> \in ahead <=> i \in DOMAIN rows /\ j \in DOMAIN rows /\ i < j
  BY DEF Pairs
<1> HIDE DEF ahead
<1>3. Orders(K, ahead)
  BY <1>1, <1>2 DEF Orders
<1>4. K \in SUBSET DOMAIN rows
  OBVIOUS
<1> HIDE DEF K
<1>5. Arranged(rows, K, ahead) \in Rows
  BY <1>3, <1>4, ArrangedRows
<1> QED
  BY <1>5 DEF Kept, K, ahead

LEMMA NewestRows ==
  ASSUME NEW rows \in Rows, NEW updated
  PROVE  Newest(rows, updated) \in Rows
<1> DEFINE key(i) == IF updated THEN rows[i].at ELSE rows[i].id
           ahead == {p \in Pairs(rows) :
                       key(p[1]) > key(p[2]) \/ (key(p[1]) = key(p[2]) /\ p[1] < p[2])}
<1>1. DOMAIN rows \in SUBSET Nat
  BY LenProperties DEF Rows
<1>2. \A i \in DOMAIN rows : key(i) \in Nat
  <2> SUFFICES ASSUME NEW i \in DOMAIN rows
               PROVE  key(i) \in Nat
    OBVIOUS
  <2>1. rows[i] \in Row
    BY LenProperties, ElementOfSeq DEF Rows
  <2> QED
    BY <2>1, ThreadAssumption DEF Row, Thread
<1>3. \A i, j : <<i, j>> \in ahead <=>
        /\ i \in DOMAIN rows /\ j \in DOMAIN rows
        /\ key(i) > key(j) \/ (key(i) = key(j) /\ i < j)
  BY DEF Pairs
<1> HIDE DEF ahead, key
<1>4. Orders(DOMAIN rows, ahead)
  BY <1>1, <1>2, <1>3 DEF Orders
<1>5. Arranged(rows, DOMAIN rows, ahead) \in Rows
  BY <1>4, ArrangedRows
<1> QED
  BY <1>5 DEF Newest, ahead, key

LEMMA MatchRows ==
  ASSUME NEW rows \in Rows, NEW searched, NEW updated
  PROVE  Match(rows, searched, updated) \in Rows
BY KeptRows, NewestRows DEF Match

LEMMA ListedRows ==
  ASSUME db \in [Thread -> Nat], NEW S \in SUBSET Thread, NEW updated
  PROVE  Listed(S, updated) \in Rows
<1> DEFINE R == RowsOf(S)
           n == Cardinality(R)
<1>1. \A r \in R : r \in Row /\ r.id \in Thread /\ r.at = db[r.id]
  BY DEF RowsOf, Row
<1>2. IsFiniteSet(R)
  <2> DEFINE T == {u \in S : db[u] > 0}
  <2>1. IsFiniteSet(Thread)
    BY ThreadAssumption, FS_Interval DEF Thread
  <2>2. IsFiniteSet(T)
    BY <2>1, FS_Subset
  <2>3. [t \in T |-> [id |-> t, at |-> db[t]]] \in Surjection(T, R)
    BY DEF Surjection, RowsOf
  <2> QED
    BY <2>2, <2>3, FS_Surjection
<1> HIDE DEF R
<1>3. n \in Nat /\ \E f \in [1 .. n -> R] : IsInjective(f)
  BY <1>2, FS_CardinalityType DEF ExistsBijection, Bijection, Injection
<1>4. SetToSeq(R) \in [1 .. n -> R] /\ IsInjective(SetToSeq(R))
  BY <1>3 DEF SetToSeq
<1> DEFINE s == SetToSeq(R)
<1> HIDE DEF s
<1>5. s \in Seq(Row) /\ DOMAIN s = 1 .. n
  <2>1. s \in [1 .. n -> Row]
    BY <1>1, <1>4 DEF s
  <2> QED
    BY <1>3, <2>1, SeqDef
<1>6. ASSUME NEW i \in 1 .. n, NEW j \in 1 .. n, s[i].id = s[j].id
      PROVE  i = j
  <2>1. s[i] \in R /\ s[j] \in R
    BY <1>4 DEF s
  <2>2. s[i] = s[j]
    BY <1>1, <1>6, <2>1 DEF Row
  <2> QED
    BY <1>4, <1>5, <2>2 DEF IsInjective, s
<1>7. s \in Rows
  BY <1>5, <1>6 DEF Rows
<1> QED
  BY <1>7, NewestRows DEF Listed, R, s

\* No list of rows is longer than there are threads.
LEMMA RowsBounded ==
  ASSUME NEW rows \in Rows
  PROVE  Len(rows) \in Nat /\ Len(rows) <= N
<1>1. rows \in Seq(Row) /\ DOMAIN rows = 1 .. Len(rows) /\ Len(rows) \in Nat
  BY LenProperties DEF Rows
<1> DEFINE f == [i \in 1 .. Len(rows) |-> rows[i].id]
<1>2. f \in [1 .. Len(rows) -> 1 .. N]
  <2>1. \A i \in 1 .. Len(rows) : rows[i] \in Row
    BY <1>1, ElementOfSeq
  <2> QED
    BY <2>1 DEF Row, Thread
<1>3. f \in Injection(1 .. Len(rows), 1 .. N)
  BY <1>1, <1>2 DEF Rows, Injection, IsInjective
<1>4. IsFiniteSet(1 .. N) /\ Cardinality(1 .. N) = N
  <2>1. N \in Int /\ N >= 0
    BY ThreadAssumption
  <2>2. IsFiniteSet(1 .. N) /\ Cardinality(1 .. N) = IF 1 > N THEN 0 ELSE N - 1 + 1
    BY <2>1, FS_Interval
  <2> QED
    BY <2>1, <2>2
<1>5. Cardinality(1 .. Len(rows)) = Len(rows)
  BY <1>1, FS_Interval
<1> QED
  BY <1>1, <1>3, <1>4, <1>5, FS_Injection

LEMMA NoRows == <<>> \in Rows
BY EmptySeq DEF Rows

\* An index in the rows.
InRange(i, rows) == i \in Nat /\ (i < Len(rows) \/ (rows = <<>> /\ i = 0))

LEMMA IndexInRange ==
  ASSUME NEW rows \in Rows, NEW t, NEW other, InRange(other, rows)
  PROVE  InRange(IndexOf(rows, t, other), rows)
<1>1. DOMAIN rows = 1 .. Len(rows) /\ Len(rows) \in Nat
  BY LenProperties DEF Rows
<1> DEFINE i == CHOOSE i \in DOMAIN rows : rows[i].id = t
<1>2. CASE \E k \in DOMAIN rows : rows[k].id = t
  <2>1. i \in 1 .. Len(rows)
    BY <1>1, <1>2
  <2>2. IndexOf(rows, t, other) = i - 1
    BY <1>2 DEF IndexOf
  <2> HIDE DEF i
  <2> QED
    BY <1>1, <2>1, <2>2 DEF InRange
<1>3. CASE ~\E k \in DOMAIN rows : rows[k].id = t
  BY <1>3 DEF IndexOf
<1> QED
  BY <1>2, <1>3

LEMMA ZeroInRange ==
  ASSUME NEW rows \in Rows
  PROVE  InRange(0, rows)
<1>1. rows \in Seq(Row) /\ Len(rows) \in Nat
  BY LenProperties DEF Rows
<1> QED
  BY <1>1, EmptySeq DEF InRange

LEMMA SyncedInRange ==
  ASSUME NEW rows \in Rows
  PROVE  InRange(Synced(rows), rows)
BY ZeroInRange, IndexInRange DEF Synced

LEMMA IdsOfRows ==
  ASSUME NEW rows \in Rows
  PROVE  Ids(rows) \in Seq(Thread) /\ Len(Ids(rows)) = Len(rows)
<1>1. rows \in Seq(Row) /\ DOMAIN rows = 1 .. Len(rows) /\ Len(rows) \in Nat
  BY LenProperties DEF Rows
<1>2. Ids(rows) \in [1 .. Len(rows) -> Thread]
  <2>1. \A i \in 1 .. Len(rows) : rows[i] \in Row
    BY <1>1, ElementOfSeq
  <2> QED
    BY <1>1, <2>1 DEF Ids, Row
<1> QED
  BY <1>1, <1>2, SeqDef, LenProperties

LEMMA ModuloInRange ==
  ASSUME NEW a \in Nat, NEW b \in Nat, b > 0
  PROVE  a % b \in Nat /\ a % b < b
OBVIOUS

\* Some thread has the newest checkpoint of all.
LEMMA NewestCheckpoint ==
  ASSUME db \in [Thread -> Nat]
  PROVE  Max({db[t] : t \in Thread}) \in Nat
<1> DEFINE newer(u) == {t \in Thread : db[t] > db[u]}
           ranks == {Cardinality(newer(u)) : u \in Thread}
<1>1. IsFiniteSet(Thread)
  BY ThreadAssumption, FS_Interval DEF Thread
<1>2. \A u \in Thread : IsFiniteSet(newer(u)) /\ Cardinality(newer(u)) \in Nat
  <2>1. \A u \in Thread : newer(u) \in SUBSET Thread
    OBVIOUS
  <2> HIDE DEF newer
  <2>2. \A u \in Thread : IsFiniteSet(newer(u))
    BY <1>1, <2>1, FS_Subset
  <2> QED
    BY <2>2, FS_CardinalityType
<1>3. ranks \in SUBSET Nat /\ ranks # {}
  BY <1>2, ThreadAssumption
<1> HIDE DEF ranks
<1>4. PICK x \in ranks : \A y \in ranks : <<y, x>> \notin OpToRel(<, Nat)
  BY <1>3, NatLessThanWellFounded, WFMin
<1>5. \A y \in ranks : ~ (y < x)
  BY <1>3, <1>4, Zenon DEF OpToRel
<1>6. PICK u \in Thread : x = Cardinality(newer(u))
  BY DEF ranks
<1>7. \A w \in Thread : ~ (Cardinality(newer(w)) < Cardinality(newer(u)))
  BY <1>5, <1>6 DEF ranks
<1>8. \A w \in Thread : db[u] >= db[w]
  <2> SUFFICES ASSUME NEW w \in Thread, db[w] > db[u]
               PROVE  FALSE
    OBVIOUS
  <2>1. newer(w) \in SUBSET newer(u) /\ w \in newer(u) /\ w \notin newer(w)
    OBVIOUS
  <2>2. Cardinality(newer(w)) <= Cardinality(newer(u))
        /\ (Cardinality(newer(u)) = Cardinality(newer(w)) => newer(u) = newer(w))
    BY <1>2, <2>1, FS_Subset
  <2>3. Cardinality(newer(w)) \in Nat /\ Cardinality(newer(u)) \in Nat
    BY <1>2
  <2>4. newer(w) # newer(u)
    BY <2>1
  <2> HIDE DEF newer
  <2> QED
    BY <1>7, <2>2, <2>3, <2>4
<1>9. \E m \in {db[t] : t \in Thread} : \A y \in {db[t] : t \in Thread} : m >= y
  BY <1>8
<1> QED
  BY <1>9 DEF Max

-----------------------------------------------------------------------------
(* The inductive invariant *)

DataInv == db \in [Thread -> Nat] /\ cache \in Rows \cup {None} /\ fetched \in Rows
\* The index is in the filtered list, which no step changes without it.
ListInv == threads \in Rows /\ filtered \in Rows /\ InRange(selected, filtered)
DrawnInv ==
  /\ options \in Seq(Thread) /\ Len(options) <= N /\ lit \subseteq 0 .. N
  /\ mounted \in {"nothing", "rows", "note", "error"}
LocalInv ==
  /\ query \in [got : Rows, old : Rows, updated : BOOLEAN, all : BOOLEAN]
  /\ snapshot \in [rows : Rows, text : BOOLEAN, updated : BOOLEAN]
  /\ prefer \in [Thread -> Thread \cup {None}]
ChoiceInv ==
  /\ open \in {"no", "yes", "crashed", "exited"} /\ given \in BOOLEAN
  /\ text \in BOOLEAN /\ byUpdated \in BOOLEAN /\ everywhere \in BOOLEAN
  /\ confirm \in Thread \cup {None}
WorkInv ==
  /\ lock \in Builder \cup {None} /\ pc \in [Worker -> Label] /\ left \in [Op -> Nat]

IInv == DataInv /\ ListInv /\ DrawnInv /\ LocalInv /\ ChoiceInv /\ WorkInv

LEMMA InitInv == Init => IInv
<1> SUFFICES ASSUME Init
             PROVE  IInv
  OBVIOUS
<1>1. db \in [Thread -> Nat]
  BY ThreadAssumption DEF Init
<1>2. DataInv
  BY <1>1, NoRows, ListedRows DEF Init, DataInv
<1>3. ListInv
  BY NoRows DEF Init, ListInv, InRange
<1>4. DrawnInv
  BY ThreadAssumption, EmptySeq DEF Init, DrawnInv
<1>5. LocalInv
  BY NoRows DEF Init, LocalInv, NoQuery, NoSnapshot, NoPreference
<1>6. ChoiceInv
  BY DEF Init, ChoiceInv
<1>7. WorkInv
  BY BudgetsAssumption DEF Init, WorkInv, Label
<1> QED
  BY <1>2, <1>3, <1>4, <1>5, <1>6, <1>7 DEF IInv

\* What a list holds comes from the database, or from a list.
LEMMA DataStep ==
  ASSUME IInv, Next
  PROVE  DataInv'
<1> USE DEF DataInv
<1>0. DataInv /\ LocalInv
  BY DEF IInv
<1>1. CASE LoadReplied
  BY <1>0, <1>1 DEF LoadReplied, localVars, LocalInv
<1>2. CASE \E t \in Thread : DeleteCommits(t)
  BY <1>0, <1>2 DEF DeleteCommits, localVars
<1>3. CASE \E t \in Thread : DeletePurges(t)
  BY <1>0, <1>3, KeptRows DEF DeletePurges, Without, localVars
<1>4. CASE Enter \/ Cancel \/ Click
  BY <1>0, <1>4 DEF Enter, Cancel, Click, Leave, Close
<1>5. CASE Save
  <2> DEFINE m == Max({db[t] : t \in Thread})
  <2>1. m \in Nat
    BY <1>0, NewestCheckpoint
  <2>2. db' = [db EXCEPT ![Current] = 1 + m] /\ UNCHANGED <<cache, fetched>>
    BY <1>5 DEF Save, localVars
  <2>3. 1 + m \in Nat
    BY <2>1
  <2> HIDE DEF m
  <2>4. db' \in [Thread -> Nat]
    BY <1>0, <2>2, <2>3
  <2> QED
    BY <1>0, <2>2, <2>4
<1>6. CASE PrewarmLists
  BY <1>0, <1>6, ListedRows DEF PrewarmLists, dataVars
<1>7. CASE PrewarmCaches
  BY <1>0, <1>7, NoRows DEF PrewarmCaches
<1>8. CASE \/ Open \/ Type \/ ToggleSort \/ ToggleColumn \/ ChangeScope \/ Move \/ AskDelete
           \/ QuitEmpty \/ Confirm \/ Refuse
  BY <1>0, <1>8 DEF Open, Type, ToggleSort, ToggleColumn, ChangeScope, Move, MoveTo, AskDelete,
     QuitEmpty, Close, Confirm, Refuse, dataVars, localVars
<1>9. CASE LoadStarts \/ LoadQueried \/ LoadArrives \/ LoadPreloaded \/ Filter \/ Details
  BY <1>0, <1>9 DEF LoadStarts, LoadQueried, LoadArrives, LoadPreloaded, Filter, FilterStarts,
     FilterEnds, Details, DetailsStart, DetailsRefilter, DetailsRefresh, dataVars, localVars
<1>10. CASE Failure \/ \E t \in Thread : DeleteStarts(t) \/ DeleteReturns(t)
  BY <1>0, <1>10 DEF Failure, LoadFails, DetailsFail, DeleteFails, DeleteStarts, DeleteReturns,
     dataVars, localVars
<1>11. CASE \E w \in Builder : Draw(w)
  BY <1>0, <1>11 DEF Draw, Clear, Fill, ShowError, Drawn, dataVars, localVars
<1> QED
  BY <1>1, <1>2, <1>3, <1>4, <1>5, <1>6, <1>7, <1>8, <1>9, <1>10, <1>11
  DEF Next, Key, Load, Delete

\* Wherever the filtered list changes, the index is set for the new one.
LEMMA ListStep ==
  ASSUME IInv, Next
  PROVE  ListInv'
<1> USE DEF ListInv
<1>0. DataInv /\ ListInv /\ LocalInv
  BY DEF IInv
<1>1. CASE LoadArrives
  <2>1. query.got \in Rows
    BY <1>0 DEF LocalInv
  <2>2. CASE given
    <3>1. threads' = query.got /\ filtered' = Match(query.got, text, byUpdated)
          /\ selected' = Synced(filtered')
      BY <1>1, <2>2 DEF LoadArrives, Refilter
    <3> QED
      BY <2>1, <3>1, MatchRows, SyncedInRange
  <2> QED
    BY <1>0, <1>1, <2>1, <2>2 DEF LoadArrives
<1>2. CASE LoadPreloaded
  <2>1. threads' = threads /\ filtered' = Match(threads, text, byUpdated)
        /\ selected' = Synced(filtered')
    BY <1>2 DEF LoadPreloaded, Refilter
  <2> QED
    BY <1>0, <2>1, MatchRows, SyncedInRange
<1>3. CASE FilterEnds
  <2>1. snapshot.rows \in Rows
    BY <1>0 DEF LocalInv
  <2>2. filtered' \in Rows
    BY <1>3, <2>1, MatchRows DEF FilterEnds
  <2>3. InRange(selected', filtered')
    BY <1>3, <2>2, ZeroInRange, SyncedInRange DEF FilterEnds
  <2> QED
    BY <1>0, <1>3, <2>2, <2>3 DEF FilterEnds
<1>4. CASE DetailsRefilter
  <2>1. filtered' \in Rows /\ threads' = threads
    BY <1>0, <1>4, MatchRows DEF DetailsRefilter
  <2>2. InRange(0, filtered') /\ \A t : InRange(IndexOf(filtered', t, 0), filtered')
    BY <2>1, ZeroInRange, IndexInRange
  <2> QED
    BY <1>0, <1>4, <2>1, <2>2 DEF DetailsRefilter
<1>5. ASSUME NEW t \in Thread, DeleteReturns(t)
      PROVE  ListInv'
  <2>1. threads' \in Rows
    BY <1>0, <1>5, KeptRows DEF DeleteReturns, Without
  <2>2. filtered' \in Rows
    BY <1>0, <1>5, KeptRows, MatchRows DEF DeleteReturns, Without
  <2>3. InRange(IF text THEN 0 ELSE Synced(filtered'), filtered')
    BY <2>2, ZeroInRange, SyncedInRange
  <2>4. InRange(selected', filtered')
    BY <1>5, <2>2, <2>3, IndexInRange DEF DeleteReturns
  <2> QED
    BY <2>1, <2>2, <2>4
<1>6. CASE Open
  <2>1. threads' \in Rows
    BY <1>0, <1>6, KeptRows, NoRows DEF Open, DataInv
  <2>2. filtered' \in Rows
    BY <1>6, <2>1, NewestRows DEF Open
  <2> QED
    BY <1>6, <2>1, <2>2, SyncedInRange DEF Open
<1>7. CASE ToggleSort \/ ToggleColumn
  <2>1. filtered' \in Rows /\ threads' = threads /\ selected' = Synced(filtered')
    BY <1>0, <1>7, NewestRows DEF ToggleSort, ToggleColumn
  <2> QED
    BY <1>0, <2>1, SyncedInRange
<1>8. CASE Move
  <2>1. PICK new \in {Down, Up, 0, Len(filtered) - 1} : MoveTo(new)
    BY <1>8 DEF Move
  <2>2. Len(filtered) \in Nat /\ Len(filtered) > 0 /\ selected \in Nat
    <3>1. filtered \in Seq(Row) /\ filtered # <<>>
      BY <1>0, <1>8 DEF Move, Rows
    <3> QED
      BY <1>0, <3>1, EmptySeq, LenProperties DEF InRange
  <2>3. new \in Nat /\ new < Len(filtered)
    <3>1. (selected + 1) \in Nat /\ (selected + Len(filtered) - 1) \in Nat
      BY <2>2
    <3>2. Down \in Nat /\ Down < Len(filtered) /\ Up \in Nat /\ Up < Len(filtered)
      BY <2>2, <3>1, ModuloInRange DEF Down, Up
    <3> QED
      BY <2>2, <3>2
  <2>4. selected' = new /\ filtered' = filtered /\ threads' = threads
    BY <2>1 DEF MoveTo
  <2> QED
    BY <1>0, <2>3, <2>4 DEF InRange
<1>9. CASE Enter \/ Cancel \/ Click \/ QuitEmpty
  <2>1. threads' = <<>> /\ filtered' = <<>> /\ selected' = 0
    BY <1>9 DEF Enter, Cancel, Click, Leave, QuitEmpty, Close
  <2> QED
    BY <2>1, NoRows DEF InRange
<1>10. CASE Type \/ ChangeScope \/ AskDelete \/ Confirm \/ Refuse
  BY <1>0, <1>10 DEF Type, ChangeScope, AskDelete, Confirm, Refuse, listVars
<1>11. CASE LoadStarts \/ LoadQueried \/ LoadReplied \/ FilterStarts \/ DetailsStart \/ DetailsRefresh
  BY <1>0, <1>11 DEF LoadStarts, LoadQueried, LoadReplied, FilterStarts, DetailsStart,
     DetailsRefresh, listVars
<1>12. CASE Failure \/ \E t \in Thread : DeleteStarts(t) \/ DeleteCommits(t) \/ DeletePurges(t)
  BY <1>0, <1>12 DEF Failure, LoadFails, DetailsFail, DeleteFails, DeleteStarts, DeleteCommits,
     DeletePurges, listVars
<1>13. CASE \E w \in Builder : Draw(w)
  BY <1>0, <1>13 DEF Draw, Clear, Fill, ShowError, Drawn, listVars
<1>14. CASE Save \/ PrewarmLists \/ PrewarmCaches
  BY <1>0, <1>14 DEF Save, PrewarmLists, PrewarmCaches, listVars
<1> QED
  BY <1>1, <1>2, <1>3, <1>4, <1>5, <1>6, <1>7, <1>8, <1>9, <1>10, <1>11, <1>12, <1>13, <1>14
  DEF Next, Key, Load, Filter, Details, Delete

\* A row is lit at an index of the list it was drawn from.
LEMMA DrawnStep ==
  ASSUME IInv, Next
  PROVE  DrawnInv'
<1> USE DEF DrawnInv
<1>0. ListInv /\ ListInv' /\ DrawnInv /\ N \in Nat
  BY ListStep, ThreadAssumption DEF IInv
<1>1. ASSUME NEW w \in Builder, Fill(w)
      PROVE  DrawnInv'
  <2>1. options' \in Seq(Thread) /\ Len(options') = Len(filtered)
    BY <1>0, <1>1, IdsOfRows DEF Fill, ListInv
  <2>2. Len(filtered) \in Nat /\ Len(filtered) <= N /\ selected \in Nat
    BY <1>0, RowsBounded DEF ListInv, InRange
  <2> QED
    BY <1>0, <1>1, <2>1, <2>2 DEF Fill
<1>2. CASE Open
  <2>1. options' \in Seq(Thread) /\ Len(options') = Len(filtered')
    BY <1>0, <1>2, IdsOfRows DEF Open, ListInv
  <2>2. Len(filtered') \in Nat /\ Len(filtered') <= N /\ selected' \in Nat
        /\ (filtered' # <<>> => selected' < Len(filtered'))
    BY <1>0, RowsBounded DEF ListInv, InRange
  <2> QED
    BY <1>0, <1>2, <2>1, <2>2 DEF Open
<1>3. CASE Move
  <2>1. PICK new \in {Down, Up, 0, Len(filtered) - 1} : MoveTo(new)
    BY <1>3 DEF Move
  <2>2. selected' = new /\ new \in Nat
    BY <1>0, <2>1 DEF MoveTo, ListInv, InRange
  <2>3. Len(options) \in Nat
    BY <1>0, LenProperties
  <2>4. UNCHANGED <<options, mounted>>
        /\ (lit' = lit \/ (lit' = (lit \ {selected}) \cup {new} /\ new < Len(options)))
    BY <2>1 DEF MoveTo
  <2>5. new < Len(options) => new \in 0 .. N
    BY <1>0, <2>2, <2>3
  <2> QED
    BY <1>0, <2>4, <2>5
<1>4. CASE Enter \/ Cancel \/ Click \/ QuitEmpty
  <2>1. options' = <<>> /\ lit' = {} /\ mounted' = "nothing"
    BY <1>4 DEF Enter, Cancel, Click, Leave, QuitEmpty, Close
  <2> QED
    BY <1>0, <2>1, EmptySeq
<1>5. CASE Type \/ ToggleSort \/ ToggleColumn \/ ChangeScope \/ AskDelete \/ Confirm \/ Refuse
  BY <1>0, <1>5 DEF Type, ToggleSort, ToggleColumn, ChangeScope, AskDelete, Confirm, Refuse, drawnVars
<1>6. CASE LoadStarts \/ LoadQueried \/ LoadReplied \/ LoadArrives \/ LoadPreloaded
  BY <1>0, <1>6 DEF LoadStarts, LoadQueried, LoadReplied, LoadArrives, LoadPreloaded, ShowLoaded,
     Draws, Removing, drawnVars
<1>7. CASE Filter \/ Details
  BY <1>0, <1>7 DEF Filter, FilterStarts, FilterEnds, Details, DetailsStart, DetailsRefilter,
     DetailsRefresh, Draws, Removing, drawnVars
<1>8. CASE Failure
  BY <1>0, <1>8 DEF Failure, LoadFails, DetailsFail, DeleteFails, Removing, drawnVars
<1>9. CASE \E t \in Thread : Delete(t)
  BY <1>0, <1>9 DEF Delete, DeleteStarts, DeleteCommits, DeletePurges, DeleteReturns, Draws,
     Removing, drawnVars
<1>10. ASSUME NEW w \in Builder, Clear(w) \/ ShowError(w) \/ Drawn(w)
       PROVE  DrawnInv'
  BY <1>0, <1>10 DEF Clear, ShowError, Drawn, Removing, drawnVars
<1>11. CASE Save \/ PrewarmLists \/ PrewarmCaches
  BY <1>0, <1>11 DEF Save, PrewarmLists, PrewarmCaches, drawnVars
<1> QED
  BY <1>1, <1>2, <1>3, <1>4, <1>5, <1>6, <1>7, <1>8, <1>9, <1>10, <1>11
  DEF Next, Key, Load, Draw

\* What the workers keep across their awaits are lists of the same kind.
LEMMA LocalStep ==
  ASSUME IInv, Next
  PROVE  LocalInv'
<1> USE DEF LocalInv
<1>0. DataInv /\ ListInv /\ LocalInv /\ ChoiceInv
  BY DEF IInv
<1>1. CASE LoadStarts
  BY <1>0, <1>1, NoRows DEF LoadStarts, ListInv, ChoiceInv
<1>2. CASE LoadQueried
  <2> DEFINE new == Listed(IF query.all THEN Thread ELSE Here, query.updated)
  <2>1. new \in Rows
    BY <1>0, ListedRows, ThreadAssumption DEF DataInv
  <2>2. query' = [query EXCEPT !.got = new] /\ UNCHANGED <<snapshot, prefer>>
    BY <1>2 DEF LoadQueried
  <2> HIDE DEF new
  <2> QED
    BY <1>0, <2>1, <2>2
<1>3. CASE LoadArrives \/ LoadPreloaded
  <2>1. query' \in {query, NoQuery} /\ UNCHANGED <<snapshot, prefer>>
    BY <1>3 DEF LoadArrives, LoadPreloaded, ShowLoaded
  <2>2. NoQuery \in [got : Rows, old : Rows, updated : BOOLEAN, all : BOOLEAN]
    BY NoRows DEF NoQuery
  <2> QED
    BY <1>0, <2>1, <2>2
<1>4. CASE FilterStarts
  BY <1>0, <1>4 DEF FilterStarts, ListInv, ChoiceInv
<1>5. CASE FilterEnds
  BY <1>0, <1>5, NoRows DEF FilterEnds, NoSnapshot
<1>6. ASSUME NEW t \in Thread, DeleteStarts(t)
      PROVE  LocalInv'
  <2>1. Neighbour \in Thread \cup {None}
    <3>1. filtered \in Seq(Row) /\ Len(filtered) \in Nat /\ DOMAIN filtered = 1 .. Len(filtered)
          /\ InRange(selected, filtered)
      BY <1>0, LenProperties DEF ListInv, Rows
    <3>2. \A i \in 1 .. Len(filtered) : filtered[i].id \in Thread
      <4>1. \A i \in 1 .. Len(filtered) : filtered[i] \in Row
        BY <3>1, ElementOfSeq
      <4> QED
        BY <4>1 DEF Row
    <3>3. selected + 1 < Len(filtered) => selected + 2 \in 1 .. Len(filtered)
      BY <3>1 DEF InRange
    <3>4. selected > 0 => selected \in 1 .. Len(filtered)
      BY <3>1 DEF InRange
    <3> QED
      BY <3>2, <3>3, <3>4 DEF Neighbour
  <2> QED
    BY <1>0, <1>6, <2>1 DEF DeleteStarts
<1>7. ASSUME NEW t \in Thread, DeleteReturns(t)
      PROVE  LocalInv'
  BY <1>0, <1>7 DEF DeleteReturns
<1>8. CASE Enter \/ Cancel \/ Click \/ QuitEmpty
  <2>1. query' = NoQuery /\ snapshot' = NoSnapshot /\ prefer' = NoPreference
    BY <1>8 DEF Enter, Cancel, Click, Leave, QuitEmpty, Close
  <2> QED
    BY <2>1, NoRows DEF NoQuery, NoSnapshot, NoPreference
<1>9. CASE \/ Open \/ Type \/ ToggleSort \/ ToggleColumn \/ ChangeScope \/ Move \/ AskDelete
           \/ Confirm \/ Refuse
  BY <1>0, <1>9 DEF Open, Type, ToggleSort, ToggleColumn, ChangeScope, Move, MoveTo, AskDelete,
     Confirm, Refuse, localVars
<1>10. CASE LoadReplied \/ Details \/ Failure
  BY <1>0, <1>10 DEF LoadReplied, Details, DetailsStart, DetailsRefilter, DetailsRefresh, Failure,
     LoadFails, DetailsFail, DeleteFails, localVars
<1>11. CASE \E t \in Thread : DeleteCommits(t) \/ DeletePurges(t)
  BY <1>0, <1>11 DEF DeleteCommits, DeletePurges, localVars
<1>12. CASE \E w \in Builder : Draw(w)
  BY <1>0, <1>12 DEF Draw, Clear, Fill, ShowError, Drawn, localVars
<1>13. CASE Save \/ PrewarmLists \/ PrewarmCaches
  BY <1>0, <1>13 DEF Save, PrewarmLists, PrewarmCaches, localVars
<1> QED
  BY <1>1, <1>2, <1>3, <1>4, <1>5, <1>6, <1>7, <1>8, <1>9, <1>10, <1>11, <1>12, <1>13
  DEF Next, Key, Load, Filter, Delete

LEMMA ChoiceStep ==
  ASSUME IInv, Next
  PROVE  ChoiceInv'
<1> USE DEF ChoiceInv
<1>0. ListInv /\ ChoiceInv
  BY DEF IInv
<1>1. CASE AskDelete
  <2>1. filtered[selected + 1].id \in Thread
    <3>1. filtered \in Seq(Row) /\ Len(filtered) \in Nat /\ selected + 1 \in 1 .. Len(filtered)
      BY <1>0, <1>1, LenProperties DEF ListInv, Rows, InRange, AskDelete
    <3>2. filtered[selected + 1] \in Row
      BY <3>1, ElementOfSeq
    <3> QED
      BY <3>2 DEF Row
  <2> QED
    BY <1>0, <1>1, <2>1 DEF AskDelete
<1>2. CASE Enter \/ Cancel \/ Click \/ QuitEmpty
  BY <1>0, <1>2 DEF Enter, Cancel, Click, Leave, QuitEmpty, Close
<1>3. CASE Open \/ Type \/ ToggleSort \/ ToggleColumn \/ ChangeScope \/ Move \/ Confirm \/ Refuse
  BY <1>0, <1>3 DEF Open, Type, ToggleSort, ToggleColumn, ChangeScope, Move, MoveTo, Confirm, Refuse,
     Crash, choiceVars
<1>4. CASE Load
  BY <1>0, <1>4 DEF Load, LoadStarts, LoadQueried, LoadReplied, LoadArrives, LoadPreloaded,
     ShowLoaded, Crash, choiceVars
<1>5. CASE Filter \/ Details \/ Failure
  BY <1>0, <1>5 DEF Filter, FilterStarts, FilterEnds, Details, DetailsStart, DetailsRefilter,
     DetailsRefresh, Failure, LoadFails, DetailsFail, DeleteFails, Crash, choiceVars
<1>6. CASE \E t \in Thread : Delete(t)
  BY <1>0, <1>6 DEF Delete, DeleteStarts, DeleteCommits, DeletePurges, DeleteReturns, choiceVars
<1>7. CASE \E w \in Builder : Draw(w)
  BY <1>0, <1>7 DEF Draw, Clear, Fill, ShowError, Drawn, choiceVars
<1>8. CASE Save \/ PrewarmLists \/ PrewarmCaches
  BY <1>0, <1>8 DEF Save, PrewarmLists, PrewarmCaches, choiceVars
<1> QED
  BY <1>1, <1>2, <1>3, <1>4, <1>5, <1>6, <1>7, <1>8 DEF Next, Key

\* The steps of the control that the actions are made of.
LEMMA Controls ==
  ASSUME WorkInv
  PROVE  /\ \A w \in Worker, l \in Label : Goto(w, l) => pc' \in [Worker -> Label]
         /\ \A w \in Worker : Released(w) \in Builder \cup {None}
         /\ \A w \in Builder : Draws(w) => pc' \in [Worker -> Label] /\ lock' \in Builder \cup {None}
         /\ \A p \in [Worker -> Label] : Enriched(p) \subseteq [Worker -> Label]
         /\ \A op \in Op : Spend(op) => left' \in [Op -> Nat]
         /\ Crash => pc' \in [Worker -> Label]
<1> USE DEF WorkInv
<1>1. \A w \in Worker, l \in Label : Goto(w, l) => pc' \in [Worker -> Label]
  BY DEF Goto
<1>2. \A w \in Worker : Released(w) \in Builder \cup {None}
  BY DEF Released
<1>3. \A w \in Builder : Draws(w) => pc' \in [Worker -> Label] /\ lock' \in Builder \cup {None}
  <2>1. \A w \in Builder : w \in Worker
    BY DEF Worker
  <2>2. "clear" \in Label /\ "wait" \in Label
    BY DEF Label
  <2> QED
    BY <1>1, <2>1, <2>2 DEF Draws, Removing
<1>4. \A p \in [Worker -> Label] : Enriched(p) \subseteq [Worker -> Label]
  <2>1. "begin" \in Label
    BY DEF Label
  <2> QED
    BY <2>1 DEF Enriched
<1>5. \A op \in Op : Spend(op) => left' \in [Op -> Nat]
  BY DEF Spend
<1>6. Crash => pc' \in [Worker -> Label]
  BY DEF Crash, Label
<1> QED
  BY <1>1, <1>2, <1>3, <1>4, <1>5, <1>6

LEMMA Labels ==
  {"none", "begin", "filter", "computing", "query", "reply", "closing", "preload", "details",
   "commit", "purge", "return", "wait", "clear", "mount", "sorry", "sorryClear", "sorryMount"}
    \subseteq Label
BY DEF Label

LEMMA Operations ==
  {"open", "cached", "type", "sort", "column", "scope", "move", "delete", "save", "prewarm", "fail"}
    \subseteq Op
BY DEF Op

LEMMA WorkStep ==
  ASSUME IInv, Next
  PROVE  WorkInv'
<1>0. WorkInv /\ pc \in [Worker -> Label] /\ lock \in Builder \cup {None} /\ left \in [Op -> Nat]
      /\ ChoiceInv
  BY DEF IInv, WorkInv
<1>w. /\ {Loader, Renderer} \cup Thread \subseteq Builder /\ Builder \subseteq Worker
      /\ {Enricher, Warmer} \subseteq Worker
  BY DEF Builder, Worker
<1>1. CASE Open
  <2>1. Goto(Loader, "begin") /\ Spend("open") /\ lock' = lock
    BY <1>1 DEF Open
  <2> QED
    BY <1>0, <1>w, <2>1, Controls, Labels, Operations DEF WorkInv
<1>2. CASE Type \/ ToggleSort \/ ChangeScope
  <2>1. PICK op \in Op, w \in Builder, l \in Label : Spend(op) /\ Start(w, l)
    BY <1>2, <1>w, Labels, Operations DEF Type, ToggleSort, ChangeScope
  <2> QED
    BY <1>0, <1>w, <2>1, Controls DEF WorkInv, Start
<1>3. CASE ToggleColumn
  <2>1. Spend("column") /\ lock' = Released(Renderer)
        /\ pc' \in Enriched([pc EXCEPT ![Renderer] = "wait"])
    BY <1>3 DEF ToggleColumn
  <2>2. [pc EXCEPT ![Renderer] = "wait"] \in [Worker -> Label]
    BY <1>0, Labels
  <2>3. pc' \in [Worker -> Label]
    BY <1>0, <2>1, <2>2, Controls
  <2> QED
    BY <1>0, <1>w, <2>1, <2>3, Controls, Operations DEF WorkInv
<1>4. CASE Move
  <2>1. Spend("move") /\ lock' = lock /\ (pc' = pc \/ Crash)
    BY <1>4 DEF Move, MoveTo, localVars
  <2> QED
    BY <1>0, <2>1, Controls, Operations DEF WorkInv
<1>5. CASE AskDelete
  BY <1>0, <1>5, Controls, Operations DEF AskDelete, WorkInv
<1>6. CASE Enter \/ Cancel \/ Click \/ QuitEmpty
  <2>1. /\ lock' = None /\ (left' = left \/ Spend("delete"))
        /\ pc' = [w \in Worker |-> IF w = Warmer THEN pc[w] ELSE "none"]
    BY <1>6 DEF Enter, Cancel, Click, Leave, QuitEmpty, Close
  <2> QED
    BY <1>0, <2>1, Controls, Labels, Operations DEF WorkInv
<1>7. CASE Confirm
  <2>1. Goto(confirm, "begin") /\ confirm \in Thread /\ UNCHANGED <<lock, left>>
    BY <1>0, <1>7 DEF Confirm, ChoiceInv
  <2> QED
    BY <1>0, <1>w, <2>1, Controls, Labels DEF WorkInv
<1>8. CASE Refuse \/ Save
  BY <1>0, <1>8, Controls, Operations DEF Refuse, Save, WorkInv
<1>9. CASE LoadStarts \/ LoadQueried \/ LoadReplied \/ FilterStarts
  <2>1. PICK w \in Builder, l \in Label : Goto(w, l) /\ UNCHANGED <<lock, left>>
    BY <1>9, <1>w, Labels DEF LoadStarts, LoadQueried, LoadReplied, FilterStarts
  <2> QED
    BY <1>0, <1>w, <2>1, Controls DEF WorkInv
<1>10. CASE LoadArrives \/ LoadPreloaded
  <2>1. left' = left /\ (ShowLoaded \/ (Goto(Loader, "preload") /\ lock' = lock))
    BY <1>10 DEF LoadArrives, LoadPreloaded
  <2>2. ASSUME ShowLoaded PROVE pc' \in [Worker -> Label] /\ lock' \in Builder \cup {None}
    <3>1. \/ Draws(Loader)
          \/ lock' = lock /\ (Crash \/ pc' \in Enriched([pc EXCEPT ![Loader] = "none"]))
      BY <2>2 DEF ShowLoaded
    <3>2. [pc EXCEPT ![Loader] = "none"] \in [Worker -> Label]
      BY <1>0, Labels
    <3> QED
      BY <1>0, <1>w, <3>1, <3>2, Controls
  <2> QED
    BY <1>0, <1>w, <2>1, <2>2, Controls, Labels DEF WorkInv
<1>11. CASE FilterEnds
  BY <1>0, <1>w, <1>11, Controls DEF FilterEnds, WorkInv
<1>12. CASE DetailsStart
  <2>1. PICK l \in Label : Goto(Enricher, l) /\ UNCHANGED <<lock, left>>
    BY <1>12, Labels DEF DetailsStart
  <2> QED
    BY <1>0, <1>w, <2>1, Controls DEF WorkInv
<1>13. CASE DetailsRefilter
  <2>1. pc' = [pc EXCEPT ![Enricher] = "none", ![Renderer] = "wait"] /\ lock' = Released(Renderer)
        /\ left' = left
    BY <1>13 DEF DetailsRefilter
  <2> QED
    BY <1>0, <1>w, <2>1, Controls, Labels DEF WorkInv
<1>14. CASE DetailsRefresh
  <2>1. (Goto(Enricher, "none") \/ Crash) /\ UNCHANGED <<lock, left>>
    BY <1>14 DEF DetailsRefresh
  <2> QED
    BY <1>0, <1>w, <2>1, Controls, Labels DEF WorkInv
<1>15. CASE LoadFails
  <2>1. /\ Spend("fail") /\ lock' \in {Loader, lock}
        /\ Goto(Loader, "sorryClear") \/ Goto(Loader, "sorry")
    BY <1>15 DEF LoadFails, Removing
  <2> QED
    BY <1>0, <1>w, <2>1, Controls, Labels, Operations DEF WorkInv
<1>16. CASE DetailsFail \/ \E t \in Thread : DeleteFails(t)
  <2>1. PICK w \in Worker : Spend("fail") /\ lock' = lock /\ Goto(w, "none")
    BY <1>16, <1>w DEF DetailsFail, DeleteFails
  <2> QED
    BY <1>0, <2>1, Controls, Labels, Operations DEF WorkInv
<1>17. ASSUME NEW t \in Thread, DeleteStarts(t) \/ DeleteCommits(t) \/ DeletePurges(t)
       PROVE  WorkInv'
  <2>1. PICK l \in Label : Goto(t, l) /\ UNCHANGED <<lock, left>>
    BY <1>17, Labels DEF DeleteStarts, DeleteCommits, DeletePurges
  <2> QED
    BY <1>0, <1>w, <2>1, Controls DEF WorkInv
<1>18. ASSUME NEW t \in Thread, DeleteReturns(t)
       PROVE  WorkInv'
  BY <1>0, <1>w, <1>18, Controls DEF DeleteReturns, WorkInv
<1>19. ASSUME NEW w \in Builder, Clear(w) \/ Fill(w) \/ ShowError(w)
       PROVE  WorkInv'
  <2>1. PICK l \in Label : Goto(w, l) /\ lock' \in {lock, w} /\ left' = left
    BY <1>19, Labels DEF Clear, Fill, ShowError, Removing
  <2> QED
    BY <1>0, <1>w, <2>1, Controls DEF WorkInv
<1>20. ASSUME NEW w \in Builder, Drawn(w)
       PROVE  WorkInv'
  <2> DEFINE done == [pc EXCEPT ![w] = "none"]
  <2>1. done \in [Worker -> Label]
    BY <1>0, Labels
  <2>2. (pc' = done \/ pc' \in Enriched(done)) /\ lock' = None /\ left' = left
    BY <1>20 DEF Drawn
  <2> HIDE DEF done
  <2> QED
    BY <1>0, <2>1, <2>2, Controls DEF WorkInv
<1>21. CASE PrewarmLists \/ PrewarmCaches
  <2>1. PICK l \in Label : Goto(Warmer, l) /\ lock' = lock /\ (left' = left \/ Spend("prewarm"))
    BY <1>21, Labels DEF PrewarmLists, PrewarmCaches
  <2> QED
    BY <1>0, <1>w, <2>1, Controls, Operations DEF WorkInv
<1> QED
  BY <1>1, <1>2, <1>3, <1>4, <1>5, <1>6, <1>7, <1>8, <1>9, <1>10, <1>11, <1>12, <1>13, <1>14, <1>15,
     <1>16, <1>17, <1>18, <1>19, <1>20, <1>21
  DEF Next, Key, Load, Filter, Details, Failure, Delete, Draw

LEMMA InvStep == IInv /\ [Next]_vars => IInv'
<1> SUFFICES ASSUME IInv, [Next]_vars
             PROVE  IInv'
  OBVIOUS
<1>1. CASE Next
  BY <1>1, DataStep, ListStep, DrawnStep, LocalStep, ChoiceStep, WorkStep DEF IInv
<1>2. CASE UNCHANGED vars
  BY <1>2 DEF vars, dataVars, listVars, choiceVars, drawnVars, localVars, IInv, DataInv, ListInv,
     DrawnInv, LocalInv, ChoiceInv, WorkInv
<1> QED
  BY <1>1, <1>2

THEOREM IInvHolds == Spec => []IInv
BY InitInv, InvStep, PTL DEF Spec

\* The state of the selector has its types, whatever its workers and the keys do;
\* no list they keep names a thread twice, so none is longer than there are threads.
THEOREM TypeCorrect == Spec => []TypeOK
<1>1. Rows \subseteq Seq(Row)
  BY DEF Rows
<1>2. IInv => TypeOK
  BY <1>1 DEF IInv, DataInv, ListInv, DrawnInv, LocalInv, ChoiceInv, WorkInv, InRange, TypeOK
<1> QED
  BY <1>2, IInvHolds, PTL

\* The selected index is in the filtered list in every state (action_select,
\* action_delete_thread, _handle_delete_confirm).
THEOREM SelectionHolds == Spec => []SelectionInRange
<1>1. IInv => SelectionInRange
  BY DEF IInv, ListInv, InRange, SelectionInRange
<1> QED
  BY <1>1, IInvHolds, PTL

-----------------------------------------------------------------------------
(* What is shown *)

\* A load finds the rows from before it, and leaves the widgets as they are.
KeepsDrawn == (LoadPreloaded \/ (LoadArrives /\ given)) /\ SameRows(filtered')

\* Where a worker stands that will draw the list, or an error, unless it is replaced.
Redrawing == {"filter", "computing", "query", "reply", "closing", "preload", "return", "wait",
              "clear", "sorry", "sorryClear"}
Redraws(w) == pc[w] \in Redrawing \/ (w = Loader /\ pc[w] = "begin")

\* The screen shows the list and the selection there are.
Shown ==
  /\ options = Ids(filtered)
  /\ mounted = IF filtered = <<>> THEN "note" ELSE "rows"
  /\ lit = IF filtered = <<>> THEN {} ELSE {selected}

\* Whoever changes the list, or takes it off the screen, draws it afterwards.
ShownInv == open = "yes" => mounted = "error" \/ Shown \/ \E w \in Builder : Redraws(w)

\* Four more make no more than N + 4.
LEMMA FourMore ==
  ASSUME NEW a, NEW b, NEW c, NEW d
  PROVE  Cardinality((((Thread \cup {a}) \cup {b}) \cup {c}) \cup {d}) <= N + 4
<1> DEFINE A == Thread \cup {a}
           B == A \cup {b}
           C == B \cup {c}
           D == C \cup {d}
<1>1. IsFiniteSet(Thread) /\ Cardinality(Thread) = N /\ N \in Nat
  BY ThreadAssumption, FS_Interval DEF Thread
<1>2. IsFiniteSet(A) /\ Cardinality(A) \in {N, N + 1}
  BY <1>1, FS_AddElement
<1>3. IsFiniteSet(B) /\ Cardinality(B) \in {Cardinality(A), Cardinality(A) + 1}
  <2> HIDE DEF A
  <2> QED
    BY <1>2, FS_AddElement
<1>4. IsFiniteSet(C) /\ Cardinality(C) \in {Cardinality(B), Cardinality(B) + 1}
  <2> HIDE DEF B
  <2> QED
    BY <1>3, FS_AddElement
<1>5. IsFiniteSet(D) /\ Cardinality(D) \in {Cardinality(C), Cardinality(C) + 1}
  <2> HIDE DEF C
  <2> QED
    BY <1>4, FS_AddElement
<1>6. Cardinality(D) <= N + 4
  <2> HIDE DEF A, B, C, D
  <2> QED
    BY <1>1, <1>2, <1>3, <1>4, <1>5
<1> QED
  BY <1>6

\* The workers that never draw are not the ones that do, and a deletion is not the load.
LEMMA Bystanders == {Enricher, Warmer} \cap Builder = {} /\ Loader \notin Thread
<1> SUFFICES ASSUME {Enricher, Warmer} \cap Builder # {} \/ Loader \in Thread
             PROVE  FALSE
  OBVIOUS
<1> DEFINE all == {Loader, Renderer, Enricher, Warmer, None} \cup Thread
<1>1. \E a, b, c, d : all = (((Thread \cup {a}) \cup {b}) \cup {c}) \cup {d}
  <2>1. CASE Loader \in Thread
    <3>1. all = (((Thread \cup {Renderer}) \cup {Enricher}) \cup {Warmer}) \cup {None}
      BY <2>1
    <3> HIDE DEF all
    <3> QED
      BY <3>1
  <2>2. CASE {Enricher, Warmer} \cap Builder # {}
    <3>1. PICK y \in {Enricher, Warmer} : all = (((Thread \cup {Loader}) \cup {Renderer}) \cup {None}) \cup {y}
      BY <2>2 DEF Builder
    <3> HIDE DEF all
    <3> QED
      BY <3>1
  <2> QED
    BY <2>1, <2>2
<1>2. Cardinality(all) <= N + 4
  BY <1>1, FourMore
<1> QED
  BY <1>2, ThreadAssumption

\* A step that changes neither the list nor the screen, nor stops who draws.
LEMMA SteadyStep ==
  ASSUME ShownInv, UNCHANGED <<open, filtered, selected, mounted, options, lit>>,
         \A w \in Builder : Redraws(w) => Redraws(w)'
  PROVE  ShownInv'
BY DEF ShownInv, Shown, Ids

\* A step after which somebody draws.
LEMMA RedrawStep ==
  ASSUME NEW w \in Builder, pc'[w] \in Redrawing
  PROVE  ShownInv'
BY DEF ShownInv, Redraws

LEMMA DrawsRedraws ==
  ASSUME IInv, NEW w \in Builder, Draws(w)
  PROVE  ShownInv'
<1>1. pc \in [Worker -> Label] /\ w \in Worker
  BY DEF IInv, WorkInv, Worker
<1>2. pc'[w] \in Redrawing
  BY <1>1 DEF Draws, Goto, Redrawing
<1> QED
  BY <1>2, RedrawStep

LEMMA ShownStep ==
  ASSUME IInv, ShownInv, Next, ~KeepsDrawn
  PROVE  ShownInv'
<1>0. pc \in [Worker -> Label] /\ ListInv /\ ListInv' /\ ChoiceInv
  BY ListStep DEF IInv, WorkInv
<1>w. /\ {Loader, Renderer} \cup Thread \subseteq Builder /\ Builder \subseteq Worker
      /\ {Enricher, Warmer} \subseteq Worker /\ Enricher \notin Builder /\ Warmer \notin Builder
  BY Bystanders DEF Builder, Worker
<1>1. CASE Open
  BY <1>1 DEF Open, ShownInv, Shown, Ids
<1>2. CASE Type \/ ToggleSort \/ ToggleColumn \/ DetailsRefilter
  <2>1. pc'[Renderer] \in Redrawing
    BY <1>0, <1>2, <1>w DEF Type, ToggleSort, ToggleColumn, DetailsRefilter, Start, Goto, Enriched, Redrawing
  <2> QED
    BY <1>w, <2>1, RedrawStep
<1>3. CASE ChangeScope
  <2>1. pc'[Loader] = "begin"
    BY <1>0, <1>3, <1>w DEF ChangeScope, Start, Goto
  <2> QED
    BY <1>w, <2>1 DEF ShownInv, Redraws
<1>4. CASE Move
  <2>1. PICK new \in {Down, Up, 0, Len(filtered) - 1} : MoveTo(new)
    BY <1>4 DEF Move
  <2>2. CASE Crash
    BY <2>2 DEF Crash, ShownInv
  <2>3. CASE ~Crash
    <3>1. /\ selected' = new /\ lit' = (lit \ {selected}) \cup {new}
          /\ UNCHANGED <<open, pc, filtered, mounted, options>>
      BY <2>1, <2>3 DEF MoveTo
    <3>2. filtered # <<>>
      BY <1>4 DEF Move
    <3> QED
      BY <3>1, <3>2 DEF ShownInv, Shown, Ids, Redraws
  <2> QED
    BY <2>2, <2>3
<1>5. CASE Enter \/ Cancel \/ Click \/ QuitEmpty
  BY <1>5 DEF Enter, Cancel, Click, Leave, QuitEmpty, Close, ShownInv
<1>6. CASE AskDelete \/ Refuse \/ Save
  BY <1>6, SteadyStep DEF AskDelete, Refuse, Save, listVars, drawnVars, Redraws
<1>7. CASE Confirm
  <2>1. pc[confirm] = "none" /\ pc' = [pc EXCEPT ![confirm] = "begin"]
        /\ UNCHANGED <<open, filtered, selected, mounted, options, lit>>
    BY <1>7 DEF Confirm, At, Goto, listVars, drawnVars
  <2>2. \A w \in Builder : Redraws(w) => Redraws(w)'
    BY <1>0, <1>w, <2>1 DEF Redraws, Redrawing
  <2> QED
    BY <2>1, <2>2, SteadyStep
<1>8. CASE LoadStarts \/ LoadQueried \/ LoadReplied
  <2>1. pc'[Loader] \in Redrawing
    BY <1>0, <1>8, <1>w DEF LoadStarts, LoadQueried, LoadReplied, Goto, Redrawing
  <2> QED
    BY <1>w, <2>1, RedrawStep
<1>9. CASE LoadArrives
  <2>1. CASE given
    BY <1>9, <1>w, <2>1, DrawsRedraws DEF LoadArrives, KeepsDrawn, ShowLoaded
  <2>2. CASE ~given
    <3>1. pc'[Loader] \in Redrawing
      BY <1>0, <1>9, <1>w, <2>2 DEF LoadArrives, Goto, Redrawing
    <3> QED
      BY <1>w, <3>1, RedrawStep
  <2> QED
    BY <2>1, <2>2
<1>10. CASE LoadPreloaded
  BY <1>10, <1>w, DrawsRedraws DEF LoadPreloaded, KeepsDrawn, ShowLoaded
<1>11. CASE FilterStarts
  <2>1. pc'[Renderer] \in Redrawing
    BY <1>0, <1>11, <1>w DEF FilterStarts, Goto, Redrawing
  <2> QED
    BY <1>w, <2>1, RedrawStep
<1>12. CASE FilterEnds
  BY <1>12, <1>w, DrawsRedraws DEF FilterEnds
<1>13. CASE DetailsStart \/ DetailsFail \/ DetailsRefresh
  <2>1. CASE Crash
    BY <2>1 DEF Crash, ShownInv
  <2>2. CASE ~Crash
    <3>1. \E l \in Label : pc' = [pc EXCEPT ![Enricher] = l]
      BY <1>13, <2>2, Labels DEF DetailsStart, DetailsFail, DetailsRefresh, Goto
    <3>2. UNCHANGED <<open, filtered, selected, mounted, options, lit>>
      BY <1>13, <2>2 DEF DetailsStart, DetailsFail, DetailsRefresh, listVars, drawnVars
    <3>3. \A w \in Builder : Redraws(w) => Redraws(w)'
      BY <1>0, <1>w, <3>1 DEF Redraws
    <3> QED
      BY <3>2, <3>3, SteadyStep
  <2> QED
    BY <2>1, <2>2
<1>14. CASE LoadFails
  <2>1. pc'[Loader] \in Redrawing
    BY <1>0, <1>14, <1>w DEF LoadFails, Goto, Redrawing
  <2> QED
    BY <1>w, <2>1, RedrawStep
<1>15. ASSUME NEW t \in Thread, DeleteFails(t) \/ DeleteStarts(t)
       PROVE  ShownInv'
  <2>1. pc[t] \in {"begin", "commit"} /\ pc' \in {[pc EXCEPT ![t] = "commit"], [pc EXCEPT ![t] = "none"]}
        /\ UNCHANGED <<open, filtered, selected, mounted, options, lit>>
    BY <1>15 DEF DeleteFails, DeleteStarts, At, Goto, listVars, drawnVars
  <2>2. t # Loader
    BY Bystanders
  <2>3. \A w \in Builder : Redraws(w) => Redraws(w)'
    BY <1>0, <1>w, <2>1, <2>2 DEF Redraws, Redrawing
  <2> QED
    BY <2>1, <2>3, SteadyStep
<1>16. ASSUME NEW t \in Thread, DeleteCommits(t) \/ DeletePurges(t)
       PROVE  ShownInv'
  <2>1. pc[t] \in {"commit", "purge"} /\ pc' \in {[pc EXCEPT ![t] = "purge"], [pc EXCEPT ![t] = "return"]}
        /\ UNCHANGED <<open, filtered, selected, mounted, options, lit>>
    BY <1>16 DEF DeleteCommits, DeletePurges, At, Goto, listVars, drawnVars
  <2>2. \A w \in Builder : Redraws(w) => Redraws(w)'
    BY <1>0, <1>w, <2>1 DEF Redraws, Redrawing
  <2> QED
    BY <2>1, <2>2, SteadyStep
<1>17. ASSUME NEW t \in Thread, DeleteReturns(t)
       PROVE  ShownInv'
  BY <1>17, <1>w, DrawsRedraws DEF DeleteReturns
<1>18. ASSUME NEW w \in Builder, Clear(w)
       PROVE  ShownInv'
  <2>1. pc'[w] \in Redrawing
    BY <1>0, <1>18, <1>w DEF Clear, Goto, Redrawing
  <2> QED
    BY <2>1, RedrawStep
<1>19. ASSUME NEW w \in Builder, Fill(w)
       PROVE  ShownInv'
  <2>1. options' = Ids(filtered) /\ filtered' = filtered /\ selected' = selected
        /\ mounted' = (IF filtered = <<>> THEN "note" ELSE "rows")
        /\ lit' = (IF selected < Len(filtered) THEN {selected} ELSE {})
    BY <1>19 DEF Fill, listVars
  <2>2. selected < Len(filtered) <=> filtered # <<>>
    BY <1>0, EmptySeq DEF ListInv, InRange
  <2> QED
    BY <2>1, <2>2 DEF ShownInv, Shown, Ids
<1>20. ASSUME NEW w \in Builder, ShowError(w)
       PROVE  ShownInv'
  BY <1>20 DEF ShowError, ShownInv
<1>21. ASSUME NEW w \in Builder, Drawn(w)
       PROVE  ShownInv'
  <2> DEFINE done == [pc EXCEPT ![w] = "none"]
  <2>1. pc[w] \in {"mount", "sorryMount"} /\ pc' \in {done, [done EXCEPT ![Enricher] = "begin"]}
        /\ UNCHANGED <<open, filtered, selected, mounted, options, lit>>
    BY <1>21 DEF Drawn, Enriched, listVars, drawnVars
  <2>2. \A u \in Builder : Redraws(u) => Redraws(u)'
    BY <1>0, <1>w, <2>1 DEF Redraws, Redrawing
  <2> QED
    BY <2>1, <2>2, SteadyStep
<1>22. CASE PrewarmLists \/ PrewarmCaches
  <2>1. \E l \in Label : pc' = [pc EXCEPT ![Warmer] = l]
    BY <1>22, Labels DEF PrewarmLists, PrewarmCaches, Goto
  <2>2. UNCHANGED <<open, filtered, selected, mounted, options, lit>>
    BY <1>22 DEF PrewarmLists, PrewarmCaches, listVars, drawnVars
  <2>3. \A w \in Builder : Redraws(w) => Redraws(w)'
    BY <1>0, <1>w, <2>1 DEF Redraws
  <2> QED
    BY <2>2, <2>3, SteadyStep
<1> QED
  BY <1>1, <1>2, <1>3, <1>4, <1>5, <1>6, <1>7, <1>8, <1>9, <1>10, <1>11, <1>12, <1>13, <1>14, <1>15,
     <1>16, <1>17, <1>18, <1>19, <1>20, <1>21, <1>22
  DEF Next, Key, Load, Filter, Details, Failure, Delete, Draw

\* When nothing is under way, the screen shows the filtered rows and lights the one
\* that Enter resumes and Ctrl+D deletes, in every run in which no load leaves the
\* widgets as they are because its rows are those from before (_load_threads): that
\* shortcut is the only step that can leave another row lit.
THEOREM WhatIsShownIsSelected == Spec /\ [][~KeepsDrawn]_vars => []WhatIsShown
<1>1. Init => ShownInv
  BY DEF Init, ShownInv
<1>2. IInv /\ ShownInv /\ [Next]_vars /\ [~KeepsDrawn]_vars => ShownInv'
  <2> SUFFICES ASSUME IInv, ShownInv, [Next]_vars, [~KeepsDrawn]_vars
               PROVE  ShownInv'
    OBVIOUS
  <2>1. CASE UNCHANGED vars
    BY <2>1 DEF vars, listVars, drawnVars, ShownInv, Shown, Ids, Redraws
  <2> QED
    BY <2>1, ShownStep
<1>3. ShownInv => WhatIsShown
  <2> SUFFICES ASSUME ShownInv, Settled, mounted # "error"
               PROVE  Shown
    BY DEF WhatIsShown, Shown
  <2>1. \A w \in Builder : pc[w] = "none"
    BY Bystanders DEF Settled, At, Worker
  <2> QED
    BY <2>1 DEF ShownInv, Settled, Redraws, Redrawing
<1> QED
  BY <1>1, <1>2, <1>3, IInvHolds, PTL DEF Spec
=============================================================================
