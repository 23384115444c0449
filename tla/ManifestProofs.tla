--------------------------- MODULE ManifestProofs ---------------------------
(* Proofs about the manifest database, for all manifests, selections, hosts  *)
(* and boards.                                                               *)
EXTENDS Manifest, WellFoundedInduction, TLAPS

----------------------------------------------------------------------------
(* Picking a row.                                                            *)

\* A set of indices that is not empty has a greatest one.
LEMMA GreatestIndex ==
  ASSUME NEW n \in Nat, NEW R \in SUBSET (1..n), R # {}
  PROVE  \E i \in R : \A j \in R : i >= j
<1>1. PICK T \in SUBSET Nat : T = {n - i : i \in R}
  <2>1. \A i \in R : n - i \in Nat
    OBVIOUS
  <2>2. {n - i : i \in R} \in SUBSET Nat
    BY <2>1
  <2> QED
    BY <2>2, Zenon
<1>2. T # {}
  BY <1>1
<1>3. PICK x \in T : \A y \in T : <<y, x>> \notin OpToRel(<, Nat)
  BY <1>2, NatLessThanWellFounded, WFMin
<1>4. \A y \in T : ~ (y < x)
  BY <1>3, Zenon DEF OpToRel
<1>5. PICK i \in R : x = n - i
  BY <1>1
<1>6. \A j \in R : n - j \in T
  BY <1>1
<1> QED
  BY <1>4, <1>5, <1>6

\* How an entry scores on a board says whether it installs there; without a
\* board every entry may.
LEMMA ScoreTells ==
  ASSUME NEW e \in Entry, NEW board \in Board \cup {None}
  PROVE  /\ Score(e, board) \in {-1, 0, 1, 2}
         /\ board = None => Score(e, board) >= 0
         /\ board # None => (Score(e, board) >= 0 <=> Installs(e, board))
BY DEF Score, Installs, Entry

\* What is picked is one of the rows that apply, and something is picked if one
\* does.
LEMMA PickApplies ==
  ASSUME NEW E \in Seq(Entry), NEW R \in SUBSET DOMAIN E, NEW board \in Board \cup {None}
  PROVE  /\ PickBoardRow(E, R, board) # None =>
              /\ PickBoardRow(E, R, board) \in R
              /\ Score(E[PickBoardRow(E, R, board)], board) >= 0
         /\ (\E i \in R : Score(E[i], board) >= 0) => PickBoardRow(E, R, board) # None
<1> DEFINE A == {i \in R : Score(E[i], board) >= 0}
<1>1. DOMAIN E = 1..Len(E) /\ Len(E) \in Nat /\ R \subseteq 1..Len(E)
  OBVIOUS
<1>2. \A i \in R : E[i] \in Entry
  OBVIOUS
<1>3. \A i \in R : Score(E[i], board) \in {-1, 0, 1, 2}
  BY <1>2, ScoreTells
<1>4. CASE A = {}
  BY <1>4 DEF PickBoardRow
<1>5. CASE A # {}
  <2>1. PICK r \in {0, 1, 2} : /\ {i \in A : Score(E[i], board) = r} # {}
                              /\ \A i \in A : Score(E[i], board) <= r
    BY <1>3, <1>5
  <2>2. {i \in A : Score(E[i], board) = r} \in SUBSET (1..Len(E))
    BY <1>1
  <2>3. PICK i \in {k \in A : Score(E[k], board) = r} :
               \A j \in {k \in A : Score(E[k], board) = r} : i >= j
    BY <1>1, <2>1, <2>2, GreatestIndex
  <2>4. \A j \in A : Better(E, i, j, board)
    BY <1>3, <2>1, <2>3 DEF Better
  <2>5. PickBoardRow(E, R, board) \in A
    BY <1>5, <2>3, <2>4 DEF PickBoardRow
  <2>6. None \notin A
    BY <1>1, NoneAssumption
  <2> QED
    BY <2>5, <2>6
<1> QED
  BY <1>4, <1>5

----------------------------------------------------------------------------
(* What a manifest is, and what its tables hold.                             *)

\* The rows are rows of components the manifest describes.
Describes(t) == t \in Tables /\ \A c \in Comp : t.copies[c] > 0 => c \in DOMAIN t.doc.deps

LEMMA ManifestShape ==
  ASSUME NEW d \in Manifests
  PROVE  /\ d.sections \subseteq Group \X Section /\ d.boards \subseteq Board
         /\ DOMAIN d.listed \subseteq Group
         /\ \A g \in DOMAIN d.listed : d.listed[g] \subseteq Comp
         /\ DOMAIN d.deps \subseteq Comp
         /\ \A c \in DOMAIN d.deps : d.deps[c] \subseteq Dependency
         /\ \A c \in DOMAIN d.deps : d.entries[c] \in Seq(Entry)
BY ManifestAssumption DEF IsManifest

LEMMA RowsShape ==
  ASSUME NEW t, Describes(t), NEW c \in Comp, NEW h
  PROVE  /\ Rows(t, c, h) # {} => c \in DOMAIN t.doc.deps /\ t.doc.entries[c] \in Seq(Entry)
         /\ Rows(t, c, h) \subseteq DOMAIN t.doc.entries[c]
         /\ FileRows(t, c, h) \subseteq Rows(t, c, h)
<1>1. t.doc \in Manifests /\ t.copies \in [Comp -> Nat]
  BY DEF Describes, Tables
<1>2. t.copies[c] \in Nat
  BY <1>1
<1>3. Rows(t, c, h) # {} => t.copies[c] > 0
  BY <1>2 DEF Rows
<1>4. Rows(t, c, h) # {} => c \in DOMAIN t.doc.deps
  BY <1>3 DEF Describes
<1>5. \A x \in DOMAIN t.doc.deps : t.doc.entries[x] \in Seq(Entry)
  BY <1>1, ManifestShape
<1> QED
  BY <1>4, <1>5 DEF Rows, FileRows

\* What a release resolves to is one of the rows; on a board, or on all boards
\* of the release, it installs.
LEMMA ChosenShape ==
  ASSUME NEW t, Describes(t), NEW c \in DOMAIN t.doc.deps,
         NEW R \in SUBSET DOMAIN t.doc.entries[c], NEW board \in Board \cup {None},
         Chosen(t, c, R, board) # None
  PROVE  /\ Chosen(t, c, R, board) \in R
         /\ Chosen(t, c, R, board) \in Nat
         /\ \A b \in (IF board = None THEN t.doc.boards ELSE {board}) :
              Installs(t.doc.entries[c][Chosen(t, c, R, board)], b)
<1> DEFINE E == t.doc.entries[c]
           boards == t.doc.boards
           i == Chosen(t, c, R, board)
<1>1. t.doc \in Manifests
  BY DEF Describes, Tables
<1>2. E \in Seq(Entry) /\ boards \subseteq Board
  BY <1>1, ManifestShape
<1>3. \A j \in DOMAIN E : E[j] \in Entry /\ j \in Nat
  BY <1>2
<1>4. i = ResolveForRelease(E, R, board, boards)
  BY DEF Chosen
<1>5. CASE board # None
  <2>1. i = PickBoardRow(E, R, board)
    BY <1>4, <1>5 DEF ResolveForRelease
  <2>2. i \in R /\ Score(E[i], board) >= 0
    BY <1>2, <2>1, PickApplies
  <2>3. Installs(E[i], board)
    BY <1>3, <1>5, <2>2, ScoreTells
  <2> QED
    BY <1>3, <1>5, <2>2, <2>3
<1>6. CASE board = None /\ boards = {}
  <2>1. i = PickBoardRow(E, R, board)
    BY <1>4, <1>6 DEF ResolveForRelease
  <2>2. i \in R
    BY <1>2, <2>1, PickApplies
  <2> QED
    BY <1>3, <1>6, <2>2
<1>7. CASE board = None /\ boards # {}
  <2>1. i = PickBoardRow(E, Universal(E, R, boards), None)
    BY <1>4, <1>7 DEF ResolveForRelease
  <2>2. Universal(E, R, boards) \in SUBSET DOMAIN E
    BY DEF Universal
  <2>3. i \in Universal(E, R, boards)
    BY <1>2, <2>1, <2>2, PickApplies
  <2>4. i \in R /\ \A b \in boards : Score(E[i], b) >= 0
    BY <2>3 DEF Universal
  <2>5. \A b \in boards : Installs(E[i], b)
    BY <1>2, <1>3, <2>4, ScoreTells, ManifestAssumption
  <2> QED
    BY <1>3, <1>7, <2>4, <2>5
<1> QED
  BY <1>5, <1>6, <1>7

\* What some board of the plan installs is chosen, or depends on the board.
LEMMA ChosenComplete ==
  ASSUME NEW t, Describes(t), NEW c \in DOMAIN t.doc.deps,
         NEW R \in SUBSET DOMAIN t.doc.entries[c], NEW board \in Board \cup {None},
         NEW j \in R,
         LET B == IF board = None THEN t.doc.boards ELSE {board}
         IN B = {} \/ \E b \in B : Installs(t.doc.entries[c][j], b)
  PROVE  \/ Chosen(t, c, R, board) # None
         \/ board = None /\ Dependent(t.doc.entries[c], R, board, t.doc.boards)
<1> DEFINE E == t.doc.entries[c]
           boards == t.doc.boards
<1>1. t.doc \in Manifests
  BY DEF Describes, Tables
<1>2. E \in Seq(Entry) /\ boards \subseteq Board
  BY <1>1, ManifestShape
<1>3. E[j] \in Entry
  BY <1>2
<1>4. CASE board # None
  <2>1. Score(E[j], board) >= 0
    BY <1>3, <1>4, ScoreTells
  <2>2. PickBoardRow(E, R, board) # None
    BY <1>2, <2>1, PickApplies
  <2> QED
    BY <1>4, <2>2 DEF Chosen, ResolveForRelease
<1>5. CASE board = None /\ boards = {}
  <2>1. Score(E[j], board) >= 0
    BY <1>3, <1>5, ScoreTells
  <2>2. PickBoardRow(E, R, board) # None
    BY <1>2, <2>1, PickApplies
  <2> QED
    BY <1>5, <2>2 DEF Chosen, ResolveForRelease
<1>6. CASE board = None /\ boards # {} /\ Universal(E, R, boards) = {}
  <2>1. PICK b \in boards : Installs(E[j], b)
    BY <1>6
  <2>2. Score(E[j], b) >= 0
    BY <1>2, <1>3, <2>1, ScoreTells, ManifestAssumption
  <2> QED
    BY <1>6, <2>2 DEF Dependent
<1>7. CASE board = None /\ boards # {} /\ Universal(E, R, boards) # {}
  <2>1. Universal(E, R, boards) \in SUBSET DOMAIN E
    BY DEF Universal
  <2>2. PICK i \in Universal(E, R, boards) : TRUE
    BY <1>7
  <2>3. Score(E[i], None) >= 0
    BY <1>2, <2>1, <2>2, ScoreTells
  <2>4. PickBoardRow(E, Universal(E, R, boards), None) # None
    BY <1>2, <2>1, <2>2, <2>3, PickApplies
  <2> QED
    BY <1>7, <2>4 DEF Chosen, ResolveForRelease
<1> QED
  BY <1>4, <1>5, <1>6, <1>7

\* The answers of the two queries are of the type of a plan.
LEMMA SizedShape ==
  ASSUME NEW t, Describes(t), NEW C \in SUBSET Comp, NEW h \in Host,
         NEW board \in Board \cup {None}
  PROVE  /\ Sized(t, C, h, board) \in SUBSET (Comp \X Nat)
         /\ Flagged(t, C, h, board) \in SUBSET Comp
         /\ PlanRows(t, C, h, board) \in SUBSET (Comp \X File \X Nat)
<1>1. t.doc \in Manifests /\ t.copies \in [Comp -> Nat]
  BY DEF Describes, Tables
<1>2. ASSUME NEW c \in Comp, NEW R, R \subseteq Rows(t, c, h), R # {},
             Chosen(t, c, R, board) # None
      PROVE  Chosen(t, c, R, board) \in R /\ Chosen(t, c, R, board) \in Nat
             /\ c \in DOMAIN t.doc.deps
  <2>1. Rows(t, c, h) # {} /\ Rows(t, c, h) \subseteq DOMAIN t.doc.entries[c]
    BY <1>2, RowsShape
  <2>2. c \in DOMAIN t.doc.deps
    BY <2>1, RowsShape
  <2> QED
    BY <1>2, <2>1, <2>2, ChosenShape
<1>3. Sized(t, C, h, board) \in SUBSET (Comp \X Nat)
  <2>1. \A c \in Comp : Rows(t, c, h) # {} /\ Chosen(t, c, Rows(t, c, h), board) # None
          => Chosen(t, c, Rows(t, c, h), board) \in Nat
    BY <1>2
  <2> QED
    BY <2>1 DEF Sized
<1>4. Flagged(t, C, h, board) \in SUBSET Comp
  BY DEF Flagged
<1>5. PlanRows(t, C, h, board) \in SUBSET (Comp \X File \X Nat)
  <2>1. ASSUME NEW c \in C, FileRows(t, c, h) # {},
               Chosen(t, c, FileRows(t, c, h), board) # None
        PROVE  /\ t.copies[c] \in Nat
               /\ t.doc.entries[c][Chosen(t, c, FileRows(t, c, h), board)].files \subseteq File
    <3>1. FileRows(t, c, h) \subseteq Rows(t, c, h)
      BY RowsShape
    <3>2. /\ Chosen(t, c, FileRows(t, c, h), board) \in FileRows(t, c, h)
          /\ c \in DOMAIN t.doc.deps
      BY <1>2, <2>1, <3>1
    <3>3. /\ t.doc.entries[c] \in Seq(Entry)
          /\ Chosen(t, c, FileRows(t, c, h), board) \in DOMAIN t.doc.entries[c]
      BY <1>1, <3>1, <3>2, RowsShape, ManifestShape
    <3>4. t.doc.entries[c][Chosen(t, c, FileRows(t, c, h), board)] \in Entry
      BY <3>3
    <3> QED
      BY <1>1, <3>4 DEF Entry
  <2> QED
    BY <2>1 DEF PlanRows
<1> QED
  BY <1>3, <1>4, <1>5

\* The tables hold the rows of the components C of their manifest, and those
\* one group lists once.
Holds(t, C) ==
  /\ t.edges = UNION {EdgesOf(t.doc, c) : c \in C}
  /\ \A c \in Comp : t.copies[c] > 0 <=> c \in C
  /\ \A c \in Comp : ListedOnce(t.doc, c) => t.copies[c] <= 1
Full(t) == Holds(t, Ingested(t.doc))

\* A plan computed from complete tables is sound.
LEMMA PlanFromFull ==
  ASSUME NEW t, Describes(t), Full(t), plan \in Plan,
         plan.sized = Sized(t, plan.comps, plan.host, plan.board),
         plan.flagged = Flagged(t, plan.comps, plan.host, plan.board),
         plan.files = PlanRows(t, plan.comps, plan.host, plan.board)
  PROVE  PlanFitsBoards(t.doc) /\ PlanMatchesSizes(t.doc)
<1> DEFINE C == IF plan.comps = {} THEN Comp ELSE plan.comps
           h == plan.host
           board == plan.board
           Pick(c, R) == Chosen(t, c, R, board)
<1>1. /\ plan.comps \in SUBSET Comp /\ C \in SUBSET Comp
      /\ h \in Host /\ board \in Board \cup {None}
  BY DEF Plan
<1>2. t.doc \in Manifests /\ t.copies \in [Comp -> Nat]
  BY DEF Describes, Tables
<1>3. PlanBoards(t.doc) = IF board = None THEN t.doc.boards ELSE {board}
  BY DEF PlanBoards
<1>4. \A x \in plan.sized : \E c \in C : /\ Rows(t, c, h) # {} /\ Pick(c, Rows(t, c, h)) # None
                                       /\ x = <<c, Pick(c, Rows(t, c, h))>>
  BY DEF Sized
<1>5. \A c \in C : Rows(t, c, h) # {} /\ Pick(c, Rows(t, c, h)) # None
                 => <<c, Pick(c, Rows(t, c, h))>> \in plan.sized
  BY DEF Sized
<1>6. ASSUME NEW x \in plan.sized
      PROVE  /\ x[2] \in DOMAIN t.doc.entries[x[1]] /\ h \in t.doc.entries[x[1]][x[2]].hosts
             /\ \A b \in PlanBoards(t.doc) : Installs(t.doc.entries[x[1]][x[2]], b)
  <2>1. PICK c \in C : /\ Rows(t, c, h) # {} /\ Pick(c, Rows(t, c, h)) # None
                      /\ x = <<c, Pick(c, Rows(t, c, h))>>
    BY <1>4
  <2>2. c \in DOMAIN t.doc.deps /\ Rows(t, c, h) \in SUBSET DOMAIN t.doc.entries[c]
    BY <1>1, <2>1, RowsShape
  <2>a. /\ Pick(c, Rows(t, c, h)) \in Rows(t, c, h)
        /\ \A b \in (IF board = None THEN t.doc.boards ELSE {board}) :
             Installs(t.doc.entries[c][Pick(c, Rows(t, c, h))], b)
    BY <1>1, <2>1, <2>2, ChosenShape
  <2>3. /\ x[2] \in Rows(t, c, h)
        /\ \A b \in PlanBoards(t.doc) : Installs(t.doc.entries[c][x[2]], b)
    BY <1>3, <2>1, <2>a
  <2>4. x[2] \in DOMAIN t.doc.entries[c] /\ h \in t.doc.entries[c][x[2]].hosts
    BY <2>3 DEF Rows
  <2> QED
    BY <2>1, <2>3, <2>4
<1>7. ASSUME NEW c \in C \cap Ingested(t.doc), NEW i \in DOMAIN t.doc.entries[c],
             h \in t.doc.entries[c][i].hosts,
             PlanBoards(t.doc) = {} \/ \E b \in PlanBoards(t.doc) : Installs(t.doc.entries[c][i], b)
      PROVE  (\E x \in plan.sized : x[1] = c) \/ (board = None /\ c \in plan.flagged)
  <2>1. c \in Comp /\ t.copies[c] > 0 /\ t.copies[c] \in Nat
    BY <1>1, <1>2 DEF Full, Holds
  <2>2. i \in Rows(t, c, h)
    BY <1>7, <2>1 DEF Rows
  <2>3. c \in DOMAIN t.doc.deps /\ Rows(t, c, h) \in SUBSET DOMAIN t.doc.entries[c]
    BY <2>1, <2>2, RowsShape
  <2>4. \/ Pick(c, Rows(t, c, h)) # None
        \/ board = None /\ Dependent(t.doc.entries[c], Rows(t, c, h), board, t.doc.boards)
    <3>1. LET B == IF board = None THEN t.doc.boards ELSE {board}
          IN B = {} \/ \E b \in B : Installs(t.doc.entries[c][i], b)
      BY <1>3, <1>7
    <3> QED
      BY <1>1, <2>2, <2>3, <3>1, ChosenComplete
  <2>5. CASE Pick(c, Rows(t, c, h)) # None
    BY <1>5, <2>2, <2>5
  <2>6. CASE board = None /\ Dependent(t.doc.entries[c], Rows(t, c, h), board, t.doc.boards)
    BY <2>2, <2>6 DEF Flagged
  <2> QED
    BY <2>4, <2>5, <2>6
<1>8. PlanFitsBoards(t.doc)
  BY <1>6, <1>7 DEF PlanFitsBoards
<1>9. ASSUME plan.comps # {}, NEW c \in plan.comps \cap Ingested(t.doc), ListedOnce(t.doc, c),
             \A i \in DOMAIN t.doc.entries[c] : t.doc.entries[c][i].files # {}
      PROVE  {x \in plan.files : x[1] = c} =
                UNION {{<<c, f, 1>> : f \in t.doc.entries[c][x[2]].files} :
                       x \in {x \in plan.sized : x[1] = c}}
  <2>1. c \in Comp /\ t.copies[c] = 1
    BY <1>1, <1>2, <1>9 DEF Full, Holds
  <2>2. FileRows(t, c, h) = Rows(t, c, h)
    BY <1>9, <2>1, RowsShape DEF FileRows, Rows
  <2>3. CASE Rows(t, c, h) = {} \/ Pick(c, Rows(t, c, h)) = None
    <3>1. {x \in plan.sized : x[1] = c} = {}
      BY <1>4, <2>3
    <3>2. {x \in plan.files : x[1] = c} = {}
      BY <2>2, <2>3 DEF PlanRows
    <3> QED
      BY <3>1, <3>2
  <2>4. CASE Rows(t, c, h) # {} /\ Pick(c, Rows(t, c, h)) # None
    <3> DEFINE files == t.doc.entries[c][Pick(c, Rows(t, c, h))].files
    <3>1. {x \in plan.sized : x[1] = c} = {<<c, Pick(c, Rows(t, c, h))>>}
      BY <1>4, <1>5, <2>4
    <3>2. {x \in plan.files : x[1] = c} = {<<c, f, 1>> : f \in files}
      BY <2>1, <2>2, <2>4 DEF PlanRows
    <3>3. UNION {{<<c, f, 1>> : f \in t.doc.entries[c][x[2]].files} :
                 x \in {<<c, Pick(c, Rows(t, c, h))>>}} = {<<c, f, 1>> : f \in files}
      OBVIOUS
    <3> QED
      BY <3>1, <3>2, <3>3
  <2> QED
    BY <2>3, <2>4
<1>10. PlanMatchesSizes(t.doc)
  BY <1>9 DEF PlanMatchesSizes
<1> QED
  BY <1>8, <1>10

\* In complete tables the walk follows what the manifest needs.
LEMMA FollowsNeeds ==
  ASSUME NEW t, Describes(t), Full(t), optional \in BOOLEAN, NEW c \in Id
  PROVE  Follows(t, c) = IF c \in Ingested(t.doc) THEN Needs(t.doc, c, optional) ELSE {}
<1> DEFINE d == t.doc
<1>1. d \in Manifests
  BY DEF Describes, Tables
<1>2. t.edges = UNION {EdgesOf(d, x) : x \in Ingested(d)}
  BY DEF Full, Holds
<1>3. \A kind, x : <<c, kind, x>> \in t.edges <=> c \in Ingested(d) /\ <<c, kind, x>> \in EdgesOf(d, c)
  BY <1>2 DEF EdgesOf
<1>4. \A kind, x : <<c, kind, x>> \in EdgesOf(d, c) <=>
           \E dep \in d.deps[c] : dep.kind = kind /\ x \in Targets(d, dep.on)
  BY DEF EdgesOf
<1>5. CASE c \notin Ingested(d)
  BY <1>3, <1>5 DEF Follows
<1>6. CASE c \in Ingested(d)
  <2>1. d.deps[c] \subseteq Dependency
    BY <1>1, <1>6, ManifestShape DEF Ingested
  <2>2. \A dep \in d.deps[c] : dep.kind \in {"required", "optional"}
    BY <2>1 DEF Dependency
  <2>3. Follows(t, c) = {x \in Id : \E dep \in d.deps[c] :
                            /\ optional \/ dep.kind = "required"
                            /\ x \in Targets(d, dep.on)}
    BY <1>3, <1>4, <1>6, <2>2 DEF Follows
  <2>4. \A dep \in d.deps[c], x \in Id : x \in Targets(d, dep.on) <=>
           \/ x = dep.on /\ dep.on \notin DOMAIN d.listed
           \/ dep.on \in DOMAIN d.listed /\ x \in d.listed[dep.on]
    BY DEF Targets
  <2> QED
    BY <1>6, <2>3, <2>4 DEF Needs
<1> QED
  BY <1>5, <1>6

----------------------------------------------------------------------------
(* The build: after a group the draft holds one group more.                  *)

\* The components of the groups that are ingested, rest being still to do.
Got(d, rest) == {c \in DOMAIN d.deps : \E g \in GroupsOf(d) \ rest : c \in Members(d, g[1])}

LEMMA GotNothing == ASSUME NEW d PROVE Got(d, GroupsOf(d)) = {}
BY DEF Got

LEMMA GotAll == ASSUME NEW d \in Manifests PROVE Got(d, {}) = Ingested(d)
<1>1. d.sections \subseteq Group \X Section
  BY ManifestShape
<1>2. CASE d.sections = {}
  <2>1. GroupsOf(d) = (DOMAIN d.listed) \X {None}
    BY <1>2 DEF GroupsOf
  <2>2. \A c : (\E g \in GroupsOf(d) : c \in Members(d, g[1]))
               <=> \E g \in DOMAIN d.listed : c \in d.listed[g]
    <3>1. \A g \in DOMAIN d.listed : <<g, None>> \in GroupsOf(d) /\ <<g, None>>[1] = g
      BY <2>1
    <3>2. \A p \in GroupsOf(d) : p[1] \in DOMAIN d.listed
      BY <2>1
    <3> QED
      BY <3>1, <3>2 DEF Members
  <2> QED
    BY <1>2, <2>2 DEF Got, Ingested
<1>3. CASE d.sections # {}
  <2>1. GroupsOf(d) = d.sections
    BY <1>3 DEF GroupsOf
  <2>2. \A c : (\E g \in GroupsOf(d) : c \in Members(d, g[1]))
               <=> \E g \in DOMAIN d.listed : /\ c \in d.listed[g]
                                              /\ \E s \in Section : <<g, s>> \in d.sections
    <3>1. \A g, s : <<g, s>> \in d.sections => <<g, s>> \in GroupsOf(d) /\ <<g, s>>[1] = g
      BY <2>1
    <3>2. \A p \in GroupsOf(d) : p[2] \in Section /\ <<p[1], p[2]>> \in d.sections
      BY <1>1, <2>1
    <3>3. \A p \in GroupsOf(d) : \E s \in Section : <<p[1], s>> \in d.sections
      BY <3>2
    <3> QED
      BY <3>1, <3>3 DEF Members
  <2> QED
    BY <1>3, <2>2 DEF Got, Ingested
<1> QED
  BY <1>2, <1>3

LEMMA BlankHolds ==
  ASSUME NEW d \in Manifests
  PROVE  Describes(Blank(d)) /\ Blank(d).doc = d /\ Holds(Blank(d), {})
BY DEF Describes, Tables, Blank, Holds

LEMMA WithGroupShape ==
  ASSUME NEW t \in Tables, NEW g \in Group
  PROVE  LET C == Members(t.doc, g) \cap DOMAIN t.doc.deps
         IN /\ WithGroup(t, g) \in Tables /\ WithGroup(t, g).doc = t.doc
            /\ WithGroup(t, g).edges = t.edges \cup UNION {EdgesOf(t.doc, c) : c \in C}
            /\ \A c \in Comp : WithGroup(t, g).copies[c] = t.copies[c] + (IF c \in C THEN 1 ELSE 0)
<1> DEFINE C == Members(t.doc, g) \cap DOMAIN t.doc.deps
           copies == [c \in Comp |-> IF c \in C THEN t.copies[c] + 1 ELSE t.copies[c]]
           edges == t.edges \cup UNION {EdgesOf(t.doc, c) : c \in C}
<1>1. /\ t.doc \in Manifests /\ t.copies \in [Comp -> Nat]
      /\ t.edges \subseteq Comp \X {"required", "optional"} \X Id
      /\ t = [doc |-> t.doc, copies |-> t.copies, edges |-> t.edges]
  BY DEF Tables
<1>2. WithGroup(t, g) = [doc |-> t.doc, copies |-> copies, edges |-> edges]
  BY <1>1 DEF WithGroup
<1>3. copies \in [Comp -> Nat]
  BY <1>1
<1>4. ASSUME NEW c \in C PROVE EdgesOf(t.doc, c) \subseteq Comp \X {"required", "optional"} \X Id
  <2>1. c \in Comp /\ t.doc.deps[c] \subseteq Dependency
    BY <1>1, ManifestShape
  <2>2. ASSUME NEW dep \in t.doc.deps[c]
        PROVE  dep.kind \in {"required", "optional"} /\ Targets(t.doc, dep.on) \subseteq Id
    <3>1. dep.kind \in {"required", "optional"} /\ dep.on \in Id
      BY <2>1 DEF Dependency
    <3> QED
      BY <1>1, <3>1, ManifestShape DEF Targets, Id
  <2> QED
    BY <2>1, <2>2 DEF EdgesOf
<1>5. edges \subseteq Comp \X {"required", "optional"} \X Id
  BY <1>1, <1>4
<1>6. \A c \in Comp : copies[c] = t.copies[c] + (IF c \in C THEN 1 ELSE 0)
  BY <1>1
<1> HIDE DEF copies, edges
<1>7. [doc |-> t.doc, copies |-> copies, edges |-> edges] \in Tables
  BY <1>1, <1>3, <1>5 DEF Tables
<1> QED
  BY <1>2, <1>6, <1>7 DEF edges

LEMMA GroupHolds ==
  ASSUME NEW t, Describes(t), NEW rest, rest \subseteq GroupsOf(t.doc), NEW g \in rest,
         g[1] \in Group, Holds(t, Got(t.doc, rest))
  PROVE  /\ Describes(WithGroup(t, g[1]))
         /\ Holds(WithGroup(t, g[1]), Got(t.doc, rest \ {g}))
<1> DEFINE C == Members(t.doc, g[1]) \cap DOMAIN t.doc.deps
           u == WithGroup(t, g[1])
<1>1. t \in Tables /\ t.copies \in [Comp -> Nat] /\ t.doc \in Manifests
  BY DEF Describes, Tables
<1>2. Got(t.doc, rest \ {g}) = Got(t.doc, rest) \cup C
  BY DEF Got
<1>3. /\ u \in Tables /\ u.doc = t.doc
      /\ u.edges = t.edges \cup UNION {EdgesOf(t.doc, c) : c \in C}
      /\ \A c \in Comp : u.copies[c] = t.copies[c] + (IF c \in C THEN 1 ELSE 0)
  BY <1>1, WithGroupShape
<1> HIDE DEF u, C
<1>4. u.edges = UNION {EdgesOf(u.doc, c) : c \in Got(t.doc, rest \ {g})}
  <2>1. t.edges = UNION {EdgesOf(t.doc, c) : c \in Got(t.doc, rest)}
    BY DEF Holds
  <2> QED
    BY <1>2, <1>3, <2>1
<1>5. ASSUME NEW c \in Comp
      PROVE  /\ u.copies[c] > 0 <=> c \in Got(t.doc, rest \ {g})
             /\ ListedOnce(u.doc, c) => u.copies[c] <= 1
             /\ u.copies[c] > 0 => c \in DOMAIN t.doc.deps
  <2>1. /\ t.copies[c] \in Nat /\ (t.copies[c] > 0 <=> c \in Got(t.doc, rest))
        /\ ListedOnce(t.doc, c) => t.copies[c] <= 1
    BY <1>1 DEF Holds
  <2>2. u.copies[c] = t.copies[c] + (IF c \in C THEN 1 ELSE 0)
    BY <1>3
  <2>3. ListedOnce(t.doc, c) /\ c \in C => c \notin Got(t.doc, rest)
    BY DEF ListedOnce, Got, C
  <2>4. Got(t.doc, rest \ {g}) \subseteq DOMAIN t.doc.deps
    BY DEF Got
  <2>5. u.copies[c] > 0 <=> c \in Got(t.doc, rest \ {g})
    <3>1. u.copies[c] > 0 <=> t.copies[c] > 0 \/ c \in C
      BY <2>1, <2>2
    <3>2. c \in Got(t.doc, rest \ {g}) <=> c \in Got(t.doc, rest) \/ c \in C
      BY <1>2
    <3> QED
      BY <2>1, <3>1, <3>2
  <2>6. ListedOnce(u.doc, c) => u.copies[c] <= 1
    BY <1>3, <2>1, <2>2, <2>3
  <2> QED
    BY <2>4, <2>5, <2>6
<1>6. Holds(u, Got(t.doc, rest \ {g}))
  BY <1>4, <1>5 DEF Holds
<1>7. Describes(u)
  BY <1>3, <1>5 DEF Describes
<1> QED
  BY <1>6, <1>7 DEF u

----------------------------------------------------------------------------
(* The inductive invariant.                                                  *)

AllDescribe == Describes(draft) /\ Describes(db) /\ (con # None => Describes(con))
\* A draft holds the groups that are done; a built file holds them all.
BuildKeeps ==
  /\ phase = "building" => todo \subseteq GroupsOf(draft.doc) /\ Holds(draft, Got(draft.doc, todo))
  /\ phase = "built" => Full(db)
\* What is opened complete stays so, whatever is built at its path.
WholeIsFull == whole => con # None /\ Full(con)
\* A walk has pushed all that its visits need, and nothing it could do without.
WalkKeeps ==
  at \in {"walking", "resolved"} /\ whole =>
    /\ roots \subseteq seen \cup pending
    /\ \A c \in seen \cap Ingested(con.doc) : Needs(con.doc, c, optional) \subseteq seen \cup pending
    /\ \A S \in SUBSET Id : roots \subseteq S /\ Closed(con.doc, S, optional)
                             => seen \cup pending \subseteq S
    /\ at = "resolved" => pending = {}
\* Both queries of a plan read the same tables.
PlanKeeps ==
  at \in {"sized", "planned"} =>
    /\ plan \in Plan
    /\ whole =>
         /\ plan.sized = Sized(con, plan.comps, plan.host, plan.board)
         /\ plan.flagged = Flagged(con, plan.comps, plan.host, plan.board)
         /\ at = "planned" => plan.files = PlanRows(con, plan.comps, plan.host, plan.board)
IInv == TypeOK /\ AllDescribe /\ BuildKeeps /\ WholeIsFull /\ WalkKeeps /\ PlanKeeps

LEMMA InitHolds == Init => IInv
<1> SUFFICES ASSUME Init PROVE IInv
  OBVIOUS
<1>1. PICK d \in Manifests : draft = Blank(d) /\ db = Blank(d)
  BY ManifestAssumption DEF Init
<1>2. Describes(draft) /\ Describes(db) /\ draft \in Tables /\ db \in Tables
  BY <1>1, BlankHolds DEF Describes
<1>3. /\ phase = "absent" /\ builds = 0 /\ todo = {} /\ at = "idle" /\ con = None
      /\ whole = FALSE /\ roots = {} /\ optional = FALSE /\ seen = {} /\ pending = {}
      /\ plan = None
  BY DEF Init
<1>4. builds \in 0..MaxBuild
  BY <1>3, ManifestAssumption
<1>5. TypeOK
  BY <1>2, <1>3, <1>4 DEF TypeOK
<1> QED
  BY <1>2, <1>3, <1>5 DEF IInv, AllDescribe, BuildKeeps, WholeIsFull, WalkKeeps, PlanKeeps

LEMMA GroupsShape ==
  ASSUME NEW d \in Manifests
  PROVE  GroupsOf(d) \subseteq Group \X (Section \cup {None})
<1>1. d.sections \subseteq Group \X Section /\ DOMAIN d.listed \subseteq Group
  BY ManifestShape
<1> QED
  BY <1>1 DEF GroupsOf

LEMMA BuildStep == ASSUME IInv, NEW d \in Manifests, Build(d) PROVE IInv'
<1>1. /\ phase' = "building" /\ builds' = builds + 1 /\ builds < MaxBuild
      /\ todo' = GroupsOf(d) /\ draft' = Blank(d) /\ db' = Blank(d)
      /\ UNCHANGED <<at, con, whole, roots, optional, seen, pending, plan>>
  BY DEF Build, walkVars
<1>2. Describes(Blank(d)) /\ Blank(d).doc = d /\ Holds(Blank(d), {})
  BY BlankHolds
<1>3. TypeOK'
  BY <1>1, <1>2, GroupsShape, ManifestAssumption DEF IInv, TypeOK, Describes
<1>4. AllDescribe'
  BY <1>1, <1>2 DEF IInv, AllDescribe
<1>5. BuildKeeps'
  BY <1>1, <1>2, GotNothing DEF BuildKeeps
<1>6. WholeIsFull' /\ WalkKeeps' /\ PlanKeeps'
  BY <1>1 DEF IInv, WholeIsFull, WalkKeeps, PlanKeeps
<1> QED
  BY <1>3, <1>4, <1>5, <1>6 DEF IInv

LEMMA IngestStep == ASSUME IInv, NEW g \in todo, Ingest(g) PROVE IInv'
<1>1. /\ phase = "building" /\ todo' = todo \ {g} /\ draft' = WithGroup(draft, g[1])
      /\ UNCHANGED <<phase, builds, db, at, con, whole, roots, optional, seen, pending, plan>>
  BY DEF Ingest, walkVars
<1>2. /\ Describes(draft) /\ todo \subseteq GroupsOf(draft.doc) /\ g[1] \in Group
      /\ Holds(draft, Got(draft.doc, todo)) /\ draft \in Tables
  BY <1>1 DEF IInv, TypeOK, AllDescribe, BuildKeeps
<1>3. Describes(draft') /\ Holds(draft', Got(draft.doc, todo')) /\ draft'.doc = draft.doc
  BY <1>1, <1>2, GroupHolds, WithGroupShape
<1>4. TypeOK'
  BY <1>1, <1>3 DEF IInv, TypeOK, Describes
<1>5. AllDescribe'
  BY <1>1, <1>3 DEF IInv, AllDescribe
<1>6. BuildKeeps'
  BY <1>1, <1>2, <1>3 DEF BuildKeeps
<1>7. WholeIsFull' /\ WalkKeeps' /\ PlanKeeps'
  BY <1>1 DEF IInv, WholeIsFull, WalkKeeps, PlanKeeps
<1> QED
  BY <1>4, <1>5, <1>6, <1>7 DEF IInv

\* Who has a complete database open is not concerned; the others have nothing
\* to hold.
LEMMA FinishStep ==
  ASSUME IInv, NEW p \in {"built", "failed"}, NEW t, Describes(t), p = "built" => Full(t),
         Finish(p, t)
  PROVE  IInv'
<1>1. /\ phase' = p /\ db' = t
      /\ con' = IF con = None /\ at \in {"walking", "sized"} THEN t ELSE con
      /\ UNCHANGED <<builds, todo, draft, at, whole, roots, optional, seen, pending, plan>>
  BY DEF Finish, walkVars
<1>2. t \in Tables
  BY DEF Describes
<1>3. whole => con' = con
  BY <1>1 DEF IInv, WholeIsFull
<1>4. TypeOK'
  BY <1>1, <1>2 DEF IInv, TypeOK
<1>5. AllDescribe'
  BY <1>1 DEF IInv, AllDescribe
<1>6. BuildKeeps'
  BY <1>1 DEF BuildKeeps
<1>7. WholeIsFull' /\ WalkKeeps' /\ PlanKeeps'
  BY <1>1, <1>3 DEF IInv, WholeIsFull, WalkKeeps, PlanKeeps
<1> QED
  BY <1>4, <1>5, <1>6, <1>7 DEF IInv

LEMMA CommitStep == ASSUME IInv, Commit PROVE IInv'
<1>1. phase = "building" /\ todo = {} /\ Describes(draft) /\ draft.doc \in Manifests
  BY DEF Commit, Finish, IInv, AllDescribe, Describes, Tables
<1>2. Full(draft)
  BY <1>1, GotAll DEF IInv, BuildKeeps, Full
<1> QED
  BY <1>1, <1>2, FinishStep DEF Commit

LEMMA CollideStep == ASSUME IInv, Collide PROVE IInv'
<1>1. Describes(Blank(draft.doc))
  BY BlankHolds DEF IInv, AllDescribe, Describes, Tables
<1> QED
  BY <1>1, FinishStep DEF Collide

\* A connection made to a built file is one to complete tables.
LEMMA ConnectOpens ==
  ASSUME IInv, Connect
  PROVE  /\ con' \in Tables \cup {None} /\ (con' # None => Describes(con'))
         /\ whole' \in BOOLEAN /\ (whole' => con' = db /\ con' # None /\ Full(con'))
<1>1. con' = (IF phase = "building" THEN None ELSE db) /\ whole' = (phase = "built")
  BY DEF Connect
<1>2. db \in Tables /\ Describes(db) /\ (phase = "built" => Full(db))
  BY DEF IInv, TypeOK, AllDescribe, BuildKeeps
<1> QED
  BY <1>1, <1>2, NoneAssumption

LEMMA AskStep ==
  ASSUME IInv, NEW S \in SUBSET Comp, NEW opt \in BOOLEAN, Ask(S, opt)
  PROVE  IInv'
<1>1. /\ at' = "walking" /\ roots' = S /\ optional' = opt /\ seen' = {} /\ pending' = S
      /\ plan' = None /\ UNCHANGED <<phase, builds, todo, draft, db>> /\ Connect
  BY DEF Ask, buildVars
<1>2. /\ con' \in Tables \cup {None} /\ (con' # None => Describes(con'))
      /\ whole' \in BOOLEAN /\ (whole' => con' = db /\ con' # None /\ Full(con'))
  BY <1>1, ConnectOpens
<1>3. TypeOK'
  BY <1>1, <1>2 DEF IInv, TypeOK, Id
<1>4. AllDescribe' /\ BuildKeeps' /\ WholeIsFull'
  BY <1>1, <1>2 DEF IInv, AllDescribe, BuildKeeps, WholeIsFull
<1>5. WalkKeeps' /\ PlanKeeps'
  BY <1>1 DEF WalkKeeps, PlanKeeps
<1> QED
  BY <1>3, <1>4, <1>5 DEF IInv

\* A visit moves an id from pending to seen, and pushes what it needs.
LEMMA VisitStep == ASSUME IInv, NEW c \in pending, Visit(c) PROVE IInv'
<1>1. /\ at = "walking" /\ seen' = seen \cup {c}
      /\ pending' = (pending \cup Follows(Reads, c)) \ seen'
      /\ UNCHANGED <<phase, builds, todo, draft, db, at, con, whole, roots, optional, plan>>
  BY DEF Visit, buildVars
<1>2. c \in Id /\ Follows(Reads, c) \subseteq Id /\ seen \subseteq Id /\ pending \subseteq Id
  BY DEF IInv, TypeOK, Follows
<1>3. TypeOK'
  BY <1>1, <1>2 DEF IInv, TypeOK
<1>4. AllDescribe' /\ BuildKeeps' /\ WholeIsFull' /\ PlanKeeps'
  BY <1>1 DEF IInv, AllDescribe, BuildKeeps, WholeIsFull, PlanKeeps
<1>5. ASSUME whole PROVE WalkKeeps'
  <2> DEFINE d == con.doc
             F == Follows(con, c)
  <2>1. con # None /\ Full(con) /\ Describes(con) /\ optional \in BOOLEAN /\ Reads = con
    BY <1>5 DEF IInv, WholeIsFull, AllDescribe, TypeOK, Reads
  <2>2. F = IF c \in Ingested(d) THEN Needs(d, c, optional) ELSE {}
    BY <1>2, <2>1, FollowsNeeds
  <2>3. /\ roots \subseteq seen \cup pending
        /\ \A x \in seen \cap Ingested(d) : Needs(d, x, optional) \subseteq seen \cup pending
        /\ \A S \in SUBSET Id : roots \subseteq S /\ Closed(d, S, optional)
                                 => seen \cup pending \subseteq S
    BY <1>1, <1>5 DEF IInv, WalkKeeps
  <2>4. seen' \cup pending' = seen \cup pending \cup F
    BY <1>1, <2>1
  <2>5. roots \subseteq seen' \cup pending'
    BY <2>3, <2>4
  <2>6. \A x \in seen' \cap Ingested(d) : Needs(d, x, optional) \subseteq seen' \cup pending'
    BY <1>1, <2>2, <2>3, <2>4
  <2>7. ASSUME NEW S \in SUBSET Id, roots \subseteq S, Closed(d, S, optional)
        PROVE  seen' \cup pending' \subseteq S
    <3>1. seen \cup pending \subseteq S
      BY <2>3, <2>7
    <3>2. F \subseteq S
      BY <2>2, <2>7, <3>1 DEF Closed
    <3> QED
      BY <2>4, <3>1, <3>2
  <2> HIDE DEF F
  <2> QED
    BY <1>1, <2>5, <2>6, <2>7 DEF WalkKeeps
<1>6. ASSUME ~whole PROVE WalkKeeps'
  BY <1>1, <1>6 DEF WalkKeeps
<1>7. WalkKeeps'
  BY <1>5, <1>6
<1> QED
  BY <1>3, <1>4, <1>7 DEF IInv

LEMMA ResolvedStep == ASSUME IInv, Resolved PROVE IInv'
<1>1. /\ at = "walking" /\ pending = {} /\ at' = "resolved"
      /\ UNCHANGED <<phase, builds, todo, draft, db, con, whole, roots, optional, seen, pending, plan>>
  BY DEF Resolved, buildVars, walkVars
<1>2. TypeOK' /\ AllDescribe' /\ BuildKeeps' /\ WholeIsFull' /\ PlanKeeps'
  BY <1>1 DEF IInv, TypeOK, AllDescribe, BuildKeeps, WholeIsFull, PlanKeeps
<1>3. WalkKeeps'
  BY <1>1 DEF IInv, WalkKeeps
<1> QED
  BY <1>2, <1>3 DEF IInv

LEMMA LockedOutStep == ASSUME IInv, LockedOut PROVE IInv'
<1>1. /\ at' = "idle" /\ plan' = None
      /\ UNCHANGED <<phase, builds, todo, draft, db, con, whole, roots, optional, seen, pending>>
  BY DEF LockedOut, buildVars, walkVars
<1>2. TypeOK' /\ AllDescribe' /\ BuildKeeps' /\ WholeIsFull'
  BY <1>1 DEF IInv, TypeOK, AllDescribe, BuildKeeps, WholeIsFull
<1>3. WalkKeeps' /\ PlanKeeps'
  BY <1>1 DEF WalkKeeps, PlanKeeps
<1> QED
  BY <1>2, <1>3 DEF IInv

LEMMA SizeStep ==
  ASSUME IInv, NEW C \in {seen \cap Comp, {}}, NEW h \in Host, NEW board \in Board \cup {None},
         Size(C, h, board)
  PROVE  IInv'
<1> DEFINE answer == [comps |-> C, host |-> h, board |-> board,
                      sized |-> Sized(db, C, h, board), flagged |-> Flagged(db, C, h, board),
                      files |-> {}]
<1>1. /\ at' = "sized" /\ plan' = answer /\ Connect
      /\ UNCHANGED <<phase, builds, todo, draft, db, roots, optional, seen, pending>>
  BY DEF Size, buildVars, walkVars
<1>2. /\ con' \in Tables \cup {None} /\ (con' # None => Describes(con'))
      /\ whole' \in BOOLEAN /\ (whole' => con' = db /\ con' # None /\ Full(con'))
  BY <1>1, ConnectOpens
<1>3. C \in SUBSET Comp /\ Describes(db)
  BY DEF IInv, AllDescribe
<1>4. answer \in Plan
  <2>1. Sized(db, C, h, board) \in SUBSET (Comp \X Nat) /\ Flagged(db, C, h, board) \in SUBSET Comp
    BY <1>3, SizedShape
  <2> QED
    BY <1>3, <2>1 DEF Plan
<1>5. TypeOK'
  BY <1>1, <1>2, <1>4 DEF IInv, TypeOK
<1>6. AllDescribe' /\ BuildKeeps' /\ WholeIsFull'
  BY <1>1, <1>2 DEF IInv, AllDescribe, BuildKeeps, WholeIsFull
<1>7. WalkKeeps' /\ PlanKeeps'
  BY <1>1, <1>2, <1>4 DEF WalkKeeps, PlanKeeps
<1> QED
  BY <1>5, <1>6, <1>7 DEF IInv

LEMMA ListFilesStep == ASSUME IInv, ListFiles PROVE IInv'
<1> DEFINE rows == PlanRows(Reads, plan.comps, plan.host, plan.board)
<1>1. /\ at = "sized" /\ at' = "planned" /\ plan' = [plan EXCEPT !.files = rows]
      /\ UNCHANGED <<phase, builds, todo, draft, db, con, whole, roots, optional, seen, pending>>
  BY DEF ListFiles, buildVars, walkVars
<1>2. plan \in Plan /\ Describes(Reads)
  BY <1>1 DEF IInv, PlanKeeps, AllDescribe, Reads
<1>3. /\ plan.comps \in SUBSET Comp /\ plan.host \in Host /\ plan.board \in Board \cup {None}
  BY <1>2 DEF Plan
<1>4. rows \in SUBSET (Comp \X File \X Nat)
  BY <1>2, <1>3, SizedShape
<1> HIDE DEF rows
<1>5. /\ plan' \in Plan /\ plan'.files = rows /\ plan'.sized = plan.sized
      /\ plan'.flagged = plan.flagged /\ plan'.comps = plan.comps
      /\ plan'.host = plan.host /\ plan'.board = plan.board
  BY <1>1, <1>2, <1>4 DEF Plan
<1>6. TypeOK'
  BY <1>1, <1>5 DEF IInv, TypeOK
<1>7. AllDescribe' /\ BuildKeeps' /\ WholeIsFull' /\ WalkKeeps'
  BY <1>1 DEF IInv, AllDescribe, BuildKeeps, WholeIsFull, WalkKeeps
<1>8. PlanKeeps'
  <2>1. whole => rows = PlanRows(con, plan.comps, plan.host, plan.board)
    BY DEF rows, Reads, IInv, WholeIsFull
  <2> QED
    BY <1>1, <1>5, <2>1 DEF IInv, PlanKeeps
<1> QED
  BY <1>6, <1>7, <1>8 DEF IInv

LEMMA NextHolds == IInv /\ [Next]_vars => IInv'
<1> SUFFICES ASSUME IInv, [Next]_vars PROVE IInv'
  OBVIOUS
<1>1. CASE UNCHANGED vars
  BY <1>1 DEF vars, IInv, TypeOK, AllDescribe, BuildKeeps, WholeIsFull, WalkKeeps, PlanKeeps
<1>2. CASE Next
  BY <1>2, BuildStep, IngestStep, CommitStep, CollideStep, AskStep, VisitStep, ResolvedStep,
     LockedOutStep, SizeStep, ListFilesStep DEF Next
<1> QED
  BY <1>1, <1>2

----------------------------------------------------------------------------

\* The build, the tools and what they answer are type-correct, for all
\* manifests and requests.
THEOREM TypeCorrect == Spec => []TypeOK
<1>1. IInv => TypeOK
  BY DEF IInv
<1> QED
  BY <1>1, InitHolds, NextHolds, PTL DEF Spec

\* resolve_deps returns the transitive closure of what it is asked for, for all
\* manifests and in whatever order the stack is worked off.
THEOREM ResolveCorrect == Spec => []ResolvesClosure
<1>1. IInv => ResolvesClosure
  <2> SUFFICES ASSUME IInv, at = "resolved", whole
               PROVE  /\ roots \subseteq seen /\ Closed(con.doc, seen, optional)
                      /\ \A S \in SUBSET seen :
                           roots \subseteq S /\ Closed(con.doc, S, optional) => S = seen
    BY DEF ResolvesClosure
  <2>1. /\ pending = {} /\ roots \subseteq seen
        /\ \A c \in seen \cap Ingested(con.doc) : Needs(con.doc, c, optional) \subseteq seen
        /\ \A S \in SUBSET Id : roots \subseteq S /\ Closed(con.doc, S, optional) => seen \subseteq S
    BY DEF IInv, WalkKeeps
  <2>2. seen \subseteq Id
    BY DEF IInv, TypeOK
  <2> QED
    BY <2>1, <2>2 DEF Closed
<1> QED
  BY <1>1, InitHolds, NextHolds, PTL DEF Spec

\* Every plan made on a complete database is right for its board, or for every
\* board of the release, and its files are those of what it sizes.
THEOREM PlanCorrect == Spec => []PlanIsSound
<1>1. IInv => PlanIsSound
  <2> SUFFICES ASSUME IInv, at = "planned", whole
               PROVE  PlanFitsBoards(con.doc) /\ PlanMatchesSizes(con.doc)
    BY DEF PlanIsSound
  <2>1. con # None /\ Full(con) /\ Describes(con)
    BY DEF IInv, WholeIsFull, AllDescribe
  <2>2. /\ plan \in Plan
        /\ plan.sized = Sized(con, plan.comps, plan.host, plan.board)
        /\ plan.flagged = Flagged(con, plan.comps, plan.host, plan.board)
        /\ plan.files = PlanRows(con, plan.comps, plan.host, plan.board)
    BY DEF IInv, PlanKeeps
  <2> QED
    BY <2>1, <2>2, PlanFromFull
<1> QED
  BY <1>1, InitHolds, NextHolds, PTL DEF Spec
=============================================================================
