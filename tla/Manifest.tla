------------------------------ MODULE Manifest ------------------------------
(* The manifest database and the tools that answer from it.  A build         *)
(* (manifest_db.py) reads the captured manifest of a release into a new      *)
(* database file, group by group, in one transaction.  The agent             *)
(* (manifest_tools.py) expands a selection to its dependency closure, then   *)
(* has a plan made of it; every call opens a connection of its own, and      *)
(* every query of a call is a transaction of its own, so a build may come    *)
(* between any two of them.                                                  *)
EXTENDS Integers, Sequences, TLC

CONSTANTS
  Comp, Group,  \* the ids of components and of groups
  Section,      \* the sections of a release
  Board,        \* board series
  Host,         \* pairs of a host system and an architecture
  File,         \* download files
  Manifests,    \* the manifests a build may find
  MaxBuild,     \* bound: how often the database is built
  None

Id == Comp \cup Group

\* An entry of platforms[]: where it installs, and what is downloaded.
Entry == [hosts : SUBSET Host, series : SUBSET Board, devices : BOOLEAN,
          excluded : SUBSET Board, files : SUBSET File]
Dependency == [on : Id, kind : {"required", "optional"}]

\* A manifest: the groups its sections name, the components each group lists,
\* the dependencies and entries of the components it describes, its boards, and
\* whether another capture has the same product, version and edition.
IsManifest(d) ==
  /\ d = [sections |-> d.sections, listed |-> d.listed, deps |-> d.deps,
          entries |-> d.entries, boards |-> d.boards, twin |-> d.twin]
  /\ d.sections \subseteq Group \X Section /\ d.boards \subseteq Board /\ d.twin \in BOOLEAN
  /\ d.listed \in [DOMAIN d.listed -> SUBSET Comp] /\ DOMAIN d.listed \subseteq Group
  /\ d.deps \in [DOMAIN d.deps -> SUBSET Dependency] /\ DOMAIN d.deps \subseteq Comp
  /\ d.entries \in [DOMAIN d.deps -> Seq(Entry)]

ASSUME ManifestAssumption ==
  /\ \A d \in Manifests : IsManifest(d)
  /\ Manifests # {} /\ MaxBuild \in Nat
  /\ None \notin Manifests /\ None \notin Board /\ None \notin Section

VARIABLES
  phase,     \* of the file at the database path
  builds,    \* builds begun
  todo,      \* the groups the build has yet to ingest, with their sections
  draft,     \* what the build has inserted and not committed
  db,        \* the tables of the file, as others see them
  at,        \* the agent's way from a selection to a plan
  con,       \* the tables the connection reads; None: those of a build under way
  whole,     \* the call was opened on a complete database (history)
  roots, optional,  \* the arguments of resolve_deps
  seen,      \* seen, and what it returns
  pending,   \* the ids on stack that are not yet seen
  plan       \* the answer of build_plan
vars == <<phase, builds, todo, draft, db, at, con, whole, roots, optional, seen, pending, plan>>
buildVars == <<phase, builds, todo, draft, db>>
walkVars == <<roots, optional, seen, pending>>

----------------------------------------------------------------------------
(* The build.  A table row for a component stands for its component_platform *)
(* and component_file rows too: copies[c] counts how often they were         *)
(* inserted, once for every group walked that lists the component.           *)

Tables == [doc : Manifests, copies : [Comp -> Nat],
           edges : SUBSET (Comp \X {"required", "optional"} \X Id)]
ASSUME NoneAssumption == None \notin Tables /\ None \notin Nat
Blank(d) == [doc |-> d, copies |-> [c \in Comp |-> 0], edges |-> {}]

\* Every group of every section; all groups of a manifest without sections.
GroupsOf(d) ==
  IF d.sections # {} THEN d.sections ELSE (DOMAIN d.listed) \X {None}

Members(d, g) == IF g \in DOMAIN d.listed THEN d.listed[g] ELSE {}

\* A dependency on a group is one on each of its members.
TargetsUnexpanded(d, id) == {id}  \* mutant: the group's id is stored
Targets(d, id) == IF id \in DOMAIN d.listed THEN d.listed[id] ELSE {id}

\* The rows one component inserts.
EdgesOf(d, c) ==
  UNION {{<<c, x.kind, t>> : t \in Targets(d, x.on)} : x \in d.deps[c]}

\* _ingest_group: what the manifest does not describe is passed over.
WithGroup(t, g) ==
  LET C == Members(t.doc, g) \cap DOMAIN t.doc.deps
  IN [doc |-> t.doc,
      copies |-> [c \in Comp |-> IF c \in C THEN t.copies[c] + 1 ELSE t.copies[c]],
      edges |-> t.edges \cup UNION {EdgesOf(t.doc, c) : c \in C}]

\* The old file is unlinked: who has it open keeps it.
Build(d) ==
  /\ phase # "building" /\ builds < MaxBuild
  /\ phase' = "building" /\ builds' = builds + 1
  /\ todo' = GroupsOf(d) /\ draft' = Blank(d) /\ db' = Blank(d)
  /\ UNCHANGED <<at, con, whole, walkVars, plan>>

Ingest(g) ==
  /\ phase = "building" /\ g \in todo
  /\ todo' = todo \ {g} /\ draft' = WithGroup(draft, g[1])
  /\ UNCHANGED <<phase, builds, db, at, con, whole, walkVars, plan>>

\* Who opened the file during the build sees what it ends with.
Finish(p, t) ==
  /\ phase = "building" /\ todo = {}
  /\ phase' = p /\ db' = t
  /\ con' = IF con = None /\ at \in {"walking", "sized"} THEN t ELSE con
  /\ UNCHANGED <<builds, todo, draft, at, whole, walkVars, plan>>
Commit == ~draft.doc.twin /\ Finish("built", draft)
\* A second manifest with the release key is a ValueError: the connection is
\* closed without a commit, and the file stays, with empty tables.
Collide == draft.doc.twin /\ Finish("failed", Blank(draft.doc))

----------------------------------------------------------------------------
(* resolve_deps: a stack and a set of what was seen, one query for each id.  *)

Reads == IF con = None THEN db ELSE con
Connect ==
  /\ phase # "absent"
  /\ con' = IF phase = "building" THEN None ELSE db
  /\ whole' = (phase = "built")

Follows(t, c) ==
  {x \in Id : \E kind \in {"required"} \cup (IF optional THEN {"optional"} ELSE {}) :
                <<c, kind, x>> \in t.edges}

Ask(S, opt) ==
  /\ at \in {"idle", "resolved", "planned"} /\ Connect
  /\ at' = "walking" /\ roots' = S /\ optional' = opt /\ seen' = {} /\ pending' = S
  /\ plan' = None
  /\ UNCHANGED buildVars

\* An id that was pushed twice is skipped the second time.
Visit(c) ==
  /\ at = "walking" /\ c \in pending
  /\ seen' = seen \cup {c}
  /\ pending' = (pending \cup Follows(Reads, c)) \ seen'
  /\ UNCHANGED <<buildVars, at, con, whole, roots, optional, plan>>

Resolved ==
  /\ at = "walking" /\ pending = {}
  /\ at' = "resolved"
  /\ UNCHANGED <<buildVars, con, whole, walkVars, plan>>

\* A query finds the database locked for too long, and the tool returns an
\* error.
LockedOut ==
  /\ at \in {"walking", "sized"} /\ phase = "building" /\ con = None
  /\ at' = "idle" /\ plan' = None
  /\ UNCHANGED <<buildVars, con, whole, walkVars>>

----------------------------------------------------------------------------
(* build_plan: the sizes of a selection by one query (footprint), its files  *)
(* by a second one (build_plan_rows).                                        *)

\* How well an entry fits a board; negative: it is not for it.
Score(e, board) ==
  IF board = None THEN IF e.series = {} /\ ~e.devices THEN 1 ELSE 0
  ELSE IF board \in e.excluded THEN -1
  ELSE IF board \in e.series THEN 2
  ELSE IF e.series # {} \/ e.devices THEN -1 ELSE 1

\* Of the rows (indices of entries) that apply, the best; the later of equals.
Better(E, i, j, board) ==
  \/ Score(E[i], board) > Score(E[j], board)
  \/ Score(E[i], board) = Score(E[j], board) /\ i >= j
PickBoardRow(E, R, board) ==
  LET applicable == {i \in R : Score(E[i], board) >= 0}
  IN IF applicable = {} THEN None
     ELSE CHOOSE i \in applicable : \A j \in applicable : Better(E, i, j, board)

\* Without a board the entries for every board of the release are preferred.
UniversalForSome(E, R, boards) ==  \* mutant: one board is enough
  {i \in R : \E b \in boards : Score(E[i], b) >= 0}
Universal(E, R, boards) == {i \in R : \A b \in boards : Score(E[i], b) >= 0}
ResolveForRelease(E, R, board, boards) ==
  IF board # None \/ boards = {}
  THEN PickBoardRow(E, R, board)
  ELSE PickBoardRow(E, Universal(E, R, boards), None)
Dependent(E, R, board, boards) ==
  /\ board = None /\ boards # {} /\ Universal(E, R, boards) = {}
  /\ \E i \in R, b \in boards : Score(E[i], b) >= 0

\* The entries of a component that were ingested for a host, and those of them
\* that have files.
Rows(t, c, h) ==
  IF t.copies[c] = 0 THEN {}
  ELSE {i \in DOMAIN t.doc.entries[c] : h \in t.doc.entries[c][i].hosts}
FileRows(t, c, h) == {i \in Rows(t, c, h) : t.doc.entries[c][i].files # {}}

Chosen(t, c, R, board) == ResolveForRelease(t.doc.entries[c], R, board, t.doc.boards)
\* No ids mean every component of the release.
Sized(t, C, h, board) ==
  {<<c, Chosen(t, c, Rows(t, c, h), board)>> :
     c \in {c \in IF C = {} THEN Comp ELSE C :
              Rows(t, c, h) # {} /\ Chosen(t, c, Rows(t, c, h), board) # None}}
Flagged(t, C, h, board) ==
  {c \in IF C = {} THEN Comp ELSE C :
     Rows(t, c, h) # {} /\ Dependent(t.doc.entries[c], Rows(t, c, h), board, t.doc.boards)}
\* Here no ids mean no files.  A file is listed as often as it was inserted.
PlanRows(t, C, h, board) ==
  UNION {{<<c, f, t.copies[c]>> :
            f \in t.doc.entries[c][Chosen(t, c, FileRows(t, c, h), board)].files} :
         c \in {c \in C : /\ FileRows(t, c, h) # {}
                          /\ Chosen(t, c, FileRows(t, c, h), board) # None}}

\* The plan of what was resolved, or of no ids at all.
Size(C, h, board) ==
  /\ at = "resolved" /\ C \in {seen \cap Comp, {}} /\ Connect
  /\ at' = "sized"
  /\ plan' = [comps |-> C, host |-> h, board |-> board,
              sized |-> Sized(db, C, h, board), flagged |-> Flagged(db, C, h, board),
              files |-> {}]
  /\ UNCHANGED <<buildVars, walkVars>>

ListFiles ==
  /\ at = "sized"
  /\ at' = "planned"
  /\ plan' = [plan EXCEPT !.files = PlanRows(Reads, plan.comps, plan.host, plan.board)]
  /\ UNCHANGED <<buildVars, con, whole, walkVars>>

----------------------------------------------------------------------------

Init ==
  /\ phase = "absent" /\ builds = 0 /\ todo = {}
  /\ draft = Blank(CHOOSE d \in Manifests : TRUE) /\ db = draft
  /\ at = "idle" /\ con = None /\ whole = FALSE
  /\ roots = {} /\ optional = FALSE /\ seen = {} /\ pending = {} /\ plan = None

Next ==
  \/ \E d \in Manifests : Build(d)
  \/ \E g \in todo : Ingest(g)
  \/ Commit \/ Collide
  \/ \E S \in SUBSET Comp, opt \in BOOLEAN : Ask(S, opt)
  \/ \E c \in pending : Visit(c)
  \/ Resolved \/ LockedOut
  \/ \E C \in {seen \cap Comp, {}}, h \in Host, board \in Board \cup {None} : Size(C, h, board)
  \/ ListFiles
Spec == Init /\ [][Next]_vars

----------------------------------------------------------------------------

Plan == [comps : SUBSET Comp, host : Host, board : Board \cup {None},
         sized : SUBSET (Comp \X Nat), flagged : SUBSET Comp,
         files : SUBSET (Comp \X File \X Nat)]

\* Every variable has its type, and the tables hold rows of their manifest.
TypeOK ==
  /\ phase \in {"absent", "building", "built", "failed"} /\ builds \in 0..MaxBuild
  /\ todo \subseteq Group \X (Section \cup {None})
  /\ draft \in Tables /\ db \in Tables /\ con \in Tables \cup {None}
  /\ at \in {"idle", "walking", "resolved", "sized", "planned"}
  /\ whole \in BOOLEAN /\ optional \in BOOLEAN
  /\ roots \subseteq Comp /\ seen \subseteq Id /\ pending \subseteq Id
  /\ plan \in Plan \cup {None}

(* What the manifest says, with no regard to how it is ingested.             *)

\* The components a walk of the groups comes to.
Ingested(d) ==
  {c \in DOMAIN d.deps : \E g \in DOMAIN d.listed :
      /\ c \in d.listed[g]
      /\ d.sections = {} \/ \E s \in Section : <<g, s>> \in d.sections}

\* What a component needs: an id it depends on, or, for a group, a member.
Needs(d, c, opt) ==
  {x \in Id : \E dep \in d.deps[c] :
      /\ opt \/ dep.kind = "required"
      /\ \/ x = dep.on /\ dep.on \notin DOMAIN d.listed
         \/ dep.on \in DOMAIN d.listed /\ x \in d.listed[dep.on]}
Closed(d, S, opt) == \A c \in S \cap Ingested(d) : Needs(d, c, opt) \subseteq S

\* resolve_deps asked of a complete database returns the transitive closure of
\* the selection in the manifest, no less and no more, whatever the order of
\* its stack, with cycles, groups as dependencies, and a new build meanwhile.
ResolvesClosure ==
  at = "resolved" /\ whole =>
    /\ roots \subseteq seen /\ Closed(con.doc, seen, optional)
    /\ \A S \in SUBSET seen : roots \subseteq S /\ Closed(con.doc, S, optional) => S = seen

\* An entry installs on a board: it is not excluded there, and its series, if
\* it names any, include it; one for devices only is never known to.
Installs(e, b) ==
  b \notin e.excluded /\ IF e.series # {} THEN b \in e.series ELSE ~e.devices

\* The boards a plan has to be right for; none, when the release is not scoped
\* by boards.
PlanBoards(d) == IF plan.board = None THEN d.boards ELSE {plan.board}

\* What is sized installs on every board the plan is for; what some such board
\* installs is sized, or, without a board, flagged as dependent on it.
PlanFitsBoards(d) ==
  /\ \A x \in plan.sized :
       /\ x[2] \in DOMAIN d.entries[x[1]] /\ plan.host \in d.entries[x[1]][x[2]].hosts
       /\ \A b \in PlanBoards(d) : Installs(d.entries[x[1]][x[2]], b)
  /\ \A c \in (IF plan.comps = {} THEN Comp ELSE plan.comps) \cap Ingested(d) :
       (\E i \in DOMAIN d.entries[c] :
          /\ plan.host \in d.entries[c][i].hosts
          /\ PlanBoards(d) = {} \/ \E b \in PlanBoards(d) : Installs(d.entries[c][i], b))
       => (\E x \in plan.sized : x[1] = c) \/ (plan.board = None /\ c \in plan.flagged)

ListedOnce(d, c) ==
  \A g, k \in GroupsOf(d) : c \in Members(d, g[1]) /\ c \in Members(d, k[1]) => g = k

\* The files of a component are those of the entry that is sized, each once: if
\* one group lists the component, and its entries for the host all have files.
PlanMatchesSizes(d) ==
  plan.comps # {} =>
    \A c \in plan.comps \cap Ingested(d) :
      /\ ListedOnce(d, c)
      /\ \A i \in DOMAIN d.entries[c] : d.entries[c][i].files # {}
      => {x \in plan.files : x[1] = c} =
           UNION {{<<c, f, 1>> : f \in d.entries[c][x[2]].files} :
                  x \in {x \in plan.sized : x[1] = c}}

\* A plan made on a complete database tells no one to install what does not go
\* on the board, conceals nothing that does, and its two queries, which rank
\* different rows of a component, pick the same entry.
PlanIsSound ==
  at = "planned" /\ whole => PlanFitsBoards(con.doc) /\ PlanMatchesSizes(con.doc)
=============================================================================
