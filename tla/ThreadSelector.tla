--------------------------- MODULE ThreadSelector ---------------------------
(***************************************************************************)
(* The thread selector (widgets/thread_selector.py) over the checkpoint    *)
(* database and the caches of sessions.py: a modal screen whose rows are   *)
(* loaded, filtered, sorted, deleted and drawn by workers that run between *)
(* the keys of the user.                                                   *)
(*                                                                         *)
(* A worker of an exclusive group replaces the one before it wherever that *)
(* stands.  Drawing takes the render lock and two awaits: the old rows     *)
(* leave the screen at the first, the new ones are made and mounted after  *)
(* it.  A thread is a number, in the order of creation; a row is a thread  *)
(* with the time of its newest checkpoint.  Columns, widths, scores and    *)
(* the text of a cell are left out.                                        *)
(***************************************************************************)
EXTENDS Naturals, Sequences, FiniteSets, SequencesExt

CONSTANTS
  N,        \* the threads are 1 .. N, in the order they were created in
  Here,     \* those of the current working directory
  Hits,     \* those the search text matches
  Current,  \* the thread of the session, a checkpoint of which a turn may save
  Saved,    \* [1 .. N -> Nat]: the newest checkpoint of each, 0 for none
  Loader, Renderer, Enricher,  \* the exclusive groups of workers: load, render, checkpoints
  Warmer,   \* the worker that warms the cache up; that of a deletion is its thread
  None,
  Budgets   \* functions [Op -> Nat]: how often each of these may happen

Thread == 1 .. N
Op == {"open", "cached", "type", "sort", "column", "scope", "move", "delete",
       "save", "prewarm", "fail"}
Builder == {Loader, Renderer} \cup Thread
Worker == Builder \cup {Enricher, Warmer}

ASSUME ThreadAssumption ==
  /\ N \in Nat /\ Here \subseteq Thread /\ Hits \subseteq Thread /\ Current \in Thread
  /\ Saved \in [Thread -> Nat]
  /\ Cardinality({Loader, Renderer, Enricher, Warmer, None} \cup Thread) = N + 5
ASSUME BudgetsAssumption == Budgets \subseteq [Op -> Nat]

VARIABLES
  \* sessions.py
  db,        \* [Thread -> its newest checkpoint, 0 when it has none]
  cache,     \* _recent_threads_cache, or None
  \* the screen
  open,      \* "no", "yes", or "crashed" after an exception nobody catches
  given,     \* _has_initial_threads
  threads,   \* _threads
  filtered,  \* _filtered_threads
  selected,  \* _selected_index
  text,      \* there is a search text in _filter_text
  byUpdated, \* _sort_by_updated
  everywhere,\* _filter_cwd is None
  confirm,   \* the thread a confirmation is open for, or None
  \* what is drawn
  mounted,   \* the list holds "nothing", "rows", a "note" that there are none, an "error"
  options,   \* the threads of _option_widgets
  lit,       \* the indices of the rows drawn as selected
  \* the workers
  pc,        \* [Worker -> where it stands]
  lock,      \* who holds _render_lock, or None
  query,     \* what the load has asked for, got, and found on the screen before
  snapshot,  \* the rows and the text the filter works with
  prefer,    \* [Thread -> the thread to select when it is deleted, or None]
  fetched,   \* what the warm-up of the cache has read
  left       \* [Op -> Nat]: what remains of the budget

dataVars == <<db, cache>>
listVars == <<threads, filtered, selected>>
choiceVars == <<text, byUpdated, everywhere, confirm>>
drawnVars == <<mounted, options, lit>>
localVars == <<query, snapshot, prefer, fetched>>
vars == <<dataVars, open, given, listVars, choiceVars, drawnVars, pc, lock, localVars, left>>

-----------------------------------------------------------------------------
(* Rows *)

Row == [id : Thread, at : Nat]
Ids(rows) == [i \in DOMAIN rows |-> rows[i].id]
RowsOf(S) == {[id |-> t, at |-> db[t]] : t \in {u \in S : db[u] > 0}}
\* The rows at the indices K, in an order: <<j, i>> is in ahead when j comes before i.
Arranged(rows, K, ahead) ==
  LET place(i) == 1 + Cardinality({j \in K : <<j, i>> \in ahead})
  IN [k \in 1 .. Cardinality(K) |-> rows[CHOOSE i \in K : place(i) = k]]
Pairs(rows) == (DOMAIN rows) \X (DOMAIN rows)
\* The rows of the threads in S.
Kept(rows, S) ==
  Arranged(rows, {i \in DOMAIN rows : rows[i].id \in S}, {p \in Pairs(rows) : p[1] < p[2]})
Without(rows, t) == Kept(rows, Thread \ {t})

\* ORDER BY, and _apply_sort: the newest first, by update or by creation.
Newest(rows, updated) ==
  LET key(i) == IF updated THEN rows[i].at ELSE rows[i].id
  IN Arranged(rows, DOMAIN rows,
              {p \in Pairs(rows) :
                 key(p[1]) > key(p[2]) \/ (key(p[1]) = key(p[2]) /\ p[1] < p[2])})
Listed(S, updated) == Newest(SetToSeq(RowsOf(S)), updated)

\* _compute_filtered: the rows the text matches, of one score, or all of them.
Match(rows, searched, updated) == Newest(IF searched THEN Kept(rows, Hits) ELSE rows, updated)

\* The index, from 0, of thread t in the rows, or another.
IndexOf(rows, t, other) ==
  IF \E i \in DOMAIN rows : rows[i].id = t
  THEN (CHOOSE i \in DOMAIN rows : rows[i].id = t) - 1 ELSE other
\* _sync_selected_index
Synced(rows) == IndexOf(rows, Current, 0)

-----------------------------------------------------------------------------
(* Workers *)

Spend(op) == left[op] > 0 /\ left' = [left EXCEPT ![op] = @ - 1]
At(w, label) == pc[w] = label
Goto(w, label) == pc' = [pc EXCEPT ![w] = label]

Label == {"none", "begin", "filter", "computing", "query", "reply", "closing", "preload", "details",
          "commit", "purge", "return", "wait", "clear", "mount", "sorry", "sorryClear",
          "sorryMount"}

\* run_worker of an exclusive group: the worker before ends at the await where it
\* stands, and gives the lock back.
ReleasedNever(w) == lock
Released(w) == IF lock = w THEN None ELSE lock
Start(w, label) == Goto(w, label) /\ lock' = Released(w)

NoQuery == [got |-> <<>>, old |-> <<>>, updated |-> TRUE, all |-> FALSE]
NoSnapshot == [rows |-> <<>>, text |-> FALSE, updated |-> TRUE]
NoPreference == [t \in Thread |-> None]

\* The screen goes, and its workers with it: by dismiss, or by exit.
Close(how) ==
  /\ open' = how /\ given' = FALSE
  /\ threads' = <<>> /\ filtered' = <<>> /\ selected' = 0
  /\ text' = FALSE /\ everywhere' = FALSE /\ confirm' = None
  /\ mounted' = "nothing" /\ options' = <<>> /\ lit' = {} /\ lock' = None
  /\ query' = NoQuery /\ snapshot' = NoSnapshot /\ prefer' = NoPreference
  /\ pc' = [w \in Worker |-> IF w = Warmer THEN pc[w] ELSE "none"]
  /\ UNCHANGED <<byUpdated, fetched>>

\* An exception that nobody catches, in a key or in a worker, ends the program.
Crash == open' = "crashed" /\ pc' = [w \in Worker |-> "none"]

\* _schedule_checkpoint_enrichment: a new pass, when a visible field is missing.
Enriched(p) == {p, [p EXCEPT ![Enricher] = "begin"]}

\* _refresh_cell_labels looks every drawn row up among the filtered ones.
LabelsFound(rows) == \A i \in DOMAIN options : \E j \in DOMAIN rows : rows[j].id = options[i]

-----------------------------------------------------------------------------
(* _build_list and _show_mount_error *)

\* A drawing takes the lock, when it is free, and removes the children of the list,
\* all in the step that calls it; otherwise it waits.
Removing(w) == lock' = w /\ mounted' = "nothing"
Draws(w) ==
  IF lock = None THEN Removing(w) /\ Goto(w, "clear")
  ELSE Goto(w, "wait") /\ UNCHANGED <<lock, mounted>>
Clear(w) ==
  /\ lock = None /\ Removing(w)
  /\ \/ At(w, "wait") /\ Goto(w, "clear")
     \/ At(w, "sorry") /\ Goto(w, "sorryClear")
  /\ UNCHANGED <<dataVars, open, given, listVars, choiceVars, options, lit, localVars, left>>

\* The widgets are made of the rows there are now, and mounted.
Fill(w) ==
  /\ At(w, "clear") /\ Goto(w, "mount")
  /\ options' = Ids(filtered)
  /\ mounted' = IF filtered = <<>> THEN "note" ELSE "rows"
  /\ lit' = IF selected < Len(filtered) THEN {selected} ELSE {}
  /\ UNCHANGED <<dataVars, open, given, listVars, choiceVars, lock, localVars, left>>
ShowError(w) ==
  /\ At(w, "sorryClear") /\ Goto(w, "sorryMount") /\ mounted' = "error"
  /\ UNCHANGED <<dataVars, open, given, listVars, choiceVars, options, lit, lock, localVars,
                 left>>

\* The end of a drawing; a load then goes on to the details.
Drawn(w) ==
  /\ pc[w] \in {"mount", "sorryMount"} /\ lock' = None
  /\ LET done == [pc EXCEPT ![w] = "none"]
     IN pc' \in IF w = Loader /\ At(w, "mount") THEN Enriched(done) ELSE {done}
  /\ UNCHANGED <<dataVars, open, given, listVars, choiceVars, drawnVars, localVars, left>>

-----------------------------------------------------------------------------
(* _load_threads and list_threads *)

LoadStarts ==
  /\ At(Loader, "begin") /\ Goto(Loader, "query")
  /\ query' = [got |-> <<>>, old |-> threads, updated |-> byUpdated, all |-> everywhere]
  /\ UNCHANGED <<dataVars, open, given, listVars, choiceVars, drawnVars, lock, snapshot, prefer,
                 fetched, left>>
\* The database answers, in the thread of its connection.
LoadQueried ==
  /\ At(Loader, "query") /\ Goto(Loader, "reply")
  /\ query' = [query EXCEPT !.got = Listed(IF query.all THEN Thread ELSE Here, query.updated)]
  /\ UNCHANGED <<dataVars, open, given, listVars, choiceVars, drawnVars, lock, snapshot, prefer,
                 fetched, left>>
\* Only what is neither filtered nor sorted otherwise is cached.
LoadReplied ==
  /\ At(Loader, "reply") /\ Goto(Loader, "closing")
  /\ cache' = IF query.updated /\ query.all THEN query.got ELSE cache
  /\ UNCHANGED <<db, open, given, listVars, choiceVars, drawnVars, lock, localVars, left>>
LoadFails ==
  /\ At(Loader, "query") /\ Spend("fail")
  /\ IF lock = None THEN Removing(Loader) /\ Goto(Loader, "sorryClear")
     ELSE Goto(Loader, "sorry") /\ UNCHANGED <<lock, mounted>>
  /\ UNCHANGED <<dataVars, open, given, listVars, choiceVars, options, lit, localVars>>

\* What is drawn is taken to be the rows from before the load: when the rows are the
\* same, the widgets stay, and their texts are refreshed.
SameRows(rows) == given /\ options # <<>> /\ query.old = rows
ShowLoaded ==
  /\ query' = NoQuery
  /\ IF ~SameRows(filtered') THEN Draws(Loader) /\ UNCHANGED open
     ELSE /\ UNCHANGED <<lock, mounted>>
          /\ IF Len(options) = Len(filtered') /\ LabelsFound(filtered')
             THEN pc' \in Enriched([pc EXCEPT ![Loader] = "none"]) /\ UNCHANGED open
             ELSE Crash
\* _update_filtered_list, and the current thread selected
Refilter(rows) ==
  /\ filtered' = Match(rows, text, byUpdated)
  /\ selected' = Synced(filtered')

\* The rows are replaced; without cached rows, the details are read before they
\* are shown.
LoadArrives ==
  /\ At(Loader, "closing") /\ threads' = query.got
  /\ IF given
     THEN Refilter(query.got) /\ ShowLoaded
     ELSE Goto(Loader, "preload") /\ UNCHANGED <<filtered, selected, open, query, lock, mounted>>
  /\ UNCHANGED <<dataVars, given, choiceVars, options, lit, snapshot, prefer, fetched, left>>
LoadPreloaded ==
  /\ At(Loader, "preload") /\ Refilter(threads) /\ ShowLoaded
  /\ UNCHANGED <<dataVars, given, threads, choiceVars, options, lit, snapshot, prefer, fetched,
                 left>>

-----------------------------------------------------------------------------
(* _filter_and_build and _load_checkpoint_details *)

FilterStarts ==
  /\ At(Renderer, "filter") /\ Goto(Renderer, "computing")
  /\ snapshot' = [rows |-> threads, text |-> text, updated |-> byUpdated]
  /\ UNCHANGED <<dataVars, open, given, listVars, choiceVars, drawnVars, lock, query, prefer,
                 fetched, left>>
FilterEndsUnselected ==
  /\ At(Renderer, "computing") /\ Draws(Renderer)
  /\ filtered' = Match(snapshot.rows, snapshot.text, snapshot.updated)
  /\ snapshot' = NoSnapshot
  /\ UNCHANGED <<dataVars, open, given, threads, selected, choiceVars, options, lit, query, prefer,
                 fetched, left>>
FilterEnds ==
  /\ At(Renderer, "computing") /\ Draws(Renderer)
  /\ filtered' = Match(snapshot.rows, snapshot.text, snapshot.updated)
  /\ selected' = IF snapshot.text THEN 0 ELSE Synced(filtered')
  /\ snapshot' = NoSnapshot
  /\ UNCHANGED <<dataVars, open, given, threads, choiceVars, options, lit, query, prefer,
                 fetched, left>>

DetailsStart ==
  /\ At(Enricher, "begin") /\ Goto(Enricher, IF threads = <<>> THEN "none" ELSE "details")
  /\ UNCHANGED <<dataVars, open, given, listVars, choiceVars, drawnVars, lock, localVars, left>>
DetailsFail ==
  /\ At(Enricher, "details") /\ Spend("fail") /\ Goto(Enricher, "none")
  /\ UNCHANGED <<dataVars, open, given, listVars, choiceVars, drawnVars, lock, localVars>>
\* Prompts may change what the text matches: the rows are filtered again, around
\* the selected thread.
DetailsRefilter ==
  /\ At(Enricher, "details") /\ text
  /\ filtered' = Match(threads, text, byUpdated)
  /\ selected' = IF selected < Len(filtered)
                 THEN IndexOf(filtered', filtered[selected + 1].id, 0) ELSE 0
  /\ pc' = [pc EXCEPT ![Enricher] = "none", ![Renderer] = "wait"]
  /\ lock' = Released(Renderer)
  /\ UNCHANGED <<dataVars, open, given, threads, choiceVars, drawnVars, localVars, left>>
DetailsRefresh ==
  /\ At(Enricher, "details")
  /\ IF LabelsFound(filtered)
     THEN Goto(Enricher, "none") /\ UNCHANGED open
     ELSE Crash
  /\ UNCHANGED <<dataVars, given, listVars, choiceVars, drawnVars, lock, localVars, left>>

-----------------------------------------------------------------------------
(* action_delete_thread, _handle_delete_confirm and delete_thread *)

\* Ctrl+D asks; with no row to delete it quits the program.
AskDelete ==
  /\ open = "yes" /\ confirm = None /\ filtered # <<>> /\ Spend("delete")
  /\ confirm' = filtered[selected + 1].id
  /\ UNCHANGED <<dataVars, open, given, listVars, text, byUpdated, everywhere, drawnVars, pc, lock,
                 localVars>>
QuitEmpty ==
  /\ open = "yes" /\ confirm = None /\ filtered = <<>> /\ Spend("delete")
  /\ Close("exited") /\ UNCHANGED dataVars
\* One deletion of a thread at a time is modelled; those of several may overlap.
Confirm ==
  /\ confirm # None /\ At(confirm, "none")
  /\ Goto(confirm, "begin") /\ confirm' = None
  /\ UNCHANGED <<dataVars, open, given, listVars, text, byUpdated, everywhere, drawnVars, lock,
                 localVars, left>>
Refuse ==
  /\ confirm # None /\ confirm' = None
  /\ UNCHANGED <<dataVars, open, given, listVars, text, byUpdated, everywhere, drawnVars, pc, lock,
                 localVars, left>>

\* The neighbour to select afterwards: the row below, or the one above.
Neighbour ==
  IF selected + 1 < Len(filtered) THEN filtered[selected + 2].id
  ELSE IF selected > 0 THEN filtered[selected].id ELSE None
DeleteStarts(t) ==
  /\ At(t, "begin") /\ Goto(t, "commit")
  /\ prefer' = [prefer EXCEPT ![t] = Neighbour]
  /\ UNCHANGED <<dataVars, open, given, listVars, choiceVars, drawnVars, lock, query, snapshot,
                 fetched, left>>
\* A thread that has no rows any more needs no purge.
DeleteCommits(t) ==
  /\ At(t, "commit") /\ db' = [db EXCEPT ![t] = 0]
  /\ Goto(t, IF db[t] > 0 THEN "purge" ELSE "return")
  /\ UNCHANGED <<cache, open, given, listVars, choiceVars, drawnVars, lock, localVars, left>>
DeleteFails(t) ==
  /\ At(t, "commit") /\ Spend("fail") /\ Goto(t, "none")
  /\ UNCHANGED <<dataVars, open, given, listVars, choiceVars, drawnVars, lock, localVars>>
DeletePurges(t) ==
  /\ At(t, "purge") /\ Goto(t, "return")
  /\ cache' = IF cache = None THEN None ELSE Without(cache, t)
  /\ UNCHANGED <<db, open, given, listVars, choiceVars, drawnVars, lock, localVars, left>>
DeleteReturns(t) ==
  /\ At(t, "return") /\ Draws(t)
  /\ threads' = Without(threads, t)
  /\ filtered' = Match(Without(threads, t), text, byUpdated)
  /\ selected' = IndexOf(filtered', prefer[t], IF text THEN 0 ELSE Synced(filtered'))
  /\ prefer' = [prefer EXCEPT ![t] = None]
  /\ UNCHANGED <<dataVars, open, given, choiceVars, options, lit, query, snapshot, fetched,
                 left>>

-----------------------------------------------------------------------------
(* Keys and clicks *)

Free == open = "yes" /\ confirm = None

\* _show_thread_selector, compose and on_mount: cached rows are drawn at once.
Open ==
  /\ open = "no" /\ Spend("open") /\ open' = "yes"
  /\ given' = (cache # None)
  /\ threads' = IF cache = None THEN <<>> ELSE Kept(cache, Here)
  /\ filtered' = Newest(threads', byUpdated)
  /\ selected' = Synced(filtered')
  /\ options' = Ids(filtered')
  /\ mounted' = IF filtered' = <<>> THEN "note" ELSE "rows"
  /\ lit' = IF filtered' = <<>> THEN {} ELSE {selected'}
  /\ Goto(Loader, "begin")
  /\ UNCHANGED <<dataVars, choiceVars, lock, localVars>>

Type ==
  /\ Free /\ Spend("type") /\ text' = ~text /\ Start(Renderer, "filter")
  /\ UNCHANGED <<dataVars, open, given, listVars, byUpdated, everywhere, confirm, drawnVars,
                 localVars>>
SortUndrawn ==
  /\ Free /\ Spend("sort") /\ byUpdated' = ~byUpdated
  /\ filtered' = Newest(filtered, byUpdated') /\ selected' = Synced(filtered')
  /\ UNCHANGED <<dataVars, open, given, threads, text, everywhere, confirm, drawnVars, localVars,
                 pc, lock>>
ToggleSort ==
  /\ Free /\ Spend("sort") /\ byUpdated' = ~byUpdated /\ Start(Renderer, "wait")
  /\ filtered' = Newest(filtered, byUpdated') /\ selected' = Synced(filtered')
  /\ UNCHANGED <<dataVars, open, given, threads, text, everywhere, confirm, drawnVars, localVars>>
\* A column is shown or hidden, and what it shows may have to be fetched.
ToggleColumn ==
  /\ Free /\ Spend("column") /\ lock' = Released(Renderer)
  /\ pc' \in Enriched([pc EXCEPT ![Renderer] = "wait"])
  /\ filtered' = Newest(filtered, byUpdated) /\ selected' = Synced(filtered')
  /\ UNCHANGED <<dataVars, open, given, threads, choiceVars, drawnVars, localVars>>
ChangeScope ==
  /\ Free /\ Spend("scope") /\ everywhere' = ~everywhere /\ Start(Loader, "begin")
  /\ UNCHANGED <<dataVars, open, given, listVars, text, byUpdated, confirm, drawnVars, localVars>>

\* _move_selection: the row that was selected and the one that is, among the widgets.
MoveTo(new) ==
  /\ selected' = new
  /\ IF selected < Len(options) /\ new < Len(options)
     THEN lit' = (lit \ {selected}) \cup {new} /\ UNCHANGED <<open, pc>>
     ELSE Crash /\ UNCHANGED lit
  /\ UNCHANGED <<dataVars, given, threads, filtered, choiceVars, mounted, options, lock, localVars>>
Down == (selected + 1) % Len(filtered)
UpUnwrapped == selected - 1
Up == (selected + Len(filtered) - 1) % Len(filtered)
Move ==
  /\ Free /\ filtered # <<>> /\ options # <<>> /\ Spend("move")
  /\ \E new \in {Down, Up, 0, Len(filtered) - 1} : MoveTo(new)

\* Enter gives the selected thread to the app, a click the one that is drawn, Esc none.
\* A deletion under way is cancelled, and may or may not be committed.
Leave ==
  /\ Close("no") /\ UNCHANGED cache
  /\ \E S \in SUBSET {t \in Thread : At(t, "commit")} :
       db' = [t \in Thread |-> IF t \in S THEN 0 ELSE db[t]]
Enter == Free /\ filtered # <<>> /\ Leave /\ UNCHANGED left
Cancel == Free /\ Leave /\ UNCHANGED left
Click ==
  /\ Free /\ mounted = "rows" /\ Leave /\ UNCHANGED left
  /\ \E i \in DOMAIN options : i <= Len(filtered)

-----------------------------------------------------------------------------
(* Beside the selector *)

\* A turn saves a checkpoint of the session's thread.
Save ==
  /\ Spend("save")
  /\ db' = [db EXCEPT ![Current] = 1 + Max({db[t] : t \in Thread})]
  /\ UNCHANGED <<cache, open, given, listVars, choiceVars, drawnVars, pc, lock, localVars>>

\* prewarm_thread_message_counts caches its list twice, before and after the details.
PrewarmLists ==
  /\ At(Warmer, "none") /\ Spend("prewarm") /\ Goto(Warmer, "reply")
  /\ fetched' = Listed(Thread, TRUE)
  /\ UNCHANGED <<dataVars, open, given, listVars, choiceVars, drawnVars, lock, query, snapshot,
                 prefer>>
PrewarmCaches ==
  /\ pc[Warmer] \in {"reply", "details"} /\ cache' = fetched
  /\ Goto(Warmer, IF At(Warmer, "reply") THEN "details" ELSE "none")
  /\ fetched' = IF At(Warmer, "reply") THEN fetched ELSE <<>>
  /\ UNCHANGED <<db, open, given, listVars, choiceVars, drawnVars, lock, query, snapshot, prefer,
                 left>>
-----------------------------------------------------------------------------
(* The specification *)

\* The types of the state.
TypeOK ==
  /\ db \in [Thread -> Nat] /\ cache \in Seq(Row) \cup {None}
  /\ open \in {"no", "yes", "crashed", "exited"} /\ given \in BOOLEAN
  /\ threads \in Seq(Row) /\ filtered \in Seq(Row) /\ selected \in Nat
  /\ text \in BOOLEAN /\ byUpdated \in BOOLEAN /\ everywhere \in BOOLEAN
  /\ confirm \in Thread \cup {None}
  /\ mounted \in {"nothing", "rows", "note", "error"}
  /\ options \in Seq(Thread) /\ lit \subseteq 0 .. N
  /\ lock \in Builder \cup {None}
  /\ pc \in [Worker -> Label]
  /\ query \in [got : Seq(Row), old : Seq(Row), updated : BOOLEAN, all : BOOLEAN]
  /\ snapshot \in [rows : Seq(Row), text : BOOLEAN, updated : BOOLEAN]
  /\ prefer \in [Thread -> Thread \cup {None}] /\ fetched \in Seq(Row)
  /\ left \in [Op -> Nat]

Init ==
  /\ left \in Budgets
  /\ db = Saved /\ cache = IF left["cached"] > 0 THEN Listed(Thread, TRUE) ELSE None
  /\ open = "no" /\ given = FALSE
  /\ threads = <<>> /\ filtered = <<>> /\ selected = 0
  /\ text = FALSE /\ byUpdated = TRUE /\ everywhere = FALSE /\ confirm = None
  /\ mounted = "nothing" /\ options = <<>> /\ lit = {} /\ lock = None
  /\ query = NoQuery /\ snapshot = NoSnapshot /\ prefer = NoPreference
  /\ pc = [w \in Worker |-> "none"] /\ fetched = <<>>

Load == LoadStarts \/ LoadQueried \/ LoadReplied \/ LoadArrives \/ LoadPreloaded
Filter == FilterStarts \/ FilterEnds
Details == DetailsStart \/ DetailsRefilter \/ DetailsRefresh
Delete(t) == DeleteStarts(t) \/ DeleteCommits(t) \/ DeletePurges(t) \/ DeleteReturns(t)
Draw(w) == Clear(w) \/ Fill(w) \/ ShowError(w) \/ Drawn(w)
Failure == LoadFails \/ DetailsFail \/ \E t \in Thread : DeleteFails(t)
Key ==
  \/ Open \/ Type \/ ToggleSort \/ ToggleColumn \/ ChangeScope \/ Move
  \/ AskDelete \/ QuitEmpty \/ Confirm \/ Refuse \/ Enter \/ Cancel \/ Click

Next ==
  \/ Key \/ Load \/ Filter \/ Details \/ Failure
  \/ \E t \in Thread : Delete(t)
  \/ \E w \in Builder : Draw(w)
  \/ Save \/ PrewarmLists \/ PrewarmCaches

Spec == Init /\ [][Next]_vars

\* Every worker goes on, and the lock is given in turn; the user need not do anything.
FairSpec ==
  /\ Spec
  /\ SF_vars(Load \/ Draw(Loader)) /\ SF_vars(Filter \/ Draw(Renderer)) /\ WF_vars(Details)
  /\ \A t \in Thread : SF_vars(Delete(t) \/ Draw(t))

-----------------------------------------------------------------------------
(* What it promises *)

\* No worker of the screen has anything left to do.
Settled == open = "yes" /\ \A w \in Worker \ {Warmer} : At(w, "none")

\* Enter, Ctrl+D and the keys look the selected row up in the filtered list, whatever
\* loads, filters and deletions made of it meanwhile: the index is always in it.
SelectionInRange ==
  open = "yes" => selected < Len(filtered) \/ (filtered = <<>> /\ selected = 0)

\* When nothing is under way, the screen shows the filtered rows, and the row drawn as
\* selected is the one Enter resumes and Ctrl+D deletes (_build_list, against all
\* that changes the list while it is drawn).
WhatIsShown ==
  Settled /\ mounted # "error" =>
    /\ options = Ids(filtered)
    /\ mounted = IF filtered = <<>> THEN "note" ELSE "rows"
    /\ lit = IF filtered = <<>> THEN {} ELSE {selected}

\* The search text, the order and the rows there are decide what is listed.
WhatIsAsked ==
  Settled => filtered = Match(threads, text, byUpdated)

\* A selector is drawn to the end: no worker waits for a lock that nobody gives back.
SelectorSettles == open = "yes" ~> Settled \/ open # "yes"
=============================================================================
