----------------------------- MODULE Transcript -----------------------------
(***************************************************************************)
(* The conversation on the screen: the MessageStore (message_store.py),    *)
(* which holds every message and a window of those that have a widget; the *)
(* app's functions that mount, prune and hydrate widgets (app.py); and the *)
(* turn that streams into them (textual_adapter.py).  A message is the     *)
(* number of messages made before it and itself, so the messages stored    *)
(* are an interval, and the window is its tail.  Each stretch of code      *)
(* between two awaits is one action: a widget is in the container, or out  *)
(* of it, as soon as mount() or remove() is called.                        *)
(***************************************************************************)
EXTENDS Naturals, FiniteSets

CONSTANTS
  Window,   \* WINDOW_SIZE
  Buffer,   \* HYDRATE_BUFFER
  None,
  Pump,     \* the app's message pump: commands, hydration, thread switches
  Turn,     \* the agent worker
  Swap,     \* the worker of an agent swap
  History,  \* how many messages a resumed thread has
  Budgets   \* functions [Op -> Nat]: how often each of these may happen

Task == {Pump, Turn, Swap}
Op == {"note", "reply", "tool", "diff", "text", "flush", "keep", "cancel",
       "hydrate", "clear", "swap", "resume", "early"}

ASSUME TaskAssumption == Pump # Turn /\ Pump # Swap /\ Turn # Swap
ASSUME SizeAssumption == Window \in Nat \ {0} /\ Buffer \in Nat /\ History \in Nat
ASSUME NoneAssumption == None \notin Nat
ASSUME BudgetsAssumption == Budgets \subseteq [Op -> Nat]

VARIABLES
  \* the MessageStore
  base,      \* how many messages were cleared: the store holds base + 1 .. born
  born,      \* how many messages were ever made
  first,     \* base + _visible_start: the window is first + 1 .. born
  active,    \* _active_message_id
  stale,     \* messages whose data lags what their widget shows
  \* the screen
  dom,       \* the messages with a widget in #messages
  outdated,  \* those whose widget was recreated from such data
  \* the tasks
  pc,        \* [Task -> where it stands]
  todo,      \* [Task -> to_prune or to_hydrate, what is left of it]
  done,      \* [Task -> pruned_ids, or what it hydrated]
  anchor,    \* first_child, a local of the hydration
  stream,    \* the assistant message the turn appends to, or None
  tools,     \* _current_tool_messages
  left,      \* [Op -> Nat]: what remains of the budget
  \* what happened, for the properties
  torn,      \* since the last clear: see Tear, Cancel and Load
  exempt     \* messages no flush vouches for

storeVars == <<base, born, first, active, stale>>
viewVars == <<dom, outdated>>
taskVars == <<pc, todo, done, anchor, stream, tools>>
ghostVars == <<torn, exempt>>
vars == <<storeVars, viewVars, taskVars, left, ghostVars>>

Label == {"idle", "mounted", "pruning", "hydrating", "cleared", "notice"}

TypeOK ==
  /\ base \in Nat /\ born \in Nat /\ first \in base .. born /\ active \in Nat \cup {None}
  /\ stale \in SUBSET Nat /\ dom \in SUBSET Nat /\ outdated \in SUBSET Nat
  /\ pc \in [Task -> Label]
  /\ todo \in [Task -> SUBSET Nat] /\ done \in [Task -> SUBSET Nat]
  /\ anchor \in Nat \cup {None} /\ stream \in Nat \cup {None} /\ tools \in SUBSET Nat
  /\ left \in [Op -> Nat]
  /\ torn \in SUBSET {"overlap", "cancel", "mixed", "load"} /\ exempt \in SUBSET Nat

Init ==
  /\ base = 0 /\ born = 0 /\ first = 0 /\ active = None /\ stale = {}
  /\ dom = {} /\ outdated = {}
  /\ pc = [t \in Task |-> "idle"]
  /\ todo = [t \in Task |-> {}] /\ done = [t \in Task |-> {}]
  /\ anchor = None /\ stream = None /\ tools = {}
  /\ left \in Budgets /\ torn = {} /\ exempt = {}

-----------------------------------------------------------------------------
(* The store *)

\* A bug to catch: the active message is pruned with the rest.
ToPruneAll == {i \in first + 1 .. born : i + Window <= born}
\* A bug to catch: one more than the window allows.
ToPruneMore == {i \in first + 1 .. born :
                 i + Window <= born + 1 /\ ~(active \in first + 1 .. i)}
\* get_messages_to_prune: what exceeds the window, from its start, stopping at
\* the active message.
ToPrune == {i \in first + 1 .. born :
             i + Window <= born /\ ~(active \in first + 1 .. i)}

\* get_messages_to_hydrate.
ToHydrate == {i \in base + 1 .. first : i + Buffer > first}

\* A bug to catch: the window does not move.
MarkNothing(ids) == first' = first
\* mark_pruned: _visible_start moves past what was pruned at the front.
MarkPruned(ids) ==
  \E f \in first .. born :
    first + 1 .. f \subseteq ids /\ f + 1 \notin ids /\ first' = f

\* mark_hydrated.
MarkHydrated(n) == first' = IF first >= base + n THEN first - n ELSE base

-----------------------------------------------------------------------------
(* Helpers *)

Spend(o) == left[o] > 0 /\ left' = [left EXCEPT ![o] = @ - 1]
Goto(t, l) == pc' = [pc EXCEPT ![t] = l]
At(t, l) == pc[t] = l

\* Somebody else is between two awaits of the window.
Meanwhile(t) == \E u \in Task \ {t} : pc[u] \in {"mounted", "pruning", "hydrating"}
Tear(t) == torn' = IF Meanwhile(t) THEN torn \cup {"overlap"} ELSE torn

\* _mount_message, up to its first await: the message is stored and mounted.
Mount(t) ==
  /\ born' = born + 1 /\ dom' = dom \cup {born + 1}
  /\ Goto(t, "mounted") /\ Tear(t)
  /\ UNCHANGED <<base, first, outdated, todo, done, anchor>>

-----------------------------------------------------------------------------
(* Mounting and pruning *)

\* A command's output, or a user's message.
MountNote ==
  /\ At(Pump, "idle") /\ Spend("note") /\ Mount(Pump)
  /\ UNCHANGED <<active, stale, stream, tools, exempt>>

\* A diff, or any other plain message of a turn.
MountDiff ==
  /\ At(Turn, "idle") /\ Spend("diff") /\ Mount(Turn)
  /\ UNCHANGED <<active, stale, stream, tools, exempt>>

\* The first text of an assistant message: it is active before it is mounted.
MountReply ==
  /\ At(Turn, "idle") /\ stream = None /\ Spend("reply") /\ Mount(Turn)
  /\ active' = born + 1 /\ stream' = born + 1
  /\ UNCHANGED <<stale, tools, exempt>>

\* A tool call, once the text before it is flushed.
MountTool ==
  /\ At(Turn, "idle") /\ stream = None /\ Spend("tool") /\ Mount(Turn)
  /\ tools' = tools \cup {born + 1} /\ exempt' = exempt \cup {born + 1}
  /\ UNCHANGED <<active, stale, stream>>

\* What a thread switch, /clear, a swap or a cancelled turn says when it is done.
MountNotice(t) ==
  /\ pc[t] \in {"cleared", "notice"} /\ Mount(t)
  /\ UNCHANGED <<active, stale, stream, tools, left, exempt>>

\* _prune_old_messages, up to its first await.
StartPrune(t) ==
  /\ At(t, "mounted")
  /\ IF ToPrune = {} THEN Goto(t, "idle") /\ UNCHANGED <<todo, done>>
     ELSE /\ Goto(t, "pruning")
          /\ todo' = [todo EXCEPT ![t] = ToPrune] /\ done' = [done EXCEPT ![t] = {}]
  /\ UNCHANGED <<storeVars, viewVars, anchor, stream, tools, left, ghostVars>>

\* The next widget that is still there is removed.
PruneNext(t) ==
  /\ At(t, "pruning")
  /\ \E i \in todo[t] \cap dom :
       /\ \A j \in todo[t] \cap dom : i <= j
       /\ dom' = dom \ {i} /\ outdated' = outdated \ {i}
       /\ todo' = [todo EXCEPT ![t] = {j \in @ : j > i}]
       /\ done' = [done EXCEPT ![t] = @ \cup {i}]
  /\ UNCHANGED <<storeVars, pc, anchor, stream, tools, left, ghostVars>>

\* None is left: the store is told.
EndPrune(t) ==
  /\ At(t, "pruning") /\ todo[t] \cap dom = {}
  /\ MarkPruned(done[t]) /\ Goto(t, "idle")
  /\ todo' = [todo EXCEPT ![t] = {}] /\ done' = [done EXCEPT ![t] = {}]
  /\ UNCHANGED <<base, born, active, stale, viewVars, anchor, stream, tools, left,
                 ghostVars>>

-----------------------------------------------------------------------------
(* Hydration *)

\* _hydrate_messages_above, up to its first mount.
StartHydrate ==
  /\ At(Pump, "idle") /\ ToHydrate # {} /\ Spend("hydrate")
  /\ Goto(Pump, "hydrating") /\ Tear(Pump)
  /\ todo' = [todo EXCEPT ![Pump] = ToHydrate] /\ done' = [done EXCEPT ![Pump] = {}]
  /\ IF dom = {} THEN anchor' = None
     ELSE \E i \in dom : (torn # {} \/ \A j \in dom : i <= j) /\ anchor' = i
  /\ UNCHANGED <<storeVars, viewVars, stream, tools, exempt>>

\* A bug to catch: it is mounted at the end instead.
HydratableAnyway == todo[Pump] \ dom
\* Mounting before a widget that is gone fails, and so does mounting one twice;
\* both are logged and skipped.
Hydratable ==
  IF anchor = None \/ anchor \in dom THEN todo[Pump] \ dom ELSE {}

\* The next widget is made from the data and mounted above the one before.
HydrateNext ==
  /\ At(Pump, "hydrating")
  /\ \E i \in Hydratable :
       /\ \A j \in Hydratable : i >= j
       /\ dom' = dom \cup {i} /\ anchor' = i
       /\ outdated' = IF i \in stale THEN outdated \cup {i} ELSE outdated
       /\ todo' = [todo EXCEPT ![Pump] = {j \in @ : j < i}]
       /\ done' = [done EXCEPT ![Pump] = @ \cup {i}]
  /\ UNCHANGED <<storeVars, pc, stream, tools, left, ghostVars>>

EndHydrate ==
  /\ At(Pump, "hydrating") /\ Hydratable = {}
  /\ MarkHydrated(Cardinality(done[Pump])) /\ Goto(Pump, "idle")
  /\ todo' = [todo EXCEPT ![Pump] = {}] /\ done' = [done EXCEPT ![Pump] = {}]
  /\ anchor' = None
  /\ UNCHANGED <<base, born, active, stale, viewVars, stream, tools, left, ghostVars>>

-----------------------------------------------------------------------------
(* Clearing and loading *)

\* _clear_messages.
Clear(t) ==
  /\ base' = born /\ first' = born /\ active' = None
  /\ dom' = {} /\ outdated' = {}
  /\ Goto(t, "cleared")
  /\ torn' = IF Meanwhile(t) THEN {"overlap"} ELSE {}
  /\ UNCHANGED <<born, stale, todo, done, anchor, stream, tools, exempt>>
ClearCommand == At(Pump, "idle") /\ Spend("clear") /\ Clear(Pump)
SwapClears == At(Swap, "idle") /\ Spend("swap") /\ Clear(Swap)

\* _load_thread_history: bulk_load, and the widgets of its window, up to the
\* first that is there already.
Load ==
  LET n == born + History
      f == IF n <= base + Window THEN base ELSE n - Window
      visible == f + 1 .. n
  IN /\ born' = n /\ first' = f
     /\ dom' = dom \cup {i \in visible : \A j \in visible \cap dom : i < j}
     /\ torn' = torn \cup {m \in {"overlap", "mixed", "load"} :
                             \/ m = "overlap" /\ Meanwhile(Pump)
                             \/ m = "mixed" /\ dom # {}
                             \/ m = "load" /\ visible \cap dom # {}}
     /\ Goto(Pump, "notice")
     /\ UNCHANGED <<base, active, stale, outdated, todo, done, anchor, stream, tools,
                    exempt>>
\* The history of the thread a switch leads to.
LoadSwitched == At(Pump, "cleared") /\ Load /\ UNCHANGED left
\* The history of the thread the program resumes; messages may be there before.
LoadResumed ==
  /\ At(Pump, "idle") /\ base = 0
  /\ IF born = 0 THEN Spend("resume") ELSE Spend("early")
  /\ Load

-----------------------------------------------------------------------------
(* Streaming *)

\* append_content: the widget has more than the data.
Text ==
  /\ At(Turn, "idle") /\ stream # None /\ Spend("text")
  /\ stale' = stale \cup {stream}
  /\ UNCHANGED <<base, born, first, active, viewVars, taskVars, ghostVars>>

\* A bug to catch: the data is left as it was mounted.
SyncedNever == stale
\* _flush_assistant_text_ns: the data is brought up to date, if it is stored, and
\* only then the message no longer protected.
Synced == IF stream > base THEN stale \ {stream} ELSE stale
Flush ==
  /\ At(Turn, "idle") /\ stream \in stale
  /\ Spend("flush")
  /\ stale' = Synced /\ active' = None /\ stream' = None
  /\ UNCHANGED <<base, born, first, viewVars, pc, todo, done, anchor, tools, ghostVars>>
\* The flush before a human message or a diff leaves the message to be appended to.
FlushKeeps ==
  /\ At(Turn, "idle") /\ stream \in stale
  /\ Spend("keep")
  /\ stale' = Synced /\ active' = None /\ exempt' = exempt \cup {stream}
  /\ UNCHANGED <<base, born, first, viewVars, taskVars, torn>>

\* set_success, set_error, set_rejected: nothing tells the store.
ToolEnds(i) ==
  /\ At(Turn, "idle") /\ i \in tools
  /\ tools' = tools \ {i} /\ stale' = stale \cup {i}
  /\ UNCHANGED <<base, born, first, active, viewVars, pc, todo, done, anchor, stream,
                 left, ghostVars>>

\* The turn is cancelled wherever it awaits: nothing is protected any more, and
\* what it has pruned is not marked.
Cancel ==
  /\ pc[Turn] \in {"idle", "mounted", "pruning"} /\ Spend("cancel")
  /\ active' = None /\ stream' = None /\ Goto(Turn, "notice")
  /\ todo' = [todo EXCEPT ![Turn] = {}] /\ done' = [done EXCEPT ![Turn] = {}]
  /\ torn' = IF done[Turn] = {} THEN torn ELSE torn \cup {"cancel"}
  /\ exempt' = IF stream = None THEN exempt ELSE exempt \cup {stream}
  /\ UNCHANGED <<base, born, first, stale, viewVars, anchor, tools>>

Next ==
  \/ MountNote \/ MountDiff \/ MountReply \/ MountTool
  \/ \E t \in Task : MountNotice(t) \/ StartPrune(t) \/ PruneNext(t) \/ EndPrune(t)
  \/ StartHydrate \/ HydrateNext \/ EndHydrate
  \/ ClearCommand \/ SwapClears \/ LoadSwitched \/ LoadResumed
  \/ Text \/ Flush \/ FlushKeeps \/ (\E i \in tools : ToolEnds(i)) \/ Cancel

Spec == Init /\ [][Next]_vars

-----------------------------------------------------------------------------
(* What it promises *)

AtRest == \A t \in Task : pc[t] = "idle"

\* The newest WINDOW_SIZE messages are always on the screen, however mounting,
\* pruning, hydration, clearing and cancellation overlap, unless a history could
\* not be mounted (get_messages_to_prune, and the lists that outlive an await).
NewestMounted ==
  "load" \notin torn => \A i \in base + 1 .. born : i + Window > born => i \in dom

\* While a message is the one that is streamed to, it is on the screen, though prunings
\* chosen before it became active are still under way ("Active messages are never
\* archived").
ActiveMounted == active # None => active \in dom

\* Every widget is of a message the store has: nothing of a cleared transcript
\* comes back, a hydration or a pruning under way included (_clear_messages).
OnlyStored == \A i \in dom : base < i /\ i <= born

\* At rest the widgets are exactly the window, unless two tasks were in it at
\* once, a pruning was cancelled, or a history met messages (mark_pruned and
\* mark_hydrated after the awaits).
WindowMounted == AtRest /\ torn = {} => dom = first + 1 .. born

\* An assistant message flushed at its end comes back as it was, when it has been
\* pruned and hydrated (_sync_message_content before the protection ends).
StreamedIsRestored == outdated \subseteq exempt

\* Every message the store has is on the screen, or above the window, where
\* scrolling brings it back.
Reachable == AtRest => \A i \in base + 1 .. born : i \in dom \/ i <= first

\* A widget that comes back shows what it showed: "This dataclass holds all
\* information needed to recreate a message widget" (message_store.py).
RestoredIsCurrent == outdated = {}
=============================================================================
