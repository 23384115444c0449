---------------------------- MODULE AgentHistory ----------------------------
(***************************************************************************)
(* What an agent remembers of a conversation: the messages in the thread's *)
(* state, the summarization event that replaces their head, and the files  *)
(* it points to.  The server's run of a turn (the middlewares around the   *)
(* model and the tools, libs/deepagents) and the client that starts it,    *)
(* cancels it and writes to the same state (libs/code).  A message has an  *)
(* id, a kind and the tool calls it makes or answers; its text is left out.*)
(* Each stretch between two checkpoints, or two requests, is one action.   *)
(***************************************************************************)
EXTENDS Naturals, Sequences, FiniteSets, SequencesExt

CONSTANTS
  Call,      \* tool calls, in the order a response makes them
  Compacts,  \* those that are calls of compact_conversation
  Reads,     \* those that are calls of read_file, and name a file
  None,
  Budgets    \* functions [Op -> Nat]: how often each of these may happen

Op == {"input", "cancel", "offload", "fail", "summary", "crash", "compact", "read"}

ASSUME CallAssumption ==
  /\ Call \subseteq Nat /\ IsFiniteSet(Call)
  /\ Compacts \subseteq Call /\ Reads \subseteq Call /\ Compacts \cap Reads = {}
ASSUME BudgetsAssumption == Budgets \subseteq [Op -> Nat]
ASSUME NoneAssumption == None \notin Nat /\ None \notin BOOLEAN

VARIABLES
  \* the thread's state
  msgs,       \* messages
  event,      \* _summarization_event, or None
  born,       \* the ids given so far
  disk,       \* the messages and the event of the last checkpoint
  \* the backend's files
  file,       \* the messages in /conversation_history
  stored,     \* the calls whose result is in /large_tool_results
  \* the server's run
  pc,         \* where it stands
  view,       \* the messages of the request that is out
  pending,    \* the event that will be committed with its response, or None
  clips,      \* new_state_tail: the ids of results that will be stubs with it
  reply,      \* the tool calls of the response, as it streams
  finished,   \* tools that returned in this superstep
  evicted,    \* those of them whose result is a stub
  compacted,  \* the event one of them returned, or None
  \* the client
  ui,         \* what it awaits
  shown,      \* the calls of interrupted_msg, or None when there is none
  retried,    \* aupdate_state has met its first conflict
  plan,       \* the event /offload has built, or None
  left,       \* [Op -> Nat]: what remains of the budget
  \* what happened, for the properties
  lost,       \* a write of /conversation_history failed
  shifted,    \* the messages before the cutoff of an event or a plan have changed
  reissued    \* an interrupted message repeats an answered call

stateVars == <<msgs, event, born>>
fileVars == <<file, stored, disk>>
toolVars == <<finished, evicted, compacted>>
callVars == <<view, pending, clips, reply>>
clientVars == <<ui, shown, retried, plan>>
ghostVars == <<lost, shifted, reissued>>
vars == <<stateVars, fileVars, pc, callVars, toolVars, clientVars, left, ghostVars>>

Message == [id : Nat, kind : {"human", "ai", "tool"}, calls : SUBSET Call, stub : BOOLEAN]
Event == [cutoff : Nat, covers : SUBSET Nat, saved : BOOLEAN]
Maybe(S) == S \cup {None}

TypeOK ==
  /\ msgs \in Seq(Message) /\ event \in Maybe(Event) /\ born \in Nat
  /\ disk \in [msgs : Seq(Message), event : Maybe(Event)]
  /\ file \in SUBSET Nat /\ stored \in SUBSET Call
  /\ pc \in {"idle", "before", "ready", "model", "asking", "tools"}
  /\ view \in Seq(Message) /\ pending \in Maybe(Event) /\ clips \in SUBSET Nat
  /\ reply \in SUBSET Call /\ finished \in SUBSET Call /\ evicted \in SUBSET finished
  /\ compacted \in Maybe(Event)
  /\ ui \in {"ready", "streaming", "saving", "noticing", "offloading"}
  /\ shown \in Maybe(SUBSET Call) /\ retried \in BOOLEAN /\ plan \in Maybe(Event)
  /\ left \in [Op -> Nat] /\ lost \in BOOLEAN /\ shifted \in BOOLEAN /\ reissued \in BOOLEAN

Init ==
  /\ msgs = <<>> /\ event = None /\ born = 0
  /\ disk = [msgs |-> <<>>, event |-> None] /\ file = {} /\ stored = {}
  /\ pc = "idle" /\ view = <<>> /\ pending = None /\ clips = {} /\ reply = {}
  /\ finished = {} /\ evicted = {} /\ compacted = None
  /\ ui = "ready" /\ shown = None /\ retried = FALSE /\ plan = None
  /\ left \in Budgets /\ lost = FALSE /\ shifted = FALSE /\ reissued = FALSE

-----------------------------------------------------------------------------
(* Messages *)

New(i, k, cs) == [id |-> i, kind |-> k, calls |-> cs, stub |-> FALSE]
Summary == New(0, "human", {})
Ids(ms) == {ms[i].id : i \in DOMAIN ms} \ {0}

Answered(ms) == UNION {ms[i].calls : i \in {j \in DOMAIN ms : ms[j].kind = "tool"}}
Made(ms) == UNION {ms[i].calls : i \in {j \in DOMAIN ms : ms[j].kind = "ai"}}
\* Where the calls that no message answers are.
Dangling(ms) ==
  {d \in (DOMAIN ms) \X Call :
     ms[d[1]].kind = "ai" /\ d[2] \in ms[d[1]].calls \ Answered(ms)}

\* The results of cs, with the ids after n.
Results(cs, stubs, n) ==
  LET order == SetToSeq(cs)
  IN [k \in DOMAIN order |->
        [id |-> n + k, kind |-> "tool", calls |-> {order[k]}, stub |-> order[k] \in stubs]]

\* A bug to catch: only the newest message is looked at.
PatchNewest(ms) ==
  LET cs == {c \in Call : <<Len(ms), c>> \in Dangling(ms)}
  IN ms \o Results(cs, {}, born)
\* before_agent: every message that makes a dangling call is followed by an answer.
Patch(ms) ==
  LET before(i) == Cardinality({d \in Dangling(ms) : d[1] < i})
      after(i) == {c \in Call : <<i, c>> \in Dangling(ms)}
  IN FlattenSeq([i \in DOMAIN ms |-> <<ms[i]>> \o Results(after(i), {}, born + before(i))])

-----------------------------------------------------------------------------
(* Summarization *)

\* A bug to catch: the summary's own place in the list is counted.
CutoffPlusOne(e, n) == IF e = None THEN n ELSE e.cutoff + n
\* _compute_state_cutoff.
StateCutoff(e, n) == IF e = None THEN n ELSE e.cutoff + n - 1

\* _apply_event_to_messages.
Effective(ms, e) ==
  IF e = None THEN ms
  ELSE <<Summary>> \o SubSeq(ms, e.cutoff + 1, Len(ms))

\* _determine_cutoff_index moves a cut that falls on a result back to the message
\* that made the call, or past the results when there is none.
SafePoint(ms, k) ==
  LET stop == Min({i \in k + 1 .. Len(ms) + 1 : i > Len(ms) \/ ms[i].kind # "tool"})
      ids == UNION {ms[i].calls : i \in k + 1 .. stop - 1}
      callers == {i \in 1 .. k : ms[i].kind = "ai" /\ ms[i].calls \cap ids # {}}
  IN IF ms[k + 1].kind # "tool" THEN k
     ELSE IF callers # {} THEN Max(callers) - 1 ELSE stop - 1
\* How much is kept depends on tokens: any of these may be the cut.
Cutoffs(ms) ==
  {SafePoint(ms, k) : k \in IF Len(ms) <= 1 THEN {} ELSE 0 .. Len(ms) - 1} \ {0}

\* The event that summarizes the first n of the effective messages.
NewEvent(eff, e, n, ok) ==
  [cutoff |-> StateCutoff(e, n), saved |-> ok,
   covers |-> Ids(SubSeq(eff, 1, n)) \cup IF e = None THEN {} ELSE e.covers]

\* A bug to catch: nothing is appended to a file that exists.
AppendFirst(ids, ok) ==
  file' = (IF ok /\ file = {} THEN ids ELSE file) /\ lost' = (lost \/ ~ok)
\* _offload_to_backend: prior summaries are left out; a failure is not fatal.
OffloadMessages(ids, ok) ==
  file' = (IF ok THEN file \cup ids ELSE file) /\ lost' = (lost \/ ~ok)

-----------------------------------------------------------------------------
(* The run *)

Busy == pc \in {"before", "ready", "model", "tools"}
Spend(o) == left[o] > 0 /\ left' = [left EXCEPT ![o] = @ - 1]
\* What the tools of the superstep returned, after the messages.
Settled == msgs \o Results(finished, evicted, born)
SettledEvent == IF compacted = None THEN event ELSE compacted
\* With durability "exit", the state is written when the run ends, and on an update.
Checkpoint ==
  disk' = IF Busy' THEN disk ELSE [msgs |-> Settled', event |-> SettledEvent']
NoCall == view' = <<>> /\ pending' = None /\ clips' = {}
\* A bug to catch: the stubs are remembered past their superstep.
NoToolsButStubs == finished' = {} /\ evicted' = evicted /\ compacted' = None
NoTools == finished' = {} /\ evicted' = {} /\ compacted' = None

\* They are committed, and ms after them.
Settle(ms, e) ==
  /\ msgs' = Settled \o ms /\ born' = born + Cardinality(finished) + Len(ms)
  /\ event' = e

\* A user's message.  What tools of an interrupted run returned may be dropped.
Input ==
  /\ ui = "ready" /\ ~Busy /\ Spend("input")
  /\ LET given == born + Cardinality(finished) + 1
         message == New(given, "human", {})
     IN \/ Settle(<<message>>, SettledEvent)
        \/ born' = given /\ msgs' = Append(msgs, message) /\ UNCHANGED event
  /\ NoTools /\ pc' = "before" /\ ui' = "streaming" /\ reply' = {}
  /\ UNCHANGED <<fileVars, view, pending, clips, shown, retried, plan, ghostVars>>

\* PatchToolCallsMiddleware.before_agent.
BeforeAgent ==
  /\ pc = "before" /\ pc' = "ready"
  /\ msgs' = Patch(msgs) /\ born' = born + Cardinality(Dangling(msgs))
  /\ shifted' = (shifted \/ \E e \in {event, plan} \ {None}, d \in Dangling(msgs) :
                               d[1] <= e.cutoff)
  /\ UNCHANGED <<event, fileVars, callVars, toolVars, clientVars, left, lost, reissued>>

\* The tool calls a response may make: none, one, or two, of which one may compact (the
\* event takes one write in a superstep), and within the budget.
Fresh == Call \ Made(msgs)
Affords(cs) ==
  /\ Cardinality(cs \cap Compacts) <= left["compact"]
  /\ Cardinality(cs \cap Reads) <= left["read"]
Replies ==
  {cs \in SUBSET Fresh : /\ Cardinality(cs) <= 2 /\ Cardinality(cs \cap Compacts) <= 1
                         /\ Affords(Made(msgs) \cup cs)}

\* awrap_model_call: the request as it is.
CallModel ==
  /\ pc = "ready" /\ pc' = "model"
  /\ view' = Effective(msgs, event) /\ pending' = None /\ clips' = {}
  /\ reply' \in Replies
  /\ UNCHANGED <<stateVars, fileVars, toolVars, clientVars, left, ghostVars>>

\* awrap_model_call: the request once its head is summarized.  The messages are
\* filed first; the event waits for the response.
SummarizeAt(n, tail) ==
  LET eff == Effective(msgs, event)
  IN \E ok \in BOOLEAN :
       /\ OffloadMessages(Ids(SubSeq(eff, 1, n)), ok)
       /\ pending' = NewEvent(eff, event, n, ok)
       /\ view' = <<Summary>> \o tail
Summarize ==
  /\ pc = "ready" /\ pc' = "model" /\ Spend("summary")
  /\ \E n \in Cutoffs(Effective(msgs, event)) :
       SummarizeAt(n, SubSeq(Effective(msgs, event), n + 1, Len(Effective(msgs, event))))
  /\ clips' = {} /\ reply' \in Replies
  /\ UNCHANGED <<stateVars, stored, disk, toolVars, clientVars, shifted, reissued>>

\* _clip_overflow_tail: the results the list ends with.
TailBatch(ms) ==
  {i \in DOMAIN ms : \A j \in i .. Len(ms) : ms[j].kind = "tool"}
\* What read_file returned is cut short and points to the file it read: nothing is
\* written.  The call is looked up in the messages that are kept.
Sliced(ms) == {i \in TailBatch(ms) : ms[i].calls \subseteq Reads \cap Made(ms)}
\* Of the others, those that can be written: a file of that name is not written twice.
Clippable(ms) == Sliced(ms) \cup {i \in TailBatch(ms) : ms[i].calls \cap stored = {}}

\* The request overflows: it is summarized, and its last results clipped.
Overflow ==
  LET eff == Effective(msgs, event)
  IN /\ pc = "model" /\ pending = None /\ Spend("summary")
     /\ \E n \in Cutoffs(eff) :
          LET kept == SubSeq(eff, n + 1, Len(eff))
          IN \E cut \in SUBSET Clippable(kept) :
               /\ SummarizeAt(n, [i \in DOMAIN kept |->
                                    [kept[i] EXCEPT !.stub = @ \/ i \in cut]])
               /\ clips' = {kept[i].id : i \in cut}
               /\ stored' = stored \cup UNION {kept[i].calls : i \in cut \ Sliced(kept)}
     /\ reply' \in Replies
     /\ UNCHANGED <<stateVars, disk, pc, toolVars, clientVars, shifted, reissued>>

\* The model node ends: its message, the event and the clipped results are
\* committed.  The calls wait for approval, or run.
Respond ==
  /\ pc = "model"
  /\ born' = born + 1
  /\ msgs' = Append([i \in DOMAIN msgs |->
                       [msgs[i] EXCEPT !.stub = @ \/ msgs[i].id \in clips]],
                    New(born + 1, "ai", reply))
  /\ event' = IF pending = None THEN event ELSE pending
  /\ IF reply = {} THEN pc' = "idle" ELSE pc' \in {"asking", "tools"}
  /\ NoCall
  /\ UNCHANGED <<file, stored, reply, toolVars, clientVars, left, ghostVars>>
  /\ Checkpoint

\* The request fails, and the run with it: nothing is committed.
RequestFails ==
  /\ pc = "model" /\ pc' = "idle" /\ Spend("fail")
  /\ NoCall
  /\ UNCHANGED <<stateVars, file, stored, reply, toolVars, clientVars, ghostVars>>
  /\ Checkpoint

\* The server dies: what was not written is gone.
Crash ==
  /\ Spend("crash") /\ pc' = IF Busy THEN "idle" ELSE pc
  /\ msgs' = disk.msgs /\ event' = disk.event /\ born' = born + Cardinality(finished)
  /\ NoCall /\ NoTools
  /\ UNCHANGED <<fileVars, reply, clientVars, ghostVars>>

\* The user decides on the calls: the rejected are answered at once.
Decide(approved) ==
  /\ pc = "asking" /\ ui = "streaming"
  /\ msgs' = msgs \o Results(reply \ approved, {}, born)
  /\ born' = born + Cardinality(reply \ approved)
  /\ reply' = approved
  /\ pc' = IF approved = {} THEN "ready" ELSE "tools"
  /\ UNCHANGED <<event, fileVars, view, pending, clips, toolVars, clientVars, left,
                 ghostVars>>

\* A bug to catch: a stub replaces a result that could not be written.
EvictAnyway(c) == stored' \in {stored, stored \cup {c}} /\ evicted' = evicted \cup {c}
\* A large result is written under the name of its call, and then it is a stub.
Evict(c) ==
  c \notin stored /\ stored' = stored \cup {c} /\ evicted' = evicted \cup {c}
\* One tool of the superstep returns; its result may be large, which read_file deals with
\* by itself.
ToolReturns(c) ==
  /\ pc = "tools" /\ c \in reply \ finished /\ finished' = finished \cup {c}
  /\ \/ UNCHANGED <<stored, evicted>>
     \/ c \notin Compacts \cup Reads /\ Evict(c)
  /\ UNCHANGED <<stateVars, file, disk, pc, callVars, compacted, clientVars, left,
                 ghostVars>>

\* compact_conversation.
Compact(c) ==
  /\ pc = "tools" /\ c \in (reply \cap Compacts) \ finished
  /\ finished' = finished \cup {c} /\ Spend("summary")
  /\ LET eff == Effective(msgs, event)
     IN \E n \in Cutoffs(eff), ok \in BOOLEAN :
          /\ OffloadMessages(Ids(SubSeq(eff, 1, n)), ok)
          /\ compacted' = NewEvent(eff, event, n, ok)
  /\ UNCHANGED <<stateVars, stored, disk, pc, callVars, evicted, clientVars, shifted,
                 reissued>>

\* The last of them has returned.
ToolsReturn ==
  /\ pc = "tools" /\ finished = reply /\ pc' = "ready"
  /\ Settle(<<>>, SettledEvent) /\ NoTools
  /\ UNCHANGED <<fileVars, callVars, clientVars, left, ghostVars>>

-----------------------------------------------------------------------------
(* The client *)

\* The stream has ended, or the user has rejected the calls without a word.
TurnEnds ==
  /\ ui = "streaming" /\ ~Busy /\ ui' = "ready"
  /\ UNCHANGED <<stateVars, fileVars, pc, callVars, toolVars, shown, retried, plan, left,
                 ghostVars>>

\* The user interrupts: the client stops listening and rebuilds a message from the
\* calls whose widget is not done, and the text.  It may have seen less than the
\* server has done.
Cancel ==
  /\ ui = "streaming" /\ Spend("cancel")
  /\ \E cs \in SUBSET reply, text \in BOOLEAN :
       IF cs = {} /\ ~text THEN ui' = "noticing" /\ shown' = None
       ELSE ui' = "saving" /\ shown' = cs
  /\ retried' = FALSE
  /\ UNCHANGED <<stateVars, fileVars, pc, callVars, toolVars, plan, ghostVars>>

\* aupdate_state, when no run holds the thread: what its tools returned is applied
\* before the update.  Then the notice, or nothing.
Update(ms, e) ==
  ~Busy /\ pc' = "idle" /\ retried' = FALSE /\ Settle(ms, e) /\ NoTools /\ Checkpoint
SaveReply ==
  /\ ui = "saving" /\ ui' = "noticing"
  /\ Update(<<New(born + Cardinality(finished) + 1, "ai", shown)>>, SettledEvent)
  /\ reissued' = (reissued \/ shown \cap Answered(Settled) # {})
  /\ shown' = None
  /\ UNCHANGED <<file, stored, callVars, plan, left, lost, shifted>>
SaveNotice ==
  /\ ui = "noticing" /\ ui' = "ready"
  /\ Update(<<New(born + Cardinality(finished) + 1, "human", {})>>, SettledEvent)
  /\ UNCHANGED <<file, stored, callVars, shown, plan, left, ghostVars>>

\* The first conflict: the runs of the thread are cancelled, which may time out.
Conflict ==
  /\ ui \in {"saving", "noticing", "offloading"} /\ Busy /\ ~retried /\ retried' = TRUE
  /\ \/ UNCHANGED <<pc, view, pending, clips>>
     \/ pc' = "idle" /\ NoCall
  /\ UNCHANGED <<stateVars, file, stored, reply, toolVars, ui, shown, plan, left, ghostVars>>
  /\ Checkpoint

\* A bug to catch: it is tried for as long as the run lives.
GivesUpNever == left["fail"] > 0
\* The second conflict, or the network: what was to be written is dropped.
GivesUp == (Busy /\ retried) \/ left["fail"] > 0
UpdateFails ==
  /\ ui \in {"saving", "noticing", "offloading"} /\ GivesUp
  /\ left' = IF Busy /\ retried THEN left ELSE [left EXCEPT !["fail"] = @ - 1]
  /\ ui' = "ready" /\ shown' = None /\ plan' = None /\ retried' = FALSE
  /\ UNCHANGED <<stateVars, fileVars, pc, callVars, toolVars, ghostVars>>

\* The first n of ms are those that were written: none was inserted or dropped since.
Agrees(ms, n) ==
  \A i \in DOMAIN disk.msgs : i <= n =>
    i <= Len(ms) /\ ms[i].id = disk.msgs[i].id /\ ms[i].kind = disk.msgs[i].kind
\* /offload reads the state that was written, and files and summarizes what it read.
StartOffload ==
  /\ ui = "ready" /\ Spend("offload")
  /\ LET eff == Effective(disk.msgs, disk.event)
     IN \E n \in Cutoffs(eff), ok \in BOOLEAN :
          /\ OffloadMessages(Ids(SubSeq(eff, 1, n)), ok)
          /\ plan' = NewEvent(eff, disk.event, n, ok /\ Ids(SubSeq(eff, 1, n)) # {})
  /\ shifted' = (shifted \/ ~Agrees(Settled, plan'.cutoff + 1))
  /\ ui' = "offloading" /\ retried' = FALSE
  /\ UNCHANGED <<stateVars, stored, disk, pc, callVars, toolVars, shown, reissued>>
EndOffload ==
  /\ ui = "offloading" /\ Update(<<>>, plan)
  /\ ui' = "ready" /\ plan' = None
  /\ UNCHANGED <<file, stored, callVars, shown, left, ghostVars>>

Next ==
  \/ Input \/ BeforeAgent \/ CallModel \/ Summarize \/ Overflow \/ Respond \/ RequestFails
  \/ Crash
  \/ \E approved \in SUBSET reply : Decide(approved)
  \/ \E c \in Call : ToolReturns(c) \/ Compact(c)
  \/ ToolsReturn \/ TurnEnds \/ Cancel \/ SaveReply \/ SaveNotice \/ Conflict
  \/ UpdateFails \/ StartOffload \/ EndOffload

Spec == Init /\ [][Next]_vars

\* The requests of the client are answered, or time out.
Saving == SaveReply \/ SaveNotice \/ Conflict \/ UpdateFails \/ EndOffload
FairSpec == Spec /\ WF_vars(Saving)

-----------------------------------------------------------------------------
(* What it promises *)

\* The results that directly follow the i-th message.
After(ms, i) ==
  UNION {ms[j].calls : j \in {k \in i + 1 .. Len(ms) :
                                \A l \in i + 1 .. k : ms[l].kind = "tool"}}
CallsAnswered(ms) == \A i \in DOMAIN ms : ms[i].kind = "ai" => ms[i].calls \subseteq After(ms, i)
ResultsCalled(ms) ==
  \A i \in DOMAIN ms : ms[i].kind = "tool" =>
    \E j \in 1 .. i - 1 : /\ ms[j].kind = "ai" /\ ms[i].calls \subseteq ms[j].calls
                          /\ \A l \in j + 1 .. i : ms[l].kind = "tool"

\* Every request a model gets is one it accepts: each call is followed by its
\* result, each result follows its call, whatever was cancelled, rejected,
\* patched, summarized or cut before; but for the two cases the README describes
\* (before_agent, _determine_cutoff_index, _handle_interrupt_cleanup).
RequestWellFormed ==
  pc = "model" /\ ~shifted /\ ~reissued => CallsAnswered(view) /\ ResultsCalled(view)

\* The summary stands for exactly the messages before the cutoff: no message is
\* forgotten, and none is both summarized and shown (_compute_state_cutoff), as
\* long as nothing is inserted before the cutoff.
SummaryMeetsTail ==
  event # None /\ ~shifted =>
    event.cutoff <= Len(msgs) /\ Ids(SubSeq(msgs, 1, event.cutoff)) = event.covers

\* What a summary replaces can be read in the history file, unless a write failed,
\* whatever requests failed and whoever else summarized (_offload_to_backend).
SummarizedIsFiled == event # None /\ ~lost => event.covers \subseteq file

\* A result that was replaced by a pointer to /large_tool_results can be read there: no
\* pointer is committed before its file, or outlives it, over failed writes, overflows,
\* cancelled turns and crashes (_offload_tool_message_content, _clip_overflow_tail).  What
\* read_file returned may point to the file it read instead, which may have changed since.
StubsReadable ==
  \A i \in DOMAIN msgs : msgs[i].stub => msgs[i].calls \subseteq stored \cup Reads

\* An interrupted turn, or /offload, gives the conversation back, though the run
\* on the server goes on: "callers cannot block indefinitely" (aupdate_state).
ClientReturns == ui \in {"saving", "noticing", "offloading"} ~> ui = "ready"

\* "Before the agent runs, handle dangling tool calls from any AIMessage"
\* (patch_tool_calls.py).
EveryCallAnswered == pc = "model" => CallsAnswered(view)

=============================================================================
