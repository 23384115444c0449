# Formal models of the NVIDIA SDK advisor (deepagents code)

TLA+ models of the program in `libs/`, the TLC configurations that check them on
small instances, and theorems about them that TLAPS proves for every value of the
constants. Paths are relative to the repository; a file name without a path is in
`libs/code/deepagents_code`.

Contents: 1 the system, 2 the modules, 3 the runs, 4 what the code does not keep,
5 the proofs, 6 what is not modelled, 7 the plan.

## 1. The system

The program is a terminal coding agent. A Textual application (`app.py`) runs in
one process with one asyncio event loop; it starts a LangGraph server as a
subprocess and talks to it as a client; the server runs the agent graph that
`libs/deepagents` builds out of middleware and backends. Partners plug in
interpreters and sandboxes.

| component | state it keeps | operations | interacts by | what makes it correct | module |
|---|---|---|---|---|---|
| session core, `app.py` | input queue, deferred actions, busy flags, worker handles, thread id, connection flags | submit, drain, run a turn or a shell command, interrupt, `/clear`, `/restart`, switch thread, model or agent, MCP login refresh | calls, Textual messages to itself, workers, callbacks | one drain at a time, no message lost or doubled, nothing waits for ever | `AppSession` |
| server subprocess, `server.py`, `server_manager.py` | process, port, owned configuration directory, staged environment | start, stop, restart, update_env | signals, HTTP health checks | no process without an owner, a spent object runs nothing, the server runs the assistant the session shows | `ServerProcess` |
| message store, `widgets/message_store.py` | all messages, the visible window, the active message | append, prune, hydrate, bulk load, clear | calls from the session and the turn | the newest and the active messages are on the screen, nothing of a cleared transcript is | `Transcript` |
| turn execution, `textual_adapter.py`, `remote_client.py` | text and tool widgets under way, the round of interrupts | stream, take interrupts, resume, clean up | server-sent events, futures of the prompts | each prompt is answered in its round; an interrupt leaves a history the model accepts | `Transcript`, `Prompts`, `AgentHistory` |
| approval and ask-user prompts, `widgets/approval.py`, `widgets/ask_user.py` | one pending menu each, its future, placeholder and deferral | ask, decide, amend, reject, remove | futures awaited by the turn, messages to the app | who waits has a menu, every prompt ends, nothing runs that was not let through | `Prompts` |
| summarization, tool-call patching, eviction, `libs/deepagents/deepagents/middleware` | the thread's messages, the summarization event, files | summarise, evict, clip, patch, `/offload` | hooks around model and tool calls | every request is well formed, the summary stands for exactly what it replaced | `AgentHistory` |
| threads and sessions, `sessions.py`, `widgets/thread_selector.py` | rows, filter, selection, what is drawn; caches over a checkpoint store | list, filter, sort, delete, prewarm | workers, a render lock | the selected index is in the list, what is shown is what is acted on | `ThreadSelector` |
| manifest database, `manifest_db.py`, `manifest_tools.py` | SQLite tables of captured manifests | build, resolve dependencies, size and list a plan | SQL, one connection per call | the closure is exact, a plan fits its board | `Manifest` |
| MCP sessions and tools, `mcp_tools.py` | one cached session per server, a lock for each | make, call, retry once, invalidate, clean up | network, subprocesses, one event loop | one live session per server, somebody closes each, every call ends | `McpSessions` |
| MCP login, `mcp_auth.py`, `mcp_login_service.py` | tokens, disabled servers | log in, refresh | network, token files | no refreshed token is lost | |
| event bus, `event_bus.py` | socket, client handlers | decode, acknowledge, forward | posts to `on_external_input` | an acknowledged event is handled in order | |
| backends, `libs/deepagents/deepagents/backends` | files in state, on disk, in a store | ls, read, write, edit, grep, glob | composite routing by path prefix | longest prefix wins | |
| QuickJS interpreter, `libs/partners/quickjs` | one context per thread, tool-call budget | eval, bridge tools, snapshot | worker threads, event loops | budget never exceeded | |
| ACP server, `libs/acp` | sessions, plans, permissions | prompt, cancel, set mode | JSON-RPC | one prompt per session | |

`PROJECT.json` lists the rest (model configuration, widgets, command line, sandbox
partners, deploy CLI, evals) and, under `hazards`, what in this code is hard to
test, each at its line with the properties that cover it.

### What is hard

Everything in the app runs on one event loop, so each stretch of code between two
awaits is atomic, but a dozen coroutines share some forty flags, lists and widgets
across their awaits:

- a turn ends in a worker while the pump is in the middle of the next input; the
  busy flag is cleared before the clean-up awaits, drains deferred actions and then
  takes the next message;
- four routines restart the server, share one `_connecting` flag and are not
  serialised with each other; a restart may be cancelled while its process boots;
- lists of messages to prune or hydrate are taken, then awaited over, while commands,
  the turn and `/clear` change the store and the screen;
- a turn that was interrupted goes on on the server, and both sides write the
  history; a summary's cutoff is a position in a list that may still grow at its head;
- menus wait for one another by polling, and may be removed, deferred, amended or
  outlive their turn;
- workers of exclusive groups replace each other in the middle of loading, filtering
  and drawing a list;
- calls that share an MCP session lose it, drop it and make a new one at once, across
  awaits of the network that may fail or never end;
- every query of a tool call is a transaction of its own on a database that may be
  rebuilt in place.

## 2. The modules

| module | contents |
|---|---|
| `AppSession`, `AppSessionProps` | the session core; its promises |
| `ServerService` | abstract specification: what a `ServerProcess` object promises to its holder |
| `ServerProcess` | the server objects, their processes and the tasks that drive them; implements `ServerService` for every object |
| `Transcript` | message store, screen, pruning and hydration, the streaming turn |
| `AgentHistory` | a thread's messages, the middlewares around model and tools, the client's clean-up and `/offload` |
| `Prompts` | a turn's rounds of approvals and questions, menus, keys and commands |
| `ThreadSelector` | the selector screen, its workers, the caches of `sessions.py` |
| `Manifest` | the build of the manifest database and the tools that answer from it |
| `McpSessions` | the MCP session manager, the tool calls that go through it, its clean-up |
| `MC*` | instances for TLC: kinds, budgets, manifests |
| `*Proofs` | the theorems, see 5 |

Conventions shared by all:

- *Steps.* One action is a stretch of code between two awaits (or two queries, two
  checkpoints). A task is an entry of `pc`, whose labels name the await it is at.
- *Data.* A message, a thread, a prompt, a component is a member of a small set or a
  number; text, wording, layout and logging are left out.
- *Budgets.* `Budget`/`Budgets`/`Scenarios` bound how often each user operation and
  each fault may happen, and are the only bounds unless said otherwise; a set of
  budgets is a choice made in `Init`. Once the budget is used up the system is at
  rest, hence `CHECK_DEADLOCK FALSE` in every configuration: the program waits for
  the user then.
- *History variables* are commented as such: they record what happened and no guard
  of the code reads them.
- *Mutants.* Operators under "A bug to catch" or marked `mutant` are plausible bugs of
  the definition after them; `PROJECT.json` names for each checked property one that
  breaks it.

### AppSession

`active` is the task that holds the event loop, `None` while all are suspended. An
`AwaitLabel` is an await, a `RunLabel` a point at which the task goes on without
giving the loop away, which is how a long stretch (a drain loop, `_process_message`
called by a drain) is cut into actions that other tasks still cannot enter.

| task | code |
|---|---|
| `Pump` | the App's message pump: key bindings, submitted input, posted messages, `call_later` callbacks, one handler at a time |
| a member of `Msg` | the worker of that message: `_run_agent_task` or `_run_shell_task` with its clean-up |
| `Start`, `Swap`, `Login` | the workers `_start_server_background`, `_restart_server_for_agent_swap`, and `_run_mcp_login_worker` from the moment the login has succeeded |
| `SeqTask` | `_run_session_start_sequence`, one task per server that comes up |
| `SafeTask`, `LaterTask` | `_safe_drain`; `_process_next_from_queue` started by the end of a swap |

`mail` is the pump's own mailbox: `ServerReady` ("up"), `ServerStartFailed` ("failed"),
the `call_after_refresh` callbacks ("seq", "safe", "later") and the `call_later`
switches ("thread", "model"), in the order they were posted. Keys and submitted input
are not in it: the user may act whenever the pump is idle. Every variable is a field of
`DeepAgentsApp` except control (`active`, `pc`, `cur`), locals (`saved`, `turnThread`),
`fate` (history: what became of each message) and `left`. A message is a `chat`, a
`shell` command or `/clear`.

Fairness (`FairSpec`): weak fairness of each task, of the startup and swap workers and
of the pump's mailbox. asyncio runs every ready callback, an await of a finished
operation returns, and a restart returns by the code's own health timeout. Nothing is
asked of the user or of the faults.

### ServerService, ServerProcess

`ServerProcess` holds the operating system (`proc`: unborn, booting, up, dead, with
owner, port and assistant; `environ`, the variable `os.environ` holds), the objects
(`handle`, `dir`, `port`, `staged`), the app's view (`appServer`, `assistant`,
`client`, `failed`, `mail`, `quit`) and four tasks (`Start`, `/restart` on the pump,
login refresh, agent swap) with the object, process and saved environment each works
with. Stopping a process blocks the loop, waiting for its health check does not.
Faults: a process that crashes, one so slow that the restart times out (the respawn's
`wait_for`), a spawn that fails. `Proc` bounds how often a process is spawned.

`ServerService` is what a holder may rely on: absent, starting, serving, down, and
spent, from which nothing returns. `ServerProcess` implements it with a mapping from
the directory, the handle and the state of the process (`Phase(s)`); the theorem
`Implements` and the property `ServiceSpec` say so.

### Transcript

A message is the number of messages made before it and itself, so the store is the
interval `base + 1 .. born` and the window its tail from `first + 1`. `dom` is what has
a widget. `todo`, `done`, `anchor` are the locals of `_prune_old_messages` and
`_hydrate_messages_above`, one set for each task that may be inside them. `stale` are
messages whose stored data lags their widget, `outdated` widgets recreated from it.
`torn` (history) records when two tasks were in the window at once: `WindowMounted`
holds only while it is empty, see 4. `mount()` and `remove()` attach and detach
synchronously, which is Textual's doing and external.

### AgentHistory

The state of a thread (`msgs`, `event`), the last checkpoint (`disk`), the files (`file`,
`stored`), the run on the server (`pc`, the request that is out and what will be committed
with its response, the tools of the superstep) and the client (`ui`, `shown`, `plan`). A
message has an id, a kind, the calls it makes or answers, and whether it is a stub.
External, modelled from how the code uses them: langchain's safe cutoff point, the approval
middleware, langgraph's pending writes and its durability "exit"; the client lags at most
one response behind. Faults: a failing write of the history file, an overflow, a server that
dies, a cancelled turn whose run goes on. `lost`, `shifted` and `reissued` (history) record
that a write of the history failed, that the messages before a cutoff changed, and that an
interrupted message repeated a call that was answered; the properties speak of runs without,
see 4. `Compacts` are the calls of `compact_conversation`, of which there may be any number,
but one in a response (`Replies`): langgraph refuses two writes of the event in a superstep,
see 6. `Reads` are those of `read_file`, whose results are never evicted, and are sliced
instead of written when the tail of an overflowing request is clipped (`Sliced`). Fairness:
the client's requests are answered or time out (`Saving`).

### Prompts

Approvals and questions are interrupts numbered as they are raised. The turn takes them one
by one (`turn`, `cur`, `todo`), resumes with `payload`, and is cancelled by Esc,
`/force-clear`, `/clear`, `/restart` or a swap; the app has one pending menu of each kind, a
placeholder while the user types, an open reason input, and messages on their way (`held`,
`decided`; `sent`, the questions whose message is). `granted`, `ran`, `astray` (the
questions that lost their menu to the 30 s or to the message of one that did) and `orphaned`
(the approvals that were pending when the transcript was emptied, undecided and not told to
go) are history. Assumed: the pump is first in, first out; a mounted menu's message is
delivered; a menu that is removed sends nothing. Fairness: tasks and timers go on, the pump
handles what it has, and the user answers what is shown (`Answers`): without it a question
waits for ever, and should.

### ThreadSelector

`threads`, `filtered`, `selected`, `text`, `byUpdated`, `everywhere`, `confirm` are
fields of the screen; `mounted`, `options`, `lit` what is drawn. The exclusive workers
`Loader`, `Renderer` and `Enricher`, a worker for each deletion and the cache's `Warmer`
run between keys; a worker that is replaced stops wherever it stands, also inside the
render lock. A thread is a number, a row a thread with the time of its newest
checkpoint. Fairness: strong for whoever needs the lock (asyncio's lock is first in,
first out), weak for the rest.

### Manifest

`phase`, `todo`, `draft`, `db` are the build: the old file is unlinked, the groups are
ingested in any order in one transaction, and the build commits, or fails on a
duplicate release key and leaves empty tables behind. `at`, `con`, `roots`, `optional`,
`seen`, `pending`, `plan` are a call of `resolve_deps`, then one of `build_plan`; each
opens a connection of its own, which keeps an unlinked file; `con = None` says that it
is the file of a build under way. `whole` (history) says that the call was opened on a
complete database. The stack is the set of its unseen ids: the walk takes any of them,
which is every order. A size is the index of the entry it comes from. `Targets`,
`Score`, `ResolveForRelease` translate the code; `Needs`, `Installs` and `Closed` say
independently what the manifest means. `MaxBuild` bounds the builds.

### McpSessions

`entries`, `lock`, `closed` are the manager's; `pc`, `on`, `round`, `reauth` a tool call:
the session it holds (`session`, `retry_session`, or the one `_create_entry` makes) and
whether it is on its retry; `closer`, `victim` the clean-up's `_close` of each server.
`state` is what a session's transport does, and external: it may break at any time, opening
or closing it may hang, and a close may fail. A session that a cancellation or a timeout cut
off while it was opened or closed is `cut`, and nobody's: `_create_entry` closes after an
`Exception`, which `CancelledError` is not. `host` and `failed` are history. Whatever goes
wrong with a retry drops its session, an error that has nothing to do with the session too:
that is what the code does, and `HealthyIsKept` says so. `Sessions` bounds how many are
made, and is larger than the budgets need. Fairness: a call and a `_close` go on when they
can, a session that does not hang is made, refused or closed, timers expire; an opening or a
close need not return, and nothing need be called.

## 3. The runs

| run | instance | checks |
|---|---|---|
| `session_safety` | three sessions: two chats, a shell command, `/clear` and `/force-clear`; a chat and a shell command with an interrupt and two thread switches, one of which may fail; a chat with `/restart`, login refresh and agent swap, one of which may fail | `OneDrain`, `Conserved`, `NoStrandedMessage`, `OneThreadSwitch`, `NoStrandedAction`, `ConnectingIsOwned` |
| `session_startup` | an initial prompt whose resumed state may be unreadable, a chat, a shell command; one bypass, one swap with a teardown that may fail | `QueueInv` |
| `session_progress` | a chat, `/clear` and both selectors; a shell command with one restart, bypass, model switch and failure; fair | `EveryMessageHandled`, `DeferredTakenUp`, `ConnectingResolves`, `LoopIsYielded` |
| `server_process` | two objects, four processes, two ports and assistants; one of each operation and fault | `HandleOwnsLive`, `ServesAssistant`, `ServiceSpec` |
| `transcript` | a window of two, a buffer of two, a history of three; four budgets | `NewestMounted`, `ActiveMounted`, `OnlyStored`, `WindowMounted`, `StreamedIsRestored` |
| `agent_history` | a call of an ordinary tool, one of `compact_conversation`, one of `read_file`; nine budgets: four with the first and one of the others each, one with all three; fair | `TypeOK`, `RequestWellFormed`, `SummaryMeetsTail`, `SummarizedIsFiled`, `StubsReadable`, `ClientReturns` |
| `prompts` | two approvals, two questions; five budgets: two turns with every key, with a `/restart` and a `/clear`, with a swap and a failure, with a reason and a `/force-clear`; and one with a reason, a failure and a `/clear`; fair | `ApprovalIsShown`, `QuestionIsShown`, `PendingIsReleased`, `PromptsEnd`, `RunsInRound` |
| `thread_selector` | three threads, two of them here, two that match; seven budgets; fair | `TypeOK`, `SelectionInRange`, `WhatIsShown`, `SelectorSettles` |
| `manifest` | four manifests over four components, three groups, three boards and two hosts; two builds | `ResolvesClosure`, `PlanIsSound` |
| `mcp_sessions` | three calls of one server's tools; five budgets: two breaks; a break with an expired login, a session that hangs and a cancellation; a break with a refused creation, a failing close and the clean-up; a refused creation, a session that hangs, a cancellation and the clean-up; a session that hangs, a failing close and the clean-up; fair | `SessionsOwned`, `FailedIsGone`, `HealthyIsKept`, `CallsEnd` |

The type invariants of all modules are proved, see 5; `AgentHistory`'s and
`ThreadSelector`'s are also checked.

**Session core.** *OneDrain*: of all the routes into `_process_next_from_queue` at most one
is between popping a message and finishing it, and `_processing_pending` is set exactly
meanwhile. *Conserved*: the queue holds a message once; a queued message is in the queue or
in the hands of one drain. *NoStrandedMessage*, *NoStrandedAction*: a session at rest with
something queued or deferred still has a task, or a posted message, that will look at it
(or, for what is deferred, a posted failure that will drop it). *OneThreadSwitch*:
`_thread_switching` is up exactly while one task is inside `_resume_thread`.
*ConnectingIsOwned*: `_connecting` is set only while something under way will clear it. Two
to four messages suffice for what a queue can do here: one in hand, one behind it, one that
arrives meanwhile, and a `/clear` that removes both; one use of each operation lets every
pair overlap. The session that recovers has two start sequences, since a second server can
come up during the first.

**Server.** *HandleOwnsLive*: no process runs that its object would not stop.
*ServesAssistant*: a server at rest runs the assistant the app shows. Two objects are a
failed first start and its retry; four processes one for each start that may overlap.

**Transcript.** *NewestMounted*, *ActiveMounted*, *OnlyStored*: the newest messages and
the one streamed to are on the screen, nothing else is than what is stored.
*WindowMounted*: at rest the widgets are the window. *StreamedIsRestored*: a reply that
was flushed comes back whole. A window of two and a history of three make every message
leave and come back.

**History.** *RequestWellFormed*: every call of a request is answered right after it, and
every result has its call. *SummaryMeetsTail*: the summary stands for exactly the messages
before the cutoff. *SummarizedIsFiled*: what a summary replaces is in the history file, unless
writing it failed. *StubsReadable*: a result that was replaced by a pointer to
`/large_tool_results` is there; only what `read_file` returned points elsewhere, to the file it
read. *ClientReturns*: the client becomes ready again.

**Prompts.** *ApprovalIsShown*, *QuestionIsShown*: who awaits an answer has the menu for it,
but for a question that a late message has taken the menu from (`astray`).
*PendingIsReleased*: a pending menu is one the user, or a message on its way, will give
back, but for one that is `orphaned`. *PromptsEnd*: a turn at a prompt goes on, but for a
question that is astray and an approval behind such a menu; the budgets reach both, see 4.
*RunsInRound*: a resume answers interrupts of its own round, and only calls that were let
through run. Two of each prompt are one that is pending and one that waits for it; the
second turn meets what the first one left.

**Selector.** *SelectionInRange*: Enter, Ctrl+D and the arrow keys index the list whatever
loads, filters and deletions made of it. *WhatIsShown*: at rest the rows drawn are the list
acted on and the selected one is lit. *SelectorSettles*: the workers come to rest.

**Manifest.** *ResolvesClosure*: a resolution is the least set that holds the selection and
what it needs. *PlanIsSound*: what is sized installs on the board, or on every board of the
release; what installs somewhere is sized or flagged; and the files are those of the entry
that was sized. The four manifests have cycles, groups as dependencies, optional edges,
groups without a section, undescribed components, and entries for some boards, for devices
and for every board.

**MCP.** *SessionsOwned*: a server has one live session at most, and every session that was
not cut off has somebody who will close it. *FailedIsGone*: what a call was told is dead is
out of the cache when it goes on, and its retry has another. *HealthyIsKept*: a session in
good order is closed only by the clean-up or by a call that it failed itself, never by one
that comes late with the failure of its predecessor. *CallsEnd*: the clean-up ends, and a
call does but for one whose own session hangs while it opens or closes it, and those that
wait meanwhile for the lock of that server: a session is made, and closed when making it
fails, under the lock (`HangsLocked`), and dropped outside it. Three calls are one that lost
the session, one that has its successor and one that makes it; servers share nothing but
`_closed`, so one is enough.

## 4. What the code does not keep

Two runs check a statement of the repository that the code does not keep, and end in a
violation:

| run | what happens | claim |
|---|---|---|
| `overlapping_turns` (`AgentRunningWhileLive`) | the pump starts a turn while the clean-up of the last one, past clearing `_agent_running`, takes a queued message: two turns, and the first to end clears the flag of the other | `app.py:1719` |
| `dangling_call` (`EveryCallAnswered`) | a turn is interrupted after a tool has returned on the server and before the client has seen it: the rebuilt message repeats the call after its result, and no later request is well formed | `libs/deepagents/deepagents/middleware/patch_tool_calls.py:15` |

The following was found with the same models, with the budgets named or with the
property as it is stated in the module; no run is kept for it.

Session core (`AppSessionProps`):

- `AgentRunningEnds`: an interrupt between `run_worker` and the worker's first step kills
  the coroutine before its `try`; `_agent_running` stays set (`app.py:6681`).
- `QueuedIsDrained`: a failed `/restart` sets `_server_startup_error`, a successful one
  does not reset it: input is queued for ever (`app.py:5220`).
- `LoopIsYielded` with a swap inside the drain: a model switch taken from the deferred list
  while the server restarts defers itself, without an await, into the list the loop is
  reading (`app.py:10379`).
- `TurnKeepsThread`: a thread picked while idle is switched to by a `call_later` callback,
  under a turn that started in between (`app.py:10125`).
- `AgentLossReported`: a swap whose teardown fails has already dropped the agent it says it
  stays on (`app.py:8397`).
- `NoStrandedMessage` with an initial prompt whose resumed state cannot be read
  (`app.py:4680` returns past `_drain_startup_backlog`). This is the only way
  (`NoMessageIsStranded`, 5).
- `NoStrandedAction` when a thread is picked during a swap, whose end hands over the queue
  but not the deferred actions, when the swap's teardown fails, and when the session start
  sequence ends with its prompt lost, because that state cannot be read or because the
  server has failed meanwhile. These are the only ways (`NoActionIsStranded`, 5).
- `SwapKeepsThread` when a thread switch overlaps a swap; `RestartIsConnecting` when a
  login refresh does: the first to end clears the flag; `NotLostWhileConnecting` when a
  login refresh drops the agent between the acceptance of a message and its dispatch.

Server: `ExitStopsServers` fails with `QuitOnly`: a program that ends during the first
health check leaves the process running (`app.py:10835` "Guarantee server cleanup
regardless of how the app exits"). What `ServesAssistant` promises of one
server object fails with two, when a retry overlaps a swap and the spawn fails: the staged
assistant is applied to the wrong start (`server.py:531`). A client may be left on a stale
port by a late `ServerReady` after a timed-out respawn.

Transcript: `RestoredIsCurrent` fails for a tool call that was pruned while it ran
(`widgets/message_store.py:98`). Two tasks that prune at once (`TwoPrunes`, `app.py:7303`)
leave messages that are neither on the screen nor above the window (`Reachable`).

History: a run that outlived its interrupt may commit a summary between the snapshot and the
write of `/offload`, which then goes back to the older one. A tail that was clipped once is
not clipped again, unless it came from `read_file`. A clipped `read_file` result says "The
full content is at" the file it read
(`libs/deepagents/deepagents/middleware/_overflow_clip.py:89`), which may have been changed
or removed since; nothing keeps what was read. The note "saved to {file_path}" of a summary
is wrong after an earlier write failed. A patched call may be inserted before the cutoff of
an `/offload` that ran meanwhile, and `/offload` may plan on a checkpoint whose messages the
run has since patched (`shifted`): the summary then stands for other messages than those it
replaces.

Prompts: with `/force-clear` while a reason is being typed, and with
`/clear` over a menu that a `/restart` has left, the menu is gone, its reference stays, and
every later approval waits for it, although `app.py:7433` and `app.py:4212` say otherwise.
A swap, which closes an open reason input in the same way and then empties the transcript,
does it too. `orphaned` records them, and they are the only ways (`EveryMenuIsReleased`, 5).
A question that has waited 30 s for the one before it cancels and removes that one and shows
itself (`app.py:4450-4477`), whether or not the older one's message, of an answer given just
then or of the cancellation itself, has been handled. That message names no menu
(`app.py:4509-4512`): if it comes after the new menu is mounted, it removes this one, and the
turn awaits for ever. A question that is shown next may lose its menu to the message of one
that lost its own. `astray` records both, and `QuestionIsShown` and `PromptsEnd` say that there
is no other way. A rejection in a
round with a question resumes instead of aborting (`textual_adapter.py:1290`). A swap
removes a question without resolving its future.

Selector: after one move in cached rows, a load that finds them unchanged returns early
(`widgets/thread_selector.py:1638`) with the old row lit, and Enter resumes another. This
early return is the only way to get there: `WhatIsShownIsSelected` (5) proves it of every
run that does not take it. `WhatIsAsked` fails when a toggle follows a letter: the exclusive
group cancels the pending filter. A load that meets a deletion brings the row back, and
three exceptions end the app: a strict `zip`, an index in `_move_selection`, a key in
`_refresh_cell_labels`; the budgets of the run stay clear of them.

MCP: `CleanupLeavesNone` fails: a session whose creation is under way when the clean-up
finds nothing to close, or times out on the lock, is cached afterwards and used, although
"Close all cached sessions concurrently and reject future creation" (`mcp_tools.py:346`).
The program ends then, and a session's subprocess with it. Where a server's opening never
returns, or the close that undoes a failed one (`mcp_tools.py:418`), the lock of that server
stays taken (`mcp_tools.py:312`) and all its other calls wait: `WaitsForHung`.

Manifest: `manifest_db.py:633` says "a plan's files always match its footprint". They do not
for `comp_ids=[]` (sizes of the whole release, no files), when the winning entry has no
files and another has, or when two ingested groups list a component (its files appear
twice); `PlanMatchesSizes` states the conditions. A build that meets a duplicate release
key, or a call opened during a build, leaves the tools answering from an empty database;
`whole` excludes both. The captured manifests in the repository meet none of these.

## 5. The proofs

The theorems are about `Spec` of each module for any value of the constants that its
`ASSUME`s allow. Every one follows the same pattern: a strengthening, `Init` and each
action preserve it, one step per action and under it one per conjunct the action can
disturb; TLC has checked the strengthening first.

| theorem | statement | strengthening |
|---|---|---|
| `AppSessionProofs!TypeCorrect` | `Spec => []TypeOK` | none: one part for each group of variables |
| `AppSessionProofs!QueueDiscipline`, `DrainExclusive`, `QueueConserved` | `QueueInv`, `OneDrain`, `Conserved` | see below |
| `AppSessionProofs!SwitchesExclude`, `ConnectingEnds` | `OneThreadSwitch`, `ConnectingIsOwned` | `QueueInv`: a message that is dispatched has an unused worker, so nobody is taken out of a switch or a start |
| `AppSessionProofs!NoMessageIsStranded` | `Spec /\ [][~GivesUpPrompt]_vars => []NoStrandedMessage` | `RestInv`, see below |
| `AppSessionProofs!NoActionIsStranded` | `Spec /\ [][~Forgets]_vars => []NoStrandedAction`, where `Forgets` are the steps of 4 with something deferred | `RestInv` and `ActionKept`, see below |
| `ServerProcessProofs!TypeCorrect`, `HandlesHold` | `TypeOK`; `HandleOwnsLive`, `SpentRunsNothing` | `ServerInv`: tasks, the app and posted messages refer only to objects that exist, a process that is watched was spawned by the object it is watched for |
| `ServerProcessProofs!Implements` | `Spec => ServiceSpec`, for every object | the same; every action maps to a step of `ServerService` or a stutter |
| `ServerProcessProofs!AssistantIsServed` | `ServesAssistant` | `AgentInv`: as long as one object is made and every process was created, what the app shows, what `os.environ` holds, what is staged and what the process runs agree |
| `TranscriptProofs!TypeCorrect`, `NewestStays`, `ActiveStays`, `ClearedIsGone` | `TypeOK`; `NewestMounted`, `ActiveMounted`, `OnlyStored` | `ScreenInv`: what is to be pruned is old and not active, what is to be hydrated is stored or of a cleared transcript, what was mounted last is mounted |
| `TranscriptProofs!RepliesComeBack` | `StreamedIsRestored` | `DataInv`: data that lags is of the message streamed to, of one no flush vouches for, or of a cleared one |
| `TranscriptProofs!WindowIsMounted` | `WindowMounted` | `WindowInv`: one task at a time is in the window; a pruning has taken the oldest widgets, a hydration brought back what is right above |
| `AgentHistoryProofs!TypeCorrect`, `RequestsAreWellFormed`, `SummaryAndTail`, `NothingSummarizedIsLost`, `StubsPointToFiles` | `TypeOK`; `RequestWellFormed`, `SummaryMeetsTail`, `SummarizedIsFiled`, `StubsReadable` | `HistoryInv`, see below |
| `PromptsProofs!TypeCorrect`, `DecisionHasMenu`, `AnswerHasMenu`, `AnswersStayInRound` | `TypeOK`, `ApprovalIsShown`, `QuestionIsShown`, `RunsInRound` | `PromptInv`: which prompt the turn is at, what its payload may answer, what a deferred, removed or answered menu implies |
| `ThreadSelectorProofs!TypeCorrect`, `SelectionHolds` | `TypeOK`, `SelectionInRange` | no list names a thread twice, so none is longer than there are threads, also those a worker carries; the index is reset or clamped in the step that changes the list |
| `ThreadSelectorProofs!WhatIsShownIsSelected` | `Spec /\ [][~KeepsDrawn]_vars => []WhatIsShown` | `ShownInv`: whoever changes the list, or takes it off the screen, is still to draw it |
| `PromptsProofs!EveryMenuIsReleased` | `PendingIsReleased` | what is pending is `orphaned`, and stays so until it is forgotten, or `ReleaseInv`: when the transcript is about to be emptied, the decision of what is pending is on its way, or will be when it is shown |
| `ManifestProofs!TypeCorrect`, `ResolveCorrect`, `PlanCorrect` | `TypeOK`, `ResolvesClosure`, `PlanIsSound` | tables hold rows of their manifest, a build has ingested what it no longer has to do, what was seen has its successors seen or pending, a plan is that of its tables |
| `McpSessionsProofs!TypeCorrect`, `OwnershipHolds`, `FailureIsFinal`, `HealthyOutlives` | `TypeOK`, `SessionsOwned`, `FailedIsGone`, `HealthyIsKept` | see below |

**The queue.** Neither `OneDrain` nor `Conserved` is inductive: that a drain may pop is
decided by `_processing_pending` alone, that it may dispatch by nothing at all. `QueueInv`
adds what the code relies on without saying so: a task has a message exactly while it is
inside `_process_message` or on its way there (`InHand`, `HandFate`); a worker exists only
for a dispatched message (`WorkerFate`); the pump and the startup worker never drain
(`Places`); one start sequence submits the initial prompt, which never passes through the
queue (`PromptOnce`). The lemma at the heart is `CurUnique`: no two tasks hold the same
undispatched message. The actions fall into kinds (`QuietStep`, `DiscardStep`, `PopStep`,
`EnqueueStep`, ...), each with a lemma, and each action is shown to be of its kind.

**The switches.** Most actions are `Calm` (nobody enters or leaves `_resume_thread`) or
`Calling` (the Connecting flag is not set, and what owns it goes on), which needs that no
action moves a task that is in a switch or a start: `Dispatched` gives it for the worker of
a message, from `QueueInv`. The actions left set or clear the flag with its owner.

**At rest.** A session comes to rest when its last busy flag goes down. Most actions are
`Minds` (or `Heeds`, for the deferred actions): they neither bring the session to rest, nor
queue, nor end what still has the queue to look at. Of the others the ones that clear a flag
leave a task or a posted message behind, and the ones that end such a task see that a flag
is up or that there is nothing left. `RestInv` is what this needs. An agent that is there
while the session connects has its `ServerReady` posted (`UpPosted`), so a swap or a
respawn that fails under it strands nothing. A task that returns from `_process_message`
has not let go of the event loop, so a turn it started still runs (`Sent`). Whoever holds
`_processing_pending` comes by the queue again (`Home`). While the initial prompt is under
way the start sequence runs (`Starting`). `NoStrandedAction` is not inductive: a cleanup
that has been past the deferred actions still counts in it as one on its way, so `ActionKept`
counts only tasks that are at a `DrainPoint`.

**The history.** `HistoryInv` is a conjunction of eight parts and `RequestWellFormed`, each
with a lemma for every action. The messages are given ids in order, each once (`IdInv`),
which is what a stub, a patch and a cutoff name them by; the results of a superstep that is
under way come right after the message that made their calls (`CalledInv`). What a stub
stands for is stored, or was read by `read_file` (`StubInv`), what an event covers is filed
(`FiledInv`), also while the event is still to be committed with a response or is only a
plan of the client's.

`SummaryMeetsTail` needs that an event fits the list it will be applied to: its cutoff is
inside it, no result follows right after it, and it covers exactly what is before
(`FitInv`). A list may grow at its end without harm; so the proof is that every action
either prolongs the list or is one that `shifted` records, and that `_compute_state_cutoff`
turns the cutoff in the list the model is shown (one summary message, then the tail) into
the one in the whole list (`NewEventFits`). `RequestWellFormed` adds that a call is
answered right after the message that makes it, or nowhere (`AnsweredInv`): only then does
patching, which inserts an answer for every dangling call after its message, answer all and
disturb none (`PatchAnswered`); a cut at a safe point takes no call from its results
(`CutWellFormed`). Both need to know what flattening the patched list returns: its
elements, each at an offset that is the length of what precedes it, which is proved by
well-foundedness of the naturals and not by induction over data.

**The plan.** `PlanIsSound` needs that the code's choice among the entries is the one the
manifest means. `GreatestIndex` gives the `CHOOSE` of `PickBoardRow` a value: a nonempty
set of indices has a best one, by well-foundedness of the naturals. `PickIsBest` then says
what is picked with a board and without, and the two queries agree because the rows with
files and all the rows are the same set where `PlanMatchesSizes` speaks.

**The sessions.** `SessionsOwned` rests on the lock: whoever makes a session holds it and
the cache is empty meanwhile (`Locked`), so a session under way and a cached one exclude
each other, and so do two under way (`Exclusive`). What a call has in hand is told by where
it stands (`Making`, `Using`, `Closing`), and a live session that is not being made is the
cached one (`Cached`). `FailedIsGone` needs that a call blames only what was in use
(`Blamed`), hence nothing that is cached later, and that what it drops is what it blames
(`Dropping`); with the reason it has, the same gives `HealthyIsKept`.

Only model-checked: all liveness (`EveryMessageHandled`, `DeferredTakenUp`,
`ConnectingResolves`, `LoopIsYielded`, `ClientReturns`, `PromptsEnd`, `SelectorSettles`,
`CallsEnd`), which is out of this prover's reach.

## 6. What is not modelled

Of the session core: `/offload`'s queueing, the launch onboarding and the startup command
(both only lengthen the start sequence), an agent switch deferred while busy, the deferred
chat output of background notices, modal screens other than the login's, and everything on
the screen. `/force-clear` and `/clear` do the same from the reset of the thread on. A
server process dying by itself is not noticed by the session and shows as a failing turn.

Of the modelled parts: Transcript leaves out timestamp footers, a flush of text that is only
white space, widgets that fail to build, the order of widgets, and a history resumed while
messages are mounted; AgentHistory the eviction of human messages, whose text alone changes,
and a response with two calls of `compact_conversation`, whose run langgraph ends with an
error; ThreadSelector the row limit, column widths, scores, the deletion of one thread
twice, cache eviction; Manifest the release filters, use cases, licences, unreadable
captures, and several releases in one file; McpSessions the configuration, the finding and
filtering of tools, and `configure`, which runs while there are no sessions.

Not modelled: configuration and its precedence (`model_config.py`, `config.py`), the
command line, the widgets that only render, skills and memory (prompt text), the graph's
construction, the sandbox adapters, the deploy CLI and the evals: pure functions of their
input, I/O, or wiring, without a step another actor could come between. QuickJS: what
overlapping evaluations, timeouts and a close do is decided in `quickjs_rs`, which is not
in the repository. The MCP login, the event bus, async subagents, the rubric loop,
composite routing and ACP sessions have state and are left for the plan.

The models name about 6 % of the lines of the implementation, and all of the control in
the parts they model. The repository is mostly text, layout, configuration, adapters and
tests of formatting, of which a model would say nothing.

## 7. The plan

Done, in this order: session core, server subprocess with its abstract service, message
store and turn, agent history, prompts, thread selector, manifest database, MCP sessions.

Next: the token file that the app's login and
the server's refresh both rewrite; the event bus (an acknowledgement only after the sink
has taken the event); the rubric loop (bounded, terminates); composition of `AppSession`
with `ServerProcess` in place of its `respawning` steps.

Every invariant that a passing run checks is proved. What is left to prove comes with the
modules listed here.
