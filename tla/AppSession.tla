----------------------------- MODULE AppSession -----------------------------
(***************************************************************************)
(* The session core of the TUI (libs/code/deepagents_code/app.py): the     *)
(* input queue, the agent and shell workers, the actions deferred while    *)
(* the session is busy, thread and model switches, and the life of the     *)
(* app-owned server connection.                                            *)
(*                                                                         *)
(* The program is one asyncio event loop.  A task is the App's message     *)
(* pump, a Textual worker, or a create_task coroutine.  Control passes     *)
(* from one task to another only at an await: `active` is the task between *)
(* two awaits, None while all are suspended, and pc[t] is where t stands.  *)
(* The pump runs its handlers one after the other: while one is suspended  *)
(* (pc[Pump] # "idle") no input is handled.                                *)
(***************************************************************************)
EXTENDS SequencesExt

CONSTANTS
  Msg,            \* the messages the user or an external client submits
  Kind,           \* [Msg -> {"chat", "shell", "clear"}]
  None,
  Pump,           \* the App's message pump
  Start,          \* the _start_server_background worker
  Swap,           \* the _restart_server_for_agent_swap worker
  Login,          \* the _run_mcp_login_worker worker, at its respawn
  SeqTask,        \* tasks running _run_session_start_sequence
  SafeTask,       \* tasks running _safe_drain
  LaterTask,      \* tasks running _process_next_from_queue after a swap
  InitialPrompt,  \* the message given on the command line, or None
  Scenarios       \* what may happen in a session: the messages that are typed, and
                  \* [Op -> Nat], how often each operation may happen

Op == {"interrupt", "forceClear", "restart", "login", "swap", "pickThread",
       "pickModel", "bypass", "serverFail", "threadFail", "teardownFail"}

Singleton == {Pump, Start, Swap, Login}
Task == Singleton \cup SeqTask \cup SafeTask \cup LaterTask \cup Msg

ASSUME KindAssumption == Kind \in [Msg -> {"chat", "shell", "clear"}]
ASSUME ScenarioAssumption == Scenarios \subseteq [typed : SUBSET Msg, budget : [Op -> Nat]]
ASSUME PromptAssumption ==
  /\ InitialPrompt \in Msg \cup {None}
  /\ InitialPrompt # None => Kind[InitialPrompt] = "chat"
ASSUME TaskAssumption ==
  /\ None \notin Task
  /\ Pump \notin {Start, Swap, Login} /\ Start \notin {Swap, Login} /\ Swap # Login
  /\ Singleton \cap (SeqTask \cup SafeTask \cup LaterTask \cup Msg) = {}
  /\ SeqTask \cap (SafeTask \cup LaterTask \cup Msg) = {}
  /\ SafeTask \cap (LaterTask \cup Msg) = {}
  /\ LaterTask \cap Msg = {}

VARIABLES
  queue,             \* _pending_messages
  deferred,          \* the kinds of _deferred_actions, in order
  agentRunning,      \* _agent_running
  agentWorker,       \* _agent_worker: the message whose turn it runs, or None
  shellRunning,      \* _shell_running
  shellWorker,       \* _shell_worker
  cancelled,         \* workers cancelled and not yet unwound
  processingPending, \* _processing_pending
  threadSwitching,   \* _thread_switching
  thread,            \* the thread id in _session_state
  lastThread,        \* the newest thread id handed out
  saved,             \* [Task -> the thread its switch would roll back to]
  connecting,        \* _connecting
  startupError,      \* _server_startup_error is not None
  agentUp,           \* _agent is not None
  serverProc,        \* _server_proc is not None
  sessionStarted,    \* _initial_session_started
  startupSeq,        \* _startup_sequence_running
  mail,              \* what the program posted to its own pump, in order
  active,            \* the task that holds the event loop, or None
  pc,                \* [Task -> where the task stands]
  cur,               \* [Task -> the message it is processing, or None]
  turnThread,        \* [Msg -> the thread its turn read when it started]
  fate,              \* [Msg -> what became of the message]
  left               \* [Op -> Nat]: what remains of the budget

queueVars  == <<queue, processingPending>>
workVars   == <<agentRunning, agentWorker, shellRunning, shellWorker, cancelled>>
threadVars == <<threadSwitching, thread, lastThread, saved>>
serverVars == <<connecting, startupError, agentUp, serverProc>>
startVars  == <<sessionStarted, startupSeq>>
ctlVars    == <<active, pc, cur>>
vars == <<queueVars, deferred, workVars, threadVars, serverVars, startVars,
          mail, ctlVars, turnThread, fate, left>>

\* Where a task can be suspended, by the routine that awaits there.
AwaitLabel ==
  {"idle", "done", "ready", "popped",
   "created", "running",                           \* a worker's body
   "spinner",                                      \* _cleanup_*_task
   "popped", "mounting", "clearing", "cleared",    \* _process_next_from_queue
   "prefetch", "clearView", "load", "rollback",    \* _resume_thread
   "model", "retry",                               \* _switch_model
   "notice",                                       \* any: a message is mounted
   "history",                                      \* _run_session_start_sequence
   "starting",                                     \* _start_server_background
   "swapClear", "swapReset", "swapRestart", "swapConfirm",
   "modal",                                        \* _run_mcp_login_worker
   "restart", "respawning"}                        \* _respawn_server
\* Where a task holds the event loop.
RunLabel == {"process", "processed", "drainIfReady", "drain", "next", "resume",
             "switch", "backlog"}
Label == AwaitLabel \cup RunLabel
DeferredKind == {"model", "thread", "login"}
Mail == {"up", "failed", "seq", "safe", "later", "thread", "model"}
Fate == {"unsent", "new", "queued", "taken", "turn", "shell", "cleared",
         "refused", "discarded", "lost"}

Busy == agentRunning \/ shellRunning \/ connecting \/ startupSeq \/ startupError
ModelSwitching == \E t \in Task : pc[t] \in {"model", "retry"}

QueueTyped == queue \in Seq(Msg) /\ processingPending \in BOOLEAN
WorkTyped ==
  /\ agentRunning \in BOOLEAN /\ agentWorker \in Msg \cup {None}
  /\ shellRunning \in BOOLEAN /\ shellWorker \in Msg \cup {None}
  /\ cancelled \subseteq Msg
ThreadTyped == /\ threadSwitching \in BOOLEAN
               /\ thread \in Nat /\ lastThread \in Nat /\ saved \in [Task -> Nat]
ServerTyped == /\ connecting \in BOOLEAN /\ startupError \in BOOLEAN
               /\ agentUp \in BOOLEAN /\ serverProc \in BOOLEAN
StartTyped == sessionStarted \in BOOLEAN /\ startupSeq \in BOOLEAN
PostTyped == deferred \in Seq(DeferredKind) /\ mail \in Seq(Mail)
ControlTyped == /\ active \in Task \cup {None} /\ pc \in [Task -> Label]
                /\ cur \in [Task -> Msg \cup {None}]
RecordTyped == /\ turnThread \in [Msg -> Nat] /\ fate \in [Msg -> Fate]
               /\ left \in [Op -> Nat]
TypeOK == /\ QueueTyped /\ WorkTyped /\ ThreadTyped /\ ServerTyped /\ StartTyped
          /\ PostTyped /\ ControlTyped /\ RecordTyped

Init ==
  /\ queue = <<>> /\ deferred = <<>> /\ mail = <<>>
  /\ agentRunning = FALSE /\ agentWorker = None
  /\ shellRunning = FALSE /\ shellWorker = None /\ cancelled = {}
  /\ processingPending = FALSE
  /\ threadSwitching = FALSE /\ thread = 0 /\ lastThread = 0
  /\ saved = [t \in Task |-> 0]
  /\ connecting = TRUE /\ startupError = FALSE
  /\ agentUp = FALSE /\ serverProc = FALSE
  /\ sessionStarted = FALSE /\ startupSeq = FALSE
  /\ active = None
  /\ pc = [t \in Task |-> IF t = Start THEN "starting" ELSE "idle"]
  /\ cur = [t \in Task |-> None]
  /\ turnThread = [m \in Msg |-> 0]
  /\ \E s \in Scenarios :
       /\ left = s.budget
       /\ fate = [m \in Msg |-> IF m = InitialPrompt THEN "taken"
                               ELSE IF m \in s.typed THEN "new" ELSE "unsent"]

-----------------------------------------------------------------------------
(* Control. *)

At(t, label) == active \in {None, t} /\ pc[t] = label
PumpIdle == At(Pump, "idle")
Holds(t, label) == IF label \in RunLabel THEN t ELSE None
Goto(t, label) ==
  /\ pc' = [pc EXCEPT ![t] = label]
  /\ active' = Holds(t, label)

\* Where a deferred action returns to: its drain loop, or the end of the pump's
\* handler or of the login worker.
Caller(t) == IF t \in {Pump, Login} THEN "idle" ELSE "drain"

Spend(op) == left[op] > 0 /\ left' = [left EXCEPT ![op] = @ - 1]

\* The id of the thread that /clear or a swap starts.  A resumed thread gets one
\* too: all that matters of it is that it is another thread.
FreshThread == lastThread + 1

\* What becomes of the messages of a queue that is cleared.
Discarded(f) == [m \in Msg |-> IF m \in Range(queue) THEN "discarded" ELSE f[m]]

\* The workers of S are cancelled.  One that has not run its first step dies
\* there: its body, and the cleanup in its finally, never run.
Cancelling(S) ==
  /\ pc' = [t \in Task |-> IF t \in S /\ pc[t] = "created" THEN "done" ELSE pc[t]]
  /\ cancelled' = cancelled \cup {m \in S : pc[m] = "running"}

-----------------------------------------------------------------------------
(* Input: _submit_input and _process_message. *)

Submit(m) ==
  /\ PumpIdle /\ fate[m] = "new"
  /\ \/ /\ threadSwitching
        /\ fate' = [fate EXCEPT ![m] = "refused"]
        /\ UNCHANGED <<queue, ctlVars>>
     \/ /\ ~threadSwitching /\ Busy
        /\ queue' = Append(queue, m)
        /\ fate' = [fate EXCEPT ![m] = "queued"]
        /\ UNCHANGED ctlVars
     \/ /\ ~threadSwitching /\ ~Busy
        /\ fate' = [fate EXCEPT ![m] = "taken"]
        /\ cur' = [cur EXCEPT ![Pump] = m]
        /\ Goto(Pump, "process")
        /\ UNCHANGED queue
  /\ UNCHANGED <<processingPending, deferred, workVars, threadVars, serverVars,
                 startVars, mail, turnThread, left>>

\* An external client's event with a bypass tier is processed at once.
SubmitBypass(m) ==
  /\ PumpIdle /\ fate[m] = "new" /\ Spend("bypass")
  /\ fate' = [fate EXCEPT ![m] = "taken"]
  /\ cur' = [cur EXCEPT ![Pump] = m]
  /\ Goto(Pump, "process")
  /\ UNCHANGED <<queueVars, deferred, workVars, threadVars, serverVars,
                 startVars, mail, turnThread>>

\* Up to the first await: /clear empties the queue, the rest mount a widget.
Process(t) ==
  /\ At(t, "process")
  /\ IF Kind[cur[t]] = "clear"
     THEN /\ queue' = <<>> /\ fate' = Discarded(fate)
          /\ Goto(t, "clearing")
     ELSE Goto(t, "mounting") /\ UNCHANGED <<queue, fate>>
  /\ UNCHANGED <<processingPending, deferred, workVars, threadVars, serverVars,
                 startVars, mail, cur, turnThread, left>>

\* The rest of _handle_user_message: _send_to_agent.
SendToAgent(t) ==
  LET m == cur[t] IN
  /\ At(t, "mounting") /\ Kind[m] = "chat"
  /\ IF agentUp
     THEN /\ agentRunning' = TRUE /\ agentWorker' = m
          /\ pc' = [pc EXCEPT ![m] = "created", ![t] = "processed"]
          /\ fate' = [fate EXCEPT ![m] = "turn"]
     ELSE /\ pc' = [pc EXCEPT ![t] = "processed"]
          /\ fate' = [fate EXCEPT ![m] = "lost"]
          /\ UNCHANGED <<agentRunning, agentWorker>>
  /\ active' = t
  /\ UNCHANGED <<queueVars, deferred, shellRunning, shellWorker, cancelled,
                 threadVars, serverVars, startVars, mail, cur, turnThread, left>>

\* The rest of _handle_shell_command.
StartShell(t) ==
  LET m == cur[t] IN
  /\ At(t, "mounting") /\ Kind[m] = "shell"
  /\ shellRunning' = TRUE /\ shellWorker' = m
  /\ pc' = [pc EXCEPT ![m] = "created", ![t] = "processed"]
  /\ fate' = [fate EXCEPT ![m] = "shell"]
  /\ active' = t
  /\ UNCHANGED <<queueVars, deferred, agentRunning, agentWorker, cancelled,
                 threadVars, serverVars, startVars, mail, cur, turnThread, left>>

\* The rest of /clear and /force-clear: the view is empty, start a new thread.
ResetThread(t) ==
  /\ At(t, "clearing")
  /\ lastThread' = FreshThread /\ thread' = FreshThread
  /\ fate' = IF cur[t] = None THEN fate ELSE [fate EXCEPT ![cur[t]] = "cleared"]
  /\ Goto(t, "cleared")
  /\ UNCHANGED <<queueVars, deferred, workVars, threadSwitching, saved,
                 serverVars, startVars, mail, cur, turnThread, left>>

ClearReturns(t) ==
  /\ At(t, "cleared")
  /\ Goto(t, "processed")
  /\ UNCHANGED <<queueVars, deferred, workVars, threadVars, serverVars,
                 startVars, mail, cur, turnThread, fate, left>>

\* _process_message returns to the pump, to the session start sequence that
\* submitted the initial prompt, or to _process_next_from_queue.
Processed(t) ==
  /\ At(t, "processed")
  /\ cur' = [cur EXCEPT ![t] = None]
  /\ IF t = Pump \/ cur[t] = InitialPrompt
     THEN /\ Goto(t, IF t = Pump THEN "idle" ELSE "done")
          /\ startupSeq' = IF t = Pump THEN startupSeq ELSE FALSE
          /\ UNCHANGED processingPending
     ELSE /\ processingPending' = FALSE
          /\ Goto(t, IF agentRunning \/ shellRunning \/ queue = <<>>
                     THEN "done" ELSE "next")
          /\ UNCHANGED startupSeq
  /\ UNCHANGED <<queue, deferred, workVars, threadVars, serverVars,
                 sessionStarted, mail, turnThread, fate, left>>

\* A bug to catch: the newest message is removed instead of the oldest.
WithoutNewest == Front(queue)
WithoutOldest == Tail(queue)
\* A bug to catch: the re-entry guard is forgotten.
DrainUnguarded == queue = <<>>
DrainBlocked == processingPending \/ queue = <<>>

\* _process_next_from_queue up to its first await.
ProcessNext(t) ==
  /\ At(t, "next")
  /\ IF DrainBlocked
     THEN Goto(t, "done") /\ UNCHANGED <<queue, processingPending, cur>>
     ELSE /\ processingPending' = TRUE
          /\ cur' = [cur EXCEPT ![t] = Head(queue)]
          /\ queue' = WithoutOldest
          /\ Goto(t, "popped")
  /\ UNCHANGED <<deferred, workVars, threadVars, serverVars, startVars, mail,
                 turnThread, fate, left>>

\* The queued-message widget is removed.
WidgetRemoved(t) ==
  /\ At(t, "popped")
  /\ Goto(t, "process")
  /\ UNCHANGED <<queueVars, deferred, workVars, threadVars, serverVars,
                 startVars, mail, cur, turnThread, fate, left>>

-----------------------------------------------------------------------------
(* The agent and shell workers, and their cleanup. *)

\* A bug to catch: the deferred actions are forgotten.
CleanupQueueOnly == "next"
\* A cleanup turns to the deferred actions first, then to the queue.
CleanupStart == "drainIfReady"

\* A worker's first step.  A turn reads the session's thread id here.
WorkerStarts(m) ==
  /\ At(m, "created")
  /\ Goto(m, "running")
  /\ turnThread' = [turnThread EXCEPT ![m] = IF Kind[m] = "chat" THEN thread ELSE @]
  /\ UNCHANGED <<queueVars, deferred, workVars, threadVars, serverVars,
                 startVars, mail, cur, fate, left>>

\* The turn or the command ends, fails or is cancelled: the finally clause
\* resets the flags, then awaits the spinner's removal (a shell command that
\* was not interrupted awaits nothing there).
WorkerEnds(m) ==
  /\ At(m, "running")
  /\ IF Kind[m] = "chat"
     THEN /\ agentRunning' = FALSE /\ agentWorker' = None
          /\ Goto(m, "spinner")
          /\ UNCHANGED <<shellRunning, shellWorker>>
     ELSE /\ shellRunning' = FALSE /\ shellWorker' = None
          /\ Goto(m, IF m \in cancelled THEN "spinner" ELSE CleanupStart)
          /\ UNCHANGED <<agentRunning, agentWorker>>
  /\ cancelled' = cancelled \ {m}
  /\ UNCHANGED <<queueVars, deferred, threadVars, serverVars, startVars, mail,
                 cur, turnThread, fate, left>>

SpinnerRemoved(m) ==
  /\ m \in Msg /\ At(m, "spinner")
  /\ Goto(m, CleanupStart)
  /\ UNCHANGED <<queueVars, deferred, workVars, threadVars, serverVars,
                 startVars, mail, cur, turnThread, fate, left>>

\* A bug to catch: a cleanup forgets the queue.
AfterDrainForgetful(t) == "done"
\* What a task does after its drain loop: a _safe_drain is over, the others
\* turn to the queue, the cleanups only outside the session start sequence.
AfterDrain(t) ==
  IF t \in SafeTask \/ (t \in Msg /\ startupSeq) THEN "done" ELSE "next"

\* A bug to catch: the check lets a connecting session through.
DrainWhileConnecting == startupSeq
\* A bug to catch: the check also refuses while messages are queued.
DrainRefusedByQueue == connecting \/ startupSeq \/ queue # <<>>
DrainRefused == connecting \/ startupSeq

\* _maybe_drain_deferred: the readiness check is made once, before the loop.
MaybeDrainDeferred(t) ==
  /\ At(t, "drainIfReady")
  /\ Goto(t, IF DrainRefused THEN AfterDrain(t) ELSE "drain")
  /\ UNCHANGED <<queueVars, deferred, workVars, threadVars, serverVars,
                 startVars, mail, cur, turnThread, fate, left>>

\* The loop of _drain_deferred_actions.
DrainDeferred(t) ==
  /\ At(t, "drain")
  /\ IF deferred = <<>>
     THEN Goto(t, AfterDrain(t)) /\ UNCHANGED deferred
     ELSE /\ deferred' = Tail(deferred)
          /\ Goto(t, CASE Head(deferred) = "thread" -> "resume"
                       [] Head(deferred) = "model" -> "switch"
                       [] OTHER -> "modal")
  /\ UNCHANGED <<queueVars, workVars, threadVars, serverVars, startVars, mail,
                 cur, turnThread, fate, left>>

-----------------------------------------------------------------------------
(* The thread and model selectors, _resume_thread and _switch_model. *)

\* _defer_action: the last action of a kind replaces the earlier one.  The list
\* never holds two of a kind.
WithoutKind(kind) ==
  IF kind \in Range(deferred)
  THEN RemoveAt(deferred, CHOOSE i \in DOMAIN deferred : deferred[i] = kind)
  ELSE deferred
Defer(kind) == deferred' = Append(WithoutKind(kind), kind)

\* handle_result of the two selectors: defer while busy, else call_later.
Pick(kind) ==
  /\ PumpIdle /\ Spend(IF kind = "thread" THEN "pickThread" ELSE "pickModel")
  /\ IF agentRunning \/ shellRunning \/ connecting
     THEN Defer(kind) /\ UNCHANGED mail
     ELSE mail' = Append(mail, kind) /\ UNCHANGED deferred
  /\ UNCHANGED <<queueVars, workVars, threadVars, serverVars, startVars,
                 ctlVars, turnThread, fate>>

\* A bug to catch: a second switch is let in.
SwitchUnguarded == ~agentUp
SwitchRefused == ~agentUp \/ threadSwitching

\* _resume_thread up to its first await; nothing is done for the current thread.
ResumeThread(t) ==
  /\ At(t, "resume")
  /\ \/ Goto(t, "notice") /\ UNCHANGED <<threadSwitching, saved>>
     \/ /\ ~SwitchRefused /\ threadSwitching' = TRUE
        /\ saved' = [saved EXCEPT ![t] = thread]
        /\ Goto(t, "prefetch")
  /\ UNCHANGED <<queueVars, deferred, workVars, thread, lastThread, serverVars,
                 startVars, mail, cur, turnThread, fate, left>>

\* The history is fetched; the queue is dropped and the view cleared.
HistoryPrefetched(t) ==
  /\ At(t, "prefetch")
  /\ queue' = <<>> /\ fate' = Discarded(fate)
  /\ Goto(t, "clearView")
  /\ UNCHANGED <<processingPending, deferred, workVars, threadVars, serverVars,
                 startVars, mail, cur, turnThread, left>>

SwitchThread(t) ==
  /\ At(t, "clearView")
  /\ lastThread' = FreshThread /\ thread' = FreshThread
  /\ Goto(t, "load")
  /\ UNCHANGED <<queueVars, deferred, workVars, threadSwitching, saved,
                 serverVars, startVars, mail, cur, turnThread, fate, left>>

\* The prefetch fails (nothing changed yet), or the load does (the thread id
\* is restored): a message is mounted before the finally clause.
ThreadSwitchFails(t) ==
  /\ At(t, "prefetch") \/ At(t, "load")
  /\ Spend("threadFail")
  /\ thread' = IF pc[t] = "load" THEN saved[t] ELSE thread
  /\ Goto(t, "rollback")
  /\ UNCHANGED <<queueVars, deferred, workVars, threadSwitching, lastThread,
                 saved, serverVars, startVars, mail, cur, turnThread, fate>>

ThreadSwitchReturns(t) ==
  /\ At(t, "load") \/ At(t, "rollback")
  /\ threadSwitching' = FALSE
  /\ saved' = [saved EXCEPT ![t] = 0]
  /\ Goto(t, Caller(t))
  /\ UNCHANGED <<queueVars, deferred, workVars, thread, lastThread, serverVars,
                 startVars, mail, cur, turnThread, fate, left>>

\* _switch_model up to its first await.  Without an agent it defers itself
\* while connecting, retries a failed startup, or gives up, as it does when credentials
\* are missing.
SwitchModel(t) ==
  /\ At(t, "switch")
  /\ IF agentUp \/ ModelSwitching
     THEN /\ Goto(t, IF ModelSwitching THEN "notice" ELSE "model")
          /\ UNCHANGED <<deferred, connecting, startupError>>
     ELSE \/ /\ connecting
             /\ Defer("model") /\ Goto(t, Caller(t))
             /\ UNCHANGED <<connecting, startupError>>
          \/ /\ ~connecting /\ startupError
             /\ startupError' = FALSE /\ connecting' = TRUE
             /\ Goto(t, "retry") /\ UNCHANGED deferred
          \/ /\ ~connecting
             /\ Goto(t, "model")
             /\ UNCHANGED <<deferred, connecting, startupError>>
  /\ UNCHANGED <<queueVars, workVars, threadVars, agentUp, serverProc, startVars,
                 mail, cur, turnThread, fate, left>>

\* The end of _retry_startup_with_model: a new startup worker.  The worker
\* group is exclusive, a startup still running is cancelled.
RetryStartup(t) ==
  /\ At(t, "retry")
  /\ pc' = [pc EXCEPT ![Start] = "starting", ![t] = Caller(t)]
  /\ active' = Holds(t, Caller(t))
  /\ UNCHANGED <<queueVars, deferred, workVars, threadVars, serverVars,
                 startVars, mail, cur, turnThread, fate, left>>

\* A model switch, or a message mounted on a way out, returns.
ActionReturns(t) ==
  /\ At(t, "model") \/ At(t, "notice")
  /\ Goto(t, Caller(t))
  /\ UNCHANGED <<queueVars, deferred, workVars, threadVars, serverVars,
                 startVars, mail, cur, turnThread, fate, left>>

-----------------------------------------------------------------------------
(* Interrupts. *)

ShellActive == shellRunning /\ shellWorker # None
AgentActive == agentRunning /\ agentWorker # None

\* Esc: kill the shell command, else retract the newest queued message, else
\* interrupt the agent.  Both cancellations discard the queue.
Interrupt ==
  /\ PumpIdle /\ Spend("interrupt")
  /\ \/ /\ ShellActive
        /\ Cancelling({shellWorker})
        /\ queue' = <<>> /\ deferred' = <<>> /\ fate' = Discarded(fate)
     \/ /\ ~ShellActive /\ queue # <<>>
        /\ queue' = Front(queue)
        /\ fate' = [fate EXCEPT ![Last(queue)] = "discarded"]
        /\ UNCHANGED <<deferred, pc, cancelled>>
     \/ /\ ~ShellActive /\ queue = <<>> /\ AgentActive
        /\ Cancelling({agentWorker})
        /\ deferred' = <<>>
        /\ UNCHANGED <<queue, fate>>
  /\ UNCHANGED <<processingPending, agentRunning, agentWorker, shellRunning,
                 shellWorker, threadVars, serverVars, startVars, mail, active,
                 cur, turnThread>>

\* Ctrl+C: the same without the retraction.
QuitOrInterrupt ==
  /\ PumpIdle /\ Spend("interrupt")
  /\ ShellActive \/ AgentActive
  /\ Cancelling({IF ShellActive THEN shellWorker ELSE agentWorker})
  /\ queue' = <<>> /\ deferred' = <<>> /\ fate' = Discarded(fate)
  /\ UNCHANGED <<processingPending, agentRunning, agentWorker, shellRunning,
                 shellWorker, threadVars, serverVars, startVars, mail, active,
                 cur, turnThread>>

\* /force-clear: cancel whatever runs, drop the backlog, then /clear.
ForceClear ==
  /\ PumpIdle /\ Spend("forceClear")
  /\ LET S == (IF ShellActive THEN {shellWorker} ELSE {})
                 \cup (IF AgentActive THEN {agentWorker} ELSE {})
         dead == {m \in S : pc[m] = "created"}
     IN /\ pc' = [t \in Task |-> CASE t = Pump -> "clearing"
                                   [] t \in dead -> "done"
                                   [] OTHER -> pc[t]]
        /\ cancelled' = cancelled \cup {m \in S : pc[m] = "running"}
  /\ queue' = <<>> /\ deferred' = <<>> /\ fate' = Discarded(fate)
  /\ UNCHANGED <<processingPending, agentRunning, agentWorker, shellRunning,
                 shellWorker, threadVars, serverVars, startVars, mail, active,
                 cur, turnThread>>

-----------------------------------------------------------------------------
(* The server connection: startup, /restart, the MCP login refresh and the *)
(* agent swap, each of which restarts the server subprocess.               *)

\* _start_server_background ends and posts its outcome.
StartupSucceeds ==
  /\ At(Start, "starting")
  /\ serverProc' = TRUE
  /\ mail' = Append(mail, "up")
  /\ Goto(Start, "idle")
  /\ UNCHANGED <<queueVars, deferred, workVars, threadVars, connecting,
                 startupError, agentUp, startVars, cur, turnThread, fate, left>>

StartupFails ==
  /\ At(Start, "starting") /\ Spend("serverFail")
  /\ mail' = Append(mail, "failed")
  /\ Goto(Start, "idle")
  /\ UNCHANGED <<queueVars, deferred, workVars, threadVars, serverVars,
                 startVars, cur, turnThread, fate>>

\* A bug to catch: the failure is logged and nothing else.
FailureLogged == UNCHANGED <<connecting, mail>>
\* How a restart that failed is reported.
FailurePosted == connecting' = FALSE /\ mail' = Append(mail, "failed")

\* /restart mounts its echo, then severs the agent's turn and the backlog.
Restart ==
  /\ PumpIdle /\ Spend("restart")
  /\ Goto(Pump, "restart")
  /\ UNCHANGED <<queueVars, deferred, workVars, threadVars, serverVars,
                 startVars, mail, cur, turnThread, fate>>

\* The agent's worker is cancelled, and the pump goes on.
Severed(next) ==
  [t \in Task |->
     CASE t = Pump -> next
       [] t = agentWorker /\ AgentActive /\ pc[agentWorker] = "created" -> "done"
       [] OTHER -> pc[t]]
\* There is no respawn when the settings fail to reload, or the server is not the app's.
RestartSevers ==
  /\ At(Pump, "restart")
  /\ \/ pc' = Severed("notice") /\ UNCHANGED <<connecting, agentUp>>
     \/ /\ serverProc /\ pc' = Severed("respawning")
        /\ connecting' = TRUE /\ agentUp' = FALSE
  /\ cancelled' = IF AgentActive /\ pc[agentWorker] = "running"
                  THEN cancelled \cup {agentWorker} ELSE cancelled
  /\ agentRunning' = (agentRunning /\ agentWorker = None)
  /\ queue' = <<>> /\ deferred' = <<>> /\ fate' = Discarded(fate)
  /\ UNCHANGED <<processingPending, agentWorker, shellRunning, shellWorker,
                 threadVars, startupError, serverProc, startVars, mail, active,
                 cur, turnThread, left>>

\* A server is picked for login: its worker starts, or is deferred while busy.
PickLogin ==
  /\ PumpIdle /\ Spend("login")
  /\ ~connecting /\ serverProc /\ pc[Swap] = "idle" /\ pc[Login] = "idle"
  /\ IF agentRunning \/ shellRunning
     THEN Defer("login") /\ UNCHANGED pc
     ELSE pc' = [pc EXCEPT ![Login] = "modal"] /\ UNCHANGED deferred
  /\ UNCHANGED <<queueVars, workVars, threadVars, serverVars, startVars, mail,
                 active, cur, turnThread, fate>>

\* The login is done and the user asks for the reconnect: the server is
\* restarted, whatever runs by then.
LoginRefresh(t) ==
  /\ At(t, "modal")
  /\ connecting' = TRUE /\ agentUp' = FALSE
  /\ Goto(t, "respawning")
  /\ UNCHANGED <<queueVars, deferred, workVars, threadVars, startupError,
                 serverProc, startVars, mail, cur, turnThread, fate, left>>

\* The reconnect is put off, by the user or by the prompt's timeout.
LoginLater(t) ==
  /\ At(t, "modal")
  /\ Goto(t, Caller(t))
  /\ UNCHANGED <<queueVars, deferred, workVars, threadVars, serverVars,
                 startVars, mail, cur, turnThread, fate, left>>

Respawned(t) ==
  /\ At(t, "respawning")
  /\ agentUp' = TRUE
  /\ mail' = Append(mail, "up")
  /\ Goto(t, Caller(t))
  /\ UNCHANGED <<queueVars, deferred, workVars, threadVars, connecting,
                 startupError, serverProc, startVars, cur, turnThread, fate, left>>

RespawnFails(t) ==
  /\ At(t, "respawning") /\ Spend("serverFail")
  /\ FailurePosted
  /\ Goto(t, Caller(t))
  /\ UNCHANGED <<queueVars, deferred, workVars, threadVars, startupError,
                 agentUp, serverProc, startVars, cur, turnThread, fate>>

\* The agent selector's result: _switch_agent's guards, then the worker.
SwitchAgent ==
  /\ PumpIdle /\ Spend("swap")
  /\ serverProc /\ ~agentRunning /\ ~shellRunning /\ pc[Swap] = "idle"
  /\ pc' = [pc EXCEPT ![Swap] = "ready"]
  /\ UNCHANGED <<queueVars, deferred, workVars, threadVars, serverVars,
                 startVars, mail, active, cur, turnThread, fate>>

\* Phase 1.  The deferred actions go once the queued widgets are removed: at
\* once if there are none.
SwapTearsDown ==
  /\ At(Swap, "ready")
  /\ connecting' = TRUE /\ agentUp' = FALSE
  /\ queue' = <<>> /\ fate' = Discarded(fate)
  /\ IF queue = <<>>
     THEN deferred' = <<>> /\ Goto(Swap, "swapReset")
     ELSE Goto(Swap, "swapClear") /\ UNCHANGED deferred
  /\ UNCHANGED <<processingPending, workVars, threadVars, startupError,
                 serverProc, startVars, mail, cur, turnThread, left>>

SwapDropsDeferred ==
  /\ At(Swap, "swapClear")
  /\ deferred' = <<>>
  /\ Goto(Swap, "swapReset")
  /\ UNCHANGED <<queueVars, workVars, threadVars, serverVars, startVars, mail,
                 cur, turnThread, fate, left>>

SwapResetsThread ==
  /\ At(Swap, "swapReset")
  /\ lastThread' = FreshThread /\ thread' = FreshThread
  /\ Goto(Swap, "swapRestart")
  /\ UNCHANGED <<queueVars, deferred, workVars, threadSwitching, saved,
                 serverVars, startVars, mail, cur, turnThread, fate, left>>

SwapTeardownFails ==
  /\ At(Swap, "swapClear") \/ At(Swap, "swapReset")
  /\ Spend("teardownFail")
  /\ connecting' = FALSE
  /\ Goto(Swap, "idle")
  /\ UNCHANGED <<queueVars, deferred, workVars, threadVars, startupError,
                 agentUp, serverProc, startVars, mail, cur, turnThread, fate>>

\* Phase 2.
SwapRestarts ==
  /\ At(Swap, "swapRestart")
  /\ agentUp' = TRUE /\ connecting' = FALSE
  /\ Goto(Swap, "swapConfirm")
  /\ UNCHANGED <<queueVars, deferred, workVars, threadVars, startupError,
                 serverProc, startVars, mail, cur, turnThread, fate, left>>

SwapRestartFails ==
  /\ At(Swap, "swapRestart") /\ Spend("serverFail")
  /\ agentUp' = FALSE
  /\ FailurePosted
  /\ Goto(Swap, "idle")
  /\ UNCHANGED <<queueVars, deferred, workVars, threadVars, startupError,
                 serverProc, startVars, cur, turnThread, fate>>

\* Phase 3 ends: what was typed meanwhile is handed to a new task.
SwapConfirms ==
  /\ At(Swap, "swapConfirm")
  /\ mail' = IF queue # <<>> /\ ~agentRunning THEN Append(mail, "later") ELSE mail
  /\ Goto(Swap, "idle")
  /\ UNCHANGED <<queueVars, deferred, workVars, threadVars, serverVars,
                 startVars, cur, turnThread, fate, left>>

-----------------------------------------------------------------------------
(* What the program posts to its own pump. *)

\* on_deep_agents_app_server_ready and on_deep_agents_app_server_start_failed.
ServerReady ==
  /\ PumpIdle /\ mail # <<>> /\ Head(mail) = "up"
  /\ connecting' = FALSE /\ agentUp' = TRUE /\ serverProc' = TRUE
  /\ mail' = Tail(mail) \o <<"seq">>
              \o (IF deferred # <<>> /\ ~agentRunning THEN <<"safe">> ELSE <<>>)
  /\ UNCHANGED <<queueVars, deferred, workVars, threadVars, startupError,
                 startVars, ctlVars, turnThread, fate, left>>

ServerStartFailed ==
  /\ PumpIdle /\ mail # <<>> /\ Head(mail) = "failed"
  /\ connecting' = FALSE /\ startupError' = TRUE
  /\ deferred' = <<>>
  /\ mail' = Tail(mail)
  /\ UNCHANGED <<queueVars, workVars, threadVars, agentUp, serverProc,
                 startVars, ctlVars, turnThread, fate, left>>

\* A call_after_refresh callback creates its task.
CreateTask(t) ==
  /\ PumpIdle /\ mail # <<>> /\ pc[t] \in {"idle", "done"}
  /\ \/ Head(mail) = "seq" /\ t \in SeqTask
     \/ Head(mail) = "safe" /\ t \in SafeTask
     \/ Head(mail) = "later" /\ t \in LaterTask
  /\ mail' = Tail(mail)
  /\ pc' = [pc EXCEPT ![t] = "ready"]
  /\ UNCHANGED <<queueVars, deferred, workVars, threadVars, serverVars,
                 startVars, active, cur, turnThread, fate, left>>

\* A call_later callback runs a switch in the pump.
RunLater ==
  /\ PumpIdle /\ mail # <<>> /\ Head(mail) \in {"thread", "model"}
  /\ mail' = Tail(mail)
  /\ Goto(Pump, IF Head(mail) = "thread" THEN "resume" ELSE "switch")
  /\ UNCHANGED <<queueVars, deferred, workVars, threadVars, serverVars,
                 startVars, cur, turnThread, fate, left>>

\* The first step of a created task.  The session start sequence runs once;
\* a later server goes straight to the backlog.
TaskStarts(t) ==
  /\ t \in SeqTask \cup SafeTask \cup LaterTask /\ At(t, "ready")
  /\ IF t \in SeqTask
     THEN /\ sessionStarted' = TRUE
          /\ startupSeq' = (startupSeq \/ ~sessionStarted)
          /\ Goto(t, IF sessionStarted THEN "backlog" ELSE "history")
     ELSE /\ Goto(t, IF t \in SafeTask THEN "drainIfReady" ELSE "next")
          /\ UNCHANGED startVars
  /\ UNCHANGED <<queueVars, deferred, workVars, threadVars, serverVars, mail,
                 cur, turnThread, fate, left>>

\* The history is loaded: the initial prompt is submitted, else the backlog.
HistoryLoaded(t) ==
  /\ At(t, "history")
  /\ IF InitialPrompt # None
     THEN /\ cur' = [cur EXCEPT ![t] = InitialPrompt]
          /\ Goto(t, "process") /\ UNCHANGED startupSeq
     ELSE Goto(t, "backlog") /\ startupSeq' = FALSE /\ UNCHANGED cur
  /\ UNCHANGED <<queueVars, deferred, workVars, threadVars, serverVars,
                 sessionStarted, mail, turnThread, fate, left>>

\* The resumed state cannot be read: the prompt is not submitted and the
\* sequence returns.
ResumedStateUnreadable(t) ==
  /\ At(t, "history") /\ InitialPrompt # None /\ Spend("threadFail")
  /\ startupSeq' = FALSE
  /\ fate' = [fate EXCEPT ![InitialPrompt] = "lost"]
  /\ Goto(t, "done")
  /\ UNCHANGED <<queueVars, deferred, workVars, threadVars, serverVars,
                 sessionStarted, mail, cur, turnThread>>

\* _drain_startup_backlog.
DrainBacklog(t) ==
  /\ At(t, "backlog")
  /\ Goto(t, IF agentRunning \/ shellRunning THEN "done" ELSE "drainIfReady")
  /\ UNCHANGED <<queueVars, deferred, workVars, threadVars, serverVars,
                 startVars, mail, cur, turnThread, fate, left>>

-----------------------------------------------------------------------------
\* What a user or a client does.
Input == \/ \E m \in Msg : Submit(m) \/ SubmitBypass(m)
         \/ \E kind \in {"thread", "model"} : Pick(kind)
         \/ Interrupt \/ QuitOrInterrupt \/ ForceClear
         \/ Restart \/ SwitchAgent \/ PickLogin
         \/ \E t \in Task : LoginRefresh(t)

\* What can go wrong.
Fault == \/ \E t \in Task : \/ ThreadSwitchFails(t) \/ ResumedStateUnreadable(t)
                            \/ RespawnFails(t)
         \/ StartupFails \/ SwapTeardownFails \/ SwapRestartFails

\* The steps of task t that need nothing but the event loop.
Step(t) ==
  \/ Process(t) \/ SendToAgent(t) \/ StartShell(t) \/ ResetThread(t)
  \/ ClearReturns(t) \/ Processed(t) \/ ProcessNext(t) \/ WidgetRemoved(t)
  \/ t \in Msg /\ (WorkerStarts(t) \/ WorkerEnds(t))
  \/ SpinnerRemoved(t) \/ MaybeDrainDeferred(t) \/ DrainDeferred(t)
  \/ ResumeThread(t) \/ HistoryPrefetched(t) \/ SwitchThread(t)
  \/ ThreadSwitchReturns(t) \/ SwitchModel(t) \/ RetryStartup(t)
  \/ ActionReturns(t) \/ LoginLater(t) \/ Respawned(t) \/ (t = Pump /\ RestartSevers)
  \/ TaskStarts(t) \/ HistoryLoaded(t) \/ DrainBacklog(t)

StartStep == StartupSucceeds
SwapStep == \/ SwapTearsDown \/ SwapDropsDeferred \/ SwapResetsThread
            \/ SwapRestarts \/ SwapConfirms
MailStep == ServerReady \/ ServerStartFailed \/ RunLater \/ \E t \in Task : CreateTask(t)

Next == \/ Input \/ Fault \/ StartStep \/ SwapStep \/ MailStep
        \/ \E t \in Task : Step(t)

Spec == Init /\ [][Next]_vars

\* The event loop serves every task that can go on, every await returns, and
\* the pump takes what is posted to it.
Fairness == /\ \A t \in Task : WF_vars(Step(t))
            /\ WF_vars(StartStep) /\ WF_vars(SwapStep) /\ WF_vars(MailStep)
FairSpec == Spec /\ Fairness
=============================================================================
