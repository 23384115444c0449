-------------------------- MODULE AppSessionProps --------------------------
(***************************************************************************)
(* What the session core promises.  The invariants and the action          *)
(* properties are stated for every value of the constants; a run says for  *)
(* which operations it checks them, and some are claims of the code's own  *)
(* comments that the code does not keep.                                   *)
(***************************************************************************)
EXTENDS AppSession

\* From popping or taking a message to dispatching it, and from there to the
\* end of _process_message.
HoldPoint == {"popped", "process", "mounting", "clearing"}
DonePoint == {"cleared", "processed"}
\* The tasks inside _process_next_from_queue with a message they popped.
Draining == {t \in Task \ {Pump} : pc[t] \in HoldPoint \cup DonePoint /\ cur[t] # InitialPrompt}

\* One drain at a time: of all the cleanups, the session start sequence, and
\* the task a swap leaves behind, at most one is between popping a message and
\* finishing it, and _processing_pending is set exactly while one is
\* (_process_next_from_queue).
OneDrain == /\ \A t, u \in Draining : t = u
            /\ processingPending <=> Draining # {}

\* No message is duplicated or dropped on the way: the queue holds a message
\* once, one that is queued and not dealt with is in the queue or in the hands
\* of a drain, and what a drain holds has left the queue (_submit_input,
\* _process_next_from_queue and every routine that clears the queue).
Conserved ==
  /\ \A i, j \in DOMAIN queue : queue[i] = queue[j] => i = j
  /\ \A i \in DOMAIN queue : fate[queue[i]] = "queued"
  /\ \A m \in Msg : fate[m] = "queued" =>
       \/ \E i \in DOMAIN queue : queue[i] = m
       \/ \E t \in Draining : cur[t] = m
  /\ \A t \in Draining, i \in DOMAIN queue : cur[t] # queue[i]

\* What makes OneDrain and Conserved inductive.  A task has a message in hand
\* exactly while it is inside _process_message or on its way there.
InHand == \A t \in Task :
  /\ cur[t] # None => pc[t] \in HoldPoint \cup DonePoint
  /\ pc[t] \in HoldPoint \cup DonePoint => cur[t] # None \/ t = Pump
  /\ pc[t] \in {"popped", "process", "mounting"} => cur[t] # None
\* A message in hand comes from the queue if a drain has it, and is dispatched
\* once.
HandFate == \A t \in Task : cur[t] # None =>
  /\ pc[t] \in HoldPoint => fate[cur[t]] = IF t \in Draining THEN "queued" ELSE "taken"
  /\ pc[t] \in DonePoint => fate[cur[t]] \in {"turn", "shell", "lost", "cleared"}
\* A worker exists only for a message that was dispatched to it.
WorkerFate == \A m \in Msg : pc[m] # "idle" => fate[m] \in {"turn", "shell"}
\* Where the pump and the startup worker can be: neither drains the queue.
PumpPoint == HoldPoint \cup DonePoint \cup
  {"idle", "resume", "switch", "prefetch", "clearView", "load", "rollback", "model",
   "retry", "notice", "restart", "respawning"}
Places == pc[Pump] \in PumpPoint \ {"popped"} /\ pc[Start] \in {"idle", "starting"}
\* The initial prompt never passes through the pump or the queue; one start
\* sequence submits it, once (_initial_session_started).
Prompting(t) == pc[t] = "history" \/ (cur[t] # None /\ cur[t] = InitialPrompt)
PromptOnce ==
  /\ \A t \in Task : Prompting(t) => sessionStarted /\ t # Pump
  /\ \A t, u \in Task : Prompting(t) /\ Prompting(u) => t = u
  /\ InitialPrompt # None =>
       /\ fate[InitialPrompt] \notin {"new", "queued"}
       /\ ~sessionStarted \/ (\E t \in Task : pc[t] = "history")
            => fate[InitialPrompt] = "taken"
\* The discipline of the queue, with all it rests on.
QueueInv == /\ OneDrain /\ Conserved /\ InHand /\ HandFate /\ WorkerFate
            /\ Places /\ PromptOnce

\* The session has come to rest.
Settled == ~agentRunning /\ ~shellRunning /\ ~connecting /\ ~startupSeq
\* Something under way ends in _process_next_from_queue, or is certain to
\* create what does.
WillDrainQueue ==
  \/ \E t \in SeqTask \cup LaterTask \cup Msg :
       pc[t] \notin {"idle", "done", "created", "running"}
  \/ {"up", "seq", "later"} \cap Range(mail) # {}
  \/ pc[Swap] = "swapConfirm"

\* A message never sits in the queue of a session at rest with nobody on the
\* way to take it: whichever of the cleanup, the start sequence and the swap
\* cleared the last busy flag still has the queue to look at.
NoStrandedMessage == Settled /\ ~startupError /\ agentUp /\ queue # <<>> => WillDrainQueue

\* The same for the deferred actions.  A failure of the server that is posted and
\* not handled yet will drop them.
NoStrandedAction ==
  Settled /\ deferred # <<>> =>
    \/ \E t \in SeqTask \cup SafeTask \cup Msg :
         pc[t] \notin {"idle", "done", "created", "running"}
    \/ {"up", "seq", "safe", "failed"} \cap Range(mail) # {}

\* _thread_switching is set exactly while one task is inside _resume_thread,
\* whatever fails there, so input is never refused for good and two switches
\* never interleave.
SwitchPoint == {"prefetch", "clearView", "load", "rollback"}
OneThreadSwitch ==
  /\ threadSwitching <=> \E t \in Task : pc[t] \in SwitchPoint
  /\ \A t, u \in Task : pc[t] \in SwitchPoint /\ pc[u] \in SwitchPoint => t = u

\* The session shows Connecting only while a start or a restart is under way or
\* its outcome is posted: no path, whatever fails, leaves it there.
ConnectingIsOwned ==
  connecting =>
    \/ pc[Start] = "starting"
    \/ pc[Swap] \in {"swapClear", "swapReset", "swapRestart"}
    \/ \E t \in Task : pc[t] \in {"respawning", "retry"}
    \/ {"up", "failed"} \cap Range(mail) # {}

\* The session is without an agent only while it connects or after a failure
\* it has reported or is about to report.
AgentLossReported ==
  ~agentUp => connecting \/ startupError \/ "failed" \in Range(mail)

\* A turn is live from the creation of its worker until it unwinds.
Live(m) == fate[m] = "turn" /\ pc[m] \in {"created", "running"}

\* _agent_running is "True while the agent worker is streaming a response".
AgentRunningWhileLive == \A m \in Msg : Live(m) /\ m \notin cancelled => agentRunning

\* A running turn stays on the session's thread: a switch that was deferred
\* waits until the busy state resolves.
TurnKeepsThread ==
  \A m \in Msg : Live(m) /\ pc[m] = "running" /\ m \notin cancelled => turnThread[m] = thread

\* A restart of the server is always covered by _connecting.
RestartIsConnecting ==
  pc[Swap] = "swapRestart" \/ (\E t \in Task : pc[t] = "respawning") => connecting

\* A message that is queued while the session is at rest, with a server, is on
\* its way to be drained.
QueuedIsDrained == Settled /\ agentUp /\ queue # <<>> => WillDrainQueue

\* No message is given up while the session is connecting: input waits until
\* the agent is reachable.
NotLostWhileConnecting ==
  [][\A m \in Msg : fate'[m] = "lost" /\ fate[m] # "lost" => ~connecting]_vars

\* While the server restarts for an agent swap the session stays on the thread
\* the swap started, unless the user clears the chat.
SwapKeepsThread ==
  [][pc[Swap] = "swapRestart" /\ thread' # thread => pc[Pump] = "clearing"]_vars

\* Every message is dealt with: the queue is drained, turn after turn, unless
\* the server fails, when the queue waits for the user.
EveryMessageHandled ==
  \A m \in Msg : fate[m] \in {"queued", "taken"}
                  ~> fate[m] \notin {"queued", "taken"} \/ startupError

\* Every deferred switch is eventually taken up, unless the server fails.
DeferredTakenUp == deferred # <<>> ~> deferred = <<>> \/ startupError

\* The session does not connect for ever.
ConnectingResolves == connecting ~> ~connecting

\* An agent turn that starts, or is interrupted, frees the session again.
AgentRunningEnds == agentRunning ~> ~agentRunning

\* No task keeps the event loop for ever.
LoopIsYielded == active # None ~> active = None
=============================================================================
