------------------------------ MODULE Prompts ------------------------------
(***************************************************************************)
(* Approvals and questions: the interrupts a stream ends with, taken one   *)
(* by one by the turn (textual_adapter.py), the menus the app puts into    *)
(* the transcript for them, the keys, the menu's message to the app, and   *)
(* all that may take a turn or a menu away in between.  A prompt is an     *)
(* interrupt of the graph; what it asks for is left out.                   *)
(*                                                                         *)
(* The app's message pump handles one key, command or message at a time;   *)
(* the turn and the worker behind a placeholder run between its awaits.    *)
(***************************************************************************)
EXTENDS Naturals, FiniteSets

CONSTANTS
  Approval,  \* interrupts of the approval middleware, numbered as they are raised
  Question,  \* interrupts of ask_user, numbered as well
  None,
  Budgets    \* functions [Op -> Nat]: how often each of these may happen

Op == {"turn", "reason", "escape", "toggle", "force", "clear", "restart", "swap", "fail"}
Prompt == Approval \cup Question

ASSUME PromptAssumption ==
  Prompt \subseteq Nat /\ Approval \cap Question = {} /\ None \notin Prompt
ASSUME BudgetsAssumption == Budgets \subseteq [Op -> Nat]

VARIABLES
  \* the turn
  turn,         \* where it stands
  cur,          \* the prompt it is at, or None
  todo,         \* interrupts of this round it has not come to
  unanswered,   \* interrupts the graph has raised and got no answer for
  payload,      \* [Prompt -> what the turn will resume with]
  rejected,     \* any_rejected
  askCancelled, \* ask_user_cancelled
  hadAsk,       \* pending_ask_user is not empty
  auto,         \* session_state.auto_approve
  future,       \* [Prompt -> the result of its future]
  \* the app
  approval,     \* _pending_approval_widget, or None
  ask,          \* _pending_ask_user_widget, or None
  screen,       \* menus in the transcript
  placeholder,  \* the prompt whose placeholder is in the transcript, or None
  deferred,     \* the prompt whose _deferred_show_approval runs, or None
  reason,       \* the menu whose reason input is open, or None
  pressed,      \* menus with a decision
  held,         \* a Decided message in a menu that is not mounted yet
  decided,      \* a Decided message on its way to the app
  sent,         \* questions whose Answered or Cancelled message is on its way to the app
  pump,         \* what the app's message pump does
  \* what happened
  granted,      \* calls the user, the auto mode or the allow-list let through
  ran,          \* calls the graph was told to run
  astray,       \* questions that lost their menu to the 30 s, or to the message of one that did
  orphaned,     \* approvals that were pending when the transcript was emptied, undecided
  left          \* [Op -> Nat]: what remains of the budget

roundVars == <<todo, unanswered, payload, rejected, askCancelled, hadAsk>>
menuVars == <<reason, pressed, held, decided, sent>>
shownVars == <<approval, ask, screen, placeholder, deferred>>
doneVars == <<granted, ran, astray, orphaned>>
vars == <<turn, cur, roundVars, auto, future, menuVars, shownVars, pump, doneVars, left>>

Results == {"none", "open", "approve", "auto", "reject", "amend", "answer", "cancel",
            "failed", "cancelled"}
Waiting == {"poll", "awaitApproval", "askPoll", "askForced", "awaitAnswer"}

\* The types of the state; and no call runs that was not let through.
TypeOK ==
  /\ turn \in {"idle", "stream", "round", "cancelled"} \cup Waiting
  /\ cur \in Prompt \cup {None} /\ todo \in SUBSET Prompt /\ unanswered \in SUBSET Prompt
  /\ payload \in [Prompt -> {"none", "approve", "reject", "answer", "error"}]
  /\ rejected \in BOOLEAN /\ askCancelled \in BOOLEAN /\ hadAsk \in BOOLEAN
  /\ auto \in BOOLEAN /\ future \in [Prompt -> Results]
  /\ approval \in Approval \cup {None} /\ ask \in Question \cup {None}
  /\ screen \in SUBSET Prompt /\ placeholder \in Approval \cup {None}
  /\ deferred \in Approval \cup {None} /\ reason \in Approval \cup {None}
  /\ pressed \in SUBSET Prompt /\ held \in BOOLEAN /\ decided \in BOOLEAN
  /\ sent \in SUBSET Question /\ astray \in SUBSET Question
  /\ orphaned \in SUBSET Approval
  /\ pump \in {"free", "removing", "clearing", "busy"}
  /\ granted \in SUBSET Approval /\ ran \in SUBSET granted /\ left \in [Op -> Nat]

Init ==
  /\ turn = "idle" /\ cur = None /\ todo = {} /\ unanswered = {}
  /\ payload = [p \in Prompt |-> "none"] /\ rejected = FALSE /\ askCancelled = FALSE
  /\ hadAsk = FALSE /\ auto = FALSE /\ future = [p \in Prompt |-> "none"]
  /\ approval = None /\ ask = None /\ screen = {} /\ placeholder = None /\ deferred = None
  /\ reason = None /\ pressed = {} /\ held = FALSE /\ decided = FALSE /\ sent = {}
  /\ pump = "free" /\ left \in Budgets
  /\ granted = {} /\ ran = {} /\ astray = {} /\ orphaned = {}

Spend(o) == left[o] > 0 /\ left' = [left EXCEPT ![o] = @ - 1]
Active == turn \notin {"idle", "cancelled"}
Free == pump = "free"
Unless(f, p, d) == IF f[p] = "open" THEN [f EXCEPT ![p] = d] ELSE f

-----------------------------------------------------------------------------
(* The turn *)

\* The pump has handled what came before the message.
StartTurn ==
  /\ Free /\ sent = {} /\ ~decided /\ turn = "idle" /\ Spend("turn") /\ turn' = "stream"
  /\ UNCHANGED <<cur, roundVars, auto, future, menuVars, shownVars, pump, doneVars>>

\* Interrupts are raised, and taken, in their order.
First(ps) == {p \in ps : \A q \in ps : p <= q}
Fresh(S) == {p \in S : future[p] = "none"} \ unanswered
Raised(S) == {{p \in Fresh(S) : p <= n} : n \in Fresh(S)} \cup {{}}
\* The stream ends, with interrupts or without.  What was resumed without an answer
\* is raised again.
StreamEnds ==
  /\ turn = "stream"
  /\ \E as \in Raised(Approval), qs \in Raised(Question) :
       LET ps == unanswered \cup as \cup qs IN
       /\ todo' = ps /\ unanswered' = ps /\ hadAsk' = (ps \cap Question # {})
       /\ turn' = IF ps = {} THEN "idle" ELSE "round"
  /\ UNCHANGED <<cur, payload, rejected, askCancelled, auto, future, menuVars, shownVars, pump,
                 doneVars, left>>

\* One prompt is through.  A rejection leaves the others of the round unasked.
Settle(p, answer, refused) ==
  /\ payload' = [payload EXCEPT ![p] = answer]
  /\ rejected' = (rejected \/ refused)
  /\ turn' = "round" /\ cur' = None

\* The batch is rejected by a word, or the user cancelled: the turn is over.
Halts == rejected /\ (askCancelled \/ ~hadAsk)
\* A bug to catch: the payload outlives the round.
OldPayload ==
  /\ payload' = payload /\ rejected' = FALSE /\ askCancelled' = FALSE
  /\ hadAsk' = FALSE /\ todo' = {} /\ cur' = None
NewRound ==
  /\ payload' = [p \in Prompt |-> "none"] /\ rejected' = FALSE /\ askCancelled' = FALSE
  /\ hadAsk' = FALSE /\ todo' = {} /\ cur' = None
Resume ==
  /\ turn = "round" /\ todo = {}
  /\ turn' = IF Halts THEN "idle" ELSE "stream"
  /\ ran' = IF Halts THEN ran ELSE ran \cup {p \in Approval : payload[p] = "approve"}
  /\ unanswered' = IF Halts THEN {} ELSE {p \in unanswered : payload[p] = "none"}
  /\ NewRound
  /\ UNCHANGED <<auto, future, menuVars, shownVars, pump, granted, astray, orphaned, left>>

\* The worker is cancelled, and with it the future it awaits.
Cancelled(f) ==
  /\ turn' = IF Active THEN "cancelled" ELSE turn
  /\ future' = IF Active /\ turn \in {"awaitApproval", "awaitAnswer"} /\ f[cur] = "open"
               THEN [f EXCEPT ![cur] = "cancelled"] ELSE f
CleanedUp ==
  /\ turn = "cancelled" /\ turn' = "idle" /\ unanswered' = {} /\ NewRound
  /\ UNCHANGED <<auto, future, menuVars, shownVars, pump, doneVars, left>>

-----------------------------------------------------------------------------
(* Menus *)

\* _handle_selection, on the pending menu: the first decision counts.  The message
\* of a menu that is not mounted yet waits in it; one that is removed sends none.
Select(d) ==
  /\ future' = Unless(future, approval, d)
  /\ pressed' = pressed \cup {approval}
  /\ decided' = (decided \/ approval \in screen)
  /\ held' = (held \/ approval = deferred)

\* action_select_reject closes an open reason input instead; action_cancel, of a
\* question, works once.
Rejects == {approval} \ {None, reason}
Quits == {ask} \ ({None} \cup pressed)
Dismissed(no, quit) ==
  [p \in Prompt |-> IF future[p] # "open" THEN future[p]
                    ELSE IF p \in no THEN "reject" ELSE IF p \in quit THEN "cancel" ELSE "open"]
Dismiss(no, quit) ==
  /\ pressed' = pressed \cup no \cup quit
  /\ decided' = (decided \/ no \cap screen # {})
  /\ held' = (held \/ deferred \in no)
  /\ sent' = sent \cup (quit \cap screen)
ReasonClosed == reason' = IF reason = approval THEN None ELSE reason

-----------------------------------------------------------------------------
(* Approvals *)

\* A bug to catch: a prompt takes the place of the one that is pending.
AnyApproval == TRUE
\* One approval at a time.
NoApproval == approval = None

\* The menu is mounted, or a placeholder while the user is typing; a failure is
\* handed to the caller.
Show(p) ==
  /\ NoApproval /\ turn' = "awaitApproval" /\ cur' = p
  /\ \/ /\ approval' = p /\ screen' = screen \cup {p}
        /\ future' = [future EXCEPT ![p] = "open"]
        /\ UNCHANGED <<placeholder, deferred, left>>
     \/ /\ approval' = p /\ placeholder' = p /\ deferred' = p
        /\ future' = [future EXCEPT ![p] = "open"]
        /\ UNCHANGED <<screen, left>>
     \/ /\ Spend("fail") /\ approval' = None
        /\ future' = [future EXCEPT ![p] = "failed"]
        /\ UNCHANGED <<screen, placeholder, deferred>>
  /\ UNCHANGED <<ask, roundVars, auto, menuVars, pump, doneVars>>

\* The next call of the round, when the questions are through.
NextCall(p) == turn = "round" /\ todo \cap Question = {} /\ p \in First(todo)
\* The auto mode looks at no other decision of the round.
ApproveUnasked(p) ==
  /\ NextCall(p) /\ auto
  /\ payload' = [payload EXCEPT ![p] = "approve"] /\ todo' = todo \ {p}
  /\ granted' = granted \cup {p} /\ future' = [future EXCEPT ![p] = "auto"]
  /\ UNCHANGED <<turn, cur, unanswered, rejected, askCancelled, hadAsk, auto, menuVars,
                 shownVars, pump, ran, astray, orphaned, left>>
\* All commands are in the allow-list.
ApproveListed(p) ==
  /\ NextCall(p) /\ ~auto
  /\ Settle(p, "approve", FALSE) /\ todo' = IF rejected THEN {} ELSE todo \ {p}
  /\ granted' = granted \cup {p} /\ future' = [future EXCEPT ![p] = "approve"]
  /\ UNCHANGED <<unanswered, askCancelled, hadAsk, auto, menuVars, shownVars, pump, ran,
                 astray, orphaned, left>>
RequestApproval(p) ==
  /\ NextCall(p) /\ ~auto
  /\ IF NoApproval THEN Show(p) ELSE /\ turn' = "poll" /\ cur' = p
                                     /\ UNCHANGED <<roundVars, auto, future, menuVars,
                                                    shownVars, pump, doneVars, left>>
PollEnds == turn = "poll" /\ Show(cur)

Verdict(r) == IF r \in {"approve", "auto"} THEN "approve" ELSE "reject"
\* The decision reaches the turn.  A rejection with a reason is an answer to the agent.
Decision ==
  /\ turn = "awaitApproval" /\ future[cur] \in {"approve", "auto", "reject", "amend"}
  /\ Settle(cur, Verdict(future[cur]), future[cur] = "reject")
  /\ auto' = (auto \/ future[cur] = "auto")
  /\ todo' = IF rejected' THEN {} ELSE todo \ {cur}
  /\ UNCHANGED <<unanswered, askCancelled, hadAsk, future, menuVars, shownVars, pump,
                 doneVars, left>>
\* A cancelled future counts as an interruption, a failure ends the turn.
NoDecision ==
  /\ turn = "awaitApproval" /\ future[cur] \in {"cancelled", "failed"}
  /\ turn' = "cancelled"
  /\ UNCHANGED <<cur, roundVars, auto, future, menuVars, shownVars, pump, doneVars, left>>

Gone(p) == approval' = None /\ future' = Unless(future, p, "cancelled")
\* _deferred_show_approval, once the user is idle, or has typed for too long.  When
\* the placeholder is gone, so is the prompt.
DeferredShows ==
  /\ deferred # None /\ deferred' = None
  /\ \/ /\ placeholder # deferred /\ Gone(deferred)
        /\ held' = FALSE /\ UNCHANGED <<screen, placeholder, decided, left>>
     \/ /\ placeholder = deferred /\ placeholder' = None
        /\ screen' = screen \cup {deferred} /\ held' = FALSE /\ decided' = (decided \/ held)
        /\ UNCHANGED <<approval, future, left>>
     \/ /\ placeholder = deferred /\ placeholder' = None /\ Spend("fail")
        /\ approval' = None /\ future' = Unless(future, deferred, "failed")
        /\ held' = FALSE /\ UNCHANGED <<screen, decided>>
  /\ UNCHANGED <<turn, cur, roundVars, auto, ask, reason, pressed, sent, pump, doneVars>>

-----------------------------------------------------------------------------
(* Questions *)

\* A bug to catch: a question takes the place of the one that is pending.
AnyQuestion == TRUE
NoQuestion == ask = None

MountQuestion(p) ==
  /\ turn' = "awaitAnswer" /\ cur' = p
  /\ \/ /\ ask' = p /\ screen' = screen \cup {p}
        /\ future' = [future EXCEPT ![p] = "open"] /\ UNCHANGED left
     \/ /\ Spend("fail") /\ ask' = None
        /\ future' = [future EXCEPT ![p] = "failed"] /\ UNCHANGED screen
  /\ UNCHANGED <<approval, placeholder, deferred, roundVars, auto, menuVars, pump, doneVars>>

RequestAnswer(p) ==
  /\ turn = "round" /\ p \in First(todo \cap Question)
  /\ IF NoQuestion THEN MountQuestion(p)
     ELSE /\ turn' = "askPoll" /\ cur' = p
          /\ UNCHANGED <<roundVars, auto, future, menuVars, shownVars, pump, doneVars, left>>
AskPollEnds == turn = "askPoll" /\ NoQuestion /\ MountQuestion(cur)

\* A bug to catch: a question waits for the older one without end.
AskPollForever == FALSE
\* After 30 s the older question is cancelled and removed, whether or not its message is
\* on its way ...
AskPollTimesOut ==
  /\ turn = "askPoll" /\ ask # None /\ turn' = "askForced"
  /\ future' = Dismissed({}, Quits) /\ Dismiss({}, Quits)
  /\ ask' = None /\ screen' = screen \ {ask} /\ astray' = astray \cup {ask}
  /\ UNCHANGED <<cur, roundVars, auto, approval, placeholder, deferred, reason, pump, granted,
                 ran, orphaned, left>>
\* ... and the new one mounted as soon as it is gone.
AskForced == turn = "askForced" /\ MountQuestion(cur)

\* An error is reported to the agent, which goes on; a cancellation ends the turn.
Answer ==
  /\ turn = "awaitAnswer" /\ future[cur] \notin {"open", "cancelled"}
  /\ Settle(cur, IF future[cur] = "answer" THEN "answer" ELSE "error", future[cur] # "answer")
  /\ askCancelled' = (askCancelled \/ future[cur] = "cancel") /\ todo' = todo \ {cur}
  /\ UNCHANGED <<unanswered, hadAsk, auto, future, menuVars, shownVars, pump, doneVars, left>>

-----------------------------------------------------------------------------
(* Keys, commands and messages *)

Choose(d) ==
  /\ Free /\ approval # None /\ reason # approval
  /\ Select(d)
  /\ granted' = IF future[approval] = "open" /\ d # "reject" THEN granted \cup {approval}
                ELSE granted
  /\ UNCHANGED <<turn, cur, roundVars, auto, reason, sent, shownVars, pump, ran, astray,
                 orphaned, left>>
OpenReason ==
  /\ Free /\ approval \in screen \ pressed /\ reason # approval /\ Spend("reason")
  /\ reason' = approval
  /\ UNCHANGED <<turn, cur, roundVars, auto, future, pressed, held, decided, sent,
                 shownVars, pump, doneVars>>
SubmitReason(d) ==
  /\ Free /\ reason # None /\ reason \in screen /\ reason = approval
  /\ Select(d) /\ reason' = None
  /\ UNCHANGED <<turn, cur, roundVars, auto, sent, shownVars, pump, doneVars, left>>
AnswerQuestion ==
  /\ Free /\ ask \in screen \ pressed
  /\ future' = Unless(future, ask, "answer")
  /\ pressed' = pressed \cup {ask} /\ sent' = sent \cup {ask}
  /\ UNCHANGED <<turn, cur, roundVars, auto, reason, held, decided, shownVars, pump,
                 doneVars, left>>

\* Esc, Ctrl+C, or a client's interrupt: the approval first, then the question, then
\* the worker.
Escape ==
  /\ Free
  /\ \/ /\ approval # None /\ future' = Dismissed(Rejects, {}) /\ Dismiss(Rejects, {})
        /\ ReasonClosed /\ UNCHANGED <<turn, left>>
     \/ /\ approval = None /\ ask # None
        /\ future' = Dismissed({}, Quits) /\ Dismiss({}, Quits)
        /\ UNCHANGED <<turn, reason, left>>
     \/ /\ approval = None /\ ask = None /\ Active /\ Spend("escape") /\ Cancelled(future)
        /\ UNCHANGED menuVars
  /\ UNCHANGED <<cur, roundVars, auto, shownVars, pump, doneVars>>

ToggleAuto ==
  /\ Free /\ ask = None /\ Spend("toggle") /\ auto' = ~auto
  /\ UNCHANGED <<turn, cur, roundVars, future, menuVars, shownVars, pump, doneVars>>

\* on_approval_menu_decided removes the pending menu, whichever it is, ...
HandleDecided ==
  /\ Free /\ decided /\ decided' = FALSE /\ placeholder' = None
  /\ screen' = screen \ {approval} /\ pump' = IF approval = None THEN "free" ELSE "removing"
  /\ UNCHANGED <<turn, cur, roundVars, auto, future, reason, pressed, held, sent,
                 approval, ask, deferred, doneVars, left>>
\* A bug to catch: the reference outlives the menu.
RemovedKept == UNCHANGED approval
RemovedCleared == approval' = None
\* ... and then forgets it.  What else the menu had sent is here by now, and finds
\* nothing to do.
MenuRemoved ==
  /\ pump = "removing" /\ pump' = "free" /\ RemovedCleared /\ decided' = FALSE
  /\ UNCHANGED <<turn, cur, roundVars, auto, future, reason, pressed, held, sent, ask,
                 screen, placeholder, deferred, doneVars, left>>
\* on_ask_user_menu_answered, on_ask_user_menu_cancelled: the pending menu is removed,
\* whichever sent the message.
HandleAnswered ==
  /\ Free /\ \E p \in First(sent) :
       /\ sent' = sent \ {p}
       /\ astray' = astray \cup (IF p \in astray THEN {ask} \ {None} ELSE {})
  /\ ask' = None /\ screen' = screen \ {ask}
  /\ UNCHANGED <<turn, cur, roundVars, auto, future, reason, pressed, held, decided, approval,
                 placeholder, deferred, pump, granted, ran, orphaned, left>>

\* The transcript is about to be emptied: of what is pending, nobody but those in no is
\* told to go (history).
Abandon(no) ==
  /\ orphaned' = orphaned \cup (IF decided THEN {} ELSE {approval} \ ({None} \cup no))
  /\ UNCHANGED <<granted, ran, astray>>

\* /force-clear, typed or sent by a client: _force_interrupt_active_work, and then the
\* transcript is emptied.
ForceClear ==
  /\ Free /\ Spend("force") /\ pump' = "clearing"
  /\ Cancelled(Dismissed(Rejects, Quits)) /\ Dismiss(Rejects, Quits) /\ ReasonClosed
  /\ Abandon(Rejects)
  /\ UNCHANGED <<cur, roundVars, auto, shownVars>>
\* /clear, or a switch to another thread.
Clear ==
  /\ Free /\ turn = "idle" /\ Spend("clear") /\ pump' = "clearing" /\ Abandon({})
  /\ UNCHANGED <<turn, cur, roundVars, auto, future, menuVars, shownVars>>
Cleared ==
  /\ pump = "clearing" /\ pump' = "free" /\ screen' = {} /\ placeholder' = None
  /\ UNCHANGED <<turn, cur, roundVars, auto, future, menuVars, approval, ask, deferred,
                 doneVars, left>>

\* /restart cancels the worker, and awaits the server.
Restart ==
  /\ Free /\ Spend("restart") /\ pump' = "busy" /\ Cancelled(future)
  /\ UNCHANGED <<cur, roundVars, auto, menuVars, shownVars, doneVars>>
Freed ==
  /\ pump = "busy" /\ pump' = "free"
  /\ UNCHANGED <<turn, cur, roundVars, auto, future, menuVars, shownVars, doneVars, left>>

\* The teardown of an agent swap, which starts between turns: the approval is rejected,
\* the question removed, and the transcript emptied.
Swap ==
  /\ turn = "idle" /\ Spend("swap")
  /\ future' = Dismissed(Rejects, {}) /\ Dismiss(Rejects, {}) /\ ReasonClosed
  /\ ask' = None /\ screen' = {} /\ placeholder' = None /\ Abandon(Rejects)
  /\ UNCHANGED <<turn, cur, roundVars, auto, approval, deferred, pump>>

-----------------------------------------------------------------------------
TurnSteps ==
  \/ StreamEnds \/ Resume \/ CleanedUp \/ PollEnds \/ Decision \/ NoDecision
  \/ AskPollEnds \/ AskPollTimesOut \/ AskForced \/ Answer
  \/ \E p \in Approval : ApproveUnasked(p) \/ ApproveListed(p) \/ RequestApproval(p)
  \/ \E p \in Question : RequestAnswer(p)
PumpSteps == HandleDecided \/ MenuRemoved \/ HandleAnswered \/ Cleared \/ Freed
Answers ==
  \/ \E d \in {"approve", "auto", "reject"} : Choose(d)
  \/ \E d \in {"reject", "amend"} : SubmitReason(d)
  \/ AnswerQuestion
Next ==
  \/ StartTurn \/ TurnSteps \/ DeferredShows \/ PumpSteps \/ Answers \/ OpenReason \/ Escape
  \/ ToggleAuto \/ ForceClear \/ Clear \/ Restart \/ Swap

Spec == Init /\ [][Next]_vars

\* Tasks and timers go on, the pump handles what it has, and the user answers.
FairSpec ==
  Spec /\ WF_vars(TurnSteps) /\ WF_vars(DeferredShows) /\ WF_vars(PumpSteps) /\ WF_vars(Answers)

-----------------------------------------------------------------------------
(* What it promises *)

\* A turn that awaits a decision has a menu the user can decide with, or a placeholder
\* that becomes one (_request_approval).
ApprovalIsShown ==
  turn = "awaitApproval" /\ future[cur] = "open" =>
    approval = cur /\ (cur \in screen \/ deferred = cur)

\* A turn that awaits an answer has the menu of its question on the screen, and as the
\* pending one (_request_ask_user).  There is one way to lose it: an older question timed
\* out, and its message, which names no menu, comes when the new one is pending.
QuestionIsShown ==
  turn = "awaitAnswer" /\ future[cur] = "open" /\ cur \notin astray =>
    ask = cur /\ cur \in screen

\* The reference that holds up later approvals is not left to itself: its menu can be
\* decided, will be shown, or is being removed (_pending_approval_widget).  It is when the
\* transcript is emptied over a menu that is not told to go: its reason is being typed,
\* or it has outlived its turn.
Released ==
  approval # None => approval \in screen \/ deferred = approval \/ decided \/ pump = "removing"
PendingIsReleased == approval \notin orphaned => Released

\* A turn at a prompt goes on, if the user answers what is shown: "If another approval is
\* already pending, queue this one" (_request_approval), a question is shown after 30 s at
\* the latest (_request_ask_user).  It waits for ever in two cases only: at a question that
\* has lost its menu to a late message, and at an approval behind a reference that nobody
\* will release.
PromptsEnd ==
  turn \in Waiting ~> \/ turn \notin Waiting
                      \/ turn = "awaitAnswer" /\ cur \in astray
                      \/ turn = "poll" /\ ~Released

\* What a turn resumes with is for the interrupts of that very round: a decision of an
\* earlier one, or of a menu that had outlived its turn, lets nothing run.
RunsInRound == [][ran' \ ran \subseteq unanswered]_vars

=============================================================================
