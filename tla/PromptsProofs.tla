--------------------------- MODULE PromptsProofs ---------------------------
(***************************************************************************)
(* Proofs about the prompts, for any set of interrupts and any budget: a   *)
(* turn that awaits a decision or an answer has the menu for it (one way   *)
(* to lose a question's menu is named), and what it lets the graph run was *)
(* let through for an interrupt of that very round.                        *)
(***************************************************************************)
EXTENDS Prompts, TLAPS

-----------------------------------------------------------------------------
(* The inductive invariant *)

\* A turn at a prompt is at one of its round, which has no answer yet.
AtPrompt ==
  /\ turn \in {"poll", "awaitApproval"} => cur \in Approval
  /\ turn \in {"askPoll", "askForced", "awaitAnswer"} => cur \in Question
  /\ turn \in Waiting => cur \in todo
  /\ turn \in {"idle", "stream", "round"} => cur = None
\* Answers are for interrupts of the round, and there are none between rounds.
PayloadOfRound ==
  /\ \A p \in Prompt : payload[p] # "none" => p \in unanswered /\ turn \notin {"idle", "stream"}
  /\ \A p \in todo : p \in unanswered /\ payload[p] = "none"
\* An interrupt that will be asked for has had no menu ...
NotAsked == \A p \in unanswered :
  \/ payload[p] # "none" \/ future[p] = "none"
  \/ p = cur /\ turn \in {"awaitApproval", "awaitAnswer", "cancelled"}
\* ... and a menu is there only for what has been asked for.
NoMenuYet == \A p \in Prompt : future[p] = "none" =>
  p \notin screen /\ p # approval /\ p # ask /\ p # deferred
\* Whatever is approved was let through.
GrantedFirst == \A p \in Approval :
  future[p] \in {"approve", "auto"} \/ payload[p] = "approve" => p \in granted
\* A placeholder's prompt is the pending one.
DeferredIsPending ==
  /\ deferred # None => deferred = approval /\ deferred \notin screen
  /\ held => deferred # None /\ future[deferred] # "open"
\* A menu is removed only when it has a decision.
RemovedIsDecided == decided \/ pump = "removing" =>
  approval # None /\ approval # deferred /\ future[approval] # "open"
\* The transcript is emptied only when no turn awaits a prompt.
ClearedAtRest == pump = "clearing" => turn \in {"idle", "cancelled"}
\* A message on its way comes from a question that is done.  During a turn it is that of the
\* pending menu, unless its own has gone another way; and there is no other when the 30 s
\* are over.
AnsweredIsDone ==
  /\ \A p \in sent : future[p] \notin {"none", "open"}
  /\ \A p \in sent \ astray : turn = "idle" \/ ask = p
  /\ turn = "askForced" => ask = None

PromptInv ==
  /\ AtPrompt /\ PayloadOfRound /\ NotAsked /\ NoMenuYet /\ GrantedFirst
  /\ DeferredIsPending /\ RemovedIsDecided /\ ClearedAtRest /\ AnsweredIsDone
  /\ ApprovalIsShown /\ QuestionIsShown

-----------------------------------------------------------------------------
(* Type correctness *)

\* The type invariant, one part for each group of variables.
TurnTyped ==
  turn \in {"idle", "stream", "round", "cancelled"} \cup Waiting /\ cur \in Prompt \cup {None}
RoundTyped ==
  /\ todo \in SUBSET Prompt /\ unanswered \in SUBSET Prompt
  /\ payload \in [Prompt -> {"none", "approve", "reject", "answer", "error"}]
FlagsTyped ==
  /\ rejected \in BOOLEAN /\ askCancelled \in BOOLEAN /\ hadAsk \in BOOLEAN
  /\ auto \in BOOLEAN /\ held \in BOOLEAN /\ decided \in BOOLEAN
  /\ sent \in SUBSET Question /\ astray \in SUBSET Question
FutureTyped == future \in [Prompt -> Results]
ShownTyped ==
  /\ approval \in Approval \cup {None} /\ ask \in Question \cup {None}
  /\ screen \in SUBSET Prompt /\ placeholder \in Approval \cup {None}
  /\ deferred \in Approval \cup {None} /\ reason \in Approval \cup {None}
  /\ pressed \in SUBSET Prompt
PumpTyped == pump \in {"free", "removing", "clearing", "busy"}
DoneTyped ==
  granted \in SUBSET Approval /\ ran \in SUBSET granted /\ orphaned \in SUBSET Approval
LeftTyped == left \in [Op -> Nat]

Typed ==
  /\ TurnTyped /\ RoundTyped /\ FlagsTyped /\ FutureTyped
  /\ ShownTyped /\ PumpTyped /\ DoneTyped /\ LeftTyped
IInv == Typed /\ PromptInv

LEMMA TypedIsTypeOK == Typed => TypeOK
BY DEF Typed, TypeOK, TurnTyped, RoundTyped, FlagsTyped, FutureTyped, ShownTyped, PumpTyped,
   DoneTyped, LeftTyped

LEMMA SpendTyped ==
  ASSUME LeftTyped, NEW o, Spend(o)
  PROVE  LeftTyped'
<1>1. CASE o \in Op
  <2>1. left[o] - 1 \in Nat
    BY <1>1 DEF LeftTyped, Spend
  <2> QED
    BY <1>1, <2>1 DEF LeftTyped, Spend
<1>2. CASE o \notin Op
  BY <1>2 DEF LeftTyped, Spend
<1> QED
  BY <1>1, <1>2

LEMMA InitIInv == Init => IInv
<1> SUFFICES ASSUME Init PROVE IInv
  OBVIOUS
<1>1. TurnTyped /\ RoundTyped /\ FlagsTyped /\ FutureTyped
  BY DEF Init, TurnTyped, RoundTyped, FlagsTyped, FutureTyped, Results
<1>2. ShownTyped /\ PumpTyped /\ DoneTyped
  BY DEF Init, ShownTyped, PumpTyped, DoneTyped
<1>3. LeftTyped
  BY BudgetsAssumption DEF Init, LeftTyped
<1>4. AtPrompt /\ PayloadOfRound /\ NotAsked /\ GrantedFirst /\ ClearedAtRest
  BY PromptAssumption DEF Init, Prompt, AtPrompt, PayloadOfRound, NotAsked, GrantedFirst,
     ClearedAtRest, Waiting
<1>5. NoMenuYet /\ DeferredIsPending /\ RemovedIsDecided /\ AnsweredIsDone
  BY PromptAssumption DEF Init, Prompt, NoMenuYet, DeferredIsPending, RemovedIsDecided,
     AnsweredIsDone
<1>6. ApprovalIsShown /\ QuestionIsShown
  BY DEF Init, ApprovalIsShown, QuestionIsShown
<1> QED
  BY <1>1, <1>2, <1>3, <1>4, <1>5, <1>6 DEF IInv, Typed, PromptInv

LEMMA StutterStep == IInv /\ UNCHANGED vars => IInv'
<1> SUFFICES ASSUME IInv, UNCHANGED vars PROVE IInv'
  OBVIOUS
<1>1. Typed'
  BY DEF IInv, Typed, TurnTyped, RoundTyped, FlagsTyped, FutureTyped, ShownTyped, PumpTyped,
     DoneTyped, LeftTyped, vars, roundVars, menuVars, shownVars, doneVars
<1>2. PromptInv'
  BY DEF IInv, PromptInv, AtPrompt, PayloadOfRound, NotAsked, NoMenuYet, GrantedFirst,
     DeferredIsPending, RemovedIsDecided, ClearedAtRest, AnsweredIsDone, ApprovalIsShown,
     QuestionIsShown, vars, roundVars, menuVars, shownVars, doneVars
<1> QED
  BY <1>1, <1>2 DEF IInv

-----------------------------------------------------------------------------
(* The steps, one lemma per action *)

LEMMA ShowStep ==
  ASSUME IInv, NEW p \in Approval, p \in todo,
         turn \in {"round", "poll"}, turn = "poll" => cur = p, Show(p)
  PROVE  IInv'
<1>1. /\ TurnTyped /\ RoundTyped /\ FlagsTyped /\ FutureTyped /\ ShownTyped /\ PumpTyped
      /\ DoneTyped /\ LeftTyped /\ AtPrompt /\ PayloadOfRound /\ NotAsked /\ NoMenuYet
      /\ GrantedFirst /\ DeferredIsPending /\ RemovedIsDecided /\ ClearedAtRest
      /\ AnsweredIsDone /\ ApprovalIsShown /\ QuestionIsShown
  BY DEF IInv, Typed, PromptInv
<1>2. RoundTyped' /\ FlagsTyped' /\ PumpTyped' /\ DoneTyped'
  BY <1>1 DEF Show, roundVars, menuVars, shownVars, doneVars, RoundTyped, FlagsTyped,
     PumpTyped, DoneTyped
<1>3. TurnTyped'
  BY <1>1, PromptAssumption DEF Prompt, Show, Waiting, TurnTyped
<1>4. FutureTyped'
  BY <1>1, PromptAssumption DEF Prompt, Show, NoApproval, menuVars, Waiting, Results,
     FutureTyped, ShownTyped, TurnTyped
<1>5. ShownTyped'
  BY <1>1, PromptAssumption DEF Prompt, Show, NoApproval, menuVars, ShownTyped
<1>6. LeftTyped'
  BY <1>1, SpendTyped DEF Show, roundVars, menuVars, shownVars, doneVars, LeftTyped
<1>7. AtPrompt'
  BY <1>1, PromptAssumption DEF Prompt, Show, roundVars, Waiting, AtPrompt, TurnTyped
<1>8. PayloadOfRound'
  BY <1>1, PromptAssumption DEF Prompt, Show, roundVars, Waiting, PayloadOfRound,
     RoundTyped, AtPrompt, TurnTyped
<1>9. NotAsked'
  BY <1>1, PromptAssumption DEF Prompt, Show, NoApproval, roundVars, menuVars, Waiting,
     Results, NotAsked, RoundTyped, FutureTyped, TurnTyped, ShownTyped, AtPrompt,
     PayloadOfRound, NoMenuYet
<1>10. NoMenuYet'
  BY <1>1, PromptAssumption DEF Prompt, Show, NoApproval, roundVars, menuVars, Waiting,
     Results, NoMenuYet, RoundTyped, FutureTyped, TurnTyped, ShownTyped, AtPrompt,
     DeferredIsPending
<1>11. GrantedFirst'
  BY <1>1, PromptAssumption DEF Prompt, Show, NoApproval, roundVars, menuVars, doneVars,
     Waiting, Results, GrantedFirst, RoundTyped, FutureTyped, TurnTyped, ShownTyped,
     AtPrompt, DoneTyped
<1>12. DeferredIsPending'
  <2>1. p \notin screen
    BY <1>1 DEF RoundTyped, PayloadOfRound, NotAsked, NoMenuYet, AtPrompt, Prompt
  <2>2. deferred = None /\ ~held
    BY <1>1 DEF Show, NoApproval, DeferredIsPending
  <2>3. held' = held
    BY DEF Show, menuVars
  <2>4. deferred' # None => deferred' = p /\ approval' = p /\ screen' = screen
    BY <2>2 DEF Show
  <2> QED
    BY <2>1, <2>2, <2>3, <2>4, PromptAssumption DEF DeferredIsPending
<1>13. RemovedIsDecided'
  BY <1>1, PromptAssumption DEF Prompt, Show, NoApproval, roundVars, menuVars, Waiting,
     Results, RemovedIsDecided, FutureTyped, TurnTyped, ShownTyped, DeferredIsPending,
     AtPrompt, NoMenuYet
<1>14. ClearedAtRest'
  BY <1>1, PromptAssumption DEF Prompt, Show, roundVars, Waiting, ClearedAtRest,
     TurnTyped, AtPrompt
<1>15. AnsweredIsDone'
  BY <1>1, PromptAssumption DEF Prompt, Show, NoApproval, roundVars, menuVars, Waiting, Results,
     AnsweredIsDone, FutureTyped, TurnTyped, ShownTyped, AtPrompt, NoMenuYet, doneVars,
     FlagsTyped
<1>16. ApprovalIsShown'
  BY <1>1, PromptAssumption DEF Prompt, Show, NoApproval, roundVars, menuVars, Waiting,
     Results, ApprovalIsShown, FutureTyped, TurnTyped, ShownTyped, AtPrompt,
     DeferredIsPending, RemovedIsDecided, ClearedAtRest, NotAsked
<1>17. QuestionIsShown'
  BY <1>1, PromptAssumption DEF Prompt, Show, NoApproval, roundVars, menuVars, Waiting,
     Results, QuestionIsShown, FutureTyped, TurnTyped, ShownTyped, AtPrompt,
     AnsweredIsDone, ClearedAtRest, NotAsked
<1> QED
  BY <1>2, <1>3, <1>4, <1>5, <1>6, <1>7, <1>8, <1>9, <1>10, <1>11, <1>12, <1>13, <1>14,
     <1>15, <1>16, <1>17 DEF IInv, Typed, PromptInv

LEMMA MountQuestionStep ==
  ASSUME IInv, NEW p \in Question, p \in todo, ask = None,
         turn \in {"round", "askPoll", "askForced"}, turn # "round" => cur = p,
         MountQuestion(p)
  PROVE  IInv'
<1>1. /\ TurnTyped /\ RoundTyped /\ FlagsTyped /\ FutureTyped /\ ShownTyped /\ PumpTyped
      /\ DoneTyped /\ LeftTyped /\ AtPrompt /\ PayloadOfRound /\ NotAsked /\ NoMenuYet
      /\ GrantedFirst /\ DeferredIsPending /\ RemovedIsDecided /\ ClearedAtRest
      /\ AnsweredIsDone /\ ApprovalIsShown /\ QuestionIsShown
  BY DEF IInv, Typed, PromptInv
<1>2. RoundTyped' /\ FlagsTyped' /\ PumpTyped' /\ DoneTyped'
  BY <1>1 DEF MountQuestion, roundVars, menuVars, shownVars, doneVars, RoundTyped,
     FlagsTyped, PumpTyped, DoneTyped
<1>3. TurnTyped'
  BY <1>1, PromptAssumption DEF Prompt, MountQuestion, Waiting, TurnTyped
<1>4. FutureTyped'
  BY <1>1, PromptAssumption DEF Prompt, MountQuestion, menuVars, Waiting, Results,
     FutureTyped, ShownTyped, TurnTyped
<1>5. ShownTyped'
  BY <1>1, PromptAssumption DEF Prompt, MountQuestion, menuVars, ShownTyped
<1>6. LeftTyped'
  BY <1>1, SpendTyped DEF MountQuestion, roundVars, menuVars, shownVars, doneVars,
     LeftTyped
<1>7. AtPrompt'
  BY <1>1, PromptAssumption DEF Prompt, MountQuestion, roundVars, Waiting, AtPrompt,
     TurnTyped
<1>8. PayloadOfRound'
  BY <1>1, PromptAssumption DEF Prompt, MountQuestion, roundVars, Waiting, PayloadOfRound,
     RoundTyped, AtPrompt, TurnTyped
<1>9. NotAsked'
  BY <1>1, PromptAssumption DEF Prompt, MountQuestion, roundVars, menuVars, Waiting,
     Results, NotAsked, RoundTyped, FutureTyped, TurnTyped, ShownTyped, AtPrompt,
     PayloadOfRound, NoMenuYet
<1>10. NoMenuYet'
  BY <1>1, PromptAssumption DEF Prompt, MountQuestion, roundVars, menuVars, Waiting,
     Results, NoMenuYet, RoundTyped, FutureTyped, TurnTyped, ShownTyped, AtPrompt,
     DeferredIsPending
<1>11. GrantedFirst'
  BY <1>1, PromptAssumption DEF Prompt, MountQuestion, roundVars, menuVars, doneVars,
     Waiting, Results, GrantedFirst, RoundTyped, FutureTyped, TurnTyped, ShownTyped,
     AtPrompt, DoneTyped
<1>12. DeferredIsPending'
  BY <1>1, PromptAssumption DEF Prompt, MountQuestion, roundVars, menuVars, Waiting,
     Results, DeferredIsPending, FutureTyped, TurnTyped, ShownTyped, NoMenuYet,
     RemovedIsDecided, AtPrompt
<1>13. RemovedIsDecided'
  BY <1>1, PromptAssumption DEF Prompt, MountQuestion, roundVars, menuVars, Waiting,
     Results, RemovedIsDecided, FutureTyped, TurnTyped, ShownTyped, DeferredIsPending,
     AtPrompt, NoMenuYet
<1>14. ClearedAtRest'
  BY <1>1, PromptAssumption DEF Prompt, MountQuestion, roundVars, Waiting, ClearedAtRest,
     TurnTyped, AtPrompt
<1>15. AnsweredIsDone'
  <2>1. future[p] = "none"
    BY <1>1 DEF Prompt, RoundTyped, PayloadOfRound, NotAsked
  <2>2. sent' = sent /\ astray' = astray /\ turn' = "awaitAnswer"
    BY DEF MountQuestion, menuVars, doneVars
  <2>3. turn # "idle" /\ sent \ astray = {}
    BY <1>1, PromptAssumption DEF AnsweredIsDone, FlagsTyped, Prompt
  <2>4. ASSUME NEW q \in sent PROVE future'[q] \notin {"none", "open"}
    BY <1>1, <2>1, <2>4, PromptAssumption DEF Prompt, MountQuestion, AnsweredIsDone, FlagsTyped,
       FutureTyped
  <2> QED
    BY <2>2, <2>3, <2>4 DEF AnsweredIsDone
<1>16. ApprovalIsShown'
  BY <1>1, PromptAssumption DEF Prompt, MountQuestion, roundVars, menuVars, Waiting,
     Results, ApprovalIsShown, FutureTyped, TurnTyped, ShownTyped, AtPrompt,
     DeferredIsPending, RemovedIsDecided, ClearedAtRest, NotAsked
<1>17. QuestionIsShown'
  BY <1>1, PromptAssumption DEF Prompt, MountQuestion, roundVars, menuVars, Waiting,
     Results, QuestionIsShown, FutureTyped, TurnTyped, ShownTyped, AtPrompt,
     AnsweredIsDone, ClearedAtRest, NotAsked
<1> QED
  BY <1>2, <1>3, <1>4, <1>5, <1>6, <1>7, <1>8, <1>9, <1>10, <1>11, <1>12, <1>13, <1>14,
     <1>15, <1>16, <1>17 DEF IInv, Typed, PromptInv

LEMMA StartTurnStep ==
  ASSUME IInv, StartTurn
  PROVE  IInv'
<1>1. /\ TurnTyped /\ RoundTyped /\ FlagsTyped /\ FutureTyped /\ ShownTyped /\ PumpTyped
      /\ DoneTyped /\ LeftTyped /\ AtPrompt /\ PayloadOfRound /\ NotAsked /\ NoMenuYet
      /\ GrantedFirst /\ DeferredIsPending /\ RemovedIsDecided /\ ClearedAtRest
      /\ AnsweredIsDone /\ ApprovalIsShown /\ QuestionIsShown
  BY DEF IInv, Typed, PromptInv
<1>2. /\ RoundTyped' /\ FlagsTyped' /\ FutureTyped' /\ ShownTyped' /\ PumpTyped'
      /\ DoneTyped' /\ NoMenuYet' /\ GrantedFirst' /\ DeferredIsPending'
      /\ RemovedIsDecided'
  BY <1>1 DEF StartTurn, roundVars, menuVars, shownVars, doneVars, RoundTyped, FlagsTyped,
     FutureTyped, ShownTyped, PumpTyped, DoneTyped, NoMenuYet, GrantedFirst,
     DeferredIsPending, RemovedIsDecided
<1>3. TurnTyped'
  BY <1>1, PromptAssumption DEF Prompt, StartTurn, Waiting, TurnTyped
<1>4. LeftTyped'
  BY <1>1, SpendTyped DEF StartTurn, roundVars, menuVars, shownVars, doneVars, LeftTyped
<1>5. AtPrompt'
  BY <1>1, PromptAssumption DEF Prompt, StartTurn, roundVars, Waiting, AtPrompt, TurnTyped
<1>6. PayloadOfRound'
  BY <1>1, PromptAssumption DEF Prompt, StartTurn, roundVars, Waiting, PayloadOfRound,
     RoundTyped, AtPrompt, TurnTyped
<1>7. NotAsked'
  BY <1>1, PromptAssumption DEF Prompt, StartTurn, roundVars, menuVars, shownVars,
     Waiting, Results, NotAsked, RoundTyped, FutureTyped, TurnTyped, ShownTyped, AtPrompt,
     PayloadOfRound, NoMenuYet
<1>8. ClearedAtRest'
  BY <1>1, PromptAssumption DEF Prompt, StartTurn, Free, roundVars, Waiting,
     ClearedAtRest, TurnTyped, AtPrompt
<1>9. AnsweredIsDone'
  BY <1>1, PromptAssumption DEF Prompt, StartTurn, roundVars, menuVars, shownVars,
     Waiting, Results, AnsweredIsDone, FutureTyped, TurnTyped, ShownTyped, AtPrompt,
     NoMenuYet
<1>10. ApprovalIsShown'
  BY <1>1, PromptAssumption DEF Prompt, StartTurn, Free, roundVars, menuVars, shownVars,
     Waiting, Results, ApprovalIsShown, FutureTyped, TurnTyped, ShownTyped, AtPrompt,
     DeferredIsPending, RemovedIsDecided, ClearedAtRest, NotAsked
<1>11. QuestionIsShown'
  BY <1>1, PromptAssumption DEF Prompt, StartTurn, Free, roundVars, menuVars, shownVars,
     Waiting, Results, QuestionIsShown, FutureTyped, TurnTyped, ShownTyped, AtPrompt,
     AnsweredIsDone, ClearedAtRest, NotAsked
<1> QED
  BY <1>2, <1>3, <1>4, <1>5, <1>6, <1>7, <1>8, <1>9, <1>10, <1>11 DEF IInv, Typed,
     PromptInv

LEMMA StreamEndsStep ==
  ASSUME IInv, StreamEnds
  PROVE  IInv'
<1>1. /\ TurnTyped /\ RoundTyped /\ FlagsTyped /\ FutureTyped /\ ShownTyped /\ PumpTyped
      /\ DoneTyped /\ LeftTyped /\ AtPrompt /\ PayloadOfRound /\ NotAsked /\ NoMenuYet
      /\ GrantedFirst /\ DeferredIsPending /\ RemovedIsDecided /\ ClearedAtRest
      /\ AnsweredIsDone /\ ApprovalIsShown /\ QuestionIsShown
  BY DEF IInv, Typed, PromptInv
<1>2. /\ FutureTyped' /\ ShownTyped' /\ PumpTyped' /\ DoneTyped' /\ LeftTyped'
      /\ NoMenuYet' /\ GrantedFirst' /\ DeferredIsPending' /\ RemovedIsDecided'
  BY <1>1 DEF StreamEnds, roundVars, menuVars, shownVars, doneVars, FutureTyped,
     ShownTyped, PumpTyped, DoneTyped, LeftTyped, NoMenuYet, GrantedFirst,
     DeferredIsPending, RemovedIsDecided
<1>3. TurnTyped'
  BY <1>1, PromptAssumption DEF Prompt, StreamEnds, Waiting, TurnTyped
<1>4. RoundTyped'
  <2>1. PICK as \in Raised(Approval), qs \in Raised(Question) :
          unanswered' = unanswered \cup as \cup qs /\ todo' = unanswered'
    BY DEF StreamEnds
  <2>2. as \in SUBSET Prompt /\ qs \in SUBSET Prompt
    BY DEF Raised, Fresh, Prompt
  <2>3. payload' = payload
    BY DEF StreamEnds
  <2> QED
    BY <1>1, <2>1, <2>2, <2>3 DEF RoundTyped
<1>5. FlagsTyped'
  BY <1>1, PromptAssumption DEF Prompt, StreamEnds, menuVars, FlagsTyped, doneVars
<1>6. AtPrompt'
  BY <1>1, PromptAssumption DEF Prompt, StreamEnds, Waiting, AtPrompt, TurnTyped
<1>7. PayloadOfRound'
  <2>1. \A p \in Prompt : payload[p] = "none"
    BY <1>1 DEF StreamEnds, PayloadOfRound
  <2>2. payload' = payload /\ todo' = unanswered'
    BY DEF StreamEnds
  <2> QED
    BY <1>4, <2>1, <2>2 DEF PayloadOfRound, RoundTyped
<1>8. NotAsked'
  <2>1. PICK as \in Raised(Approval), qs \in Raised(Question) :
          unanswered' = unanswered \cup as \cup qs
    BY DEF StreamEnds
  <2>2. \A p \in as \cup qs : future[p] = "none"
    BY DEF Raised, Fresh
  <2>3. turn = "stream" /\ payload' = payload /\ future' = future
    BY DEF StreamEnds
  <2> QED
    BY <1>1, <2>1, <2>2, <2>3 DEF NotAsked
<1>9. ClearedAtRest'
  BY <1>1, PromptAssumption DEF Prompt, StreamEnds, Waiting, ClearedAtRest, TurnTyped,
     AtPrompt
<1>10. AnsweredIsDone'
  BY <1>1, PromptAssumption DEF Prompt, StreamEnds, Raised, menuVars, shownVars, Fresh, Waiting,
     Results, AnsweredIsDone, FutureTyped, TurnTyped, ShownTyped, AtPrompt, NoMenuYet, doneVars,
     FlagsTyped
<1>11. ApprovalIsShown'
  BY <1>1, PromptAssumption DEF Prompt, StreamEnds, Raised, menuVars, shownVars, Fresh,
     Waiting, Results, ApprovalIsShown, FutureTyped, TurnTyped, ShownTyped, AtPrompt,
     DeferredIsPending, RemovedIsDecided, ClearedAtRest, NotAsked
<1>12. QuestionIsShown'
  BY <1>1, PromptAssumption DEF Prompt, StreamEnds, Raised, menuVars, shownVars, Fresh,
     Waiting, Results, QuestionIsShown, FutureTyped, TurnTyped, ShownTyped, AtPrompt,
     AnsweredIsDone, ClearedAtRest, NotAsked
<1> QED
  BY <1>2, <1>3, <1>4, <1>5, <1>6, <1>7, <1>8, <1>9, <1>10, <1>11, <1>12 DEF IInv, Typed,
     PromptInv

LEMMA ResumeStep ==
  ASSUME IInv, Resume
  PROVE  IInv'
<1>1. /\ TurnTyped /\ RoundTyped /\ FlagsTyped /\ FutureTyped /\ ShownTyped /\ PumpTyped
      /\ DoneTyped /\ LeftTyped /\ AtPrompt /\ PayloadOfRound /\ NotAsked /\ NoMenuYet
      /\ GrantedFirst /\ DeferredIsPending /\ RemovedIsDecided /\ ClearedAtRest
      /\ AnsweredIsDone /\ ApprovalIsShown /\ QuestionIsShown
  BY DEF IInv, Typed, PromptInv
<1>2. /\ FutureTyped' /\ ShownTyped' /\ PumpTyped' /\ LeftTyped' /\ NoMenuYet'
      /\ DeferredIsPending' /\ RemovedIsDecided'
  BY <1>1 DEF Resume, roundVars, menuVars, shownVars, doneVars, FutureTyped, ShownTyped,
     PumpTyped, LeftTyped, NoMenuYet, DeferredIsPending, RemovedIsDecided
<1>3. TurnTyped'
  BY <1>1, PromptAssumption DEF Prompt, Resume, NewRound, Waiting, TurnTyped
<1>4. RoundTyped'
  BY <1>1, PromptAssumption DEF Prompt, Resume, NewRound, RoundTyped
<1>5. FlagsTyped'
  BY <1>1, PromptAssumption DEF Prompt, Resume, Halts, NewRound, menuVars, FlagsTyped
<1>6. DoneTyped'
  BY <1>1, PromptAssumption DEF Prompt, Resume, NewRound, menuVars, shownVars, DoneTyped,
     RoundTyped, ShownTyped, GrantedFirst
<1>7. AtPrompt'
  BY <1>1, PromptAssumption DEF Prompt, Resume, NewRound, Waiting, AtPrompt, TurnTyped
<1>8. PayloadOfRound'
  BY <1>1, PromptAssumption DEF Prompt, Resume, NewRound, Waiting, PayloadOfRound,
     RoundTyped, AtPrompt, TurnTyped
<1>9. NotAsked'
  BY <1>1, PromptAssumption DEF Prompt, Resume, NewRound, menuVars, shownVars, Waiting,
     Results, NotAsked, RoundTyped, FutureTyped, TurnTyped, ShownTyped, AtPrompt,
     PayloadOfRound, NoMenuYet
<1>10. GrantedFirst'
  BY <1>1, PromptAssumption DEF Prompt, Resume, NewRound, menuVars, shownVars, Waiting,
     Results, GrantedFirst, RoundTyped, FutureTyped, TurnTyped, ShownTyped, AtPrompt,
     DoneTyped
<1>11. ClearedAtRest'
  BY <1>1, PromptAssumption DEF Prompt, Resume, NewRound, Waiting, ClearedAtRest,
     TurnTyped, AtPrompt
<1>12. AnsweredIsDone'
  BY <1>1, PromptAssumption DEF Prompt, Resume, NewRound, menuVars, shownVars, Waiting,
     Results, AnsweredIsDone, FutureTyped, TurnTyped, ShownTyped, AtPrompt, NoMenuYet
<1>13. ApprovalIsShown'
  BY <1>1, PromptAssumption DEF Prompt, Resume, NewRound, menuVars, shownVars, Waiting,
     Results, ApprovalIsShown, FutureTyped, TurnTyped, ShownTyped, AtPrompt,
     DeferredIsPending, RemovedIsDecided, ClearedAtRest, NotAsked
<1>14. QuestionIsShown'
  BY <1>1, PromptAssumption DEF Prompt, Resume, NewRound, menuVars, shownVars, Waiting,
     Results, QuestionIsShown, FutureTyped, TurnTyped, ShownTyped, AtPrompt,
     AnsweredIsDone, ClearedAtRest, NotAsked
<1> QED
  BY <1>2, <1>3, <1>4, <1>5, <1>6, <1>7, <1>8, <1>9, <1>10, <1>11, <1>12, <1>13, <1>14 DEF
     IInv, Typed, PromptInv

LEMMA CleanedUpStep ==
  ASSUME IInv, CleanedUp
  PROVE  IInv'
<1>1. /\ TurnTyped /\ RoundTyped /\ FlagsTyped /\ FutureTyped /\ ShownTyped /\ PumpTyped
      /\ DoneTyped /\ LeftTyped /\ AtPrompt /\ PayloadOfRound /\ NotAsked /\ NoMenuYet
      /\ GrantedFirst /\ DeferredIsPending /\ RemovedIsDecided /\ ClearedAtRest
      /\ AnsweredIsDone /\ ApprovalIsShown /\ QuestionIsShown
  BY DEF IInv, Typed, PromptInv
<1>2. /\ FutureTyped' /\ ShownTyped' /\ PumpTyped' /\ DoneTyped' /\ LeftTyped'
      /\ NoMenuYet' /\ DeferredIsPending' /\ RemovedIsDecided'
  BY <1>1 DEF CleanedUp, roundVars, menuVars, shownVars, doneVars, FutureTyped,
     ShownTyped, PumpTyped, DoneTyped, LeftTyped, NoMenuYet, DeferredIsPending,
     RemovedIsDecided
<1>3. TurnTyped'
  BY <1>1, PromptAssumption DEF Prompt, CleanedUp, NewRound, Waiting, TurnTyped
<1>4. RoundTyped'
  BY <1>1, PromptAssumption DEF Prompt, CleanedUp, NewRound, RoundTyped
<1>5. FlagsTyped'
  BY <1>1, PromptAssumption DEF Prompt, CleanedUp, NewRound, menuVars, FlagsTyped, doneVars
<1>6. AtPrompt'
  BY <1>1, PromptAssumption DEF Prompt, CleanedUp, NewRound, Waiting, AtPrompt, TurnTyped
<1>7. PayloadOfRound'
  BY <1>1, PromptAssumption DEF Prompt, CleanedUp, NewRound, Waiting, PayloadOfRound,
     RoundTyped, AtPrompt, TurnTyped
<1>8. NotAsked'
  BY <1>1, PromptAssumption DEF Prompt, CleanedUp, NewRound, menuVars, shownVars, Waiting,
     Results, NotAsked, RoundTyped, FutureTyped, TurnTyped, ShownTyped, AtPrompt,
     PayloadOfRound, NoMenuYet
<1>9. GrantedFirst'
  BY <1>1, PromptAssumption DEF Prompt, CleanedUp, NewRound, menuVars, shownVars,
     doneVars, Waiting, Results, GrantedFirst, RoundTyped, FutureTyped, TurnTyped,
     ShownTyped, AtPrompt, DoneTyped
<1>10. ClearedAtRest'
  BY <1>1, PromptAssumption DEF Prompt, CleanedUp, NewRound, Waiting, ClearedAtRest,
     TurnTyped, AtPrompt
<1>11. AnsweredIsDone'
  BY <1>1, PromptAssumption DEF Prompt, CleanedUp, NewRound, menuVars, shownVars, Waiting,
     Results, AnsweredIsDone, FutureTyped, TurnTyped, ShownTyped, AtPrompt, NoMenuYet
<1>12. ApprovalIsShown'
  BY <1>1, PromptAssumption DEF Prompt, CleanedUp, NewRound, menuVars, shownVars, Waiting,
     Results, ApprovalIsShown, FutureTyped, TurnTyped, ShownTyped, AtPrompt,
     DeferredIsPending, RemovedIsDecided, ClearedAtRest, NotAsked
<1>13. QuestionIsShown'
  BY <1>1, PromptAssumption DEF Prompt, CleanedUp, NewRound, menuVars, shownVars, Waiting,
     Results, QuestionIsShown, FutureTyped, TurnTyped, ShownTyped, AtPrompt,
     AnsweredIsDone, ClearedAtRest, NotAsked
<1> QED
  BY <1>2, <1>3, <1>4, <1>5, <1>6, <1>7, <1>8, <1>9, <1>10, <1>11, <1>12, <1>13 DEF IInv,
     Typed, PromptInv

LEMMA ApproveUnaskedStep ==
  ASSUME IInv, NEW p \in Approval, ApproveUnasked(p)
  PROVE  IInv'
<1>1. /\ TurnTyped /\ RoundTyped /\ FlagsTyped /\ FutureTyped /\ ShownTyped /\ PumpTyped
      /\ DoneTyped /\ LeftTyped /\ AtPrompt /\ PayloadOfRound /\ NotAsked /\ NoMenuYet
      /\ GrantedFirst /\ DeferredIsPending /\ RemovedIsDecided /\ ClearedAtRest
      /\ AnsweredIsDone /\ ApprovalIsShown /\ QuestionIsShown
  BY DEF IInv, Typed, PromptInv
<1>2. /\ TurnTyped' /\ FlagsTyped' /\ ShownTyped' /\ PumpTyped' /\ LeftTyped'
      /\ ClearedAtRest'
  BY <1>1 DEF ApproveUnasked, roundVars, menuVars, shownVars, doneVars, TurnTyped,
     FlagsTyped, ShownTyped, PumpTyped, LeftTyped, ClearedAtRest
<1>3. RoundTyped'
  BY <1>1, PromptAssumption DEF Prompt, ApproveUnasked, NextCall, First, RoundTyped
<1>4. FutureTyped'
  BY <1>1, PromptAssumption DEF Prompt, ApproveUnasked, NextCall, menuVars, shownVars,
     First, Waiting, Results, FutureTyped, ShownTyped, TurnTyped
<1>5. DoneTyped'
  BY <1>1, PromptAssumption DEF Prompt, ApproveUnasked, NextCall, menuVars, shownVars,
     First, DoneTyped, RoundTyped, ShownTyped, GrantedFirst
<1>6. AtPrompt'
  BY <1>1, PromptAssumption DEF Prompt, ApproveUnasked, NextCall, First, Waiting,
     AtPrompt, TurnTyped
<1>7. PayloadOfRound'
  BY <1>1, PromptAssumption DEF Prompt, ApproveUnasked, NextCall, First, Waiting,
     PayloadOfRound, RoundTyped, AtPrompt, TurnTyped
<1>8. NotAsked'
  BY <1>1, PromptAssumption DEF Prompt, ApproveUnasked, NextCall, menuVars, shownVars,
     First, Waiting, Results, NotAsked, RoundTyped, FutureTyped, TurnTyped, ShownTyped,
     AtPrompt, PayloadOfRound, NoMenuYet
<1>9. NoMenuYet'
  BY <1>1, PromptAssumption DEF Prompt, ApproveUnasked, NextCall, menuVars, shownVars,
     First, Waiting, Results, NoMenuYet, RoundTyped, FutureTyped, TurnTyped, ShownTyped,
     AtPrompt, DeferredIsPending
<1>10. GrantedFirst'
  BY <1>1, PromptAssumption DEF Prompt, ApproveUnasked, NextCall, menuVars, shownVars,
     First, Waiting, Results, GrantedFirst, RoundTyped, FutureTyped, TurnTyped,
     ShownTyped, AtPrompt, DoneTyped
<1>11. DeferredIsPending'
  BY <1>1, PromptAssumption DEF Prompt, ApproveUnasked, NextCall, menuVars, shownVars,
     First, Waiting, Results, DeferredIsPending, FutureTyped, TurnTyped, ShownTyped,
     NoMenuYet, RemovedIsDecided, AtPrompt
<1>12. RemovedIsDecided'
  BY <1>1, PromptAssumption DEF Prompt, ApproveUnasked, NextCall, menuVars, shownVars,
     First, Waiting, Results, RemovedIsDecided, FutureTyped, TurnTyped, ShownTyped,
     DeferredIsPending, AtPrompt, NoMenuYet
<1>13. AnsweredIsDone'
  BY <1>1, PromptAssumption DEF Prompt, ApproveUnasked, NextCall, menuVars, shownVars,
     First, Waiting, Results, AnsweredIsDone, FutureTyped, TurnTyped, ShownTyped,
     AtPrompt, NoMenuYet
<1>14. ApprovalIsShown'
  BY <1>1, PromptAssumption DEF Prompt, ApproveUnasked, NextCall, menuVars, shownVars,
     First, Waiting, Results, ApprovalIsShown, FutureTyped, TurnTyped, ShownTyped,
     AtPrompt, DeferredIsPending, RemovedIsDecided, ClearedAtRest, NotAsked
<1>15. QuestionIsShown'
  BY <1>1, PromptAssumption DEF Prompt, ApproveUnasked, NextCall, menuVars, shownVars,
     First, Waiting, Results, QuestionIsShown, FutureTyped, TurnTyped, ShownTyped,
     AtPrompt, AnsweredIsDone, ClearedAtRest, NotAsked
<1> QED
  BY <1>2, <1>3, <1>4, <1>5, <1>6, <1>7, <1>8, <1>9, <1>10, <1>11, <1>12, <1>13, <1>14,
     <1>15 DEF IInv, Typed, PromptInv

LEMMA ApproveListedStep ==
  ASSUME IInv, NEW p \in Approval, ApproveListed(p)
  PROVE  IInv'
<1>1. /\ TurnTyped /\ RoundTyped /\ FlagsTyped /\ FutureTyped /\ ShownTyped /\ PumpTyped
      /\ DoneTyped /\ LeftTyped /\ AtPrompt /\ PayloadOfRound /\ NotAsked /\ NoMenuYet
      /\ GrantedFirst /\ DeferredIsPending /\ RemovedIsDecided /\ ClearedAtRest
      /\ AnsweredIsDone /\ ApprovalIsShown /\ QuestionIsShown
  BY DEF IInv, Typed, PromptInv
<1>2. ShownTyped' /\ PumpTyped' /\ LeftTyped'
  BY <1>1 DEF ApproveListed, roundVars, menuVars, shownVars, doneVars, ShownTyped,
     PumpTyped, LeftTyped
<1>3. TurnTyped'
  BY <1>1, PromptAssumption DEF Prompt, ApproveListed, NextCall, Settle, First, Waiting,
     TurnTyped
<1>4. RoundTyped'
  BY <1>1, PromptAssumption DEF Prompt, ApproveListed, NextCall, Settle, First, RoundTyped
<1>5. FlagsTyped'
  BY <1>1, PromptAssumption DEF Prompt, ApproveListed, NextCall, Settle, menuVars, First,
     FlagsTyped
<1>6. FutureTyped'
  BY <1>1, PromptAssumption DEF Prompt, ApproveListed, NextCall, Settle, menuVars,
     shownVars, First, Waiting, Results, FutureTyped, ShownTyped, TurnTyped
<1>7. DoneTyped'
  BY <1>1, PromptAssumption DEF Prompt, ApproveListed, NextCall, Settle, menuVars,
     shownVars, First, DoneTyped, RoundTyped, ShownTyped, GrantedFirst
<1>8. AtPrompt'
  BY <1>1, PromptAssumption DEF Prompt, ApproveListed, NextCall, Settle, First, Waiting,
     AtPrompt, TurnTyped
<1>9. PayloadOfRound'
  BY <1>1, PromptAssumption DEF Prompt, ApproveListed, NextCall, Settle, First, Waiting,
     PayloadOfRound, RoundTyped, AtPrompt, TurnTyped
<1>10. NotAsked'
  BY <1>1, PromptAssumption DEF Prompt, ApproveListed, NextCall, Settle, menuVars,
     shownVars, First, Waiting, Results, NotAsked, RoundTyped, FutureTyped, TurnTyped,
     ShownTyped, AtPrompt, PayloadOfRound, NoMenuYet
<1>11. NoMenuYet'
  BY <1>1, PromptAssumption DEF Prompt, ApproveListed, NextCall, Settle, menuVars,
     shownVars, First, Waiting, Results, NoMenuYet, RoundTyped, FutureTyped, TurnTyped,
     ShownTyped, AtPrompt, DeferredIsPending
<1>12. GrantedFirst'
  BY <1>1, PromptAssumption DEF Prompt, ApproveListed, NextCall, Settle, menuVars,
     shownVars, First, Waiting, Results, GrantedFirst, RoundTyped, FutureTyped, TurnTyped,
     ShownTyped, AtPrompt, DoneTyped
<1>13. DeferredIsPending'
  BY <1>1, PromptAssumption DEF Prompt, ApproveListed, NextCall, Settle, menuVars,
     shownVars, First, Waiting, Results, DeferredIsPending, FutureTyped, TurnTyped,
     ShownTyped, NoMenuYet, RemovedIsDecided, AtPrompt
<1>14. RemovedIsDecided'
  BY <1>1, PromptAssumption DEF Prompt, ApproveListed, NextCall, Settle, menuVars,
     shownVars, First, Waiting, Results, RemovedIsDecided, FutureTyped, TurnTyped,
     ShownTyped, DeferredIsPending, AtPrompt, NoMenuYet
<1>15. ClearedAtRest'
  BY <1>1, PromptAssumption DEF Prompt, ApproveListed, NextCall, Settle, First, Waiting,
     ClearedAtRest, TurnTyped, AtPrompt
<1>16. AnsweredIsDone'
  BY <1>1, PromptAssumption DEF Prompt, ApproveListed, NextCall, Settle, menuVars,
     shownVars, First, Waiting, Results, AnsweredIsDone, FutureTyped, TurnTyped,
     ShownTyped, AtPrompt, NoMenuYet
<1>17. ApprovalIsShown'
  BY <1>1, PromptAssumption DEF Prompt, ApproveListed, NextCall, Settle, menuVars,
     shownVars, First, Waiting, Results, ApprovalIsShown, FutureTyped, TurnTyped,
     ShownTyped, AtPrompt, DeferredIsPending, RemovedIsDecided, ClearedAtRest, NotAsked
<1>18. QuestionIsShown'
  BY <1>1, PromptAssumption DEF Prompt, ApproveListed, NextCall, Settle, menuVars,
     shownVars, First, Waiting, Results, QuestionIsShown, FutureTyped, TurnTyped,
     ShownTyped, AtPrompt, AnsweredIsDone, ClearedAtRest, NotAsked
<1> QED
  BY <1>2, <1>3, <1>4, <1>5, <1>6, <1>7, <1>8, <1>9, <1>10, <1>11, <1>12, <1>13, <1>14,
     <1>15, <1>16, <1>17, <1>18 DEF IInv, Typed, PromptInv

LEMMA PollStep ==
  ASSUME IInv, NEW p \in todo, turn = "round", turn' \in {"poll", "askPoll"}, cur' = p,
         turn' = "poll" => p \in Approval, turn' = "askPoll" => p \in Question,
         UNCHANGED <<roundVars, auto, future, menuVars, shownVars, pump, doneVars, left>>
  PROVE  IInv'
<1>1. /\ TurnTyped /\ RoundTyped /\ AtPrompt /\ PayloadOfRound /\ NotAsked
      /\ ApprovalIsShown /\ QuestionIsShown /\ AnsweredIsDone /\ ClearedAtRest
  BY DEF IInv, Typed, PromptInv
<1>2. /\ RoundTyped' /\ FlagsTyped' /\ FutureTyped' /\ ShownTyped' /\ PumpTyped' /\ DoneTyped'
      /\ LeftTyped' /\ NoMenuYet' /\ GrantedFirst' /\ DeferredIsPending' /\ RemovedIsDecided'
  BY DEF IInv, Typed, PromptInv, roundVars, menuVars, shownVars, doneVars, RoundTyped, FlagsTyped,
     FutureTyped, ShownTyped, PumpTyped, DoneTyped, LeftTyped, NoMenuYet, GrantedFirst,
     DeferredIsPending, RemovedIsDecided
<1>3. TurnTyped' /\ AtPrompt'
  BY <1>1 DEF TurnTyped, RoundTyped, AtPrompt, Waiting, roundVars
<1>4. PayloadOfRound' /\ NotAsked'
  BY <1>1 DEF PayloadOfRound, NotAsked, roundVars
<1>5. ClearedAtRest' /\ AnsweredIsDone' /\ ApprovalIsShown' /\ QuestionIsShown'
  BY <1>1 DEF ClearedAtRest, AnsweredIsDone, ApprovalIsShown, QuestionIsShown, menuVars,
     shownVars, doneVars, FlagsTyped
<1> QED
  BY <1>2, <1>3, <1>4, <1>5 DEF IInv, Typed, PromptInv

LEMMA RequestApprovalStep ==
  ASSUME IInv, NEW p \in Approval, RequestApproval(p)
  PROVE  IInv'
<1>1. p \in todo /\ turn = "round"
  BY DEF RequestApproval, NextCall, First
<1>2. CASE NoApproval
  BY <1>1, <1>2, ShowStep DEF RequestApproval
<1>3. CASE ~NoApproval
  BY <1>1, <1>3, PollStep DEF RequestApproval
<1> QED
  BY <1>2, <1>3

LEMMA PollEndsStep ==
  ASSUME IInv, PollEnds
  PROVE  IInv'
<1>1. cur \in Approval /\ cur \in todo /\ turn = "poll" /\ Show(cur)
  BY DEF IInv, PromptInv, AtPrompt, PollEnds, Waiting
<1> QED
  BY <1>1, ShowStep

LEMMA DecisionStep ==
  ASSUME IInv, Decision
  PROVE  IInv'
<1>1. /\ TurnTyped /\ RoundTyped /\ FlagsTyped /\ FutureTyped /\ ShownTyped /\ PumpTyped
      /\ DoneTyped /\ LeftTyped /\ AtPrompt /\ PayloadOfRound /\ NotAsked /\ NoMenuYet
      /\ GrantedFirst /\ DeferredIsPending /\ RemovedIsDecided /\ ClearedAtRest
      /\ AnsweredIsDone /\ ApprovalIsShown /\ QuestionIsShown
  BY DEF IInv, Typed, PromptInv
<1>2. /\ FutureTyped' /\ ShownTyped' /\ PumpTyped' /\ DoneTyped' /\ LeftTyped'
      /\ NoMenuYet' /\ DeferredIsPending' /\ RemovedIsDecided'
  BY <1>1 DEF Decision, roundVars, menuVars, shownVars, doneVars, FutureTyped, ShownTyped,
     PumpTyped, DoneTyped, LeftTyped, NoMenuYet, DeferredIsPending, RemovedIsDecided
<1>3. TurnTyped'
  BY <1>1, PromptAssumption DEF Prompt, Decision, Settle, Verdict, Waiting, TurnTyped
<1>4. RoundTyped'
  BY <1>1, PromptAssumption DEF Prompt, Decision, Settle, Verdict, RoundTyped
<1>5. FlagsTyped'
  BY <1>1, PromptAssumption DEF Prompt, Decision, Settle, Verdict, menuVars, FlagsTyped,
     doneVars
<1>6. AtPrompt'
  BY <1>1, PromptAssumption DEF Prompt, Decision, Settle, Verdict, Waiting, AtPrompt,
     TurnTyped
<1>7. PayloadOfRound'
  BY <1>1, PromptAssumption DEF Prompt, Decision, Settle, Verdict, Waiting,
     PayloadOfRound, RoundTyped, AtPrompt, TurnTyped
<1>8. NotAsked'
  BY <1>1, PromptAssumption DEF Prompt, Decision, Settle, Verdict, menuVars, shownVars,
     Waiting, Results, NotAsked, RoundTyped, FutureTyped, TurnTyped, ShownTyped, AtPrompt,
     PayloadOfRound, NoMenuYet
<1>9. GrantedFirst'
  BY <1>1, PromptAssumption DEF Prompt, Decision, Settle, Verdict, menuVars, shownVars,
     doneVars, Waiting, Results, GrantedFirst, RoundTyped, FutureTyped, TurnTyped,
     ShownTyped, AtPrompt, DoneTyped
<1>10. ClearedAtRest'
  BY <1>1, PromptAssumption DEF Prompt, Decision, Settle, Verdict, Waiting, ClearedAtRest,
     TurnTyped, AtPrompt
<1>11. AnsweredIsDone'
  BY <1>1, PromptAssumption DEF Prompt, Decision, Settle, Verdict, menuVars, shownVars, Waiting,
     Results, AnsweredIsDone, FutureTyped, TurnTyped, ShownTyped, AtPrompt, NoMenuYet, doneVars,
     FlagsTyped
<1>12. ApprovalIsShown'
  BY <1>1, PromptAssumption DEF Prompt, Decision, Settle, Verdict, menuVars, shownVars,
     Waiting, Results, ApprovalIsShown, FutureTyped, TurnTyped, ShownTyped, AtPrompt,
     DeferredIsPending, RemovedIsDecided, ClearedAtRest, NotAsked
<1>13. QuestionIsShown'
  BY <1>1, PromptAssumption DEF Prompt, Decision, Settle, Verdict, menuVars, shownVars,
     Waiting, Results, QuestionIsShown, FutureTyped, TurnTyped, ShownTyped, AtPrompt,
     AnsweredIsDone, ClearedAtRest, NotAsked
<1> QED
  BY <1>2, <1>3, <1>4, <1>5, <1>6, <1>7, <1>8, <1>9, <1>10, <1>11, <1>12, <1>13 DEF IInv,
     Typed, PromptInv

LEMMA NoDecisionStep ==
  ASSUME IInv, NoDecision
  PROVE  IInv'
<1>1. /\ TurnTyped /\ RoundTyped /\ FlagsTyped /\ FutureTyped /\ ShownTyped /\ PumpTyped
      /\ DoneTyped /\ LeftTyped /\ AtPrompt /\ PayloadOfRound /\ NotAsked /\ NoMenuYet
      /\ GrantedFirst /\ DeferredIsPending /\ RemovedIsDecided /\ ClearedAtRest
      /\ AnsweredIsDone /\ ApprovalIsShown /\ QuestionIsShown
  BY DEF IInv, Typed, PromptInv
<1>2. /\ RoundTyped' /\ FlagsTyped' /\ FutureTyped' /\ ShownTyped' /\ PumpTyped'
      /\ DoneTyped' /\ LeftTyped' /\ NoMenuYet' /\ GrantedFirst' /\ DeferredIsPending'
      /\ RemovedIsDecided'
  BY <1>1 DEF NoDecision, roundVars, menuVars, shownVars, doneVars, RoundTyped,
     FlagsTyped, FutureTyped, ShownTyped, PumpTyped, DoneTyped, LeftTyped, NoMenuYet,
     GrantedFirst, DeferredIsPending, RemovedIsDecided
<1>3. TurnTyped'
  BY <1>1, PromptAssumption DEF Prompt, NoDecision, Waiting, TurnTyped
<1>4. AtPrompt'
  BY <1>1, PromptAssumption DEF Prompt, NoDecision, roundVars, Waiting, AtPrompt,
     TurnTyped
<1>5. PayloadOfRound'
  BY <1>1, PromptAssumption DEF Prompt, NoDecision, roundVars, Waiting, PayloadOfRound,
     RoundTyped, AtPrompt, TurnTyped
<1>6. NotAsked'
  BY <1>1, PromptAssumption DEF Prompt, NoDecision, roundVars, menuVars, shownVars,
     Waiting, Results, NotAsked, RoundTyped, FutureTyped, TurnTyped, ShownTyped, AtPrompt,
     PayloadOfRound, NoMenuYet
<1>7. ClearedAtRest'
  BY <1>1, PromptAssumption DEF Prompt, NoDecision, roundVars, Waiting, ClearedAtRest,
     TurnTyped, AtPrompt
<1>8. AnsweredIsDone'
  BY <1>1, PromptAssumption DEF Prompt, NoDecision, roundVars, menuVars, shownVars, Waiting,
     Results, AnsweredIsDone, FutureTyped, TurnTyped, ShownTyped, AtPrompt, NoMenuYet, doneVars,
     FlagsTyped
<1>9. ApprovalIsShown'
  BY <1>1, PromptAssumption DEF Prompt, NoDecision, roundVars, menuVars, shownVars,
     Waiting, Results, ApprovalIsShown, FutureTyped, TurnTyped, ShownTyped, AtPrompt,
     DeferredIsPending, RemovedIsDecided, ClearedAtRest, NotAsked
<1>10. QuestionIsShown'
  BY <1>1, PromptAssumption DEF Prompt, NoDecision, roundVars, menuVars, shownVars,
     Waiting, Results, QuestionIsShown, FutureTyped, TurnTyped, ShownTyped, AtPrompt,
     AnsweredIsDone, ClearedAtRest, NotAsked
<1> QED
  BY <1>2, <1>3, <1>4, <1>5, <1>6, <1>7, <1>8, <1>9, <1>10 DEF IInv, Typed, PromptInv

LEMMA DeferredShowsStep ==
  ASSUME IInv, DeferredShows
  PROVE  IInv'
<1>1. /\ TurnTyped /\ RoundTyped /\ FlagsTyped /\ FutureTyped /\ ShownTyped /\ PumpTyped
      /\ DoneTyped /\ LeftTyped /\ AtPrompt /\ PayloadOfRound /\ NotAsked /\ NoMenuYet
      /\ GrantedFirst /\ DeferredIsPending /\ RemovedIsDecided /\ ClearedAtRest
      /\ AnsweredIsDone /\ ApprovalIsShown /\ QuestionIsShown
  BY DEF IInv, Typed, PromptInv
<1>2. /\ TurnTyped' /\ RoundTyped' /\ PumpTyped' /\ DoneTyped' /\ AtPrompt'
      /\ PayloadOfRound' /\ ClearedAtRest'
  BY <1>1 DEF DeferredShows, roundVars, menuVars, shownVars, doneVars, TurnTyped,
     RoundTyped, PumpTyped, DoneTyped, AtPrompt, PayloadOfRound, ClearedAtRest
<1>3. FlagsTyped'
  BY <1>1, PromptAssumption DEF Prompt, DeferredShows, Gone, Unless, roundVars, FlagsTyped,
     doneVars, menuVars
<1>4. FutureTyped'
  BY <1>1, PromptAssumption DEF Prompt, DeferredShows, Gone, Unless, Waiting, Results,
     FutureTyped, ShownTyped, TurnTyped
<1>5. ShownTyped'
  BY <1>1, PromptAssumption DEF Prompt, DeferredShows, Gone, Unless, ShownTyped
<1>6. LeftTyped'
  BY <1>1, SpendTyped DEF DeferredShows, roundVars, menuVars, shownVars, doneVars,
     LeftTyped
<1>7. NotAsked'
  BY <1>1, PromptAssumption DEF Prompt, DeferredShows, Gone, Unless, roundVars, Waiting,
     Results, NotAsked, RoundTyped, FutureTyped, TurnTyped, ShownTyped, AtPrompt,
     PayloadOfRound, NoMenuYet
<1>8. NoMenuYet'
  BY <1>1, PromptAssumption DEF Prompt, DeferredShows, Gone, Unless, roundVars, Waiting,
     Results, NoMenuYet, RoundTyped, FutureTyped, TurnTyped, ShownTyped, AtPrompt,
     DeferredIsPending
<1>9. GrantedFirst'
  BY <1>1, PromptAssumption DEF Prompt, DeferredShows, Gone, Unless, roundVars, doneVars,
     Waiting, Results, GrantedFirst, RoundTyped, FutureTyped, TurnTyped, ShownTyped,
     AtPrompt, DoneTyped
<1>10. DeferredIsPending'
  BY <1>1, PromptAssumption DEF Prompt, DeferredShows, Gone, Unless, roundVars, Waiting,
     Results, DeferredIsPending, FutureTyped, TurnTyped, ShownTyped, NoMenuYet,
     RemovedIsDecided, AtPrompt
<1>11. RemovedIsDecided'
  BY <1>1, PromptAssumption DEF Prompt, DeferredShows, Gone, Unless, roundVars, Waiting,
     Results, RemovedIsDecided, FutureTyped, TurnTyped, ShownTyped, DeferredIsPending,
     AtPrompt, NoMenuYet
<1>12. AnsweredIsDone'
  BY <1>1, PromptAssumption DEF Prompt, DeferredShows, Gone, Unless, roundVars, Waiting,
     Results, AnsweredIsDone, FutureTyped, TurnTyped, ShownTyped, AtPrompt, NoMenuYet, doneVars,
     FlagsTyped, menuVars
<1>13. ApprovalIsShown'
  BY <1>1, PromptAssumption DEF Prompt, DeferredShows, Gone, Unless, roundVars, Waiting,
     Results, ApprovalIsShown, FutureTyped, TurnTyped, ShownTyped, AtPrompt,
     DeferredIsPending, RemovedIsDecided, ClearedAtRest, NotAsked
<1>14. QuestionIsShown'
  BY <1>1, PromptAssumption DEF Prompt, DeferredShows, Gone, Unless, roundVars, Waiting,
     Results, QuestionIsShown, FutureTyped, TurnTyped, ShownTyped, AtPrompt, AnsweredIsDone,
     ClearedAtRest, NotAsked, doneVars
<1> QED
  BY <1>2, <1>3, <1>4, <1>5, <1>6, <1>7, <1>8, <1>9, <1>10, <1>11, <1>12, <1>13, <1>14 DEF
     IInv, Typed, PromptInv

LEMMA RequestAnswerStep ==
  ASSUME IInv, NEW p \in Question, RequestAnswer(p)
  PROVE  IInv'
<1>1. p \in todo /\ turn = "round"
  BY DEF RequestAnswer, First
<1>2. CASE NoQuestion
  <2>1. ask = None
    BY <1>2 DEF NoQuestion
  <2> QED
    BY <1>1, <1>2, <2>1, MountQuestionStep DEF RequestAnswer
<1>3. CASE ~NoQuestion
  BY <1>1, <1>3, PollStep DEF RequestAnswer
<1> QED
  BY <1>2, <1>3

LEMMA AskPollEndsStep ==
  ASSUME IInv, AskPollEnds
  PROVE  IInv'
<1>1. cur \in Question /\ cur \in todo /\ turn = "askPoll" /\ MountQuestion(cur)
  BY DEF IInv, PromptInv, AtPrompt, AskPollEnds, Waiting
<1>2. ask = None
  BY DEF AskPollEnds, NoQuestion
<1> QED
  BY <1>1, <1>2, MountQuestionStep

LEMMA AskPollTimesOutStep ==
  ASSUME IInv, AskPollTimesOut
  PROVE  IInv'
<1>1. /\ TurnTyped /\ RoundTyped /\ FlagsTyped /\ FutureTyped /\ ShownTyped /\ PumpTyped
      /\ DoneTyped /\ LeftTyped /\ AtPrompt /\ PayloadOfRound /\ NotAsked /\ NoMenuYet
      /\ GrantedFirst /\ DeferredIsPending /\ RemovedIsDecided /\ ClearedAtRest
      /\ AnsweredIsDone /\ ApprovalIsShown /\ QuestionIsShown
  BY DEF IInv, Typed, PromptInv
<1>2. RoundTyped' /\ PumpTyped' /\ DoneTyped' /\ LeftTyped'
  BY <1>1 DEF AskPollTimesOut, roundVars, menuVars, shownVars, doneVars, RoundTyped,
     PumpTyped, DoneTyped, LeftTyped
<1>3. TurnTyped'
  BY <1>1, PromptAssumption DEF Prompt, AskPollTimesOut, Waiting, TurnTyped
<1>4. FlagsTyped'
  BY <1>1, PromptAssumption DEF Prompt, AskPollTimesOut, Dismiss, roundVars, FlagsTyped,
     doneVars, menuVars, ShownTyped, Quits
<1>5. FutureTyped'
  BY <1>1, PromptAssumption DEF Prompt, AskPollTimesOut, Dismissed, Quits, Dismiss,
     Waiting, Results, FutureTyped, ShownTyped, TurnTyped
<1>6. ShownTyped'
  BY <1>1, PromptAssumption DEF Prompt, AskPollTimesOut, Quits, Dismiss, ShownTyped
<1>7. AtPrompt'
  BY <1>1, PromptAssumption DEF Prompt, AskPollTimesOut, roundVars, Waiting, AtPrompt,
     TurnTyped
<1>8. PayloadOfRound'
  BY <1>1, PromptAssumption DEF Prompt, AskPollTimesOut, roundVars, Waiting,
     PayloadOfRound, RoundTyped, AtPrompt, TurnTyped
<1>9. NotAsked'
  BY <1>1, PromptAssumption DEF Prompt, AskPollTimesOut, Dismissed, Quits, Dismiss,
     roundVars, Waiting, Results, NotAsked, RoundTyped, FutureTyped, TurnTyped,
     ShownTyped, AtPrompt, PayloadOfRound, NoMenuYet
<1>10. NoMenuYet'
  BY <1>1, PromptAssumption DEF Prompt, AskPollTimesOut, Dismissed, Quits, Dismiss,
     roundVars, Waiting, Results, NoMenuYet, RoundTyped, FutureTyped, TurnTyped,
     ShownTyped, AtPrompt, DeferredIsPending
<1>11. GrantedFirst'
  BY <1>1, PromptAssumption DEF Prompt, AskPollTimesOut, Dismissed, Quits, Dismiss,
     roundVars, doneVars, Waiting, Results, GrantedFirst, RoundTyped, FutureTyped,
     TurnTyped, ShownTyped, AtPrompt, DoneTyped
<1>12. DeferredIsPending'
  BY <1>1, PromptAssumption DEF Prompt, AskPollTimesOut, Dismissed, Quits, Dismiss,
     roundVars, Waiting, Results, DeferredIsPending, FutureTyped, TurnTyped, ShownTyped,
     NoMenuYet, RemovedIsDecided, AtPrompt
<1>13. RemovedIsDecided'
  BY <1>1, PromptAssumption DEF Prompt, AskPollTimesOut, Dismissed, Quits, Dismiss,
     roundVars, Waiting, Results, RemovedIsDecided, FutureTyped, TurnTyped, ShownTyped,
     DeferredIsPending, AtPrompt, NoMenuYet
<1>14. ClearedAtRest'
  BY <1>1, PromptAssumption DEF Prompt, AskPollTimesOut, roundVars, Waiting,
     ClearedAtRest, TurnTyped, AtPrompt
<1>15. AnsweredIsDone'
  BY <1>1, PromptAssumption DEF Prompt, AskPollTimesOut, Dismissed, Quits, Dismiss, roundVars,
     Waiting, Results, AnsweredIsDone, FutureTyped, TurnTyped, ShownTyped, AtPrompt, NoMenuYet,
     doneVars, FlagsTyped, menuVars
<1>16. ApprovalIsShown'
  BY <1>1, PromptAssumption DEF Prompt, AskPollTimesOut, Dismissed, Quits, Dismiss,
     roundVars, Waiting, Results, ApprovalIsShown, FutureTyped, TurnTyped, ShownTyped,
     AtPrompt, DeferredIsPending, RemovedIsDecided, ClearedAtRest, NotAsked
<1>17. QuestionIsShown'
  BY <1>1, PromptAssumption DEF Prompt, AskPollTimesOut, Dismissed, Quits,
     Dismiss, roundVars, Waiting, Results, QuestionIsShown, FutureTyped, TurnTyped,
     ShownTyped, AtPrompt, AnsweredIsDone, ClearedAtRest, NotAsked
<1> QED
  BY <1>2, <1>3, <1>4, <1>5, <1>6, <1>7, <1>8, <1>9, <1>10, <1>11, <1>12, <1>13, <1>14,
     <1>15, <1>16, <1>17 DEF IInv, Typed, PromptInv

LEMMA AskForcedStep ==
  ASSUME IInv, AskForced
  PROVE  IInv'
<1>1. cur \in Question /\ cur \in todo /\ turn = "askForced" /\ ask = None /\ MountQuestion(cur)
  BY DEF IInv, PromptInv, AtPrompt, AskForced, AnsweredIsDone, Waiting
<1> QED
  BY <1>1, MountQuestionStep

LEMMA AnswerStep ==
  ASSUME IInv, Answer
  PROVE  IInv'
<1>1. /\ TurnTyped /\ RoundTyped /\ FlagsTyped /\ FutureTyped /\ ShownTyped /\ PumpTyped
      /\ DoneTyped /\ LeftTyped /\ AtPrompt /\ PayloadOfRound /\ NotAsked /\ NoMenuYet
      /\ GrantedFirst /\ DeferredIsPending /\ RemovedIsDecided /\ ClearedAtRest
      /\ AnsweredIsDone /\ ApprovalIsShown /\ QuestionIsShown
  BY DEF IInv, Typed, PromptInv
<1>2. /\ FutureTyped' /\ ShownTyped' /\ PumpTyped' /\ DoneTyped' /\ LeftTyped'
      /\ NoMenuYet' /\ DeferredIsPending' /\ RemovedIsDecided'
  BY <1>1 DEF Answer, roundVars, menuVars, shownVars, doneVars, FutureTyped, ShownTyped,
     PumpTyped, DoneTyped, LeftTyped, NoMenuYet, DeferredIsPending, RemovedIsDecided
<1>3. TurnTyped'
  BY <1>1, PromptAssumption DEF Prompt, Answer, Settle, Waiting, TurnTyped
<1>4. RoundTyped'
  BY <1>1, PromptAssumption DEF Prompt, Answer, Settle, RoundTyped
<1>5. FlagsTyped'
  BY <1>1, PromptAssumption DEF Prompt, Answer, Settle, menuVars, FlagsTyped, doneVars
<1>6. AtPrompt'
  BY <1>1, PromptAssumption DEF Prompt, Answer, Settle, Waiting, AtPrompt, TurnTyped
<1>7. PayloadOfRound'
  BY <1>1, PromptAssumption DEF Prompt, Answer, Settle, Waiting, PayloadOfRound,
     RoundTyped, AtPrompt, TurnTyped
<1>8. NotAsked'
  BY <1>1, PromptAssumption DEF Prompt, Answer, Settle, menuVars, shownVars, Waiting,
     Results, NotAsked, RoundTyped, FutureTyped, TurnTyped, ShownTyped, AtPrompt,
     PayloadOfRound, NoMenuYet
<1>9. GrantedFirst'
  BY <1>1, PromptAssumption DEF Prompt, Answer, Settle, menuVars, shownVars, doneVars,
     Waiting, Results, GrantedFirst, RoundTyped, FutureTyped, TurnTyped, ShownTyped,
     AtPrompt, DoneTyped
<1>10. ClearedAtRest'
  BY <1>1, PromptAssumption DEF Prompt, Answer, Settle, Waiting, ClearedAtRest, TurnTyped,
     AtPrompt
<1>11. AnsweredIsDone'
  BY <1>1, PromptAssumption DEF Prompt, Answer, Settle, menuVars, shownVars, Waiting, Results,
     AnsweredIsDone, FutureTyped, TurnTyped, ShownTyped, AtPrompt, NoMenuYet, doneVars,
     FlagsTyped
<1>12. ApprovalIsShown'
  BY <1>1, PromptAssumption DEF Prompt, Answer, Settle, menuVars, shownVars, Waiting,
     Results, ApprovalIsShown, FutureTyped, TurnTyped, ShownTyped, AtPrompt,
     DeferredIsPending, RemovedIsDecided, ClearedAtRest, NotAsked
<1>13. QuestionIsShown'
  BY <1>1, PromptAssumption DEF Prompt, Answer, Settle, menuVars, shownVars, Waiting,
     Results, QuestionIsShown, FutureTyped, TurnTyped, ShownTyped, AtPrompt,
     AnsweredIsDone, ClearedAtRest, NotAsked
<1> QED
  BY <1>2, <1>3, <1>4, <1>5, <1>6, <1>7, <1>8, <1>9, <1>10, <1>11, <1>12, <1>13 DEF IInv,
     Typed, PromptInv

LEMMA ChooseStep ==
  ASSUME IInv, NEW d \in {"approve", "auto", "reject"}, Choose(d)
  PROVE  IInv'
<1>1. /\ TurnTyped /\ RoundTyped /\ FlagsTyped /\ FutureTyped /\ ShownTyped /\ PumpTyped
      /\ DoneTyped /\ LeftTyped /\ AtPrompt /\ PayloadOfRound /\ NotAsked /\ NoMenuYet
      /\ GrantedFirst /\ DeferredIsPending /\ RemovedIsDecided /\ ClearedAtRest
      /\ AnsweredIsDone /\ ApprovalIsShown /\ QuestionIsShown
  BY DEF IInv, Typed, PromptInv
<1>2. /\ TurnTyped' /\ RoundTyped' /\ PumpTyped' /\ LeftTyped' /\ AtPrompt'
      /\ PayloadOfRound' /\ ClearedAtRest'
  BY <1>1 DEF Choose, roundVars, menuVars, shownVars, doneVars, TurnTyped, RoundTyped,
     PumpTyped, LeftTyped, AtPrompt, PayloadOfRound, ClearedAtRest
<1>3. FlagsTyped'
  BY <1>1, PromptAssumption DEF Prompt, Choose, Select, roundVars, Unless, FlagsTyped
<1>4. FutureTyped'
  BY <1>1, PromptAssumption DEF Prompt, Choose, Select, shownVars, Unless, Waiting,
     Results, FutureTyped, ShownTyped, TurnTyped
<1>5. ShownTyped'
  BY <1>1, PromptAssumption DEF Prompt, Choose, Select, shownVars, Unless, ShownTyped
<1>6. DoneTyped'
  BY <1>1, PromptAssumption DEF Prompt, Choose, Select, roundVars, shownVars, Unless,
     DoneTyped, RoundTyped, ShownTyped, GrantedFirst
<1>7. NotAsked'
  BY <1>1, PromptAssumption DEF Prompt, Choose, Select, roundVars, shownVars, Unless,
     Waiting, Results, NotAsked, RoundTyped, FutureTyped, TurnTyped, ShownTyped, AtPrompt,
     PayloadOfRound, NoMenuYet
<1>8. NoMenuYet'
  BY <1>1, PromptAssumption DEF Prompt, Choose, Select, roundVars, shownVars, Unless,
     Waiting, Results, NoMenuYet, RoundTyped, FutureTyped, TurnTyped, ShownTyped,
     AtPrompt, DeferredIsPending
<1>9. GrantedFirst'
  BY <1>1, PromptAssumption DEF Prompt, Choose, Select, roundVars, shownVars, Unless,
     Waiting, Results, GrantedFirst, RoundTyped, FutureTyped, TurnTyped, ShownTyped,
     AtPrompt, DoneTyped
<1>10. DeferredIsPending'
  BY <1>1, PromptAssumption DEF Prompt, Choose, Free, Select, roundVars, shownVars,
     Unless, Waiting, Results, DeferredIsPending, FutureTyped, TurnTyped, ShownTyped,
     NoMenuYet, RemovedIsDecided, AtPrompt
<1>11. RemovedIsDecided'
  BY <1>1, PromptAssumption DEF Prompt, Choose, Free, Select, roundVars, shownVars,
     Unless, Waiting, Results, RemovedIsDecided, FutureTyped, TurnTyped, ShownTyped,
     DeferredIsPending, AtPrompt, NoMenuYet
<1>12. AnsweredIsDone'
  BY <1>1, PromptAssumption DEF Prompt, Choose, Select, roundVars, shownVars, Unless,
     Waiting, Results, AnsweredIsDone, FutureTyped, TurnTyped, ShownTyped, AtPrompt,
     NoMenuYet
<1>13. ApprovalIsShown'
  BY <1>1, PromptAssumption DEF Prompt, Choose, Free, Select, roundVars, shownVars,
     Unless, Waiting, Results, ApprovalIsShown, FutureTyped, TurnTyped, ShownTyped,
     AtPrompt, DeferredIsPending, RemovedIsDecided, ClearedAtRest, NotAsked
<1>14. QuestionIsShown'
  BY <1>1, PromptAssumption DEF Prompt, Choose, Free, Select, roundVars, shownVars,
     Unless, Waiting, Results, QuestionIsShown, FutureTyped, TurnTyped, ShownTyped,
     AtPrompt, AnsweredIsDone, ClearedAtRest, NotAsked
<1> QED
  BY <1>2, <1>3, <1>4, <1>5, <1>6, <1>7, <1>8, <1>9, <1>10, <1>11, <1>12, <1>13, <1>14 DEF
     IInv, Typed, PromptInv

LEMMA OpenReasonStep ==
  ASSUME IInv, OpenReason
  PROVE  IInv'
<1>1. /\ TurnTyped /\ RoundTyped /\ FlagsTyped /\ FutureTyped /\ ShownTyped /\ PumpTyped
      /\ DoneTyped /\ LeftTyped /\ AtPrompt /\ PayloadOfRound /\ NotAsked /\ NoMenuYet
      /\ GrantedFirst /\ DeferredIsPending /\ RemovedIsDecided /\ ClearedAtRest
      /\ AnsweredIsDone /\ ApprovalIsShown /\ QuestionIsShown
  BY DEF IInv, Typed, PromptInv
<1>2. /\ TurnTyped' /\ RoundTyped' /\ FlagsTyped' /\ FutureTyped' /\ PumpTyped'
      /\ DoneTyped' /\ AtPrompt' /\ PayloadOfRound' /\ NotAsked' /\ NoMenuYet'
      /\ GrantedFirst' /\ DeferredIsPending' /\ RemovedIsDecided' /\ ClearedAtRest'
      /\ AnsweredIsDone' /\ ApprovalIsShown' /\ QuestionIsShown'
  BY <1>1 DEF OpenReason, roundVars, menuVars, shownVars, doneVars, TurnTyped, RoundTyped,
     FlagsTyped, FutureTyped, PumpTyped, DoneTyped, AtPrompt, PayloadOfRound, NotAsked,
     NoMenuYet, GrantedFirst, DeferredIsPending, RemovedIsDecided, ClearedAtRest,
     AnsweredIsDone, ApprovalIsShown, QuestionIsShown
<1>3. ShownTyped'
  BY <1>1, PromptAssumption DEF Prompt, OpenReason, shownVars, ShownTyped
<1>4. LeftTyped'
  BY <1>1, SpendTyped DEF OpenReason, roundVars, menuVars, shownVars, doneVars, LeftTyped
<1> QED
  BY <1>2, <1>3, <1>4 DEF IInv, Typed, PromptInv

LEMMA SubmitReasonStep ==
  ASSUME IInv, NEW d \in {"reject", "amend"}, SubmitReason(d)
  PROVE  IInv'
<1>1. /\ TurnTyped /\ RoundTyped /\ FlagsTyped /\ FutureTyped /\ ShownTyped /\ PumpTyped
      /\ DoneTyped /\ LeftTyped /\ AtPrompt /\ PayloadOfRound /\ NotAsked /\ NoMenuYet
      /\ GrantedFirst /\ DeferredIsPending /\ RemovedIsDecided /\ ClearedAtRest
      /\ AnsweredIsDone /\ ApprovalIsShown /\ QuestionIsShown
  BY DEF IInv, Typed, PromptInv
<1>2. /\ TurnTyped' /\ RoundTyped' /\ PumpTyped' /\ DoneTyped' /\ LeftTyped'
      /\ AtPrompt' /\ PayloadOfRound' /\ ClearedAtRest'
  BY <1>1 DEF SubmitReason, roundVars, menuVars, shownVars, doneVars, TurnTyped,
     RoundTyped, PumpTyped, DoneTyped, LeftTyped, AtPrompt, PayloadOfRound, ClearedAtRest
<1>3. FlagsTyped'
  BY <1>1, PromptAssumption DEF Prompt, SubmitReason, Select, roundVars, Unless, FlagsTyped,
     doneVars, menuVars
<1>4. FutureTyped'
  BY <1>1, PromptAssumption DEF Prompt, SubmitReason, Select, shownVars, Unless, Waiting,
     Results, FutureTyped, ShownTyped, TurnTyped
<1>5. ShownTyped'
  BY <1>1, PromptAssumption DEF Prompt, SubmitReason, Select, shownVars, Unless,
     ShownTyped
<1>6. NotAsked'
  BY <1>1, PromptAssumption DEF Prompt, SubmitReason, Select, roundVars, shownVars,
     Unless, Waiting, Results, NotAsked, RoundTyped, FutureTyped, TurnTyped, ShownTyped,
     AtPrompt, PayloadOfRound, NoMenuYet
<1>7. NoMenuYet'
  BY <1>1, PromptAssumption DEF Prompt, SubmitReason, Select, roundVars, shownVars,
     Unless, Waiting, Results, NoMenuYet, RoundTyped, FutureTyped, TurnTyped, ShownTyped,
     AtPrompt, DeferredIsPending
<1>8. GrantedFirst'
  BY <1>1, PromptAssumption DEF Prompt, SubmitReason, Select, roundVars, shownVars,
     doneVars, Unless, Waiting, Results, GrantedFirst, RoundTyped, FutureTyped, TurnTyped,
     ShownTyped, AtPrompt, DoneTyped
<1>9. DeferredIsPending'
  BY <1>1, PromptAssumption DEF Prompt, SubmitReason, Free, Select, roundVars, shownVars,
     Unless, Waiting, Results, DeferredIsPending, FutureTyped, TurnTyped, ShownTyped,
     NoMenuYet, RemovedIsDecided, AtPrompt
<1>10. RemovedIsDecided'
  BY <1>1, PromptAssumption DEF Prompt, SubmitReason, Free, Select, roundVars, shownVars,
     Unless, Waiting, Results, RemovedIsDecided, FutureTyped, TurnTyped, ShownTyped,
     DeferredIsPending, AtPrompt, NoMenuYet
<1>11. AnsweredIsDone'
  BY <1>1, PromptAssumption DEF Prompt, SubmitReason, Select, roundVars, shownVars, Unless,
     Waiting, Results, AnsweredIsDone, FutureTyped, TurnTyped, ShownTyped, AtPrompt, NoMenuYet,
     doneVars, FlagsTyped, menuVars
<1>12. ApprovalIsShown'
  BY <1>1, PromptAssumption DEF Prompt, SubmitReason, Free, Select, roundVars, shownVars,
     Unless, Waiting, Results, ApprovalIsShown, FutureTyped, TurnTyped, ShownTyped,
     AtPrompt, DeferredIsPending, RemovedIsDecided, ClearedAtRest, NotAsked
<1>13. QuestionIsShown'
  BY <1>1, PromptAssumption DEF Prompt, SubmitReason, Free, Select, roundVars, shownVars,
     Unless, Waiting, Results, QuestionIsShown, FutureTyped, TurnTyped, ShownTyped, AtPrompt,
     AnsweredIsDone, ClearedAtRest, NotAsked, doneVars
<1> QED
  BY <1>2, <1>3, <1>4, <1>5, <1>6, <1>7, <1>8, <1>9, <1>10, <1>11, <1>12, <1>13 DEF IInv,
     Typed, PromptInv

LEMMA AnswerQuestionStep ==
  ASSUME IInv, AnswerQuestion
  PROVE  IInv'
<1>1. /\ TurnTyped /\ RoundTyped /\ FlagsTyped /\ FutureTyped /\ ShownTyped /\ PumpTyped
      /\ DoneTyped /\ LeftTyped /\ AtPrompt /\ PayloadOfRound /\ NotAsked /\ NoMenuYet
      /\ GrantedFirst /\ DeferredIsPending /\ RemovedIsDecided /\ ClearedAtRest
      /\ AnsweredIsDone /\ ApprovalIsShown /\ QuestionIsShown
  BY DEF IInv, Typed, PromptInv
<1>2. /\ TurnTyped' /\ RoundTyped' /\ PumpTyped' /\ DoneTyped' /\ LeftTyped'
      /\ AtPrompt' /\ PayloadOfRound' /\ ClearedAtRest'
  BY <1>1 DEF AnswerQuestion, roundVars, menuVars, shownVars, doneVars, TurnTyped,
     RoundTyped, PumpTyped, DoneTyped, LeftTyped, AtPrompt, PayloadOfRound, ClearedAtRest
<1>3. FlagsTyped'
  BY <1>1, PromptAssumption DEF Prompt, AnswerQuestion, Unless, roundVars, FlagsTyped, doneVars,
     menuVars, ShownTyped
<1>4. FutureTyped'
  BY <1>1, PromptAssumption DEF Prompt, AnswerQuestion, Unless, shownVars, Waiting,
     Results, FutureTyped, ShownTyped, TurnTyped
<1>5. ShownTyped'
  BY <1>1, PromptAssumption DEF Prompt, AnswerQuestion, Unless, shownVars, ShownTyped
<1>6. NotAsked'
  BY <1>1, PromptAssumption DEF Prompt, AnswerQuestion, Unless, roundVars, shownVars,
     Waiting, Results, NotAsked, RoundTyped, FutureTyped, TurnTyped, ShownTyped, AtPrompt,
     PayloadOfRound, NoMenuYet
<1>7. NoMenuYet'
  BY <1>1, PromptAssumption DEF Prompt, AnswerQuestion, Unless, roundVars, shownVars,
     Waiting, Results, NoMenuYet, RoundTyped, FutureTyped, TurnTyped, ShownTyped,
     AtPrompt, DeferredIsPending
<1>8. GrantedFirst'
  BY <1>1, PromptAssumption DEF Prompt, AnswerQuestion, Unless, roundVars, shownVars,
     doneVars, Waiting, Results, GrantedFirst, RoundTyped, FutureTyped, TurnTyped,
     ShownTyped, AtPrompt, DoneTyped
<1>9. DeferredIsPending'
  BY <1>1, PromptAssumption DEF Prompt, AnswerQuestion, Free, Unless, roundVars,
     shownVars, Waiting, Results, DeferredIsPending, FutureTyped, TurnTyped, ShownTyped,
     NoMenuYet, RemovedIsDecided, AtPrompt
<1>10. RemovedIsDecided'
  BY <1>1, PromptAssumption DEF Prompt, AnswerQuestion, Free, Unless, roundVars,
     shownVars, Waiting, Results, RemovedIsDecided, FutureTyped, TurnTyped, ShownTyped,
     DeferredIsPending, AtPrompt, NoMenuYet
<1>11. AnsweredIsDone'
  BY <1>1, PromptAssumption DEF Prompt, AnswerQuestion, Unless, roundVars, shownVars, Waiting,
     Results, AnsweredIsDone, FutureTyped, TurnTyped, ShownTyped, AtPrompt, NoMenuYet, doneVars,
     FlagsTyped, menuVars
<1>12. ApprovalIsShown'
  BY <1>1, PromptAssumption DEF Prompt, AnswerQuestion, Free, Unless, roundVars,
     shownVars, Waiting, Results, ApprovalIsShown, FutureTyped, TurnTyped, ShownTyped,
     AtPrompt, DeferredIsPending, RemovedIsDecided, ClearedAtRest, NotAsked
<1>13. QuestionIsShown'
  BY <1>1, PromptAssumption DEF Prompt, AnswerQuestion, Free, Unless, roundVars, shownVars,
     Waiting, Results, QuestionIsShown, FutureTyped, TurnTyped, ShownTyped, AtPrompt,
     AnsweredIsDone, ClearedAtRest, NotAsked, doneVars
<1> QED
  BY <1>2, <1>3, <1>4, <1>5, <1>6, <1>7, <1>8, <1>9, <1>10, <1>11, <1>12, <1>13 DEF IInv,
     Typed, PromptInv

LEMMA EscapeStep ==
  ASSUME IInv, Escape
  PROVE  IInv'
<1>1. /\ TurnTyped /\ RoundTyped /\ FlagsTyped /\ FutureTyped /\ ShownTyped /\ PumpTyped
      /\ DoneTyped /\ LeftTyped /\ AtPrompt /\ PayloadOfRound /\ NotAsked /\ NoMenuYet
      /\ GrantedFirst /\ DeferredIsPending /\ RemovedIsDecided /\ ClearedAtRest
      /\ AnsweredIsDone /\ ApprovalIsShown /\ QuestionIsShown
  BY DEF IInv, Typed, PromptInv
<1>2. RoundTyped' /\ PumpTyped' /\ DoneTyped'
  BY <1>1 DEF Escape, roundVars, menuVars, shownVars, doneVars, RoundTyped, PumpTyped,
     DoneTyped
<1>3. TurnTyped'
  BY <1>1, PromptAssumption DEF Prompt, Escape, Active, Cancelled, Waiting, TurnTyped
<1>4. FlagsTyped'
  BY <1>1, PromptAssumption DEF Prompt, Escape, Dismiss, menuVars, roundVars, FlagsTyped,
     doneVars, ShownTyped, Quits
<1>5. FutureTyped'
  BY <1>1, PromptAssumption DEF Prompt, Escape, Dismissed, Rejects, Dismiss, ReasonClosed,
     Quits, Active, Cancelled, menuVars, shownVars, Waiting, Results, FutureTyped,
     ShownTyped, TurnTyped
<1>6. ShownTyped'
  BY <1>1, PromptAssumption DEF Prompt, Escape, Rejects, Dismiss, ReasonClosed, Quits,
     menuVars, shownVars, ShownTyped
<1>7. LeftTyped'
  BY <1>1, SpendTyped DEF Escape, roundVars, menuVars, shownVars, doneVars, LeftTyped
<1>8. AtPrompt'
  BY <1>1, PromptAssumption DEF Prompt, Escape, Active, Cancelled, roundVars, Waiting,
     AtPrompt, TurnTyped
<1>9. PayloadOfRound'
  BY <1>1, PromptAssumption DEF Prompt, Escape, Active, Cancelled, roundVars, Waiting,
     PayloadOfRound, RoundTyped, AtPrompt, TurnTyped
<1>10. NotAsked'
  BY <1>1, PromptAssumption DEF Prompt, Escape, Dismissed, Rejects, Dismiss, ReasonClosed,
     Quits, Active, Cancelled, menuVars, roundVars, shownVars, Waiting, Results, NotAsked,
     RoundTyped, FutureTyped, TurnTyped, ShownTyped, AtPrompt, PayloadOfRound, NoMenuYet
<1>11. NoMenuYet'
  BY <1>1, PromptAssumption DEF Prompt, Escape, Dismissed, Rejects, Dismiss, ReasonClosed,
     Quits, Active, Cancelled, menuVars, roundVars, shownVars, Waiting, Results,
     NoMenuYet, RoundTyped, FutureTyped, TurnTyped, ShownTyped, AtPrompt,
     DeferredIsPending
<1>12. GrantedFirst'
  BY <1>1, PromptAssumption DEF Prompt, Escape, Dismissed, Rejects, Dismiss, ReasonClosed,
     Quits, Active, Cancelled, menuVars, roundVars, shownVars, doneVars, Waiting, Results,
     GrantedFirst, RoundTyped, FutureTyped, TurnTyped, ShownTyped, AtPrompt, DoneTyped
<1>13. DeferredIsPending'
  <2>1. UNCHANGED shownVars
    BY DEF Escape
  <2>2. \A p \in Prompt : future[p] # "open" => future'[p] # "open"
    BY <1>1 DEF Escape, Dismissed, Cancelled, FutureTyped
  <2>3. CASE held' = held
    BY <1>1, <2>1, <2>2, <2>3, PromptAssumption DEF DeferredIsPending, ShownTyped,
       shownVars, Prompt
  <2>4. CASE held' # held
    <3>1. deferred \in Rejects /\ future' = Dismissed(Rejects, {})
      BY <1>1, <2>4 DEF Escape, Dismiss, menuVars, FlagsTyped
    <3> QED
      BY <1>1, <2>1, <3>1 DEF DeferredIsPending, ShownTyped, shownVars, Rejects, Dismissed,
         Prompt
  <2> QED
    BY <2>3, <2>4
<1>14. RemovedIsDecided'
  <2>1. UNCHANGED shownVars /\ pump' = pump
    BY DEF Escape
  <2>2. \A p \in Prompt : future[p] # "open" => future'[p] # "open"
    BY <1>1 DEF Escape, Dismissed, Cancelled, FutureTyped
  <2>3. CASE decided' = decided
    BY <1>1, <2>1, <2>2, <2>3 DEF RemovedIsDecided, ShownTyped, shownVars, Prompt
  <2>4. CASE decided' # decided
    <3>1. Rejects \cap screen # {} /\ future' = Dismissed(Rejects, {})
      BY <1>1, <2>4 DEF Escape, Dismiss, menuVars, FlagsTyped
    <3>2. approval # None /\ approval \in screen /\ approval \in Rejects
      BY <3>1 DEF Rejects
    <3>3. approval # deferred
      BY <1>1, <3>2 DEF DeferredIsPending
    <3>4. future'[approval] # "open"
      BY <1>1, <3>1, <3>2 DEF Dismissed, ShownTyped, Prompt
    <3> QED
      BY <2>1, <3>2, <3>3, <3>4 DEF RemovedIsDecided, shownVars
  <2> QED
    BY <2>3, <2>4
<1>15. ClearedAtRest'
  BY <1>1, PromptAssumption DEF Prompt, Escape, Free, Active, Cancelled, roundVars,
     Waiting, ClearedAtRest, TurnTyped, AtPrompt
<1>16. AnsweredIsDone'
  BY <1>1, PromptAssumption DEF Prompt, Escape, Dismissed, Rejects, Dismiss, ReasonClosed,
     Quits, Active, Cancelled, menuVars, roundVars, shownVars, Waiting, Results, AnsweredIsDone,
     FutureTyped, TurnTyped, ShownTyped, AtPrompt, NoMenuYet, doneVars, FlagsTyped
<1>17. ApprovalIsShown'
  BY <1>1, PromptAssumption DEF Prompt, Escape, Free, Dismissed, Rejects, Dismiss,
     ReasonClosed, Quits, Active, Cancelled, menuVars, roundVars, shownVars, Waiting,
     Results, ApprovalIsShown, FutureTyped, TurnTyped, ShownTyped, AtPrompt,
     DeferredIsPending, RemovedIsDecided, ClearedAtRest, NotAsked
<1>18. QuestionIsShown'
  BY <1>1, PromptAssumption DEF Prompt, Escape, Free, Dismissed, Rejects, Dismiss, ReasonClosed,
     Quits, Active, Cancelled, menuVars, roundVars, shownVars, Waiting, Results,
     QuestionIsShown, FutureTyped, TurnTyped, ShownTyped, AtPrompt, AnsweredIsDone,
     ClearedAtRest, NotAsked, doneVars
<1> QED
  BY <1>2, <1>3, <1>4, <1>5, <1>6, <1>7, <1>8, <1>9, <1>10, <1>11, <1>12, <1>13, <1>14,
     <1>15, <1>16, <1>17, <1>18 DEF IInv, Typed, PromptInv

LEMMA ToggleAutoStep ==
  ASSUME IInv, ToggleAuto
  PROVE  IInv'
<1>1. /\ TurnTyped /\ RoundTyped /\ FlagsTyped /\ FutureTyped /\ ShownTyped /\ PumpTyped
      /\ DoneTyped /\ LeftTyped /\ AtPrompt /\ PayloadOfRound /\ NotAsked /\ NoMenuYet
      /\ GrantedFirst /\ DeferredIsPending /\ RemovedIsDecided /\ ClearedAtRest
      /\ AnsweredIsDone /\ ApprovalIsShown /\ QuestionIsShown
  BY DEF IInv, Typed, PromptInv
<1>2. /\ TurnTyped' /\ RoundTyped' /\ FutureTyped' /\ ShownTyped' /\ PumpTyped'
      /\ DoneTyped' /\ AtPrompt' /\ PayloadOfRound' /\ NotAsked' /\ NoMenuYet'
      /\ DeferredIsPending' /\ RemovedIsDecided' /\ ClearedAtRest' /\ AnsweredIsDone'
      /\ ApprovalIsShown' /\ QuestionIsShown'
  BY <1>1 DEF ToggleAuto, roundVars, menuVars, shownVars, doneVars, TurnTyped, RoundTyped,
     FutureTyped, ShownTyped, PumpTyped, DoneTyped, AtPrompt, PayloadOfRound, NotAsked,
     NoMenuYet, DeferredIsPending, RemovedIsDecided, ClearedAtRest, AnsweredIsDone,
     ApprovalIsShown, QuestionIsShown
<1>3. FlagsTyped'
  BY <1>1, PromptAssumption DEF Prompt, ToggleAuto, roundVars, menuVars, FlagsTyped, doneVars
<1>4. LeftTyped'
  BY <1>1, SpendTyped DEF ToggleAuto, roundVars, menuVars, shownVars, doneVars, LeftTyped
<1>5. GrantedFirst'
  BY <1>1, PromptAssumption DEF Prompt, ToggleAuto, roundVars, menuVars, shownVars,
     doneVars, Waiting, Results, GrantedFirst, RoundTyped, FutureTyped, TurnTyped,
     ShownTyped, AtPrompt, DoneTyped
<1> QED
  BY <1>2, <1>3, <1>4, <1>5 DEF IInv, Typed, PromptInv

LEMMA HandleDecidedStep ==
  ASSUME IInv, HandleDecided
  PROVE  IInv'
<1>1. /\ TurnTyped /\ RoundTyped /\ FlagsTyped /\ FutureTyped /\ ShownTyped /\ PumpTyped
      /\ DoneTyped /\ LeftTyped /\ AtPrompt /\ PayloadOfRound /\ NotAsked /\ NoMenuYet
      /\ GrantedFirst /\ DeferredIsPending /\ RemovedIsDecided /\ ClearedAtRest
      /\ AnsweredIsDone /\ ApprovalIsShown /\ QuestionIsShown
  BY DEF IInv, Typed, PromptInv
<1>2. /\ TurnTyped' /\ RoundTyped' /\ FutureTyped' /\ DoneTyped' /\ LeftTyped'
      /\ AtPrompt' /\ PayloadOfRound' /\ NotAsked' /\ GrantedFirst' /\ AnsweredIsDone'
  BY <1>1 DEF HandleDecided, roundVars, menuVars, shownVars, doneVars, TurnTyped,
     RoundTyped, FutureTyped, DoneTyped, LeftTyped, AtPrompt, PayloadOfRound, NotAsked,
     GrantedFirst, AnsweredIsDone
<1>3. FlagsTyped'
  BY <1>1, PromptAssumption DEF Prompt, HandleDecided, roundVars, FlagsTyped, doneVars, menuVars
<1>4. ShownTyped'
  BY <1>1, PromptAssumption DEF Prompt, HandleDecided, ShownTyped
<1>5. PumpTyped'
  BY <1>1, PromptAssumption DEF Prompt, HandleDecided, Free, PumpTyped
<1>6. NoMenuYet'
  BY <1>1, PromptAssumption DEF Prompt, HandleDecided, roundVars, Waiting, Results,
     NoMenuYet, RoundTyped, FutureTyped, TurnTyped, ShownTyped, AtPrompt,
     DeferredIsPending
<1>7. DeferredIsPending'
  BY <1>1, PromptAssumption DEF Prompt, HandleDecided, Free, roundVars, Waiting, Results,
     DeferredIsPending, FutureTyped, TurnTyped, ShownTyped, NoMenuYet, RemovedIsDecided,
     AtPrompt
<1>8. RemovedIsDecided'
  BY <1>1, PromptAssumption DEF Prompt, HandleDecided, Free, roundVars, Waiting, Results,
     RemovedIsDecided, FutureTyped, TurnTyped, ShownTyped, DeferredIsPending, AtPrompt,
     NoMenuYet
<1>9. ClearedAtRest'
  BY <1>1, PromptAssumption DEF Prompt, HandleDecided, Free, roundVars, Waiting,
     ClearedAtRest, TurnTyped, AtPrompt
<1>10. ApprovalIsShown'
  BY <1>1, PromptAssumption DEF Prompt, HandleDecided, Free, roundVars, Waiting, Results,
     ApprovalIsShown, FutureTyped, TurnTyped, ShownTyped, AtPrompt, DeferredIsPending,
     RemovedIsDecided, ClearedAtRest, NotAsked
<1>11. QuestionIsShown'
  BY <1>1, PromptAssumption DEF Prompt, HandleDecided, Free, roundVars, Waiting, Results,
     QuestionIsShown, FutureTyped, TurnTyped, ShownTyped, AtPrompt, AnsweredIsDone,
     ClearedAtRest, NotAsked, doneVars
<1> QED
  BY <1>2, <1>3, <1>4, <1>5, <1>6, <1>7, <1>8, <1>9, <1>10, <1>11 DEF IInv, Typed,
     PromptInv

LEMMA MenuRemovedStep ==
  ASSUME IInv, MenuRemoved
  PROVE  IInv'
<1>1. /\ TurnTyped /\ RoundTyped /\ FlagsTyped /\ FutureTyped /\ ShownTyped /\ PumpTyped
      /\ DoneTyped /\ LeftTyped /\ AtPrompt /\ PayloadOfRound /\ NotAsked /\ NoMenuYet
      /\ GrantedFirst /\ DeferredIsPending /\ RemovedIsDecided /\ ClearedAtRest
      /\ AnsweredIsDone /\ ApprovalIsShown /\ QuestionIsShown
  BY DEF IInv, Typed, PromptInv
<1>2. /\ TurnTyped' /\ RoundTyped' /\ FutureTyped' /\ DoneTyped' /\ LeftTyped'
      /\ AtPrompt' /\ PayloadOfRound' /\ NotAsked' /\ GrantedFirst' /\ AnsweredIsDone'
      /\ QuestionIsShown'
  BY <1>1 DEF MenuRemoved, roundVars, menuVars, shownVars, doneVars, TurnTyped,
     RoundTyped, FutureTyped, DoneTyped, LeftTyped, AtPrompt, PayloadOfRound, NotAsked,
     GrantedFirst, AnsweredIsDone, QuestionIsShown
<1>3. FlagsTyped'
  BY <1>1, PromptAssumption DEF Prompt, MenuRemoved, roundVars, FlagsTyped, doneVars, menuVars
<1>4. ShownTyped'
  BY <1>1, PromptAssumption DEF Prompt, MenuRemoved, RemovedCleared, ShownTyped
<1>5. PumpTyped'
  BY <1>1, PromptAssumption DEF Prompt, MenuRemoved, PumpTyped
<1>6. NoMenuYet'
  BY <1>1, PromptAssumption DEF Prompt, MenuRemoved, RemovedCleared, roundVars, Waiting,
     Results, NoMenuYet, RoundTyped, FutureTyped, TurnTyped, ShownTyped, AtPrompt,
     DeferredIsPending
<1>7. DeferredIsPending'
  BY <1>1, PromptAssumption DEF Prompt, MenuRemoved, RemovedCleared, roundVars, Waiting,
     Results, DeferredIsPending, FutureTyped, TurnTyped, ShownTyped, NoMenuYet,
     RemovedIsDecided, AtPrompt
<1>8. RemovedIsDecided'
  BY <1>1, PromptAssumption DEF Prompt, MenuRemoved, RemovedCleared, roundVars, Waiting,
     Results, RemovedIsDecided, FutureTyped, TurnTyped, ShownTyped, DeferredIsPending,
     AtPrompt, NoMenuYet
<1>9. ClearedAtRest'
  BY <1>1, PromptAssumption DEF Prompt, MenuRemoved, roundVars, Waiting, ClearedAtRest,
     TurnTyped, AtPrompt
<1>10. ApprovalIsShown'
  BY <1>1, PromptAssumption DEF Prompt, MenuRemoved, RemovedCleared, roundVars, Waiting,
     Results, ApprovalIsShown, FutureTyped, TurnTyped, ShownTyped, AtPrompt,
     DeferredIsPending, RemovedIsDecided, ClearedAtRest, NotAsked
<1> QED
  BY <1>2, <1>3, <1>4, <1>5, <1>6, <1>7, <1>8, <1>9, <1>10 DEF IInv, Typed, PromptInv

LEMMA HandleAnsweredStep ==
  ASSUME IInv, HandleAnswered
  PROVE  IInv'
<1>1. /\ TurnTyped /\ RoundTyped /\ FlagsTyped /\ FutureTyped /\ ShownTyped /\ PumpTyped
      /\ DoneTyped /\ LeftTyped /\ AtPrompt /\ PayloadOfRound /\ NotAsked /\ NoMenuYet
      /\ GrantedFirst /\ DeferredIsPending /\ RemovedIsDecided /\ ClearedAtRest
      /\ AnsweredIsDone /\ ApprovalIsShown /\ QuestionIsShown
  BY DEF IInv, Typed, PromptInv
<1>2. /\ TurnTyped' /\ RoundTyped' /\ FutureTyped' /\ PumpTyped' /\ DoneTyped'
      /\ LeftTyped' /\ AtPrompt' /\ PayloadOfRound' /\ NotAsked' /\ GrantedFirst'
      /\ RemovedIsDecided' /\ ClearedAtRest'
  BY <1>1 DEF HandleAnswered, roundVars, menuVars, shownVars, doneVars, TurnTyped,
     RoundTyped, FutureTyped, PumpTyped, DoneTyped, LeftTyped, AtPrompt, PayloadOfRound,
     NotAsked, GrantedFirst, RemovedIsDecided, ClearedAtRest
<1>3. FlagsTyped'
  BY <1>1, PromptAssumption DEF Prompt, HandleAnswered, roundVars, FlagsTyped, ShownTyped
<1>4. ShownTyped'
  BY <1>1, PromptAssumption DEF Prompt, HandleAnswered, ShownTyped
<1>5. NoMenuYet'
  BY <1>1, PromptAssumption DEF Prompt, HandleAnswered, roundVars, Waiting, Results,
     NoMenuYet, RoundTyped, FutureTyped, TurnTyped, ShownTyped, AtPrompt,
     DeferredIsPending
<1>6. DeferredIsPending'
  BY <1>1, PromptAssumption DEF Prompt, HandleAnswered, Free, roundVars, Waiting, Results,
     DeferredIsPending, FutureTyped, TurnTyped, ShownTyped, NoMenuYet, RemovedIsDecided,
     AtPrompt
<1>7. PICK p \in sent :
         /\ sent' = sent \ {p}
         /\ astray' = astray \cup (IF p \in astray THEN {ask} \ {None} ELSE {})
  BY DEF HandleAnswered, First
<1>8. UNCHANGED <<turn, cur, future>> /\ ask' = None /\ screen' = screen \ {ask}
  BY DEF HandleAnswered
<1>9. p \notin astray => turn = "idle" \/ ask = p
  BY <1>1, <1>7 DEF AnsweredIsDone
<1>10. AnsweredIsDone'
  <2>1. ASSUME NEW q \in sent', q \notin astray' PROVE turn = "idle"
    <3>1. q \in sent /\ q # p /\ q \notin astray
      BY <1>7, <2>1
    <3>2. turn = "idle" \/ ask = q
      BY <1>1, <3>1 DEF AnsweredIsDone
    <3>3. ask # q \/ p \notin astray
      BY <1>1, <1>7, <2>1, <3>1, PromptAssumption DEF FlagsTyped, Prompt
    <3> QED
      BY <1>9, <3>1, <3>2, <3>3
  <2>2. \A q \in sent' : future'[q] \notin {"none", "open"}
    BY <1>1, <1>7, <1>8 DEF AnsweredIsDone
  <2> QED
    BY <1>8, <2>1, <2>2 DEF AnsweredIsDone
<1>11. ApprovalIsShown'
  BY <1>1, PromptAssumption DEF Prompt, HandleAnswered, Free, roundVars, Waiting, Results,
     ApprovalIsShown, FutureTyped, TurnTyped, ShownTyped, AtPrompt, DeferredIsPending,
     RemovedIsDecided, ClearedAtRest, NotAsked
<1>12. QuestionIsShown'
  <2> SUFFICES ASSUME turn = "awaitAnswer", future[cur] = "open", cur \notin astray'
               PROVE  FALSE
    BY <1>8 DEF QuestionIsShown
  <2>1. cur \notin astray
    BY <1>7
  <2>2. ask = cur
    BY <1>1, <2>1 DEF QuestionIsShown
  <2>3. p \notin astray
    BY <1>1, <1>7, <2>2, PromptAssumption DEF AtPrompt, Prompt
  <2>4. future[p] = "open"
    BY <1>9, <2>2, <2>3
  <2> QED
    BY <1>1, <1>7, <2>4 DEF AnsweredIsDone
<1> QED
  BY <1>2, <1>3, <1>4, <1>5, <1>6, <1>10, <1>11, <1>12 DEF IInv, Typed, PromptInv

LEMMA ForceClearStep ==
  ASSUME IInv, ForceClear
  PROVE  IInv'
<1>1. /\ TurnTyped /\ RoundTyped /\ FlagsTyped /\ FutureTyped /\ ShownTyped /\ PumpTyped
      /\ DoneTyped /\ LeftTyped /\ AtPrompt /\ PayloadOfRound /\ NotAsked /\ NoMenuYet
      /\ GrantedFirst /\ DeferredIsPending /\ RemovedIsDecided /\ ClearedAtRest
      /\ AnsweredIsDone /\ ApprovalIsShown /\ QuestionIsShown
  BY DEF IInv, Typed, PromptInv
<1>2. RoundTyped' /\ DoneTyped'
  <2>1. RoundTyped'
    BY <1>1 DEF ForceClear, roundVars, RoundTyped
  <2>2. DoneTyped'
    BY <1>1 DEF ForceClear, Abandon, ShownTyped, DoneTyped
  <2> QED
    BY <2>1, <2>2
<1>3. TurnTyped'
  BY <1>1, PromptAssumption DEF Prompt, ForceClear, Cancelled, Active, Waiting, TurnTyped
<1>4. FlagsTyped'
  BY <1>1, PromptAssumption DEF Prompt, ForceClear, Dismiss, roundVars, FlagsTyped, Abandon,
     menuVars, ShownTyped, Quits
<1>5. FutureTyped'
  BY <1>1, PromptAssumption DEF Prompt, ForceClear, Cancelled, Dismissed, Rejects, Quits,
     Dismiss, ReasonClosed, shownVars, Active, Waiting, Results, FutureTyped, ShownTyped,
     TurnTyped
<1>6. ShownTyped'
  BY <1>1, PromptAssumption DEF Prompt, ForceClear, Rejects, Quits, Dismiss, ReasonClosed,
     shownVars, ShownTyped
<1>7. PumpTyped'
  BY <1>1, PromptAssumption DEF Prompt, ForceClear, Free, PumpTyped
<1>8. LeftTyped'
  BY <1>1, SpendTyped DEF ForceClear, roundVars, menuVars, shownVars, Abandon, LeftTyped
<1>9. AtPrompt'
  BY <1>1, PromptAssumption DEF Prompt, ForceClear, Cancelled, roundVars, Active, Waiting,
     AtPrompt, TurnTyped
<1>10. PayloadOfRound'
  BY <1>1, PromptAssumption DEF Prompt, ForceClear, Cancelled, roundVars, Active, Waiting,
     PayloadOfRound, RoundTyped, AtPrompt, TurnTyped
<1>11. NotAsked'
  BY <1>1, PromptAssumption DEF Prompt, ForceClear, Cancelled, Dismissed, Rejects, Quits,
     Dismiss, ReasonClosed, roundVars, shownVars, Active, Waiting, Results, NotAsked,
     RoundTyped, FutureTyped, TurnTyped, ShownTyped, AtPrompt, PayloadOfRound, NoMenuYet
<1>12. NoMenuYet'
  BY <1>1, PromptAssumption DEF Prompt, ForceClear, Cancelled, Dismissed, Rejects, Quits,
     Dismiss, ReasonClosed, roundVars, shownVars, Active, Waiting, Results, NoMenuYet,
     RoundTyped, FutureTyped, TurnTyped, ShownTyped, AtPrompt, DeferredIsPending
<1>13. GrantedFirst'
  BY <1>1, PromptAssumption DEF Prompt, ForceClear, Cancelled, Dismissed, Rejects, Quits,
     Dismiss, ReasonClosed, roundVars, shownVars, Abandon, Active, Waiting, Results,
     GrantedFirst, RoundTyped, FutureTyped, TurnTyped, ShownTyped, AtPrompt, DoneTyped
<1>14. DeferredIsPending'
  BY <1>1, PromptAssumption DEF Prompt, ForceClear, Free, Cancelled, Dismissed, Rejects,
     Quits, Dismiss, ReasonClosed, roundVars, shownVars, Active, Waiting, Results,
     DeferredIsPending, FutureTyped, TurnTyped, ShownTyped, NoMenuYet, RemovedIsDecided,
     AtPrompt
<1>15. RemovedIsDecided'
  BY <1>1, PromptAssumption DEF Prompt, ForceClear, Free, Cancelled, Dismissed, Rejects,
     Quits, Dismiss, ReasonClosed, roundVars, shownVars, Active, Waiting, Results,
     RemovedIsDecided, FutureTyped, TurnTyped, ShownTyped, DeferredIsPending, AtPrompt,
     NoMenuYet
<1>16. ClearedAtRest'
  BY <1>1, PromptAssumption DEF Prompt, ForceClear, Free, Cancelled, roundVars, Active,
     Waiting, ClearedAtRest, TurnTyped, AtPrompt
<1>17. AnsweredIsDone'
  BY <1>1, PromptAssumption DEF Prompt, ForceClear, Cancelled, Dismissed, Rejects, Quits,
     Dismiss, ReasonClosed, roundVars, shownVars, Active, Waiting, Results, AnsweredIsDone,
     FutureTyped, TurnTyped, ShownTyped, AtPrompt, NoMenuYet, Abandon, FlagsTyped, menuVars
<1>18. ApprovalIsShown'
  BY <1>1, PromptAssumption DEF Prompt, ForceClear, Free, Cancelled, Dismissed, Rejects,
     Quits, Dismiss, ReasonClosed, roundVars, shownVars, Active, Waiting, Results,
     ApprovalIsShown, FutureTyped, TurnTyped, ShownTyped, AtPrompt, DeferredIsPending,
     RemovedIsDecided, ClearedAtRest, NotAsked
<1>19. QuestionIsShown'
  BY <1>1, PromptAssumption DEF Prompt, ForceClear, Free, Cancelled, Dismissed, Rejects,
     Quits, Dismiss, ReasonClosed, roundVars, shownVars, Active, Waiting, Results,
     QuestionIsShown, FutureTyped, TurnTyped, ShownTyped, AtPrompt, AnsweredIsDone,
     ClearedAtRest, NotAsked
<1> QED
  BY <1>2, <1>3, <1>4, <1>5, <1>6, <1>7, <1>8, <1>9, <1>10, <1>11, <1>12, <1>13, <1>14,
     <1>15, <1>16, <1>17, <1>18, <1>19 DEF IInv, Typed, PromptInv

LEMMA ClearStep ==
  ASSUME IInv, Clear
  PROVE  IInv'
<1>1. /\ TurnTyped /\ RoundTyped /\ FlagsTyped /\ FutureTyped /\ ShownTyped /\ PumpTyped
      /\ DoneTyped /\ LeftTyped /\ AtPrompt /\ PayloadOfRound /\ NotAsked /\ NoMenuYet
      /\ GrantedFirst /\ DeferredIsPending /\ RemovedIsDecided /\ ClearedAtRest
      /\ AnsweredIsDone /\ ApprovalIsShown /\ QuestionIsShown
  BY DEF IInv, Typed, PromptInv
<1>2. /\ TurnTyped' /\ RoundTyped' /\ FlagsTyped' /\ FutureTyped' /\ ShownTyped'
      /\ DoneTyped' /\ AtPrompt' /\ PayloadOfRound' /\ NotAsked' /\ NoMenuYet'
      /\ GrantedFirst' /\ DeferredIsPending' /\ AnsweredIsDone' /\ ApprovalIsShown'
      /\ QuestionIsShown'
  BY <1>1 DEF Clear, roundVars, menuVars, shownVars, Abandon, TurnTyped, RoundTyped,
     FlagsTyped, FutureTyped, ShownTyped, DoneTyped, AtPrompt, PayloadOfRound, NotAsked,
     NoMenuYet, GrantedFirst, DeferredIsPending, AnsweredIsDone, ApprovalIsShown,
     QuestionIsShown
<1>3. PumpTyped'
  BY <1>1, PromptAssumption DEF Prompt, Clear, Free, PumpTyped
<1>4. LeftTyped'
  BY <1>1, SpendTyped DEF Clear, roundVars, menuVars, shownVars, Abandon, LeftTyped
<1>5. RemovedIsDecided'
  BY <1>1, PromptAssumption DEF Prompt, Clear, Free, roundVars, menuVars, shownVars,
     Waiting, Results, RemovedIsDecided, FutureTyped, TurnTyped, ShownTyped,
     DeferredIsPending, AtPrompt, NoMenuYet
<1>6. ClearedAtRest'
  BY <1>1, PromptAssumption DEF Prompt, Clear, Free, roundVars, Waiting, ClearedAtRest,
     TurnTyped, AtPrompt
<1> QED
  BY <1>2, <1>3, <1>4, <1>5, <1>6 DEF IInv, Typed, PromptInv

LEMMA ClearedStep ==
  ASSUME IInv, Cleared
  PROVE  IInv'
<1>1. /\ TurnTyped /\ RoundTyped /\ FlagsTyped /\ FutureTyped /\ ShownTyped /\ PumpTyped
      /\ DoneTyped /\ LeftTyped /\ AtPrompt /\ PayloadOfRound /\ NotAsked /\ NoMenuYet
      /\ GrantedFirst /\ DeferredIsPending /\ RemovedIsDecided /\ ClearedAtRest
      /\ AnsweredIsDone /\ ApprovalIsShown /\ QuestionIsShown
  BY DEF IInv, Typed, PromptInv
<1>2. /\ TurnTyped' /\ RoundTyped' /\ FlagsTyped' /\ FutureTyped' /\ DoneTyped'
      /\ LeftTyped' /\ AtPrompt' /\ PayloadOfRound' /\ NotAsked' /\ GrantedFirst'
      /\ AnsweredIsDone'
  BY <1>1 DEF Cleared, roundVars, menuVars, shownVars, doneVars, TurnTyped, RoundTyped,
     FlagsTyped, FutureTyped, DoneTyped, LeftTyped, AtPrompt, PayloadOfRound, NotAsked,
     GrantedFirst, AnsweredIsDone
<1>3. ShownTyped'
  BY <1>1, PromptAssumption DEF Prompt, Cleared, menuVars, ShownTyped
<1>4. PumpTyped'
  BY <1>1, PromptAssumption DEF Prompt, Cleared, PumpTyped
<1>5. NoMenuYet'
  BY <1>1, PromptAssumption DEF Prompt, Cleared, roundVars, menuVars, Waiting, Results,
     NoMenuYet, RoundTyped, FutureTyped, TurnTyped, ShownTyped, AtPrompt,
     DeferredIsPending
<1>6. DeferredIsPending'
  BY <1>1, PromptAssumption DEF Prompt, Cleared, roundVars, menuVars, Waiting, Results,
     DeferredIsPending, FutureTyped, TurnTyped, ShownTyped, NoMenuYet, RemovedIsDecided,
     AtPrompt
<1>7. RemovedIsDecided'
  BY <1>1, PromptAssumption DEF Prompt, Cleared, roundVars, menuVars, Waiting, Results,
     RemovedIsDecided, FutureTyped, TurnTyped, ShownTyped, DeferredIsPending, AtPrompt,
     NoMenuYet
<1>8. ClearedAtRest'
  BY <1>1, PromptAssumption DEF Prompt, Cleared, roundVars, Waiting, ClearedAtRest,
     TurnTyped, AtPrompt
<1>9. ApprovalIsShown'
  BY <1>1, PromptAssumption DEF Prompt, Cleared, roundVars, menuVars, Waiting, Results,
     ApprovalIsShown, FutureTyped, TurnTyped, ShownTyped, AtPrompt, DeferredIsPending,
     RemovedIsDecided, ClearedAtRest, NotAsked
<1>10. QuestionIsShown'
  BY <1>1, PromptAssumption DEF Prompt, Cleared, roundVars, menuVars, Waiting, Results,
     QuestionIsShown, FutureTyped, TurnTyped, ShownTyped, AtPrompt, AnsweredIsDone,
     ClearedAtRest, NotAsked
<1> QED
  BY <1>2, <1>3, <1>4, <1>5, <1>6, <1>7, <1>8, <1>9, <1>10 DEF IInv, Typed, PromptInv

LEMMA RestartStep ==
  ASSUME IInv, Restart
  PROVE  IInv'
<1>1. /\ TurnTyped /\ RoundTyped /\ FlagsTyped /\ FutureTyped /\ ShownTyped /\ PumpTyped
      /\ DoneTyped /\ LeftTyped /\ AtPrompt /\ PayloadOfRound /\ NotAsked /\ NoMenuYet
      /\ GrantedFirst /\ DeferredIsPending /\ RemovedIsDecided /\ ClearedAtRest
      /\ AnsweredIsDone /\ ApprovalIsShown /\ QuestionIsShown
  BY DEF IInv, Typed, PromptInv
<1>2. RoundTyped' /\ FlagsTyped' /\ ShownTyped' /\ DoneTyped'
  BY <1>1 DEF Restart, roundVars, menuVars, shownVars, doneVars, RoundTyped, FlagsTyped,
     ShownTyped, DoneTyped
<1>3. TurnTyped'
  BY <1>1, PromptAssumption DEF Prompt, Restart, Cancelled, Active, Waiting, TurnTyped
<1>4. FutureTyped'
  BY <1>1, PromptAssumption DEF Prompt, Restart, Cancelled, menuVars, shownVars, Active,
     Waiting, Results, FutureTyped, ShownTyped, TurnTyped
<1>5. PumpTyped'
  BY <1>1, PromptAssumption DEF Prompt, Restart, Free, PumpTyped
<1>6. LeftTyped'
  BY <1>1, SpendTyped DEF Restart, roundVars, menuVars, shownVars, doneVars, LeftTyped
<1>7. AtPrompt'
  BY <1>1, PromptAssumption DEF Prompt, Restart, Cancelled, roundVars, Active, Waiting,
     AtPrompt, TurnTyped
<1>8. PayloadOfRound'
  BY <1>1, PromptAssumption DEF Prompt, Restart, Cancelled, roundVars, Active, Waiting,
     PayloadOfRound, RoundTyped, AtPrompt, TurnTyped
<1>9. NotAsked'
  BY <1>1, PromptAssumption DEF Prompt, Restart, Cancelled, roundVars, menuVars,
     shownVars, Active, Waiting, Results, NotAsked, RoundTyped, FutureTyped, TurnTyped,
     ShownTyped, AtPrompt, PayloadOfRound, NoMenuYet
<1>10. NoMenuYet'
  BY <1>1, PromptAssumption DEF Prompt, Restart, Cancelled, roundVars, menuVars,
     shownVars, Active, Waiting, Results, NoMenuYet, RoundTyped, FutureTyped, TurnTyped,
     ShownTyped, AtPrompt, DeferredIsPending
<1>11. GrantedFirst'
  BY <1>1, PromptAssumption DEF Prompt, Restart, Cancelled, roundVars, menuVars,
     shownVars, doneVars, Active, Waiting, Results, GrantedFirst, RoundTyped, FutureTyped,
     TurnTyped, ShownTyped, AtPrompt, DoneTyped
<1>12. DeferredIsPending'
  BY <1>1, PromptAssumption DEF Prompt, Restart, Free, Cancelled, roundVars, menuVars,
     shownVars, Active, Waiting, Results, DeferredIsPending, FutureTyped, TurnTyped,
     ShownTyped, NoMenuYet, RemovedIsDecided, AtPrompt
<1>13. RemovedIsDecided'
  BY <1>1, PromptAssumption DEF Prompt, Restart, Free, Cancelled, roundVars, menuVars,
     shownVars, Active, Waiting, Results, RemovedIsDecided, FutureTyped, TurnTyped,
     ShownTyped, DeferredIsPending, AtPrompt, NoMenuYet
<1>14. ClearedAtRest'
  BY <1>1, PromptAssumption DEF Prompt, Restart, Free, Cancelled, roundVars, Active,
     Waiting, ClearedAtRest, TurnTyped, AtPrompt
<1>15. AnsweredIsDone'
  BY <1>1, PromptAssumption DEF Prompt, Restart, Cancelled, roundVars, menuVars, shownVars,
     Active, Waiting, Results, AnsweredIsDone, FutureTyped, TurnTyped, ShownTyped, AtPrompt,
     NoMenuYet, doneVars, FlagsTyped
<1>16. ApprovalIsShown'
  BY <1>1, PromptAssumption DEF Prompt, Restart, Free, Cancelled, roundVars, menuVars,
     shownVars, Active, Waiting, Results, ApprovalIsShown, FutureTyped, TurnTyped,
     ShownTyped, AtPrompt, DeferredIsPending, RemovedIsDecided, ClearedAtRest, NotAsked
<1>17. QuestionIsShown'
  BY <1>1, PromptAssumption DEF Prompt, Restart, Free, Cancelled, roundVars, menuVars,
     shownVars, Active, Waiting, Results, QuestionIsShown, FutureTyped, TurnTyped,
     ShownTyped, AtPrompt, AnsweredIsDone, ClearedAtRest, NotAsked
<1> QED
  BY <1>2, <1>3, <1>4, <1>5, <1>6, <1>7, <1>8, <1>9, <1>10, <1>11, <1>12, <1>13, <1>14,
     <1>15, <1>16, <1>17 DEF IInv, Typed, PromptInv

LEMMA FreedStep ==
  ASSUME IInv, Freed
  PROVE  IInv'
<1>1. /\ TurnTyped /\ RoundTyped /\ FlagsTyped /\ FutureTyped /\ ShownTyped /\ PumpTyped
      /\ DoneTyped /\ LeftTyped /\ AtPrompt /\ PayloadOfRound /\ NotAsked /\ NoMenuYet
      /\ GrantedFirst /\ DeferredIsPending /\ RemovedIsDecided /\ ClearedAtRest
      /\ AnsweredIsDone /\ ApprovalIsShown /\ QuestionIsShown
  BY DEF IInv, Typed, PromptInv
<1>2. /\ TurnTyped' /\ RoundTyped' /\ FlagsTyped' /\ FutureTyped' /\ ShownTyped'
      /\ DoneTyped' /\ LeftTyped' /\ AtPrompt' /\ PayloadOfRound' /\ NotAsked'
      /\ NoMenuYet' /\ GrantedFirst' /\ DeferredIsPending' /\ AnsweredIsDone'
      /\ ApprovalIsShown' /\ QuestionIsShown'
  BY <1>1 DEF Freed, roundVars, menuVars, shownVars, doneVars, TurnTyped, RoundTyped,
     FlagsTyped, FutureTyped, ShownTyped, DoneTyped, LeftTyped, AtPrompt, PayloadOfRound,
     NotAsked, NoMenuYet, GrantedFirst, DeferredIsPending, AnsweredIsDone,
     ApprovalIsShown, QuestionIsShown
<1>3. PumpTyped'
  BY <1>1, PromptAssumption DEF Prompt, Freed, PumpTyped
<1>4. RemovedIsDecided'
  BY <1>1, PromptAssumption DEF Prompt, Freed, roundVars, menuVars, shownVars, Waiting,
     Results, RemovedIsDecided, FutureTyped, TurnTyped, ShownTyped, DeferredIsPending,
     AtPrompt, NoMenuYet
<1>5. ClearedAtRest'
  BY <1>1, PromptAssumption DEF Prompt, Freed, roundVars, Waiting, ClearedAtRest,
     TurnTyped, AtPrompt
<1> QED
  BY <1>2, <1>3, <1>4, <1>5 DEF IInv, Typed, PromptInv

LEMMA SwapStep ==
  ASSUME IInv, Swap
  PROVE  IInv'
<1>1. /\ TurnTyped /\ RoundTyped /\ FlagsTyped /\ FutureTyped /\ ShownTyped /\ PumpTyped
      /\ DoneTyped /\ LeftTyped /\ AtPrompt /\ PayloadOfRound /\ NotAsked /\ NoMenuYet
      /\ GrantedFirst /\ DeferredIsPending /\ RemovedIsDecided /\ ClearedAtRest
      /\ AnsweredIsDone /\ ApprovalIsShown /\ QuestionIsShown
  BY DEF IInv, Typed, PromptInv
<1>2. /\ TurnTyped' /\ RoundTyped' /\ PumpTyped' /\ DoneTyped' /\ AtPrompt'
      /\ PayloadOfRound' /\ ClearedAtRest'
  <2>1. DoneTyped'
    BY <1>1 DEF Swap, Abandon, ShownTyped, DoneTyped
  <2>2. /\ TurnTyped' /\ RoundTyped' /\ PumpTyped' /\ AtPrompt' /\ PayloadOfRound'
        /\ ClearedAtRest'
    BY <1>1 DEF Swap, roundVars, TurnTyped, RoundTyped, PumpTyped, AtPrompt, PayloadOfRound,
       ClearedAtRest
  <2> QED
    BY <2>1, <2>2
<1>3. FlagsTyped'
  BY <1>1, PromptAssumption DEF Prompt, Swap, Dismiss, roundVars, FlagsTyped, Abandon,
     menuVars, ShownTyped
<1>4. FutureTyped'
  BY <1>1, PromptAssumption DEF Prompt, Swap, Dismissed, Rejects, Dismiss, ReasonClosed,
     Waiting, Results, FutureTyped, ShownTyped, TurnTyped
<1>5. ShownTyped'
  BY <1>1, PromptAssumption DEF Prompt, Swap, Rejects, Dismiss, ReasonClosed, ShownTyped
<1>6. LeftTyped'
  BY <1>1, SpendTyped DEF Swap, roundVars, menuVars, shownVars, Abandon, LeftTyped
<1>7. NotAsked'
  BY <1>1, PromptAssumption DEF Prompt, Swap, Dismissed, Rejects, Dismiss, ReasonClosed,
     roundVars, Waiting, Results, NotAsked, RoundTyped, FutureTyped, TurnTyped,
     ShownTyped, AtPrompt, PayloadOfRound, NoMenuYet
<1>8. NoMenuYet'
  BY <1>1, PromptAssumption DEF Prompt, Swap, Dismissed, Rejects, Dismiss, ReasonClosed,
     roundVars, Waiting, Results, NoMenuYet, RoundTyped, FutureTyped, TurnTyped,
     ShownTyped, AtPrompt, DeferredIsPending
<1>9. GrantedFirst'
  BY <1>1, PromptAssumption DEF Prompt, Swap, Dismissed, Rejects, Dismiss, ReasonClosed,
     roundVars, Abandon, Waiting, Results, GrantedFirst, RoundTyped, FutureTyped,
     TurnTyped, ShownTyped, AtPrompt, DoneTyped
<1>10. DeferredIsPending'
  BY <1>1, PromptAssumption DEF Prompt, Swap, Dismissed, Rejects, Dismiss, ReasonClosed,
     roundVars, Waiting, Results, DeferredIsPending, FutureTyped, TurnTyped, ShownTyped,
     NoMenuYet, RemovedIsDecided, AtPrompt
<1>11. RemovedIsDecided'
  BY <1>1, PromptAssumption DEF Prompt, Swap, Dismissed, Rejects, Dismiss, ReasonClosed,
     roundVars, Waiting, Results, RemovedIsDecided, FutureTyped, TurnTyped, ShownTyped,
     DeferredIsPending, AtPrompt, NoMenuYet
<1>12. AnsweredIsDone'
  BY <1>1, PromptAssumption DEF Prompt, Swap, Dismissed, Rejects, Dismiss, ReasonClosed,
     roundVars, Waiting, Results, AnsweredIsDone, FutureTyped, TurnTyped, ShownTyped, AtPrompt,
     NoMenuYet, Abandon, FlagsTyped, menuVars
<1>13. ApprovalIsShown'
  BY <1>1, PromptAssumption DEF Prompt, Swap, Dismissed, Rejects, Dismiss, ReasonClosed,
     roundVars, Waiting, Results, ApprovalIsShown, FutureTyped, TurnTyped, ShownTyped,
     AtPrompt, DeferredIsPending, RemovedIsDecided, ClearedAtRest, NotAsked
<1>14. QuestionIsShown'
  BY <1>1, PromptAssumption DEF Prompt, Swap, Dismissed, Rejects, Dismiss, ReasonClosed,
     roundVars, Waiting, Results, QuestionIsShown, FutureTyped, TurnTyped, ShownTyped,
     AtPrompt, AnsweredIsDone, ClearedAtRest, NotAsked
<1> QED
  BY <1>2, <1>3, <1>4, <1>5, <1>6, <1>7, <1>8, <1>9, <1>10, <1>11, <1>12, <1>13, <1>14 DEF
     IInv, Typed, PromptInv

-----------------------------------------------------------------------------
(* The theorems *)

LEMMA NextStep ==
  ASSUME IInv, Next
  PROVE  IInv'
<1>1. CASE TurnSteps
  BY <1>1, StreamEndsStep, ResumeStep, CleanedUpStep, PollEndsStep, DecisionStep, NoDecisionStep,
     AskPollEndsStep, AskPollTimesOutStep, AskForcedStep, AnswerStep, ApproveUnaskedStep,
     ApproveListedStep, RequestApprovalStep, RequestAnswerStep DEF TurnSteps
<1>2. CASE PumpSteps
  BY <1>2, HandleDecidedStep, MenuRemovedStep, HandleAnsweredStep, ClearedStep, FreedStep
     DEF PumpSteps
<1>3. CASE Answers
  BY <1>3, ChooseStep, SubmitReasonStep, AnswerQuestionStep DEF Answers
<1> QED
  BY <1>1, <1>2, <1>3, StartTurnStep, DeferredShowsStep, OpenReasonStep, EscapeStep,
     ToggleAutoStep, ForceClearStep, ClearStep, RestartStep, SwapStep DEF Next

LEMMA SpecIInv == Spec => []IInv
<1>1. IInv /\ [Next]_vars => IInv'
  BY NextStep, StutterStep
<1> QED
  BY InitIInv, <1>1, PTL DEF Spec

\* The state has its types, and no call runs that the user, the auto mode or the
\* allow-list did not let through.
THEOREM TypeCorrect == Spec => []TypeOK
<1>1. IInv => TypeOK
  BY TypedIsTypeOK DEF IInv
<1> QED
  BY SpecIInv, <1>1, PTL

\* Whatever else is on the screen, pending, deferred or being removed, a turn that
\* awaits a decision has its menu, or a placeholder that becomes one ...
THEOREM DecisionHasMenu == Spec => []ApprovalIsShown
<1>1. IInv => ApprovalIsShown
  BY DEF IInv, PromptInv
<1> QED
  BY SpecIInv, <1>1, PTL

\* ... and a turn that awaits an answer has the menu of its question, whatever is
\* answered, cancelled, removed or timed out meanwhile, unless that menu went to the
\* message of an older question that had timed out.
THEOREM AnswerHasMenu == Spec => []QuestionIsShown
<1>1. IInv => QuestionIsShown
  BY DEF IInv, PromptInv
<1> QED
  BY SpecIInv, <1>1, PTL

LEMMA RunsOnlyOnResume ==
  ASSUME Next
  PROVE  Resume \/ ran' = ran
<1>1. CASE TurnSteps
  BY <1>1 DEF TurnSteps, StreamEnds, CleanedUp, PollEnds, Decision, NoDecision, AskPollEnds,
     AskPollTimesOut, AskForced, Answer, ApproveUnasked, ApproveListed, RequestApproval,
     RequestAnswer, Show, MountQuestion, doneVars
<1>2. CASE PumpSteps
  BY <1>2 DEF PumpSteps, HandleDecided, MenuRemoved, HandleAnswered, Cleared, Freed, doneVars
<1>3. CASE Answers
  BY <1>3 DEF Answers, Choose, SubmitReason, AnswerQuestion, doneVars
<1>4. CASE StartTurn \/ DeferredShows \/ OpenReason \/ Escape \/ ToggleAuto
  BY <1>4 DEF StartTurn, DeferredShows, OpenReason, Escape, ToggleAuto, doneVars
<1>5. CASE ForceClear \/ Clear \/ Restart \/ Swap
  BY <1>5 DEF ForceClear, Clear, Restart, Swap, Abandon, doneVars
<1> QED
  BY <1>1, <1>2, <1>3, <1>4, <1>5 DEF Next

\* A turn resumes with answers to interrupts of that very round: no decision of an
\* earlier round, or of a menu that outlived its turn, lets a call run.
THEOREM AnswersStayInRound == Spec => RunsInRound
<1>1. IInv /\ [Next]_vars => [ran' \ ran \subseteq unanswered]_vars
  <2> SUFFICES ASSUME IInv, Next PROVE ran' \ ran \subseteq unanswered
    OBVIOUS
  <2>1. CASE Resume
    BY <2>1 DEF Resume, Prompt, IInv, PromptInv, PayloadOfRound
  <2>2. CASE ran' = ran
    BY <2>2
  <2> QED
    BY <2>1, <2>2, RunsOnlyOnResume
<1> QED
  BY SpecIInv, <1>1, PTL DEF Spec, RunsInRound
-----------------------------------------------------------------------------
(* What becomes of a pending menu *)

\* The steps that take away a menu nobody has decided, and do not reject it: a reason is
\* being typed, so that action_select_reject only closes the input; or a /clear finds a
\* menu a /restart has left.
Wedges ==
  /\ approval # None /\ ~decided
  /\ Clear \/ (reason = approval /\ (ForceClear \/ Swap))

\* What is pending will be given back, also when the transcript is about to be emptied:
\* its decision is on its way, or will be when it is shown.
ReleaseInv ==
  /\ Released
  /\ pump = "clearing" => approval = None \/ decided \/ (deferred = approval /\ held)

\* A step that leaves the pending menu as it is.
Keeps ==
  /\ approval' = approval /\ deferred' = deferred
  /\ approval \in screen => approval \in screen'
  /\ (decided => decided') /\ (held => held')
  /\ pump' = pump \/ {pump, pump'} \subseteq {"free", "busy"}

LEMMA KeepsReleased ==
  ASSUME ReleaseInv, Keeps
  PROVE  ReleaseInv'
BY DEF ReleaseInv, Released, Keeps

\* A dismissal takes no decision back, and sends that of the menu that is rejected.
LEMMA DismissSends ==
  ASSUME NEW no, NEW quit, Dismiss(no, quit)
  PROVE  /\ (decided => decided') /\ (held => held')
         /\ approval \in no /\ approval \in screen => decided'
         /\ approval \in no /\ deferred = approval => held'
<1>1. approval \in no /\ approval \in screen => no \cap screen # {}
  OBVIOUS
<1> QED
  BY <1>1, Zenon DEF Dismiss

LEMMA ShowReleased ==
  ASSUME IInv, ReleaseInv, NEW p \in Approval, Show(p), pump # "clearing"
  PROVE  ReleaseInv'
<1>1. pump' = pump
  BY DEF Show
<1>2. approval' = None \/ approval' \in screen' \/ deferred' = approval'
  BY DEF Show
<1> QED
  BY <1>1, <1>2 DEF ReleaseInv, Released

LEMMA QuestionKeeps ==
  ASSUME IInv, NEW p, MountQuestion(p)
  PROVE  Keeps
<1>1. screen \subseteq screen'
  BY DEF MountQuestion
<1> QED
  BY <1>1 DEF MountQuestion, Keeps, menuVars

\* What a turn does between prompts, and what a key decides, leaves the menu there.
LEMMA TurnKeeps ==
  ASSUME IInv,
         StartTurn \/ StreamEnds \/ Resume \/ CleanedUp \/ Decision \/ NoDecision \/ Answer
           \/ ToggleAuto \/ OpenReason \/ AnswerQuestion \/ Restart \/ Freed
  PROVE  Keeps
BY DEF StartTurn, StreamEnds, Resume, CleanedUp, Decision, NoDecision, Answer, ToggleAuto,
       OpenReason, AnswerQuestion, Restart, Freed, Free, Keeps, shownVars, menuVars

LEMMA KeysKeep ==
  ASSUME IInv
  PROVE  /\ \A d : Choose(d) => Keeps
         /\ \A d : SubmitReason(d) => Keeps
         /\ Escape => Keeps
<1>1. ASSUME NEW d, Choose(d) PROVE Keeps
  BY <1>1 DEF Choose, Select, Keeps, shownVars
<1>2. ASSUME NEW d, SubmitReason(d) PROVE Keeps
  BY <1>2 DEF SubmitReason, Select, Keeps, shownVars
<1>3. ASSUME Escape PROVE Keeps
  <2>1. UNCHANGED <<approval, deferred, screen, pump>>
    BY <1>3 DEF Escape, shownVars
  <2>2. (decided => decided') /\ (held => held')
    <3>1. (\E no, quit : Dismiss(no, quit)) \/ UNCHANGED menuVars
      BY <1>3, Zenon DEF Escape
    <3>2. CASE \E no, quit : Dismiss(no, quit)
      BY <3>2, DismissSends
    <3>3. CASE UNCHANGED menuVars
      BY <3>3 DEF menuVars
    <3> QED
      BY <3>1, <3>2, <3>3
  <2> QED
    BY <2>1, <2>2, Zenon DEF Keeps
<1> QED
  BY <1>1, <1>2, <1>3

\* Only a question leaves the screen.
LEMMA QuestionGoes ==
  ASSUME IInv, AskPollTimesOut \/ HandleAnswered
  PROVE  Keeps
<1>1. approval # ask \/ approval = None
  BY PromptAssumption DEF IInv, Typed, ShownTyped, Prompt
<1>2. approval \in screen => approval \in screen'
  <2>1. None \notin screen
    BY PromptAssumption DEF IInv, Typed, ShownTyped
  <2> QED
    BY <1>1, <2>1 DEF AskPollTimesOut, HandleAnswered
<1>3. UNCHANGED <<approval, deferred, pump>>
  BY DEF AskPollTimesOut, HandleAnswered
<1>4. (decided => decided') /\ (held => held')
  <2>1. Dismiss({}, Quits) \/ UNCHANGED <<decided, held>>
    BY Zenon DEF AskPollTimesOut, HandleAnswered
  <2> QED
    BY <2>1, DismissSends
<1> QED
  BY <1>2, <1>3, <1>4, Zenon DEF Keeps

LEMMA DeferredReleased ==
  ASSUME IInv, ReleaseInv, DeferredShows
  PROVE  ReleaseInv'
<1>1. deferred = approval /\ deferred # None
  BY DEF DeferredShows, IInv, PromptInv, DeferredIsPending
<1>2. pump' = pump
  BY DEF DeferredShows
<1>3. CASE approval' = None
  BY <1>3 DEF ReleaseInv, Released
<1>4. CASE approval' = approval /\ approval \in screen' /\ decided' = (decided \/ held)
  BY <1>1, <1>2, <1>4 DEF ReleaseInv, Released
<1>5. \/ approval' = None
      \/ approval' = approval /\ approval \in screen' /\ decided' = (decided \/ held)
  <2>1. Gone(deferred) => approval' = None
    BY DEF Gone
  <2>2. CASE screen' = screen \cup {deferred} /\ decided' = (decided \/ held)
             /\ UNCHANGED approval
    BY <1>1, <2>2, Zenon
  <2> QED
    BY <2>1, <2>2, Zenon DEF DeferredShows
<1> QED
  BY <1>3, <1>4, <1>5

\* A message that is handled removes the menu, and a menu that is removed is forgotten.
LEMMA PumpReleased ==
  ASSUME IInv, ReleaseInv, HandleDecided \/ MenuRemoved
  PROVE  ReleaseInv'
<1>1. CASE HandleDecided
  BY <1>1 DEF HandleDecided, ReleaseInv, Released
<1>2. CASE MenuRemoved
  BY <1>2 DEF MenuRemoved, RemovedCleared, ReleaseInv, Released
<1> QED
  BY <1>1, <1>2

\* What is rejected as the transcript goes sends its decision, now or when it is shown.
LEMMA RejectedReleased ==
  ASSUME IInv, ReleaseInv, Free \/ pump = "clearing", approval # None, ~decided, reason # approval,
         \E quit : Dismiss(Rejects, quit)
  PROVE  decided' \/ (deferred = approval /\ held')
<1>1. approval \in Rejects
  BY DEF Rejects
<1>2. approval \in screen \/ deferred = approval
  BY DEF ReleaseInv, Released, Free
<1> QED
  BY <1>1, <1>2, DismissSends

LEMMA ClearingReleased ==
  ASSUME IInv, ReleaseInv, ForceClear \/ Clear, ~Wedges
  PROVE  ReleaseInv'
<1>1. Free /\ approval' = approval /\ deferred' = deferred /\ screen' = screen
  BY DEF ForceClear, Clear, shownVars
<1>2. (decided => decided') /\ (held => held')
  <2>1. Dismiss(Rejects, Quits) \/ UNCHANGED menuVars
    BY Zenon DEF ForceClear, Clear
  <2>2. CASE UNCHANGED menuVars
    BY <2>2 DEF menuVars
  <2> QED
    BY <2>1, <2>2, DismissSends
<1>3. approval = None \/ decided' \/ (deferred = approval /\ held')
  <2>1. CASE decided \/ approval = None
    BY <1>2, <2>1
  <2>2. CASE ~decided /\ approval # None
    <3>1. ForceClear /\ reason # approval
      BY <2>2 DEF Wedges
    <3> QED
      BY <1>1, <2>2, <3>1, RejectedReleased DEF ForceClear
  <2> QED
    BY <2>1, <2>2
<1> QED
  BY <1>1, <1>3 DEF ReleaseInv, Released

LEMMA ClearedReleased ==
  ASSUME IInv, ReleaseInv, Cleared
  PROVE  ReleaseInv'
BY DEF Cleared, menuVars, ReleaseInv, Released

LEMMA SwapReleased ==
  ASSUME IInv, ReleaseInv, Swap, ~Wedges
  PROVE  ReleaseInv'
<1>1. approval' = approval /\ deferred' = deferred /\ pump' = pump
  BY DEF Swap
<1>2. (decided => decided') /\ (held => held')
  BY DismissSends DEF Swap
<1>3. CASE approval = None \/ decided \/ pump = "removing"
  BY <1>1, <1>2, <1>3 DEF ReleaseInv, Released
<1>4. CASE approval # None /\ ~decided /\ pump # "removing"
  <2>1. reason # approval
    BY <1>4 DEF Wedges
  <2>2. approval \in Rejects
    BY <1>4, <2>1 DEF Rejects
  <2>3. approval \in screen \/ deferred = approval
    BY <1>4 DEF ReleaseInv, Released
  <2>4. decided' \/ (deferred = approval /\ held')
    BY <2>2, <2>3, DismissSends DEF Swap
  <2> QED
    BY <1>1, <2>4 DEF ReleaseInv, Released
<1> QED
  BY <1>3, <1>4

LEMMA ReleaseStep ==
  ASSUME IInv, ReleaseInv, Next, ~Wedges
  PROVE  ReleaseInv'
<1>1. CASE TurnSteps
  <2>1. turn \notin {"idle", "cancelled"} => pump # "clearing"
    BY DEF IInv, PromptInv, ClearedAtRest
  <2>2. CASE PollEnds
    BY <2>1, <2>2, ShowReleased DEF PollEnds, IInv, PromptInv, AtPrompt
  <2>3. CASE \E p \in Approval : ApproveUnasked(p) \/ ApproveListed(p)
    <3>1. UNCHANGED <<shownVars, menuVars, pump>>
      BY <2>3 DEF ApproveUnasked, ApproveListed
    <3>2. Keeps
      BY <3>1 DEF Keeps, shownVars, menuVars
    <3> QED
      BY <3>2, KeepsReleased
  <2>4. ASSUME NEW p \in Approval, RequestApproval(p)
        PROVE  ReleaseInv'
    <3>1. CASE NoApproval
      BY <2>1, <2>4, <3>1, ShowReleased DEF RequestApproval, NextCall
    <3>2. CASE ~NoApproval
      <4>1. Keeps
        BY <2>4, <3>2 DEF RequestApproval, Keeps, shownVars, menuVars
      <4> QED
        BY <4>1, KeepsReleased
    <3> QED
      BY <3>1, <3>2
  <2>5. ASSUME NEW p \in Question, RequestAnswer(p)
        PROVE  ReleaseInv'
    <3>1. CASE NoQuestion
      BY <2>5, <3>1, QuestionKeeps, KeepsReleased DEF RequestAnswer
    <3>2. CASE ~NoQuestion
      <4>1. Keeps
        BY <2>5, <3>2 DEF RequestAnswer, Keeps, shownVars, menuVars
      <4> QED
        BY <4>1, KeepsReleased
    <3> QED
      BY <3>1, <3>2
  <2>6. CASE AskPollEnds \/ AskForced
    BY <2>6, QuestionKeeps, KeepsReleased DEF AskPollEnds, AskForced
  <2> QED
    BY <1>1, <2>2, <2>3, <2>4, <2>5, <2>6, TurnKeeps, QuestionGoes, KeepsReleased DEF TurnSteps
<1>2. CASE PumpSteps
  BY <1>2, PumpReleased, QuestionGoes, TurnKeeps, ClearedReleased, KeepsReleased DEF PumpSteps
<1>3. CASE Answers
  BY <1>3, KeysKeep, TurnKeeps, KeepsReleased DEF Answers
<1>4. CASE StartTurn \/ OpenReason \/ Escape \/ ToggleAuto \/ Restart
  BY <1>4, KeysKeep, TurnKeeps, KeepsReleased
<1> QED
  BY <1>1, <1>2, <1>3, <1>4, DeferredReleased, ClearingReleased, SwapReleased DEF Next

\* The pending menu is not replaced, only forgotten.
LEMMA PendingStays ==
  ASSUME IInv, Next
  PROVE  approval' = approval \/ approval = None \/ approval' = None
<1>1. ASSUME NEW p, Show(p) PROVE approval = None
  BY <1>1 DEF Show, NoApproval
<1>2. CASE TurnSteps
  BY <1>1, <1>2 DEF TurnSteps, StreamEnds, Resume, CleanedUp, PollEnds, Decision, NoDecision,
     AskPollEnds, AskPollTimesOut, AskForced, Answer, ApproveUnasked, ApproveListed,
     RequestApproval, RequestAnswer, MountQuestion, shownVars
<1>3. CASE PumpSteps
  BY <1>3 DEF PumpSteps, HandleDecided, MenuRemoved, RemovedCleared, HandleAnswered, Cleared,
     Freed, shownVars
<1>4. CASE Answers
  BY <1>4 DEF Answers, Choose, SubmitReason, AnswerQuestion, shownVars
<1>5. CASE StartTurn \/ DeferredShows \/ OpenReason \/ Escape \/ ToggleAuto
  BY <1>5 DEF StartTurn, DeferredShows, Gone, OpenReason, Escape, ToggleAuto, shownVars
<1>6. CASE ForceClear \/ Clear \/ Restart \/ Swap
  BY <1>6 DEF ForceClear, Clear, Restart, Swap, shownVars
<1> QED
  BY <1>2, <1>3, <1>4, <1>5, <1>6 DEF Next

\* What is orphaned stays so.
LEMMA OrphansStay ==
  ASSUME Next
  PROVE  orphaned \subseteq orphaned'
<1>1. ASSUME NEW no, Abandon(no) PROVE orphaned \subseteq orphaned'
  BY <1>1 DEF Abandon
<1>2. CASE UNCHANGED orphaned
  BY <1>2
<1>3. CASE TurnSteps
  BY <1>2, <1>3 DEF TurnSteps, StreamEnds, Resume, CleanedUp, PollEnds, Decision, NoDecision,
     AskPollEnds, AskPollTimesOut, AskForced, Answer, ApproveUnasked, ApproveListed,
     RequestApproval, RequestAnswer, Show, MountQuestion, doneVars
<1>4. CASE PumpSteps
  BY <1>2, <1>4 DEF PumpSteps, HandleDecided, MenuRemoved, HandleAnswered, Cleared, Freed, doneVars
<1>5. CASE Answers
  BY <1>2, <1>5 DEF Answers, Choose, SubmitReason, AnswerQuestion, doneVars
<1>6. CASE StartTurn \/ DeferredShows \/ OpenReason \/ Escape \/ ToggleAuto \/ Restart
  BY <1>2, <1>6 DEF StartTurn, DeferredShows, OpenReason, Escape, ToggleAuto, Restart, doneVars
<1>7. CASE ForceClear \/ Clear \/ Swap
  BY <1>1, <1>7 DEF ForceClear, Clear, Swap
<1> QED
  BY <1>3, <1>4, <1>5, <1>6, <1>7 DEF Next

\* Whoever wedges the reference orphans what is pending.
LEMMA WedgedIsOrphan ==
  ASSUME IInv, Wedges
  PROVE  approval' = approval /\ approval \in orphaned'
<1>1. approval # None /\ ~decided
  BY DEF Wedges
<1>2. CASE Clear
  BY <1>1, <1>2 DEF Clear, Abandon, shownVars
<1>3. CASE reason = approval /\ (ForceClear \/ Swap)
  <2>1. approval \notin Rejects
    BY <1>3 DEF Rejects
  <2>2. Abandon(Rejects) /\ approval' = approval
    BY <1>3 DEF ForceClear, Swap, shownVars
  <2> QED
    BY <1>1, <2>1, <2>2 DEF Abandon
<1> QED
  BY <1>2, <1>3 DEF Wedges

\* The reference that holds up later approvals is never left to itself, but to a menu
\* that was orphaned: one of the steps above took it away, and they are the only ones
\* that do (_pending_approval_widget, _request_approval).
THEOREM EveryMenuIsReleased == Spec => []PendingIsReleased
<1> DEFINE Kept == ReleaseInv \/ approval \in orphaned
<1>1. Init => Kept
  BY DEF Init, ReleaseInv, Released
<1>2. IInv /\ Kept /\ [Next]_vars => Kept'
  <2>1. ASSUME Kept, UNCHANGED vars
        PROVE  Kept'
    BY <2>1 DEF vars, shownVars, menuVars, doneVars, ReleaseInv, Released
  <2>2. ASSUME IInv, Next, Kept
        PROVE  Kept'
    <3>1. CASE Wedges
      BY <2>2, <3>1, WedgedIsOrphan
    <3>2. CASE ReleaseInv /\ ~Wedges
      BY <2>2, <3>2, ReleaseStep
    <3>3. CASE approval \in orphaned
      <4>1. approval # None
        BY <2>2, <3>3, PromptAssumption DEF IInv, Typed, DoneTyped, Prompt
      <4>2. CASE approval' = approval
        BY <2>2, <3>3, <4>2, OrphansStay
      <4>3. CASE approval' = None
        BY <4>3 DEF ReleaseInv, Released
      <4> QED
        BY <2>2, <4>1, <4>2, <4>3, PendingStays
    <3> QED
      BY <2>2, <3>1, <3>2, <3>3
  <2> QED
    BY <2>1, <2>2
<1>3. Kept => PendingIsReleased
  BY DEF ReleaseInv, PendingIsReleased
<1> QED
  BY <1>1, <1>2, <1>3, SpecIInv, PTL DEF Spec
=============================================================================
