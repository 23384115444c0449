-------------------------- MODULE AppSessionProofs --------------------------
(***************************************************************************)
(* Proofs about the session core, for any set of messages and tasks, any   *)
(* initial prompt and any budget, in four parts: types, crashes and        *)
(* crossings; the discipline of the input queue; thread switches and the   *)
(* Connecting flag; who is left to look at the queue and at the deferred   *)
(* actions.                                                                *)
(***************************************************************************)
EXTENDS AppSessionProps, SequenceTheorems, TLAPS

-----------------------------------------------------------------------------
(* Lemmas about the sequence operators the model uses. *)

\* Taking one element out of a sequence leaves a sequence over the same set.
LEMMA RemoveAtType ==
  ASSUME NEW S, NEW s \in Seq(S), NEW i \in DOMAIN s
  PROVE  RemoveAt(s, i) \in Seq(S)
<1>1. i \in 1 .. Len(s) /\ Len(s) \in Nat
  BY LenProperties
<1>2. SubSeq(s, 1, i - 1) \in Seq(S)
  BY <1>1, SubSeqProperties, ElementOfSeq
<1>3. SubSeq(s, i + 1, Len(s)) \in Seq(S)
  BY <1>1, SubSeqProperties, ElementOfSeq
<1> QED
  BY <1>2, <1>3, ConcatProperties DEF RemoveAt

\* All of a sequence but its last element.
LEMMA FrontProperties ==
  ASSUME NEW S, NEW s \in Seq(S), s # <<>>
  PROVE  /\ Front(s) \in Seq(S)
         /\ Len(Front(s)) = Len(s) - 1
         /\ \A i \in 1 .. Len(Front(s)) : Front(s)[i] = s[i]
         /\ Last(s) = s[Len(s)] /\ Last(s) \in S
         /\ Len(s) \in DOMAIN s
<1>1. Len(s) \in Nat \ {0} /\ DOMAIN s = 1 .. Len(s)
  BY LenProperties, EmptySeq
<1>2. \A i \in 1 .. Len(s) : s[i] \in S
  BY ElementOfSeq
<1> QED
  BY <1>1, <1>2, SubSeqProperties DEF Front, Last
-----------------------------------------------------------------------------
(* Type correctness. *)

\* What the sets of the model hold.
LEMMA Labels ==
  /\ "idle" \in Label /\ "done" \in Label /\ "ready" \in Label /\ "created" \in Label
  /\ "running" \in Label /\ "spinner" \in Label /\ "popped" \in Label /\ "mounting" \in Label
  /\ "clearing" \in Label /\ "cleared" \in Label /\ "prefetch" \in Label /\ "clearView" \in Label
  /\ "load" \in Label /\ "rollback" \in Label /\ "model" \in Label /\ "retry" \in Label
  /\ "notice" \in Label /\ "history" \in Label /\ "starting" \in Label /\ "swapClear" \in Label
  /\ "swapReset" \in Label /\ "swapRestart" \in Label /\ "swapConfirm" \in Label /\ "modal" \in Label
  /\ "restart" \in Label /\ "respawning" \in Label /\ "process" \in Label /\ "processed" \in Label
  /\ "drainIfReady" \in Label /\ "drain" \in Label /\ "next" \in Label /\ "resume" \in Label
  /\ "switch" \in Label /\ "backlog" \in Label
  BY DEF Label, AwaitLabel, RunLabel

LEMMA Fates ==
  /\ "unsent" \in Fate /\ "new" \in Fate /\ "queued" \in Fate /\ "taken" \in Fate /\ "turn" \in Fate
  /\ "shell" \in Fate /\ "cleared" \in Fate /\ "refused" \in Fate /\ "discarded" \in Fate
  /\ "lost" \in Fate
  BY DEF Fate

LEMMA Mails ==
  /\ "up" \in Mail /\ "failed" \in Mail /\ "seq" \in Mail /\ "safe" \in Mail
  /\ "later" \in Mail /\ "thread" \in Mail /\ "model" \in Mail
  BY DEF Mail

LEMMA Ops ==
  /\ "interrupt" \in Op /\ "forceClear" \in Op /\ "restart" \in Op /\ "login" \in Op
  /\ "swap" \in Op /\ "pickThread" \in Op /\ "pickModel" \in Op /\ "bypass" \in Op
  /\ "serverFail" \in Op /\ "threadFail" \in Op /\ "teardownFail" \in Op
  BY DEF Op

\* A group of variables that a step leaves alone keeps its type.
LEMMA Frame ==
  ASSUME TypeOK
  PROVE  /\ UNCHANGED queueVars => QueueTyped'
         /\ UNCHANGED workVars => WorkTyped'
         /\ UNCHANGED threadVars => ThreadTyped'
         /\ UNCHANGED serverVars => ServerTyped'
         /\ UNCHANGED startVars => StartTyped'
         /\ UNCHANGED <<deferred, mail>> => PostTyped'
         /\ UNCHANGED ctlVars => ControlTyped'
         /\ UNCHANGED <<turnThread, fate, left>> => RecordTyped'
<1> USE DEF TypeOK
<1>1. UNCHANGED queueVars => QueueTyped'
  BY DEF QueueTyped, queueVars
<1>2. UNCHANGED workVars => WorkTyped'
  BY DEF WorkTyped, workVars
<1>3. UNCHANGED threadVars => ThreadTyped'
  BY DEF ThreadTyped, threadVars
<1>4. UNCHANGED serverVars => ServerTyped'
  BY DEF ServerTyped, serverVars
<1>5. UNCHANGED startVars => StartTyped'
  BY DEF StartTyped, startVars
<1>6. UNCHANGED <<deferred, mail>> => PostTyped'
  BY DEF PostTyped
<1>7. UNCHANGED ctlVars => ControlTyped'
  BY DEF ControlTyped, ctlVars
<1>8. UNCHANGED <<turnThread, fate, left>> => RecordTyped'
  BY DEF RecordTyped
<1> QED
  BY <1>1, <1>2, <1>3, <1>4, <1>5, <1>6, <1>7, <1>8

LEMMA InitType == Init => TypeOK
<1> SUFFICES ASSUME Init PROVE TypeOK
  OBVIOUS
<1>1. QueueTyped /\ PostTyped
  <2>1. queue \in Seq(Msg) /\ deferred \in Seq(DeferredKind) /\ mail \in Seq(Mail)
    BY DEF Init
  <2> QED
    BY <2>1 DEF Init, QueueTyped, PostTyped
<1>2. WorkTyped /\ ThreadTyped /\ ServerTyped /\ StartTyped
  BY DEF Init, WorkTyped, ThreadTyped, ServerTyped, StartTyped
<1>3. ControlTyped
  BY Labels DEF Init, ControlTyped
<1>4. RecordTyped
  <2>1. PICK s \in Scenarios :
          /\ left = s.budget
          /\ fate = [m \in Msg |-> IF m = InitialPrompt THEN "taken"
                                  ELSE IF m \in s.typed THEN "new" ELSE "unsent"]
    BY DEF Init
  <2>2. left \in [Op -> Nat]
    BY <2>1, ScenarioAssumption
  <2>3. fate \in [Msg -> Fate]
    BY <2>1, Fates
  <2> QED
    BY <2>2, <2>3 DEF Init, RecordTyped
<1> QED
  BY <1>1, <1>2, <1>3, <1>4 DEF TypeOK

\* The queue, the deferred actions and the mail after one operation.
LEMMA SequenceTypes ==
  ASSUME TypeOK
  PROVE  /\ <<>> \in Seq(Msg) /\ <<>> \in Seq(DeferredKind)
         /\ \A m \in Msg : Append(queue, m) \in Seq(Msg)
         /\ queue # <<>> => /\ Head(queue) \in Msg /\ Tail(queue) \in Seq(Msg)
                           /\ Last(queue) \in Msg /\ Front(queue) \in Seq(Msg)
         /\ \A k \in Mail : Append(mail, k) \in Seq(Mail)
         /\ mail # <<>> => Head(mail) \in Mail /\ Tail(mail) \in Seq(Mail)
         /\ deferred # <<>> => /\ Head(deferred) \in DeferredKind
                              /\ Tail(deferred) \in Seq(DeferredKind)
<1> USE DEF TypeOK, QueueTyped, PostTyped
<1>1. <<>> \in Seq(Msg) /\ <<>> \in Seq(DeferredKind)
  BY EmptySeq
<1>2. \A m \in Msg : Append(queue, m) \in Seq(Msg)
  BY AppendProperties
<1>3. queue # <<>> => /\ Head(queue) \in Msg /\ Tail(queue) \in Seq(Msg)
                     /\ Last(queue) \in Msg /\ Front(queue) \in Seq(Msg)
  BY HeadTailProperties, FrontProperties
<1>4. \A k \in Mail : Append(mail, k) \in Seq(Mail)
  BY AppendProperties
<1>5. mail # <<>> => Head(mail) \in Mail /\ Tail(mail) \in Seq(Mail)
  BY HeadTailProperties
<1>6. deferred # <<>> => /\ Head(deferred) \in DeferredKind
                        /\ Tail(deferred) \in Seq(DeferredKind)
  BY HeadTailProperties
<1> QED
  BY <1>1, <1>2, <1>3, <1>4, <1>5, <1>6

\* The fates of the messages after one operation.
LEMMA FateTypes ==
  ASSUME RecordTyped
  PROVE  /\ Discarded(fate) \in [Msg -> Fate]
         /\ \A m, f : f \in Fate => [fate EXCEPT ![m] = f] \in [Msg -> Fate]
  BY Fates DEF RecordTyped, Discarded

\* An operation that is counted.
LEMMA SpendType ==
  ASSUME RecordTyped, NEW op \in Op, Spend(op)
  PROVE  left' \in [Op -> Nat]
  BY DEF RecordTyped, Spend

\* A task that goes on to a label.
LEMMA GotoType ==
  ASSUME ControlTyped, NEW t \in Task, NEW label \in Label, Goto(t, label)
  PROVE  pc' \in [Task -> Label] /\ active' \in Task \cup {None}
  BY DEF ControlTyped, Goto, Holds

\* Where a deferred action returns to is a label.
LEMMA CallerType ==
  ASSUME NEW t PROVE Caller(t) \in Label
  BY Labels DEF Caller

\* The list of deferred actions once one is deferred.
LEMMA DeferType ==
  ASSUME PostTyped, NEW kind \in DeferredKind
  PROVE  Append(WithoutKind(kind), kind) \in Seq(DeferredKind)
<1>1. WithoutKind(kind) \in Seq(DeferredKind)
  <2>1. CASE kind \in Range(deferred)
    <3>1. \E i \in DOMAIN deferred : deferred[i] = kind
      BY <2>1 DEF Range
    <3>2. (CHOOSE i \in DOMAIN deferred : deferred[i] = kind) \in DOMAIN deferred
      BY <3>1
    <3> QED
      BY <2>1, <3>2, RemoveAtType DEF WithoutKind, PostTyped
  <2>2. CASE kind \notin Range(deferred)
    BY <2>2 DEF WithoutKind, PostTyped
  <2> QED
    BY <2>1, <2>2
<1> QED
  BY <1>1, AppendProperties

\* The workers that are cancelled.
LEMMA CancellingType ==
  ASSUME ControlTyped, WorkTyped, NEW S \in SUBSET Msg, Cancelling(S)
  PROVE  pc' \in [Task -> Label] /\ cancelled' \subseteq Msg
  BY Labels DEF ControlTyped, WorkTyped, Cancelling

\* The worker that an interrupt finds.
LEMMA ActiveWorker ==
  ASSUME WorkTyped
  PROVE  /\ ShellActive => shellWorker \in Msg
         /\ AgentActive => agentWorker \in Msg
  BY DEF WorkTyped, ShellActive, AgentActive

\* Input.
LEMMA InputType ==
  ASSUME TypeOK, NEW m \in Msg
  PROVE  /\ Submit(m) => TypeOK'
         /\ SubmitBypass(m) => TypeOK'
<1> USE DEF TypeOK
<1>0. Pump \in Task
  BY DEF Task, Singleton
<1>1. ASSUME Submit(m) PROVE TypeOK'
  <2>1. QueueTyped'
    BY <1>1, SequenceTypes DEF Submit, QueueTyped
  <2>2. RecordTyped'
    BY <1>1, FateTypes, Fates DEF Submit, RecordTyped
  <2>3. ControlTyped'
    BY <1>1, <1>0, Labels DEF Submit, ControlTyped, Goto, Holds, ctlVars
  <2> QED
    BY <1>1, <2>1, <2>2, <2>3, Frame DEF Submit
<1>2. ASSUME SubmitBypass(m) PROVE TypeOK'
  <2>1. RecordTyped'
    BY <1>2, FateTypes, Fates, Ops, SpendType DEF SubmitBypass, RecordTyped
  <2>2. ControlTyped'
    BY <1>2, <1>0, Labels DEF SubmitBypass, ControlTyped, Goto, Holds
  <2> QED
    BY <1>2, <2>1, <2>2, Frame DEF SubmitBypass
<1> QED
  BY <1>1, <1>2

\* The steps of the input queue.
LEMMA QueueType ==
  ASSUME TypeOK, NEW t \in Task
  PROVE  /\ Process(t) => TypeOK'
         /\ SendToAgent(t) => TypeOK'
         /\ StartShell(t) => TypeOK'
         /\ ResetThread(t) => TypeOK'
         /\ ClearReturns(t) => TypeOK'
         /\ Processed(t) => TypeOK'
         /\ ProcessNext(t) => TypeOK'
         /\ WidgetRemoved(t) => TypeOK'
<1> USE DEF TypeOK
<1>1. ASSUME Process(t) PROVE TypeOK'
  <2>1. QueueTyped'
    BY <1>1, SequenceTypes DEF Process, QueueTyped
  <2>2. RecordTyped'
    BY <1>1, FateTypes, Fates DEF Process, RecordTyped
  <2>3. ControlTyped'
    BY <1>1, GotoType, Labels DEF Process, ControlTyped
  <2> QED
    BY <1>1, <2>1, <2>2, <2>3, Frame DEF Process
<1>2. ASSUME SendToAgent(t) PROVE TypeOK'
  <2>1. WorkTyped'
    BY <1>2 DEF SendToAgent, WorkTyped, ControlTyped
  <2>2. RecordTyped'
    <3>1. \E f \in Fate : fate' = [fate EXCEPT ![cur[t]] = f]
      BY <1>2, Fates DEF SendToAgent
    <3>2. UNCHANGED <<turnThread, left>>
      BY <1>2 DEF SendToAgent
    <3> QED
      BY <3>1, <3>2, FateTypes DEF RecordTyped
  <2>3. ControlTyped'
    BY <1>2, Labels DEF SendToAgent, ControlTyped
  <2> QED
    BY <1>2, <2>1, <2>2, <2>3, Frame DEF SendToAgent
<1>3. ASSUME StartShell(t) PROVE TypeOK'
  <2>1. WorkTyped'
    BY <1>3 DEF StartShell, WorkTyped, ControlTyped
  <2>2. RecordTyped'
    <3>1. \E f \in Fate : fate' = [fate EXCEPT ![cur[t]] = f]
      BY <1>3, Fates DEF StartShell
    <3>2. UNCHANGED <<turnThread, left>>
      BY <1>3 DEF StartShell
    <3> QED
      BY <3>1, <3>2, FateTypes DEF RecordTyped
  <2>3. ControlTyped'
    BY <1>3, Labels DEF StartShell, ControlTyped
  <2> QED
    BY <1>3, <2>1, <2>2, <2>3, Frame DEF StartShell
<1>4. ASSUME ResetThread(t) PROVE TypeOK'
  <2>1. ThreadTyped'
    BY <1>4 DEF ResetThread, ThreadTyped, FreshThread
  <2>2. RecordTyped'
    BY <1>4, FateTypes, Fates DEF ResetThread, RecordTyped
  <2>3. ControlTyped'
    BY <1>4, GotoType, Labels DEF ResetThread, ControlTyped
  <2> QED
    BY <1>4, <2>1, <2>2, <2>3, Frame DEF ResetThread
<1>5. ASSUME ClearReturns(t) PROVE TypeOK'
  <2>1. ControlTyped'
    BY <1>5, GotoType, Labels DEF ClearReturns, ControlTyped
  <2> QED
    BY <1>5, <2>1, Frame DEF ClearReturns
<1>6. ASSUME Processed(t) PROVE TypeOK'
  <2>1. QueueTyped'
    BY <1>6 DEF Processed, QueueTyped
  <2>2. StartTyped'
    BY <1>6 DEF Processed, StartTyped, startVars
  <2>3. ControlTyped'
    BY <1>6, GotoType, Labels DEF Processed, ControlTyped
  <2> QED
    BY <1>6, <2>1, <2>2, <2>3, Frame DEF Processed
<1>7. ASSUME ProcessNext(t) PROVE TypeOK'
  <2>1. QueueTyped'
    BY <1>7, SequenceTypes DEF ProcessNext, QueueTyped, WithoutOldest, DrainBlocked
  <2>2. ControlTyped'
    BY <1>7, GotoType, Labels, SequenceTypes DEF ProcessNext, ControlTyped, DrainBlocked
  <2> QED
    BY <1>7, <2>1, <2>2, Frame DEF ProcessNext
<1>8. ASSUME WidgetRemoved(t) PROVE TypeOK'
  <2>1. ControlTyped'
    BY <1>8, GotoType, Labels DEF WidgetRemoved, ControlTyped
  <2> QED
    BY <1>8, <2>1, Frame DEF WidgetRemoved
<1> QED
  BY <1>1, <1>2, <1>3, <1>4, <1>5, <1>6, <1>7, <1>8

\* The workers and their cleanup.
LEMMA WorkerType ==
  ASSUME TypeOK, NEW m \in Msg
  PROVE  /\ WorkerStarts(m) => TypeOK'
         /\ WorkerEnds(m) => TypeOK'
         /\ SpinnerRemoved(m) => TypeOK'
<1> USE DEF TypeOK
<1>0. m \in Task
  BY DEF Task
<1>1. ASSUME WorkerStarts(m) PROVE TypeOK'
  <2>1. ControlTyped'
    BY <1>1, GotoType, Labels, <1>0 DEF WorkerStarts, ControlTyped
  <2>2. RecordTyped'
    BY <1>1 DEF WorkerStarts, RecordTyped, ThreadTyped
  <2> QED
    BY <1>1, <2>1, <2>2, Frame DEF WorkerStarts
<1>2. ASSUME WorkerEnds(m) PROVE TypeOK'
  <2>1. WorkTyped'
    BY <1>2 DEF WorkerEnds, WorkTyped
  <2>2. ControlTyped'
    BY <1>2, GotoType, Labels, <1>0 DEF WorkerEnds, ControlTyped, CleanupStart
  <2> QED
    BY <1>2, <2>1, <2>2, Frame DEF WorkerEnds
<1>3. ASSUME SpinnerRemoved(m) PROVE TypeOK'
  <2>1. ControlTyped'
    BY <1>3, GotoType, Labels, <1>0 DEF SpinnerRemoved, ControlTyped, CleanupStart
  <2> QED
    BY <1>3, <2>1, Frame DEF SpinnerRemoved
<1> QED
  BY <1>1, <1>2, <1>3

\* The drain of the deferred actions.
LEMMA DrainType ==
  ASSUME TypeOK, NEW t \in Task
  PROVE  /\ MaybeDrainDeferred(t) => TypeOK'
         /\ DrainDeferred(t) => TypeOK'
<1> USE DEF TypeOK
<1>1. ASSUME MaybeDrainDeferred(t) PROVE TypeOK'
  <2>1. ControlTyped'
    BY <1>1, GotoType, Labels DEF MaybeDrainDeferred, ControlTyped, AfterDrain
  <2> QED
    BY <1>1, <2>1, Frame DEF MaybeDrainDeferred
<1>2. ASSUME DrainDeferred(t) PROVE TypeOK'
  <2>1. PostTyped'
    BY <1>2, SequenceTypes DEF DrainDeferred, PostTyped
  <2>2. ControlTyped'
    BY <1>2, GotoType, Labels DEF DrainDeferred, ControlTyped, AfterDrain
  <2> QED
    BY <1>2, <2>1, <2>2, Frame DEF DrainDeferred
<1> QED
  BY <1>1, <1>2

\* The selectors, the thread switch and the model switch.
LEMMA SelectorType ==
  ASSUME TypeOK, NEW t \in Task, NEW kind \in {"thread", "model"}
  PROVE  /\ Pick(kind) => TypeOK'
         /\ ResumeThread(t) => TypeOK'
         /\ HistoryPrefetched(t) => TypeOK'
         /\ SwitchThread(t) => TypeOK'
         /\ ThreadSwitchFails(t) => TypeOK'
         /\ ThreadSwitchReturns(t) => TypeOK'
         /\ SwitchModel(t) => TypeOK'
         /\ RetryStartup(t) => TypeOK'
         /\ ActionReturns(t) => TypeOK'
<1> USE DEF TypeOK
<1>0. /\ Start \in Task /\ kind \in DeferredKind /\ kind \in Mail
      /\ "model" \in DeferredKind
  BY Mails DEF Task, Singleton, DeferredKind
<1>c. Caller(t) \in Label
  BY CallerType
<1>1. ASSUME Pick(kind) PROVE TypeOK'
  <2>1. PostTyped'
    BY <1>1, <1>0, DeferType, SequenceTypes DEF Pick, PostTyped, Defer
  <2>2. RecordTyped'
    BY <1>1, Ops, SpendType DEF Pick, RecordTyped
  <2> QED
    BY <1>1, <2>1, <2>2, Frame DEF Pick
<1>2. ASSUME ResumeThread(t) PROVE TypeOK'
  <2>1. ThreadTyped'
    BY <1>2 DEF ResumeThread, ThreadTyped
  <2>2. ControlTyped'
    BY <1>2, GotoType, Labels DEF ResumeThread, ControlTyped
  <2> QED
    BY <1>2, <2>1, <2>2, Frame DEF ResumeThread
<1>3. ASSUME HistoryPrefetched(t) PROVE TypeOK'
  <2>1. QueueTyped'
    BY <1>3, SequenceTypes DEF HistoryPrefetched, QueueTyped
  <2>2. RecordTyped'
    BY <1>3, FateTypes, Fates DEF HistoryPrefetched, RecordTyped
  <2>3. ControlTyped'
    BY <1>3, GotoType, Labels DEF HistoryPrefetched, ControlTyped
  <2> QED
    BY <1>3, <2>1, <2>2, <2>3, Frame DEF HistoryPrefetched
<1>4. ASSUME SwitchThread(t) PROVE TypeOK'
  <2>1. ThreadTyped'
    BY <1>4 DEF SwitchThread, ThreadTyped, FreshThread
  <2>2. ControlTyped'
    BY <1>4, GotoType, Labels DEF SwitchThread, ControlTyped
  <2> QED
    BY <1>4, <2>1, <2>2, Frame DEF SwitchThread
<1>5. ASSUME ThreadSwitchFails(t) PROVE TypeOK'
  <2>1. ThreadTyped'
    BY <1>5 DEF ThreadSwitchFails, ThreadTyped
  <2>2. ControlTyped'
    BY <1>5, GotoType, Labels DEF ThreadSwitchFails, ControlTyped
  <2>3. RecordTyped'
    BY <1>5, Ops, SpendType DEF ThreadSwitchFails, RecordTyped
  <2> QED
    BY <1>5, <2>1, <2>2, <2>3, Frame DEF ThreadSwitchFails
<1>6. ASSUME ThreadSwitchReturns(t) PROVE TypeOK'
  <2>1. ThreadTyped'
    BY <1>6 DEF ThreadSwitchReturns, ThreadTyped
  <2>2. ControlTyped'
    BY <1>6, GotoType, Labels, <1>c DEF ThreadSwitchReturns, ControlTyped
  <2> QED
    BY <1>6, <2>1, <2>2, Frame DEF ThreadSwitchReturns
<1>7. ASSUME SwitchModel(t) PROVE TypeOK'
  <2>1. ServerTyped'
    BY <1>7 DEF SwitchModel, ServerTyped
  <2>2. PostTyped'
    BY <1>7, <1>0, DeferType DEF SwitchModel, PostTyped, Defer
  <2>3. ControlTyped'
    BY <1>7, GotoType, Labels, <1>c DEF SwitchModel, ControlTyped
  <2> QED
    BY <1>7, <2>1, <2>2, <2>3, Frame DEF SwitchModel
<1>8. ASSUME RetryStartup(t) PROVE TypeOK'
  <2>1. ControlTyped'
    BY <1>8, <1>0, <1>c, Labels DEF RetryStartup, ControlTyped, Holds
  <2> QED
    BY <1>8, <2>1, Frame DEF RetryStartup
<1>9. ASSUME ActionReturns(t) PROVE TypeOK'
  <2>1. ControlTyped'
    BY <1>9, GotoType, Labels, <1>c DEF ActionReturns, ControlTyped
  <2> QED
    BY <1>9, <2>1, Frame DEF ActionReturns
<1> QED
  BY <1>1, <1>2, <1>3, <1>4, <1>5, <1>6, <1>7, <1>8, <1>9

\* The interrupts.
LEMMA InterruptType ==
  ASSUME TypeOK
  PROVE  /\ Interrupt => TypeOK'
         /\ QuitOrInterrupt => TypeOK'
         /\ ForceClear => TypeOK'
<1> USE DEF TypeOK
<1>0. Pump \in Task
  BY DEF Task, Singleton
<1>1. ASSUME Interrupt PROVE TypeOK'
  <2>1. QueueTyped'
    BY <1>1, SequenceTypes DEF Interrupt, QueueTyped
  <2>2. PostTyped'
    BY <1>1, SequenceTypes DEF Interrupt, PostTyped
  <2>3. ControlTyped' /\ WorkTyped'
    <3>1. ShellActive => {shellWorker} \in SUBSET Msg
      BY ActiveWorker
    <3>2. AgentActive => {agentWorker} \in SUBSET Msg
      BY ActiveWorker
    <3>3. pc' \in [Task -> Label] /\ cancelled' \subseteq Msg
      BY <1>1, <3>1, <3>2, CancellingType DEF Interrupt, ControlTyped, WorkTyped
    <3> QED
      BY <1>1, <3>3 DEF Interrupt, ControlTyped, WorkTyped
  <2>4. RecordTyped'
    BY <1>1, FateTypes, Fates, SequenceTypes, Ops, SpendType DEF Interrupt, RecordTyped
  <2> QED
    BY <1>1, <2>1, <2>2, <2>3, <2>4, Frame DEF Interrupt
<1>2. ASSUME QuitOrInterrupt PROVE TypeOK'
  <2>1. QueueTyped'
    BY <1>2, SequenceTypes DEF QuitOrInterrupt, QueueTyped
  <2>2. PostTyped'
    BY <1>2, SequenceTypes DEF QuitOrInterrupt, PostTyped
  <2>3. ControlTyped' /\ WorkTyped'
    <3>1. {IF ShellActive THEN shellWorker ELSE agentWorker} \in SUBSET Msg
      BY <1>2, ActiveWorker DEF QuitOrInterrupt
    <3>2. pc' \in [Task -> Label] /\ cancelled' \subseteq Msg
      BY <1>2, <3>1, CancellingType DEF QuitOrInterrupt
    <3> QED
      BY <1>2, <3>2 DEF QuitOrInterrupt, ControlTyped, WorkTyped
  <2>4. RecordTyped'
    BY <1>2, FateTypes, Fates, Ops, SpendType DEF QuitOrInterrupt, RecordTyped
  <2> QED
    BY <1>2, <2>1, <2>2, <2>3, <2>4, Frame DEF QuitOrInterrupt
<1>3. ASSUME ForceClear PROVE TypeOK'
  <2>1. QueueTyped'
    BY <1>3, SequenceTypes DEF ForceClear, QueueTyped
  <2>2. PostTyped'
    BY <1>3, SequenceTypes DEF ForceClear, PostTyped
  <2>3. ControlTyped'
    BY <1>3, Labels DEF ForceClear, ControlTyped
  <2>4. WorkTyped'
    BY <1>3, ActiveWorker DEF ForceClear, WorkTyped
  <2>5. RecordTyped'
    BY <1>3, FateTypes, Fates, Ops, SpendType DEF ForceClear, RecordTyped
  <2> QED
    BY <1>3, <2>1, <2>2, <2>3, <2>4, <2>5, Frame DEF ForceClear
<1> QED
  BY <1>1, <1>2, <1>3

\* The server connection.
LEMMA ServerType ==
  ASSUME TypeOK, NEW t \in Task
  PROVE  /\ StartupSucceeds => TypeOK'
         /\ StartupFails => TypeOK'
         /\ Restart => TypeOK'
         /\ RestartSevers => TypeOK'
         /\ PickLogin => TypeOK'
         /\ LoginRefresh(t) => TypeOK'
         /\ LoginLater(t) => TypeOK'
         /\ Respawned(t) => TypeOK'
         /\ RespawnFails(t) => TypeOK'
<1> USE DEF TypeOK
<1>0. {Pump, Start, Swap, Login} \subseteq Task /\ "login" \in DeferredKind
  BY DEF Task, Singleton, DeferredKind
<1>c. Caller(t) \in Label
  BY CallerType
<1>m. mail' = Append(mail, "up") \/ mail' = Append(mail, "failed") \/ mail' = mail
        => mail' \in Seq(Mail)
  BY Mails, SequenceTypes DEF PostTyped
<1>1. ASSUME StartupSucceeds PROVE TypeOK'
  <2>1. ServerTyped'
    BY <1>1 DEF StartupSucceeds, ServerTyped
  <2>2. PostTyped'
    BY <1>1, <1>m DEF StartupSucceeds, PostTyped
  <2>3. ControlTyped'
    BY <1>1, GotoType, Labels, <1>0 DEF StartupSucceeds, ControlTyped
  <2> QED
    BY <1>1, <2>1, <2>2, <2>3, Frame DEF StartupSucceeds
<1>2. ASSUME StartupFails PROVE TypeOK'
  <2>1. PostTyped'
    BY <1>2, <1>m DEF StartupFails, PostTyped
  <2>2. ControlTyped'
    BY <1>2, GotoType, Labels, <1>0 DEF StartupFails, ControlTyped
  <2>3. RecordTyped'
    BY <1>2, Ops, SpendType DEF StartupFails, RecordTyped
  <2> QED
    BY <1>2, <2>1, <2>2, <2>3, Frame DEF StartupFails
<1>3. ASSUME Restart PROVE TypeOK'
  <2>1. ControlTyped'
    BY <1>3, GotoType, Labels, <1>0 DEF Restart, ControlTyped
  <2>2. RecordTyped'
    BY <1>3, Ops, SpendType DEF Restart, RecordTyped
  <2> QED
    BY <1>3, <2>1, <2>2, Frame DEF Restart
<1>4. ASSUME RestartSevers PROVE TypeOK'
  <2>1. QueueTyped'
    BY <1>4, SequenceTypes DEF RestartSevers, QueueTyped
  <2>2. WorkTyped'
    BY <1>4, ActiveWorker DEF RestartSevers, WorkTyped
  <2>3. ServerTyped'
    BY <1>4 DEF RestartSevers, ServerTyped
  <2>4. PostTyped'
    BY <1>4, SequenceTypes DEF RestartSevers, PostTyped
  <2>5. ControlTyped'
    BY <1>4, Labels DEF RestartSevers, Severed, ControlTyped
  <2>6. RecordTyped'
    BY <1>4, FateTypes, Fates DEF RestartSevers, RecordTyped
  <2> QED
    BY <1>4, <2>1, <2>2, <2>3, <2>4, <2>5, <2>6, Frame DEF RestartSevers
<1>5. ASSUME PickLogin PROVE TypeOK'
  <2>1. PostTyped'
    BY <1>5, <1>0, DeferType DEF PickLogin, PostTyped, Defer
  <2>2. ControlTyped'
    BY <1>5, <1>0, Labels DEF PickLogin, ControlTyped
  <2>3. RecordTyped'
    BY <1>5, Ops, SpendType DEF PickLogin, RecordTyped
  <2> QED
    BY <1>5, <2>1, <2>2, <2>3, Frame DEF PickLogin
<1>6. ASSUME LoginRefresh(t) PROVE TypeOK'
  <2>1. ServerTyped'
    BY <1>6 DEF LoginRefresh, ServerTyped
  <2>2. ControlTyped'
    BY <1>6, GotoType, Labels DEF LoginRefresh, ControlTyped
  <2> QED
    BY <1>6, <2>1, <2>2, Frame DEF LoginRefresh
<1>7. ASSUME LoginLater(t) PROVE TypeOK'
  <2>1. ControlTyped'
    BY <1>7, GotoType, Labels, <1>c DEF LoginLater, ControlTyped
  <2> QED
    BY <1>7, <2>1, Frame DEF LoginLater
<1>8. ASSUME Respawned(t) PROVE TypeOK'
  <2>1. ServerTyped'
    BY <1>8 DEF Respawned, ServerTyped
  <2>2. PostTyped'
    BY <1>8, <1>m DEF Respawned, PostTyped
  <2>3. ControlTyped'
    BY <1>8, GotoType, Labels, <1>c DEF Respawned, ControlTyped
  <2> QED
    BY <1>8, <2>1, <2>2, <2>3, Frame DEF Respawned
<1>9. ASSUME RespawnFails(t) PROVE TypeOK'
  <2>1. ServerTyped'
    BY <1>9 DEF RespawnFails, ServerTyped, FailurePosted
  <2>2. PostTyped'
    BY <1>9, <1>m DEF RespawnFails, PostTyped, FailurePosted
  <2>3. ControlTyped'
    BY <1>9, GotoType, Labels, <1>c DEF RespawnFails, ControlTyped
  <2>4. RecordTyped'
    BY <1>9, Ops, SpendType DEF RespawnFails, RecordTyped
  <2> QED
    BY <1>9, <2>1, <2>2, <2>3, <2>4, Frame DEF RespawnFails
<1> QED
  BY <1>1, <1>2, <1>3, <1>4, <1>5, <1>6, <1>7, <1>8, <1>9

\* The agent swap.
LEMMA SwapType ==
  ASSUME TypeOK
  PROVE  /\ SwitchAgent => TypeOK'
         /\ SwapTearsDown => TypeOK'
         /\ SwapDropsDeferred => TypeOK'
         /\ SwapResetsThread => TypeOK'
         /\ SwapTeardownFails => TypeOK'
         /\ SwapRestarts => TypeOK'
         /\ SwapRestartFails => TypeOK'
         /\ SwapConfirms => TypeOK'
<1> USE DEF TypeOK
<1>0. Swap \in Task
  BY DEF Task, Singleton
<1>m. mail' = Append(mail, "later") \/ mail' = Append(mail, "failed") \/ mail' = mail
        => mail' \in Seq(Mail)
  BY Mails, SequenceTypes DEF PostTyped
<1>1. ASSUME SwitchAgent PROVE TypeOK'
  <2>1. ControlTyped'
    BY <1>1, <1>0, Labels DEF SwitchAgent, ControlTyped
  <2>2. RecordTyped'
    BY <1>1, Ops, SpendType DEF SwitchAgent, RecordTyped
  <2> QED
    BY <1>1, <2>1, <2>2, Frame DEF SwitchAgent
<1>2. ASSUME SwapTearsDown PROVE TypeOK'
  <2>1. QueueTyped'
    BY <1>2, SequenceTypes DEF SwapTearsDown, QueueTyped
  <2>2. ServerTyped'
    BY <1>2 DEF SwapTearsDown, ServerTyped
  <2>3. PostTyped'
    BY <1>2, SequenceTypes DEF SwapTearsDown, PostTyped
  <2>4. ControlTyped'
    BY <1>2, GotoType, Labels, <1>0 DEF SwapTearsDown, ControlTyped
  <2>5. RecordTyped'
    BY <1>2, FateTypes, Fates DEF SwapTearsDown, RecordTyped
  <2> QED
    BY <1>2, <2>1, <2>2, <2>3, <2>4, <2>5, Frame DEF SwapTearsDown
<1>3. ASSUME SwapDropsDeferred PROVE TypeOK'
  <2>1. PostTyped'
    BY <1>3, SequenceTypes DEF SwapDropsDeferred, PostTyped
  <2>2. ControlTyped'
    BY <1>3, GotoType, Labels, <1>0 DEF SwapDropsDeferred, ControlTyped
  <2> QED
    BY <1>3, <2>1, <2>2, Frame DEF SwapDropsDeferred
<1>4. ASSUME SwapResetsThread PROVE TypeOK'
  <2>1. ThreadTyped'
    BY <1>4 DEF SwapResetsThread, ThreadTyped, FreshThread
  <2>2. ControlTyped'
    BY <1>4, GotoType, Labels, <1>0 DEF SwapResetsThread, ControlTyped
  <2> QED
    BY <1>4, <2>1, <2>2, Frame DEF SwapResetsThread
<1>5. ASSUME SwapTeardownFails PROVE TypeOK'
  <2>1. ServerTyped'
    BY <1>5 DEF SwapTeardownFails, ServerTyped
  <2>2. ControlTyped'
    BY <1>5, GotoType, Labels, <1>0 DEF SwapTeardownFails, ControlTyped
  <2>3. RecordTyped'
    BY <1>5, Ops, SpendType DEF SwapTeardownFails, RecordTyped
  <2> QED
    BY <1>5, <2>1, <2>2, <2>3, Frame DEF SwapTeardownFails
<1>6. ASSUME SwapRestarts PROVE TypeOK'
  <2>1. ServerTyped'
    BY <1>6 DEF SwapRestarts, ServerTyped
  <2>2. ControlTyped'
    BY <1>6, GotoType, Labels, <1>0 DEF SwapRestarts, ControlTyped
  <2> QED
    BY <1>6, <2>1, <2>2, Frame DEF SwapRestarts
<1>7. ASSUME SwapRestartFails PROVE TypeOK'
  <2>1. ServerTyped'
    BY <1>7 DEF SwapRestartFails, ServerTyped, FailurePosted
  <2>2. PostTyped'
    BY <1>7, <1>m DEF SwapRestartFails, PostTyped, FailurePosted
  <2>3. ControlTyped'
    BY <1>7, GotoType, Labels, <1>0 DEF SwapRestartFails, ControlTyped
  <2>4. RecordTyped'
    BY <1>7, Ops, SpendType DEF SwapRestartFails, RecordTyped
  <2> QED
    BY <1>7, <2>1, <2>2, <2>3, <2>4, Frame DEF SwapRestartFails
<1>8. ASSUME SwapConfirms PROVE TypeOK'
  <2>1. PostTyped'
    BY <1>8, <1>m DEF SwapConfirms, PostTyped
  <2>2. ControlTyped'
    BY <1>8, GotoType, Labels, <1>0 DEF SwapConfirms, ControlTyped
  <2> QED
    BY <1>8, <2>1, <2>2, Frame DEF SwapConfirms
<1> QED
  BY <1>1, <1>2, <1>3, <1>4, <1>5, <1>6, <1>7, <1>8

\* What is posted to the pump.
LEMMA MailType ==
  ASSUME TypeOK, NEW t \in Task
  PROVE  /\ ServerReady => TypeOK'
         /\ ServerStartFailed => TypeOK'
         /\ CreateTask(t) => TypeOK'
         /\ RunLater => TypeOK'
         /\ TaskStarts(t) => TypeOK'
         /\ HistoryLoaded(t) => TypeOK'
         /\ ResumedStateUnreadable(t) => TypeOK'
         /\ DrainBacklog(t) => TypeOK'
<1> USE DEF TypeOK
<1>0. Pump \in Task
  BY DEF Task, Singleton
<1>1. ASSUME ServerReady PROVE TypeOK'
  <2>1. ServerTyped'
    BY <1>1 DEF ServerReady, ServerTyped
  <2>2. PostTyped'
    <3>1. Tail(mail) \in Seq(Mail)
      BY <1>1, SequenceTypes DEF ServerReady
    <3>2. <<"seq">> \in Seq(Mail) /\ <<"safe">> \in Seq(Mail) /\ <<>> \in Seq(Mail)
      BY Mails
    <3> QED
      BY <1>1, <3>1, <3>2, ConcatProperties DEF ServerReady, PostTyped
  <2> QED
    BY <1>1, <2>1, <2>2, Frame DEF ServerReady
<1>2. ASSUME ServerStartFailed PROVE TypeOK'
  <2>1. ServerTyped'
    BY <1>2 DEF ServerStartFailed, ServerTyped
  <2>2. PostTyped'
    BY <1>2, SequenceTypes DEF ServerStartFailed, PostTyped
  <2> QED
    BY <1>2, <2>1, <2>2, Frame DEF ServerStartFailed
<1>3. ASSUME CreateTask(t) PROVE TypeOK'
  <2>1. PostTyped'
    BY <1>3, SequenceTypes DEF CreateTask, PostTyped
  <2>2. ControlTyped'
    BY <1>3, Labels DEF CreateTask, ControlTyped
  <2> QED
    BY <1>3, <2>1, <2>2, Frame DEF CreateTask
<1>4. ASSUME RunLater PROVE TypeOK'
  <2>1. PostTyped'
    BY <1>4, SequenceTypes DEF RunLater, PostTyped
  <2>2. ControlTyped'
    BY <1>4, GotoType, Labels, <1>0 DEF RunLater, ControlTyped
  <2> QED
    BY <1>4, <2>1, <2>2, Frame DEF RunLater
<1>5. ASSUME TaskStarts(t) PROVE TypeOK'
  <2>1. StartTyped'
    BY <1>5 DEF TaskStarts, StartTyped, startVars
  <2>2. ControlTyped'
    BY <1>5, GotoType, Labels DEF TaskStarts, ControlTyped
  <2> QED
    BY <1>5, <2>1, <2>2, Frame DEF TaskStarts
<1>6. ASSUME HistoryLoaded(t) PROVE TypeOK'
  <2>1. StartTyped'
    BY <1>6 DEF HistoryLoaded, StartTyped
  <2>2. ControlTyped'
    BY <1>6, GotoType, Labels, PromptAssumption DEF HistoryLoaded, ControlTyped
  <2> QED
    BY <1>6, <2>1, <2>2, Frame DEF HistoryLoaded
<1>7. ASSUME ResumedStateUnreadable(t) PROVE TypeOK'
  <2>1. StartTyped'
    BY <1>7 DEF ResumedStateUnreadable, StartTyped
  <2>2. RecordTyped'
    BY <1>7, FateTypes, Fates, Ops, SpendType DEF ResumedStateUnreadable, RecordTyped
  <2>3. ControlTyped'
    BY <1>7, GotoType, Labels DEF ResumedStateUnreadable, ControlTyped
  <2> QED
    BY <1>7, <2>1, <2>2, <2>3, Frame DEF ResumedStateUnreadable
<1>8. ASSUME DrainBacklog(t) PROVE TypeOK'
  <2>1. ControlTyped'
    BY <1>8, GotoType, Labels DEF DrainBacklog, ControlTyped
  <2> QED
    BY <1>8, <2>1, Frame DEF DrainBacklog
<1> QED
  BY <1>1, <1>2, <1>3, <1>4, <1>5, <1>6, <1>7, <1>8

LEMMA NextType == TypeOK /\ [Next]_vars => TypeOK'
<1> SUFFICES ASSUME TypeOK, [Next]_vars PROVE TypeOK'
  OBVIOUS
<1>0. {Pump, Start, Swap, Login} \subseteq Task
  BY DEF Task, Singleton
<1>1. CASE Input
  BY <1>0, <1>1, InputType, SelectorType, InterruptType, ServerType, SwapType DEF Input
<1>2. CASE Fault
  BY <1>0, <1>2, SelectorType, MailType, ServerType, SwapType DEF Fault
<1>3. CASE StartStep \/ SwapStep
  BY <1>0, <1>3, ServerType, SwapType DEF StartStep, SwapStep
<1>4. CASE MailStep
  BY <1>0, <1>4, MailType DEF MailStep
<1>5. ASSUME NEW t \in Task, Step(t) PROVE TypeOK'
  <2>1. CASE \/ Process(t) \/ SendToAgent(t) \/ StartShell(t) \/ ResetThread(t)
             \/ ClearReturns(t) \/ Processed(t) \/ ProcessNext(t) \/ WidgetRemoved(t)
    BY <2>1, QueueType
  <2>2. CASE t \in Msg /\ (WorkerStarts(t) \/ WorkerEnds(t) \/ SpinnerRemoved(t))
    BY <2>2, WorkerType
  <2>3. CASE \/ MaybeDrainDeferred(t) \/ DrainDeferred(t) \/ ResumeThread(t)
             \/ HistoryPrefetched(t) \/ SwitchThread(t) \/ ThreadSwitchReturns(t)
             \/ SwitchModel(t) \/ RetryStartup(t) \/ ActionReturns(t)
    BY <2>3, DrainType, SelectorType
  <2>4. CASE \/ LoginLater(t) \/ Respawned(t) \/ RestartSevers
             \/ TaskStarts(t) \/ HistoryLoaded(t) \/ DrainBacklog(t)
    BY <2>4, ServerType, MailType
  <2> QED
    BY <1>5, <2>1, <2>2, <2>3, <2>4 DEF Step, SpinnerRemoved
<1>6. CASE UNCHANGED vars
  BY <1>6, Frame DEF TypeOK, vars
<1> QED
  BY <1>1, <1>2, <1>3, <1>4, <1>5, <1>6 DEF Next

\* The session core is type-correct, whatever the messages, the tasks, the
\* initial prompt and the budget.
THEOREM TypeCorrect == Spec => []TypeOK
<1> QED
  BY InitType, NextType, PTL DEF Spec

-----------------------------------------------------------------------------
(***************************************************************************)
(* The discipline of the input queue: QueueInv is inductive, hence         *)
(* OneDrain and Conserved hold in every state of the session core.         *)
(***************************************************************************)

HandPoint == HoldPoint \cup DonePoint

\* A move of task t that leaves what is in hand where it is.
Keeps(t) ==
  \/ pc'[t] = pc[t]
  \/ pc[t] \notin HandPoint /\ pc'[t] \notin HandPoint \cup {"history"}
  \/ pc[t] \in HoldPoint /\ pc'[t] \in HoldPoint /\ cur[t] # None
  \/ pc[t] \in DonePoint /\ pc'[t] \in DonePoint
  \/ t = Pump /\ cur[t] = None /\ pc'[t] \in {"clearing", "cleared", "processed"}
Moves == /\ \A t \in Task : Keeps(t)
         /\ Places'
         /\ \A m \in Msg : pc[m] = "idle" => pc'[m] = "idle"
Still == UNCHANGED <<cur, processingPending, sessionStarted>>

-----------------------------------------------------------------------------
(* What the invariant says of one or two tasks. *)

\* The tasks are what their names say.
LEMMA Tasks ==
  /\ {Pump, Start, Swap, Login} \subseteq Task /\ Msg \subseteq Task
  /\ {Pump, Start, Swap, Login} \cap Msg = {}
  /\ Pump \notin {Start, Swap, Login} \cup SeqTask \cup SafeTask \cup LaterTask
  /\ SeqTask \subseteq Task /\ (SeqTask \cup SafeTask \cup LaterTask) \cap Msg = {}
  /\ None \notin Task /\ None \notin Msg
  BY TaskAssumption DEF Task, Singleton

\* The places where a message is in hand.
LEMMA Points ==
  /\ HoldPoint \cap DonePoint = {}
  /\ HoldPoint \cup DonePoint = HandPoint
  /\ {"popped", "process", "mounting", "clearing"} \subseteq HoldPoint
  /\ {"cleared", "processed"} \subseteq DonePoint
  /\ {"history", "idle", "created", "starting"} \cap HandPoint = {}
  BY DEF HoldPoint, DonePoint, HandPoint

\* What is in hand is a message and not in the queue.
LEMMA NotQueued ==
  ASSUME TypeOK, QueueInv, NEW t \in Task, cur[t] # None
  PROVE  /\ cur[t] \in Msg
         /\ \A i \in DOMAIN queue : queue[i] # cur[t]
<1>1. cur[t] \in Msg
  BY DEF TypeOK, ControlTyped
<1>2. pc[t] \in HoldPoint \cup DonePoint
  BY DEF QueueInv, InHand
<1>3. ASSUME NEW i \in DOMAIN queue, queue[i] = cur[t] PROVE FALSE
  <2>1. fate[cur[t]] = "queued"
    BY <1>3 DEF QueueInv, Conserved
  <2>2. pc[t] \in HoldPoint /\ t \in Draining
    BY <1>2, <2>1 DEF QueueInv, HandFate
  <2> QED
    BY <1>3, <2>2 DEF QueueInv, Conserved
<1> QED
  BY <1>1, <1>3

\* No two tasks have the same message in hand until it is dispatched.
LEMMA CurUnique ==
  ASSUME TypeOK, QueueInv, NEW t \in Task, NEW u \in Task,
         cur[t] # None, cur[t] = cur[u], pc[t] \in HoldPoint
  PROVE  t = u
<1>1. fate[cur[t]] = IF t \in Draining THEN "queued" ELSE "taken"
  BY DEF QueueInv, HandFate
<1>2. pc[u] \in HoldPoint
  BY <1>1 DEF QueueInv, InHand, HandFate
<1>3. fate[cur[u]] = IF u \in Draining THEN "queued" ELSE "taken"
  BY <1>2 DEF QueueInv, HandFate
<1>4. CASE t \in Draining
  BY <1>1, <1>3, <1>4 DEF QueueInv, OneDrain
<1>5. CASE t \notin Draining
  <2>1. u \notin Draining
    BY <1>1, <1>3, <1>5
  <2>2. CASE cur[t] = InitialPrompt
    BY <2>2 DEF QueueInv, PromptOnce, Prompting
  <2>3. CASE cur[t] # InitialPrompt
    BY <1>2, <1>5, <2>1, <2>3 DEF Draining
  <2> QED
    BY <2>2, <2>3
<1> QED
  BY <1>4, <1>5

-----------------------------------------------------------------------------
(* Steps that leave what is in hand where it is. *)

LEMMA ControlKept ==
  ASSUME TypeOK, QueueInv, Still, Moves
  PROVE  /\ Draining' = Draining
         /\ InHand' /\ Places'
         /\ \A t \in Task : /\ cur'[t] = cur[t]
                            /\ cur[t] # None /\ pc'[t] \in HoldPoint => pc[t] \in HoldPoint
                            /\ cur[t] # None /\ pc'[t] \in DonePoint => pc[t] \in DonePoint
                            /\ Prompting(t)' => Prompting(t)
                            /\ pc'[t] = "history" => pc[t] = "history"
         /\ \A m \in Msg : pc'[m] # "idle" => pc[m] # "idle"
<1>1. ASSUME NEW t \in Task
      PROVE  /\ cur[t] # None /\ pc'[t] \in HoldPoint => pc[t] \in HoldPoint
             /\ cur[t] # None /\ pc'[t] \in DonePoint => pc[t] \in DonePoint
             /\ cur[t] # None => pc'[t] \in HandPoint
             /\ pc'[t] \in HandPoint => cur[t] # None \/ t = Pump
             /\ pc'[t] \in {"popped", "process", "mounting"} => cur[t] # None
             /\ pc'[t] = "history" => pc[t] = "history"
             /\ t # Pump => (pc'[t] \in HandPoint <=> pc[t] \in HandPoint)
  <2>1. Keeps(t) /\ (cur[t] # None => pc[t] \in HandPoint)
    BY Points DEF Moves, QueueInv, InHand
  <2>2. pc[t] \in HandPoint => cur[t] # None \/ t = Pump
    BY Points DEF QueueInv, InHand
  <2>3. pc[t] \in {"popped", "process", "mounting"} => cur[t] # None
    BY DEF QueueInv, InHand
  <2> QED
    BY <2>1, <2>2, <2>3 DEF Keeps, HandPoint, HoldPoint, DonePoint
<1>2. cur' = cur
  BY DEF Still
<1>3. Draining' = Draining
  BY <1>1, <1>2, Points DEF Draining
<1>4. InHand'
  BY <1>1, <1>2, Points DEF InHand
<1> QED
  BY <1>1, <1>2, <1>3, <1>4 DEF Moves, Prompting

\* A step that leaves the queue alone.
LEMMA QuietStep ==
  ASSUME TypeOK, QueueInv, Still, Moves, UNCHANGED <<queue, fate>>
  PROVE  QueueInv'
<1>1. OneDrain' /\ Conserved'
  BY ControlKept DEF QueueInv, OneDrain, Conserved, Still
<1>2. HandFate'
  BY ControlKept DEF QueueInv, HandFate, Still
<1>3. WorkerFate'
  BY ControlKept DEF QueueInv, WorkerFate
<1>4. PromptOnce'
  BY ControlKept DEF QueueInv, PromptOnce, Still
<1> QED
  BY <1>1, <1>2, <1>3, <1>4, ControlKept DEF QueueInv

\* A step that drops the queue.
LEMMA DiscardStep ==
  ASSUME TypeOK, QueueInv, Still, Moves, queue' = <<>>, fate' = Discarded(fate)
  PROVE  QueueInv'
<1>1. \A m \in Msg : /\ fate'[m] = "queued" =>
                          fate[m] = "queued" /\ \A i \in DOMAIN queue : queue[i] # m
                     /\ fate[m] # "queued" => fate'[m] = fate[m]
                     /\ fate[m] = "queued" => fate'[m] \in {"queued", "discarded"}
                     /\ (\A i \in DOMAIN queue : queue[i] # m) => fate'[m] = fate[m]
  <2> SUFFICES ASSUME NEW m \in Msg
               PROVE  /\ fate'[m] = "queued" =>
                           fate[m] = "queued" /\ \A i \in DOMAIN queue : queue[i] # m
                      /\ fate[m] # "queued" => fate'[m] = fate[m]
                      /\ fate[m] = "queued" => fate'[m] \in {"queued", "discarded"}
                      /\ (\A i \in DOMAIN queue : queue[i] # m) => fate'[m] = fate[m]
    OBVIOUS
  <2>1. fate'[m] = IF \E i \in DOMAIN queue : queue[i] = m THEN "discarded" ELSE fate[m]
    BY DEF Discarded, Range
  <2>2. (\E i \in DOMAIN queue : queue[i] = m) => fate[m] = "queued"
    BY DEF QueueInv, Conserved
  <2> QED
    BY <2>1, <2>2
<1>2. DOMAIN queue' = {}
  OBVIOUS
<1>3. OneDrain'
  BY ControlKept DEF QueueInv, OneDrain, Still
<1>4. Conserved'
  <2>1. Draining' = Draining /\ cur' = cur
    BY ControlKept DEF Still
  <2> QED
    BY <1>1, <1>2, <2>1 DEF QueueInv, Conserved
<1>5. HandFate'
  BY <1>1, ControlKept, NotQueued DEF QueueInv, HandFate
<1>6. WorkerFate'
  BY <1>1, ControlKept DEF QueueInv, WorkerFate
<1>7. PromptOnce'
  <2>1. InitialPrompt # None => fate'[InitialPrompt] = fate[InitialPrompt]
    BY <1>1, PromptAssumption DEF QueueInv, PromptOnce
  <2> QED
    BY <2>1, ControlKept DEF QueueInv, PromptOnce, Still
<1> QED
  BY <1>3, <1>4, <1>5, <1>6, <1>7, ControlKept DEF QueueInv

-----------------------------------------------------------------------------
(* Steps that take a message, pass it on or let it go. *)

\* A task dispatches what it has in hand: to a worker, or to nobody.
LEMMA DispatchStep ==
  ASSUME TypeOK, QueueInv, Still, queue' = queue,
         NEW t \in Task, cur[t] # None, pc[t] \in HoldPoint,
         NEW f \in {"turn", "shell", "lost", "cleared"},
         fate' = [fate EXCEPT ![cur[t]] = f],
         pc'[t] \in DonePoint,
         \A u \in Task \ {t} : \/ pc'[u] = pc[u]
                               \/ u = cur[t] /\ f \in {"turn", "shell"} /\ pc'[u] = "created"
  PROVE  QueueInv'
<1> DEFINE m == cur[t]
<1>0. /\ cur' = cur /\ processingPending' = processingPending
      /\ sessionStarted' = sessionStarted
  BY DEF Still
<1>1. m \in Msg /\ \A i \in DOMAIN queue : queue[i] # m
  BY NotQueued
<1>2. fate[m] \in {"queued", "taken"}
  BY DEF QueueInv, HandFate
<1>3. pc[m] = "idle" /\ m # t /\ m \in Task /\ m # Pump
  BY <1>1, <1>2, Points, Tasks DEF QueueInv, WorkerFate
<1>4. /\ fate'[m] = f
      /\ \A n \in Msg : n # m => fate'[n] = fate[n]
  BY <1>1 DEF TypeOK, RecordTyped
<1>5. \A u \in Task : /\ u # t /\ u # m => pc'[u] = pc[u]
                      /\ pc'[u] \in HandPoint <=> pc[u] \in HandPoint
                      /\ pc'[u] \in HoldPoint => pc[u] \in HoldPoint /\ u # t /\ pc'[u] = pc[u]
                      /\ u # t => (pc'[u] \in DonePoint => pc[u] \in DonePoint)
                      /\ pc'[u] = "history" => pc[u] = "history" /\ u # t
  BY <1>3, Points DEF HandPoint, HoldPoint, DonePoint
<1>6. Draining' = Draining
  BY <1>0, <1>5, Points DEF Draining
<1>7. \A u \in Task : u # t => cur[u] # m
  BY CurUnique
<1>8. OneDrain'
  BY <1>0, <1>6 DEF QueueInv, OneDrain
<1>9. Conserved'
  <2>1. \A i \in DOMAIN queue : fate'[queue[i]] = "queued"
    <3>1. \A i \in DOMAIN queue : queue[i] \in Msg
      BY ElementOfSeq, LenProperties DEF TypeOK, QueueTyped
    <3> QED
      BY <1>1, <1>4, <3>1 DEF QueueInv, Conserved
  <2>2. \A n \in Msg : fate'[n] = "queued" => fate[n] = "queued"
    BY <1>4
  <2> QED
    BY <1>0, <1>6, <2>1, <2>2 DEF QueueInv, Conserved
<1>10. InHand'
  BY <1>0, <1>5, Points DEF QueueInv, InHand
<1>11. HandFate'
  <2> SUFFICES ASSUME NEW u \in Task, cur[u] # None
               PROVE  /\ pc'[u] \in HoldPoint =>
                           fate'[cur[u]] = IF u \in Draining THEN "queued" ELSE "taken"
                      /\ pc'[u] \in DonePoint =>
                           fate'[cur[u]] \in {"turn", "shell", "lost", "cleared"}
    BY <1>0, <1>6 DEF HandFate
  <2>1. CASE u = t
    BY <1>4, <2>1, Points
  <2>2. CASE u # t
    <3>1. cur[u] \in Msg /\ cur[u] # m
      BY <1>7, <2>2, NotQueued
    <3> QED
      BY <1>4, <1>5, <2>2, <3>1 DEF QueueInv, HandFate
  <2> QED
    BY <2>1, <2>2
<1>12. WorkerFate'
  <2> SUFFICES ASSUME NEW n \in Msg, pc'[n] # "idle" PROVE fate'[n] \in {"turn", "shell"}
    BY DEF WorkerFate
  <2>1. CASE n = m
    BY <1>3, <1>4, <2>1
  <2>2. CASE n = t
    BY <1>4, <2>2, <1>3, Points DEF QueueInv, WorkerFate
  <2>3. CASE n # m /\ n # t
    BY <1>4, <1>5, <2>3, Tasks DEF QueueInv, WorkerFate
  <2> QED
    BY <2>1, <2>2, <2>3
<1>13. Places'
  <2>1. pc[Start] \in {"idle", "starting"} /\ pc[Pump] \in PumpPoint \ {"popped"}
    BY DEF QueueInv, Places
  <2>2. Start # t /\ Start # m /\ Start \in Task
    BY <1>1, <2>1, Points, Tasks
  <2>3. pc'[Start] = pc[Start] /\ pc'[Pump] \in {pc[Pump], pc'[t]}
    BY <1>3, <1>5, <2>2, Tasks
  <2>4. pc'[t] \in PumpPoint \ {"popped"}
    BY DEF PumpPoint, DonePoint
  <2> QED
    BY <2>1, <2>3, <2>4 DEF Places
<1>14. PromptOnce'
  <2>1. \A u \in Task : Prompting(u)' => Prompting(u)
    BY <1>0, <1>5 DEF Prompting
  <2>2. InitialPrompt # None =>
          /\ fate'[InitialPrompt] \notin {"new", "queued"}
          /\ ~sessionStarted \/ (\E u \in Task : pc'[u] = "history")
               => fate'[InitialPrompt] = "taken"
    <3> SUFFICES ASSUME InitialPrompt # None
                 PROVE  /\ fate'[InitialPrompt] \notin {"new", "queued"}
                        /\ ~sessionStarted \/ (\E u \in Task : pc'[u] = "history")
                             => fate'[InitialPrompt] = "taken"
      OBVIOUS
    <3>1. InitialPrompt \in Msg
      BY PromptAssumption
    <3>2. CASE m = InitialPrompt
      <4>1. Prompting(t)
        BY <3>2 DEF Prompting
      <4>2. sessionStarted /\ \A u \in Task : pc[u] # "history" \/ u = t
        BY <4>1 DEF QueueInv, PromptOnce, Prompting
      <4> QED
        BY <1>4, <1>5, <3>2, <4>2
    <3>3. CASE m # InitialPrompt
      BY <1>4, <1>5, <3>1, <3>3 DEF QueueInv, PromptOnce
    <3> QED
      BY <3>2, <3>3
  <2> QED
    BY <1>0, <2>1, <2>2 DEF QueueInv, PromptOnce
<1> QED
  BY <1>8, <1>9, <1>10, <1>11, <1>12, <1>13, <1>14 DEF QueueInv

\* A task is done with its message.
LEMMA ProcessedStep ==
  ASSUME TypeOK, QueueInv, NEW t \in Task, Processed(t)
  PROVE  QueueInv'
<1>0. /\ pc[t] = "processed" /\ pc' = [pc EXCEPT ![t] = pc'[t]]
      /\ pc'[t] \in {"idle", "done", "next"} /\ (t = Pump => pc'[t] = "idle")
      /\ cur' = [cur EXCEPT ![t] = None]
      /\ queue' = queue /\ fate' = fate /\ sessionStarted' = sessionStarted
      /\ IF t = Pump \/ cur[t] = InitialPrompt THEN processingPending' = processingPending
                                              ELSE ~processingPending'
  BY DEF Processed, At, Goto, TypeOK, ControlTyped, startVars
<1>1. /\ pc'[t] \notin HandPoint /\ pc[t] \in DonePoint /\ pc'[t] # "history"
      /\ cur'[t] = None /\ pc'[t] \notin {"popped", "process", "mounting"}
      /\ \A u \in Task : u # t => pc'[u] = pc[u] /\ cur'[u] = cur[u]
  BY <1>0, Points DEF TypeOK, ControlTyped, HandPoint, HoldPoint, DonePoint
<1>2. Draining' = Draining \ {t}
  BY <1>1, Points DEF Draining
<1>3. t \in Draining <=> t # Pump /\ cur[t] # InitialPrompt
  BY <1>1, Points DEF Draining
<1>4. OneDrain'
  BY <1>0, <1>2, <1>3 DEF QueueInv, OneDrain
<1>5. t \in Draining => fate[cur[t]] # "queued"
  BY <1>1, Points DEF QueueInv, InHand, HandFate, Draining
<1>6. Conserved'
  <2>1. \A u \in Draining' : u \in Draining /\ cur'[u] = cur[u]
    BY <1>1, <1>2 DEF Draining
  <2>2. \A n \in Msg : fate[n] = "queued" =>
          \/ \E i \in DOMAIN queue : queue[i] = n
          \/ \E u \in Draining' : cur'[u] = n
    <3> SUFFICES ASSUME NEW n \in Msg, fate[n] = "queued",
                        \A i \in DOMAIN queue : queue[i] # n
                 PROVE  \E u \in Draining' : cur'[u] = n
      OBVIOUS
    <3>1. PICK u \in Draining : cur[u] = n
      BY DEF QueueInv, Conserved
    <3>2. u # t /\ u \in Task
      BY <1>5, <3>1 DEF Draining
    <3> QED
      BY <1>1, <1>2, <3>1, <3>2
  <2> QED
    BY <1>0, <2>1, <2>2 DEF QueueInv, Conserved
<1>7. InHand'
  BY <1>1, Points DEF QueueInv, InHand
<1>8. HandFate'
  BY <1>0, <1>1, <1>2, Points DEF QueueInv, HandFate
<1>9. WorkerFate'
  BY <1>0, <1>1, Points, Tasks DEF QueueInv, WorkerFate
<1>10. Places'
  BY <1>0, <1>1, Tasks DEF QueueInv, Places, PumpPoint
<1>11. PromptOnce'
  BY <1>0, <1>1 DEF QueueInv, PromptOnce, Prompting
<1> QED
  BY <1>4, <1>6, <1>7, <1>8, <1>9, <1>10, <1>11 DEF QueueInv

\* A drain pops the oldest message.
LEMMA PopStep ==
  ASSUME TypeOK, QueueInv, NEW t \in Task, ProcessNext(t), ~DrainBlocked
  PROVE  QueueInv'
<1> DEFINE m == Head(queue)
<1>0. /\ pc[t] = "next" /\ pc' = [pc EXCEPT ![t] = "popped"]
      /\ cur' = [cur EXCEPT ![t] = m] /\ queue' = Tail(queue)
      /\ ~processingPending /\ processingPending' = TRUE
      /\ fate' = fate /\ sessionStarted' = sessionStarted /\ queue # <<>>
  BY DEF ProcessNext, At, Goto, DrainBlocked, WithoutOldest, startVars
<1>1. /\ pc'[t] = "popped" /\ cur'[t] = m
      /\ \A u \in Task : u # t => pc'[u] = pc[u] /\ cur'[u] = cur[u]
  BY <1>0 DEF TypeOK, ControlTyped
<1>2. /\ m \in Msg /\ m # None /\ Len(queue) \in Nat \ {0} /\ DOMAIN queue = 1 .. Len(queue)
      /\ m = queue[1] /\ DOMAIN queue' = 1 .. (Len(queue) - 1)
      /\ \A i \in DOMAIN queue' : queue'[i] = queue[i + 1] /\ i + 1 \in DOMAIN queue
  <2>1. queue \in Seq(Msg) /\ queue # <<>>
    BY <1>0 DEF TypeOK, QueueTyped
  <2>2. Len(queue) \in Nat \ {0} /\ DOMAIN queue = 1 .. Len(queue)
    BY <2>1, LenProperties, EmptySeq
  <2>3. m \in Msg /\ m = queue[1]
    BY <2>1, <2>2, HeadTailProperties, ElementOfSeq
  <2>4. /\ Tail(queue) \in Seq(Msg) /\ Len(Tail(queue)) = Len(queue) - 1
        /\ \A i \in 1 .. Len(Tail(queue)) : Tail(queue)[i] = queue[i + 1]
    BY <2>1, HeadTailProperties
  <2>5. DOMAIN Tail(queue) = 1 .. (Len(queue) - 1)
    BY <2>4, LenProperties
  <2> QED
    BY <1>0, <2>2, <2>3, <2>4, <2>5, Tasks
<1>3. /\ fate[m] = "queued" /\ m # InitialPrompt /\ t # Pump /\ cur[t] = None
      /\ pc[t] \notin HandPoint
  <2>1. fate[m] = "queued"
    BY <1>2 DEF QueueInv, Conserved
  <2>2. m # InitialPrompt
    BY <1>2, <2>1 DEF QueueInv, PromptOnce
  <2>3. t # Pump
    BY <1>0 DEF QueueInv, Places, PumpPoint, HoldPoint, DonePoint
  <2>4. pc[t] \notin HandPoint
    BY <1>0 DEF HandPoint, HoldPoint, DonePoint
  <2> QED
    BY <2>1, <2>2, <2>3, <2>4, Points DEF QueueInv, InHand
<1>4. Draining = {} /\ Draining' = {t}
  <2>1. Draining = {}
    BY <1>0 DEF QueueInv, OneDrain
  <2>2. t \in Draining'
    BY <1>1, <1>3, Points DEF Draining
  <2>3. \A u \in Draining' : u = t
    BY <1>1, <2>1 DEF Draining
  <2> QED
    BY <2>1, <2>2, <2>3
<1>5. OneDrain'
  BY <1>0, <1>4 DEF OneDrain
<1>6. Conserved'
  <2>1. \A i, j \in DOMAIN queue' : queue'[i] = queue'[j] => i = j
    <3> SUFFICES ASSUME NEW i \in DOMAIN queue', NEW j \in DOMAIN queue',
                        queue'[i] = queue'[j]
                 PROVE  i = j
      OBVIOUS
    <3>1. i + 1 = j + 1
      BY <1>2 DEF QueueInv, Conserved
    <3>2. i \in Int /\ j \in Int
      BY <1>2
    <3> QED
      BY <3>1, <3>2
  <2>2. \A i \in DOMAIN queue' : fate'[queue'[i]] = "queued"
    BY <1>0, <1>2 DEF QueueInv, Conserved
  <2>3. \A n \in Msg : fate'[n] = "queued" =>
          \/ \E i \in DOMAIN queue' : queue'[i] = n
          \/ \E u \in Draining' : cur'[u] = n
    <3> SUFFICES ASSUME NEW n \in Msg, fate[n] = "queued", n # m
                 PROVE  \E i \in DOMAIN queue' : queue'[i] = n
      BY <1>0, <1>1, <1>4
    <3>1. PICK i \in DOMAIN queue : queue[i] = n
      BY <1>4 DEF QueueInv, Conserved
    <3>2. i # 1 /\ i \in 1 .. Len(queue)
      BY <1>2, <3>1
    <3>3. i - 1 \in DOMAIN queue' /\ (i - 1) + 1 = i
      BY <1>2, <3>2
    <3> QED
      BY <1>2, <3>1, <3>3
  <2>4. \A i \in DOMAIN queue' : m # queue'[i]
    <3> SUFFICES ASSUME NEW i \in DOMAIN queue', m = queue'[i] PROVE FALSE
      OBVIOUS
    <3>1. queue[1] = queue[i + 1] /\ 1 \in DOMAIN queue /\ i + 1 \in DOMAIN queue
      BY <1>2
    <3>2. 1 = i + 1
      BY <3>1 DEF QueueInv, Conserved
    <3> QED
      BY <1>2, <3>2
  <2> QED
    BY <1>1, <1>4, <2>1, <2>2, <2>3, <2>4 DEF Conserved
<1>7. InHand'
  BY <1>1, <1>2, Points DEF QueueInv, InHand
<1>8. HandFate'
  <2> SUFFICES ASSUME NEW u \in Task, cur'[u] # None
               PROVE  /\ pc'[u] \in HoldPoint =>
                           fate[cur'[u]] = IF u = t THEN "queued" ELSE "taken"
                      /\ pc'[u] \in DonePoint =>
                           fate[cur'[u]] \in {"turn", "shell", "lost", "cleared"}
    BY <1>0, <1>4 DEF HandFate
  <2>1. CASE u = t
    BY <1>1, <1>3, <2>1, Points
  <2>2. CASE u # t
    BY <1>1, <1>4, <2>2 DEF QueueInv, HandFate
  <2> QED
    BY <2>1, <2>2
<1>9. WorkerFate'
  BY <1>0, <1>1, Tasks DEF QueueInv, WorkerFate
<1>10. Places'
  BY <1>0, <1>1, <1>3, Tasks DEF QueueInv, Places
<1>11. PromptOnce'
  BY <1>0, <1>1, <1>3 DEF QueueInv, PromptOnce, Prompting
<1> QED
  BY <1>5, <1>6, <1>7, <1>8, <1>9, <1>10, <1>11 DEF QueueInv

\* A new message is queued.
LEMMA EnqueueStep ==
  ASSUME TypeOK, QueueInv, NEW m \in Msg, fate[m] = "new",
         queue' = Append(queue, m), fate' = [fate EXCEPT ![m] = "queued"],
         UNCHANGED ctlVars, UNCHANGED <<processingPending, sessionStarted>>
  PROVE  QueueInv'
<1>0. /\ cur' = cur /\ pc' = pc /\ Draining' = Draining
      /\ processingPending' = processingPending /\ sessionStarted' = sessionStarted
  BY DEF ctlVars, Draining
<1>1. fate'[m] = "queued" /\ \A n \in Msg : n # m => fate'[n] = fate[n]
  BY DEF TypeOK, RecordTyped
<1>2. /\ Len(queue) \in Nat /\ DOMAIN queue = 1 .. Len(queue)
      /\ DOMAIN queue' = 1 .. (Len(queue) + 1) /\ queue'[Len(queue) + 1] = m
      /\ \A i \in DOMAIN queue : /\ queue'[i] = queue[i] /\ queue[i] \in Msg
                                 /\ queue[i] # m
  <2>1. queue \in Seq(Msg)
    BY DEF TypeOK, QueueTyped
  <2>2. Len(queue) \in Nat /\ DOMAIN queue = 1 .. Len(queue)
    BY <2>1, LenProperties
  <2>3. /\ Append(queue, m) \in Seq(Msg) /\ Len(Append(queue, m)) = Len(queue) + 1
        /\ \A i \in 1 .. Len(queue) : Append(queue, m)[i] = queue[i]
        /\ Append(queue, m)[Len(queue) + 1] = m
    BY <2>1, AppendProperties
  <2>4. DOMAIN Append(queue, m) = 1 .. (Len(queue) + 1)
    BY <2>3, LenProperties
  <2>5. \A i \in DOMAIN queue : queue[i] \in Msg /\ queue[i] # m
    BY <2>1, <2>2, ElementOfSeq DEF QueueInv, Conserved
  <2> QED
    BY <2>2, <2>3, <2>4, <2>5
<1>3. \A t \in Task : cur[t] # None => cur[t] \in Msg /\ cur[t] # m
  <2> SUFFICES ASSUME NEW t \in Task, cur[t] # None PROVE cur[t] \in Msg /\ cur[t] # m
    OBVIOUS
  <2>1. cur[t] \in Msg
    BY NotQueued
  <2>2. fate[cur[t]] # "new"
    BY DEF QueueInv, InHand, HandFate
  <2> QED
    BY <2>1, <2>2
<1>4. OneDrain'
  BY <1>0 DEF QueueInv, OneDrain
<1>5. Conserved'
  <2>0. \A i \in DOMAIN queue' : i \in DOMAIN queue \/ i = Len(queue) + 1
    BY <1>2
  <2>1. \A i, j \in DOMAIN queue' : queue'[i] = queue'[j] => i = j
    BY <1>2, <2>0 DEF QueueInv, Conserved
  <2>2. \A i \in DOMAIN queue' : fate'[queue'[i]] = "queued"
    BY <1>1, <1>2, <2>0 DEF QueueInv, Conserved
  <2>3. \A n \in Msg : fate'[n] = "queued" =>
          \/ \E i \in DOMAIN queue' : queue'[i] = n
          \/ \E u \in Draining' : cur'[u] = n
    <3> SUFFICES ASSUME NEW n \in Msg, fate'[n] = "queued"
                 PROVE  \/ \E i \in DOMAIN queue' : queue'[i] = n
                        \/ \E u \in Draining : cur[u] = n
      BY <1>0
    <3>1. CASE n = m
      BY <1>2, <3>1
    <3>2. CASE n # m
      <4>1. \/ \E i \in DOMAIN queue : queue[i] = n
            \/ \E u \in Draining : cur[u] = n
        BY <1>1, <3>2 DEF QueueInv, Conserved
      <4>2. DOMAIN queue \subseteq DOMAIN queue'
        BY <1>2
      <4> QED
        BY <1>2, <4>1, <4>2
    <3> QED
      BY <3>1, <3>2
  <2>4. \A u \in Draining, i \in DOMAIN queue' : cur[u] # queue'[i]
    <3> SUFFICES ASSUME NEW u \in Draining, NEW i \in DOMAIN queue', cur[u] = queue'[i]
                 PROVE  FALSE
      OBVIOUS
    <3>1. u \in Task
      BY DEF Draining
    <3>2. queue'[i] \in Msg /\ queue'[i] # None
      BY <1>2, <2>0, Tasks
    <3>3. cur[u] # m
      BY <1>3, <3>1, <3>2
    <3> QED
      BY <1>2, <2>0, <3>3 DEF QueueInv, Conserved
  <2> QED
    BY <1>0, <2>1, <2>2, <2>3, <2>4 DEF Conserved
<1>6. InHand' /\ Places'
  BY <1>0 DEF QueueInv, InHand, Places
<1>7. HandFate'
  BY <1>0, <1>1, <1>3 DEF QueueInv, HandFate
<1>8. WorkerFate'
  BY <1>0, <1>1 DEF QueueInv, WorkerFate
<1>9. PromptOnce'
  <2>1. InitialPrompt # None => fate'[InitialPrompt] = fate[InitialPrompt]
    BY <1>1, PromptAssumption DEF QueueInv, PromptOnce
  <2> QED
    BY <1>0, <2>1 DEF QueueInv, PromptOnce, Prompting
<1> QED
  BY <1>4, <1>5, <1>6, <1>7, <1>8, <1>9 DEF QueueInv

\* A new message is refused, or the pump takes it.
LEMMA TakeStep ==
  ASSUME TypeOK, QueueInv, NEW m \in Msg, fate[m] = "new", pc[Pump] = "idle",
         \/ fate' = [fate EXCEPT ![m] = "refused"] /\ UNCHANGED ctlVars
         \/ /\ fate' = [fate EXCEPT ![m] = "taken"]
            /\ cur' = [cur EXCEPT ![Pump] = m] /\ pc' = [pc EXCEPT ![Pump] = "process"],
         UNCHANGED <<queue, processingPending, sessionStarted>>
  PROVE  QueueInv'
<1>0. /\ queue' = queue /\ processingPending' = processingPending
      /\ sessionStarted' = sessionStarted
  OBVIOUS
<1>1. /\ fate'[m] \in {"refused", "taken"}
      /\ \A n \in Msg : n # m => fate'[n] = fate[n]
  BY DEF TypeOK, RecordTyped
<1>2. \A u \in Task : u # Pump => pc'[u] = pc[u] /\ cur'[u] = cur[u]
  BY DEF TypeOK, ControlTyped, ctlVars
<1>3. \/ pc'[Pump] = "idle" /\ cur'[Pump] = None
      \/ pc'[Pump] = "process" /\ cur'[Pump] = m /\ fate'[m] = "taken"
  <2>1. cur[Pump] = None
    BY Points, Tasks DEF QueueInv, InHand
  <2> QED
    BY <2>1, Tasks DEF TypeOK, ControlTyped, RecordTyped, ctlVars
<1>4. Draining' = Draining
  BY <1>2 DEF Draining
<1>5. \A t \in Task : cur[t] # None => cur[t] \in Msg /\ cur[t] # m
  <2> SUFFICES ASSUME NEW t \in Task, cur[t] # None PROVE cur[t] \in Msg /\ cur[t] # m
    OBVIOUS
  <2>1. cur[t] \in Msg
    BY NotQueued
  <2>2. fate[cur[t]] # "new"
    BY DEF QueueInv, InHand, HandFate
  <2> QED
    BY <2>1, <2>2
<1>6. \A u \in Draining : u \in Task /\ u # Pump /\ cur'[u] = cur[u]
  BY <1>2 DEF Draining
<1>7. OneDrain'
  BY <1>0, <1>4 DEF QueueInv, OneDrain
<1>8. Conserved'
  <2>1. \A i \in DOMAIN queue : fate'[queue[i]] = "queued"
    <3>1. \A i \in DOMAIN queue : queue[i] \in Msg
      BY ElementOfSeq, LenProperties DEF TypeOK, QueueTyped
    <3> QED
      BY <1>1, <3>1 DEF QueueInv, Conserved
  <2>2. \A n \in Msg : fate'[n] = "queued" => fate[n] = "queued"
    BY <1>1
  <2> QED
    BY <1>0, <1>4, <1>6, <2>1, <2>2 DEF QueueInv, Conserved
<1>9. InHand'
  BY <1>2, <1>3, Points, Tasks DEF QueueInv, InHand
<1>10. HandFate'
  <2> SUFFICES ASSUME NEW u \in Task, cur'[u] # None
               PROVE  /\ pc'[u] \in HoldPoint =>
                           fate'[cur'[u]] = IF u \in Draining THEN "queued" ELSE "taken"
                      /\ pc'[u] \in DonePoint =>
                           fate'[cur'[u]] \in {"turn", "shell", "lost", "cleared"}
    BY <1>4 DEF HandFate
  <2>1. CASE u = Pump
    BY <1>3, <1>6, <2>1, Points
  <2>2. CASE u # Pump
    <3>1. pc'[u] = pc[u] /\ cur'[u] = cur[u]
      BY <1>2, <2>2
    <3>2. fate'[cur[u]] = fate[cur[u]]
      BY <1>1, <1>5, <3>1
    <3> QED
      BY <3>1, <3>2 DEF QueueInv, HandFate
  <2> QED
    BY <2>1, <2>2
<1>11. WorkerFate'
  BY <1>1, <1>2, Tasks DEF QueueInv, WorkerFate
<1>12. Places'
  <2>1. pc'[Pump] \in PumpPoint \ {"popped"}
    BY <1>3 DEF PumpPoint, HoldPoint
  <2> QED
    BY <1>2, <2>1, Tasks DEF QueueInv, Places
<1>13. PromptOnce'
  <2>1. InitialPrompt # None => fate'[InitialPrompt] = fate[InitialPrompt] /\ m # InitialPrompt
    BY <1>1, PromptAssumption DEF QueueInv, PromptOnce
  <2>2. \A t \in Task : Prompting(t)' => Prompting(t) /\ t # Pump
    BY <1>2, <1>3, <2>1, Tasks DEF QueueInv, PromptOnce, Prompting
  <2>3. \A t \in Task : pc'[t] = "history" => pc[t] = "history"
    BY <1>2, <1>3
  <2> QED
    BY <1>0, <2>1, <2>2, <2>3 DEF QueueInv, PromptOnce
<1> QED
  BY <1>7, <1>8, <1>9, <1>10, <1>11, <1>12, <1>13 DEF QueueInv

\* The newest queued message is retracted.
LEMMA RetractStep ==
  ASSUME TypeOK, QueueInv, Still, pc' = pc, queue # <<>>,
         queue' = Front(queue), fate' = [fate EXCEPT ![Last(queue)] = "discarded"]
  PROVE  QueueInv'
<1> DEFINE x == Last(queue)
<1>0. /\ cur' = cur /\ processingPending' = processingPending
      /\ sessionStarted' = sessionStarted /\ Draining' = Draining
  BY DEF Still, Draining
<1>1. /\ x \in Msg /\ x = queue[Len(queue)] /\ Len(queue) \in DOMAIN queue
      /\ DOMAIN queue = 1 .. Len(queue) /\ DOMAIN queue' = 1 .. (Len(queue) - 1)
      /\ Len(queue) \in Nat
      /\ \A i \in DOMAIN queue' : i \in DOMAIN queue /\ i # Len(queue) /\ queue'[i] = queue[i]
  <2>1. queue \in Seq(Msg)
    BY DEF TypeOK, QueueTyped
  <2>2. Len(queue) \in Nat /\ DOMAIN queue = 1 .. Len(queue)
    BY <2>1, LenProperties
  <2>3. /\ Front(queue) \in Seq(Msg) /\ Len(Front(queue)) = Len(queue) - 1
        /\ \A i \in 1 .. Len(Front(queue)) : Front(queue)[i] = queue[i]
        /\ x = queue[Len(queue)] /\ x \in Msg /\ Len(queue) \in DOMAIN queue
    BY <2>1, FrontProperties
  <2>4. DOMAIN Front(queue) = 1 .. (Len(queue) - 1)
    BY <2>3, LenProperties
  <2> QED
    BY <2>2, <2>3, <2>4
<1>2. /\ fate'[x] = "discarded" /\ fate[x] = "queued"
      /\ \A n \in Msg : n # x => fate'[n] = fate[n]
  BY <1>1 DEF TypeOK, RecordTyped, QueueInv, Conserved
<1>3. \A t \in Task : cur[t] # None => cur[t] \in Msg /\ cur[t] # x
  BY <1>1, NotQueued
<1>4. \A i \in DOMAIN queue' : queue'[i] # x /\ queue'[i] \in Msg
  <2>1. \A i \in DOMAIN queue : queue[i] \in Msg
    BY ElementOfSeq, LenProperties DEF TypeOK, QueueTyped
  <2> QED
    BY <1>1, <2>1 DEF QueueInv, Conserved
<1>5. OneDrain'
  BY <1>0 DEF QueueInv, OneDrain
<1>6. Conserved'
  <2>1. \A i, j \in DOMAIN queue' : queue'[i] = queue'[j] => i = j
    BY <1>1 DEF QueueInv, Conserved
  <2>2. \A i \in DOMAIN queue' : fate'[queue'[i]] = "queued"
    BY <1>1, <1>2, <1>4 DEF QueueInv, Conserved
  <2>3. \A n \in Msg : fate'[n] = "queued" =>
          \/ \E i \in DOMAIN queue' : queue'[i] = n
          \/ \E t \in Draining : cur[t] = n
    <3> SUFFICES ASSUME NEW n \in Msg, fate'[n] = "queued",
                        ~ \E t \in Draining : cur[t] = n
                 PROVE  \E i \in DOMAIN queue' : queue'[i] = n
      OBVIOUS
    <3>1. n # x /\ fate[n] = "queued"
      BY <1>2
    <3>2. PICK i \in DOMAIN queue : queue[i] = n
      BY <3>1 DEF QueueInv, Conserved
    <3>3. i # Len(queue)
      BY <1>1, <3>1, <3>2
    <3>4. i \in DOMAIN queue'
      BY <1>1, <3>3
    <3> QED
      BY <1>1, <3>2, <3>4
  <2>4. \A t \in Draining, i \in DOMAIN queue' : cur[t] # queue'[i]
    BY <1>1 DEF QueueInv, Conserved
  <2> QED
    BY <1>0, <2>1, <2>2, <2>3, <2>4 DEF Conserved
<1>7. InHand' /\ Places'
  BY <1>0 DEF QueueInv, InHand, Places
<1>8. HandFate'
  BY <1>0, <1>2, <1>3 DEF QueueInv, HandFate
<1>9. WorkerFate'
  BY <1>2 DEF QueueInv, WorkerFate
<1>10. PromptOnce'
  <2>1. InitialPrompt # None => fate'[InitialPrompt] = fate[InitialPrompt]
    BY <1>2, PromptAssumption DEF QueueInv, PromptOnce
  <2> QED
    BY <1>0, <2>1 DEF QueueInv, PromptOnce, Prompting
<1> QED
  BY <1>5, <1>6, <1>7, <1>8, <1>9, <1>10 DEF QueueInv

-----------------------------------------------------------------------------
(* The session start sequence and the initial prompt. *)

\* The sequence starts, for the first time.
LEMMA SequenceStep ==
  ASSUME TypeOK, QueueInv, NEW t \in Task, t # Pump, pc[t] = "ready", t \notin Msg,
         ~sessionStarted, sessionStarted', pc' = [pc EXCEPT ![t] = "history"],
         UNCHANGED <<queue, processingPending, cur, fate>>
  PROVE  QueueInv'
<1>0. /\ queue' = queue /\ fate' = fate /\ cur' = cur
      /\ processingPending' = processingPending
  OBVIOUS
<1>1. /\ pc'[t] = "history" /\ \A u \in Task : u # t => pc'[u] = pc[u]
      /\ pc'[t] \notin HandPoint /\ pc[t] \notin HandPoint
  BY DEF TypeOK, ControlTyped, HandPoint, HoldPoint, DonePoint
<1>2. Draining' = Draining
  BY <1>0, <1>1, Points DEF Draining
<1>3. cur[t] = None
  BY <1>1, Points DEF QueueInv, InHand
<1>4. OneDrain' /\ Conserved'
  BY <1>0, <1>2 DEF QueueInv, OneDrain, Conserved
<1>5. InHand'
  BY <1>0, <1>1, <1>3, Points DEF QueueInv, InHand
<1>6. HandFate'
  BY <1>0, <1>1, <1>2, <1>3 DEF QueueInv, HandFate
<1>7. WorkerFate'
  BY <1>0, <1>1, Tasks DEF QueueInv, WorkerFate
<1>8. Places'
  BY <1>1, Tasks DEF QueueInv, Places
<1>9. PromptOnce'
  <2>1. \A u \in Task : ~Prompting(u)
    BY DEF QueueInv, PromptOnce
  <2>2. \A u \in Task : Prompting(u)' => u = t
    BY <1>0, <1>1, <2>1 DEF Prompting
  <2> QED
    BY <1>0, <2>2 DEF QueueInv, PromptOnce
<1> QED
  BY <1>4, <1>5, <1>6, <1>7, <1>8, <1>9 DEF QueueInv

\* The sequence submits the initial prompt.
LEMMA PromptStep ==
  ASSUME TypeOK, QueueInv, NEW t \in Task, pc[t] = "history", InitialPrompt # None,
         pc' = [pc EXCEPT ![t] = "process"], cur' = [cur EXCEPT ![t] = InitialPrompt],
         UNCHANGED <<queue, processingPending, sessionStarted, fate>>
  PROVE  QueueInv'
<1>0. /\ queue' = queue /\ fate' = fate /\ sessionStarted' = sessionStarted
      /\ processingPending' = processingPending
  OBVIOUS
<1>1. /\ pc'[t] = "process" /\ cur'[t] = InitialPrompt
      /\ \A u \in Task : u # t => pc'[u] = pc[u] /\ cur'[u] = cur[u]
      /\ pc[t] \notin HandPoint
  BY DEF TypeOK, ControlTyped, HandPoint, HoldPoint, DonePoint
<1>2. /\ Prompting(t) /\ t # Pump /\ sessionStarted
      /\ fate[InitialPrompt] = "taken" /\ InitialPrompt \in Msg
      /\ \A u \in Task : Prompting(u) => u = t
  BY PromptAssumption DEF QueueInv, PromptOnce, Prompting
<1>3. Draining' = Draining
  BY <1>1, Points DEF Draining
<1>4. \A u \in Draining : cur'[u] = cur[u]
  BY <1>1, Points DEF Draining
<1>5. OneDrain' /\ Conserved'
  BY <1>0, <1>3, <1>4 DEF QueueInv, OneDrain, Conserved
<1>6. InHand'
  BY <1>1, Points DEF QueueInv, InHand
<1>7. HandFate'
  <2> SUFFICES ASSUME NEW u \in Task, cur'[u] # None
               PROVE  /\ pc'[u] \in HoldPoint =>
                           fate[cur'[u]] = IF u \in Draining THEN "queued" ELSE "taken"
                      /\ pc'[u] \in DonePoint =>
                           fate[cur'[u]] \in {"turn", "shell", "lost", "cleared"}
    BY <1>0, <1>3 DEF HandFate
  <2>1. CASE u = t
    <3>1. t \notin Draining /\ pc'[t] \notin DonePoint
      BY <1>1, Points DEF Draining, DonePoint
    <3> QED
      BY <1>1, <1>2, <2>1, <3>1
  <2>2. CASE u # t
    BY <1>1, <2>2 DEF QueueInv, HandFate
  <2> QED
    BY <2>1, <2>2
<1>8. WorkerFate'
  BY <1>0, <1>1, Tasks DEF QueueInv, WorkerFate
<1>9. Places'
  BY <1>1, <1>2, Tasks DEF QueueInv, Places
<1>10. PromptOnce'
  <2>1. \A u \in Task : Prompting(u)' => u = t
    BY <1>1, <1>2 DEF Prompting
  <2> QED
    BY <1>0, <1>2, <2>1 DEF QueueInv, PromptOnce
<1> QED
  BY <1>5, <1>6, <1>7, <1>8, <1>9, <1>10 DEF QueueInv

\* The sequence gives the initial prompt up.
LEMMA PromptLostStep ==
  ASSUME TypeOK, QueueInv, NEW t \in Task, pc[t] = "history", InitialPrompt # None,
         pc' = [pc EXCEPT ![t] = "done"],
         fate' = [fate EXCEPT ![InitialPrompt] = "lost"],
         UNCHANGED <<queue, processingPending, sessionStarted, cur>>
  PROVE  QueueInv'
<1>0. /\ queue' = queue /\ cur' = cur /\ sessionStarted' = sessionStarted
      /\ processingPending' = processingPending
  OBVIOUS
<1>1. /\ pc'[t] = "done" /\ \A u \in Task : u # t => pc'[u] = pc[u]
      /\ pc[t] \notin HandPoint /\ pc'[t] \notin HandPoint
  BY DEF TypeOK, ControlTyped, HandPoint, HoldPoint, DonePoint
<1>2. /\ Prompting(t) /\ t # Pump /\ sessionStarted
      /\ fate[InitialPrompt] = "taken" /\ InitialPrompt \in Msg
      /\ \A u \in Task : Prompting(u) => u = t
  BY PromptAssumption DEF QueueInv, PromptOnce, Prompting
<1>3. /\ fate'[InitialPrompt] = "lost"
      /\ \A n \in Msg : n # InitialPrompt => fate'[n] = fate[n]
  BY <1>2 DEF TypeOK, RecordTyped
<1>4. cur[t] = None /\ \A u \in Task : cur[u] # InitialPrompt
  <2>1. cur[t] = None
    BY <1>1, Points DEF QueueInv, InHand
  <2> QED
    BY <1>2, <2>1 DEF Prompting
<1>5. Draining' = Draining
  BY <1>0, <1>1, Points DEF Draining
<1>6. OneDrain'
  BY <1>0, <1>5 DEF QueueInv, OneDrain
<1>7. Conserved'
  <2>1. \A i \in DOMAIN queue : fate'[queue[i]] = "queued"
    <3>1. \A i \in DOMAIN queue : queue[i] \in Msg
      BY ElementOfSeq, LenProperties DEF TypeOK, QueueTyped
    <3> QED
      BY <1>2, <1>3, <3>1 DEF QueueInv, Conserved
  <2>2. \A n \in Msg : fate'[n] = "queued" => fate[n] = "queued"
    BY <1>3
  <2> QED
    BY <1>0, <1>5, <2>1, <2>2 DEF QueueInv, Conserved
<1>8. InHand'
  BY <1>0, <1>1, <1>4, Points DEF QueueInv, InHand
<1>9. HandFate'
  <2>1. \A u \in Task : cur[u] # None => fate'[cur[u]] = fate[cur[u]]
    BY <1>3, <1>4, NotQueued
  <2> QED
    BY <1>0, <1>1, <1>4, <1>5, <2>1 DEF QueueInv, HandFate
<1>10. WorkerFate'
  BY <1>1, <1>2, <1>3, Tasks DEF QueueInv, WorkerFate
<1>11. Places'
  BY <1>1, <1>2, Tasks DEF QueueInv, Places
<1>12. PromptOnce'
  <2>1. \A u \in Task : Prompting(u)' => Prompting(u) /\ pc'[u] # "history"
    BY <1>0, <1>1, <1>2 DEF Prompting
  <2>2. \A u \in Task : pc'[u] # "history"
    BY <2>1 DEF Prompting
  <2> QED
    BY <1>0, <1>2, <1>3, <2>1, <2>2 DEF QueueInv, PromptOnce
<1> QED
  BY <1>6, <1>7, <1>8, <1>9, <1>10, <1>11, <1>12 DEF QueueInv
-----------------------------------------------------------------------------
(* The actions of the session core. *)

\* Places outside _process_message where a task can be.
LEMMA Elsewhere ==
  /\ {"idle", "done", "ready", "created", "running", "spinner", "prefetch", "clearView",
      "load", "rollback", "model", "retry", "notice", "starting", "swapClear", "swapReset",
      "swapRestart", "swapConfirm", "modal", "restart", "respawning", "drainIfReady",
      "drain", "next", "resume", "switch", "backlog"} \cap (HandPoint \cup {"history"}) = {}
  /\ {"drainIfReady", "drain", "next", "popped", "swapClear", "modal",
      "spinner", "created", "running", "ready", "backlog"} \cap PumpPoint \subseteq {"popped"}
  /\ {"idle", "resume", "switch", "prefetch", "clearView", "load", "rollback", "model",
      "retry", "notice", "restart", "respawning"} \subseteq PumpPoint
  /\ HandPoint \subseteq PumpPoint
  BY DEF HandPoint, HoldPoint, DonePoint, PumpPoint

\* A task walks outside _process_message, or the pump enters /clear on its own.
Walks(t) ==
  \/ pc'[t] = pc[t]
  \/ /\ pc[t] \notin HandPoint /\ pc'[t] \notin HandPoint \cup {"history"}
     /\ t \in Msg => pc[t] # "idle"
     /\ t = Pump => pc'[t] \in PumpPoint
     /\ t = Start => pc'[t] \in {"idle", "starting"}
  \/ t = Pump /\ cur[t] = None /\ pc'[t] \in {"clearing", "cleared", "processed"}

LEMMA WalksMove ==
  ASSUME QueueInv, \A t \in Task : Walks(t)
  PROVE  Moves
<1>1. \A t \in Task : Keeps(t)
  BY DEF Walks, Keeps
<1>2. Places'
  BY Elsewhere, Points, Tasks DEF Walks, QueueInv, Places, HandPoint, HoldPoint
<1>3. \A m \in Msg : pc[m] = "idle" => pc'[m] = "idle"
  BY Tasks DEF Walks
<1> QED
  BY <1>1, <1>2, <1>3 DEF Moves

\* The label of one task changes.
LEMMA GotoMoves ==
  ASSUME TypeOK, QueueInv, NEW t \in Task, NEW label,
         pc' = [pc EXCEPT ![t] = label], pc[t] \notin HandPoint,
         t \in Msg => pc[t] # "idle", label \notin HandPoint \cup {"history"},
         t = Pump => label \in PumpPoint,
         t = Start => label \in {"idle", "starting"}
  PROVE  Moves
<1>1. pc'[t] = label /\ \A u \in Task : u # t => pc'[u] = pc[u]
  BY DEF TypeOK, ControlTyped
<1> QED
  BY <1>1, WalksMove DEF Walks

\* The label of one task changes and nothing the queue depends on.
Aside == UNCHANGED <<queue, processingPending, sessionStarted, cur, fate>>
LEMMA QuietGoto ==
  ASSUME TypeOK, QueueInv, NEW t \in Task, NEW label, Aside,
         pc' = [pc EXCEPT ![t] = label], pc[t] \notin HandPoint,
         t \in Msg => pc[t] # "idle", label \notin HandPoint \cup {"history"},
         t = Pump => label \in PumpPoint,
         t = Start => label \in {"idle", "starting"}
  PROVE  QueueInv'
<1>1. Moves
  BY GotoMoves
<1>2. Still /\ UNCHANGED <<queue, fate>>
  BY DEF Aside, Still
<1> QED
  BY <1>1, <1>2, QuietStep

\* Nothing the queue depends on changes.
LEMMA QuietAll ==
  ASSUME TypeOK, QueueInv, Aside, pc' = pc
  PROVE  QueueInv'
<1>1. Moves
  BY WalksMove DEF Walks
<1>2. Still /\ UNCHANGED <<queue, fate>>
  BY DEF Aside, Still
<1> QED
  BY <1>1, <1>2, QuietStep

\* Workers that have not run their first step are cancelled.
LEMMA CancelMoves ==
  ASSUME QueueInv, NEW S, Cancelling(S)
  PROVE  Moves
<1>1. \A t \in Task : pc'[t] = pc[t] \/ (pc[t] = "created" /\ pc'[t] = "done")
  BY DEF Cancelling
<1>2. pc[Pump] # "created" /\ pc[Start] # "created"
  BY DEF QueueInv, Places, PumpPoint, HoldPoint, DonePoint
<1> QED
  BY <1>1, <1>2, WalksMove, Elsewhere DEF Walks

\* The agent and shell workers, and what their cleanups go through.
LEMMA WorkerQueue ==
  ASSUME TypeOK, QueueInv, NEW t \in Task
  PROVE  /\ WorkerStarts(t) => QueueInv'
         /\ WorkerEnds(t) => QueueInv'
         /\ SpinnerRemoved(t) => QueueInv'
         /\ MaybeDrainDeferred(t) => QueueInv'
         /\ DrainDeferred(t) => QueueInv'
<1>1. ASSUME WorkerStarts(t) PROVE QueueInv'
  <2>1. pc[t] = "created" /\ Aside
    BY <1>1 DEF WorkerStarts, At, Aside, queueVars, startVars, ctlVars
  <2>2. pc' = [pc EXCEPT ![t] = "running"]
    BY <1>1 DEF WorkerStarts, Goto
  <2>3. pc[t] \notin HandPoint \cup {"idle"} /\ "running" \notin HandPoint \cup {"history"}
    BY <2>1, <2>2, Elsewhere
  <2>4. t # Start /\ (t = Pump => "running" \in PumpPoint)
    BY <2>1, <2>2, Elsewhere DEF QueueInv, Places
  <2> QED
    BY <2>1, <2>2, <2>3, <2>4, QuietGoto
<1>2. ASSUME WorkerEnds(t) PROVE QueueInv'
  <2>1. pc[t] = "running" /\ Aside
    BY <1>2 DEF WorkerEnds, At, Aside, queueVars, startVars, ctlVars
  <2>2. PICK label \in {"spinner", "drainIfReady"} :
          pc' = [pc EXCEPT ![t] = label]
    BY <1>2 DEF WorkerEnds, Goto, CleanupStart
  <2>3. pc[t] \notin HandPoint \cup {"idle"} /\ label \notin HandPoint \cup {"history"}
    BY <2>1, <2>2, Elsewhere
  <2>4. t # Start /\ (t = Pump => label \in PumpPoint)
    BY <2>1, <2>2, Elsewhere DEF QueueInv, Places
  <2> QED
    BY <2>1, <2>2, <2>3, <2>4, QuietGoto
<1>3. ASSUME SpinnerRemoved(t) PROVE QueueInv'
  <2>1. pc[t] = "spinner" /\ Aside
    BY <1>3 DEF SpinnerRemoved, At, Aside, queueVars, startVars, ctlVars
  <2>2. pc' = [pc EXCEPT ![t] = "drainIfReady"]
    BY <1>3 DEF SpinnerRemoved, Goto, CleanupStart
  <2>3. pc[t] \notin HandPoint \cup {"idle"} /\ "drainIfReady" \notin HandPoint \cup {"history"}
    BY <2>1, <2>2, Elsewhere
  <2>4. t # Start /\ (t = Pump => "drainIfReady" \in PumpPoint)
    BY <2>1, <2>2, Elsewhere DEF QueueInv, Places
  <2> QED
    BY <2>1, <2>2, <2>3, <2>4, QuietGoto
<1>4. ASSUME MaybeDrainDeferred(t) PROVE QueueInv'
  <2>1. pc[t] = "drainIfReady" /\ Aside
    BY <1>4 DEF MaybeDrainDeferred, At, Aside, queueVars, startVars, ctlVars
  <2>2. PICK label \in {"done", "next", "drain"} :
          pc' = [pc EXCEPT ![t] = label]
    BY <1>4 DEF MaybeDrainDeferred, Goto, AfterDrain
  <2>3. pc[t] \notin HandPoint \cup {"idle"} /\ label \notin HandPoint \cup {"history"}
    BY <2>1, <2>2, Elsewhere
  <2>4. t # Start /\ (t = Pump => label \in PumpPoint)
    BY <2>1, <2>2, Elsewhere DEF QueueInv, Places
  <2> QED
    BY <2>1, <2>2, <2>3, <2>4, QuietGoto
<1>5. ASSUME DrainDeferred(t) PROVE QueueInv'
  <2>1. pc[t] = "drain" /\ Aside
    BY <1>5 DEF DrainDeferred, At, Aside, queueVars, startVars, ctlVars
  <2>2. PICK label \in {"done", "next", "resume", "switch", "modal"} :
          pc' = [pc EXCEPT ![t] = label]
    BY <1>5 DEF DrainDeferred, Goto, AfterDrain
  <2>3. pc[t] \notin HandPoint \cup {"idle"} /\ label \notin HandPoint \cup {"history"}
    BY <2>1, <2>2, Elsewhere
  <2>4. t # Start /\ (t = Pump => label \in PumpPoint)
    BY <2>1, <2>2, Elsewhere DEF QueueInv, Places
  <2> QED
    BY <2>1, <2>2, <2>3, <2>4, QuietGoto
<1> QED
  BY <1>1, <1>2, <1>3, <1>4, <1>5

\* The thread and model switches, and the login, between awaits.
LEMMA SwitchQueue ==
  ASSUME TypeOK, QueueInv, NEW t \in Task
  PROVE  /\ ResumeThread(t) => QueueInv'
         /\ SwitchThread(t) => QueueInv'
         /\ ThreadSwitchFails(t) => QueueInv'
         /\ ThreadSwitchReturns(t) => QueueInv'
         /\ SwitchModel(t) => QueueInv'
         /\ ActionReturns(t) => QueueInv'
         /\ LoginRefresh(t) => QueueInv'
         /\ LoginLater(t) => QueueInv'
         /\ Respawned(t) => QueueInv'
         /\ RespawnFails(t) => QueueInv'
         /\ DrainBacklog(t) => QueueInv'
<1>1. ASSUME ResumeThread(t) PROVE QueueInv'
  <2>1. pc[t] = "resume" /\ Aside
    BY <1>1 DEF ResumeThread, At, Aside, queueVars, startVars, ctlVars
  <2>2. PICK label \in {"notice", "prefetch"} :
          pc' = [pc EXCEPT ![t] = label]
    BY <1>1 DEF ResumeThread, Goto
  <2>3. pc[t] \notin HandPoint \cup {"idle"} /\ label \notin HandPoint \cup {"history"}
    BY <2>1, <2>2, Elsewhere
  <2>4. t # Start /\ (t = Pump => label \in PumpPoint)
    BY <2>1, <2>2, Elsewhere DEF QueueInv, Places
  <2> QED
    BY <2>1, <2>2, <2>3, <2>4, QuietGoto
<1>2. ASSUME SwitchThread(t) PROVE QueueInv'
  <2>1. pc[t] = "clearView" /\ Aside
    BY <1>2 DEF SwitchThread, At, Aside, queueVars, startVars, ctlVars
  <2>2. pc' = [pc EXCEPT ![t] = "load"]
    BY <1>2 DEF SwitchThread, Goto
  <2>3. pc[t] \notin HandPoint \cup {"idle"} /\ "load" \notin HandPoint \cup {"history"}
    BY <2>1, <2>2, Elsewhere
  <2>4. t # Start /\ (t = Pump => "load" \in PumpPoint)
    BY <2>1, <2>2, Elsewhere DEF QueueInv, Places
  <2> QED
    BY <2>1, <2>2, <2>3, <2>4, QuietGoto
<1>3. ASSUME ThreadSwitchFails(t) PROVE QueueInv'
  <2>1. pc[t] \in {"prefetch", "load"} /\ Aside
    BY <1>3 DEF ThreadSwitchFails, At, Aside, queueVars, startVars, ctlVars
  <2>2. pc' = [pc EXCEPT ![t] = "rollback"]
    BY <1>3 DEF ThreadSwitchFails, Goto
  <2>3. pc[t] \notin HandPoint \cup {"idle"} /\ "rollback" \notin HandPoint \cup {"history"}
    BY <2>1, <2>2, Elsewhere
  <2>4. t # Start /\ (t = Pump => "rollback" \in PumpPoint)
    BY <2>1, <2>2, Elsewhere DEF QueueInv, Places
  <2> QED
    BY <2>1, <2>2, <2>3, <2>4, QuietGoto
<1>4. ASSUME ThreadSwitchReturns(t) PROVE QueueInv'
  <2>1. pc[t] \in {"load", "rollback"} /\ Aside
    BY <1>4 DEF ThreadSwitchReturns, At, Aside, queueVars, startVars, ctlVars
  <2>2. PICK label \in {"idle", "drain"} :
          pc' = [pc EXCEPT ![t] = label] /\ (t = Pump => label = "idle")
    BY <1>4 DEF ThreadSwitchReturns, Goto, Caller
  <2>3. pc[t] \notin HandPoint \cup {"idle"} /\ label \notin HandPoint \cup {"history"}
    BY <2>1, <2>2, Elsewhere
  <2>4. t # Start /\ (t = Pump => label \in PumpPoint)
    BY <2>1, <2>2, Elsewhere DEF QueueInv, Places
  <2> QED
    BY <2>1, <2>2, <2>3, <2>4, QuietGoto
<1>5. ASSUME SwitchModel(t) PROVE QueueInv'
  <2>1. pc[t] = "switch" /\ Aside
    BY <1>5 DEF SwitchModel, At, Aside, queueVars, startVars, ctlVars
  <2>2. PICK label \in {"idle", "drain", "notice", "model", "retry"} :
          pc' = [pc EXCEPT ![t] = label] /\ (t = Pump => label # "drain")
    BY <1>5 DEF SwitchModel, Goto, Caller
  <2>3. pc[t] \notin HandPoint \cup {"idle"} /\ label \notin HandPoint \cup {"history"}
    BY <2>1, <2>2, Elsewhere
  <2>4. t # Start /\ (t = Pump => label \in PumpPoint)
    BY <2>1, <2>2, Elsewhere DEF QueueInv, Places
  <2> QED
    BY <2>1, <2>2, <2>3, <2>4, QuietGoto
<1>6. ASSUME ActionReturns(t) PROVE QueueInv'
  <2>1. pc[t] \in {"model", "notice"} /\ Aside
    BY <1>6 DEF ActionReturns, At, Aside, queueVars, startVars, ctlVars
  <2>2. PICK label \in {"idle", "drain"} :
          pc' = [pc EXCEPT ![t] = label] /\ (t = Pump => label = "idle")
    BY <1>6 DEF ActionReturns, Goto, Caller
  <2>3. pc[t] \notin HandPoint \cup {"idle"} /\ label \notin HandPoint \cup {"history"}
    BY <2>1, <2>2, Elsewhere
  <2>4. t # Start /\ (t = Pump => label \in PumpPoint)
    BY <2>1, <2>2, Elsewhere DEF QueueInv, Places
  <2> QED
    BY <2>1, <2>2, <2>3, <2>4, QuietGoto
<1>7. ASSUME LoginRefresh(t) PROVE QueueInv'
  <2>1. pc[t] = "modal" /\ Aside
    BY <1>7 DEF LoginRefresh, At, Aside, queueVars, startVars, ctlVars
  <2>2. pc' = [pc EXCEPT ![t] = "respawning"]
    BY <1>7 DEF LoginRefresh, Goto
  <2>3. pc[t] \notin HandPoint \cup {"idle"} /\ "respawning" \notin HandPoint \cup {"history"}
    BY <2>1, <2>2, Elsewhere
  <2>4. t # Start /\ (t = Pump => "respawning" \in PumpPoint)
    BY <2>1, <2>2, Elsewhere DEF QueueInv, Places
  <2> QED
    BY <2>1, <2>2, <2>3, <2>4, QuietGoto
<1>8. ASSUME LoginLater(t) PROVE QueueInv'
  <2>1. pc[t] = "modal" /\ Aside
    BY <1>8 DEF LoginLater, At, Aside, queueVars, startVars, ctlVars
  <2>2. PICK label \in {"idle", "drain"} :
          pc' = [pc EXCEPT ![t] = label] /\ (t = Pump => label = "idle")
    BY <1>8 DEF LoginLater, Goto, Caller
  <2>3. pc[t] \notin HandPoint \cup {"idle"} /\ label \notin HandPoint \cup {"history"}
    BY <2>1, <2>2, Elsewhere
  <2>4. t # Start /\ (t = Pump => label \in PumpPoint)
    BY <2>1, <2>2, Elsewhere DEF QueueInv, Places
  <2> QED
    BY <2>1, <2>2, <2>3, <2>4, QuietGoto
<1>9. ASSUME Respawned(t) PROVE QueueInv'
  <2>1. pc[t] = "respawning" /\ Aside
    BY <1>9 DEF Respawned, At, Aside, queueVars, startVars, ctlVars
  <2>2. PICK label \in {"idle", "drain"} :
          pc' = [pc EXCEPT ![t] = label] /\ (t = Pump => label = "idle")
    BY <1>9 DEF Respawned, Goto, Caller
  <2>3. pc[t] \notin HandPoint \cup {"idle"} /\ label \notin HandPoint \cup {"history"}
    BY <2>1, <2>2, Elsewhere
  <2>4. t # Start /\ (t = Pump => label \in PumpPoint)
    BY <2>1, <2>2, Elsewhere DEF QueueInv, Places
  <2> QED
    BY <2>1, <2>2, <2>3, <2>4, QuietGoto
<1>10. ASSUME RespawnFails(t) PROVE QueueInv'
  <2>1. pc[t] = "respawning" /\ Aside
    BY <1>10 DEF RespawnFails, At, Aside, queueVars, startVars, ctlVars
  <2>2. PICK label \in {"idle", "drain"} :
          pc' = [pc EXCEPT ![t] = label] /\ (t = Pump => label = "idle")
    BY <1>10 DEF RespawnFails, Goto, Caller
  <2>3. pc[t] \notin HandPoint \cup {"idle"} /\ label \notin HandPoint \cup {"history"}
    BY <2>1, <2>2, Elsewhere
  <2>4. t # Start /\ (t = Pump => label \in PumpPoint)
    BY <2>1, <2>2, Elsewhere DEF QueueInv, Places
  <2> QED
    BY <2>1, <2>2, <2>3, <2>4, QuietGoto
<1>11. ASSUME DrainBacklog(t) PROVE QueueInv'
  <2>1. pc[t] = "backlog" /\ Aside
    BY <1>11 DEF DrainBacklog, At, Aside, queueVars, startVars, ctlVars
  <2>2. PICK label \in {"done", "drainIfReady"} :
          pc' = [pc EXCEPT ![t] = label]
    BY <1>11 DEF DrainBacklog, Goto
  <2>3. pc[t] \notin HandPoint \cup {"idle"} /\ label \notin HandPoint \cup {"history"}
    BY <2>1, <2>2, Elsewhere
  <2>4. t # Start /\ (t = Pump => label \in PumpPoint)
    BY <2>1, <2>2, Elsewhere DEF QueueInv, Places
  <2> QED
    BY <2>1, <2>2, <2>3, <2>4, QuietGoto
<1> QED
  BY <1>1, <1>2, <1>3, <1>4, <1>5, <1>6, <1>7, <1>8, <1>9, <1>10, <1>11

\* The startup worker, /restart and the agent swap, outside their teardown.
LEMMA ServerQueue ==
  ASSUME TypeOK, QueueInv
  PROVE  /\ StartupSucceeds => QueueInv'
         /\ StartupFails => QueueInv'
         /\ Restart => QueueInv'
         /\ RunLater => QueueInv'
         /\ SwitchAgent => QueueInv'
         /\ SwapDropsDeferred => QueueInv'
         /\ SwapResetsThread => QueueInv'
         /\ SwapTeardownFails => QueueInv'
         /\ SwapRestarts => QueueInv'
         /\ SwapRestartFails => QueueInv'
         /\ SwapConfirms => QueueInv'
<1>1. ASSUME StartupSucceeds PROVE QueueInv'
  <2>1. pc[Start] = "starting" /\ Aside
    BY <1>1 DEF StartupSucceeds, At, Aside, queueVars, startVars, ctlVars
  <2>2. pc' = [pc EXCEPT ![Start] = "idle"]
    BY <1>1 DEF StartupSucceeds, Goto
  <2>3. /\ pc[Start] \notin HandPoint /\ "idle" \notin HandPoint \cup {"history"}
        /\ Start \in Task \ Msg /\ Start # Pump
    BY <2>1, <2>2, Elsewhere, Tasks, TaskAssumption
  <2> QED
    BY <2>1, <2>2, <2>3, QuietGoto
<1>2. ASSUME StartupFails PROVE QueueInv'
  <2>1. pc[Start] = "starting" /\ Aside
    BY <1>2 DEF StartupFails, At, Aside, queueVars, startVars, ctlVars
  <2>2. pc' = [pc EXCEPT ![Start] = "idle"]
    BY <1>2 DEF StartupFails, Goto
  <2>3. /\ pc[Start] \notin HandPoint /\ "idle" \notin HandPoint \cup {"history"}
        /\ Start \in Task \ Msg /\ Start # Pump
    BY <2>1, <2>2, Elsewhere, Tasks, TaskAssumption
  <2> QED
    BY <2>1, <2>2, <2>3, QuietGoto
<1>3. ASSUME Restart PROVE QueueInv'
  <2>1. pc[Pump] = "idle" /\ Aside
    BY <1>3 DEF Restart, At, Aside, queueVars, startVars, ctlVars, PumpIdle
  <2>2. pc' = [pc EXCEPT ![Pump] = "restart"]
    BY <1>3 DEF Restart, Goto
  <2>3. /\ pc[Pump] \notin HandPoint /\ "restart" \notin HandPoint \cup {"history"}
        /\ Pump \in Task \ Msg /\ Pump # Start /\ "restart" \in PumpPoint
    BY <2>1, <2>2, Elsewhere, Tasks, TaskAssumption
  <2> QED
    BY <2>1, <2>2, <2>3, QuietGoto
<1>4. ASSUME RunLater PROVE QueueInv'
  <2>1. pc[Pump] = "idle" /\ Aside
    BY <1>4 DEF RunLater, At, Aside, queueVars, startVars, ctlVars, PumpIdle
  <2>2. PICK label \in {"resume", "switch"} :
          pc' = [pc EXCEPT ![Pump] = label]
    BY <1>4 DEF RunLater, Goto
  <2>3. /\ pc[Pump] \notin HandPoint /\ label \notin HandPoint \cup {"history"}
        /\ Pump \in Task \ Msg /\ Pump # Start /\ label \in PumpPoint
    BY <2>1, <2>2, Elsewhere, Tasks, TaskAssumption
  <2> QED
    BY <2>1, <2>2, <2>3, QuietGoto
<1>5. ASSUME SwitchAgent PROVE QueueInv'
  <2>1. pc[Swap] = "idle" /\ Aside
    BY <1>5 DEF SwitchAgent, At, Aside, queueVars, startVars, ctlVars
  <2>2. pc' = [pc EXCEPT ![Swap] = "ready"]
    BY <1>5 DEF SwitchAgent
  <2>3. /\ pc[Swap] \notin HandPoint /\ "ready" \notin HandPoint \cup {"history"}
        /\ Swap \in Task \ Msg /\ Swap # Pump /\ Swap # Start
    BY <2>1, <2>2, Elsewhere, Tasks, TaskAssumption
  <2> QED
    BY <2>1, <2>2, <2>3, QuietGoto
<1>6. ASSUME SwapDropsDeferred PROVE QueueInv'
  <2>1. pc[Swap] = "swapClear" /\ Aside
    BY <1>6 DEF SwapDropsDeferred, At, Aside, queueVars, startVars, ctlVars
  <2>2. pc' = [pc EXCEPT ![Swap] = "swapReset"]
    BY <1>6 DEF SwapDropsDeferred, Goto
  <2>3. /\ pc[Swap] \notin HandPoint /\ "swapReset" \notin HandPoint \cup {"history"}
        /\ Swap \in Task \ Msg /\ Swap # Pump /\ Swap # Start
    BY <2>1, <2>2, Elsewhere, Tasks, TaskAssumption
  <2> QED
    BY <2>1, <2>2, <2>3, QuietGoto
<1>7. ASSUME SwapResetsThread PROVE QueueInv'
  <2>1. pc[Swap] = "swapReset" /\ Aside
    BY <1>7 DEF SwapResetsThread, At, Aside, queueVars, startVars, ctlVars
  <2>2. pc' = [pc EXCEPT ![Swap] = "swapRestart"]
    BY <1>7 DEF SwapResetsThread, Goto
  <2>3. /\ pc[Swap] \notin HandPoint /\ "swapRestart" \notin HandPoint \cup {"history"}
        /\ Swap \in Task \ Msg /\ Swap # Pump /\ Swap # Start
    BY <2>1, <2>2, Elsewhere, Tasks, TaskAssumption
  <2> QED
    BY <2>1, <2>2, <2>3, QuietGoto
<1>8. ASSUME SwapTeardownFails PROVE QueueInv'
  <2>1. pc[Swap] \in {"swapClear", "swapReset"} /\ Aside
    BY <1>8 DEF SwapTeardownFails, At, Aside, queueVars, startVars, ctlVars
  <2>2. pc' = [pc EXCEPT ![Swap] = "idle"]
    BY <1>8 DEF SwapTeardownFails, Goto
  <2>3. /\ pc[Swap] \notin HandPoint /\ "idle" \notin HandPoint \cup {"history"}
        /\ Swap \in Task \ Msg /\ Swap # Pump /\ Swap # Start
    BY <2>1, <2>2, Elsewhere, Tasks, TaskAssumption
  <2> QED
    BY <2>1, <2>2, <2>3, QuietGoto
<1>9. ASSUME SwapRestarts PROVE QueueInv'
  <2>1. pc[Swap] = "swapRestart" /\ Aside
    BY <1>9 DEF SwapRestarts, At, Aside, queueVars, startVars, ctlVars
  <2>2. pc' = [pc EXCEPT ![Swap] = "swapConfirm"]
    BY <1>9 DEF SwapRestarts, Goto
  <2>3. /\ pc[Swap] \notin HandPoint /\ "swapConfirm" \notin HandPoint \cup {"history"}
        /\ Swap \in Task \ Msg /\ Swap # Pump /\ Swap # Start
    BY <2>1, <2>2, Elsewhere, Tasks, TaskAssumption
  <2> QED
    BY <2>1, <2>2, <2>3, QuietGoto
<1>10. ASSUME SwapRestartFails PROVE QueueInv'
  <2>1. pc[Swap] = "swapRestart" /\ Aside
    BY <1>10 DEF SwapRestartFails, At, Aside, queueVars, startVars, ctlVars
  <2>2. pc' = [pc EXCEPT ![Swap] = "idle"]
    BY <1>10 DEF SwapRestartFails, Goto
  <2>3. /\ pc[Swap] \notin HandPoint /\ "idle" \notin HandPoint \cup {"history"}
        /\ Swap \in Task \ Msg /\ Swap # Pump /\ Swap # Start
    BY <2>1, <2>2, Elsewhere, Tasks, TaskAssumption
  <2> QED
    BY <2>1, <2>2, <2>3, QuietGoto
<1>11. ASSUME SwapConfirms PROVE QueueInv'
  <2>1. pc[Swap] = "swapConfirm" /\ Aside
    BY <1>11 DEF SwapConfirms, At, Aside, queueVars, startVars, ctlVars
  <2>2. pc' = [pc EXCEPT ![Swap] = "idle"]
    BY <1>11 DEF SwapConfirms, Goto
  <2>3. /\ pc[Swap] \notin HandPoint /\ "idle" \notin HandPoint \cup {"history"}
        /\ Swap \in Task \ Msg /\ Swap # Pump /\ Swap # Start
    BY <2>1, <2>2, Elsewhere, Tasks, TaskAssumption
  <2> QED
    BY <2>1, <2>2, <2>3, QuietGoto
<1> QED
  BY <1>1, <1>2, <1>3, <1>4, <1>5, <1>6, <1>7, <1>8, <1>9, <1>10, <1>11

\* Picks, the outcomes posted to the pump, and the tasks it creates.
LEMMA PostQueue ==
  ASSUME TypeOK, QueueInv
  PROVE  /\ \A kind : Pick(kind) => QueueInv'
         /\ ServerReady => QueueInv'
         /\ ServerStartFailed => QueueInv'
         /\ PickLogin => QueueInv'
         /\ \A t \in Task : CreateTask(t) => QueueInv'
         /\ \A t \in Task : RetryStartup(t) => QueueInv'
<1>1. ASSUME NEW kind, Pick(kind) PROVE QueueInv'
  <2>1. Aside /\ pc' = pc
    BY <1>1 DEF Pick, Aside, queueVars, startVars, ctlVars
  <2> QED
    BY <2>1, QuietAll
<1>2. ASSUME ServerReady \/ ServerStartFailed PROVE QueueInv'
  <2>1. Aside /\ pc' = pc
    BY <1>2 DEF ServerReady, ServerStartFailed, Aside, queueVars, startVars, ctlVars
  <2> QED
    BY <2>1, QuietAll
<1>3. ASSUME PickLogin PROVE QueueInv'
  <2>1. Aside /\ pc[Login] = "idle"
    BY <1>3 DEF PickLogin, Aside, queueVars, startVars
  <2>2. pc' = pc \/ pc' = [pc EXCEPT ![Login] = "modal"]
    BY <1>3 DEF PickLogin
  <2>3. /\ pc[Login] \notin HandPoint /\ "modal" \notin HandPoint \cup {"history"}
        /\ Login \in Task \ Msg /\ Login # Pump /\ Login # Start
    BY <2>1, Elsewhere, Tasks, TaskAssumption
  <2> QED
    BY <2>1, <2>2, <2>3, QuietGoto, QuietAll
<1>4. ASSUME NEW t \in Task, CreateTask(t) PROVE QueueInv'
  <2>1. /\ Aside /\ pc[t] \in {"idle", "done"} /\ pc' = [pc EXCEPT ![t] = "ready"]
        /\ t \in SeqTask \cup SafeTask \cup LaterTask
    BY <1>4 DEF CreateTask, Aside, queueVars, startVars
  <2>2. /\ pc[t] \notin HandPoint /\ "ready" \notin HandPoint \cup {"history"}
        /\ t \notin Msg /\ t # Pump /\ t # Start
    BY <2>1, Elsewhere, Tasks, TaskAssumption DEF Singleton
  <2> QED
    BY <2>1, <2>2, QuietGoto
<1>5. ASSUME NEW t \in Task, RetryStartup(t) PROVE QueueInv'
  <2>1. /\ Aside /\ pc[t] = "retry"
        /\ pc' = [pc EXCEPT ![Start] = "starting", ![t] = Caller(t)]
    BY <1>5 DEF RetryStartup, At, Aside, queueVars, startVars
  <2>2. t # Start /\ pc[Start] \in {"idle", "starting"}
    BY <2>1 DEF QueueInv, Places
  <2>3. /\ pc'[Start] = "starting" /\ pc'[t] \in {"idle", "drain"}
        /\ t = Pump => pc'[t] = "idle"
        /\ \A u \in Task : u # t /\ u # Start => pc'[u] = pc[u]
    BY <2>1, <2>2, Tasks DEF TypeOK, ControlTyped, Caller
  <2>4. \A u \in Task : Walks(u)
    BY <2>1, <2>2, <2>3, Elsewhere, Tasks, TaskAssumption DEF Walks, Singleton
  <2>5. Still /\ UNCHANGED <<queue, fate>>
    BY <2>1 DEF Aside, Still
  <2> QED
    BY <2>4, <2>5, WalksMove, QuietStep
<1> QED
  BY <1>1, <1>2, <1>3, <1>4, <1>5

\* The steps that drop the queue.
LEMMA DiscardQueue ==
  ASSUME TypeOK, QueueInv
  PROVE  /\ \A t \in Task : HistoryPrefetched(t) => QueueInv'
         /\ QuitOrInterrupt => QueueInv'
         /\ Interrupt => QueueInv'
         /\ ForceClear => QueueInv'
         /\ RestartSevers => QueueInv'
         /\ SwapTearsDown => QueueInv'
<1>1. ASSUME NEW t \in Task, HistoryPrefetched(t) PROVE QueueInv'
  <2>1. /\ Still /\ queue' = <<>> /\ fate' = Discarded(fate) /\ pc[t] = "prefetch"
        /\ pc' = [pc EXCEPT ![t] = "clearView"]
    BY <1>1 DEF HistoryPrefetched, At, Goto, Still, startVars
  <2>2. /\ pc[t] \notin HandPoint \cup {"idle"} /\ "clearView" \notin HandPoint \cup {"history"}
        /\ "clearView" \in PumpPoint /\ t # Start
    BY <2>1, Elsewhere DEF QueueInv, Places
  <2>3. Moves
    BY <2>1, <2>2, GotoMoves
  <2> QED
    BY <2>1, <2>3, DiscardStep
<1>2. ASSUME QuitOrInterrupt PROVE QueueInv'
  <2>1. Still /\ queue' = <<>> /\ fate' = Discarded(fate)
    BY <1>2 DEF QuitOrInterrupt, Still, startVars
  <2>2. Moves
    BY <1>2, CancelMoves DEF QuitOrInterrupt
  <2> QED
    BY <2>1, <2>2, DiscardStep
<1>3. ASSUME Interrupt PROVE QueueInv'
  <2>1. Still
    BY <1>3 DEF Interrupt, Still, startVars
  <2>2. CASE Cancelling({shellWorker}) /\ queue' = <<>> /\ fate' = Discarded(fate)
    <3>1. Moves
      BY <2>2, CancelMoves
    <3> QED
      BY <2>1, <2>2, <3>1, DiscardStep
  <2>3. CASE /\ queue # <<>> /\ queue' = Front(queue) /\ pc' = pc
             /\ fate' = [fate EXCEPT ![Last(queue)] = "discarded"]
    BY <2>1, <2>3, RetractStep
  <2>4. CASE Cancelling({agentWorker}) /\ UNCHANGED <<queue, fate>>
    <3>1. Moves
      BY <2>4, CancelMoves
    <3> QED
      BY <2>1, <2>4, <3>1, QuietStep
  <2> QED
    BY <1>3, <2>2, <2>3, <2>4 DEF Interrupt
<1>4. ASSUME ForceClear PROVE QueueInv'
  <2>1. Still /\ queue' = <<>> /\ fate' = Discarded(fate) /\ pc[Pump] = "idle"
    BY <1>4 DEF ForceClear, Still, startVars, PumpIdle, At
  <2>2. \A t \in Task : \/ t = Pump /\ pc'[t] = "clearing"
                        \/ t # Pump /\ pc[t] = "created" /\ pc'[t] = "done"
                        \/ pc'[t] = pc[t]
    BY <1>4, <2>1 DEF ForceClear
  <2>3. cur[Pump] = None /\ pc[Start] # "created"
    BY <2>1, Points, Tasks DEF QueueInv, InHand, Places
  <2>4. \A t \in Task : Walks(t)
    BY <2>2, <2>3, Elsewhere DEF Walks
  <2> QED
    BY <2>1, <2>4, WalksMove, DiscardStep
<1>5. ASSUME RestartSevers PROVE QueueInv'
  <2>1. Still /\ queue' = <<>> /\ fate' = Discarded(fate) /\ pc[Pump] = "restart"
    BY <1>5 DEF RestartSevers, Still, startVars, At
  <2>2. \A t \in Task : \/ t = Pump /\ pc'[t] \in {"respawning", "notice"}
                        \/ t # Pump /\ pc[t] = "created" /\ pc'[t] = "done"
                        \/ t # Pump /\ pc'[t] = pc[t]
    BY <1>5, <2>1 DEF RestartSevers, Severed
  <2>3. pc[Start] # "created" /\ Pump # Start /\ Pump \notin Msg
    BY Tasks, TaskAssumption DEF QueueInv, Places
  <2>4. \A t \in Task : Walks(t)
    BY <2>1, <2>2, <2>3, Elsewhere DEF Walks
  <2> QED
    BY <2>1, <2>4, WalksMove, DiscardStep
<1>6. ASSUME SwapTearsDown PROVE QueueInv'
  <2>1. /\ Still /\ queue' = <<>> /\ fate' = Discarded(fate) /\ pc[Swap] = "ready"
        /\ \/ pc' = [pc EXCEPT ![Swap] = "swapReset"]
           \/ pc' = [pc EXCEPT ![Swap] = "swapClear"]
    BY <1>6 DEF SwapTearsDown, At, Goto, Still, startVars
  <2>2. /\ pc[Swap] \notin HandPoint /\ Swap \in Task \ Msg /\ Swap # Pump /\ Swap # Start
        /\ "swapReset" \notin HandPoint \cup {"history"}
        /\ "swapClear" \notin HandPoint \cup {"history"}
    BY <2>1, Elsewhere, Tasks, TaskAssumption
  <2>3. Moves
    BY <2>1, <2>2, GotoMoves
  <2> QED
    BY <2>1, <2>3, DiscardStep
<1> QED
  BY <1>1, <1>2, <1>3, <1>4, <1>5, <1>6

\* Input.
LEMMA InputQueue ==
  ASSUME TypeOK, QueueInv, NEW m \in Msg
  PROVE  /\ Submit(m) => QueueInv'
         /\ SubmitBypass(m) => QueueInv'
<1>1. ASSUME Submit(m) PROVE QueueInv'
  <2>1. /\ fate[m] = "new" /\ pc[Pump] = "idle"
        /\ UNCHANGED <<processingPending, sessionStarted>>
    BY <1>1 DEF Submit, PumpIdle, At, startVars
  <2>2. \/ fate' = [fate EXCEPT ![m] = "refused"] /\ UNCHANGED <<queue, ctlVars>>
        \/ /\ queue' = Append(queue, m) /\ fate' = [fate EXCEPT ![m] = "queued"]
           /\ UNCHANGED ctlVars
        \/ /\ fate' = [fate EXCEPT ![m] = "taken"] /\ cur' = [cur EXCEPT ![Pump] = m]
           /\ pc' = [pc EXCEPT ![Pump] = "process"] /\ UNCHANGED queue
    BY <1>1 DEF Submit, Goto
  <2> QED
    BY <2>1, <2>2, EnqueueStep, TakeStep
<1>2. ASSUME SubmitBypass(m) PROVE QueueInv'
  <2>1. /\ fate[m] = "new" /\ pc[Pump] = "idle"
        /\ UNCHANGED <<queue, processingPending, sessionStarted>>
        /\ fate' = [fate EXCEPT ![m] = "taken"] /\ cur' = [cur EXCEPT ![Pump] = m]
        /\ pc' = [pc EXCEPT ![Pump] = "process"]
    BY <1>2 DEF SubmitBypass, PumpIdle, At, Goto, queueVars, startVars
  <2> QED
    BY <2>1, TakeStep
<1> QED
  BY <1>1, <1>2

\* A task with a message in hand, or the pump in /force-clear, moves on.
LEMMA HandMoves ==
  ASSUME TypeOK, QueueInv, NEW t \in Task, NEW label, pc' = [pc EXCEPT ![t] = label],
         \/ pc[t] \in HoldPoint /\ label \in HoldPoint /\ cur[t] # None /\ label # "popped"
         \/ pc[t] \in DonePoint /\ label \in DonePoint
         \/ t = Pump /\ cur[t] = None /\ label \in {"cleared", "processed"}
  PROVE  Moves
<1>1. pc'[t] = label /\ \A u \in Task : u # t => pc'[u] = pc[u]
  BY DEF TypeOK, ControlTyped
<1>2. \A u \in Task : Keeps(u)
  BY <1>1 DEF Keeps
<1>3. Places'
  <2>1. t # Start
    BY Points, TaskAssumption DEF QueueInv, Places
  <2>2. label \in PumpPoint \ {"popped"}
    BY DEF PumpPoint, DonePoint
  <2> QED
    BY <1>1, <2>1, <2>2, Tasks DEF QueueInv, Places
<1>4. \A m \in Msg : pc[m] = "idle" => pc'[m] = "idle"
  BY <1>1, Points, Tasks
<1> QED
  BY <1>2, <1>3, <1>4 DEF Moves

\* The way of a message through _process_message.
LEMMA ProcessQueue ==
  ASSUME TypeOK, QueueInv, NEW t \in Task
  PROVE  /\ Process(t) => QueueInv'
         /\ SendToAgent(t) => QueueInv'
         /\ StartShell(t) => QueueInv'
         /\ ResetThread(t) => QueueInv'
         /\ ClearReturns(t) => QueueInv'
         /\ ProcessNext(t) => QueueInv'
         /\ WidgetRemoved(t) => QueueInv'
<1>1. ASSUME Process(t) PROVE QueueInv'
  <2>1. /\ Still /\ pc[t] = "process"
        /\ \/ /\ queue' = <<>> /\ fate' = Discarded(fate)
              /\ pc' = [pc EXCEPT ![t] = "clearing"]
           \/ UNCHANGED <<queue, fate>> /\ pc' = [pc EXCEPT ![t] = "mounting"]
    BY <1>1 DEF Process, At, Goto, Still, startVars
  <2>2. cur[t] # None
    BY <2>1 DEF QueueInv, InHand
  <2>3. Moves
    BY <2>1, <2>2, HandMoves, Points
  <2> QED
    BY <2>1, <2>3, DiscardStep, QuietStep
<1>2. ASSUME SendToAgent(t) PROVE QueueInv'
  <2>1. /\ Still /\ queue' = queue /\ pc[t] = "mounting"
        /\ \/ /\ pc' = [pc EXCEPT ![cur[t]] = "created", ![t] = "processed"]
              /\ fate' = [fate EXCEPT ![cur[t]] = "turn"]
           \/ /\ pc' = [pc EXCEPT ![t] = "processed"]
              /\ fate' = [fate EXCEPT ![cur[t]] = "lost"]
    BY <1>2 DEF SendToAgent, At, Still, queueVars, startVars
  <2>2. cur[t] # None /\ pc[t] \in HoldPoint
    BY <2>1, Points DEF QueueInv, InHand
  <2>3. /\ pc'[t] = "processed"
        /\ \/ /\ fate' = [fate EXCEPT ![cur[t]] = "turn"]
              /\ \A u \in Task \ {t} : pc'[u] = pc[u] \/ (u = cur[t] /\ pc'[u] = "created")
           \/ /\ fate' = [fate EXCEPT ![cur[t]] = "lost"]
              /\ \A u \in Task \ {t} : pc'[u] = pc[u]
    BY <2>1 DEF TypeOK, ControlTyped
  <2> QED
    BY <2>1, <2>2, <2>3, DispatchStep, Points
<1>3. ASSUME StartShell(t) PROVE QueueInv'
  <2>1. /\ Still /\ queue' = queue /\ pc[t] = "mounting"
        /\ pc' = [pc EXCEPT ![cur[t]] = "created", ![t] = "processed"]
        /\ fate' = [fate EXCEPT ![cur[t]] = "shell"]
    BY <1>3 DEF StartShell, At, Still, queueVars, startVars
  <2>2. cur[t] # None /\ pc[t] \in HoldPoint
    BY <2>1, Points DEF QueueInv, InHand
  <2>3. /\ pc'[t] = "processed"
        /\ \A u \in Task \ {t} : pc'[u] = pc[u] \/ (u = cur[t] /\ pc'[u] = "created")
    BY <2>1 DEF TypeOK, ControlTyped
  <2> QED
    BY <2>1, <2>2, <2>3, DispatchStep, Points
<1>4. ASSUME ResetThread(t) PROVE QueueInv'
  <2>1. /\ Still /\ queue' = queue /\ pc[t] = "clearing"
        /\ pc' = [pc EXCEPT ![t] = "cleared"]
        /\ fate' = IF cur[t] = None THEN fate ELSE [fate EXCEPT ![cur[t]] = "cleared"]
    BY <1>4 DEF ResetThread, At, Goto, Still, queueVars, startVars
  <2>2. CASE cur[t] = None
    <3>1. t = Pump /\ UNCHANGED <<queue, fate>>
      BY <2>1, <2>2, Points DEF QueueInv, InHand
    <3>2. Moves
      BY <2>1, <2>2, <3>1, HandMoves
    <3> QED
      BY <2>1, <3>1, <3>2, QuietStep
  <2>3. CASE cur[t] # None
    <3>1. pc'[t] = "cleared" /\ \A u \in Task \ {t} : pc'[u] = pc[u]
      BY <2>1 DEF TypeOK, ControlTyped
    <3> QED
      BY <2>1, <2>3, <3>1, DispatchStep, Points
  <2> QED
    BY <2>2, <2>3
<1>5. ASSUME ClearReturns(t) PROVE QueueInv'
  <2>1. /\ Still /\ UNCHANGED <<queue, fate>> /\ pc[t] = "cleared"
        /\ pc' = [pc EXCEPT ![t] = "processed"]
    BY <1>5 DEF ClearReturns, At, Goto, Still, queueVars, startVars
  <2>2. Moves
    BY <2>1, HandMoves, Points
  <2> QED
    BY <2>1, <2>2, QuietStep
<1>6. ASSUME ProcessNext(t), DrainBlocked PROVE QueueInv'
  <2>1. Aside /\ pc[t] = "next" /\ pc' = [pc EXCEPT ![t] = "done"]
    BY <1>6 DEF ProcessNext, At, Goto, Aside, startVars
  <2>2. /\ pc[t] \notin HandPoint \cup {"idle"} /\ "done" \notin HandPoint \cup {"history"}
        /\ t # Pump /\ t # Start
    BY <2>1, Elsewhere DEF QueueInv, Places
  <2> QED
    BY <2>1, <2>2, QuietGoto
<1>7. ASSUME WidgetRemoved(t) PROVE QueueInv'
  <2>1. /\ Still /\ UNCHANGED <<queue, fate>> /\ pc[t] = "popped"
        /\ pc' = [pc EXCEPT ![t] = "process"]
    BY <1>7 DEF WidgetRemoved, At, Goto, Still, queueVars, startVars
  <2>2. cur[t] # None
    BY <2>1 DEF QueueInv, InHand
  <2>3. Moves
    BY <2>1, <2>2, HandMoves, Points
  <2> QED
    BY <2>1, <2>3, QuietStep
<1> QED
  BY <1>1, <1>2, <1>3, <1>4, <1>5, <1>6, <1>7, PopStep

\* The tasks the pump created.
LEMMA TaskQueue ==
  ASSUME TypeOK, QueueInv, NEW t \in Task
  PROVE  /\ TaskStarts(t) => QueueInv'
         /\ HistoryLoaded(t) => QueueInv'
         /\ ResumedStateUnreadable(t) => QueueInv'
<1>1. ASSUME TaskStarts(t) PROVE QueueInv'
  <2>1. /\ pc[t] = "ready" /\ t \notin Msg /\ t # Pump /\ t # Start
        /\ UNCHANGED <<queue, processingPending, cur, fate>>
    BY <1>1, Tasks, TaskAssumption DEF TaskStarts, At, queueVars, Singleton
  <2>2. CASE t \in SeqTask /\ ~sessionStarted
    <3>1. sessionStarted' /\ pc' = [pc EXCEPT ![t] = "history"]
      BY <1>1, <2>2 DEF TaskStarts, Goto
    <3> QED
      BY <2>1, <2>2, <3>1, SequenceStep
  <2>3. CASE t \notin SeqTask \/ sessionStarted
    <3>1. PICK label \in {"backlog", "drainIfReady", "next"} :
            pc' = [pc EXCEPT ![t] = label]
      BY <1>1, <2>3 DEF TaskStarts, Goto
    <3>2. sessionStarted' = sessionStarted
      BY <1>1, <2>3 DEF TaskStarts, startVars, TypeOK, StartTyped
    <3>3. pc[t] \notin HandPoint /\ label \notin HandPoint \cup {"history"}
      BY <2>1, Elsewhere
    <3>4. Aside
      BY <2>1, <3>2 DEF Aside
    <3> QED
      BY <2>1, <3>1, <3>3, <3>4, QuietGoto
  <2> QED
    BY <2>2, <2>3
<1>2. ASSUME HistoryLoaded(t) PROVE QueueInv'
  <2>1. /\ pc[t] = "history"
        /\ UNCHANGED <<queue, processingPending, sessionStarted, fate>>
        /\ \/ /\ InitialPrompt # None /\ cur' = [cur EXCEPT ![t] = InitialPrompt]
              /\ pc' = [pc EXCEPT ![t] = "process"]
           \/ UNCHANGED cur /\ pc' = [pc EXCEPT ![t] = "backlog"]
    BY <1>2 DEF HistoryLoaded, At, Goto, queueVars
  <2>2. CASE InitialPrompt # None /\ cur' = [cur EXCEPT ![t] = InitialPrompt]
                                  /\ pc' = [pc EXCEPT ![t] = "process"]
    BY <2>1, <2>2, PromptStep
  <2>3. CASE UNCHANGED cur /\ pc' = [pc EXCEPT ![t] = "backlog"]
    <3>1. /\ pc[t] \notin HandPoint \cup {"idle"} /\ t # Pump /\ t # Start
          /\ "backlog" \notin HandPoint \cup {"history"}
      BY <2>1, Points, Elsewhere DEF QueueInv, Places, PumpPoint, HoldPoint, DonePoint
    <3>2. Aside
      BY <2>1, <2>3 DEF Aside
    <3> QED
      BY <2>3, <3>1, <3>2, QuietGoto
  <2> QED
    BY <2>1, <2>2, <2>3
<1>3. ASSUME ResumedStateUnreadable(t) PROVE QueueInv'
  <2>1. /\ pc[t] = "history" /\ InitialPrompt # None
        /\ pc' = [pc EXCEPT ![t] = "done"]
        /\ fate' = [fate EXCEPT ![InitialPrompt] = "lost"]
        /\ UNCHANGED <<queue, processingPending, sessionStarted, cur>>
    BY <1>3 DEF ResumedStateUnreadable, At, Goto, queueVars
  <2> QED
    BY <2>1, PromptLostStep
<1> QED
  BY <1>1, <1>2, <1>3

-----------------------------------------------------------------------------
(* The theorems. *)

LEMMA InitQueue == Init => QueueInv
<1> SUFFICES ASSUME Init PROVE QueueInv
  OBVIOUS
<1>0. /\ queue = <<>> /\ ~processingPending /\ ~sessionStarted
      /\ cur = [t \in Task |-> None]
      /\ pc = [t \in Task |-> IF t = Start THEN "starting" ELSE "idle"]
  BY DEF Init
<1>a. \A m \in Msg : /\ m = InitialPrompt => fate[m] = "taken"
                     /\ fate[m] \in {"taken", "new", "unsent"}
  BY DEF Init
<1>1. \A t \in Task : cur[t] = None /\ pc[t] \in {"idle", "starting"}
                      /\ pc[t] \notin HandPoint /\ pc[t] # "history"
  BY <1>0, Points
<1>2. Draining = {}
  BY <1>1, Points DEF Draining
<1>3. OneDrain
  BY <1>0, <1>2 DEF OneDrain
<1>4. Conserved
  <2>1. \A m \in Msg : fate[m] # "queued"
    BY <1>a
  <2>2. DOMAIN queue = {}
    BY <1>0
  <2> QED
    BY <2>1, <2>2, <1>2 DEF Conserved
<1>5. InHand
  BY <1>1, Points DEF InHand, HandPoint, HoldPoint, DonePoint
<1>6. HandFate
  BY <1>1 DEF HandFate
<1>7. WorkerFate
  BY <1>0, Tasks DEF WorkerFate
<1>8. Places
  BY <1>0, Tasks, TaskAssumption DEF Places, PumpPoint
<1>9. PromptOnce
  <2>1. InitialPrompt # None => fate[InitialPrompt] = "taken"
    BY <1>a, PromptAssumption
  <2> QED
    BY <1>1, <2>1 DEF PromptOnce, Prompting
<1> QED
  BY <1>3, <1>4, <1>5, <1>6, <1>7, <1>8, <1>9 DEF QueueInv

LEMMA NextQueue == TypeOK /\ QueueInv /\ [Next]_vars => QueueInv'
<1> SUFFICES ASSUME TypeOK, QueueInv, [Next]_vars PROVE QueueInv'
  OBVIOUS
<1>1. CASE Input
  BY <1>1, InputQueue, PostQueue, DiscardQueue, ServerQueue, SwitchQueue DEF Input
<1>2. CASE Fault
  BY <1>2, SwitchQueue, TaskQueue, ServerQueue DEF Fault
<1>3. CASE StartStep \/ SwapStep
  BY <1>3, ServerQueue, DiscardQueue DEF StartStep, SwapStep
<1>4. CASE MailStep
  BY <1>4, PostQueue, ServerQueue DEF MailStep
<1>5. ASSUME NEW t \in Task, Step(t) PROVE QueueInv'
  <2>1. CASE \/ Process(t) \/ SendToAgent(t) \/ StartShell(t) \/ ResetThread(t)
             \/ ClearReturns(t) \/ Processed(t) \/ ProcessNext(t) \/ WidgetRemoved(t)
    BY <2>1, ProcessQueue, ProcessedStep
  <2>2. CASE \/ WorkerStarts(t) \/ WorkerEnds(t) \/ SpinnerRemoved(t)
             \/ MaybeDrainDeferred(t) \/ DrainDeferred(t)
    BY <2>2, WorkerQueue
  <2>3. CASE \/ ResumeThread(t) \/ HistoryPrefetched(t) \/ SwitchThread(t)
             \/ ThreadSwitchReturns(t) \/ SwitchModel(t) \/ RetryStartup(t)
             \/ ActionReturns(t) \/ LoginLater(t) \/ Respawned(t)
    BY <2>3, SwitchQueue, DiscardQueue, PostQueue
  <2>4. CASE \/ RestartSevers \/ TaskStarts(t) \/ HistoryLoaded(t) \/ DrainBacklog(t)
    BY <2>4, DiscardQueue, TaskQueue, SwitchQueue
  <2> QED
    BY <1>5, <2>1, <2>2, <2>3, <2>4 DEF Step
<1>6. CASE UNCHANGED vars
  <2>1. Aside /\ pc' = pc
    BY <1>6 DEF vars, Aside, queueVars, startVars, ctlVars
  <2> QED
    BY <2>1, QuietAll
<1> QED
  BY <1>1, <1>2, <1>3, <1>4, <1>5, <1>6 DEF Next

\* The inductive invariant of the input queue: what is queued, what is in hand
\* and what became of each message agree, whatever the interleaving of inputs,
\* interrupts, workers, switches and server restarts.
THEOREM QueueDiscipline == Spec => []QueueInv
<1> QED
  BY InitQueue, NextQueue, TypeCorrect, PTL DEF Spec

\* _process_next_from_queue is never inside itself: at most one task drains, and
\* _processing_pending says whether one does.
THEOREM DrainExclusive == Spec => []OneDrain
<1>1. QueueInv => OneDrain
  BY DEF QueueInv
<1> QED
  BY <1>1, QueueDiscipline, PTL

\* No queued message is duplicated, dropped or delivered twice by the queue, its
\* drains and the routines that clear it.
THEOREM QueueConserved == Spec => []Conserved
<1>1. QueueInv => Conserved
  BY DEF QueueInv
<1> QED
  BY <1>1, QueueDiscipline, PTL

-----------------------------------------------------------------------------
(***************************************************************************)
(* Thread switches and the Connecting flag: both flags say exactly what    *)
(* some task is doing.  Both rest on the discipline of the queue, without  *)
(* which a message could be dispatched to a worker that is still at work.  *)
(***************************************************************************)

\* A step that lets nobody into _resume_thread or out of it.
Calm ==
  /\ threadSwitching' = threadSwitching
  /\ \A u \in Task : pc'[u] \in SwitchPoint <=> pc[u] \in SwitchPoint

\* The outcome of a start is posted.
Told(s) == {"up", "failed"} \cap Range(s) # {}

\* The Connecting flag is down, or the outcome is posted.
Answered == ~connecting \/ Told(mail)

\* A step that neither sets the Connecting flag nor ends what owns it.
Calling ==
  /\ connecting' => connecting
  /\ pc[Start] = "starting" => pc'[Start] = "starting"
  /\ pc[Swap] \in {"swapClear", "swapReset", "swapRestart"} =>
       pc'[Swap] \in {"swapClear", "swapReset", "swapRestart"}
  /\ \A u \in Task : pc[u] \in {"respawning", "retry"} => pc'[u] \in {"respawning", "retry"}
  /\ Told(mail) => Told(mail')

LEMMA Where ==
  ASSUME TypeOK, QueueInv
  PROVE  /\ pc \in [Task -> Label] /\ mail \in Seq(Mail)
         /\ {Pump, Start, Swap, Login} \subseteq Task /\ Msg \subseteq Task
         /\ Pump \notin {Start, Swap, Login} /\ Start \notin {Swap, Login} /\ Swap # Login
         /\ Start \notin SeqTask \cup SafeTask \cup LaterTask
         /\ pc[Start] \in {"idle", "starting"}
BY Tasks, TaskAssumption
   DEF TypeOK, ControlTyped, PostTyped, QueueInv, Places, Singleton

\* The worker of a message that is about to be dispatched has not been used.
LEMMA Dispatched ==
  ASSUME TypeOK, QueueInv, NEW t \in Task, pc[t] = "mounting"
  PROVE  cur[t] \in Msg /\ pc[cur[t]] = "idle" /\ cur[t] # t
<1>1. cur[t] # None /\ cur[t] \in Msg
  BY DEF TypeOK, ControlTyped, QueueInv, InHand
<1>2. fate[cur[t]] \in {"queued", "taken"}
  BY <1>1, Points DEF QueueInv, HandFate
<1> QED
  BY <1>1, <1>2 DEF QueueInv, WorkerFate

\* What of S is posted.
Posted(S, s) == S \cap Range(s) # {}

\* What is posted stays until it is handled.
LEMMA Post ==
  ASSUME mail \in Seq(Mail), NEW S
  PROVE  /\ \A k \in Mail : Posted(S, Append(mail, k)) <=> Posted(S, mail) \/ k \in S
         /\ mail # <<>> /\ Head(mail) \notin S => (Posted(S, mail) => Posted(S, Tail(mail)))
<1>1. \A s \in Seq(Mail) : Posted(S, s) <=> \E i \in 1..Len(s) : s[i] \in S
  BY LenProperties DEF Posted, Range
<1>2. ASSUME NEW k \in Mail
      PROVE  Posted(S, Append(mail, k)) <=> Posted(S, mail) \/ k \in S
  <2>1. /\ Append(mail, k) \in Seq(Mail) /\ Len(Append(mail, k)) = Len(mail) + 1
        /\ \A i \in 1..Len(mail) : Append(mail, k)[i] = mail[i]
        /\ Append(mail, k)[Len(mail) + 1] = k
    BY AppendProperties
  <2>2. ASSUME Posted(S, Append(mail, k)) PROVE Posted(S, mail) \/ k \in S
    <3>1. PICK i \in 1..(Len(mail) + 1) : Append(mail, k)[i] \in S
      BY <1>1, <2>1, <2>2
    <3>2. CASE i = Len(mail) + 1
      BY <2>1, <3>1, <3>2
    <3>3. CASE i # Len(mail) + 1
      <4>1. i \in 1..Len(mail) /\ mail[i] \in S
        BY <2>1, <3>1, <3>3, LenProperties
      <4> QED
        BY <1>1, <4>1
    <3> QED
      BY <3>2, <3>3
  <2>3. ASSUME Posted(S, mail) PROVE Posted(S, Append(mail, k))
    <3>1. PICK i \in 1..Len(mail) : mail[i] \in S
      BY <1>1, <2>3
    <3>2. i \in 1..Len(Append(mail, k)) /\ Append(mail, k)[i] \in S
      BY <2>1, <3>1, LenProperties
    <3> QED
      BY <1>1, <2>1, <3>2
  <2>4. ASSUME k \in S PROVE Posted(S, Append(mail, k))
    <3>1. Len(mail) + 1 \in 1..Len(Append(mail, k))
      BY <2>1, LenProperties
    <3> QED
      BY <1>1, <2>1, <2>4, <3>1
  <2> QED
    BY <2>2, <2>3, <2>4
<1>3. ASSUME mail # <<>>, Head(mail) \notin S, Posted(S, mail)
      PROVE  Posted(S, Tail(mail))
  <2>1. PICK i \in 1..Len(mail) : mail[i] \in S
    BY <1>1, <1>3
  <2>2. /\ Tail(mail) \in Seq(Mail) /\ Len(Tail(mail)) = Len(mail) - 1 /\ Head(mail) = mail[1]
        /\ \A j \in 1..Len(Tail(mail)) : Tail(mail)[j] = mail[j + 1]
    BY <1>3, HeadTailProperties
  <2>3. i # 1 /\ i - 1 \in 1..Len(Tail(mail)) /\ Tail(mail)[i - 1] = mail[i]
    BY <1>3, <2>1, <2>2, LenProperties
  <2> QED
    BY <1>1, <2>1, <2>2, <2>3
<1> QED
  BY <1>2, <1>3

\* The same of the outcomes of a start.
LEMMA Mailbox ==
  ASSUME mail \in Seq(Mail)
  PROVE  /\ \A k \in Mail : Told(Append(mail, k)) <=> Told(mail) \/ k \in {"up", "failed"}
         /\ mail # <<>> /\ Head(mail) \notin {"up", "failed"} => (Told(mail) => Told(Tail(mail)))
BY Post DEF Told, Posted

-----------------------------------------------------------------------------
(* One switch at a time *)

\* Every step but the two ends of _resume_thread.
LEMMA CalmSteps ==
  ASSUME TypeOK, QueueInv, [Next]_vars
  PROVE  \/ Calm
         \/ \E t \in Task : ResumeThread(t) \/ ThreadSwitchReturns(t)
<1>1. ASSUME NEW m \in Msg, Submit(m) PROVE Calm
BY <1>1, Where DEF Calm, SwitchPoint, Submit, PumpIdle, Goto, At, threadVars, ctlVars
<1>2. ASSUME NEW m \in Msg, SubmitBypass(m) PROVE Calm
BY <1>2, Where DEF Calm, SwitchPoint, SubmitBypass, PumpIdle, Goto, At, threadVars
<1>3. ASSUME NEW kind \in {"thread", "model"}, Pick(kind) PROVE Calm
BY <1>3, Where DEF Calm, SwitchPoint, Pick, PumpIdle, At, threadVars, ctlVars
<1>4. ASSUME Interrupt PROVE Calm
BY <1>4, Where DEF Calm, SwitchPoint, Interrupt, PumpIdle, Cancelling, At, threadVars
<1>5. ASSUME QuitOrInterrupt PROVE Calm
BY <1>5, Where DEF Calm, SwitchPoint, QuitOrInterrupt, PumpIdle, Cancelling, At,
     threadVars
<1>6. ASSUME ForceClear PROVE Calm
BY <1>6, Where DEF Calm, SwitchPoint, ForceClear, PumpIdle, At, threadVars
<1>7. ASSUME Restart PROVE Calm
BY <1>7, Where DEF Calm, SwitchPoint, Restart, PumpIdle, Goto, At, threadVars
<1>8. ASSUME SwitchAgent PROVE Calm
BY <1>8, Where DEF Calm, SwitchPoint, SwitchAgent, PumpIdle, At, threadVars
<1>9. ASSUME PickLogin PROVE Calm
BY <1>9, Where DEF Calm, SwitchPoint, PickLogin, PumpIdle, At, threadVars
<1>10. ASSUME NEW t \in Task, LoginRefresh(t) PROVE Calm
BY <1>10, Where DEF Calm, SwitchPoint, LoginRefresh, At, Goto, threadVars
<1>11. ASSUME NEW t \in Task, ThreadSwitchFails(t) PROVE Calm
BY <1>11, Where DEF Calm, SwitchPoint, ThreadSwitchFails, At, Goto
<1>12. ASSUME NEW t \in Task, ResumedStateUnreadable(t) PROVE Calm
BY <1>12, Where DEF Calm, SwitchPoint, ResumedStateUnreadable, At, Goto, threadVars
<1>13. ASSUME NEW t \in Task, RespawnFails(t) PROVE Calm
BY <1>13, Where DEF Calm, SwitchPoint, RespawnFails, At, Goto, Caller, FailurePosted,
     threadVars
<1>14. ASSUME StartupFails PROVE Calm
BY <1>14, Where DEF Calm, SwitchPoint, StartupFails, At, Goto, threadVars
<1>15. ASSUME SwapTeardownFails PROVE Calm
BY <1>15, Where DEF Calm, SwitchPoint, SwapTeardownFails, At, Goto, threadVars
<1>16. ASSUME SwapRestartFails PROVE Calm
BY <1>16, Where DEF Calm, SwitchPoint, SwapRestartFails, At, Goto, FailurePosted,
     threadVars
<1>17. ASSUME StartupSucceeds PROVE Calm
BY <1>17, Where DEF Calm, SwitchPoint, StartupSucceeds, At, Goto, threadVars
<1>18. ASSUME SwapTearsDown PROVE Calm
BY <1>18, Where DEF Calm, SwitchPoint, SwapTearsDown, At, Goto, threadVars
<1>19. ASSUME SwapDropsDeferred PROVE Calm
BY <1>19, Where DEF Calm, SwitchPoint, SwapDropsDeferred, At, Goto, threadVars
<1>20. ASSUME SwapResetsThread PROVE Calm
BY <1>20, Where DEF Calm, SwitchPoint, SwapResetsThread, At, Goto
<1>21. ASSUME SwapRestarts PROVE Calm
BY <1>21, Where DEF Calm, SwitchPoint, SwapRestarts, At, Goto, threadVars
<1>22. ASSUME SwapConfirms PROVE Calm
BY <1>22, Where DEF Calm, SwitchPoint, SwapConfirms, At, Goto, threadVars
<1>23. ASSUME ServerReady PROVE Calm
BY <1>23, Where DEF Calm, SwitchPoint, ServerReady, PumpIdle, At, threadVars, ctlVars
<1>24. ASSUME ServerStartFailed PROVE Calm
BY <1>24, Where DEF Calm, SwitchPoint, ServerStartFailed, PumpIdle, At, threadVars,
     ctlVars
<1>25. ASSUME RunLater PROVE Calm
BY <1>25, Where DEF Calm, SwitchPoint, RunLater, PumpIdle, Goto, At, threadVars
<1>26. ASSUME NEW t \in Task, CreateTask(t) PROVE Calm
BY <1>26, Where DEF Calm, SwitchPoint, CreateTask, PumpIdle, At, threadVars
<1>27. ASSUME NEW t \in Task, Process(t) PROVE Calm
BY <1>27, Where DEF Calm, SwitchPoint, Process, At, Goto, threadVars
<1>28. ASSUME NEW t \in Task, SendToAgent(t) PROVE Calm
BY <1>28, Where, Dispatched DEF Calm, SwitchPoint, SendToAgent, At, threadVars
<1>29. ASSUME NEW t \in Task, StartShell(t) PROVE Calm
BY <1>29, Where, Dispatched DEF Calm, SwitchPoint, StartShell, At, threadVars
<1>30. ASSUME NEW t \in Task, ResetThread(t) PROVE Calm
BY <1>30, Where DEF Calm, SwitchPoint, ResetThread, At, Goto
<1>31. ASSUME NEW t \in Task, ClearReturns(t) PROVE Calm
BY <1>31, Where DEF Calm, SwitchPoint, ClearReturns, At, Goto, threadVars
<1>32. ASSUME NEW t \in Task, Processed(t) PROVE Calm
BY <1>32, Where DEF Calm, SwitchPoint, Processed, At, Goto, threadVars
<1>33. ASSUME NEW t \in Task, ProcessNext(t) PROVE Calm
BY <1>33, Where DEF Calm, SwitchPoint, ProcessNext, At, Goto, threadVars
<1>34. ASSUME NEW t \in Task, WidgetRemoved(t) PROVE Calm
BY <1>34, Where DEF Calm, SwitchPoint, WidgetRemoved, At, Goto, threadVars
<1>35. ASSUME NEW t \in Task, WorkerStarts(t) PROVE Calm
BY <1>35, Where DEF Calm, SwitchPoint, WorkerStarts, At, Goto, threadVars
<1>36. ASSUME NEW t \in Task, WorkerEnds(t) PROVE Calm
BY <1>36, Where DEF Calm, SwitchPoint, WorkerEnds, At, Goto, CleanupStart, threadVars
<1>37. ASSUME NEW t \in Task, SpinnerRemoved(t) PROVE Calm
BY <1>37, Where DEF Calm, SwitchPoint, SpinnerRemoved, At, Goto, CleanupStart, threadVars
<1>38. ASSUME NEW t \in Task, MaybeDrainDeferred(t) PROVE Calm
BY <1>38, Where DEF Calm, SwitchPoint, MaybeDrainDeferred, At, Goto, AfterDrain,
     threadVars
<1>39. ASSUME NEW t \in Task, DrainDeferred(t) PROVE Calm
BY <1>39, Where DEF Calm, SwitchPoint, DrainDeferred, At, Goto, AfterDrain, threadVars
<1>40. ASSUME NEW t \in Task, HistoryPrefetched(t) PROVE Calm
BY <1>40, Where DEF Calm, SwitchPoint, HistoryPrefetched, At, Goto, threadVars
<1>41. ASSUME NEW t \in Task, SwitchThread(t) PROVE Calm
BY <1>41, Where DEF Calm, SwitchPoint, SwitchThread, At, Goto
<1>42. ASSUME NEW t \in Task, SwitchModel(t) PROVE Calm
BY <1>42, Where DEF Calm, SwitchPoint, SwitchModel, At, Goto, Caller, threadVars
<1>43. ASSUME NEW t \in Task, RetryStartup(t) PROVE Calm
BY <1>43, Where DEF Calm, SwitchPoint, RetryStartup, At, Caller, threadVars
<1>44. ASSUME NEW t \in Task, ActionReturns(t) PROVE Calm
BY <1>44, Where DEF Calm, SwitchPoint, ActionReturns, At, Goto, Caller, threadVars
<1>45. ASSUME NEW t \in Task, LoginLater(t) PROVE Calm
BY <1>45, Where DEF Calm, SwitchPoint, LoginLater, At, Goto, Caller, threadVars
<1>46. ASSUME NEW t \in Task, Respawned(t) PROVE Calm
BY <1>46, Where DEF Calm, SwitchPoint, Respawned, At, Goto, Caller, threadVars
<1>47. ASSUME RestartSevers PROVE Calm
BY <1>47, Where DEF Calm, SwitchPoint, RestartSevers, Severed, At, threadVars
<1>48. ASSUME NEW t \in Task, TaskStarts(t) PROVE Calm
BY <1>48, Where DEF Calm, SwitchPoint, TaskStarts, At, Goto, threadVars
<1>49. ASSUME NEW t \in Task, HistoryLoaded(t) PROVE Calm
BY <1>49, Where DEF Calm, SwitchPoint, HistoryLoaded, At, Goto, threadVars
<1>50. ASSUME NEW t \in Task, DrainBacklog(t) PROVE Calm
BY <1>50, Where DEF Calm, SwitchPoint, DrainBacklog, At, Goto, threadVars
<1>51. ASSUME UNCHANGED vars PROVE Calm
  BY <1>51 DEF Calm, vars, threadVars, ctlVars
<1> QED
BY <1>1, <1>2, <1>3, <1>4, <1>5, <1>6, <1>7, <1>8, <1>9, <1>10, <1>11, <1>12, <1>13,
     <1>14, <1>15, <1>16, <1>17, <1>18, <1>19, <1>20, <1>21, <1>22, <1>23, <1>24, <1>25,
     <1>26, <1>27, <1>28, <1>29, <1>30, <1>31, <1>32, <1>33, <1>34, <1>35, <1>36, <1>37,
     <1>38, <1>39, <1>40, <1>41, <1>42, <1>43, <1>44, <1>45, <1>46, <1>47, <1>48, <1>49,
     <1>50, <1>51
  DEF Next, Input, Fault, StartStep, SwapStep, MailStep, Step

LEMMA SwitchStep ==
  ASSUME TypeOK, QueueInv, OneThreadSwitch, [Next]_vars
  PROVE  OneThreadSwitch'
<1>1. ASSUME Calm PROVE OneThreadSwitch'
  BY <1>1 DEF Calm, OneThreadSwitch
<1>2. ASSUME NEW t \in Task, ResumeThread(t) PROVE OneThreadSwitch'
  <2>1. ASSUME Goto(t, "notice"), UNCHANGED threadSwitching PROVE OneThreadSwitch'
    <3>1. Calm
      BY <1>2, <2>1, Where DEF ResumeThread, Goto, At, Calm, SwitchPoint
    <3> QED
      BY <1>1, <3>1
  <2>2. ASSUME ~SwitchRefused, threadSwitching', Goto(t, "prefetch") PROVE OneThreadSwitch'
    <3>1. ~threadSwitching /\ threadSwitching' /\ pc' = [pc EXCEPT ![t] = "prefetch"]
      BY <2>2 DEF SwitchRefused, Goto
    <3>2. \A u \in Task : pc[u] \notin SwitchPoint
      BY <3>1 DEF OneThreadSwitch
    <3>3. \A u \in Task : pc'[u] \in SwitchPoint <=> u = t
      BY <3>1, <3>2, Where DEF SwitchPoint
    <3> QED
      BY <3>1, <3>3 DEF OneThreadSwitch
  <2> QED
    BY <1>2, <2>1, <2>2 DEF ResumeThread
<1>3. ASSUME NEW t \in Task, ThreadSwitchReturns(t) PROVE OneThreadSwitch'
  <2>1. pc[t] \in SwitchPoint /\ ~threadSwitching' /\ pc' = [pc EXCEPT ![t] = Caller(t)]
    BY <1>3 DEF ThreadSwitchReturns, At, Goto, SwitchPoint
  <2>2. \A u \in Task : pc[u] \in SwitchPoint => u = t
    BY <2>1 DEF OneThreadSwitch
  <2>3. \A u \in Task : pc'[u] \notin SwitchPoint
    BY <2>1, <2>2, Where DEF Caller, SwitchPoint
  <2> QED
    BY <2>1, <2>3 DEF OneThreadSwitch
<1> QED
  BY <1>1, <1>2, <1>3, CalmSteps

\* Two thread switches never overlap, and whatever fails in one, input is accepted again:
\* _thread_switching is set exactly while one task is inside _resume_thread.
THEOREM SwitchesExclude == Spec => []OneThreadSwitch
<1>1. Init => OneThreadSwitch
  BY DEF Init, OneThreadSwitch, SwitchPoint
<1>2. TypeOK /\ QueueInv /\ OneThreadSwitch /\ [Next]_vars => OneThreadSwitch'
  BY SwitchStep
<1> QED
  BY <1>1, <1>2, TypeCorrect, QueueDiscipline, PTL DEF Spec

-----------------------------------------------------------------------------
(* Connecting *)

LEMMA CallingStep ==
  ASSUME ConnectingIsOwned, Calling
  PROVE  ConnectingIsOwned'
BY DEF ConnectingIsOwned, Calling, Told

LEMMA OwnedStep ==
  ASSUME TypeOK, QueueInv, ConnectingIsOwned, [Next]_vars
  PROVE  ConnectingIsOwned'
<1>1. ASSUME NEW m \in Msg, Submit(m) PROVE Calling
BY <1>1, Where DEF Calling, Submit, PumpIdle, Goto, At, serverVars, ctlVars
<1>2. ASSUME NEW m \in Msg, SubmitBypass(m) PROVE Calling
BY <1>2, Where DEF Calling, SubmitBypass, PumpIdle, Goto, At, serverVars
<1>3. ASSUME NEW kind \in {"thread", "model"}, Pick(kind) PROVE Calling
BY <1>3, Where, Mailbox, Mails DEF Calling, Pick, PumpIdle, At, serverVars, ctlVars
<1>4. ASSUME Interrupt PROVE Calling
BY <1>4, Where DEF Calling, Interrupt, PumpIdle, Cancelling, At, serverVars
<1>5. ASSUME QuitOrInterrupt PROVE Calling
BY <1>5, Where DEF Calling, QuitOrInterrupt, PumpIdle, Cancelling, At, serverVars
<1>6. ASSUME ForceClear PROVE Calling
BY <1>6, Where DEF Calling, ForceClear, PumpIdle, At, serverVars
<1>7. ASSUME Restart PROVE Calling
BY <1>7, Where DEF Calling, Restart, PumpIdle, Goto, At, serverVars
<1>8. ASSUME SwitchAgent PROVE Calling
BY <1>8, Where DEF Calling, SwitchAgent, PumpIdle, At, serverVars
<1>9. ASSUME PickLogin PROVE Calling
BY <1>9, Where DEF Calling, PickLogin, PumpIdle, At, serverVars
<1>10. ASSUME NEW t \in Task, LoginRefresh(t) PROVE ConnectingIsOwned'
BY <1>10, Where, Mailbox DEF ConnectingIsOwned, Told, LoginRefresh, At, Goto
<1>11. ASSUME NEW t \in Task, ThreadSwitchFails(t) PROVE Calling
BY <1>11, Where DEF Calling, ThreadSwitchFails, At, Goto, serverVars
<1>12. ASSUME NEW t \in Task, ResumedStateUnreadable(t) PROVE Calling
BY <1>12, Where DEF Calling, ResumedStateUnreadable, At, Goto, serverVars
<1>13. ASSUME NEW t \in Task, RespawnFails(t) PROVE ConnectingIsOwned'
BY <1>13 DEF ConnectingIsOwned, RespawnFails, FailurePosted
<1>14. ASSUME StartupFails PROVE ConnectingIsOwned'
  <2>1. Answered'
    BY <1>14, Where, Mailbox, Mails DEF Answered, StartupFails
  <2> QED
    BY <2>1 DEF Answered, ConnectingIsOwned, Told
<1>15. ASSUME SwapTeardownFails PROVE ConnectingIsOwned'
BY <1>15 DEF ConnectingIsOwned, SwapTeardownFails
<1>16. ASSUME SwapRestartFails PROVE ConnectingIsOwned'
BY <1>16 DEF ConnectingIsOwned, SwapRestartFails, FailurePosted
<1>17. ASSUME StartupSucceeds PROVE ConnectingIsOwned'
  <2>1. Answered'
    BY <1>17, Where, Mailbox, Mails DEF Answered, StartupSucceeds
  <2> QED
    BY <2>1 DEF Answered, ConnectingIsOwned, Told
<1>18. ASSUME SwapTearsDown PROVE ConnectingIsOwned'
BY <1>18, Where, Mailbox DEF ConnectingIsOwned, Told, SwapTearsDown, At, Goto
<1>19. ASSUME SwapDropsDeferred PROVE ConnectingIsOwned'
BY <1>19, Where, Mailbox DEF ConnectingIsOwned, Told, SwapDropsDeferred, At, Goto,
     serverVars
<1>20. ASSUME SwapResetsThread PROVE ConnectingIsOwned'
BY <1>20, Where, Mailbox DEF ConnectingIsOwned, Told, SwapResetsThread, At, Goto,
     serverVars
<1>21. ASSUME SwapRestarts PROVE ConnectingIsOwned'
BY <1>21 DEF ConnectingIsOwned, SwapRestarts
<1>22. ASSUME SwapConfirms PROVE Calling
BY <1>22, Where, Mailbox, Mails DEF Calling, SwapConfirms, At, Goto, serverVars
<1>23. ASSUME ServerReady PROVE ConnectingIsOwned'
BY <1>23 DEF ConnectingIsOwned, ServerReady
<1>24. ASSUME ServerStartFailed PROVE ConnectingIsOwned'
BY <1>24 DEF ConnectingIsOwned, ServerStartFailed
<1>25. ASSUME RunLater PROVE Calling
BY <1>25, Where, Mailbox DEF Calling, RunLater, PumpIdle, Goto, At, serverVars
<1>26. ASSUME NEW t \in Task, CreateTask(t) PROVE Calling
BY <1>26, Where, Mailbox DEF Calling, CreateTask, PumpIdle, At, serverVars
<1>27. ASSUME NEW t \in Task, Process(t) PROVE Calling
BY <1>27, Where DEF Calling, Process, At, Goto, serverVars
<1>28. ASSUME NEW t \in Task, SendToAgent(t) PROVE Calling
BY <1>28, Where, Dispatched DEF Calling, SendToAgent, At, serverVars
<1>29. ASSUME NEW t \in Task, StartShell(t) PROVE Calling
BY <1>29, Where, Dispatched DEF Calling, StartShell, At, serverVars
<1>30. ASSUME NEW t \in Task, ResetThread(t) PROVE Calling
BY <1>30, Where DEF Calling, ResetThread, At, Goto, serverVars
<1>31. ASSUME NEW t \in Task, ClearReturns(t) PROVE Calling
BY <1>31, Where DEF Calling, ClearReturns, At, Goto, serverVars
<1>32. ASSUME NEW t \in Task, Processed(t) PROVE Calling
BY <1>32, Where DEF Calling, Processed, At, Goto, serverVars
<1>33. ASSUME NEW t \in Task, ProcessNext(t) PROVE Calling
BY <1>33, Where DEF Calling, ProcessNext, At, Goto, serverVars
<1>34. ASSUME NEW t \in Task, WidgetRemoved(t) PROVE Calling
BY <1>34, Where DEF Calling, WidgetRemoved, At, Goto, serverVars
<1>35. ASSUME NEW t \in Task, WorkerStarts(t) PROVE Calling
BY <1>35, Where DEF Calling, WorkerStarts, At, Goto, serverVars
<1>36. ASSUME NEW t \in Task, WorkerEnds(t) PROVE Calling
BY <1>36, Where DEF Calling, WorkerEnds, At, Goto, CleanupStart, serverVars
<1>37. ASSUME NEW t \in Task, SpinnerRemoved(t) PROVE Calling
BY <1>37, Where DEF Calling, SpinnerRemoved, At, Goto, CleanupStart, serverVars
<1>38. ASSUME NEW t \in Task, MaybeDrainDeferred(t) PROVE Calling
BY <1>38, Where DEF Calling, MaybeDrainDeferred, At, Goto, AfterDrain, serverVars
<1>39. ASSUME NEW t \in Task, DrainDeferred(t) PROVE Calling
BY <1>39, Where DEF Calling, DrainDeferred, At, Goto, AfterDrain, serverVars
<1>40. ASSUME NEW t \in Task, ResumeThread(t) PROVE Calling
BY <1>40, Where DEF Calling, ResumeThread, At, Goto, serverVars
<1>41. ASSUME NEW t \in Task, HistoryPrefetched(t) PROVE Calling
BY <1>41, Where DEF Calling, HistoryPrefetched, At, Goto, serverVars
<1>42. ASSUME NEW t \in Task, SwitchThread(t) PROVE Calling
BY <1>42, Where DEF Calling, SwitchThread, At, Goto, serverVars
<1>43. ASSUME NEW t \in Task, ThreadSwitchReturns(t) PROVE Calling
BY <1>43, Where DEF Calling, ThreadSwitchReturns, At, Goto, Caller, serverVars
<1>44. ASSUME NEW t \in Task, SwitchModel(t) PROVE ConnectingIsOwned'
BY <1>44, Where, Mailbox DEF ConnectingIsOwned, Told, SwitchModel, At, Goto, Caller
<1>45. ASSUME NEW t \in Task, RetryStartup(t) PROVE ConnectingIsOwned'
BY <1>45, Where, Mailbox DEF ConnectingIsOwned, Told, RetryStartup, At, Caller, serverVars
<1>46. ASSUME NEW t \in Task, ActionReturns(t) PROVE Calling
BY <1>46, Where DEF Calling, ActionReturns, At, Goto, Caller, serverVars
<1>47. ASSUME NEW t \in Task, LoginLater(t) PROVE Calling
BY <1>47, Where DEF Calling, LoginLater, At, Goto, Caller, serverVars
<1>48. ASSUME NEW t \in Task, Respawned(t) PROVE ConnectingIsOwned'
  <2>1. Answered'
    BY <1>48, Where, Mailbox, Mails DEF Answered, Respawned
  <2> QED
    BY <2>1 DEF Answered, ConnectingIsOwned, Told
<1>49. ASSUME RestartSevers PROVE ConnectingIsOwned'
BY <1>49, Where, Mailbox DEF ConnectingIsOwned, Told, RestartSevers, Severed, At
<1>50. ASSUME NEW t \in Task, TaskStarts(t) PROVE Calling
BY <1>50, Where DEF Calling, TaskStarts, At, Goto, serverVars
<1>51. ASSUME NEW t \in Task, HistoryLoaded(t) PROVE Calling
BY <1>51, Where DEF Calling, HistoryLoaded, At, Goto, serverVars
<1>52. ASSUME NEW t \in Task, DrainBacklog(t) PROVE Calling
BY <1>52, Where DEF Calling, DrainBacklog, At, Goto, serverVars
<1>53. ASSUME UNCHANGED vars PROVE Calling
  BY <1>53 DEF Calling, vars, serverVars, ctlVars
<1> QED
BY CallingStep, <1>1, <1>2, <1>3, <1>4, <1>5, <1>6, <1>7, <1>8, <1>9, <1>10, <1>11, <1>12,
     <1>13, <1>14, <1>15, <1>16, <1>17, <1>18, <1>19, <1>20, <1>21, <1>22, <1>23, <1>24,
     <1>25, <1>26, <1>27, <1>28, <1>29, <1>30, <1>31, <1>32, <1>33, <1>34, <1>35, <1>36,
     <1>37, <1>38, <1>39, <1>40, <1>41, <1>42, <1>43, <1>44, <1>45, <1>46, <1>47, <1>48,
     <1>49, <1>50, <1>51, <1>52, <1>53
  DEF Next, Input, Fault, StartStep, SwapStep, MailStep, Step

\* Whatever starts, fails or overlaps, the session does not stay in Connecting: a start or
\* a restart is under way, or has posted what became of it.
THEOREM ConnectingEnds == Spec => []ConnectingIsOwned
<1>1. Init => ConnectingIsOwned
  BY Tasks DEF Init, ConnectingIsOwned
<1>2. TypeOK /\ QueueInv /\ ConnectingIsOwned /\ [Next]_vars => ConnectingIsOwned'
  BY OwnedStep
<1> QED
  BY <1>1, <1>2, TypeCorrect, QueueDiscipline, PTL DEF Spec

-----------------------------------------------------------------------------
(* Who looks at the queue and at the deferred actions when the session comes  *)
(* to rest.                                                                   *)

\* The swap and login workers and a _safe_drain keep to their own routines: none of them
\* takes a message.  The history is loaded by the session start sequence.
Home ==
  /\ pc[Swap] \in {"idle", "ready", "swapClear", "swapReset", "swapRestart", "swapConfirm"}
  /\ pc[Login] \in {"idle", "modal", "respawning"}
  /\ \A t \in SafeTask : pc[t] \notin {"next"} \cup HoldPoint \cup DonePoint
  /\ \A t \in Task : pc[t] = "history" => t \in SeqTask

\* Only a /clear takes a task but the pump through the reset of the thread.
ClearsOnly ==
  \A t \in Task \ {Pump} : pc[t] \in {"clearing", "cleared"} => Kind[cur[t]] = "clear"

\* A task that returns from _process_message has the event loop, and if it submitted the
\* initial prompt the agent has it, or there is none and the prompt is lost.
Sent ==
  \A t \in Task : pc[t] = "processed" =>
    /\ active = t
    /\ cur[t] # None /\ cur[t] = InitialPrompt =>
         agentRunning \/ (~agentUp /\ fate[InitialPrompt] = "lost")

\* Where an agent is connected before the flag is cleared, the outcome is posted.
UpPosted == connecting /\ agentUp => Posted({"up"}, mail)

\* The kinds of tasks have nothing in common.
LEMMA Apart ==
  /\ {Pump, Start, Swap, Login} \cap (SeqTask \cup SafeTask \cup LaterTask \cup Msg) = {}
  /\ SeqTask \cap (SafeTask \cup LaterTask \cup Msg) = {}
  /\ SafeTask \cap (LaterTask \cup Msg) = {} /\ LaterTask \cap Msg = {}
  /\ Pump \notin {Start, Swap, Login} /\ Start \notin {Swap, Login} /\ Swap # Login
  /\ SeqTask \cup SafeTask \cup LaterTask \subseteq Task
  BY TaskAssumption DEF Singleton, Task

LEMMA HomeStep ==
  ASSUME TypeOK, QueueInv, Home, [Next]_vars
  PROVE  Home'
<1>1. ASSUME NEW m \in Msg, Submit(m) PROVE Home'
BY <1>1, Where, Apart DEF Home, HoldPoint, DonePoint, Submit, Goto, PumpIdle, ctlVars, At
<1>2. ASSUME NEW m \in Msg, SubmitBypass(m) PROVE Home'
BY <1>2, Where, Apart DEF Home, HoldPoint, DonePoint, SubmitBypass, Goto, PumpIdle, At
<1>3. ASSUME NEW kind \in {"thread", "model"}, Pick(kind) PROVE Home'
BY <1>3, Where, Apart DEF Home, HoldPoint, DonePoint, Pick, PumpIdle, Defer, ctlVars, At
<1>4. ASSUME Interrupt PROVE Home'
BY <1>4, Where, Apart DEF Home, HoldPoint, DonePoint, Interrupt, PumpIdle, Cancelling, At
<1>5. ASSUME QuitOrInterrupt PROVE Home'
BY <1>5, Where, Apart DEF Home, HoldPoint, DonePoint, QuitOrInterrupt, PumpIdle,
     Cancelling, At
<1>6. ASSUME ForceClear PROVE Home'
BY <1>6, Where, Apart DEF Home, HoldPoint, DonePoint, ForceClear, PumpIdle, At
<1>7. ASSUME Restart PROVE Home'
BY <1>7, Where, Apart DEF Home, HoldPoint, DonePoint, Restart, Goto, PumpIdle, At
<1>8. ASSUME SwitchAgent PROVE Home'
BY <1>8, Where, Apart DEF Home, HoldPoint, DonePoint, SwitchAgent, PumpIdle, At
<1>9. ASSUME PickLogin PROVE Home'
BY <1>9, Where, Apart DEF Home, HoldPoint, DonePoint, PickLogin, PumpIdle, Defer, At
<1>10. ASSUME NEW t \in Task, LoginRefresh(t) PROVE Home'
BY <1>10, Where, Apart DEF Home, HoldPoint, DonePoint, LoginRefresh, Goto, At
<1>11. ASSUME NEW t \in Task, ThreadSwitchFails(t) PROVE Home'
BY <1>11, Where, Apart DEF Home, HoldPoint, DonePoint, ThreadSwitchFails, Goto, At
<1>12. ASSUME NEW t \in Task, ResumedStateUnreadable(t) PROVE Home'
BY <1>12, Where, Apart DEF Home, HoldPoint, DonePoint, ResumedStateUnreadable, Goto, At
<1>13. ASSUME NEW t \in Task, RespawnFails(t) PROVE Home'
BY <1>13, Where, Apart DEF Home, HoldPoint, DonePoint, RespawnFails, Goto, At, Caller,
     FailurePosted
<1>14. ASSUME StartupFails PROVE Home'
BY <1>14, Where, Apart DEF Home, HoldPoint, DonePoint, StartupFails, Goto, At
<1>15. ASSUME SwapTeardownFails PROVE Home'
BY <1>15, Where, Apart DEF Home, HoldPoint, DonePoint, SwapTeardownFails, Goto, At
<1>16. ASSUME SwapRestartFails PROVE Home'
BY <1>16, Where, Apart DEF Home, HoldPoint, DonePoint, SwapRestartFails, Goto, At,
     FailurePosted
<1>17. ASSUME StartupSucceeds PROVE Home'
BY <1>17, Where, Apart DEF Home, HoldPoint, DonePoint, StartupSucceeds, Goto, At
<1>18. ASSUME SwapTearsDown PROVE Home'
BY <1>18, Where, Apart DEF Home, HoldPoint, DonePoint, SwapTearsDown, Goto, At
<1>19. ASSUME SwapDropsDeferred PROVE Home'
BY <1>19, Where, Apart DEF Home, HoldPoint, DonePoint, SwapDropsDeferred, Goto, At
<1>20. ASSUME SwapResetsThread PROVE Home'
BY <1>20, Where, Apart DEF Home, HoldPoint, DonePoint, SwapResetsThread, Goto, At
<1>21. ASSUME SwapRestarts PROVE Home'
BY <1>21, Where, Apart DEF Home, HoldPoint, DonePoint, SwapRestarts, Goto, At
<1>22. ASSUME SwapConfirms PROVE Home'
BY <1>22, Where, Apart DEF Home, HoldPoint, DonePoint, SwapConfirms, Goto, At
<1>23. ASSUME ServerReady PROVE Home'
BY <1>23, Where, Apart DEF Home, HoldPoint, DonePoint, ServerReady, PumpIdle, ctlVars, At
<1>24. ASSUME ServerStartFailed PROVE Home'
BY <1>24, Where, Apart DEF Home, HoldPoint, DonePoint, ServerStartFailed, PumpIdle,
     ctlVars, At
<1>25. ASSUME RunLater PROVE Home'
BY <1>25, Where, Apart DEF Home, HoldPoint, DonePoint, RunLater, Goto, PumpIdle, At
<1>26. ASSUME NEW t \in Task, CreateTask(t) PROVE Home'
BY <1>26, Where, Apart DEF Home, HoldPoint, DonePoint, CreateTask, PumpIdle, At
<1>27. ASSUME NEW t \in Task, Process(t) PROVE Home'
BY <1>27, Where, Apart DEF Home, HoldPoint, DonePoint, Process, Goto, At
<1>28. ASSUME NEW t \in Task, SendToAgent(t) PROVE Home'
BY <1>28, Where, Apart, Dispatched DEF Home, HoldPoint, DonePoint, SendToAgent, At
<1>29. ASSUME NEW t \in Task, StartShell(t) PROVE Home'
BY <1>29, Where, Apart, Dispatched DEF Home, HoldPoint, DonePoint, StartShell, At
<1>30. ASSUME NEW t \in Task, ResetThread(t) PROVE Home'
BY <1>30, Where, Apart DEF Home, HoldPoint, DonePoint, ResetThread, Goto, At
<1>31. ASSUME NEW t \in Task, ClearReturns(t) PROVE Home'
BY <1>31, Where, Apart DEF Home, HoldPoint, DonePoint, ClearReturns, Goto, At
<1>32. ASSUME NEW t \in Task, Processed(t) PROVE Home'
BY <1>32, Where, Apart DEF Home, HoldPoint, DonePoint, Processed, Goto, At
<1>33. ASSUME NEW t \in Task, ProcessNext(t) PROVE Home'
BY <1>33, Where, Apart DEF Home, HoldPoint, DonePoint, ProcessNext, Goto, At
<1>34. ASSUME NEW t \in Task, WidgetRemoved(t) PROVE Home'
BY <1>34, Where, Apart DEF Home, HoldPoint, DonePoint, WidgetRemoved, Goto, At
<1>35. ASSUME NEW t \in Task, WorkerStarts(t) PROVE Home'
BY <1>35, Where, Apart DEF Home, HoldPoint, DonePoint, WorkerStarts, Goto, At
<1>36. ASSUME NEW t \in Task, WorkerEnds(t) PROVE Home'
BY <1>36, Where, Apart DEF Home, HoldPoint, DonePoint, WorkerEnds, Goto, At, CleanupStart
<1>37. ASSUME NEW t \in Task, SpinnerRemoved(t) PROVE Home'
BY <1>37, Where, Apart DEF Home, HoldPoint, DonePoint, SpinnerRemoved, Goto, At,
     CleanupStart
<1>38. ASSUME NEW t \in Task, MaybeDrainDeferred(t) PROVE Home'
BY <1>38, Where, Apart DEF Home, HoldPoint, DonePoint, MaybeDrainDeferred, Goto, At,
     AfterDrain
<1>39. ASSUME NEW t \in Task, DrainDeferred(t) PROVE Home'
BY <1>39, Where, Apart DEF Home, HoldPoint, DonePoint, DrainDeferred, Goto, At, AfterDrain
<1>40. ASSUME NEW t \in Task, ResumeThread(t) PROVE Home'
BY <1>40, Where, Apart DEF Home, HoldPoint, DonePoint, ResumeThread, Goto, At
<1>41. ASSUME NEW t \in Task, HistoryPrefetched(t) PROVE Home'
BY <1>41, Where, Apart DEF Home, HoldPoint, DonePoint, HistoryPrefetched, Goto, At
<1>42. ASSUME NEW t \in Task, SwitchThread(t) PROVE Home'
BY <1>42, Where, Apart DEF Home, HoldPoint, DonePoint, SwitchThread, Goto, At
<1>43. ASSUME NEW t \in Task, ThreadSwitchReturns(t) PROVE Home'
BY <1>43, Where, Apart DEF Home, HoldPoint, DonePoint, ThreadSwitchReturns, Goto, At,
     Caller
<1>44. ASSUME NEW t \in Task, SwitchModel(t) PROVE Home'
BY <1>44, Where, Apart DEF Home, HoldPoint, DonePoint, SwitchModel, Goto, At, Caller,
     Defer
<1>45. ASSUME NEW t \in Task, RetryStartup(t) PROVE Home'
BY <1>45, Where, Apart DEF Home, HoldPoint, DonePoint, RetryStartup, At, Caller
<1>46. ASSUME NEW t \in Task, ActionReturns(t) PROVE Home'
BY <1>46, Where, Apart DEF Home, HoldPoint, DonePoint, ActionReturns, Goto, At, Caller
<1>47. ASSUME NEW t \in Task, LoginLater(t) PROVE Home'
BY <1>47, Where, Apart DEF Home, HoldPoint, DonePoint, LoginLater, Goto, At, Caller
<1>48. ASSUME NEW t \in Task, Respawned(t) PROVE Home'
BY <1>48, Where, Apart DEF Home, HoldPoint, DonePoint, Respawned, Goto, At, Caller
<1>49. ASSUME RestartSevers PROVE Home'
BY <1>49, Where, Apart DEF Home, HoldPoint, DonePoint, RestartSevers, Severed, At
<1>50. ASSUME NEW t \in Task, TaskStarts(t) PROVE Home'
BY <1>50, Where, Apart DEF Home, HoldPoint, DonePoint, TaskStarts, Goto, At
<1>51. ASSUME NEW t \in Task, HistoryLoaded(t) PROVE Home'
BY <1>51, Where, Apart DEF Home, HoldPoint, DonePoint, HistoryLoaded, Goto, At
<1>52. ASSUME NEW t \in Task, DrainBacklog(t) PROVE Home'
BY <1>52, Where, Apart DEF Home, HoldPoint, DonePoint, DrainBacklog, Goto, At
<1>53. ASSUME UNCHANGED vars PROVE Home'
BY <1>53, Where, Apart DEF Home, HoldPoint, DonePoint, vars, ctlVars
<1> QED
BY <1>1, <1>2, <1>3, <1>4, <1>5, <1>6, <1>7, <1>8, <1>9, <1>10, <1>11, <1>12, <1>13,
     <1>14, <1>15, <1>16, <1>17, <1>18, <1>19, <1>20, <1>21, <1>22, <1>23, <1>24, <1>25,
     <1>26, <1>27, <1>28, <1>29, <1>30, <1>31, <1>32, <1>33, <1>34, <1>35, <1>36, <1>37,
     <1>38, <1>39, <1>40, <1>41, <1>42, <1>43, <1>44, <1>45, <1>46, <1>47, <1>48, <1>49,
     <1>50, <1>51, <1>52, <1>53
  DEF Next, Input, Fault, StartStep, SwapStep, MailStep, Step

LEMMA ClearsStep ==
  ASSUME TypeOK, QueueInv, ClearsOnly, [Next]_vars
  PROVE  ClearsOnly'
<1>1. ASSUME NEW m \in Msg, Submit(m) PROVE ClearsOnly'
BY <1>1, Where, Apart DEF ClearsOnly, TypeOK, ControlTyped, Submit, Goto, PumpIdle,
     ctlVars, At
<1>2. ASSUME NEW m \in Msg, SubmitBypass(m) PROVE ClearsOnly'
BY <1>2, Where, Apart DEF ClearsOnly, TypeOK, ControlTyped, SubmitBypass, Goto, PumpIdle,
     At
<1>3. ASSUME NEW kind \in {"thread", "model"}, Pick(kind) PROVE ClearsOnly'
BY <1>3, Where, Apart DEF ClearsOnly, TypeOK, ControlTyped, Pick, PumpIdle, Defer,
     ctlVars, At
<1>4. ASSUME Interrupt PROVE ClearsOnly'
BY <1>4, Where, Apart DEF ClearsOnly, TypeOK, ControlTyped, Interrupt, PumpIdle,
     Cancelling, At
<1>5. ASSUME QuitOrInterrupt PROVE ClearsOnly'
BY <1>5, Where, Apart DEF ClearsOnly, TypeOK, ControlTyped, QuitOrInterrupt, PumpIdle,
     Cancelling, At
<1>6. ASSUME ForceClear PROVE ClearsOnly'
BY <1>6, Where, Apart DEF ClearsOnly, TypeOK, ControlTyped, ForceClear, PumpIdle, At
<1>7. ASSUME Restart PROVE ClearsOnly'
BY <1>7, Where, Apart DEF ClearsOnly, TypeOK, ControlTyped, Restart, Goto, PumpIdle, At
<1>8. ASSUME SwitchAgent PROVE ClearsOnly'
BY <1>8, Where, Apart DEF ClearsOnly, TypeOK, ControlTyped, SwitchAgent, PumpIdle, At
<1>9. ASSUME PickLogin PROVE ClearsOnly'
BY <1>9, Where, Apart DEF ClearsOnly, TypeOK, ControlTyped, PickLogin, PumpIdle, Defer, At
<1>10. ASSUME NEW t \in Task, LoginRefresh(t) PROVE ClearsOnly'
BY <1>10, Where, Apart DEF ClearsOnly, TypeOK, ControlTyped, LoginRefresh, Goto, At
<1>11. ASSUME NEW t \in Task, ThreadSwitchFails(t) PROVE ClearsOnly'
BY <1>11, Where, Apart DEF ClearsOnly, TypeOK, ControlTyped, ThreadSwitchFails, Goto, At
<1>12. ASSUME NEW t \in Task, ResumedStateUnreadable(t) PROVE ClearsOnly'
BY <1>12, Where, Apart DEF ClearsOnly, TypeOK, ControlTyped, ResumedStateUnreadable, Goto,
     At
<1>13. ASSUME NEW t \in Task, RespawnFails(t) PROVE ClearsOnly'
BY <1>13, Where, Apart DEF ClearsOnly, TypeOK, ControlTyped, RespawnFails, Goto, At,
     Caller, FailurePosted
<1>14. ASSUME StartupFails PROVE ClearsOnly'
BY <1>14, Where, Apart DEF ClearsOnly, TypeOK, ControlTyped, StartupFails, Goto, At
<1>15. ASSUME SwapTeardownFails PROVE ClearsOnly'
BY <1>15, Where, Apart DEF ClearsOnly, TypeOK, ControlTyped, SwapTeardownFails, Goto, At
<1>16. ASSUME SwapRestartFails PROVE ClearsOnly'
BY <1>16, Where, Apart DEF ClearsOnly, TypeOK, ControlTyped, SwapRestartFails, Goto, At,
     FailurePosted
<1>17. ASSUME StartupSucceeds PROVE ClearsOnly'
BY <1>17, Where, Apart DEF ClearsOnly, TypeOK, ControlTyped, StartupSucceeds, Goto, At
<1>18. ASSUME SwapTearsDown PROVE ClearsOnly'
BY <1>18, Where, Apart DEF ClearsOnly, TypeOK, ControlTyped, SwapTearsDown, Goto, At
<1>19. ASSUME SwapDropsDeferred PROVE ClearsOnly'
BY <1>19, Where, Apart DEF ClearsOnly, TypeOK, ControlTyped, SwapDropsDeferred, Goto, At
<1>20. ASSUME SwapResetsThread PROVE ClearsOnly'
BY <1>20, Where, Apart DEF ClearsOnly, TypeOK, ControlTyped, SwapResetsThread, Goto, At
<1>21. ASSUME SwapRestarts PROVE ClearsOnly'
BY <1>21, Where, Apart DEF ClearsOnly, TypeOK, ControlTyped, SwapRestarts, Goto, At
<1>22. ASSUME SwapConfirms PROVE ClearsOnly'
BY <1>22, Where, Apart DEF ClearsOnly, TypeOK, ControlTyped, SwapConfirms, Goto, At
<1>23. ASSUME ServerReady PROVE ClearsOnly'
BY <1>23, Where, Apart DEF ClearsOnly, TypeOK, ControlTyped, ServerReady, PumpIdle,
     ctlVars, At
<1>24. ASSUME ServerStartFailed PROVE ClearsOnly'
BY <1>24, Where, Apart DEF ClearsOnly, TypeOK, ControlTyped, ServerStartFailed, PumpIdle,
     ctlVars, At
<1>25. ASSUME RunLater PROVE ClearsOnly'
BY <1>25, Where, Apart DEF ClearsOnly, TypeOK, ControlTyped, RunLater, Goto, PumpIdle, At
<1>26. ASSUME NEW t \in Task, CreateTask(t) PROVE ClearsOnly'
BY <1>26, Where, Apart DEF ClearsOnly, TypeOK, ControlTyped, CreateTask, PumpIdle, At
<1>27. ASSUME NEW t \in Task, Process(t) PROVE ClearsOnly'
BY <1>27, Where, Apart DEF ClearsOnly, TypeOK, ControlTyped, Process, Goto, At
<1>28. ASSUME NEW t \in Task, SendToAgent(t) PROVE ClearsOnly'
BY <1>28, Where, Apart, Dispatched DEF ClearsOnly, TypeOK, ControlTyped, SendToAgent, At
<1>29. ASSUME NEW t \in Task, StartShell(t) PROVE ClearsOnly'
BY <1>29, Where, Apart, Dispatched DEF ClearsOnly, TypeOK, ControlTyped, StartShell, At
<1>30. ASSUME NEW t \in Task, ResetThread(t) PROVE ClearsOnly'
BY <1>30, Where, Apart DEF ClearsOnly, TypeOK, ControlTyped, ResetThread, Goto, At
<1>31. ASSUME NEW t \in Task, ClearReturns(t) PROVE ClearsOnly'
BY <1>31, Where, Apart DEF ClearsOnly, TypeOK, ControlTyped, ClearReturns, Goto, At
<1>32. ASSUME NEW t \in Task, Processed(t) PROVE ClearsOnly'
  <2>1. PICK label \in {"idle", "done", "next"} : pc' = [pc EXCEPT ![t] = label]
    BY <1>32 DEF Processed, Goto
  <2>2. cur' = [cur EXCEPT ![t] = None] /\ cur \in [Task -> Msg \cup {None}]
    BY <1>32 DEF Processed, TypeOK, ControlTyped
  <2> SUFFICES ASSUME NEW u \in Task \ {Pump}, pc'[u] \in {"clearing", "cleared"}
               PROVE  Kind[cur'[u]] = "clear"
    BY DEF ClearsOnly
  <2>3. u # t /\ pc[u] \in {"clearing", "cleared"}
    BY <2>1, Where
  <2>4. cur'[u] = cur[u]
    BY <2>2, <2>3
  <2> QED
    BY <2>3, <2>4 DEF ClearsOnly
<1>33. ASSUME NEW t \in Task, ProcessNext(t) PROVE ClearsOnly'
BY <1>33, Where, Apart DEF ClearsOnly, TypeOK, ControlTyped, ProcessNext, Goto, At
<1>34. ASSUME NEW t \in Task, WidgetRemoved(t) PROVE ClearsOnly'
BY <1>34, Where, Apart DEF ClearsOnly, TypeOK, ControlTyped, WidgetRemoved, Goto, At
<1>35. ASSUME NEW t \in Task, WorkerStarts(t) PROVE ClearsOnly'
BY <1>35, Where, Apart DEF ClearsOnly, TypeOK, ControlTyped, WorkerStarts, Goto, At
<1>36. ASSUME NEW t \in Task, WorkerEnds(t) PROVE ClearsOnly'
BY <1>36, Where, Apart DEF ClearsOnly, TypeOK, ControlTyped, WorkerEnds, Goto, At,
     CleanupStart
<1>37. ASSUME NEW t \in Task, SpinnerRemoved(t) PROVE ClearsOnly'
BY <1>37, Where, Apart DEF ClearsOnly, TypeOK, ControlTyped, SpinnerRemoved, Goto, At,
     CleanupStart
<1>38. ASSUME NEW t \in Task, MaybeDrainDeferred(t) PROVE ClearsOnly'
BY <1>38, Where, Apart DEF ClearsOnly, TypeOK, ControlTyped, MaybeDrainDeferred, Goto, At,
     AfterDrain
<1>39. ASSUME NEW t \in Task, DrainDeferred(t) PROVE ClearsOnly'
BY <1>39, Where, Apart DEF ClearsOnly, TypeOK, ControlTyped, DrainDeferred, Goto, At,
     AfterDrain
<1>40. ASSUME NEW t \in Task, ResumeThread(t) PROVE ClearsOnly'
BY <1>40, Where, Apart DEF ClearsOnly, TypeOK, ControlTyped, ResumeThread, Goto, At
<1>41. ASSUME NEW t \in Task, HistoryPrefetched(t) PROVE ClearsOnly'
BY <1>41, Where, Apart DEF ClearsOnly, TypeOK, ControlTyped, HistoryPrefetched, Goto, At
<1>42. ASSUME NEW t \in Task, SwitchThread(t) PROVE ClearsOnly'
BY <1>42, Where, Apart DEF ClearsOnly, TypeOK, ControlTyped, SwitchThread, Goto, At
<1>43. ASSUME NEW t \in Task, ThreadSwitchReturns(t) PROVE ClearsOnly'
BY <1>43, Where, Apart DEF ClearsOnly, TypeOK, ControlTyped, ThreadSwitchReturns, Goto,
     At, Caller
<1>44. ASSUME NEW t \in Task, SwitchModel(t) PROVE ClearsOnly'
BY <1>44, Where, Apart DEF ClearsOnly, TypeOK, ControlTyped, SwitchModel, Goto, At,
     Caller, Defer
<1>45. ASSUME NEW t \in Task, RetryStartup(t) PROVE ClearsOnly'
BY <1>45, Where, Apart DEF ClearsOnly, TypeOK, ControlTyped, RetryStartup, At, Caller
<1>46. ASSUME NEW t \in Task, ActionReturns(t) PROVE ClearsOnly'
BY <1>46, Where, Apart DEF ClearsOnly, TypeOK, ControlTyped, ActionReturns, Goto, At,
     Caller
<1>47. ASSUME NEW t \in Task, LoginLater(t) PROVE ClearsOnly'
BY <1>47, Where, Apart DEF ClearsOnly, TypeOK, ControlTyped, LoginLater, Goto, At, Caller
<1>48. ASSUME NEW t \in Task, Respawned(t) PROVE ClearsOnly'
BY <1>48, Where, Apart DEF ClearsOnly, TypeOK, ControlTyped, Respawned, Goto, At, Caller
<1>49. ASSUME RestartSevers PROVE ClearsOnly'
BY <1>49, Where, Apart DEF ClearsOnly, TypeOK, ControlTyped, RestartSevers, Severed, At
<1>50. ASSUME NEW t \in Task, TaskStarts(t) PROVE ClearsOnly'
BY <1>50, Where, Apart DEF ClearsOnly, TypeOK, ControlTyped, TaskStarts, Goto, At
<1>51. ASSUME NEW t \in Task, HistoryLoaded(t) PROVE ClearsOnly'
BY <1>51, Where, Apart DEF ClearsOnly, TypeOK, ControlTyped, HistoryLoaded, Goto, At
<1>52. ASSUME NEW t \in Task, DrainBacklog(t) PROVE ClearsOnly'
BY <1>52, Where, Apart DEF ClearsOnly, TypeOK, ControlTyped, DrainBacklog, Goto, At
<1>53. ASSUME UNCHANGED vars PROVE ClearsOnly'
BY <1>53, Where, Apart DEF ClearsOnly, TypeOK, ControlTyped, vars, ctlVars
<1> QED
BY <1>1, <1>2, <1>3, <1>4, <1>5, <1>6, <1>7, <1>8, <1>9, <1>10, <1>11, <1>12, <1>13,
     <1>14, <1>15, <1>16, <1>17, <1>18, <1>19, <1>20, <1>21, <1>22, <1>23, <1>24, <1>25,
     <1>26, <1>27, <1>28, <1>29, <1>30, <1>31, <1>32, <1>33, <1>34, <1>35, <1>36, <1>37,
     <1>38, <1>39, <1>40, <1>41, <1>42, <1>43, <1>44, <1>45, <1>46, <1>47, <1>48, <1>49,
     <1>50, <1>51, <1>52, <1>53
  DEF Next, Input, Fault, StartStep, SwapStep, MailStep, Step

\* The initial prompt is not submitted by the pump.
LEMMA PromptAway ==
  ASSUME TypeOK, QueueInv, NEW t \in Task, cur[t] # None, cur[t] = InitialPrompt
  PROVE  t # Pump
BY DEF QueueInv, PromptOnce, Prompting

LEMMA SentStep ==
  ASSUME TypeOK, QueueInv, ClearsOnly, Sent, [Next]_vars
  PROVE  Sent'
<1>1. ASSUME NEW m \in Msg, Submit(m) PROVE Sent'
BY <1>1, Where, Apart, Tasks DEF Sent, Submit, Goto, PumpIdle, workVars, serverVars,
     ctlVars, At
<1>2. ASSUME NEW m \in Msg, SubmitBypass(m) PROVE Sent'
BY <1>2, Where, Apart, Tasks DEF Sent, SubmitBypass, Goto, PumpIdle, workVars, serverVars,
     At
<1>3. ASSUME NEW kind \in {"thread", "model"}, Pick(kind) PROVE Sent'
BY <1>3, Where, Apart, Tasks DEF Sent, Pick, PumpIdle, Defer, workVars, serverVars,
     ctlVars, At
<1>4. ASSUME Interrupt PROVE Sent'
BY <1>4, Where, Apart, Tasks DEF Sent, Interrupt, PumpIdle, Cancelling, serverVars, At
<1>5. ASSUME QuitOrInterrupt PROVE Sent'
BY <1>5, Where, Apart, Tasks DEF Sent, QuitOrInterrupt, PumpIdle, Cancelling, serverVars,
     At
<1>6. ASSUME ForceClear PROVE Sent'
BY <1>6, Where, Apart, Tasks DEF Sent, ForceClear, PumpIdle, serverVars, At
<1>7. ASSUME Restart PROVE Sent'
BY <1>7, Where, Apart, Tasks DEF Sent, Restart, Goto, PumpIdle, workVars, serverVars, At
<1>8. ASSUME SwitchAgent PROVE Sent'
BY <1>8, Where, Apart, Tasks DEF Sent, SwitchAgent, PumpIdle, workVars, serverVars, At
<1>9. ASSUME PickLogin PROVE Sent'
BY <1>9, Where, Apart, Tasks DEF Sent, PickLogin, PumpIdle, Defer, workVars, serverVars,
     At
<1>10. ASSUME NEW t \in Task, LoginRefresh(t) PROVE Sent'
BY <1>10, Where, Apart, Tasks DEF Sent, LoginRefresh, Goto, At, workVars
<1>11. ASSUME NEW t \in Task, ThreadSwitchFails(t) PROVE Sent'
BY <1>11, Where, Apart, Tasks DEF Sent, ThreadSwitchFails, Goto, At, workVars, serverVars
<1>12. ASSUME NEW t \in Task, ResumedStateUnreadable(t) PROVE Sent'
BY <1>12, Where, Apart, Tasks DEF Sent, ResumedStateUnreadable, Goto, At, workVars,
     serverVars
<1>13. ASSUME NEW t \in Task, RespawnFails(t) PROVE Sent'
BY <1>13, Where, Apart, Tasks DEF Sent, RespawnFails, Goto, At, Caller, FailurePosted,
     workVars
<1>14. ASSUME StartupFails PROVE Sent'
BY <1>14, Where, Apart, Tasks DEF Sent, StartupFails, Goto, At, workVars, serverVars
<1>15. ASSUME SwapTeardownFails PROVE Sent'
BY <1>15, Where, Apart, Tasks DEF Sent, SwapTeardownFails, Goto, At, workVars
<1>16. ASSUME SwapRestartFails PROVE Sent'
BY <1>16, Where, Apart, Tasks DEF Sent, SwapRestartFails, Goto, At, FailurePosted,
     workVars
<1>17. ASSUME StartupSucceeds PROVE Sent'
BY <1>17, Where, Apart, Tasks DEF Sent, StartupSucceeds, Goto, At, workVars
<1>18. ASSUME SwapTearsDown PROVE Sent'
BY <1>18, Where, Apart, Tasks DEF Sent, SwapTearsDown, Goto, At, workVars
<1>19. ASSUME SwapDropsDeferred PROVE Sent'
BY <1>19, Where, Apart, Tasks DEF Sent, SwapDropsDeferred, Goto, At, workVars, serverVars
<1>20. ASSUME SwapResetsThread PROVE Sent'
BY <1>20, Where, Apart, Tasks DEF Sent, SwapResetsThread, Goto, At, workVars, serverVars
<1>21. ASSUME SwapRestarts PROVE Sent'
BY <1>21, Where, Apart, Tasks DEF Sent, SwapRestarts, Goto, At, workVars
<1>22. ASSUME SwapConfirms PROVE Sent'
BY <1>22, Where, Apart, Tasks DEF Sent, SwapConfirms, Goto, At, workVars, serverVars
<1>23. ASSUME ServerReady PROVE Sent'
BY <1>23, Where, Apart, Tasks DEF Sent, ServerReady, PumpIdle, workVars, ctlVars, At
<1>24. ASSUME ServerStartFailed PROVE Sent'
BY <1>24, Where, Apart, Tasks DEF Sent, ServerStartFailed, PumpIdle, workVars, ctlVars, At
<1>25. ASSUME RunLater PROVE Sent'
BY <1>25, Where, Apart, Tasks DEF Sent, RunLater, Goto, PumpIdle, workVars, serverVars, At
<1>26. ASSUME NEW t \in Task, CreateTask(t) PROVE Sent'
BY <1>26, Where, Apart, Tasks DEF Sent, CreateTask, PumpIdle, workVars, serverVars, At
<1>27. ASSUME NEW t \in Task, Process(t) PROVE Sent'
BY <1>27, Where, Apart, Tasks DEF Sent, Process, Goto, At, workVars, serverVars
<1>28. ASSUME NEW t \in Task, SendToAgent(t) PROVE Sent'
BY <1>28, Where, Apart, Tasks, Dispatched DEF Sent, SendToAgent, At, serverVars, TypeOK,
     RecordTyped
<1>29. ASSUME NEW t \in Task, StartShell(t) PROVE Sent'
BY <1>29, Where, Apart, Tasks, Dispatched, KindAssumption, PromptAssumption DEF Sent,
     StartShell, At, serverVars
<1>30. ASSUME NEW t \in Task, ResetThread(t) PROVE Sent'
BY <1>30, Where, Apart, Tasks DEF Sent, ResetThread, Goto, At, workVars, serverVars
<1>31. ASSUME NEW t \in Task, ClearReturns(t) PROVE Sent'
  <2>1. pc[t] = "cleared" /\ pc' = [pc EXCEPT ![t] = "processed"] /\ active' = t
    BY <1>31 DEF ClearReturns, At, Goto, Holds, RunLabel
  <2>2. cur[t] # None /\ cur[t] = InitialPrompt => FALSE
    BY <2>1, PromptAway, PromptAssumption DEF ClearsOnly
  <2>3. active \in {None, t} /\ UNCHANGED <<cur, agentRunning, agentUp>>
    BY <1>31 DEF ClearReturns, At, workVars, serverVars
  <2>4. \A u \in Task : pc[u] # "processed"
    BY <2>1, <2>3, Tasks DEF Sent
  <2> QED
    BY <2>1, <2>2, <2>3, <2>4, Where DEF Sent
<1>32. ASSUME NEW t \in Task, Processed(t) PROVE Sent'
BY <1>32, Where, Apart, Tasks DEF Sent, Processed, Goto, At, workVars, serverVars
<1>33. ASSUME NEW t \in Task, ProcessNext(t) PROVE Sent'
BY <1>33, Where, Apart, Tasks DEF Sent, ProcessNext, Goto, At, workVars, serverVars
<1>34. ASSUME NEW t \in Task, WidgetRemoved(t) PROVE Sent'
BY <1>34, Where, Apart, Tasks DEF Sent, WidgetRemoved, Goto, At, workVars, serverVars
<1>35. ASSUME NEW t \in Task, WorkerStarts(t) PROVE Sent'
BY <1>35, Where, Apart, Tasks DEF Sent, WorkerStarts, Goto, At, workVars, serverVars
<1>36. ASSUME NEW t \in Task, WorkerEnds(t) PROVE Sent'
BY <1>36, Where, Apart, Tasks DEF Sent, WorkerEnds, Goto, At, CleanupStart, serverVars
<1>37. ASSUME NEW t \in Task, SpinnerRemoved(t) PROVE Sent'
BY <1>37, Where, Apart, Tasks DEF Sent, SpinnerRemoved, Goto, At, CleanupStart, workVars,
     serverVars
<1>38. ASSUME NEW t \in Task, MaybeDrainDeferred(t) PROVE Sent'
BY <1>38, Where, Apart, Tasks DEF Sent, MaybeDrainDeferred, Goto, At, AfterDrain,
     workVars, serverVars
<1>39. ASSUME NEW t \in Task, DrainDeferred(t) PROVE Sent'
BY <1>39, Where, Apart, Tasks DEF Sent, DrainDeferred, Goto, At, AfterDrain, workVars,
     serverVars
<1>40. ASSUME NEW t \in Task, ResumeThread(t) PROVE Sent'
BY <1>40, Where, Apart, Tasks DEF Sent, ResumeThread, Goto, At, workVars, serverVars
<1>41. ASSUME NEW t \in Task, HistoryPrefetched(t) PROVE Sent'
BY <1>41, Where, Apart, Tasks DEF Sent, HistoryPrefetched, Goto, At, workVars, serverVars
<1>42. ASSUME NEW t \in Task, SwitchThread(t) PROVE Sent'
BY <1>42, Where, Apart, Tasks DEF Sent, SwitchThread, Goto, At, workVars, serverVars
<1>43. ASSUME NEW t \in Task, ThreadSwitchReturns(t) PROVE Sent'
BY <1>43, Where, Apart, Tasks DEF Sent, ThreadSwitchReturns, Goto, At, Caller, workVars,
     serverVars
<1>44. ASSUME NEW t \in Task, SwitchModel(t) PROVE Sent'
BY <1>44, Where, Apart, Tasks DEF Sent, SwitchModel, Goto, At, Caller, Defer, workVars
<1>45. ASSUME NEW t \in Task, RetryStartup(t) PROVE Sent'
BY <1>45, Where, Apart, Tasks DEF Sent, RetryStartup, At, Caller, workVars, serverVars
<1>46. ASSUME NEW t \in Task, ActionReturns(t) PROVE Sent'
BY <1>46, Where, Apart, Tasks DEF Sent, ActionReturns, Goto, At, Caller, workVars,
     serverVars
<1>47. ASSUME NEW t \in Task, LoginLater(t) PROVE Sent'
BY <1>47, Where, Apart, Tasks DEF Sent, LoginLater, Goto, At, Caller, workVars, serverVars
<1>48. ASSUME NEW t \in Task, Respawned(t) PROVE Sent'
BY <1>48, Where, Apart, Tasks DEF Sent, Respawned, Goto, At, Caller, workVars
<1>49. ASSUME RestartSevers PROVE Sent'
BY <1>49, Where, Apart, Tasks DEF Sent, RestartSevers, Severed, At
<1>50. ASSUME NEW t \in Task, TaskStarts(t) PROVE Sent'
BY <1>50, Where, Apart, Tasks DEF Sent, TaskStarts, Goto, At, workVars, serverVars
<1>51. ASSUME NEW t \in Task, HistoryLoaded(t) PROVE Sent'
BY <1>51, Where, Apart, Tasks DEF Sent, HistoryLoaded, Goto, At, workVars, serverVars
<1>52. ASSUME NEW t \in Task, DrainBacklog(t) PROVE Sent'
BY <1>52, Where, Apart, Tasks DEF Sent, DrainBacklog, Goto, At, workVars, serverVars
<1>53. ASSUME UNCHANGED vars PROVE Sent'
BY <1>53, Where, Apart, Tasks DEF Sent, vars, ctlVars, workVars, serverVars
<1> QED
BY <1>1, <1>2, <1>3, <1>4, <1>5, <1>6, <1>7, <1>8, <1>9, <1>10, <1>11, <1>12, <1>13,
     <1>14, <1>15, <1>16, <1>17, <1>18, <1>19, <1>20, <1>21, <1>22, <1>23, <1>24, <1>25,
     <1>26, <1>27, <1>28, <1>29, <1>30, <1>31, <1>32, <1>33, <1>34, <1>35, <1>36, <1>37,
     <1>38, <1>39, <1>40, <1>41, <1>42, <1>43, <1>44, <1>45, <1>46, <1>47, <1>48, <1>49,
     <1>50, <1>51, <1>52, <1>53
  DEF Next, Input, Fault, StartStep, SwapStep, MailStep, Step

\* What a sequence holds it holds with something behind it.
LEMMA KeptByConcat ==
  ASSUME NEW s \in Seq(Mail), NEW r \in Seq(Mail), NEW i \in 1..Len(s)
  PROVE  s[i] \in Range(s \o r)
<1>1. Len(s) \in Nat /\ Len(r) \in Nat /\ Len(s \o r) = Len(s) + Len(r) /\ s \o r \in Seq(Mail)
  BY ConcatProperties, LenProperties
<1>2. (s \o r)[i] = s[i]
  BY <1>1, ConcatProperties
<1>3. i \in DOMAIN (s \o r)
  BY <1>1, LenProperties
<1> QED
  BY <1>2, <1>3 DEF Range

\* A server that comes up posts the session start sequence.
LEMMA SequencePosted ==
  ASSUME TypeOK, QueueInv, ServerReady
  PROVE  \A S : "seq" \in S => Posted(S, mail')
<1> DEFINE rest == IF deferred # <<>> /\ ~agentRunning THEN <<"safe">> ELSE <<>>
<1>1. mail' = (Tail(mail) \o <<"seq">>) \o rest /\ mail # <<>> /\ mail \in Seq(Mail)
  BY Where DEF ServerReady
<1>2. /\ Tail(mail) \in Seq(Mail) /\ <<"seq">> \in Seq(Mail) /\ rest \in Seq(Mail)
  <2>1. Tail(mail) \in Seq(Mail)
    BY <1>1, HeadTailProperties
  <2> QED
    BY <2>1, Mails
<1> HIDE DEF rest
<1> DEFINE s == Tail(mail) \o <<"seq">>
<1>3. s \in Seq(Mail) /\ Len(s) = Len(Tail(mail)) + 1 /\ s[Len(s)] = "seq"
  BY <1>2, ConcatProperties, LenProperties
<1> HIDE DEF s
<1>4. Len(s) \in 1..Len(s)
  BY <1>2, <1>3, LenProperties
<1>5. mail' = s \o rest
  BY <1>1 DEF s
<1>6. "seq" \in Range(mail')
  BY <1>2, <1>3, <1>4, <1>5, KeptByConcat
<1> QED
  BY <1>6 DEF Posted

\* A step after which the session does not connect with an agent, unless it did before,
\* and which takes no outcome.
Outgoing ==
  /\ connecting' /\ agentUp' => connecting /\ agentUp
  /\ Posted({"up"}, mail) => Posted({"up"}, mail')

LEMMA UpStep ==
  ASSUME TypeOK, QueueInv, UpPosted, [Next]_vars
  PROVE  UpPosted'
<1>0. ASSUME Outgoing PROVE UpPosted'
  BY <1>0 DEF Outgoing, UpPosted
<1>1. ASSUME NEW m \in Msg, Submit(m) PROVE Outgoing
BY <1>1, Where DEF Outgoing, Submit, Goto, PumpIdle, serverVars, ctlVars, At
<1>2. ASSUME NEW m \in Msg, SubmitBypass(m) PROVE Outgoing
BY <1>2, Where DEF Outgoing, SubmitBypass, Goto, PumpIdle, serverVars, At
<1>3. ASSUME NEW kind \in {"thread", "model"}, Pick(kind) PROVE Outgoing
  <2>1. kind \in Mail /\ (mail' = mail \/ mail' = Append(mail, kind))
    BY <1>3, Mails DEF Pick
  <2>2. ASSUME NEW S PROVE Posted(S, mail) => Posted(S, mail')
    <3>1. Posted(S, mail) => Posted(S, Append(mail, kind))
      BY <2>1, Post, Where
    <3> QED
      BY <2>1, <3>1
  <2> QED
    BY <1>3, <2>2 DEF Outgoing, Pick, serverVars
<1>4. ASSUME Interrupt PROVE Outgoing
BY <1>4, Where DEF Outgoing, Interrupt, PumpIdle, Cancelling, serverVars, At
<1>5. ASSUME QuitOrInterrupt PROVE Outgoing
BY <1>5, Where DEF Outgoing, QuitOrInterrupt, PumpIdle, Cancelling, serverVars, At
<1>6. ASSUME ForceClear PROVE Outgoing
BY <1>6, Where DEF Outgoing, ForceClear, PumpIdle, serverVars, At
<1>7. ASSUME Restart PROVE Outgoing
BY <1>7, Where DEF Outgoing, Restart, Goto, PumpIdle, serverVars, At
<1>8. ASSUME SwitchAgent PROVE Outgoing
BY <1>8, Where DEF Outgoing, SwitchAgent, PumpIdle, serverVars, At
<1>9. ASSUME PickLogin PROVE Outgoing
BY <1>9, Where DEF Outgoing, PickLogin, PumpIdle, serverVars, At
<1>10. ASSUME NEW t \in Task, LoginRefresh(t) PROVE Outgoing
BY <1>10, Where DEF Outgoing, LoginRefresh, Goto, At
<1>11. ASSUME NEW t \in Task, ThreadSwitchFails(t) PROVE Outgoing
BY <1>11, Where DEF Outgoing, ThreadSwitchFails, Goto, At, serverVars
<1>12. ASSUME NEW t \in Task, ResumedStateUnreadable(t) PROVE Outgoing
BY <1>12, Where DEF Outgoing, ResumedStateUnreadable, Goto, At, serverVars
<1>13. ASSUME NEW t \in Task, RespawnFails(t) PROVE UpPosted'
BY <1>13 DEF UpPosted, RespawnFails, FailurePosted
<1>14. ASSUME StartupFails PROVE Outgoing
BY <1>14, Where, Post, Mails DEF Outgoing, StartupFails, Goto, At, serverVars
<1>15. ASSUME SwapTeardownFails PROVE Outgoing
BY <1>15, Where DEF Outgoing, SwapTeardownFails, Goto, At
<1>16. ASSUME SwapRestartFails PROVE Outgoing
BY <1>16, Where, Post, Mails DEF Outgoing, SwapRestartFails, Goto, At, FailurePosted
<1>17. ASSUME StartupSucceeds PROVE Outgoing
BY <1>17, Where, Post, Mails DEF Outgoing, StartupSucceeds, Goto, At
<1>18. ASSUME SwapTearsDown PROVE Outgoing
BY <1>18, Where DEF Outgoing, SwapTearsDown, Goto, At
<1>19. ASSUME SwapDropsDeferred PROVE Outgoing
BY <1>19, Where DEF Outgoing, SwapDropsDeferred, Goto, At, serverVars
<1>20. ASSUME SwapResetsThread PROVE Outgoing
BY <1>20, Where DEF Outgoing, SwapResetsThread, Goto, At, serverVars
<1>21. ASSUME SwapRestarts PROVE Outgoing
BY <1>21, Where DEF Outgoing, SwapRestarts, Goto, At
<1>22. ASSUME SwapConfirms PROVE Outgoing
BY <1>22, Where, Post, Mails DEF Outgoing, SwapConfirms, Goto, At, serverVars
<1>23. ASSUME ServerReady PROVE UpPosted'
BY <1>23 DEF UpPosted, ServerReady, FailurePosted
<1>24. ASSUME ServerStartFailed PROVE UpPosted'
BY <1>24 DEF UpPosted, ServerStartFailed, FailurePosted
<1>25. ASSUME RunLater PROVE Outgoing
BY <1>25, Where, Post, Mails DEF Outgoing, RunLater, Goto, PumpIdle, serverVars, At
<1>26. ASSUME NEW t \in Task, CreateTask(t) PROVE Outgoing
BY <1>26, Where, Post, Mails DEF Outgoing, CreateTask, PumpIdle, serverVars, At
<1>27. ASSUME NEW t \in Task, Process(t) PROVE Outgoing
BY <1>27, Where DEF Outgoing, Process, Goto, At, serverVars
<1>28. ASSUME NEW t \in Task, SendToAgent(t) PROVE Outgoing
BY <1>28, Where DEF Outgoing, SendToAgent, At, serverVars
<1>29. ASSUME NEW t \in Task, StartShell(t) PROVE Outgoing
BY <1>29, Where DEF Outgoing, StartShell, At, serverVars
<1>30. ASSUME NEW t \in Task, ResetThread(t) PROVE Outgoing
BY <1>30, Where DEF Outgoing, ResetThread, Goto, At, serverVars
<1>31. ASSUME NEW t \in Task, ClearReturns(t) PROVE Outgoing
BY <1>31, Where DEF Outgoing, ClearReturns, Goto, At, serverVars
<1>32. ASSUME NEW t \in Task, Processed(t) PROVE Outgoing
BY <1>32, Where DEF Outgoing, Processed, Goto, At, serverVars
<1>33. ASSUME NEW t \in Task, ProcessNext(t) PROVE Outgoing
BY <1>33, Where DEF Outgoing, ProcessNext, Goto, At, serverVars
<1>34. ASSUME NEW t \in Task, WidgetRemoved(t) PROVE Outgoing
BY <1>34, Where DEF Outgoing, WidgetRemoved, Goto, At, serverVars
<1>35. ASSUME NEW t \in Task, WorkerStarts(t) PROVE Outgoing
BY <1>35, Where DEF Outgoing, WorkerStarts, Goto, At, serverVars
<1>36. ASSUME NEW t \in Task, WorkerEnds(t) PROVE Outgoing
BY <1>36, Where DEF Outgoing, WorkerEnds, Goto, At, CleanupStart, serverVars
<1>37. ASSUME NEW t \in Task, SpinnerRemoved(t) PROVE Outgoing
BY <1>37, Where DEF Outgoing, SpinnerRemoved, Goto, At, CleanupStart, serverVars
<1>38. ASSUME NEW t \in Task, MaybeDrainDeferred(t) PROVE Outgoing
BY <1>38, Where DEF Outgoing, MaybeDrainDeferred, Goto, At, AfterDrain, serverVars
<1>39. ASSUME NEW t \in Task, DrainDeferred(t) PROVE Outgoing
BY <1>39, Where DEF Outgoing, DrainDeferred, Goto, At, AfterDrain, serverVars
<1>40. ASSUME NEW t \in Task, ResumeThread(t) PROVE Outgoing
BY <1>40, Where DEF Outgoing, ResumeThread, Goto, At, serverVars
<1>41. ASSUME NEW t \in Task, HistoryPrefetched(t) PROVE Outgoing
BY <1>41, Where DEF Outgoing, HistoryPrefetched, Goto, At, serverVars
<1>42. ASSUME NEW t \in Task, SwitchThread(t) PROVE Outgoing
BY <1>42, Where DEF Outgoing, SwitchThread, Goto, At, serverVars
<1>43. ASSUME NEW t \in Task, ThreadSwitchReturns(t) PROVE Outgoing
BY <1>43, Where DEF Outgoing, ThreadSwitchReturns, Goto, At, Caller, serverVars
<1>44. ASSUME NEW t \in Task, SwitchModel(t) PROVE Outgoing
BY <1>44, Where DEF Outgoing, SwitchModel, Goto, At, Caller
<1>45. ASSUME NEW t \in Task, RetryStartup(t) PROVE Outgoing
BY <1>45, Where DEF Outgoing, RetryStartup, At, Caller, serverVars
<1>46. ASSUME NEW t \in Task, ActionReturns(t) PROVE Outgoing
BY <1>46, Where DEF Outgoing, ActionReturns, Goto, At, Caller, serverVars
<1>47. ASSUME NEW t \in Task, LoginLater(t) PROVE Outgoing
BY <1>47, Where DEF Outgoing, LoginLater, Goto, At, Caller, serverVars
<1>48. ASSUME NEW t \in Task, Respawned(t) PROVE UpPosted'
BY <1>48, Where, Post, Mails DEF UpPosted, Respawned, Goto, At, Caller
<1>49. ASSUME RestartSevers PROVE Outgoing
BY <1>49, Where DEF Outgoing, RestartSevers, Severed, At
<1>50. ASSUME NEW t \in Task, TaskStarts(t) PROVE Outgoing
BY <1>50, Where DEF Outgoing, TaskStarts, Goto, At, serverVars
<1>51. ASSUME NEW t \in Task, HistoryLoaded(t) PROVE Outgoing
BY <1>51, Where DEF Outgoing, HistoryLoaded, Goto, At, serverVars
<1>52. ASSUME NEW t \in Task, DrainBacklog(t) PROVE Outgoing
BY <1>52, Where DEF Outgoing, DrainBacklog, Goto, At, serverVars
<1>53. ASSUME UNCHANGED vars PROVE Outgoing
BY <1>53, Where DEF Outgoing, vars, serverVars, ctlVars
<1> QED
BY <1>0, <1>1, <1>2, <1>3, <1>4, <1>5, <1>6, <1>7, <1>8, <1>9, <1>10, <1>11, <1>12, <1>13,
     <1>14, <1>15, <1>16, <1>17, <1>18, <1>19, <1>20, <1>21, <1>22, <1>23, <1>24, <1>25,
     <1>26, <1>27, <1>28, <1>29, <1>30, <1>31, <1>32, <1>33, <1>34, <1>35, <1>36, <1>37,
     <1>38, <1>39, <1>40, <1>41, <1>42, <1>43, <1>44, <1>45, <1>46, <1>47, <1>48, <1>49,
     <1>50, <1>51, <1>52, <1>53
  DEF Next, Input, Fault, StartStep, SwapStep, MailStep, Step

\* A step that neither brings the session to rest nor ends what looks at the queue.
Minds ==
  /\ Settled' => Settled
  /\ startupError => startupError'
  /\ agentUp' => agentUp
  /\ queue' # <<>> => queue # <<>>
  /\ \A u \in SeqTask \cup LaterTask \cup Msg :
       pc[u] \notin {"idle", "done", "created", "running"} =>
         pc'[u] \notin {"idle", "done", "created", "running"}
  /\ Posted({"up", "seq", "later"}, mail) => Posted({"up", "seq", "later"}, mail')
  /\ pc[Swap] = "swapConfirm" => pc'[Swap] = "swapConfirm"

LEMMA MindsStep ==
  ASSUME NoStrandedMessage, Minds
  PROVE  NoStrandedMessage'
BY DEF NoStrandedMessage, WillDrainQueue, Minds, Posted

\* Whoever has popped a message comes by the queue again.
LEMMA DrainerLooks ==
  ASSUME TypeOK, QueueInv, Home, processingPending
  PROVE  \E t \in SeqTask \cup LaterTask \cup Msg :
           pc[t] \in HoldPoint \cup DonePoint /\ cur[t] # None
<1>1. PICK t \in Draining : TRUE
  BY DEF QueueInv, OneDrain
<1>2. t \in Task \ {Pump} /\ pc[t] \in HoldPoint \cup DonePoint
  BY DEF Draining
<1>3. t \notin {Start, Swap, Login} \cup SafeTask
  BY <1>2 DEF Home, HoldPoint, DonePoint, QueueInv, Places
<1>4. t \in SeqTask \cup LaterTask \cup Msg
  BY <1>2, <1>3 DEF Task, Singleton
<1>5. cur[t] # None
  BY <1>2 DEF QueueInv, InHand
<1> QED
  BY <1>2, <1>4, <1>5

\* A step leaves a message stranded only if it is the one that gives up the initial prompt.
LEMMA MessageStep ==
  ASSUME TypeOK, QueueInv, Home, Sent, UpPosted, NoStrandedMessage, [Next]_vars,
         \A t \in Task : ~ResumedStateUnreadable(t)
  PROVE  NoStrandedMessage'
<1>1. ASSUME NEW m \in Msg, Submit(m) PROVE NoStrandedMessage'
BY <1>1, Where, Apart DEF NoStrandedMessage, WillDrainQueue, Settled, Submit, Goto,
     PumpIdle, workVars, serverVars, startVars, ctlVars, At, Busy
<1>2. ASSUME NEW m \in Msg, SubmitBypass(m) PROVE Minds
BY <1>2, Where, Apart DEF Minds, Settled, SubmitBypass, Goto, PumpIdle, queueVars,
     workVars, serverVars, startVars, At
<1>3. ASSUME NEW kind \in {"thread", "model"}, Pick(kind) PROVE Minds
  <2>1. kind \in Mail /\ (mail' = mail \/ mail' = Append(mail, kind))
    BY <1>3, Mails DEF Pick
  <2>2. ASSUME NEW S PROVE Posted(S, mail) => Posted(S, mail')
    <3>1. Posted(S, mail) => Posted(S, Append(mail, kind))
      BY <2>1, Post, Where
    <3> QED
      BY <2>1, <3>1
  <2> QED
    BY <1>3, <2>2 DEF Minds, Settled, Pick, workVars, serverVars, startVars, queueVars, ctlVars
<1>4. ASSUME Interrupt PROVE Minds
BY <1>4, Where, Apart DEF Minds, Settled, Interrupt, PumpIdle, Cancelling, serverVars,
     startVars, At
<1>5. ASSUME QuitOrInterrupt PROVE Minds
BY <1>5, Where, Apart DEF Minds, Settled, QuitOrInterrupt, PumpIdle, Cancelling,
     serverVars, startVars, At
<1>6. ASSUME ForceClear PROVE Minds
BY <1>6, Where, Apart DEF Minds, Settled, ForceClear, PumpIdle, serverVars, startVars, At
<1>7. ASSUME Restart PROVE Minds
BY <1>7, Where, Apart DEF Minds, Settled, Restart, Goto, PumpIdle, queueVars, workVars,
     serverVars, startVars, At
<1>8. ASSUME SwitchAgent PROVE Minds
BY <1>8, Where, Apart DEF Minds, Settled, SwitchAgent, PumpIdle, queueVars, workVars,
     serverVars, startVars, At
<1>9. ASSUME PickLogin PROVE Minds
BY <1>9, Where, Apart DEF Minds, Settled, PickLogin, PumpIdle, Defer, queueVars, workVars,
     serverVars, startVars, At
<1>10. ASSUME NEW t \in Task, LoginRefresh(t) PROVE NoStrandedMessage'
BY <1>10, Where, Apart DEF NoStrandedMessage, WillDrainQueue, Settled, LoginRefresh, Goto,
     At, queueVars, workVars, startVars
<1>11. ASSUME NEW t \in Task, ThreadSwitchFails(t) PROVE Minds
BY <1>11, Where, Apart DEF Minds, Settled, ThreadSwitchFails, Goto, At, queueVars,
     workVars, serverVars, startVars
<1>12. ASSUME NEW t \in Task, ResumedStateUnreadable(t) PROVE NoStrandedMessage'
BY <1>12
<1>13. ASSUME NEW t \in Task, RespawnFails(t) PROVE NoStrandedMessage'
  <2>1. CASE connecting /\ agentUp
    <3>1. Posted({"up"}, mail')
      BY <1>13, <2>1, Where, Post, Mails DEF UpPosted, RespawnFails, FailurePosted
    <3> QED
      BY <3>1 DEF NoStrandedMessage, WillDrainQueue, Posted
  <2>2. CASE ~agentUp
    BY <1>13, <2>2 DEF NoStrandedMessage, RespawnFails
  <2>3. CASE ~connecting
    <3>1. Minds
      BY <1>13, <2>3, Where, Apart, Post, Mails
         DEF Minds, Settled, RespawnFails, FailurePosted, Goto, At, Caller, queueVars, workVars,
             startVars
    <3> QED
      BY <3>1, MindsStep
  <2> QED
    BY <2>1, <2>2, <2>3
<1>14. ASSUME StartupFails PROVE Minds
BY <1>14, Where, Apart, Post, Mails DEF Minds, Settled, StartupFails, Goto, At, queueVars,
     workVars, serverVars, startVars
<1>15. ASSUME SwapTeardownFails PROVE NoStrandedMessage'
  <2>1. CASE connecting /\ agentUp
    <3>1. Posted({"up"}, mail')
      BY <1>15, <2>1 DEF UpPosted, SwapTeardownFails
    <3> QED
      BY <3>1 DEF NoStrandedMessage, WillDrainQueue, Posted
  <2>2. CASE ~agentUp
    BY <1>15, <2>2 DEF NoStrandedMessage, SwapTeardownFails
  <2>3. CASE ~connecting
    <3>1. Minds
      BY <1>15, <2>3, Where, Apart
         DEF Minds, Settled, SwapTeardownFails, Goto, At, queueVars, workVars, startVars
    <3> QED
      BY <3>1, MindsStep
  <2> QED
    BY <2>1, <2>2, <2>3
<1>16. ASSUME SwapRestartFails PROVE NoStrandedMessage'
BY <1>16, Where, Apart DEF NoStrandedMessage, WillDrainQueue, Settled, SwapRestartFails,
     Goto, At, FailurePosted, queueVars, workVars, startVars
<1>17. ASSUME StartupSucceeds PROVE Minds
BY <1>17, Where, Apart, Post, Mails DEF Minds, Settled, StartupSucceeds, Goto, At,
     queueVars, workVars, startVars
<1>18. ASSUME SwapTearsDown PROVE NoStrandedMessage'
BY <1>18, Where, Apart DEF NoStrandedMessage, WillDrainQueue, Settled, SwapTearsDown,
     Goto, At, workVars, startVars
<1>19. ASSUME SwapDropsDeferred PROVE Minds
BY <1>19, Where, Apart DEF Minds, Settled, SwapDropsDeferred, Goto, At, queueVars,
     workVars, serverVars, startVars
<1>20. ASSUME SwapResetsThread PROVE Minds
BY <1>20, Where, Apart DEF Minds, Settled, SwapResetsThread, Goto, At, queueVars,
     workVars, serverVars, startVars
<1>21. ASSUME SwapRestarts PROVE NoStrandedMessage'
BY <1>21, Where, Apart DEF NoStrandedMessage, WillDrainQueue, Settled, SwapRestarts, Goto,
     At, queueVars, workVars, startVars
<1>22. ASSUME SwapConfirms PROVE NoStrandedMessage'
  <2>1. CASE queue # <<>> /\ ~agentRunning
    <3>1. Posted({"up", "seq", "later"}, mail')
      BY <1>22, <2>1, Where, Post, Mails DEF SwapConfirms
    <3> QED
      BY <3>1 DEF NoStrandedMessage, WillDrainQueue, Posted
  <2>2. CASE queue = <<>> \/ agentRunning
    BY <1>22, <2>2 DEF NoStrandedMessage, Settled, SwapConfirms, queueVars, workVars
  <2> QED
    BY <2>1, <2>2
<1>23. ASSUME ServerReady PROVE NoStrandedMessage'
  <2>1. Posted({"up", "seq", "later"}, mail')
    BY <1>23, SequencePosted
  <2> QED
    BY <2>1 DEF NoStrandedMessage, WillDrainQueue, Posted
<1>24. ASSUME ServerStartFailed PROVE NoStrandedMessage'
BY <1>24, Where, Apart DEF NoStrandedMessage, WillDrainQueue, Settled, ServerStartFailed,
     PumpIdle, queueVars, workVars, startVars, ctlVars, At
<1>25. ASSUME RunLater PROVE Minds
BY <1>25, Where, Apart, Post, Mails DEF Minds, Settled, RunLater, Goto, PumpIdle,
     queueVars, workVars, serverVars, startVars, At
<1>26. ASSUME NEW t \in Task, CreateTask(t) PROVE NoStrandedMessage'
  <2>1. CASE Head(mail) \in {"seq", "later"}
    <3>1. t \in SeqTask \cup LaterTask /\ pc'[t] = "ready"
      BY <1>26, <2>1, Where DEF CreateTask
    <3> QED
      BY <3>1 DEF NoStrandedMessage, WillDrainQueue
  <2>2. CASE Head(mail) = "safe"
    <3>1. Posted({"up", "seq", "later"}, mail) => Posted({"up", "seq", "later"}, mail')
      BY <1>26, <2>2, Where, Post DEF CreateTask
    <3>2. Minds
      BY <1>26, <3>1, Where, Apart
         DEF Minds, Settled, CreateTask, queueVars, workVars, serverVars, startVars
    <3> QED
      BY <3>2, MindsStep
  <2> QED
    BY <1>26, <2>1, <2>2 DEF CreateTask
<1>27. ASSUME NEW t \in Task, Process(t) PROVE Minds
BY <1>27, Where, Apart DEF Minds, Settled, Process, Goto, At, workVars, serverVars,
     startVars
<1>28. ASSUME NEW t \in Task, SendToAgent(t) PROVE Minds
BY <1>28, Where, Apart, Dispatched DEF Minds, Settled, SendToAgent, At, queueVars,
     serverVars, startVars
<1>29. ASSUME NEW t \in Task, StartShell(t) PROVE Minds
BY <1>29, Where, Apart, Dispatched DEF Minds, Settled, StartShell, At, queueVars,
     serverVars, startVars
<1>30. ASSUME NEW t \in Task, ResetThread(t) PROVE Minds
BY <1>30, Where, Apart DEF Minds, Settled, ResetThread, Goto, At, queueVars, workVars,
     serverVars, startVars
<1>31. ASSUME NEW t \in Task, ClearReturns(t) PROVE Minds
BY <1>31, Where, Apart DEF Minds, Settled, ClearReturns, Goto, At, queueVars, workVars,
     serverVars, startVars
<1>32. ASSUME NEW t \in Task, Processed(t) PROVE NoStrandedMessage'
  <2>1. pc[t] = "processed" /\ UNCHANGED <<queue, workVars, serverVars, mail>>
    BY <1>32 DEF Processed, At
  <2>2. CASE t = Pump
    <3>1. Minds
      BY <1>32, <2>1, <2>2, Where, Apart
         DEF Minds, Settled, Processed, Goto, workVars, serverVars, startVars
    <3> QED
      BY <3>1, MindsStep
  <2>3. CASE t # Pump /\ cur[t] = InitialPrompt
    <3>1. agentRunning \/ ~agentUp
      BY <2>1, <2>3, Points DEF Sent, QueueInv, InHand
    <3> QED
      BY <2>1, <3>1 DEF NoStrandedMessage, Settled, workVars, serverVars
  <2>4. CASE t # Pump /\ cur[t] # InitialPrompt
    <3>1. pc' = [pc EXCEPT ![t] = IF agentRunning \/ shellRunning \/ queue = <<>>
                                  THEN "done" ELSE "next"]
      BY <1>32, <2>4 DEF Processed, Goto
    <3>2. CASE agentRunning \/ shellRunning \/ queue = <<>>
      BY <2>1, <3>2 DEF NoStrandedMessage, Settled, workVars
    <3>3. CASE ~(agentRunning \/ shellRunning \/ queue = <<>>)
      <4>1. t \in SeqTask \cup LaterTask \cup Msg
        BY <2>1, <2>4 DEF Home, HoldPoint, DonePoint, QueueInv, Places, Task, Singleton
      <4> QED
        BY <3>1, <3>3, <4>1, Where DEF NoStrandedMessage, WillDrainQueue
    <3> QED
      BY <3>2, <3>3
  <2> QED
    BY <2>2, <2>3, <2>4
<1>33. ASSUME NEW t \in Task, ProcessNext(t) PROVE NoStrandedMessage'
  <2>1. pc[t] = "next" /\ UNCHANGED <<workVars, serverVars, startVars, mail>>
    BY <1>33 DEF ProcessNext, At
  <2>2. CASE processingPending /\ queue # <<>>
    <3>1. PICK u \in SeqTask \cup LaterTask \cup Msg : pc[u] \in HoldPoint \cup DonePoint
      BY <2>2, DrainerLooks
    <3>2. pc'[u] \in HoldPoint \cup DonePoint
      BY <1>33, <2>1, <2>2, <3>1, Where, Apart
         DEF ProcessNext, DrainBlocked, Goto, HoldPoint, DonePoint
    <3> QED
      BY <3>1, <3>2 DEF NoStrandedMessage, WillDrainQueue, HoldPoint, DonePoint
  <2>3. CASE queue = <<>>
    BY <1>33, <2>3 DEF ProcessNext, DrainBlocked, NoStrandedMessage
  <2>4. CASE ~processingPending /\ queue # <<>>
    <3>1. t \in SeqTask \cup LaterTask \cup Msg
      BY <2>1 DEF Home, QueueInv, Places, PumpPoint, HoldPoint, DonePoint, Task, Singleton
    <3>2. pc'[t] = "popped"
      BY <1>33, <2>4, Where DEF ProcessNext, DrainBlocked, Goto
    <3> QED
      BY <3>1, <3>2 DEF NoStrandedMessage, WillDrainQueue
  <2> QED
    BY <2>2, <2>3, <2>4
<1>34. ASSUME NEW t \in Task, WidgetRemoved(t) PROVE Minds
BY <1>34, Where, Apart DEF Minds, Settled, WidgetRemoved, Goto, At, queueVars, workVars,
     serverVars, startVars
<1>35. ASSUME NEW t \in Task, WorkerStarts(t) PROVE Minds
BY <1>35, Where, Apart DEF Minds, Settled, WorkerStarts, Goto, At, queueVars, workVars,
     serverVars, startVars
<1>36. ASSUME NEW t \in Msg, WorkerEnds(t) PROVE NoStrandedMessage'
  <2>1. pc'[t] \in {"spinner", "drainIfReady"}
    BY <1>36, Where DEF WorkerEnds, Goto, CleanupStart
  <2> QED
    BY <1>36, <2>1 DEF NoStrandedMessage, WillDrainQueue
<1>37. ASSUME NEW t \in Task, SpinnerRemoved(t) PROVE Minds
BY <1>37, Where, Apart DEF Minds, Settled, SpinnerRemoved, Goto, At, CleanupStart,
     queueVars, workVars, serverVars, startVars
<1>38. ASSUME NEW t \in Task, MaybeDrainDeferred(t) PROVE NoStrandedMessage'
  <2>1. CASE t \in Msg /\ startupSeq
    BY <1>38, <2>1 DEF NoStrandedMessage, Settled, MaybeDrainDeferred, startVars
  <2>2. CASE ~(t \in Msg /\ startupSeq)
    <3>1. Minds
      BY <1>38, <2>2, Where, Apart
         DEF Minds, Settled, MaybeDrainDeferred, Goto, At, AfterDrain, queueVars, workVars, serverVars,
             startVars
    <3> QED
      BY <3>1, MindsStep
  <2> QED
    BY <2>1, <2>2
<1>39. ASSUME NEW t \in Task, DrainDeferred(t) PROVE NoStrandedMessage'
  <2>1. CASE t \in Msg /\ startupSeq
    BY <1>39, <2>1 DEF NoStrandedMessage, Settled, DrainDeferred, startVars
  <2>2. CASE ~(t \in Msg /\ startupSeq)
    <3>1. Minds
      BY <1>39, <2>2, Where, Apart
         DEF Minds, Settled, DrainDeferred, Goto, At, AfterDrain, queueVars, workVars, serverVars,
             startVars
    <3> QED
      BY <3>1, MindsStep
  <2> QED
    BY <2>1, <2>2
<1>40. ASSUME NEW t \in Task, ResumeThread(t) PROVE Minds
BY <1>40, Where, Apart DEF Minds, Settled, ResumeThread, Goto, At, queueVars, workVars,
     serverVars, startVars
<1>41. ASSUME NEW t \in Task, HistoryPrefetched(t) PROVE Minds
BY <1>41, Where, Apart DEF Minds, Settled, HistoryPrefetched, Goto, At, workVars,
     serverVars, startVars
<1>42. ASSUME NEW t \in Task, SwitchThread(t) PROVE Minds
BY <1>42, Where, Apart DEF Minds, Settled, SwitchThread, Goto, At, queueVars, workVars,
     serverVars, startVars
<1>43. ASSUME NEW t \in Task, ThreadSwitchReturns(t) PROVE Minds
BY <1>43, Where, Apart DEF Minds, Settled, ThreadSwitchReturns, Goto, At, Caller,
     queueVars, workVars, serverVars, startVars
<1>44. ASSUME NEW t \in Task, SwitchModel(t) PROVE NoStrandedMessage'
  <2>1. CASE ~agentUp /\ ~connecting /\ startupError /\ connecting'
    BY <2>1 DEF NoStrandedMessage, Settled
  <2>2. CASE ~(~agentUp /\ ~connecting /\ startupError /\ connecting')
    <3>1. Minds
      BY <1>44, <2>2, Where, Apart
         DEF Minds, Settled, SwitchModel, Goto, At, Caller, queueVars, workVars, startVars
    <3> QED
      BY <3>1, MindsStep
  <2> QED
    BY <2>1, <2>2
<1>45. ASSUME NEW t \in Task, RetryStartup(t) PROVE Minds
BY <1>45, Where, Apart DEF Minds, Settled, RetryStartup, At, Caller, queueVars, workVars,
     serverVars, startVars
<1>46. ASSUME NEW t \in Task, ActionReturns(t) PROVE Minds
BY <1>46, Where, Apart DEF Minds, Settled, ActionReturns, Goto, At, Caller, queueVars,
     workVars, serverVars, startVars
<1>47. ASSUME NEW t \in Task, LoginLater(t) PROVE Minds
BY <1>47, Where, Apart DEF Minds, Settled, LoginLater, Goto, At, Caller, queueVars,
     workVars, serverVars, startVars
<1>48. ASSUME NEW t \in Task, Respawned(t) PROVE NoStrandedMessage'
  <2>1. Posted({"up", "seq", "later"}, mail')
    BY <1>48, Where, Post, Mails DEF Respawned
  <2> QED
    BY <2>1 DEF NoStrandedMessage, WillDrainQueue, Posted
<1>49. ASSUME RestartSevers PROVE NoStrandedMessage'
BY <1>49, Where, Apart DEF NoStrandedMessage, WillDrainQueue, Settled, RestartSevers, Severed, At,
     startVars
<1>50. ASSUME NEW t \in Task, TaskStarts(t) PROVE Minds
BY <1>50, Where, Apart DEF Minds, Settled, TaskStarts, Goto, At, queueVars, workVars,
     serverVars, startVars
<1>51. ASSUME NEW t \in Task, HistoryLoaded(t) PROVE NoStrandedMessage'
  <2>1. t \in SeqTask
    BY <1>51 DEF HistoryLoaded, At, Home
  <2>2. pc'[t] \in {"process", "backlog"}
    BY <1>51, Where DEF HistoryLoaded, Goto
  <2> QED
    BY <2>1, <2>2 DEF NoStrandedMessage, WillDrainQueue
<1>52. ASSUME NEW t \in Task, DrainBacklog(t) PROVE NoStrandedMessage'
BY <1>52, Where, Apart DEF NoStrandedMessage, WillDrainQueue, Settled, DrainBacklog, Goto,
     At, queueVars, workVars, serverVars, startVars
<1>53. ASSUME UNCHANGED vars PROVE Minds
BY <1>53, Where, Apart DEF Minds, Settled, vars, workVars, queueVars, startVars,
     serverVars, ctlVars
<1> QED
BY MindsStep, <1>1, <1>2, <1>3, <1>4, <1>5, <1>6, <1>7, <1>8, <1>9, <1>10, <1>11, <1>12,
     <1>13, <1>14, <1>15, <1>16, <1>17, <1>18, <1>19, <1>20, <1>21, <1>22, <1>23, <1>24,
     <1>25, <1>26, <1>27, <1>28, <1>29, <1>30, <1>31, <1>32, <1>33, <1>34, <1>35, <1>36,
     <1>37, <1>38, <1>39, <1>40, <1>41, <1>42, <1>43, <1>44, <1>45, <1>46, <1>47, <1>48,
     <1>49, <1>50, <1>51, <1>52, <1>53
  DEF Next, Input, Fault, StartStep, SwapStep, MailStep, Step

\* While the initial prompt is under way the session start sequence runs.
Starting == \A t \in Task : Prompting(t) => startupSeq

\* A step that starts nothing and ends nothing of it.
Apace ==
  /\ startupSeq => startupSeq'
  /\ \A u \in Task : Prompting(u)' => Prompting(u)

LEMMA ApaceStep ==
  ASSUME Starting, Apace
  PROVE  Starting'
BY DEF Starting, Apace

LEMMA StartingStep ==
  ASSUME TypeOK, QueueInv, Starting, [Next]_vars
  PROVE  Starting'
<1>1. ASSUME NEW m \in Msg, Submit(m) PROVE Apace
  <2>1. InitialPrompt # None => m # InitialPrompt
    BY <1>1, PromptAssumption DEF Submit, QueueInv, PromptOnce
  <2> QED
    BY <1>1, <2>1, Where DEF Apace, Prompting, TypeOK, ControlTyped, Submit, Goto, PumpIdle, At, startVars,
       ctlVars
<1>2. ASSUME NEW m \in Msg, SubmitBypass(m) PROVE Apace
  <2>1. InitialPrompt # None => m # InitialPrompt
    BY <1>2, PromptAssumption DEF SubmitBypass, QueueInv, PromptOnce
  <2> QED
    BY <1>2, <2>1, Where DEF Apace, Prompting, TypeOK, ControlTyped, SubmitBypass, Goto, PumpIdle, At, startVars,
       ctlVars
<1>3. ASSUME NEW kind \in {"thread", "model"}, Pick(kind) PROVE Apace
BY <1>3, Where DEF Apace, Prompting, Pick, PumpIdle, Defer, startVars, ctlVars, At
<1>4. ASSUME Interrupt PROVE Apace
BY <1>4, Where DEF Apace, Prompting, Interrupt, PumpIdle, Cancelling, startVars, At
<1>5. ASSUME QuitOrInterrupt PROVE Apace
BY <1>5, Where DEF Apace, Prompting, QuitOrInterrupt, PumpIdle, Cancelling, startVars, At
<1>6. ASSUME ForceClear PROVE Apace
BY <1>6, Where DEF Apace, Prompting, ForceClear, PumpIdle, startVars, At
<1>7. ASSUME Restart PROVE Apace
BY <1>7, Where DEF Apace, Prompting, Restart, Goto, PumpIdle, startVars, At
<1>8. ASSUME SwitchAgent PROVE Apace
BY <1>8, Where DEF Apace, Prompting, SwitchAgent, PumpIdle, startVars, At
<1>9. ASSUME PickLogin PROVE Apace
BY <1>9, Where DEF Apace, Prompting, PickLogin, PumpIdle, Defer, startVars, At
<1>10. ASSUME NEW t \in Task, LoginRefresh(t) PROVE Apace
BY <1>10, Where DEF Apace, Prompting, LoginRefresh, Goto, At, startVars
<1>11. ASSUME NEW t \in Task, ThreadSwitchFails(t) PROVE Apace
BY <1>11, Where DEF Apace, Prompting, ThreadSwitchFails, Goto, At, startVars
<1>12. ASSUME NEW t \in Task, ResumedStateUnreadable(t) PROVE Starting'
  <2>1. Prompting(t) /\ \A u \in Task : u # t => ~Prompting(u)
    BY <1>12 DEF ResumedStateUnreadable, At, Prompting, QueueInv, PromptOnce
  <2>2. \A u \in Task : u # t => ~Prompting(u)'
    BY <1>12, <2>1, Where DEF ResumedStateUnreadable, At, Goto, Prompting, TypeOK, ControlTyped
  <2>3. Prompting(t)' => startupSeq'
    BY <1>12, <2>1, Where DEF ResumedStateUnreadable, At, Goto, Prompting, Starting, TypeOK, ControlTyped, QueueInv, InHand,
       HoldPoint, DonePoint
  <2> QED
    BY <2>2, <2>3 DEF Starting
<1>13. ASSUME NEW t \in Task, RespawnFails(t) PROVE Apace
BY <1>13, Where DEF Apace, Prompting, RespawnFails, Goto, At, Caller, FailurePosted,
     startVars
<1>14. ASSUME StartupFails PROVE Apace
BY <1>14, Where DEF Apace, Prompting, StartupFails, Goto, At, startVars
<1>15. ASSUME SwapTeardownFails PROVE Apace
BY <1>15, Where DEF Apace, Prompting, SwapTeardownFails, Goto, At, startVars
<1>16. ASSUME SwapRestartFails PROVE Apace
BY <1>16, Where DEF Apace, Prompting, SwapRestartFails, Goto, At, FailurePosted, startVars
<1>17. ASSUME StartupSucceeds PROVE Apace
BY <1>17, Where DEF Apace, Prompting, StartupSucceeds, Goto, At, startVars
<1>18. ASSUME SwapTearsDown PROVE Apace
BY <1>18, Where DEF Apace, Prompting, SwapTearsDown, Goto, At, startVars
<1>19. ASSUME SwapDropsDeferred PROVE Apace
BY <1>19, Where DEF Apace, Prompting, SwapDropsDeferred, Goto, At, startVars
<1>20. ASSUME SwapResetsThread PROVE Apace
BY <1>20, Where DEF Apace, Prompting, SwapResetsThread, Goto, At, startVars
<1>21. ASSUME SwapRestarts PROVE Apace
BY <1>21, Where DEF Apace, Prompting, SwapRestarts, Goto, At, startVars
<1>22. ASSUME SwapConfirms PROVE Apace
BY <1>22, Where DEF Apace, Prompting, SwapConfirms, Goto, At, startVars
<1>23. ASSUME ServerReady PROVE Apace
BY <1>23, Where DEF Apace, Prompting, ServerReady, PumpIdle, startVars, ctlVars, At
<1>24. ASSUME ServerStartFailed PROVE Apace
BY <1>24, Where DEF Apace, Prompting, ServerStartFailed, PumpIdle, startVars, ctlVars, At
<1>25. ASSUME RunLater PROVE Apace
BY <1>25, Where DEF Apace, Prompting, RunLater, Goto, PumpIdle, startVars, At
<1>26. ASSUME NEW t \in Task, CreateTask(t) PROVE Apace
BY <1>26, Where DEF Apace, Prompting, CreateTask, PumpIdle, startVars, At
<1>27. ASSUME NEW t \in Task, Process(t) PROVE Apace
BY <1>27, Where DEF Apace, Prompting, Process, Goto, At, startVars
<1>28. ASSUME NEW t \in Task, SendToAgent(t) PROVE Apace
BY <1>28, Where, Dispatched DEF Apace, Prompting, SendToAgent, At, startVars
<1>29. ASSUME NEW t \in Task, StartShell(t) PROVE Apace
BY <1>29, Where, Dispatched DEF Apace, Prompting, StartShell, At, startVars
<1>30. ASSUME NEW t \in Task, ResetThread(t) PROVE Apace
BY <1>30, Where DEF Apace, Prompting, ResetThread, Goto, At, startVars
<1>31. ASSUME NEW t \in Task, ClearReturns(t) PROVE Apace
BY <1>31, Where DEF Apace, Prompting, ClearReturns, Goto, At, startVars
<1>32. ASSUME NEW t \in Task, Processed(t) PROVE Starting'
  <2>1. CASE t = Pump \/ cur[t] # InitialPrompt
    <3>1. Apace
      BY <1>32, <2>1, Where DEF Processed, Goto, At, Apace, Prompting, TypeOK, ControlTyped
    <3> QED
      BY <3>1, ApaceStep
  <2>2. CASE t # Pump /\ cur[t] = InitialPrompt
    <3>1. cur[t] # None
      BY <1>32, <2>2 DEF Processed, At, QueueInv, InHand, DonePoint
    <3>2. \A u \in Task : u # t => ~Prompting(u)
      BY <2>2, <3>1 DEF Prompting, QueueInv, PromptOnce
    <3>3. \A u \in Task : ~Prompting(u)'
      BY <1>32, <3>2, Where DEF Processed, At, Goto, Prompting, TypeOK, ControlTyped
    <3> QED
      BY <3>3 DEF Starting
  <2> QED
    BY <2>1, <2>2
<1>33. ASSUME NEW t \in Task, ProcessNext(t) PROVE Apace
  <2>1. CASE DrainBlocked
    BY <1>33, <2>1, Where DEF ProcessNext, Goto, At, Apace, Prompting, startVars
  <2>2. CASE ~DrainBlocked
    <3>1. queue # <<>> /\ queue \in Seq(Msg)
      BY <2>2 DEF DrainBlocked, TypeOK, QueueTyped
    <3>2. 1 \in DOMAIN queue /\ Head(queue) = queue[1]
      BY <3>1, HeadTailProperties, EmptySeq, LenProperties
    <3>3. fate[Head(queue)] = "queued"
      BY <3>2 DEF QueueInv, Conserved
    <3>4. InitialPrompt # None => Head(queue) # InitialPrompt
      BY <3>3 DEF QueueInv, PromptOnce
    <3>5. cur' = [cur EXCEPT ![t] = Head(queue)] /\ pc' = [pc EXCEPT ![t] = "popped"]
      BY <1>33, <2>2 DEF ProcessNext, Goto
    <3>6. UNCHANGED startupSeq
      BY <1>33 DEF ProcessNext, startVars
    <3> QED
      BY <3>4, <3>5, <3>6, Where DEF Apace, Prompting, TypeOK, ControlTyped
  <2> QED
    BY <2>1, <2>2
<1>34. ASSUME NEW t \in Task, WidgetRemoved(t) PROVE Apace
BY <1>34, Where DEF Apace, Prompting, WidgetRemoved, Goto, At, startVars
<1>35. ASSUME NEW t \in Task, WorkerStarts(t) PROVE Apace
BY <1>35, Where DEF Apace, Prompting, WorkerStarts, Goto, At, startVars
<1>36. ASSUME NEW t \in Task, WorkerEnds(t) PROVE Apace
BY <1>36, Where DEF Apace, Prompting, WorkerEnds, Goto, At, CleanupStart, startVars
<1>37. ASSUME NEW t \in Task, SpinnerRemoved(t) PROVE Apace
BY <1>37, Where DEF Apace, Prompting, SpinnerRemoved, Goto, At, CleanupStart, startVars
<1>38. ASSUME NEW t \in Task, MaybeDrainDeferred(t) PROVE Apace
BY <1>38, Where DEF Apace, Prompting, MaybeDrainDeferred, Goto, At, AfterDrain, startVars
<1>39. ASSUME NEW t \in Task, DrainDeferred(t) PROVE Apace
BY <1>39, Where DEF Apace, Prompting, DrainDeferred, Goto, At, AfterDrain, startVars
<1>40. ASSUME NEW t \in Task, ResumeThread(t) PROVE Apace
BY <1>40, Where DEF Apace, Prompting, ResumeThread, Goto, At, startVars
<1>41. ASSUME NEW t \in Task, HistoryPrefetched(t) PROVE Apace
BY <1>41, Where DEF Apace, Prompting, HistoryPrefetched, Goto, At, startVars
<1>42. ASSUME NEW t \in Task, SwitchThread(t) PROVE Apace
BY <1>42, Where DEF Apace, Prompting, SwitchThread, Goto, At, startVars
<1>43. ASSUME NEW t \in Task, ThreadSwitchReturns(t) PROVE Apace
BY <1>43, Where DEF Apace, Prompting, ThreadSwitchReturns, Goto, At, Caller, startVars
<1>44. ASSUME NEW t \in Task, SwitchModel(t) PROVE Apace
BY <1>44, Where DEF Apace, Prompting, SwitchModel, Goto, At, Caller, Defer, startVars
<1>45. ASSUME NEW t \in Task, RetryStartup(t) PROVE Apace
BY <1>45, Where DEF Apace, Prompting, RetryStartup, At, Caller, startVars
<1>46. ASSUME NEW t \in Task, ActionReturns(t) PROVE Apace
BY <1>46, Where DEF Apace, Prompting, ActionReturns, Goto, At, Caller, startVars
<1>47. ASSUME NEW t \in Task, LoginLater(t) PROVE Apace
BY <1>47, Where DEF Apace, Prompting, LoginLater, Goto, At, Caller, startVars
<1>48. ASSUME NEW t \in Task, Respawned(t) PROVE Apace
BY <1>48, Where DEF Apace, Prompting, Respawned, Goto, At, Caller, startVars
<1>49. ASSUME RestartSevers PROVE Apace
BY <1>49, Where DEF Apace, Prompting, RestartSevers, Severed, At, startVars
<1>50. ASSUME NEW t \in Task, TaskStarts(t) PROVE Starting'
  <2>1. CASE t \in SeqTask /\ ~sessionStarted
    BY <1>50, <2>1 DEF TaskStarts, Starting
  <2>2. CASE ~(t \in SeqTask /\ ~sessionStarted)
    <3>1. Apace
      BY <1>50, <2>2, Where DEF TaskStarts, Goto, At, Apace, Prompting, startVars
    <3> QED
      BY <3>1, ApaceStep
  <2> QED
    BY <2>1, <2>2
<1>51. ASSUME NEW t \in Task, HistoryLoaded(t) PROVE Starting'
  <2>1. Prompting(t) /\ \A u \in Task : u # t => ~Prompting(u)
    BY <1>51 DEF HistoryLoaded, At, Prompting, QueueInv, PromptOnce
  <2>2. \A u \in Task : u # t => ~Prompting(u)'
    BY <1>51, <2>1, Where DEF HistoryLoaded, At, Goto, Prompting, TypeOK, ControlTyped
  <2>3. Prompting(t)' => startupSeq'
    BY <1>51, <2>1, Where DEF HistoryLoaded, At, Goto, Prompting, Starting, TypeOK, ControlTyped, QueueInv, InHand,
       HoldPoint, DonePoint
  <2> QED
    BY <2>2, <2>3 DEF Starting
<1>52. ASSUME NEW t \in Task, DrainBacklog(t) PROVE Apace
BY <1>52, Where DEF Apace, Prompting, DrainBacklog, Goto, At, startVars
<1>53. ASSUME UNCHANGED vars PROVE Apace
BY <1>53, Where DEF Apace, Prompting, vars, startVars, ctlVars
<1> QED
BY ApaceStep, <1>1, <1>2, <1>3, <1>4, <1>5, <1>6, <1>7, <1>8, <1>9, <1>10, <1>11, <1>12,
     <1>13, <1>14, <1>15, <1>16, <1>17, <1>18, <1>19, <1>20, <1>21, <1>22, <1>23, <1>24,
     <1>25, <1>26, <1>27, <1>28, <1>29, <1>30, <1>31, <1>32, <1>33, <1>34, <1>35, <1>36,
     <1>37, <1>38, <1>39, <1>40, <1>41, <1>42, <1>43, <1>44, <1>45, <1>46, <1>47, <1>48,
     <1>49, <1>50, <1>51, <1>52, <1>53
  DEF Next, Input, Fault, StartStep, SwapStep, MailStep, Step

\* Where a task has the deferred actions still to look at, or one of them in hand.
DrainPoint ==
  {"ready", "history", "backlog", "spinner", "drainIfReady", "drain", "resume", "switch",
   "prefetch", "clearView", "load", "rollback", "model", "retry", "notice", "modal",
   "respawning"}

\* NoStrandedAction, where a task that has been past the deferred actions does not count.
ActionKept ==
  Settled /\ deferred # <<>> =>
    \/ \E t \in SeqTask \cup SafeTask \cup Msg : pc[t] \in DrainPoint
    \/ Posted({"up", "seq", "safe", "failed"}, mail)

\* The steps that forget the deferred actions: a swap that ends, or whose teardown fails,
\* and a session start sequence that ends with its prompt lost.
Forgets ==
  /\ deferred # <<>>
  /\ \/ SwapRestarts
     \/ SwapTeardownFails
     \/ /\ startupSeq /\ ~startupSeq'
        /\ InitialPrompt # None /\ fate'[InitialPrompt] = "lost"

\* A step that neither brings the session to rest, nor defers, nor ends what looks at the
\* deferred actions.
Heeds ==
  /\ Settled' => Settled
  /\ deferred' # <<>> => deferred # <<>>
  /\ \A u \in SeqTask \cup SafeTask \cup Msg : pc[u] \in DrainPoint => pc'[u] \in DrainPoint
  /\ Posted({"up", "seq", "safe", "failed"}, mail) =>
       Posted({"up", "seq", "safe", "failed"}, mail')

LEMMA HeedsStep ==
  ASSUME ActionKept, Heeds
  PROVE  ActionKept'
BY DEF ActionKept, Heeds

LEMMA ActionStep ==
  ASSUME TypeOK, QueueInv, Home, Sent, Starting, ActionKept, [Next]_vars, ~Forgets
  PROVE  ActionKept'
<1>1. ASSUME NEW m \in Msg, Submit(m) PROVE Heeds
BY <1>1, Where, Apart DEF Heeds, Settled, DrainPoint, Submit, Goto, PumpIdle, workVars,
     serverVars, startVars, ctlVars, At
<1>2. ASSUME NEW m \in Msg, SubmitBypass(m) PROVE Heeds
BY <1>2, Where, Apart DEF Heeds, Settled, DrainPoint, SubmitBypass, Goto, PumpIdle,
     workVars, serverVars, startVars, At
<1>3. ASSUME NEW kind \in {"thread", "model"}, Pick(kind) PROVE ActionKept'
  <2>1. CASE agentRunning \/ shellRunning \/ connecting
    BY <1>3, <2>1 DEF ActionKept, Settled, Pick, workVars, serverVars
  <2>2. CASE ~(agentRunning \/ shellRunning \/ connecting)
    <3>1. kind \in Mail /\ mail' = Append(mail, kind) /\ deferred' = deferred
      BY <1>3, <2>2, Mails DEF Pick
    <3>2. Posted({"up", "seq", "safe", "failed"}, mail) => Posted({"up", "seq", "safe", "failed"}, mail')
      BY <3>1, Post, Where
    <3>3. Heeds
      BY <1>3, <3>1, <3>2 DEF Heeds, Settled, Pick, workVars, serverVars, startVars, ctlVars
    <3> QED
      BY <3>3, HeedsStep
  <2> QED
    BY <2>1, <2>2
<1>4. ASSUME Interrupt PROVE Heeds
BY <1>4, Where, Apart DEF Heeds, Settled, DrainPoint, Interrupt, PumpIdle, Cancelling,
     serverVars, startVars, At
<1>5. ASSUME QuitOrInterrupt PROVE Heeds
BY <1>5, Where, Apart DEF Heeds, Settled, DrainPoint, QuitOrInterrupt, PumpIdle,
     Cancelling, serverVars, startVars, At
<1>6. ASSUME ForceClear PROVE Heeds
BY <1>6, Where, Apart DEF Heeds, Settled, DrainPoint, ForceClear, PumpIdle, serverVars,
     startVars, At
<1>7. ASSUME Restart PROVE Heeds
BY <1>7, Where, Apart DEF Heeds, Settled, DrainPoint, Restart, Goto, PumpIdle, workVars,
     serverVars, startVars, At
<1>8. ASSUME SwitchAgent PROVE Heeds
BY <1>8, Where, Apart DEF Heeds, Settled, DrainPoint, SwitchAgent, PumpIdle, workVars,
     serverVars, startVars, At
<1>9. ASSUME PickLogin PROVE ActionKept'
  <2>1. CASE agentRunning \/ shellRunning
    BY <1>9, <2>1 DEF ActionKept, Settled, PickLogin, workVars
  <2>2. CASE ~(agentRunning \/ shellRunning)
    <3>1. Heeds
      BY <1>9, <2>2, Where, Apart
         DEF Heeds, Settled, PickLogin, workVars, serverVars, startVars
    <3> QED
      BY <3>1, HeedsStep
  <2> QED
    BY <2>1, <2>2
<1>10. ASSUME NEW t \in Task, LoginRefresh(t) PROVE ActionKept'
BY <1>10 DEF ActionKept, Settled, LoginRefresh
<1>11. ASSUME NEW t \in Task, ThreadSwitchFails(t) PROVE Heeds
BY <1>11, Where, Apart DEF Heeds, Settled, DrainPoint, ThreadSwitchFails, Goto, At,
     workVars, serverVars, startVars
<1>12. ASSUME NEW t \in Task, ResumedStateUnreadable(t) PROVE ActionKept'
  <2>1. startupSeq /\ ~startupSeq'
    BY <1>12 DEF ResumedStateUnreadable, At, Starting, Prompting
  <2>2. InitialPrompt \in Msg /\ fate'[InitialPrompt] = "lost" /\ deferred' = deferred
    BY <1>12, PromptAssumption DEF ResumedStateUnreadable, TypeOK, RecordTyped
  <2>3. deferred' = <<>>
    BY <2>1, <2>2, Tasks DEF Forgets
  <2> QED
    BY <2>3 DEF ActionKept
<1>13. ASSUME NEW t \in Task, RespawnFails(t) PROVE ActionKept'
  <2>1. Posted({"up", "seq", "safe", "failed"}, mail')
    BY <1>13, Where, Post, Mails DEF RespawnFails, FailurePosted
  <2> QED
    BY <2>1 DEF ActionKept
<1>14. ASSUME StartupFails PROVE ActionKept'
  <2>1. Posted({"up", "seq", "safe", "failed"}, mail')
    BY <1>14, Where, Post, Mails DEF StartupFails
  <2> QED
    BY <2>1 DEF ActionKept
<1>15. ASSUME SwapTeardownFails PROVE ActionKept'
  <2>1. deferred' = deferred /\ deferred = <<>>
    BY <1>15 DEF Forgets, SwapTeardownFails
  <2> QED
    BY <2>1 DEF ActionKept
<1>16. ASSUME SwapRestartFails PROVE ActionKept'
  <2>1. Posted({"up", "seq", "safe", "failed"}, mail')
    BY <1>16, Where, Post, Mails DEF SwapRestartFails, FailurePosted
  <2> QED
    BY <2>1 DEF ActionKept
<1>17. ASSUME StartupSucceeds PROVE ActionKept'
  <2>1. Posted({"up", "seq", "safe", "failed"}, mail')
    BY <1>17, Where, Post, Mails DEF StartupSucceeds
  <2> QED
    BY <2>1 DEF ActionKept
<1>18. ASSUME SwapTearsDown PROVE ActionKept'
BY <1>18 DEF ActionKept, Settled, SwapTearsDown
<1>19. ASSUME SwapDropsDeferred PROVE Heeds
BY <1>19, Where, Apart DEF Heeds, Settled, DrainPoint, SwapDropsDeferred, Goto, At,
     workVars, serverVars, startVars
<1>20. ASSUME SwapResetsThread PROVE Heeds
BY <1>20, Where, Apart DEF Heeds, Settled, DrainPoint, SwapResetsThread, Goto, At,
     workVars, serverVars, startVars
<1>21. ASSUME SwapRestarts PROVE ActionKept'
  <2>1. deferred' = deferred /\ deferred = <<>>
    BY <1>21 DEF Forgets, SwapRestarts
  <2> QED
    BY <2>1 DEF ActionKept
<1>22. ASSUME SwapConfirms PROVE Heeds
BY <1>22, Where, Apart, Post, Mails DEF Heeds, Settled, DrainPoint, SwapConfirms, Goto,
     At, workVars, serverVars, startVars
<1>23. ASSUME ServerReady PROVE ActionKept'
  <2>1. Posted({"up", "seq", "safe", "failed"}, mail')
    BY <1>23, SequencePosted
  <2> QED
    BY <2>1 DEF ActionKept
<1>24. ASSUME ServerStartFailed PROVE ActionKept'
BY <1>24 DEF ActionKept, ServerStartFailed
<1>25. ASSUME RunLater PROVE Heeds
BY <1>25, Where, Apart, Post DEF Heeds, Settled, DrainPoint, RunLater, Goto, PumpIdle,
     workVars, serverVars, startVars, At
<1>26. ASSUME NEW t \in Task, CreateTask(t) PROVE ActionKept'
  <2>1. CASE Head(mail) \in {"seq", "safe"}
    <3>1. t \in SeqTask \cup SafeTask /\ pc'[t] = "ready"
      BY <1>26, <2>1, Where DEF CreateTask
    <3> QED
      BY <3>1 DEF ActionKept, DrainPoint
  <2>2. CASE Head(mail) = "later"
    <3>1. Posted({"up", "seq", "safe", "failed"}, mail) => Posted({"up", "seq", "safe", "failed"}, mail')
      BY <1>26, <2>2, Where, Post DEF CreateTask
    <3>2. Heeds
      BY <1>26, <3>1, Where, Apart
         DEF Heeds, Settled, DrainPoint, CreateTask, workVars, serverVars, startVars
    <3> QED
      BY <3>2, HeedsStep
  <2> QED
    BY <1>26, <2>1, <2>2 DEF CreateTask
<1>27. ASSUME NEW t \in Task, Process(t) PROVE Heeds
BY <1>27, Where, Apart DEF Heeds, Settled, DrainPoint, Process, Goto, At, workVars,
     serverVars, startVars
<1>28. ASSUME NEW t \in Task, SendToAgent(t) PROVE Heeds
BY <1>28, Where, Apart, Dispatched DEF Heeds, Settled, DrainPoint, SendToAgent, At,
     serverVars, startVars
<1>29. ASSUME NEW t \in Task, StartShell(t) PROVE Heeds
BY <1>29, Where, Apart, Dispatched DEF Heeds, Settled, DrainPoint, StartShell, At,
     serverVars, startVars
<1>30. ASSUME NEW t \in Task, ResetThread(t) PROVE Heeds
BY <1>30, Where, Apart DEF Heeds, Settled, DrainPoint, ResetThread, Goto, At, workVars,
     serverVars, startVars
<1>31. ASSUME NEW t \in Task, ClearReturns(t) PROVE Heeds
BY <1>31, Where, Apart DEF Heeds, Settled, DrainPoint, ClearReturns, Goto, At, workVars,
     serverVars, startVars
<1>32. ASSUME NEW t \in Task, Processed(t) PROVE ActionKept'
  <2>1. pc[t] = "processed" /\ UNCHANGED <<deferred, workVars, serverVars, mail, fate>>
    BY <1>32 DEF Processed, At
  <2>2. CASE t = Pump \/ cur[t] # InitialPrompt \/ ~startupSeq
    <3>1. ~startupSeq' => ~startupSeq
      BY <1>32, <2>2 DEF Processed
    <3>2. Settled' => Settled
      BY <2>1, <3>1 DEF Settled, workVars, serverVars
    <3>3. \A u \in Task : pc[u] \in DrainPoint => pc'[u] = pc[u]
      BY <1>32, <2>1, Where DEF Processed, Goto, DrainPoint
    <3>4. Heeds
      BY <2>1, <3>2, <3>3, Tasks, Apart DEF Heeds
    <3> QED
      BY <3>4, HeedsStep
  <2>3. CASE t # Pump /\ cur[t] = InitialPrompt /\ startupSeq
    <3>1. cur[t] # None /\ ~startupSeq'
      BY <1>32, <2>1, <2>3 DEF Processed, DonePoint, QueueInv, InHand
    <3>2. CASE agentRunning
      BY <2>1, <3>2 DEF ActionKept, Settled, workVars
    <3>3. CASE ~agentRunning
      <4>1. fate'[InitialPrompt] = "lost"
        BY <2>1, <2>3, <3>1, <3>3 DEF Sent
      <4>2. deferred' = <<>>
        BY <2>1, <2>3, <3>1, <4>1 DEF Forgets
      <4> QED
        BY <4>2 DEF ActionKept
    <3> QED
      BY <3>2, <3>3
  <2> QED
    BY <2>2, <2>3
<1>33. ASSUME NEW t \in Task, ProcessNext(t) PROVE Heeds
BY <1>33, Where, Apart DEF Heeds, Settled, DrainPoint, ProcessNext, Goto, At, workVars,
     serverVars, startVars
<1>34. ASSUME NEW t \in Task, WidgetRemoved(t) PROVE Heeds
BY <1>34, Where, Apart DEF Heeds, Settled, DrainPoint, WidgetRemoved, Goto, At, workVars,
     serverVars, startVars
<1>35. ASSUME NEW t \in Task, WorkerStarts(t) PROVE Heeds
BY <1>35, Where, Apart DEF Heeds, Settled, DrainPoint, WorkerStarts, Goto, At, workVars,
     serverVars, startVars
<1>36. ASSUME NEW t \in Msg, WorkerEnds(t) PROVE ActionKept'
  <2>1. pc'[t] \in {"spinner", "drainIfReady"}
    BY <1>36, Where DEF WorkerEnds, Goto, CleanupStart
  <2> QED
    BY <1>36, <2>1 DEF ActionKept, DrainPoint
<1>37. ASSUME NEW t \in Task, SpinnerRemoved(t) PROVE Heeds
BY <1>37, Where, Apart DEF Heeds, Settled, DrainPoint, SpinnerRemoved, Goto, At,
     CleanupStart, workVars, serverVars, startVars
<1>38. ASSUME NEW t \in Task, MaybeDrainDeferred(t) PROVE ActionKept'
  <2>1. CASE DrainRefused
    BY <1>38, <2>1 DEF ActionKept, Settled, MaybeDrainDeferred, DrainRefused, serverVars, startVars
  <2>2. CASE ~DrainRefused
    <3>1. Heeds
      BY <1>38, <2>2, Where, Apart
         DEF Heeds, Settled, DrainPoint, MaybeDrainDeferred, Goto, At, workVars, serverVars,
             startVars
    <3> QED
      BY <3>1, HeedsStep
  <2> QED
    BY <2>1, <2>2
<1>39. ASSUME NEW t \in Task, DrainDeferred(t) PROVE ActionKept'
  <2>1. CASE deferred = <<>>
    BY <1>39, <2>1 DEF ActionKept, DrainDeferred
  <2>2. CASE deferred # <<>>
    <3>1. Heeds
      BY <1>39, <2>2, Where, Apart
         DEF Heeds, Settled, DrainPoint, DrainDeferred, Goto, At, workVars, serverVars, startVars
    <3> QED
      BY <3>1, HeedsStep
  <2> QED
    BY <2>1, <2>2
<1>40. ASSUME NEW t \in Task, ResumeThread(t) PROVE Heeds
BY <1>40, Where, Apart DEF Heeds, Settled, DrainPoint, ResumeThread, Goto, At, workVars,
     serverVars, startVars
<1>41. ASSUME NEW t \in Task, HistoryPrefetched(t) PROVE Heeds
BY <1>41, Where, Apart DEF Heeds, Settled, DrainPoint, HistoryPrefetched, Goto, At,
     workVars, serverVars, startVars
<1>42. ASSUME NEW t \in Task, SwitchThread(t) PROVE Heeds
BY <1>42, Where, Apart DEF Heeds, Settled, DrainPoint, SwitchThread, Goto, At, workVars,
     serverVars, startVars
<1>43. ASSUME NEW t \in Task, ThreadSwitchReturns(t) PROVE Heeds
BY <1>43, Where, Apart DEF Heeds, Settled, DrainPoint, ThreadSwitchReturns, Goto, At,
     Caller, workVars, serverVars, startVars
<1>44. ASSUME NEW t \in Task, SwitchModel(t) PROVE ActionKept'
  <2>1. CASE connecting \/ connecting'
    <3>1. connecting'
      BY <1>44, <2>1 DEF SwitchModel
    <3> QED
      BY <3>1 DEF ActionKept, Settled
  <2>2. CASE ~connecting /\ ~connecting'
    <3>1. Heeds
      BY <1>44, <2>2, Where, Apart
         DEF Heeds, Settled, DrainPoint, SwitchModel, Goto, At, workVars, startVars
    <3> QED
      BY <3>1, HeedsStep
  <2> QED
    BY <2>1, <2>2
<1>45. ASSUME NEW t \in Task, RetryStartup(t) PROVE Heeds
BY <1>45, Where, Apart DEF Heeds, Settled, DrainPoint, RetryStartup, At, Caller, workVars,
     serverVars, startVars
<1>46. ASSUME NEW t \in Task, ActionReturns(t) PROVE Heeds
BY <1>46, Where, Apart DEF Heeds, Settled, DrainPoint, ActionReturns, Goto, At, Caller,
     workVars, serverVars, startVars
<1>47. ASSUME NEW t \in Task, LoginLater(t) PROVE Heeds
BY <1>47, Where, Apart DEF Heeds, Settled, DrainPoint, LoginLater, Goto, At, Caller,
     workVars, serverVars, startVars
<1>48. ASSUME NEW t \in Task, Respawned(t) PROVE ActionKept'
  <2>1. Posted({"up", "seq", "safe", "failed"}, mail')
    BY <1>48, Where, Post, Mails DEF Respawned
  <2> QED
    BY <2>1 DEF ActionKept
<1>49. ASSUME RestartSevers PROVE ActionKept'
BY <1>49 DEF ActionKept, RestartSevers, Severed
<1>50. ASSUME NEW t \in Task, TaskStarts(t) PROVE Heeds
  <2>1. UNCHANGED <<deferred, workVars, serverVars, mail>> /\ (~startupSeq' => ~startupSeq)
    BY <1>50 DEF TaskStarts, startVars
  <2>2. Settled' => Settled
    BY <2>1 DEF Settled, workVars, serverVars
  <2>3. PICK label \in {"history", "backlog", "drainIfReady", "next"} :
          pc' = [pc EXCEPT ![t] = label] /\ (label = "next" => t \in LaterTask)
    BY <1>50 DEF TaskStarts, Goto
  <2>4. \A u \in SeqTask \cup SafeTask \cup Msg : pc[u] \in DrainPoint => pc'[u] \in DrainPoint
    BY <2>3, Where, Apart DEF DrainPoint
  <2> QED
    BY <2>1, <2>2, <2>4 DEF Heeds
<1>51. ASSUME NEW t \in Task, HistoryLoaded(t) PROVE ActionKept'
  <2>1. CASE InitialPrompt # None
    <3>1. startupSeq'
      BY <1>51, <2>1 DEF HistoryLoaded, At, Starting, Prompting
    <3> QED
      BY <3>1 DEF ActionKept, Settled
  <2>2. CASE InitialPrompt = None
    <3>1. t \in SeqTask /\ pc'[t] = "backlog"
      BY <1>51, <2>2, Where DEF HistoryLoaded, At, Goto, Home
    <3> QED
      BY <3>1 DEF ActionKept, DrainPoint
  <2> QED
    BY <2>1, <2>2
<1>52. ASSUME NEW t \in Task, DrainBacklog(t) PROVE ActionKept'
  <2>1. CASE agentRunning \/ shellRunning
    BY <1>52, <2>1 DEF ActionKept, Settled, DrainBacklog, workVars
  <2>2. CASE ~(agentRunning \/ shellRunning)
    <3>1. Heeds
      BY <1>52, <2>2, Where, Apart
         DEF Heeds, Settled, DrainPoint, DrainBacklog, Goto, At, workVars, serverVars, startVars
    <3> QED
      BY <3>1, HeedsStep
  <2> QED
    BY <2>1, <2>2
<1>53. ASSUME UNCHANGED vars PROVE Heeds
BY <1>53, Where, Apart DEF Heeds, Settled, DrainPoint, vars, workVars, startVars,
     serverVars, ctlVars
<1> QED
BY HeedsStep, <1>1, <1>2, <1>3, <1>4, <1>5, <1>6, <1>7, <1>8, <1>9, <1>10, <1>11, <1>12,
     <1>13, <1>14, <1>15, <1>16, <1>17, <1>18, <1>19, <1>20, <1>21, <1>22, <1>23, <1>24,
     <1>25, <1>26, <1>27, <1>28, <1>29, <1>30, <1>31, <1>32, <1>33, <1>34, <1>35, <1>36,
     <1>37, <1>38, <1>39, <1>40, <1>41, <1>42, <1>43, <1>44, <1>45, <1>46, <1>47, <1>48,
     <1>49, <1>50, <1>51, <1>52, <1>53
  DEF Next, Input, Fault, StartStep, SwapStep, MailStep, Step

-----------------------------------------------------------------------------
(* Nothing is stranded *)

\* What the two properties rest on besides the discipline of the queue.
RestInv == Home /\ ClearsOnly /\ Sent /\ UpPosted /\ Starting

LEMMA RestInit == Init => RestInv /\ NoStrandedMessage /\ ActionKept
<1> SUFFICES ASSUME Init PROVE RestInv /\ NoStrandedMessage /\ ActionKept
  OBVIOUS
<1>1. /\ queue = <<>> /\ deferred = <<>> /\ ~agentUp
      /\ \A t \in Task : cur[t] = None /\ pc[t] = IF t = Start THEN "starting" ELSE "idle"
  BY DEF Init
<1>2. Home
  BY <1>1, Apart, Tasks DEF Home, HoldPoint, DonePoint
<1>3. ClearsOnly /\ Sent
  BY <1>1 DEF ClearsOnly, Sent
<1>4. UpPosted /\ Starting
  BY <1>1 DEF UpPosted, Starting, Prompting
<1>5. NoStrandedMessage /\ ActionKept
  BY <1>1 DEF NoStrandedMessage, ActionKept
<1> QED
  BY <1>2, <1>3, <1>4, <1>5 DEF RestInv

LEMMA RestStep == TypeOK /\ QueueInv /\ RestInv /\ [Next]_vars => RestInv'
  BY HomeStep, ClearsStep, SentStep, UpStep, StartingStep DEF RestInv

LEMMA SpecRest == Spec => []RestInv
<1>1. Init => RestInv
  BY RestInit
<1> QED
  BY <1>1, RestStep, TypeCorrect, QueueDiscipline, PTL DEF Spec

\* The session start sequence gives up its prompt, past the backlog.
GivesUpPrompt == \E t \in Task : ResumedStateUnreadable(t)

\* A message is never left in the queue of a session at rest, in every run in which the
\* state of a resumed thread can be read: that early return is the only way to leave one
\* (_cleanup_agent_task, _run_session_start_sequence, _restart_server_for_agent_swap).
THEOREM NoMessageIsStranded == Spec /\ [][~GivesUpPrompt]_vars => []NoStrandedMessage
<1>1. Init => NoStrandedMessage
  BY RestInit
<1>2. TypeOK /\ QueueInv /\ RestInv /\ NoStrandedMessage /\ [Next]_vars /\ [~GivesUpPrompt]_vars
        => NoStrandedMessage'
  <2> SUFFICES ASSUME TypeOK, QueueInv, RestInv, NoStrandedMessage, [Next]_vars,
                      [~GivesUpPrompt]_vars
               PROVE  NoStrandedMessage'
    OBVIOUS
  <2>1. CASE UNCHANGED vars
    BY <2>1 DEF vars, queueVars, workVars, serverVars, startVars, ctlVars, NoStrandedMessage,
       Settled, WillDrainQueue
  <2>2. CASE ~GivesUpPrompt
    BY <2>2, MessageStep DEF RestInv, GivesUpPrompt
  <2> QED
    BY <2>1, <2>2
<1> QED
  BY <1>1, <1>2, TypeCorrect, QueueDiscipline, SpecRest, PTL DEF Spec

\* A deferred switch or login is never left behind by a session at rest, in every run
\* without the three steps that forget them (_drain_deferred_actions and its callers,
\* on_deep_agents_app_server_ready).
THEOREM NoActionIsStranded == Spec /\ [][~Forgets]_vars => []NoStrandedAction
<1>1. Init => ActionKept
  BY RestInit
<1>2. TypeOK /\ QueueInv /\ RestInv /\ ActionKept /\ [Next]_vars /\ [~Forgets]_vars => ActionKept'
  <2> SUFFICES ASSUME TypeOK, QueueInv, RestInv, ActionKept, [Next]_vars, [~Forgets]_vars
               PROVE  ActionKept'
    OBVIOUS
  <2>1. CASE UNCHANGED vars
    BY <2>1 DEF vars, workVars, serverVars, startVars, ctlVars, ActionKept, Settled
  <2>2. CASE ~Forgets
    BY <2>2, ActionStep DEF RestInv
  <2> QED
    BY <2>1, <2>2
<1>3. ActionKept => NoStrandedAction
  BY DEF ActionKept, NoStrandedAction, Posted, DrainPoint
<1> QED
  BY <1>1, <1>2, <1>3, TypeCorrect, QueueDiscipline, SpecRest, PTL DEF Spec
=============================================================================
