-------------------------- MODULE TranscriptProofs --------------------------
(***************************************************************************)
(* Proofs about the transcript, for any window, buffer, history and budget: *)
(* the store is type-correct, what must be on the screen is, what is on it *)
(* is a window of the store, and a reply that is drawn again is whole.     *)
(***************************************************************************)
EXTENDS Transcript, FiniteSetTheorems, TLAPS

-----------------------------------------------------------------------------
(* The inductive invariant *)

\* What the lists the tasks carry across their awaits still say, whatever was
\* cleared, mounted or pruned meanwhile.
PrunesOld == \A t \in Task : pc[t] = "pruning" =>
  \A i \in todo[t] : i + Window <= born /\ i # active
HydratesStored == pc[Pump] = "hydrating" =>
  /\ anchor \in Nat /\ anchor <= born
  /\ \A i \in todo[Pump] : i <= born /\ (anchor > base => i > base)
DoneFinite == \A t \in Task : IsFiniteSet(done[t])
\* The last message is on the screen, but for the end of a history not mounted.
LastMounted == born > base /\ pc[Pump] # "notice" => born \in dom

ScreenInv ==
  /\ NewestMounted /\ ActiveMounted /\ OnlyStored
  /\ PrunesOld /\ HydratesStored /\ DoneFinite /\ LastMounted

-----------------------------------------------------------------------------
(* Type correctness *)

LEMMA Labels ==
  /\ "idle" \in Label /\ "mounted" \in Label /\ "pruning" \in Label
  /\ "hydrating" \in Label /\ "cleared" \in Label /\ "notice" \in Label
BY DEF Label

LEMMA Tasks == Pump \in Task /\ Turn \in Task /\ Swap \in Task
BY DEF Task

\* The invariant in the words of the provers: what is typed, one part each.
StoreTyped == base \in Nat /\ born \in Nat /\ first \in Nat /\ base <= first /\ first <= born
NamesTyped == active \in Nat \cup {None} /\ stream \in Nat \cup {None} /\ anchor \in Nat \cup {None}
SetsTyped == /\ stale \in SUBSET Nat /\ dom \in SUBSET Nat /\ outdated \in SUBSET Nat
             /\ tools \in SUBSET Nat /\ exempt \in SUBSET Nat
ListsTyped == todo \in [Task -> SUBSET Nat] /\ done \in [Task -> SUBSET Nat]
PcTyped == pc \in [Task -> Label]
TornTyped == torn \in SUBSET {"overlap", "cancel", "mixed", "load"}
LeftTyped == left \in [Op -> Nat]

Typed ==
  /\ StoreTyped /\ NamesTyped /\ SetsTyped /\ ListsTyped
  /\ PcTyped /\ TornTyped /\ LeftTyped
IInv == Typed /\ ScreenInv

LEMMA TypedIsTypeOK == Typed => TypeOK
BY DEF Typed, TypeOK, StoreTyped, NamesTyped, SetsTyped, ListsTyped, PcTyped, TornTyped, LeftTyped

LEMMA SpendTyped ==
  ASSUME LeftTyped, NEW o, Spend(o)
  PROVE  LeftTyped'
<1>1. CASE o \in Op
  <2>1. left[o] - 1 \in Nat
    BY <1>1 DEF LeftTyped, Spend
  <2> QED
    BY <1>1, <2>1 DEF LeftTyped, Spend
<1>2. CASE o \notin Op
  BY <1>2 DEF LeftTyped, Spend
<1> QED
  BY <1>1, <1>2

LEMMA InitIInv == Init => IInv
<1> SUFFICES ASSUME Init PROVE IInv
  OBVIOUS
<1>1. StoreTyped /\ NamesTyped /\ SetsTyped /\ TornTyped
  BY DEF Init, StoreTyped, NamesTyped, SetsTyped, TornTyped
<1>2. LeftTyped
  BY BudgetsAssumption DEF Init, LeftTyped
<1>3. PcTyped
  BY Labels DEF Init, PcTyped
<1>4. ListsTyped
  BY DEF Init, ListsTyped
<1>5. NewestMounted /\ ActiveMounted /\ OnlyStored /\ PrunesOld /\ HydratesStored /\ LastMounted
  BY Tasks DEF Init, NewestMounted, ActiveMounted, OnlyStored, PrunesOld, HydratesStored, LastMounted
<1>6. DoneFinite
  BY FS_EmptySet DEF Init, DoneFinite
<1> QED
  BY <1>1, <1>2, <1>3, <1>4, <1>5, <1>6 DEF IInv, Typed, ScreenInv

LEMMA StutterStep == IInv /\ UNCHANGED vars => IInv'
<1> SUFFICES ASSUME IInv, UNCHANGED vars PROVE IInv'
  OBVIOUS
<1>1. Typed'
  BY DEF IInv, Typed, StoreTyped, NamesTyped, SetsTyped, ListsTyped, PcTyped, TornTyped,
     LeftTyped, vars, storeVars, viewVars, taskVars, ghostVars
<1>2. ScreenInv'
  BY DEF IInv, ScreenInv, NewestMounted, ActiveMounted, OnlyStored, PrunesOld, HydratesStored,
     DoneFinite, LastMounted, vars, storeVars, viewVars, taskVars, ghostVars
<1> QED
  BY <1>1, <1>2 DEF IInv

-----------------------------------------------------------------------------
(* The steps, one lemma per action *)

LEMMA MountNoteStep ==
  ASSUME IInv, MountNote
  PROVE  IInv'
<1>1. /\ StoreTyped /\ NamesTyped /\ SetsTyped /\ ListsTyped /\ PcTyped /\ TornTyped /\ LeftTyped
      /\ NewestMounted /\ ActiveMounted /\ OnlyStored
      /\ PrunesOld /\ HydratesStored /\ DoneFinite /\ LastMounted
  BY DEF IInv, Typed, ScreenInv
<1>2. NamesTyped' /\ ListsTyped' /\ DoneFinite'
  BY <1>1 DEF MountNote, Mount, NamesTyped, ListsTyped, DoneFinite
<1>3. StoreTyped'
  BY <1>1, SizeAssumption DEF MountNote, At, Spend, Mount, Goto, Tear, StoreTyped
<1>4. SetsTyped'
  BY <1>1, Tasks DEF MountNote, At, Spend, Mount, Goto, Tear, SetsTyped, StoreTyped,
     NamesTyped, ListsTyped
<1>5. PcTyped'
  BY <1>1, Labels, Tasks DEF MountNote, At, Spend, Mount, Goto, Tear, PcTyped
<1>6. TornTyped'
  BY <1>1 DEF MountNote, At, Spend, Mount, Goto, Tear, TornTyped
<1>7. LeftTyped'
  BY <1>1, SpendTyped DEF MountNote
<1>8. NewestMounted'
  BY <1>1, Tasks, TaskAssumption, SizeAssumption, NoneAssumption DEF MountNote, At,
     Spend, Mount, Goto, Tear, StoreTyped, SetsTyped, ListsTyped, PcTyped,
     NewestMounted, PrunesOld
<1>9. ActiveMounted'
  BY <1>1, Tasks, TaskAssumption, SizeAssumption, NoneAssumption DEF MountNote, At,
     Spend, Mount, Goto, Tear, StoreTyped, NamesTyped, SetsTyped, ListsTyped, PcTyped,
     ActiveMounted, PrunesOld, OnlyStored
<1>10. OnlyStored'
  BY <1>1, Tasks, TaskAssumption, SizeAssumption, NoneAssumption DEF MountNote, At,
     Spend, Mount, Goto, Tear, StoreTyped, SetsTyped, ListsTyped, PcTyped, OnlyStored,
     HydratesStored
<1>11. PrunesOld'
  BY <1>1, Tasks, TaskAssumption, SizeAssumption, NoneAssumption DEF MountNote, At,
     Spend, Mount, Goto, Tear, StoreTyped, NamesTyped, SetsTyped, ListsTyped, PcTyped,
     PrunesOld
<1>12. HydratesStored'
  BY <1>1, Tasks, TaskAssumption, SizeAssumption, NoneAssumption DEF MountNote, At,
     Spend, Mount, Goto, Tear, StoreTyped, NamesTyped, SetsTyped, ListsTyped, PcTyped,
     OnlyStored, HydratesStored, LastMounted
<1>13. LastMounted'
  BY <1>1, Tasks, TaskAssumption, SizeAssumption, NoneAssumption DEF MountNote, At,
     Spend, Mount, Goto, Tear, StoreTyped, SetsTyped, ListsTyped, PcTyped, LastMounted,
     PrunesOld
<1> QED
  BY <1>2, <1>3, <1>4, <1>5, <1>6, <1>7, <1>8, <1>9, <1>10, <1>11, <1>12, <1>13 DEF
     IInv, Typed, ScreenInv

LEMMA MountDiffStep ==
  ASSUME IInv, MountDiff
  PROVE  IInv'
<1>1. /\ StoreTyped /\ NamesTyped /\ SetsTyped /\ ListsTyped /\ PcTyped /\ TornTyped /\ LeftTyped
      /\ NewestMounted /\ ActiveMounted /\ OnlyStored
      /\ PrunesOld /\ HydratesStored /\ DoneFinite /\ LastMounted
  BY DEF IInv, Typed, ScreenInv
<1>2. NamesTyped' /\ ListsTyped' /\ DoneFinite'
  BY <1>1 DEF MountDiff, Mount, NamesTyped, ListsTyped, DoneFinite
<1>3. StoreTyped'
  BY <1>1, SizeAssumption DEF MountDiff, At, Spend, Mount, Goto, Tear, StoreTyped
<1>4. SetsTyped'
  BY <1>1, Tasks DEF MountDiff, At, Spend, Mount, Goto, Tear, SetsTyped, StoreTyped,
     NamesTyped, ListsTyped
<1>5. PcTyped'
  BY <1>1, Labels, Tasks DEF MountDiff, At, Spend, Mount, Goto, Tear, PcTyped
<1>6. TornTyped'
  BY <1>1 DEF MountDiff, At, Spend, Mount, Goto, Tear, TornTyped
<1>7. LeftTyped'
  BY <1>1, SpendTyped DEF MountDiff
<1>8. NewestMounted'
  BY <1>1, Tasks, TaskAssumption, SizeAssumption, NoneAssumption DEF MountDiff, At,
     Spend, Mount, Goto, Tear, StoreTyped, SetsTyped, ListsTyped, PcTyped,
     NewestMounted, PrunesOld
<1>9. ActiveMounted'
  BY <1>1, Tasks, TaskAssumption, SizeAssumption, NoneAssumption DEF MountDiff, At,
     Spend, Mount, Goto, Tear, StoreTyped, NamesTyped, SetsTyped, ListsTyped, PcTyped,
     ActiveMounted, PrunesOld, OnlyStored
<1>10. OnlyStored'
  BY <1>1, Tasks, TaskAssumption, SizeAssumption, NoneAssumption DEF MountDiff, At,
     Spend, Mount, Goto, Tear, StoreTyped, SetsTyped, ListsTyped, PcTyped, OnlyStored,
     HydratesStored
<1>11. PrunesOld'
  BY <1>1, Tasks, TaskAssumption, SizeAssumption, NoneAssumption DEF MountDiff, At,
     Spend, Mount, Goto, Tear, StoreTyped, NamesTyped, SetsTyped, ListsTyped, PcTyped,
     PrunesOld
<1>12. HydratesStored'
  BY <1>1, Tasks, TaskAssumption, SizeAssumption, NoneAssumption DEF MountDiff, At,
     Spend, Mount, Goto, Tear, StoreTyped, NamesTyped, SetsTyped, ListsTyped, PcTyped,
     OnlyStored, HydratesStored, LastMounted
<1>13. LastMounted'
  BY <1>1, Tasks, TaskAssumption, SizeAssumption, NoneAssumption DEF MountDiff, At,
     Spend, Mount, Goto, Tear, StoreTyped, SetsTyped, ListsTyped, PcTyped, LastMounted,
     PrunesOld
<1> QED
  BY <1>2, <1>3, <1>4, <1>5, <1>6, <1>7, <1>8, <1>9, <1>10, <1>11, <1>12, <1>13 DEF
     IInv, Typed, ScreenInv

LEMMA MountReplyStep ==
  ASSUME IInv, MountReply
  PROVE  IInv'
<1>1. /\ StoreTyped /\ NamesTyped /\ SetsTyped /\ ListsTyped /\ PcTyped /\ TornTyped /\ LeftTyped
      /\ NewestMounted /\ ActiveMounted /\ OnlyStored
      /\ PrunesOld /\ HydratesStored /\ DoneFinite /\ LastMounted
  BY DEF IInv, Typed, ScreenInv
<1>2. ListsTyped' /\ DoneFinite'
  BY <1>1 DEF MountReply, Mount, ListsTyped, DoneFinite
<1>3. StoreTyped'
  BY <1>1, SizeAssumption DEF MountReply, At, Spend, Mount, Goto, Tear, StoreTyped
<1>4. NamesTyped'
  BY <1>1, Tasks DEF MountReply, At, Spend, Mount, Goto, Tear, NamesTyped, StoreTyped,
     SetsTyped, ListsTyped
<1>5. SetsTyped'
  BY <1>1, Tasks DEF MountReply, At, Spend, Mount, Goto, Tear, SetsTyped, StoreTyped,
     NamesTyped, ListsTyped
<1>6. PcTyped'
  BY <1>1, Labels, Tasks DEF MountReply, At, Spend, Mount, Goto, Tear, PcTyped
<1>7. TornTyped'
  BY <1>1 DEF MountReply, At, Spend, Mount, Goto, Tear, TornTyped
<1>8. LeftTyped'
  BY <1>1, SpendTyped DEF MountReply
<1>9. NewestMounted'
  BY <1>1, Tasks, TaskAssumption, SizeAssumption, NoneAssumption DEF MountReply, At,
     Spend, Mount, Goto, Tear, StoreTyped, SetsTyped, ListsTyped, PcTyped,
     NewestMounted, PrunesOld
<1>10. ActiveMounted'
  BY <1>1, Tasks, TaskAssumption, SizeAssumption, NoneAssumption DEF MountReply, At,
     Spend, Mount, Goto, Tear, StoreTyped, NamesTyped, SetsTyped, ListsTyped, PcTyped,
     ActiveMounted, PrunesOld, OnlyStored
<1>11. OnlyStored'
  BY <1>1, Tasks, TaskAssumption, SizeAssumption, NoneAssumption DEF MountReply, At,
     Spend, Mount, Goto, Tear, StoreTyped, SetsTyped, ListsTyped, PcTyped, OnlyStored,
     HydratesStored
<1>12. PrunesOld'
  BY <1>1, Tasks, TaskAssumption, SizeAssumption, NoneAssumption DEF MountReply, At,
     Spend, Mount, Goto, Tear, StoreTyped, NamesTyped, SetsTyped, ListsTyped, PcTyped,
     PrunesOld
<1>13. HydratesStored'
  BY <1>1, Tasks, TaskAssumption, SizeAssumption, NoneAssumption DEF MountReply, At,
     Spend, Mount, Goto, Tear, StoreTyped, NamesTyped, SetsTyped, ListsTyped, PcTyped,
     OnlyStored, HydratesStored, LastMounted
<1>14. LastMounted'
  BY <1>1, Tasks, TaskAssumption, SizeAssumption, NoneAssumption DEF MountReply, At,
     Spend, Mount, Goto, Tear, StoreTyped, SetsTyped, ListsTyped, PcTyped, LastMounted,
     PrunesOld
<1> QED
  BY <1>2, <1>3, <1>4, <1>5, <1>6, <1>7, <1>8, <1>9, <1>10, <1>11, <1>12, <1>13, <1>14
     DEF IInv, Typed, ScreenInv

LEMMA MountToolStep ==
  ASSUME IInv, MountTool
  PROVE  IInv'
<1>1. /\ StoreTyped /\ NamesTyped /\ SetsTyped /\ ListsTyped /\ PcTyped /\ TornTyped /\ LeftTyped
      /\ NewestMounted /\ ActiveMounted /\ OnlyStored
      /\ PrunesOld /\ HydratesStored /\ DoneFinite /\ LastMounted
  BY DEF IInv, Typed, ScreenInv
<1>2. NamesTyped' /\ ListsTyped' /\ DoneFinite'
  BY <1>1 DEF MountTool, Mount, NamesTyped, ListsTyped, DoneFinite
<1>3. StoreTyped'
  BY <1>1, SizeAssumption DEF MountTool, At, Spend, Mount, Goto, Tear, StoreTyped
<1>4. SetsTyped'
  BY <1>1, Tasks DEF MountTool, At, Spend, Mount, Goto, Tear, SetsTyped, StoreTyped,
     NamesTyped, ListsTyped
<1>5. PcTyped'
  BY <1>1, Labels, Tasks DEF MountTool, At, Spend, Mount, Goto, Tear, PcTyped
<1>6. TornTyped'
  BY <1>1 DEF MountTool, At, Spend, Mount, Goto, Tear, TornTyped
<1>7. LeftTyped'
  BY <1>1, SpendTyped DEF MountTool
<1>8. NewestMounted'
  BY <1>1, Tasks, TaskAssumption, SizeAssumption, NoneAssumption DEF MountTool, At,
     Spend, Mount, Goto, Tear, StoreTyped, SetsTyped, ListsTyped, PcTyped,
     NewestMounted, PrunesOld
<1>9. ActiveMounted'
  BY <1>1, Tasks, TaskAssumption, SizeAssumption, NoneAssumption DEF MountTool, At,
     Spend, Mount, Goto, Tear, StoreTyped, NamesTyped, SetsTyped, ListsTyped, PcTyped,
     ActiveMounted, PrunesOld, OnlyStored
<1>10. OnlyStored'
  BY <1>1, Tasks, TaskAssumption, SizeAssumption, NoneAssumption DEF MountTool, At,
     Spend, Mount, Goto, Tear, StoreTyped, SetsTyped, ListsTyped, PcTyped, OnlyStored,
     HydratesStored
<1>11. PrunesOld'
  BY <1>1, Tasks, TaskAssumption, SizeAssumption, NoneAssumption DEF MountTool, At,
     Spend, Mount, Goto, Tear, StoreTyped, NamesTyped, SetsTyped, ListsTyped, PcTyped,
     PrunesOld
<1>12. HydratesStored'
  BY <1>1, Tasks, TaskAssumption, SizeAssumption, NoneAssumption DEF MountTool, At,
     Spend, Mount, Goto, Tear, StoreTyped, NamesTyped, SetsTyped, ListsTyped, PcTyped,
     OnlyStored, HydratesStored, LastMounted
<1>13. LastMounted'
  BY <1>1, Tasks, TaskAssumption, SizeAssumption, NoneAssumption DEF MountTool, At,
     Spend, Mount, Goto, Tear, StoreTyped, SetsTyped, ListsTyped, PcTyped, LastMounted,
     PrunesOld
<1> QED
  BY <1>2, <1>3, <1>4, <1>5, <1>6, <1>7, <1>8, <1>9, <1>10, <1>11, <1>12, <1>13 DEF
     IInv, Typed, ScreenInv

LEMMA MountNoticeStep ==
  ASSUME IInv, NEW t \in Task, MountNotice(t)
  PROVE  IInv'
<1>1. /\ StoreTyped /\ NamesTyped /\ SetsTyped /\ ListsTyped /\ PcTyped /\ TornTyped /\ LeftTyped
      /\ NewestMounted /\ ActiveMounted /\ OnlyStored
      /\ PrunesOld /\ HydratesStored /\ DoneFinite /\ LastMounted
  BY DEF IInv, Typed, ScreenInv
<1>2. NamesTyped' /\ ListsTyped' /\ LeftTyped' /\ DoneFinite'
  BY <1>1 DEF MountNotice, Mount, NamesTyped, ListsTyped, LeftTyped, DoneFinite
<1>3. StoreTyped'
  BY <1>1, SizeAssumption DEF MountNotice, Mount, Goto, Tear, StoreTyped
<1>4. SetsTyped'
  BY <1>1, Tasks DEF MountNotice, Mount, Goto, Tear, SetsTyped, StoreTyped, NamesTyped,
     ListsTyped
<1>5. PcTyped'
  BY <1>1, Labels, Tasks DEF MountNotice, Mount, Goto, Tear, PcTyped
<1>6. TornTyped'
  BY <1>1 DEF MountNotice, Mount, Goto, Tear, TornTyped
<1>7. NewestMounted'
  BY <1>1, Tasks, TaskAssumption, SizeAssumption, NoneAssumption DEF MountNotice, Mount,
     Goto, Tear, StoreTyped, SetsTyped, ListsTyped, PcTyped, NewestMounted, PrunesOld
<1>8. ActiveMounted'
  BY <1>1, Tasks, TaskAssumption, SizeAssumption, NoneAssumption DEF MountNotice, Mount,
     Goto, Tear, StoreTyped, NamesTyped, SetsTyped, ListsTyped, PcTyped, ActiveMounted,
     PrunesOld, OnlyStored
<1>9. OnlyStored'
  BY <1>1, Tasks, TaskAssumption, SizeAssumption, NoneAssumption DEF MountNotice, Mount,
     Goto, Tear, StoreTyped, SetsTyped, ListsTyped, PcTyped, OnlyStored, HydratesStored
<1>10. PrunesOld'
  BY <1>1, Tasks, TaskAssumption, SizeAssumption, NoneAssumption DEF MountNotice, Mount,
     Goto, Tear, StoreTyped, NamesTyped, SetsTyped, ListsTyped, PcTyped, PrunesOld
<1>11. HydratesStored'
  BY <1>1, Tasks, TaskAssumption, SizeAssumption, NoneAssumption DEF MountNotice, Mount,
     Goto, Tear, StoreTyped, NamesTyped, SetsTyped, ListsTyped, PcTyped, OnlyStored,
     HydratesStored, LastMounted
<1>12. LastMounted'
  BY <1>1, Tasks, TaskAssumption, SizeAssumption, NoneAssumption DEF MountNotice, Mount,
     Goto, Tear, StoreTyped, SetsTyped, ListsTyped, PcTyped, LastMounted, PrunesOld
<1> QED
  BY <1>2, <1>3, <1>4, <1>5, <1>6, <1>7, <1>8, <1>9, <1>10, <1>11, <1>12 DEF IInv,
     Typed, ScreenInv

LEMMA StartPruneStep ==
  ASSUME IInv, NEW t \in Task, StartPrune(t)
  PROVE  IInv'
<1>1. /\ StoreTyped /\ NamesTyped /\ SetsTyped /\ ListsTyped /\ PcTyped /\ TornTyped /\ LeftTyped
      /\ NewestMounted /\ ActiveMounted /\ OnlyStored
      /\ PrunesOld /\ HydratesStored /\ DoneFinite /\ LastMounted
  BY DEF IInv, Typed, ScreenInv
<1>2. StoreTyped' /\ NamesTyped' /\ SetsTyped' /\ TornTyped' /\ LeftTyped' /\ NewestMounted' /\ ActiveMounted' /\ OnlyStored'
  BY <1>1 DEF StartPrune, storeVars, viewVars, ghostVars, StoreTyped, NamesTyped,
     SetsTyped, TornTyped, LeftTyped, NewestMounted, ActiveMounted, OnlyStored
<1>3. ListsTyped'
  BY <1>1, Tasks DEF StartPrune, At, ToPrune, Goto, storeVars, viewVars, ghostVars,
     ListsTyped, StoreTyped
<1>4. PcTyped'
  BY <1>1, Labels, Tasks DEF StartPrune, At, ToPrune, Goto, storeVars, viewVars,
     ghostVars, PcTyped
<1>5. PrunesOld'
  BY <1>1, Tasks, TaskAssumption, SizeAssumption, NoneAssumption DEF StartPrune, At,
     ToPrune, Goto, storeVars, viewVars, ghostVars, StoreTyped, NamesTyped, SetsTyped,
     ListsTyped, PcTyped, PrunesOld
<1>6. HydratesStored'
  BY <1>1, Tasks, TaskAssumption, SizeAssumption, NoneAssumption DEF StartPrune, At,
     ToPrune, Goto, storeVars, viewVars, ghostVars, StoreTyped, NamesTyped, SetsTyped,
     ListsTyped, PcTyped, OnlyStored, HydratesStored, LastMounted
<1>7. DoneFinite'
  BY <1>1, Tasks, TaskAssumption, SizeAssumption, NoneAssumption, FS_EmptySet DEF
     StartPrune, At, ToPrune, Goto, storeVars, viewVars, ghostVars, ListsTyped,
     DoneFinite
<1>8. LastMounted'
  BY <1>1, Tasks, TaskAssumption, SizeAssumption, NoneAssumption DEF StartPrune, At,
     ToPrune, Goto, storeVars, viewVars, ghostVars, StoreTyped, SetsTyped, ListsTyped,
     PcTyped, LastMounted, PrunesOld
<1> QED
  BY <1>2, <1>3, <1>4, <1>5, <1>6, <1>7, <1>8 DEF IInv, Typed, ScreenInv

LEMMA PruneNextStep ==
  ASSUME IInv, NEW t \in Task, PruneNext(t)
  PROVE  IInv'
<1>1. /\ StoreTyped /\ NamesTyped /\ SetsTyped /\ ListsTyped /\ PcTyped /\ TornTyped /\ LeftTyped
      /\ NewestMounted /\ ActiveMounted /\ OnlyStored
      /\ PrunesOld /\ HydratesStored /\ DoneFinite /\ LastMounted
  BY DEF IInv, Typed, ScreenInv
<1>2. StoreTyped' /\ NamesTyped' /\ PcTyped' /\ TornTyped' /\ LeftTyped'
  BY <1>1 DEF PruneNext, storeVars, ghostVars, StoreTyped, NamesTyped, PcTyped,
     TornTyped, LeftTyped
<1>3. SetsTyped'
  BY <1>1, Tasks DEF PruneNext, At, storeVars, ghostVars, SetsTyped, StoreTyped,
     NamesTyped, ListsTyped
<1>4. ListsTyped'
  BY <1>1, Tasks DEF PruneNext, At, storeVars, ghostVars, ListsTyped, StoreTyped
<1>5. NewestMounted'
  BY <1>1, Tasks, TaskAssumption, SizeAssumption, NoneAssumption DEF PruneNext, At,
     storeVars, ghostVars, StoreTyped, SetsTyped, ListsTyped, PcTyped, NewestMounted,
     PrunesOld
<1>6. ActiveMounted'
  BY <1>1, Tasks, TaskAssumption, SizeAssumption, NoneAssumption DEF PruneNext, At,
     storeVars, ghostVars, StoreTyped, NamesTyped, SetsTyped, ListsTyped, PcTyped,
     ActiveMounted, PrunesOld, OnlyStored
<1>7. OnlyStored'
  BY <1>1, Tasks, TaskAssumption, SizeAssumption, NoneAssumption DEF PruneNext, At,
     storeVars, ghostVars, StoreTyped, SetsTyped, ListsTyped, PcTyped, OnlyStored,
     HydratesStored
<1>8. PrunesOld'
  BY <1>1, Tasks, TaskAssumption, SizeAssumption, NoneAssumption DEF PruneNext, At,
     storeVars, ghostVars, StoreTyped, NamesTyped, SetsTyped, ListsTyped, PcTyped,
     PrunesOld
<1>9. HydratesStored'
  BY <1>1, Tasks, TaskAssumption, SizeAssumption, NoneAssumption DEF PruneNext, At,
     storeVars, ghostVars, StoreTyped, NamesTyped, SetsTyped, ListsTyped, PcTyped,
     OnlyStored, HydratesStored, LastMounted
<1>10. DoneFinite'
  BY <1>1, FS_AddElement DEF PruneNext, At, storeVars, ghostVars, ListsTyped, DoneFinite
<1>11. LastMounted'
  BY <1>1, Tasks, TaskAssumption, SizeAssumption, NoneAssumption DEF PruneNext, At,
     storeVars, ghostVars, StoreTyped, SetsTyped, ListsTyped, PcTyped, LastMounted,
     PrunesOld
<1> QED
  BY <1>2, <1>3, <1>4, <1>5, <1>6, <1>7, <1>8, <1>9, <1>10, <1>11 DEF IInv, Typed,
     ScreenInv

LEMMA EndPruneStep ==
  ASSUME IInv, NEW t \in Task, EndPrune(t)
  PROVE  IInv'
<1>1. /\ StoreTyped /\ NamesTyped /\ SetsTyped /\ ListsTyped /\ PcTyped /\ TornTyped /\ LeftTyped
      /\ NewestMounted /\ ActiveMounted /\ OnlyStored
      /\ PrunesOld /\ HydratesStored /\ DoneFinite /\ LastMounted
  BY DEF IInv, Typed, ScreenInv
<1>2. NamesTyped' /\ SetsTyped' /\ TornTyped' /\ LeftTyped' /\ NewestMounted' /\ ActiveMounted' /\ OnlyStored'
  BY <1>1 DEF EndPrune, viewVars, ghostVars, NamesTyped, SetsTyped, TornTyped,
     LeftTyped, NewestMounted, ActiveMounted, OnlyStored
<1>3. StoreTyped'
  BY <1>1, SizeAssumption DEF EndPrune, At, MarkPruned, Goto, viewVars, ghostVars,
     StoreTyped
<1>4. ListsTyped'
  BY <1>1, Tasks DEF EndPrune, At, MarkPruned, Goto, viewVars, ghostVars, ListsTyped,
     StoreTyped
<1>5. PcTyped'
  BY <1>1, Labels, Tasks DEF EndPrune, At, MarkPruned, Goto, viewVars, ghostVars,
     PcTyped
<1>6. PrunesOld'
  BY <1>1, Tasks, TaskAssumption, SizeAssumption, NoneAssumption DEF EndPrune, At,
     MarkPruned, Goto, viewVars, ghostVars, StoreTyped, NamesTyped, SetsTyped,
     ListsTyped, PcTyped, PrunesOld
<1>7. HydratesStored'
  BY <1>1, Tasks, TaskAssumption, SizeAssumption, NoneAssumption DEF EndPrune, At,
     MarkPruned, Goto, viewVars, ghostVars, StoreTyped, NamesTyped, SetsTyped,
     ListsTyped, PcTyped, OnlyStored, HydratesStored, LastMounted
<1>8. DoneFinite'
  BY <1>1, Tasks, TaskAssumption, SizeAssumption, NoneAssumption, FS_EmptySet DEF
     EndPrune, At, MarkPruned, Goto, viewVars, ghostVars, ListsTyped, DoneFinite
<1>9. LastMounted'
  BY <1>1, Tasks, TaskAssumption, SizeAssumption, NoneAssumption DEF EndPrune, At,
     MarkPruned, Goto, viewVars, ghostVars, StoreTyped, SetsTyped, ListsTyped, PcTyped,
     LastMounted, PrunesOld
<1> QED
  BY <1>2, <1>3, <1>4, <1>5, <1>6, <1>7, <1>8, <1>9 DEF IInv, Typed, ScreenInv

LEMMA StartHydrateStep ==
  ASSUME IInv, StartHydrate
  PROVE  IInv'
<1>1. /\ StoreTyped /\ NamesTyped /\ SetsTyped /\ ListsTyped /\ PcTyped /\ TornTyped /\ LeftTyped
      /\ NewestMounted /\ ActiveMounted /\ OnlyStored
      /\ PrunesOld /\ HydratesStored /\ DoneFinite /\ LastMounted
  BY DEF IInv, Typed, ScreenInv
<1>2. StoreTyped' /\ SetsTyped' /\ ActiveMounted' /\ OnlyStored'
  BY <1>1 DEF StartHydrate, storeVars, viewVars, StoreTyped, SetsTyped, ActiveMounted,
     OnlyStored
<1>3. NamesTyped'
  BY <1>1, Tasks DEF StartHydrate, At, ToHydrate, Spend, Goto, Tear, storeVars,
     viewVars, NamesTyped, StoreTyped, SetsTyped, ListsTyped
<1>4. ListsTyped'
  BY <1>1, Tasks DEF StartHydrate, At, ToHydrate, Spend, Goto, Tear, storeVars,
     viewVars, ListsTyped, StoreTyped
<1>5. PcTyped'
  BY <1>1, Labels, Tasks DEF StartHydrate, At, ToHydrate, Spend, Goto, Tear, storeVars,
     viewVars, PcTyped
<1>6. TornTyped'
  BY <1>1 DEF StartHydrate, At, ToHydrate, Spend, Goto, Tear, storeVars, viewVars,
     TornTyped
<1>7. LeftTyped'
  BY <1>1, SpendTyped DEF StartHydrate, ToHydrate, storeVars, viewVars
<1>8. NewestMounted'
  BY <1>1, Tasks, TaskAssumption, SizeAssumption, NoneAssumption DEF StartHydrate, At,
     ToHydrate, Spend, Goto, Tear, storeVars, viewVars, StoreTyped, SetsTyped,
     ListsTyped, PcTyped, NewestMounted, PrunesOld
<1>9. PrunesOld'
  BY <1>1, Tasks, TaskAssumption, SizeAssumption, NoneAssumption DEF StartHydrate, At,
     ToHydrate, Spend, Goto, Tear, storeVars, viewVars, StoreTyped, NamesTyped,
     SetsTyped, ListsTyped, PcTyped, PrunesOld
<1>10. HydratesStored'
  BY <1>1, Tasks, TaskAssumption, SizeAssumption, NoneAssumption DEF StartHydrate, At,
     ToHydrate, Spend, Goto, Tear, storeVars, viewVars, StoreTyped, NamesTyped,
     SetsTyped, ListsTyped, PcTyped, OnlyStored, HydratesStored, LastMounted
<1>11. DoneFinite'
  BY <1>1, Tasks, TaskAssumption, SizeAssumption, NoneAssumption, FS_EmptySet DEF
     StartHydrate, At, ToHydrate, Spend, Goto, Tear, storeVars, viewVars, ListsTyped,
     DoneFinite
<1>12. LastMounted'
  BY <1>1, Tasks, TaskAssumption, SizeAssumption, NoneAssumption DEF StartHydrate, At,
     ToHydrate, Spend, Goto, Tear, storeVars, viewVars, StoreTyped, SetsTyped,
     ListsTyped, PcTyped, LastMounted, PrunesOld
<1> QED
  BY <1>2, <1>3, <1>4, <1>5, <1>6, <1>7, <1>8, <1>9, <1>10, <1>11, <1>12 DEF IInv,
     Typed, ScreenInv

LEMMA HydrateNextStep ==
  ASSUME IInv, HydrateNext
  PROVE  IInv'
<1>1. /\ StoreTyped /\ NamesTyped /\ SetsTyped /\ ListsTyped /\ PcTyped /\ TornTyped /\ LeftTyped
      /\ NewestMounted /\ ActiveMounted /\ OnlyStored
      /\ PrunesOld /\ HydratesStored /\ DoneFinite /\ LastMounted
  BY DEF IInv, Typed, ScreenInv
<1>2. StoreTyped' /\ PcTyped' /\ TornTyped' /\ LeftTyped'
  BY <1>1 DEF HydrateNext, storeVars, ghostVars, StoreTyped, PcTyped, TornTyped,
     LeftTyped
<1>3. NamesTyped'
  BY <1>1, Tasks DEF HydrateNext, At, Hydratable, storeVars, ghostVars, NamesTyped,
     StoreTyped, SetsTyped, ListsTyped
<1>4. SetsTyped'
  BY <1>1, Tasks DEF HydrateNext, At, Hydratable, storeVars, ghostVars, SetsTyped,
     StoreTyped, NamesTyped, ListsTyped
<1>5. ListsTyped'
  BY <1>1, Tasks DEF HydrateNext, At, Hydratable, storeVars, ghostVars, ListsTyped,
     StoreTyped
<1>6. NewestMounted'
  BY <1>1, Tasks, TaskAssumption, SizeAssumption, NoneAssumption DEF HydrateNext, At,
     Hydratable, storeVars, ghostVars, StoreTyped, SetsTyped, ListsTyped, PcTyped,
     NewestMounted, PrunesOld
<1>7. ActiveMounted'
  BY <1>1, Tasks, TaskAssumption, SizeAssumption, NoneAssumption DEF HydrateNext, At,
     Hydratable, storeVars, ghostVars, StoreTyped, NamesTyped, SetsTyped, ListsTyped,
     PcTyped, ActiveMounted, PrunesOld, OnlyStored
<1>8. OnlyStored'
  <2>1. PICK i \in Hydratable : dom' = dom \cup {i}
    BY DEF HydrateNext
  <2>2. base < i /\ i <= born
    <3>1. i \in todo[Pump] /\ (anchor = None \/ anchor \in dom)
      BY DEF Hydratable
    <3>2. i <= born /\ anchor \in Nat /\ (anchor > base => i > base)
      BY <1>1, <3>1 DEF HydrateNext, At, HydratesStored
    <3>3. anchor \in dom
      BY <3>1, <3>2, NoneAssumption
    <3> QED
      BY <1>1, <3>2, <3>3 DEF OnlyStored
  <2>3. base' = base /\ born' = born
    BY DEF HydrateNext, storeVars
  <2> QED
    BY <1>1, <2>1, <2>2, <2>3 DEF OnlyStored
<1>9. PrunesOld'
  BY <1>1, Tasks, TaskAssumption, SizeAssumption, NoneAssumption DEF HydrateNext, At,
     Hydratable, storeVars, ghostVars, StoreTyped, NamesTyped, SetsTyped, ListsTyped,
     PcTyped, PrunesOld
<1>10. HydratesStored'
  BY <1>1, Tasks, TaskAssumption, SizeAssumption, NoneAssumption DEF HydrateNext, At,
     Hydratable, storeVars, ghostVars, StoreTyped, NamesTyped, SetsTyped, ListsTyped,
     PcTyped, OnlyStored, HydratesStored, LastMounted
<1>11. DoneFinite'
  <2>1. PICK i : done' = [done EXCEPT ![Pump] = @ \cup {i}]
    BY DEF HydrateNext
  <2>2. IsFiniteSet(done[Pump] \cup {i})
    BY <1>1, Tasks, FS_AddElement DEF DoneFinite
  <2> QED
    BY <1>1, <2>1, <2>2 DEF ListsTyped, DoneFinite
<1>12. LastMounted'
  BY <1>1, Tasks, TaskAssumption, SizeAssumption, NoneAssumption DEF HydrateNext, At,
     Hydratable, storeVars, ghostVars, StoreTyped, SetsTyped, ListsTyped, PcTyped,
     LastMounted, PrunesOld
<1> QED
  BY <1>2, <1>3, <1>4, <1>5, <1>6, <1>7, <1>8, <1>9, <1>10, <1>11, <1>12 DEF IInv,
     Typed, ScreenInv

LEMMA EndHydrateStep ==
  ASSUME IInv, EndHydrate
  PROVE  IInv'
<1>1. /\ StoreTyped /\ NamesTyped /\ SetsTyped /\ ListsTyped /\ PcTyped /\ TornTyped /\ LeftTyped
      /\ NewestMounted /\ ActiveMounted /\ OnlyStored
      /\ PrunesOld /\ HydratesStored /\ DoneFinite /\ LastMounted
  BY DEF IInv, Typed, ScreenInv
<1>2. SetsTyped' /\ TornTyped' /\ LeftTyped' /\ NewestMounted' /\ ActiveMounted' /\ OnlyStored'
  BY <1>1 DEF EndHydrate, viewVars, ghostVars, SetsTyped, TornTyped, LeftTyped,
     NewestMounted, ActiveMounted, OnlyStored
<1>3. StoreTyped'
  <2>1. Cardinality(done[Pump]) \in Nat
    BY <1>1, Tasks, FS_CardinalityType DEF DoneFinite
  <2> QED
    BY <1>1, <2>1 DEF EndHydrate, MarkHydrated, StoreTyped
<1>4. NamesTyped'
  BY <1>1, Tasks DEF EndHydrate, At, Hydratable, MarkHydrated, Goto, viewVars,
     ghostVars, NamesTyped, StoreTyped, SetsTyped, ListsTyped
<1>5. ListsTyped'
  BY <1>1, Tasks DEF EndHydrate, At, Hydratable, MarkHydrated, Goto, viewVars,
     ghostVars, ListsTyped, StoreTyped
<1>6. PcTyped'
  BY <1>1, Labels, Tasks DEF EndHydrate, At, Hydratable, MarkHydrated, Goto, viewVars,
     ghostVars, PcTyped
<1>7. PrunesOld'
  BY <1>1, Tasks, TaskAssumption, SizeAssumption, NoneAssumption DEF EndHydrate, At,
     Hydratable, MarkHydrated, Goto, viewVars, ghostVars, StoreTyped, NamesTyped,
     SetsTyped, ListsTyped, PcTyped, PrunesOld
<1>8. HydratesStored'
  BY <1>1, Tasks, TaskAssumption, SizeAssumption, NoneAssumption DEF EndHydrate, At,
     Hydratable, MarkHydrated, Goto, viewVars, ghostVars, StoreTyped, NamesTyped,
     SetsTyped, ListsTyped, PcTyped, OnlyStored, HydratesStored, LastMounted
<1>9. DoneFinite'
  BY <1>1, Tasks, TaskAssumption, SizeAssumption, NoneAssumption, FS_EmptySet DEF
     EndHydrate, At, Hydratable, MarkHydrated, Goto, viewVars, ghostVars, ListsTyped,
     DoneFinite
<1>10. LastMounted'
  BY <1>1, Tasks, TaskAssumption, SizeAssumption, NoneAssumption DEF EndHydrate, At,
     Hydratable, MarkHydrated, Goto, viewVars, ghostVars, StoreTyped, SetsTyped,
     ListsTyped, PcTyped, LastMounted, PrunesOld
<1> QED
  BY <1>2, <1>3, <1>4, <1>5, <1>6, <1>7, <1>8, <1>9, <1>10 DEF IInv, Typed, ScreenInv

LEMMA ClearCommandStep ==
  ASSUME IInv, ClearCommand
  PROVE  IInv'
<1>1. /\ StoreTyped /\ NamesTyped /\ SetsTyped /\ ListsTyped /\ PcTyped /\ TornTyped /\ LeftTyped
      /\ NewestMounted /\ ActiveMounted /\ OnlyStored
      /\ PrunesOld /\ HydratesStored /\ DoneFinite /\ LastMounted
  BY DEF IInv, Typed, ScreenInv
<1>2. ListsTyped' /\ DoneFinite'
  BY <1>1 DEF ClearCommand, Clear, ListsTyped, DoneFinite
<1>3. StoreTyped'
  BY <1>1, SizeAssumption DEF ClearCommand, At, Spend, Clear, Goto, StoreTyped
<1>4. NamesTyped'
  BY <1>1, Tasks DEF ClearCommand, At, Spend, Clear, Goto, NamesTyped, StoreTyped,
     SetsTyped, ListsTyped
<1>5. SetsTyped'
  BY <1>1, Tasks DEF ClearCommand, At, Spend, Clear, Goto, SetsTyped, StoreTyped,
     NamesTyped, ListsTyped
<1>6. PcTyped'
  BY <1>1, Labels, Tasks DEF ClearCommand, At, Spend, Clear, Goto, PcTyped
<1>7. TornTyped'
  BY <1>1 DEF ClearCommand, At, Spend, Clear, Goto, TornTyped
<1>8. LeftTyped'
  BY <1>1, SpendTyped DEF ClearCommand, Clear
<1>9. NewestMounted'
  BY <1>1, Tasks, TaskAssumption, SizeAssumption, NoneAssumption DEF ClearCommand, At,
     Spend, Clear, Goto, StoreTyped, SetsTyped, ListsTyped, PcTyped, NewestMounted,
     PrunesOld
<1>10. ActiveMounted'
  BY <1>1, Tasks, TaskAssumption, SizeAssumption, NoneAssumption DEF ClearCommand, At,
     Spend, Clear, Goto, StoreTyped, NamesTyped, SetsTyped, ListsTyped, PcTyped,
     ActiveMounted, PrunesOld, OnlyStored
<1>11. OnlyStored'
  BY <1>1, Tasks, TaskAssumption, SizeAssumption, NoneAssumption DEF ClearCommand, At,
     Spend, Clear, Goto, StoreTyped, SetsTyped, ListsTyped, PcTyped, OnlyStored,
     HydratesStored
<1>12. PrunesOld'
  BY <1>1, Tasks, TaskAssumption, SizeAssumption, NoneAssumption DEF ClearCommand, At,
     Spend, Clear, Goto, StoreTyped, NamesTyped, SetsTyped, ListsTyped, PcTyped,
     PrunesOld
<1>13. HydratesStored'
  BY <1>1, Tasks, TaskAssumption, SizeAssumption, NoneAssumption DEF ClearCommand, At,
     Spend, Clear, Goto, StoreTyped, NamesTyped, SetsTyped, ListsTyped, PcTyped,
     OnlyStored, HydratesStored, LastMounted
<1>14. LastMounted'
  BY <1>1, Tasks, TaskAssumption, SizeAssumption, NoneAssumption DEF ClearCommand, At,
     Spend, Clear, Goto, StoreTyped, SetsTyped, ListsTyped, PcTyped, LastMounted,
     PrunesOld
<1> QED
  BY <1>2, <1>3, <1>4, <1>5, <1>6, <1>7, <1>8, <1>9, <1>10, <1>11, <1>12, <1>13, <1>14
     DEF IInv, Typed, ScreenInv

LEMMA SwapClearsStep ==
  ASSUME IInv, SwapClears
  PROVE  IInv'
<1>1. /\ StoreTyped /\ NamesTyped /\ SetsTyped /\ ListsTyped /\ PcTyped /\ TornTyped /\ LeftTyped
      /\ NewestMounted /\ ActiveMounted /\ OnlyStored
      /\ PrunesOld /\ HydratesStored /\ DoneFinite /\ LastMounted
  BY DEF IInv, Typed, ScreenInv
<1>2. ListsTyped' /\ DoneFinite'
  BY <1>1 DEF SwapClears, Clear, ListsTyped, DoneFinite
<1>3. StoreTyped'
  BY <1>1, SizeAssumption DEF SwapClears, At, Spend, Clear, Goto, StoreTyped
<1>4. NamesTyped'
  BY <1>1, Tasks DEF SwapClears, At, Spend, Clear, Goto, NamesTyped, StoreTyped,
     SetsTyped, ListsTyped
<1>5. SetsTyped'
  BY <1>1, Tasks DEF SwapClears, At, Spend, Clear, Goto, SetsTyped, StoreTyped,
     NamesTyped, ListsTyped
<1>6. PcTyped'
  BY <1>1, Labels, Tasks DEF SwapClears, At, Spend, Clear, Goto, PcTyped
<1>7. TornTyped'
  BY <1>1 DEF SwapClears, At, Spend, Clear, Goto, TornTyped
<1>8. LeftTyped'
  BY <1>1, SpendTyped DEF SwapClears, Clear
<1>9. NewestMounted'
  BY <1>1, Tasks, TaskAssumption, SizeAssumption, NoneAssumption DEF SwapClears, At,
     Spend, Clear, Goto, StoreTyped, SetsTyped, ListsTyped, PcTyped, NewestMounted,
     PrunesOld
<1>10. ActiveMounted'
  BY <1>1, Tasks, TaskAssumption, SizeAssumption, NoneAssumption DEF SwapClears, At,
     Spend, Clear, Goto, StoreTyped, NamesTyped, SetsTyped, ListsTyped, PcTyped,
     ActiveMounted, PrunesOld, OnlyStored
<1>11. OnlyStored'
  BY <1>1, Tasks, TaskAssumption, SizeAssumption, NoneAssumption DEF SwapClears, At,
     Spend, Clear, Goto, StoreTyped, SetsTyped, ListsTyped, PcTyped, OnlyStored,
     HydratesStored
<1>12. PrunesOld'
  BY <1>1, Tasks, TaskAssumption, SizeAssumption, NoneAssumption DEF SwapClears, At,
     Spend, Clear, Goto, StoreTyped, NamesTyped, SetsTyped, ListsTyped, PcTyped,
     PrunesOld
<1>13. HydratesStored'
  BY <1>1, Tasks, TaskAssumption, SizeAssumption, NoneAssumption DEF SwapClears, At,
     Spend, Clear, Goto, StoreTyped, NamesTyped, SetsTyped, ListsTyped, PcTyped,
     OnlyStored, HydratesStored, LastMounted
<1>14. LastMounted'
  BY <1>1, Tasks, TaskAssumption, SizeAssumption, NoneAssumption DEF SwapClears, At,
     Spend, Clear, Goto, StoreTyped, SetsTyped, ListsTyped, PcTyped, LastMounted,
     PrunesOld
<1> QED
  BY <1>2, <1>3, <1>4, <1>5, <1>6, <1>7, <1>8, <1>9, <1>10, <1>11, <1>12, <1>13, <1>14
     DEF IInv, Typed, ScreenInv

LEMMA LoadSwitchedStep ==
  ASSUME IInv, LoadSwitched
  PROVE  IInv'
<1>1. /\ StoreTyped /\ NamesTyped /\ SetsTyped /\ ListsTyped /\ PcTyped /\ TornTyped /\ LeftTyped
      /\ NewestMounted /\ ActiveMounted /\ OnlyStored
      /\ PrunesOld /\ HydratesStored /\ DoneFinite /\ LastMounted
  BY DEF IInv, Typed, ScreenInv
<1>2. NamesTyped' /\ ListsTyped' /\ LeftTyped' /\ DoneFinite'
  BY <1>1 DEF LoadSwitched, Load, NamesTyped, ListsTyped, LeftTyped, DoneFinite
<1>3. StoreTyped'
  BY <1>1, SizeAssumption DEF LoadSwitched, At, Load, Goto, StoreTyped
<1>4. SetsTyped'
  <2> DEFINE n == born + History
             f == IF n <= base + Window THEN base ELSE n - Window
  <2>1. f \in Nat /\ n \in Nat
    BY <1>1, SizeAssumption DEF StoreTyped
  <2>2. \A i \in f + 1 .. n : i \in Nat
    <3> HIDE DEF f, n
    <3> QED
      BY <2>1
  <2>3. \A i \in dom' : i \in dom \/ i \in f + 1 .. n
    BY DEF LoadSwitched, Load
  <2>4. dom' \in SUBSET Nat
    BY <1>1, <2>2, <2>3 DEF SetsTyped
  <2> QED
    BY <1>1, <2>4 DEF LoadSwitched, Load, SetsTyped
<1>5. PcTyped'
  BY <1>1, Labels, Tasks DEF LoadSwitched, At, Load, Goto, PcTyped
<1>6. TornTyped'
  BY <1>1 DEF LoadSwitched, At, Load, Goto, TornTyped
<1>7. NewestMounted'
  BY <1>1, Tasks, TaskAssumption, SizeAssumption, NoneAssumption DEF LoadSwitched, At,
     Load, Goto, StoreTyped, SetsTyped, ListsTyped, PcTyped, NewestMounted, PrunesOld
<1>8. ActiveMounted'
  BY <1>1, Tasks, TaskAssumption, SizeAssumption, NoneAssumption DEF LoadSwitched, At,
     Load, Goto, StoreTyped, NamesTyped, SetsTyped, ListsTyped, PcTyped, ActiveMounted,
     PrunesOld, OnlyStored
<1>9. OnlyStored'
  BY <1>1, Tasks, TaskAssumption, SizeAssumption, NoneAssumption DEF LoadSwitched, At,
     Load, Goto, StoreTyped, SetsTyped, ListsTyped, PcTyped, OnlyStored, HydratesStored
<1>10. PrunesOld'
  BY <1>1, Tasks, TaskAssumption, SizeAssumption, NoneAssumption DEF LoadSwitched, At,
     Load, Goto, StoreTyped, NamesTyped, SetsTyped, ListsTyped, PcTyped, PrunesOld
<1>11. HydratesStored'
  BY <1>1, Tasks, TaskAssumption, SizeAssumption, NoneAssumption DEF LoadSwitched, At,
     Load, Goto, StoreTyped, NamesTyped, SetsTyped, ListsTyped, PcTyped, OnlyStored,
     HydratesStored, LastMounted
<1>12. LastMounted'
  BY <1>1, Tasks, TaskAssumption, SizeAssumption, NoneAssumption DEF LoadSwitched, At,
     Load, Goto, StoreTyped, SetsTyped, ListsTyped, PcTyped, LastMounted, PrunesOld
<1> QED
  BY <1>2, <1>3, <1>4, <1>5, <1>6, <1>7, <1>8, <1>9, <1>10, <1>11, <1>12 DEF IInv,
     Typed, ScreenInv

LEMMA LoadResumedStep ==
  ASSUME IInv, LoadResumed
  PROVE  IInv'
<1>1. /\ StoreTyped /\ NamesTyped /\ SetsTyped /\ ListsTyped /\ PcTyped /\ TornTyped /\ LeftTyped
      /\ NewestMounted /\ ActiveMounted /\ OnlyStored
      /\ PrunesOld /\ HydratesStored /\ DoneFinite /\ LastMounted
  BY DEF IInv, Typed, ScreenInv
<1>2. NamesTyped' /\ ListsTyped' /\ DoneFinite'
  BY <1>1 DEF LoadResumed, Load, NamesTyped, ListsTyped, DoneFinite
<1>3. StoreTyped'
  BY <1>1, SizeAssumption DEF LoadResumed, At, Spend, Load, Goto, StoreTyped
<1>4. SetsTyped'
  <2> DEFINE n == born + History
             f == IF n <= base + Window THEN base ELSE n - Window
  <2>1. f \in Nat /\ n \in Nat
    BY <1>1, SizeAssumption DEF StoreTyped
  <2>2. \A i \in f + 1 .. n : i \in Nat
    <3> HIDE DEF f, n
    <3> QED
      BY <2>1
  <2>3. \A i \in dom' : i \in dom \/ i \in f + 1 .. n
    BY DEF LoadResumed, Load
  <2>4. dom' \in SUBSET Nat
    BY <1>1, <2>2, <2>3 DEF SetsTyped
  <2> QED
    BY <1>1, <2>4 DEF LoadResumed, Load, SetsTyped
<1>5. PcTyped'
  BY <1>1, Labels, Tasks DEF LoadResumed, At, Spend, Load, Goto, PcTyped
<1>6. TornTyped'
  BY <1>1 DEF LoadResumed, At, Spend, Load, Goto, TornTyped
<1>7. LeftTyped'
  BY <1>1, SpendTyped DEF LoadResumed, Load
<1>8. NewestMounted'
  BY <1>1, Tasks, TaskAssumption, SizeAssumption, NoneAssumption DEF LoadResumed, At,
     Spend, Load, Goto, StoreTyped, SetsTyped, ListsTyped, PcTyped, NewestMounted,
     PrunesOld
<1>9. ActiveMounted'
  BY <1>1, Tasks, TaskAssumption, SizeAssumption, NoneAssumption DEF LoadResumed, At,
     Spend, Load, Goto, StoreTyped, NamesTyped, SetsTyped, ListsTyped, PcTyped,
     ActiveMounted, PrunesOld, OnlyStored
<1>10. OnlyStored'
  BY <1>1, Tasks, TaskAssumption, SizeAssumption, NoneAssumption DEF LoadResumed, At,
     Spend, Load, Goto, StoreTyped, SetsTyped, ListsTyped, PcTyped, OnlyStored,
     HydratesStored
<1>11. PrunesOld'
  BY <1>1, Tasks, TaskAssumption, SizeAssumption, NoneAssumption DEF LoadResumed, At,
     Spend, Load, Goto, StoreTyped, NamesTyped, SetsTyped, ListsTyped, PcTyped,
     PrunesOld
<1>12. HydratesStored'
  BY <1>1, Tasks, TaskAssumption, SizeAssumption, NoneAssumption DEF LoadResumed, At,
     Spend, Load, Goto, StoreTyped, NamesTyped, SetsTyped, ListsTyped, PcTyped,
     OnlyStored, HydratesStored, LastMounted
<1>13. LastMounted'
  BY <1>1, Tasks, TaskAssumption, SizeAssumption, NoneAssumption DEF LoadResumed, At,
     Spend, Load, Goto, StoreTyped, SetsTyped, ListsTyped, PcTyped, LastMounted,
     PrunesOld
<1> QED
  BY <1>2, <1>3, <1>4, <1>5, <1>6, <1>7, <1>8, <1>9, <1>10, <1>11, <1>12, <1>13 DEF
     IInv, Typed, ScreenInv

LEMMA TextStep ==
  ASSUME IInv, Text
  PROVE  IInv'
<1>1. /\ StoreTyped /\ NamesTyped /\ SetsTyped /\ ListsTyped /\ PcTyped /\ TornTyped /\ LeftTyped
      /\ NewestMounted /\ ActiveMounted /\ OnlyStored
      /\ PrunesOld /\ HydratesStored /\ DoneFinite /\ LastMounted
  BY DEF IInv, Typed, ScreenInv
<1>2. StoreTyped' /\ NamesTyped' /\ ListsTyped' /\ PcTyped' /\ TornTyped' /\ NewestMounted' /\ ActiveMounted' /\ OnlyStored' /\ PrunesOld' /\ HydratesStored' /\ DoneFinite' /\ LastMounted'
  BY <1>1 DEF Text, viewVars, taskVars, ghostVars, StoreTyped, NamesTyped, ListsTyped,
     PcTyped, TornTyped, NewestMounted, ActiveMounted, OnlyStored, PrunesOld,
     HydratesStored, DoneFinite, LastMounted
<1>3. SetsTyped'
  BY <1>1, Tasks DEF Text, At, Spend, viewVars, taskVars, ghostVars, SetsTyped,
     StoreTyped, NamesTyped, ListsTyped
<1>4. LeftTyped'
  BY <1>1, SpendTyped DEF Text, viewVars, taskVars, ghostVars
<1> QED
  BY <1>2, <1>3, <1>4 DEF IInv, Typed, ScreenInv

LEMMA FlushStep ==
  ASSUME IInv, Flush
  PROVE  IInv'
<1>1. /\ StoreTyped /\ NamesTyped /\ SetsTyped /\ ListsTyped /\ PcTyped /\ TornTyped /\ LeftTyped
      /\ NewestMounted /\ ActiveMounted /\ OnlyStored
      /\ PrunesOld /\ HydratesStored /\ DoneFinite /\ LastMounted
  BY DEF IInv, Typed, ScreenInv
<1>2. StoreTyped' /\ ListsTyped' /\ PcTyped' /\ TornTyped' /\ NewestMounted' /\ OnlyStored' /\ HydratesStored' /\ DoneFinite' /\ LastMounted'
  BY <1>1 DEF Flush, viewVars, ghostVars, StoreTyped, ListsTyped, PcTyped, TornTyped,
     NewestMounted, OnlyStored, HydratesStored, DoneFinite, LastMounted
<1>3. NamesTyped'
  BY <1>1, Tasks DEF Flush, At, Spend, Synced, viewVars, ghostVars, NamesTyped,
     StoreTyped, SetsTyped, ListsTyped
<1>4. SetsTyped'
  BY <1>1, Tasks DEF Flush, At, Spend, Synced, viewVars, ghostVars, SetsTyped,
     StoreTyped, NamesTyped, ListsTyped
<1>5. LeftTyped'
  BY <1>1, SpendTyped DEF Flush, Synced, viewVars, ghostVars
<1>6. ActiveMounted'
  BY <1>1, Tasks, TaskAssumption, SizeAssumption, NoneAssumption DEF Flush, At, Spend,
     Synced, viewVars, ghostVars, StoreTyped, NamesTyped, SetsTyped, ListsTyped,
     PcTyped, ActiveMounted, PrunesOld, OnlyStored
<1>7. PrunesOld'
  BY <1>1, Tasks, TaskAssumption, SizeAssumption, NoneAssumption DEF Flush, At, Spend,
     Synced, viewVars, ghostVars, StoreTyped, NamesTyped, SetsTyped, ListsTyped,
     PcTyped, PrunesOld
<1> QED
  BY <1>2, <1>3, <1>4, <1>5, <1>6, <1>7 DEF IInv, Typed, ScreenInv

LEMMA FlushKeepsStep ==
  ASSUME IInv, FlushKeeps
  PROVE  IInv'
<1>1. /\ StoreTyped /\ NamesTyped /\ SetsTyped /\ ListsTyped /\ PcTyped /\ TornTyped /\ LeftTyped
      /\ NewestMounted /\ ActiveMounted /\ OnlyStored
      /\ PrunesOld /\ HydratesStored /\ DoneFinite /\ LastMounted
  BY DEF IInv, Typed, ScreenInv
<1>2. StoreTyped' /\ ListsTyped' /\ PcTyped' /\ TornTyped' /\ NewestMounted' /\ OnlyStored' /\ HydratesStored' /\ DoneFinite' /\ LastMounted'
  BY <1>1 DEF FlushKeeps, viewVars, taskVars, StoreTyped, ListsTyped, PcTyped,
     TornTyped, NewestMounted, OnlyStored, HydratesStored, DoneFinite, LastMounted
<1>3. NamesTyped'
  BY <1>1, Tasks DEF FlushKeeps, At, Spend, Synced, viewVars, taskVars, NamesTyped,
     StoreTyped, SetsTyped, ListsTyped
<1>4. SetsTyped'
  BY <1>1, Tasks DEF FlushKeeps, At, Spend, Synced, viewVars, taskVars, SetsTyped,
     StoreTyped, NamesTyped, ListsTyped
<1>5. LeftTyped'
  BY <1>1, SpendTyped DEF FlushKeeps, Synced, viewVars, taskVars
<1>6. ActiveMounted'
  BY <1>1, Tasks, TaskAssumption, SizeAssumption, NoneAssumption DEF FlushKeeps, At,
     Spend, Synced, viewVars, taskVars, StoreTyped, NamesTyped, SetsTyped, ListsTyped,
     PcTyped, ActiveMounted, PrunesOld, OnlyStored
<1>7. PrunesOld'
  BY <1>1, Tasks, TaskAssumption, SizeAssumption, NoneAssumption DEF FlushKeeps, At,
     Spend, Synced, viewVars, taskVars, StoreTyped, NamesTyped, SetsTyped, ListsTyped,
     PcTyped, PrunesOld
<1> QED
  BY <1>2, <1>3, <1>4, <1>5, <1>6, <1>7 DEF IInv, Typed, ScreenInv

LEMMA ToolEndsStep ==
  ASSUME IInv, NEW i \in tools, ToolEnds(i)
  PROVE  IInv'
<1>1. /\ StoreTyped /\ NamesTyped /\ SetsTyped /\ ListsTyped /\ PcTyped /\ TornTyped /\ LeftTyped
      /\ NewestMounted /\ ActiveMounted /\ OnlyStored
      /\ PrunesOld /\ HydratesStored /\ DoneFinite /\ LastMounted
  BY DEF IInv, Typed, ScreenInv
<1>2. StoreTyped' /\ NamesTyped' /\ ListsTyped' /\ PcTyped' /\ TornTyped' /\ LeftTyped' /\ NewestMounted' /\ ActiveMounted' /\ OnlyStored' /\ PrunesOld' /\ HydratesStored' /\ DoneFinite' /\ LastMounted'
  BY <1>1 DEF ToolEnds, viewVars, ghostVars, StoreTyped, NamesTyped, ListsTyped,
     PcTyped, TornTyped, LeftTyped, NewestMounted, ActiveMounted, OnlyStored, PrunesOld,
     HydratesStored, DoneFinite, LastMounted
<1>3. SetsTyped'
  BY <1>1, Tasks DEF ToolEnds, At, viewVars, ghostVars, SetsTyped, StoreTyped,
     NamesTyped, ListsTyped
<1> QED
  BY <1>2, <1>3 DEF IInv, Typed, ScreenInv

LEMMA CancelStep ==
  ASSUME IInv, Cancel
  PROVE  IInv'
<1>1. /\ StoreTyped /\ NamesTyped /\ SetsTyped /\ ListsTyped /\ PcTyped /\ TornTyped /\ LeftTyped
      /\ NewestMounted /\ ActiveMounted /\ OnlyStored
      /\ PrunesOld /\ HydratesStored /\ DoneFinite /\ LastMounted
  BY DEF IInv, Typed, ScreenInv
<1>2. StoreTyped' /\ OnlyStored'
  BY <1>1 DEF Cancel, viewVars, StoreTyped, OnlyStored
<1>3. NamesTyped'
  BY <1>1, Tasks DEF Cancel, Spend, Goto, viewVars, NamesTyped, StoreTyped, SetsTyped,
     ListsTyped
<1>4. SetsTyped'
  BY <1>1, Tasks DEF Cancel, Spend, Goto, viewVars, SetsTyped, StoreTyped, NamesTyped,
     ListsTyped
<1>5. ListsTyped'
  BY <1>1, Tasks DEF Cancel, Spend, Goto, viewVars, ListsTyped, StoreTyped
<1>6. PcTyped'
  BY <1>1, Labels, Tasks DEF Cancel, Spend, Goto, viewVars, PcTyped
<1>7. TornTyped'
  BY <1>1 DEF Cancel, Spend, Goto, viewVars, TornTyped
<1>8. LeftTyped'
  BY <1>1, SpendTyped DEF Cancel, viewVars
<1>9. NewestMounted'
  BY <1>1, Tasks, TaskAssumption, SizeAssumption, NoneAssumption DEF Cancel, Spend,
     Goto, viewVars, StoreTyped, SetsTyped, ListsTyped, PcTyped, NewestMounted,
     PrunesOld
<1>10. ActiveMounted'
  BY <1>1, Tasks, TaskAssumption, SizeAssumption, NoneAssumption DEF Cancel, Spend,
     Goto, viewVars, StoreTyped, NamesTyped, SetsTyped, ListsTyped, PcTyped,
     ActiveMounted, PrunesOld, OnlyStored
<1>11. PrunesOld'
  BY <1>1, Tasks, TaskAssumption, SizeAssumption, NoneAssumption DEF Cancel, Spend,
     Goto, viewVars, StoreTyped, NamesTyped, SetsTyped, ListsTyped, PcTyped, PrunesOld
<1>12. HydratesStored'
  BY <1>1, Tasks, TaskAssumption, SizeAssumption, NoneAssumption DEF Cancel, Spend,
     Goto, viewVars, StoreTyped, NamesTyped, SetsTyped, ListsTyped, PcTyped, OnlyStored,
     HydratesStored, LastMounted
<1>13. DoneFinite'
  BY <1>1, Tasks, TaskAssumption, SizeAssumption, NoneAssumption, FS_EmptySet DEF
     Cancel, Spend, Goto, viewVars, ListsTyped, DoneFinite
<1>14. LastMounted'
  BY <1>1, Tasks, TaskAssumption, SizeAssumption, NoneAssumption DEF Cancel, Spend,
     Goto, viewVars, StoreTyped, SetsTyped, ListsTyped, PcTyped, LastMounted, PrunesOld
<1> QED
  BY <1>2, <1>3, <1>4, <1>5, <1>6, <1>7, <1>8, <1>9, <1>10, <1>11, <1>12, <1>13, <1>14
     DEF IInv, Typed, ScreenInv

LEMMA NextStep == IInv /\ Next => IInv'
BY MountNoteStep, MountDiffStep, MountReplyStep, MountToolStep, MountNoticeStep,
   StartPruneStep, PruneNextStep, EndPruneStep, StartHydrateStep, HydrateNextStep,
   EndHydrateStep, ClearCommandStep, SwapClearsStep, LoadSwitchedStep, LoadResumedStep,
   TextStep, FlushStep, FlushKeepsStep, ToolEndsStep, CancelStep DEF Next

-----------------------------------------------------------------------------
(* Theorems *)

\* The store, the window and what the tasks carry are type-correct; the window
\* is inside the store whatever was cleared under a pruning or a hydration.
THEOREM TypeCorrect == Spec => []TypeOK
<1>1. IInv /\ [Next]_vars => IInv'
  BY NextStep, StutterStep
<1>2. IInv => TypeOK
  BY TypedIsTypeOK DEF IInv
<1> QED
  BY <1>1, <1>2, InitIInv, PTL DEF Spec

LEMMA IInvHolds == Spec => []IInv
<1>1. IInv /\ [Next]_vars => IInv'
  BY NextStep, StutterStep
<1> QED
  BY <1>1, InitIInv, PTL DEF Spec

\* The newest messages are on the screen: what is pruned was chosen before an await
\* and may be new by the time it goes (_prune_old_messages), and a turn cancelled
\* between two removals leaves a window that is not what is mounted.
THEOREM NewestStays == Spec => []NewestMounted
<1>1. IInv => NewestMounted
  BY DEF IInv, ScreenInv
<1> QED
  BY <1>1, IInvHolds, PTL

\* The message that is streamed to is on the screen, from before its first text until
\* it is flushed (set_active_message, get_messages_to_prune).
THEOREM ActiveStays == Spec => []ActiveMounted
<1>1. IInv => ActiveMounted
  BY DEF IInv, ScreenInv
<1> QED
  BY <1>1, IInvHolds, PTL

\* Nothing of a cleared transcript comes back to the screen, though hydration and
\* mounting go on across the clearing (_hydrate_messages_above, _clear_messages).
THEOREM ClearedIsGone == Spec => []OnlyStored
<1>1. IInv => OnlyStored
  BY DEF IInv, ScreenInv
<1> QED
  BY <1>1, IInvHolds, PTL

-----------------------------------------------------------------------------
(* A reply comes back as it was *)

\* Data that lags is of a message that is still streamed to, of one no flush vouches
\* for, or of a cleared one; and what is streamed to is protected, or vouched for by
\* nobody, or cleared.
DataInv ==
  /\ StreamedIsRestored
  /\ tools \subseteq exempt
  /\ \A i \in stale : i \in exempt \/ i = stream \/ i <= base
  /\ stream # None =>
       /\ stream <= born
       /\ stream > base => stream = active \/ stream \in exempt

\* What a hydration brings back is of the transcript there is, and was not there.
LEMMA Hydrated ==
  ASSUME IInv, HydrateNext
  PROVE  \E i \in Nat : /\ i > base /\ i \notin dom
                        /\ outdated' = IF i \in stale THEN outdated \cup {i} ELSE outdated
<1>1. StoreTyped /\ NamesTyped /\ SetsTyped /\ ListsTyped /\ OnlyStored /\ HydratesStored
  BY DEF IInv, Typed, ScreenInv
<1>2. anchor \in Nat /\ \A i \in todo[Pump] : anchor > base => i > base
  BY <1>1 DEF HydratesStored, HydrateNext, At
<1>3. PICK i \in Hydratable : outdated' = IF i \in stale THEN outdated \cup {i} ELSE outdated
  BY DEF HydrateNext
<1>4. i \in todo[Pump] /\ i \notin dom /\ anchor \in dom
  BY <1>2, <1>3, NoneAssumption DEF Hydratable
<1>5. i \in Nat /\ anchor > base
  BY <1>1, <1>4, Tasks DEF ListsTyped, OnlyStored
<1> QED
  BY <1>2, <1>3, <1>4, <1>5

LEMMA DataStep ==
  ASSUME IInv, DataInv, [Next]_vars
  PROVE  DataInv'
<1>1. StoreTyped /\ NamesTyped /\ SetsTyped /\ ActiveMounted
  BY DEF IInv, Typed, ScreenInv
<1>2. CASE MountNote \/ MountDiff \/ \E t \in Task : MountNotice(t)
  BY <1>1, <1>2 DEF MountNote, MountDiff, MountNotice, Mount, DataInv, StreamedIsRestored,
     StoreTyped, NamesTyped
<1>3. CASE MountReply
  BY <1>1, <1>3, NoneAssumption DEF MountReply, Mount, DataInv, StreamedIsRestored, StoreTyped,
     NamesTyped
<1>4. CASE MountTool
  BY <1>1, <1>4 DEF MountTool, Mount, DataInv, StreamedIsRestored, StoreTyped, NamesTyped
<1>5. ASSUME NEW t \in Task, StartPrune(t) \/ EndPrune(t) PROVE DataInv'
  BY <1>5 DEF StartPrune, EndPrune, storeVars, viewVars, ghostVars, DataInv, StreamedIsRestored
<1>6. ASSUME NEW t \in Task, PruneNext(t) PROVE DataInv'
  BY <1>6 DEF PruneNext, storeVars, ghostVars, DataInv, StreamedIsRestored
<1>7. CASE StartHydrate \/ EndHydrate
  <2>1. UNCHANGED <<base, born, active, stale, outdated, stream, tools, exempt>>
    BY <1>7 DEF StartHydrate, EndHydrate, storeVars, viewVars, ghostVars
  <2> QED
    BY <2>1 DEF DataInv, StreamedIsRestored
<1>8. CASE HydrateNext
  <2>1. UNCHANGED <<storeVars, stream, tools, ghostVars>>
    BY <1>8 DEF HydrateNext
  <2>2. PICK i \in Nat : /\ i > base /\ i \notin dom
                         /\ outdated' = IF i \in stale THEN outdated \cup {i} ELSE outdated
    BY <1>8, Hydrated
  <2>3. i \in stale => i \in exempt
    BY <1>1, <2>2, NoneAssumption DEF DataInv, ActiveMounted, StoreTyped
  <2> QED
    BY <2>1, <2>2, <2>3 DEF DataInv, StreamedIsRestored, storeVars, ghostVars
<1>9. CASE ClearCommand \/ SwapClears
  <2>1. /\ UNCHANGED <<born, stale, stream, tools, exempt>>
        /\ base' = born /\ outdated' = {} /\ active' = None
    BY <1>9 DEF ClearCommand, SwapClears, Clear
  <2>2. \A i \in stale : i \in exempt \/ i = stream \/ i <= born
    BY <1>1 DEF DataInv, StoreTyped, SetsTyped
  <2>3. stream # None => stream <= born /\ ~(stream > born)
    BY <1>1 DEF DataInv, StoreTyped, NamesTyped
  <2> QED
    BY <2>1, <2>2, <2>3 DEF DataInv, StreamedIsRestored
<1>10. CASE LoadSwitched \/ LoadResumed
  BY <1>1, <1>10, SizeAssumption DEF LoadSwitched, LoadResumed, Load, DataInv,
     StreamedIsRestored, StoreTyped, NamesTyped
<1>11. CASE Text
  BY <1>11 DEF Text, viewVars, taskVars, ghostVars, DataInv, StreamedIsRestored
<1>12. CASE Flush
  BY <1>1, <1>12 DEF Flush, Synced, viewVars, ghostVars, DataInv, StreamedIsRestored,
     StoreTyped, NamesTyped, SetsTyped
<1>13. CASE FlushKeeps
  BY <1>1, <1>13 DEF FlushKeeps, Synced, viewVars, taskVars, DataInv, StreamedIsRestored,
     StoreTyped, NamesTyped, SetsTyped
<1>14. ASSUME NEW i \in tools, ToolEnds(i) PROVE DataInv'
  BY <1>14 DEF ToolEnds, viewVars, ghostVars, DataInv, StreamedIsRestored
<1>15. CASE Cancel
  BY <1>1, <1>15, NoneAssumption DEF Cancel, viewVars, DataInv, StreamedIsRestored, StoreTyped,
     NamesTyped
<1>16. CASE UNCHANGED vars
  BY <1>16 DEF vars, storeVars, viewVars, taskVars, ghostVars, DataInv, StreamedIsRestored
<1> QED
  BY <1>2, <1>3, <1>4, <1>5, <1>6, <1>7, <1>8, <1>9, <1>10, <1>11, <1>12, <1>13, <1>14, <1>15,
     <1>16
  DEF Next

\* A reply that was flushed at its end comes back as it was, however often it is pruned
\* and hydrated: its data is brought up to date before its protection ends
\* (_flush_assistant_text_ns, _sync_message_content), and nothing of a cleared transcript,
\* whose data nobody brings up to date, comes back.
THEOREM RepliesComeBack == Spec => []StreamedIsRestored
<1>1. Init => DataInv
  BY DEF Init, DataInv, StreamedIsRestored
<1>2. IInv /\ DataInv /\ [Next]_vars => DataInv'
  BY DataStep
<1>3. DataInv => StreamedIsRestored
  BY DEF DataInv
<1> QED
  BY <1>1, <1>2, <1>3, IInvHolds, PTL DEF Spec

-----------------------------------------------------------------------------
(* The window is what is mounted *)

InWindow(t) == pc[t] \in {"mounted", "pruning", "hydrating"}

\* A pruning has taken the oldest widgets off the screen, and takes the oldest next.
PrunesOldest(t) ==
  /\ dom \cap done[t] = {} /\ dom \cup done[t] = first + 1 .. born
  /\ \A i \in done[t], j \in dom : i < j
  /\ \A i \in todo[t], j \in dom : j <= i => j \in todo[t]

\* A hydration has brought back what is right above the window, and goes on upwards.
HydratesUpwards ==
  \E m \in base .. first :
    /\ done[Pump] = m + 1 .. first /\ dom = m + 1 .. born
    /\ todo[Pump] = {i \in base + 1 .. m : i + Buffer > first}

\* One task at a time is in the window, and what is mounted is the window, but for what
\* that task has removed or brought back.
WindowInv == torn = {} =>
  /\ \A t, u \in Task : InWindow(t) /\ InWindow(u) => t = u
  /\ (\A t \in Task : pc[t] \notin {"pruning", "hydrating"}) => dom = first + 1 .. born
  /\ \A t \in Task : pc[t] = "pruning" => PrunesOldest(t)
  /\ \A t \in Task : pc[t] = "hydrating" => t = Pump /\ HydratesUpwards

LEMMA Alone ==
  ASSUME WindowInv, torn = {}, NEW t \in Task, pc[t] \notin {"pruning", "hydrating"},
         ~Meanwhile(t)
  PROVE  /\ dom = first + 1 .. born
         /\ \A u \in Task \ {t} : ~InWindow(u)
BY DEF WindowInv, Meanwhile, InWindow

\* A step that leaves the window, what is mounted and the tasks in the window alone.
Aside ==
  /\ UNCHANGED <<base, born, first, dom>>
  /\ torn' = {} => torn = {}
  /\ \A t \in Task : /\ pc'[t] \in {"pruning", "hydrating"} => pc[t] = pc'[t]
                     /\ pc'[t] = "mounted" => InWindow(t)
                     /\ pc[t] \in {"pruning", "hydrating"} /\ torn' = {} => pc'[t] = pc[t]
                     /\ done'[t] = done[t] /\ todo'[t] = todo[t]

LEMMA AsideStep ==
  ASSUME WindowInv, Aside
  PROVE  WindowInv'
<1>1. SUFFICES ASSUME torn' = {} PROVE WindowInv'
  BY DEF WindowInv
<1>2. torn = {}
  BY <1>1 DEF Aside
<1>3. \A t, u \in Task : (InWindow(t) /\ InWindow(u))' => t = u
  BY <1>2 DEF WindowInv, Aside, InWindow
<1>4. (\A t \in Task : pc'[t] \notin {"pruning", "hydrating"}) => dom' = first' + 1 .. born'
  BY <1>1, <1>2 DEF WindowInv, Aside
<1>5. ASSUME NEW t \in Task, pc'[t] = "pruning" PROVE PrunesOldest(t)'
  BY <1>2, <1>5 DEF WindowInv, Aside, PrunesOldest
<1>6. ASSUME NEW t \in Task, pc'[t] = "hydrating" PROVE t = Pump /\ HydratesUpwards'
  BY <1>2, <1>6, Tasks DEF WindowInv, Aside, HydratesUpwards
<1> QED
  BY <1>3, <1>4, <1>5, <1>6 DEF WindowInv

\* A message is mounted below the others.
LEMMA MountKeepsWindow ==
  ASSUME IInv, WindowInv, NEW t \in Task, Mount(t), pc[t] \notin {"pruning", "hydrating"}
  PROVE  WindowInv'
<1>1. StoreTyped /\ PcTyped
  BY DEF IInv, Typed
<1>2. SUFFICES ASSUME torn' = {} PROVE WindowInv'
  BY DEF WindowInv
<1>3. torn = {} /\ ~Meanwhile(t)
  BY <1>2 DEF Mount, Tear
<1>4. dom = first + 1 .. born /\ \A u \in Task \ {t} : ~InWindow(u)
  BY <1>3, Alone
<1>5. pc' = [pc EXCEPT ![t] = "mounted"] /\ first' = first /\ born' = born + 1 /\ dom' = dom \cup {born + 1}
  BY DEF Mount, Goto
<1>6. dom' = first' + 1 .. born'
  BY <1>1, <1>4, <1>5 DEF StoreTyped
<1>7. pc'[t] = "mounted" /\ \A u \in Task \ {t} : pc'[u] = pc[u]
  BY <1>1, <1>5 DEF PcTyped
<1> QED
  BY <1>4, <1>6, <1>7 DEF WindowInv, InWindow

LEMMA StartPruneKeepsWindow ==
  ASSUME IInv, WindowInv, NEW t \in Task, StartPrune(t)
  PROVE  WindowInv'
<1>1. StoreTyped /\ PcTyped /\ ListsTyped
  BY DEF IInv, Typed
<1>2. CASE ToPrune = {}
  <2>1. Aside
    <3>1. /\ pc[t] = "mounted" /\ pc' = [pc EXCEPT ![t] = "idle"]
          /\ UNCHANGED <<base, born, first, dom, torn, todo, done>>
      BY <1>2 DEF StartPrune, At, Goto, storeVars, viewVars, ghostVars
    <3> QED
      BY <1>1, <3>1 DEF Aside, InWindow, PcTyped
  <2> QED
    BY <2>1, AsideStep
<1>3. CASE ToPrune # {}
  <2>1. /\ pc' = [pc EXCEPT ![t] = "pruning"] /\ todo' = [todo EXCEPT ![t] = ToPrune]
        /\ done' = [done EXCEPT ![t] = {}] /\ pc[t] = "mounted"
        /\ UNCHANGED <<first, born, dom, torn>>
    BY <1>3 DEF StartPrune, At, Goto, storeVars, viewVars, ghostVars
  <2>2. SUFFICES ASSUME torn = {} PROVE WindowInv'
    BY <2>1 DEF WindowInv
  <2>3. dom = first + 1 .. born /\ \A u \in Task \ {t} : ~InWindow(u)
    BY <2>1, <2>2 DEF WindowInv, InWindow
  <2>4. pc'[t] = "pruning" /\ \A u \in Task \ {t} : pc'[u] = pc[u]
    BY <1>1, <2>1 DEF PcTyped
  <2>5. PrunesOldest(t)'
    <3>1. done'[t] = {} /\ todo'[t] = ToPrune
      BY <1>1, <2>1 DEF ListsTyped
    <3>2. \A i \in ToPrune, j \in dom : j <= i => j \in ToPrune
      BY <1>1, <2>3, SizeAssumption DEF ToPrune, StoreTyped
    <3> QED
      BY <2>1, <2>3, <3>1, <3>2 DEF PrunesOldest
  <2> QED
    BY <2>3, <2>4, <2>5 DEF WindowInv, InWindow
<1> QED
  BY <1>2, <1>3

LEMMA PruneNextKeepsWindow ==
  ASSUME IInv, WindowInv, NEW t \in Task, PruneNext(t)
  PROVE  WindowInv'
<1>1. StoreTyped /\ PcTyped /\ ListsTyped /\ SetsTyped
  BY DEF IInv, Typed
<1>2. /\ pc[t] = "pruning" /\ UNCHANGED <<first, born, torn, pc>>
  BY DEF PruneNext, At, storeVars, ghostVars
<1>3. PICK i \in todo[t] \cap dom :
        /\ \A j \in todo[t] \cap dom : i <= j
        /\ dom' = dom \ {i}
        /\ todo' = [todo EXCEPT ![t] = {j \in @ : j > i}]
        /\ done' = [done EXCEPT ![t] = @ \cup {i}]
  BY DEF PruneNext
<1>4. SUFFICES ASSUME torn = {} PROVE WindowInv'
  BY <1>2 DEF WindowInv
<1>5. PrunesOldest(t) /\ \A u \in Task : InWindow(u) => u = t
  BY <1>2, <1>4 DEF WindowInv, InWindow
<1>6. i \in Nat /\ \A j \in dom : j \in Nat /\ i <= j
  BY <1>1, <1>3, <1>5 DEF PrunesOldest, SetsTyped
<1>7. todo'[t] = {j \in todo[t] : j > i} /\ done'[t] = done[t] \cup {i}
  BY <1>1, <1>3 DEF ListsTyped
<1>8. PrunesOldest(t)'
  <2>1. dom' \cap done'[t] = {} /\ dom' \cup done'[t] = first' + 1 .. born'
    BY <1>2, <1>3, <1>5, <1>7 DEF PrunesOldest
  <2>2. \A a \in done'[t], j \in dom' : a < j
    BY <1>3, <1>5, <1>6, <1>7 DEF PrunesOldest
  <2>3. \A a \in todo'[t], j \in dom' : j <= a => j \in todo'[t]
    BY <1>3, <1>5, <1>6, <1>7 DEF PrunesOldest
  <2> QED
    BY <2>1, <2>2, <2>3 DEF PrunesOldest
<1> QED
  BY <1>2, <1>5, <1>8 DEF WindowInv, InWindow

LEMMA EndPruneKeepsWindow ==
  ASSUME IInv, WindowInv, NEW t \in Task, EndPrune(t)
  PROVE  WindowInv'
<1>1. StoreTyped /\ PcTyped /\ SetsTyped
  BY DEF IInv, Typed
<1>2. /\ pc[t] = "pruning" /\ pc' = [pc EXCEPT ![t] = "idle"] /\ MarkPruned(done[t])
      /\ UNCHANGED <<born, dom, torn>>
  BY DEF EndPrune, At, Goto, viewVars, ghostVars
<1>3. SUFFICES ASSUME torn = {} PROVE WindowInv'
  BY <1>2 DEF WindowInv
<1>4. PrunesOldest(t) /\ \A u \in Task : InWindow(u) => u = t
  BY <1>2, <1>3 DEF WindowInv, InWindow
<1>5. PICK f \in first .. born : first + 1 .. f \subseteq done[t] /\ f + 1 \notin done[t] /\ first' = f
  BY <1>2 DEF MarkPruned
<1>6. ASSUME NEW j \in dom PROVE j \in f + 1 .. born
  BY <1>1, <1>4, <1>5, <1>6 DEF PrunesOldest, StoreTyped
<1>7. ASSUME NEW j \in f + 1 .. born PROVE j \in dom
  <2>1. f + 1 \in first + 1 .. born /\ j \in first + 1 .. born
    BY <1>1, <1>5, <1>7 DEF StoreTyped
  <2>2. f + 1 \in dom
    BY <1>4, <1>5, <2>1 DEF PrunesOldest
  <2>3. j \notin done[t]
    BY <1>1, <1>4, <1>5, <1>7, <2>2 DEF PrunesOldest, StoreTyped
  <2> QED
    BY <1>4, <2>1, <2>3 DEF PrunesOldest
<1>8. dom' = first' + 1 .. born'
  BY <1>2, <1>5, <1>6, <1>7
<1>9. pc'[t] = "idle" /\ \A u \in Task \ {t} : pc'[u] = pc[u]
  BY <1>1, <1>2 DEF PcTyped
<1> QED
  BY <1>4, <1>8, <1>9 DEF WindowInv, InWindow

LEMMA StartHydrateKeepsWindow ==
  ASSUME IInv, WindowInv, StartHydrate
  PROVE  WindowInv'
<1>1. StoreTyped /\ PcTyped /\ ListsTyped
  BY DEF IInv, Typed
<1>2. /\ pc[Pump] = "idle" /\ pc' = [pc EXCEPT ![Pump] = "hydrating"] /\ Tear(Pump)
      /\ todo' = [todo EXCEPT ![Pump] = ToHydrate] /\ done' = [done EXCEPT ![Pump] = {}]
      /\ UNCHANGED <<base, first, born, dom>>
  BY DEF StartHydrate, At, Goto, storeVars, viewVars
<1>3. SUFFICES ASSUME torn' = {} PROVE WindowInv'
  BY DEF WindowInv
<1>4. torn = {} /\ ~Meanwhile(Pump)
  BY <1>2, <1>3 DEF Tear
<1>5. dom = first + 1 .. born /\ \A u \in Task \ {Pump} : ~InWindow(u)
  BY <1>2, <1>4, Alone, Tasks
<1>6. pc'[Pump] = "hydrating" /\ \A u \in Task \ {Pump} : pc'[u] = pc[u]
  BY <1>1, <1>2, Tasks DEF PcTyped
<1>7. HydratesUpwards'
  <2>1. done'[Pump] = {} /\ todo'[Pump] = ToHydrate
    BY <1>1, <1>2, Tasks DEF ListsTyped
  <2>2. first \in base .. first /\ first + 1 .. first = {}
    BY <1>1 DEF StoreTyped
  <2> QED
    BY <1>2, <1>5, <2>1, <2>2 DEF HydratesUpwards, ToHydrate
<1> QED
  BY <1>5, <1>6, <1>7, Tasks DEF WindowInv, InWindow

LEMMA HydrateNextKeepsWindow ==
  ASSUME IInv, WindowInv, HydrateNext
  PROVE  WindowInv'
<1>1. StoreTyped /\ PcTyped /\ ListsTyped
  BY DEF IInv, Typed
<1>2. pc[Pump] = "hydrating" /\ UNCHANGED <<base, first, born, torn, pc>>
  BY DEF HydrateNext, At, storeVars, ghostVars
<1>3. PICK i \in Hydratable :
        /\ \A j \in Hydratable : i >= j
        /\ dom' = dom \cup {i}
        /\ todo' = [todo EXCEPT ![Pump] = {j \in @ : j < i}]
        /\ done' = [done EXCEPT ![Pump] = @ \cup {i}]
  BY DEF HydrateNext
<1>4. SUFFICES ASSUME torn = {} PROVE WindowInv'
  BY <1>2 DEF WindowInv
<1>5. HydratesUpwards /\ \A u \in Task : InWindow(u) => u = Pump
  BY <1>2, <1>4, Tasks DEF WindowInv, InWindow
<1>6. PICK m \in base .. first :
        /\ done[Pump] = m + 1 .. first /\ dom = m + 1 .. born
        /\ todo[Pump] = {k \in base + 1 .. m : k + Buffer > first}
  BY <1>5 DEF HydratesUpwards
<1>7. Hydratable = todo[Pump] \ dom
  BY <1>3 DEF Hydratable
<1>8. i = m /\ m > base
  BY <1>1, <1>3, <1>6, <1>7, SizeAssumption DEF StoreTyped
<1>9. todo'[Pump] = {j \in todo[Pump] : j < m} /\ done'[Pump] = done[Pump] \cup {m}
  BY <1>1, <1>3, <1>8, Tasks DEF ListsTyped
<1>10. HydratesUpwards'
  <2>1. m - 1 \in base .. first /\ dom' = m .. born /\ done'[Pump] = m .. first
    <3>1. /\ base \in Nat /\ first \in Nat /\ born \in Nat /\ m \in Nat /\ base < m
          /\ m <= first /\ first <= born
      BY <1>1, <1>6, <1>8 DEF StoreTyped
    <3>2. (m + 1 .. born) \cup {m} = m .. born /\ (m + 1 .. first) \cup {m} = m .. first
      BY <3>1
    <3>3. m - 1 \in base .. first
      BY <3>1
    <3>4. dom' = m .. born
      BY <1>3, <1>6, <1>8, <3>2, Zenon
    <3>5. done'[Pump] = m .. first
      BY <1>6, <1>9, <3>2, Zenon
    <3> QED
      BY <3>3, <3>4, <3>5
  <2>2. todo'[Pump] = {k \in base + 1 .. m - 1 : k + Buffer > first}
    BY <1>1, <1>6, <1>8, <1>9 DEF StoreTyped
  <2>3. (m - 1) + 1 = m
    BY <1>1, <1>6 DEF StoreTyped
  <2> QED
    BY <1>2, <2>1, <2>2, <2>3 DEF HydratesUpwards
<1> QED
  BY <1>2, <1>5, <1>10, Tasks DEF WindowInv, InWindow

LEMMA EndHydrateKeepsWindow ==
  ASSUME IInv, WindowInv, EndHydrate
  PROVE  WindowInv'
<1>1. StoreTyped /\ PcTyped
  BY DEF IInv, Typed
<1>2. /\ pc[Pump] = "hydrating" /\ pc' = [pc EXCEPT ![Pump] = "idle"]
      /\ MarkHydrated(Cardinality(done[Pump])) /\ UNCHANGED <<born, dom, torn>>
  BY DEF EndHydrate, At, Goto, viewVars, ghostVars
<1>3. SUFFICES ASSUME torn = {} PROVE WindowInv'
  BY <1>2 DEF WindowInv
<1>4. HydratesUpwards /\ \A u \in Task : InWindow(u) => u = Pump
  BY <1>2, <1>3, Tasks DEF WindowInv, InWindow
<1>5. PICK m \in base .. first : done[Pump] = m + 1 .. first /\ dom = m + 1 .. born
  BY <1>4 DEF HydratesUpwards
<1>6. m \in Int /\ first \in Int
  BY <1>1, <1>5 DEF StoreTyped
<1>7. Cardinality(done[Pump]) = first - m
  <2>1. m + 1 \in Int /\ m <= first
    BY <1>5, <1>6
  <2>2. Cardinality(m + 1 .. first) = IF m + 1 > first THEN 0 ELSE first - (m + 1) + 1
    BY <1>6, <2>1, FS_Interval, Zenon
  <2> QED
    BY <1>5, <1>6, <2>1, <2>2
<1>8. first' = m
  BY <1>1, <1>2, <1>5, <1>7 DEF MarkHydrated, StoreTyped
<1>9. pc'[Pump] = "idle" /\ \A u \in Task \ {Pump} : pc'[u] = pc[u]
  BY <1>1, <1>2, Tasks DEF PcTyped
<1> QED
  BY <1>2, <1>4, <1>5, <1>8, <1>9, Tasks DEF WindowInv, InWindow

LEMMA ClearKeepsWindow ==
  ASSUME IInv, WindowInv, NEW t \in Task, pc[t] = "idle", Clear(t)
  PROVE  WindowInv'
<1>1. StoreTyped /\ PcTyped
  BY DEF IInv, Typed
<1>2. /\ pc' = [pc EXCEPT ![t] = "cleared"] /\ dom' = {} /\ first' = born /\ born' = born
      /\ torn' = {} => ~Meanwhile(t)
  BY DEF Clear, Goto
<1>3. SUFFICES ASSUME ~Meanwhile(t) PROVE WindowInv'
  BY <1>2 DEF WindowInv
<1>4. \A u \in Task : ~InWindow(u)'
  BY <1>1, <1>2, <1>3 DEF Meanwhile, InWindow, PcTyped
<1>5. dom' = first' + 1 .. born'
  BY <1>1, <1>2 DEF StoreTyped
<1> QED
  BY <1>4, <1>5 DEF WindowInv, InWindow

LEMMA LoadKeepsWindow ==
  ASSUME IInv, WindowInv, pc[Pump] \in {"idle", "cleared"}, Load
  PROVE  WindowInv'
<1>1. StoreTyped /\ PcTyped
  BY DEF IInv, Typed
<1>2. SUFFICES ASSUME torn' = {} PROVE WindowInv'
  BY DEF WindowInv
<1>3. pc' = [pc EXCEPT ![Pump] = "notice"] /\ ~Meanwhile(Pump) /\ torn = {} /\ dom = {}
  BY <1>2 DEF Load, Goto
<1>4. \A u \in Task : ~InWindow(u)'
  BY <1>1, <1>3, Tasks DEF Meanwhile, InWindow, PcTyped
<1>5. dom' = first' + 1 .. born'
  BY <1>3 DEF Load
<1> QED
  BY <1>4, <1>5 DEF WindowInv, InWindow

\* A turn that is cancelled before its pruning has removed anything leaves the window.
LEMMA CancelKeepsWindow ==
  ASSUME IInv, WindowInv, Cancel
  PROVE  WindowInv'
<1>1. StoreTyped /\ PcTyped /\ ListsTyped
  BY DEF IInv, Typed
<1>2. /\ pc' = [pc EXCEPT ![Turn] = "notice"] /\ pc[Turn] # "hydrating"
      /\ todo' = [todo EXCEPT ![Turn] = {}] /\ done' = [done EXCEPT ![Turn] = {}]
      /\ UNCHANGED <<base, first, born, dom>>
      /\ torn' = {} => torn = {} /\ done[Turn] = {}
  BY DEF Cancel, Goto, viewVars
<1>3. SUFFICES ASSUME torn = {}, done[Turn] = {} PROVE WindowInv'
  BY <1>2 DEF WindowInv
<1>4. pc'[Turn] = "notice" /\ \A u \in Task \ {Turn} : pc'[u] = pc[u]
  BY <1>1, <1>2, Tasks DEF PcTyped
<1>5. \A u \in Task \ {Turn} : todo'[u] = todo[u] /\ done'[u] = done[u]
  BY <1>1, <1>2, Tasks DEF ListsTyped
<1>6. pc[Turn] = "pruning" => dom = first + 1 .. born
  BY <1>3, Tasks DEF WindowInv, PrunesOldest
<1>7. (\A u \in Task : pc'[u] \notin {"pruning", "hydrating"}) => dom' = first' + 1 .. born'
  BY <1>2, <1>3, <1>4, <1>6, Tasks DEF WindowInv
<1>8. ASSUME NEW u \in Task, pc'[u] = "pruning" PROVE PrunesOldest(u)'
  BY <1>2, <1>3, <1>4, <1>5, <1>8 DEF WindowInv, PrunesOldest
<1>9. ASSUME NEW u \in Task, pc'[u] = "hydrating" PROVE u = Pump /\ HydratesUpwards'
  BY <1>2, <1>3, <1>4, <1>5, <1>9, TaskAssumption, Tasks DEF WindowInv, HydratesUpwards
<1>10. \A t, u \in Task : (InWindow(t) /\ InWindow(u))' => t = u
  BY <1>3, <1>4 DEF WindowInv, InWindow
<1> QED
  BY <1>7, <1>8, <1>9, <1>10 DEF WindowInv

LEMMA WindowStep ==
  ASSUME IInv, WindowInv, [Next]_vars
  PROVE  WindowInv'
<1>1. CASE MountNote \/ MountDiff \/ MountReply \/ MountTool
  BY <1>1, MountKeepsWindow, Tasks DEF MountNote, MountDiff, MountReply, MountTool, At
<1>2. ASSUME NEW t \in Task, MountNotice(t) PROVE WindowInv'
  BY <1>2, MountKeepsWindow DEF MountNotice
<1>3. ASSUME NEW t \in Task, StartPrune(t) \/ PruneNext(t) \/ EndPrune(t) PROVE WindowInv'
  BY <1>3, StartPruneKeepsWindow, PruneNextKeepsWindow, EndPruneKeepsWindow
<1>4. CASE StartHydrate \/ HydrateNext \/ EndHydrate
  BY <1>4, StartHydrateKeepsWindow, HydrateNextKeepsWindow, EndHydrateKeepsWindow
<1>5. CASE ClearCommand \/ SwapClears
  BY <1>5, ClearKeepsWindow, Tasks DEF ClearCommand, SwapClears, At
<1>6. CASE LoadSwitched \/ LoadResumed
  BY <1>6, LoadKeepsWindow DEF LoadSwitched, LoadResumed, At
<1>7. CASE Text \/ Flush \/ FlushKeeps \/ (\E i \in tools : ToolEnds(i)) \/ UNCHANGED vars
  <2>1. UNCHANGED <<base, born, first, dom, pc, todo, done, torn>>
    BY <1>7 DEF Text, Flush, FlushKeeps, ToolEnds, vars, storeVars, viewVars, taskVars, ghostVars
  <2>2. Aside
    BY <2>1 DEF Aside, InWindow
  <2> QED
    BY <2>2, AsideStep
<1>8. CASE Cancel
  BY <1>8, CancelKeepsWindow
<1> QED
  BY <1>1, <1>2, <1>3, <1>4, <1>5, <1>6, <1>7, <1>8 DEF Next

\* At rest the widgets are exactly the window, however often it was pruned, hydrated,
\* cleared and loaded, as long as no two tasks were in it at once, no pruning was cut
\* short and no history met messages (mark_pruned and mark_hydrated come after the
\* awaits they account for).
THEOREM WindowIsMounted == Spec => []WindowMounted
<1>1. Init => WindowInv
  BY DEF Init, WindowInv, InWindow
<1>2. IInv /\ WindowInv /\ [Next]_vars => WindowInv'
  BY WindowStep
<1>3. WindowInv => WindowMounted
  BY DEF WindowInv, WindowMounted, AtRest
<1> QED
  BY <1>1, <1>2, <1>3, IInvHolds, PTL DEF Spec
=============================================================================
