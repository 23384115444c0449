------------------------ MODULE McpSessionsProofs ------------------------
(***************************************************************************)
(* Proofs about the MCP sessions, for any servers and calls: who owns a    *)
(* session, and that a session that failed is gone.                        *)
(***************************************************************************)
EXTENDS McpSessions, TLAPS

----------------------------------------------------------------------------
(* The inductive invariant *)

Gone == {"closing", "stuck", "cut", "closed"}

\* The lock of a server is held by the call that makes its session, and by it alone.
Locked ==
  \A c \in Call : pc[c] \in {"creating", "undoing"} =>
    lock[Target[c]] = c /\ entries[Target[c]] = None

\* What a call has in hand, by where it stands.
Making ==
  \A c \in Call : pc[c] = "creating" =>
    on[c] \in Session /\ state[on[c]] \in {"opening", "stalled"} /\ host[on[c]] = Target[c]
Using ==
  \A c \in Call : pc[c] \in {"calling", "dropping"} =>
    on[c] \in Session /\ state[on[c]] \notin {"none", "opening", "stalled"}
Closing ==
  /\ \A c \in Call : pc[c] \in {"undoing", "closing"} => on[c] \in Session /\ state[on[c]] \in Gone
  /\ \A n \in Name : closer[n] = "closing" => victim[n] \in Session /\ state[victim[n]] \in Gone

\* The cache and the sessions agree.
Cached ==
  /\ \A n \in Name : entries[n] # None =>
       entries[n] \in Session /\ host[entries[n]] = n /\ state[entries[n]] \in {"open", "broken"}
  /\ \A s \in Session : state[s] \in {"open", "broken"} =>
       host[s] \in Name /\ entries[host[s]] = s

\* Whoever works on a session is still there.
Tended ==
  /\ \A s \in Session : state[s] \in {"opening", "stalled"} =>
       \E c \in Call : on[c] = s /\ pc[c] = "creating"
  /\ \A s \in Session : state[s] \in {"closing", "stuck"} =>
       \/ \E c \in Call : on[c] = s /\ pc[c] \in {"undoing", "closing"}
       \/ \E n \in Name : victim[n] = s /\ closer[n] = "closing"

\* What a call blames was in use.
Blamed ==
  \A c \in Call : \A s \in failed[c] : state[s] \notin {"none", "opening", "stalled"}

\* A call that drops a session blames that one, for a reason.
Dropping ==
  \A c \in Call : pc[c] = "dropping" =>
    /\ on[c] \in failed[c]
    /\ entries[Target[c]] \in failed[c] => entries[Target[c]] = on[c]
    /\ reauth[c] \/ round[c] = 2 \/ state[on[c]] # "open"

\* The clean-up works only once the manager is closed.
Shut == \A n \in Name : closer[n] # "idle" => closed

IInv ==
  TypeOK /\ Locked /\ Making /\ Using /\ Closing /\ Cached /\ Tended /\ Blamed /\ Dropping
  /\ FailedIsGone /\ Shut

THEOREM Start ==
  Init => IInv
<1> SUFFICES ASSUME Init PROVE IInv
  OBVIOUS
<1>1. TypeOK
  BY BudgetsAssumption DEF Init, TypeOK
<1>2. Locked /\ Making /\ Using /\ Closing /\ Shut
  BY DEF Init, Locked, Making, Using, Closing, Shut
<1>3. Cached /\ Tended
  BY DEF Init, Cached, Tended
<1>4. Blamed /\ Dropping /\ FailedIsGone
  BY DEF Init, Blamed, Dropping, FailedIsGone
<1> QED
  BY <1>1, <1>2, <1>3, <1>4 DEF IInv

----------------------------------------------------------------------------
(* Every step keeps it *)

LEMMA SpendType ==
  ASSUME TypeOK, NEW o \in Op, Spend(o)
  PROVE  left' \in [Op -> Nat]
BY DEF TypeOK, Spend

LEMMA TypeStep ==
  ASSUME TypeOK, Using, Next
  PROVE  TypeOK'
<1>1. ASSUME NEW c \in Call, Begin(c) PROVE TypeOK'
  BY <1>1, TargetAssumption, NoneAssumption DEF TypeOK, Ended, Begin, Fetch, Entry, Goto,
     managerVars, closerVars, ghostVars
<1>2. ASSUME NEW c \in Call, Found(c) PROVE TypeOK'
  BY <1>2, TargetAssumption, NoneAssumption DEF TypeOK, Ended, Found, Fetch, Entry, Goto,
     managerVars, closerVars, ghostVars
<1>3. ASSUME NEW c \in Call, Refused(c) PROVE TypeOK'
  BY <1>3 DEF TypeOK, Ended, Refused, Entry, Goto, managerVars, closerVars, ghostVars
<1>4. ASSUME NEW c \in Call, NEW s \in Session, Create(c, s) PROVE TypeOK'
  BY <1>4, TargetAssumption, NoneAssumption DEF TypeOK, Ended, Create, Entry, Goto, Turns,
     closerVars
<1>5. ASSUME NEW c \in Call, Created(c) PROVE TypeOK'
  BY <1>5 DEF TypeOK, Ended, Created, Release, Goto, Turns, closerVars, ghostVars
<1>6. ASSUME NEW c \in Call, CreateFails(c) PROVE TypeOK'
  <2>1. left' \in [Op -> Nat]
    BY <1>6, SpendType DEF TypeOK, Op, CreateFails
  <2> QED
    BY <1>6, <2>1, TargetAssumption DEF TypeOK, Using, CreateFails, Goto, Ended, Turns,
       managerVars, callVars, closerVars, ghostVars
<1>7. ASSUME NEW c \in Call, Undone(c) PROVE TypeOK'
  BY <1>7 DEF TypeOK, Ended, Undone, Release, Goto, Turns, closerVars, ghostVars
<1>8. ASSUME NEW c \in Call, Answered(c) PROVE TypeOK'
  BY <1>8 DEF TypeOK, Ended, Answered, Goto, managerVars, closerVars, ghostVars
<1>9. ASSUME NEW c \in Call, Dead(c) PROVE TypeOK'
  BY <1>9 DEF TypeOK, Using, Ended, Dead, Goto, managerVars, closerVars
<1>10. ASSUME NEW c \in Call, RetryFails(c) PROVE TypeOK'
  <2>1. left' \in [Op -> Nat]
    BY <1>10, SpendType DEF TypeOK, Op, RetryFails
  <2> QED
    BY <1>10, <2>1, TargetAssumption DEF TypeOK, Using, RetryFails, Goto, Ended,
       managerVars, callVars, closerVars, ghostVars
<1>11. ASSUME NEW c \in Call, NeedsLogin(c) PROVE TypeOK'
  <2>1. left' \in [Op -> Nat]
    BY <1>11, SpendType DEF TypeOK, Op, NeedsLogin
  <2> QED
    BY <1>11, <2>1, TargetAssumption DEF TypeOK, Using, NeedsLogin, Goto, Ended,
       managerVars, callVars, closerVars, ghostVars
<1>12. ASSUME NEW c \in Call, Kept(c) PROVE TypeOK'
  BY <1>12, TargetAssumption, NoneAssumption DEF TypeOK, Ended, Kept, GoOn, Fetch, Entry,
     Goto, managerVars, closerVars, ghostVars
<1>13. ASSUME NEW c \in Call, Drop(c) PROVE TypeOK'
  BY <1>13 DEF TypeOK, Ended, Drop, Entry, Evict, Goto, Turns, closerVars, ghostVars
<1>14. ASSUME NEW c \in Call, Dropped(c) PROVE TypeOK'
  BY <1>14, TargetAssumption, NoneAssumption DEF TypeOK, Ended, Dropped, GoOn, Fetch,
     Entry, Goto, Turns, managerVars, closerVars, ghostVars
<1>15. ASSUME NEW c \in Call, DropFails(c) PROVE TypeOK'
  <2>1. left' \in [Op -> Nat]
    BY <1>15, SpendType DEF TypeOK, Op, DropFails
  <2> QED
    BY <1>15, <2>1, TargetAssumption DEF TypeOK, Using, DropFails, Goto, Ended, Turns,
       managerVars, callVars, closerVars, ghostVars
<1>16. ASSUME NEW c \in Call, Cancel(c) PROVE TypeOK'
  <2>1. left' \in [Op -> Nat]
    BY <1>16, SpendType DEF TypeOK, Op, Cancel
  <2> QED
    BY <1>16, <2>1, TargetAssumption DEF TypeOK, Using, Cancel, Release, Ended, Goto, Turns,
       managerVars, callVars, closerVars, ghostVars
<1>17. ASSUME Cleanup PROVE TypeOK'
  <2>1. left' \in [Op -> Nat]
    BY <1>17, SpendType DEF TypeOK, Op, Cleanup
  <2> QED
    BY <1>17, <2>1, TargetAssumption DEF TypeOK, Using, Cleanup,
       managerVars, callVars, closerVars, ghostVars
<1>18. ASSUME NEW n \in Name, CloserDrops(n) PROVE TypeOK'
  BY <1>18 DEF TypeOK, Ended, CloserDrops, Evict, Turns, callVars, ghostVars
<1>19. ASSUME NEW n \in Name, CloserIdles(n) PROVE TypeOK'
  BY <1>19 DEF TypeOK, Ended, CloserIdles, managerVars, callVars, ghostVars
<1>20. ASSUME NEW n \in Name, CloserEnds(n) PROVE TypeOK'
  BY <1>20 DEF TypeOK, Ended, CloserEnds, Turns, managerVars, callVars, ghostVars
<1>21. ASSUME NEW n \in Name, CloserTimesOut(n) PROVE TypeOK'
  BY <1>21 DEF TypeOK, Ended, CloserTimesOut, Turns, managerVars, callVars, ghostVars
<1>22. ASSUME NEW s \in Session, Break(s) PROVE TypeOK'
  <2>1. left' \in [Op -> Nat]
    BY <1>22, SpendType DEF TypeOK, Op, Break
  <2> QED
    BY <1>22, <2>1, TargetAssumption DEF TypeOK, Using, Break, Turns,
       managerVars, callVars, closerVars, ghostVars
<1>23. ASSUME NEW s \in Session, Hang(s) PROVE TypeOK'
  <2>1. left' \in [Op -> Nat]
    BY <1>23, SpendType DEF TypeOK, Op, Hang
  <2> QED
    BY <1>23, <2>1, TargetAssumption DEF TypeOK, Using, Hang, Turns,
       managerVars, callVars, closerVars, ghostVars
<1> QED
  BY <1>1, <1>2, <1>3, <1>4, <1>5, <1>6, <1>7, <1>8, <1>9, <1>10, <1>11, <1>12, <1>13, <1>14,
     <1>15, <1>16, <1>17, <1>18, <1>19, <1>20, <1>21, <1>22, <1>23
  DEF Next, Steps, CloserSteps

LEMMA LockedStep ==
  ASSUME TypeOK, Locked, Next
  PROVE  Locked'
<1>1. ASSUME NEW c \in Call, Begin(c) PROVE Locked'
  BY <1>1 DEF TypeOK, Locked, Begin, Fetch, Entry, Goto, managerVars, closerVars,
     ghostVars
<1>2. ASSUME NEW c \in Call, Found(c) PROVE Locked'
  BY <1>2 DEF TypeOK, Locked, Found, Fetch, Entry, Goto, managerVars, closerVars,
     ghostVars
<1>3. ASSUME NEW c \in Call, Refused(c) PROVE Locked'
  BY <1>3 DEF TypeOK, Locked, Refused, Entry, Goto, managerVars, closerVars, ghostVars
<1>4. ASSUME NEW c \in Call, NEW s \in Session, Create(c, s) PROVE Locked'
  <2>1. lock' = [lock EXCEPT ![Target[c]] = c] /\ entries' = entries
        /\ pc' = [pc EXCEPT ![c] = "creating"] /\ lock[Target[c]] = None /\ entries[Target[c]] = None
    BY <1>4 DEF Create, Goto, Entry
  <2>2. \A d \in Call : Target[d] = Target[c] => pc[d] \notin {"creating", "undoing"}
    BY <2>1, NoneAssumption DEF Locked
  <2> QED
    BY <2>1, <2>2, TargetAssumption DEF TypeOK, Locked
<1>5. ASSUME NEW c \in Call, Created(c) PROVE Locked'
  BY <1>5 DEF TypeOK, Locked, Created, Release, Goto, Turns, closerVars, ghostVars
<1>6. ASSUME NEW c \in Call, CreateFails(c) PROVE Locked'
  BY <1>6 DEF TypeOK, Locked, CreateFails, Spend, Goto, Turns, managerVars, closerVars,
     ghostVars
<1>7. ASSUME NEW c \in Call, Undone(c) PROVE Locked'
  BY <1>7 DEF TypeOK, Locked, Undone, Release, Goto, Turns, closerVars, ghostVars
<1>8. ASSUME NEW c \in Call, Answered(c) PROVE Locked'
  BY <1>8 DEF TypeOK, Locked, Answered, Goto, managerVars, closerVars, ghostVars
<1>9. ASSUME NEW c \in Call, Dead(c) PROVE Locked'
  BY <1>9 DEF TypeOK, Locked, Dead, Goto, managerVars, closerVars
<1>10. ASSUME NEW c \in Call, RetryFails(c) PROVE Locked'
  BY <1>10 DEF TypeOK, Locked, RetryFails, Spend, Goto, managerVars, closerVars
<1>11. ASSUME NEW c \in Call, NeedsLogin(c) PROVE Locked'
  BY <1>11 DEF TypeOK, Locked, NeedsLogin, Spend, Goto, managerVars, closerVars
<1>12. ASSUME NEW c \in Call, Kept(c) PROVE Locked'
  BY <1>12 DEF TypeOK, Locked, Kept, GoOn, Fetch, Entry, Goto, managerVars, closerVars,
     ghostVars
<1>13. ASSUME NEW c \in Call, Drop(c) PROVE Locked'
  BY <1>13 DEF TypeOK, Locked, Drop, Entry, Evict, Goto, Turns, closerVars, ghostVars
<1>14. ASSUME NEW c \in Call, Dropped(c) PROVE Locked'
  BY <1>14 DEF TypeOK, Locked, Dropped, GoOn, Fetch, Entry, Goto, Turns, managerVars,
     closerVars, ghostVars
<1>15. ASSUME NEW c \in Call, DropFails(c) PROVE Locked'
  BY <1>15 DEF TypeOK, Locked, DropFails, Spend, Goto, Turns, managerVars, closerVars,
     ghostVars
<1>16. ASSUME NEW c \in Call, Cancel(c) PROVE Locked'
  <2>1. pc' = [pc EXCEPT ![c] = "cancelled"] /\ entries' = entries
    BY <1>16 DEF Cancel, Goto
  <2>2. \/ lock' = lock
        \/ pc[c] \in {"creating", "undoing"} /\ lock' = [lock EXCEPT ![Target[c]] = None]
    BY <1>16 DEF Cancel, Release
  <2>3. \A d \in Call \ {c} : pc[d] \in {"creating", "undoing"} =>
          lock'[Target[d]] = d /\ entries[Target[d]] = None
    BY <2>2, TargetAssumption DEF TypeOK, Locked
  <2> QED
    BY <2>1, <2>3 DEF TypeOK, Locked
<1>17. ASSUME Cleanup PROVE Locked'
  BY <1>17 DEF TypeOK, Locked, Cleanup, Spend, callVars, ghostVars
<1>18. ASSUME NEW n \in Name, CloserDrops(n) PROVE Locked'
  BY <1>18 DEF TypeOK, Locked, CloserDrops, Evict, Turns, callVars, ghostVars
<1>19. ASSUME NEW n \in Name, CloserIdles(n) PROVE Locked'
  BY <1>19 DEF TypeOK, Locked, CloserIdles, managerVars, callVars, ghostVars
<1>20. ASSUME NEW n \in Name, CloserEnds(n) PROVE Locked'
  BY <1>20 DEF TypeOK, Locked, CloserEnds, Turns, managerVars, callVars, ghostVars
<1>21. ASSUME NEW n \in Name, CloserTimesOut(n) PROVE Locked'
  BY <1>21 DEF TypeOK, Locked, CloserTimesOut, Turns, managerVars, callVars, ghostVars
<1>22. ASSUME NEW s \in Session, Break(s) PROVE Locked'
  BY <1>22 DEF TypeOK, Locked, Break, Spend, Turns, managerVars, callVars, closerVars,
     ghostVars
<1>23. ASSUME NEW s \in Session, Hang(s) PROVE Locked'
  BY <1>23 DEF TypeOK, Locked, Hang, Spend, Turns, managerVars, callVars, closerVars,
     ghostVars
<1> QED
  BY <1>1, <1>2, <1>3, <1>4, <1>5, <1>6, <1>7, <1>8, <1>9, <1>10, <1>11, <1>12, <1>13, <1>14,
     <1>15, <1>16, <1>17, <1>18, <1>19, <1>20, <1>21, <1>22, <1>23
  DEF Next, Steps, CloserSteps

LEMMA MakingStep ==
  ASSUME TypeOK, Locked, Making, Using, Closing, Cached, Next
  PROVE  Making'
<1>1. ASSUME NEW c \in Call, Begin(c) PROVE Making'
  BY <1>1 DEF TypeOK, Making, Begin, Fetch, Entry, Goto, managerVars, closerVars,
     ghostVars
<1>2. ASSUME NEW c \in Call, Found(c) PROVE Making'
  BY <1>2 DEF TypeOK, Making, Found, Fetch, Entry, Goto, managerVars, closerVars,
     ghostVars
<1>3. ASSUME NEW c \in Call, Refused(c) PROVE Making'
  BY <1>3 DEF TypeOK, Making, Refused, Entry, Goto, managerVars, closerVars, ghostVars
<1>4. ASSUME NEW c \in Call, NEW s \in Session, Create(c, s) PROVE Making'
  BY <1>4 DEF TypeOK, Making, Create, Entry, Goto, Turns, closerVars
<1>5. ASSUME NEW c \in Call, Created(c) PROVE Making'
  BY <1>5 DEF TypeOK, Locked, Making, Using, Closing, Cached, Gone, Created, Release, Goto,
     Turns, closerVars, ghostVars
<1>6. ASSUME NEW c \in Call, CreateFails(c) PROVE Making'
  BY <1>6 DEF TypeOK, Locked, Making, Using, Closing, Cached, Gone, CreateFails, Spend,
     Goto, Turns, managerVars, closerVars, ghostVars
<1>7. ASSUME NEW c \in Call, Undone(c) PROVE Making'
  BY <1>7 DEF TypeOK, Locked, Making, Using, Closing, Cached, Gone, Undone, Release, Goto,
     Turns, closerVars, ghostVars
<1>8. ASSUME NEW c \in Call, Answered(c) PROVE Making'
  BY <1>8 DEF TypeOK, Making, Answered, Goto, managerVars, closerVars, ghostVars
<1>9. ASSUME NEW c \in Call, Dead(c) PROVE Making'
  BY <1>9 DEF TypeOK, Making, Dead, Goto, managerVars, closerVars
<1>10. ASSUME NEW c \in Call, RetryFails(c) PROVE Making'
  BY <1>10 DEF TypeOK, Making, RetryFails, Spend, Goto, managerVars, closerVars
<1>11. ASSUME NEW c \in Call, NeedsLogin(c) PROVE Making'
  BY <1>11 DEF TypeOK, Making, NeedsLogin, Spend, Goto, managerVars, closerVars
<1>12. ASSUME NEW c \in Call, Kept(c) PROVE Making'
  BY <1>12 DEF TypeOK, Making, Kept, GoOn, Fetch, Entry, Goto, managerVars, closerVars,
     ghostVars
<1>13. ASSUME NEW c \in Call, Drop(c) PROVE Making'
  BY <1>13 DEF TypeOK, Locked, Making, Using, Closing, Cached, Gone, Drop, Entry, Evict,
     Goto, Turns, closerVars, ghostVars
<1>14. ASSUME NEW c \in Call, Dropped(c) PROVE Making'
  BY <1>14 DEF TypeOK, Making, Dropped, GoOn, Fetch, Entry, Goto, Turns, managerVars,
     closerVars, ghostVars
<1>15. ASSUME NEW c \in Call, DropFails(c) PROVE Making'
  BY <1>15 DEF TypeOK, Making, DropFails, Spend, Goto, Turns, managerVars, closerVars,
     ghostVars
<1>16. ASSUME NEW c \in Call, Cancel(c) PROVE Making'
  BY <1>16 DEF TypeOK, Locked, Making, Using, Closing, Cached, Gone, Cancel, Release,
     Spend, Ended, Goto, Turns, closerVars, ghostVars
<1>17. ASSUME Cleanup PROVE Making'
  BY <1>17 DEF TypeOK, Making, Cleanup, Spend, callVars, ghostVars
<1>18. ASSUME NEW n \in Name, CloserDrops(n) PROVE Making'
  BY <1>18 DEF TypeOK, Locked, Making, Using, Closing, Cached, Gone, CloserDrops, Evict,
     Turns, callVars, ghostVars
<1>19. ASSUME NEW n \in Name, CloserIdles(n) PROVE Making'
  BY <1>19 DEF TypeOK, Making, CloserIdles, managerVars, callVars, ghostVars
<1>20. ASSUME NEW n \in Name, CloserEnds(n) PROVE Making'
  BY <1>20 DEF TypeOK, Making, CloserEnds, Turns, managerVars, callVars, ghostVars
<1>21. ASSUME NEW n \in Name, CloserTimesOut(n) PROVE Making'
  BY <1>21 DEF TypeOK, Locked, Making, Using, Closing, Cached, Gone, CloserTimesOut, Turns,
     managerVars, callVars, ghostVars
<1>22. ASSUME NEW s \in Session, Break(s) PROVE Making'
  BY <1>22 DEF TypeOK, Making, Break, Spend, Turns, managerVars, callVars, closerVars,
     ghostVars
<1>23. ASSUME NEW s \in Session, Hang(s) PROVE Making'
  BY <1>23 DEF TypeOK, Making, Hang, Spend, Turns, managerVars, callVars, closerVars,
     ghostVars
<1> QED
  BY <1>1, <1>2, <1>3, <1>4, <1>5, <1>6, <1>7, <1>8, <1>9, <1>10, <1>11, <1>12, <1>13, <1>14,
     <1>15, <1>16, <1>17, <1>18, <1>19, <1>20, <1>21, <1>22, <1>23
  DEF Next, Steps, CloserSteps

LEMMA UsingStep ==
  ASSUME TypeOK, Making, Using, Closing, Cached, Next
  PROVE  Using'
<1>1. ASSUME NEW c \in Call, Begin(c) PROVE Using'
  BY <1>1, TargetAssumption, NoneAssumption DEF TypeOK, Making, Using, Closing, Cached,
     Gone, Begin, Fetch, Entry, Goto, managerVars, closerVars, ghostVars
<1>2. ASSUME NEW c \in Call, Found(c) PROVE Using'
  BY <1>2, TargetAssumption, NoneAssumption DEF TypeOK, Making, Using, Closing, Cached,
     Gone, Found, Fetch, Entry, Goto, managerVars, closerVars, ghostVars
<1>3. ASSUME NEW c \in Call, Refused(c) PROVE Using'
  BY <1>3 DEF TypeOK, Using, Refused, Entry, Goto, managerVars, closerVars, ghostVars
<1>4. ASSUME NEW c \in Call, NEW s \in Session, Create(c, s) PROVE Using'
  BY <1>4 DEF TypeOK, Using, Create, Entry, Goto, Turns, closerVars
<1>5. ASSUME NEW c \in Call, Created(c) PROVE Using'
  BY <1>5 DEF TypeOK, Making, Using, Closing, Cached, Gone, Created, Release, Goto, Turns,
     closerVars, ghostVars
<1>6. ASSUME NEW c \in Call, CreateFails(c) PROVE Using'
  BY <1>6 DEF TypeOK, Using, CreateFails, Spend, Goto, Turns, managerVars, closerVars,
     ghostVars
<1>7. ASSUME NEW c \in Call, Undone(c) PROVE Using'
  BY <1>7 DEF TypeOK, Using, Undone, Release, Goto, Turns, closerVars, ghostVars
<1>8. ASSUME NEW c \in Call, Answered(c) PROVE Using'
  BY <1>8 DEF TypeOK, Using, Answered, Goto, managerVars, closerVars, ghostVars
<1>9. ASSUME NEW c \in Call, Dead(c) PROVE Using'
  BY <1>9 DEF TypeOK, Using, Dead, Goto, managerVars, closerVars
<1>10. ASSUME NEW c \in Call, RetryFails(c) PROVE Using'
  BY <1>10 DEF TypeOK, Using, RetryFails, Spend, Goto, managerVars, closerVars
<1>11. ASSUME NEW c \in Call, NeedsLogin(c) PROVE Using'
  BY <1>11 DEF TypeOK, Using, NeedsLogin, Spend, Goto, managerVars, closerVars
<1>12. ASSUME NEW c \in Call, Kept(c) PROVE Using'
  BY <1>12, TargetAssumption, NoneAssumption DEF TypeOK, Making, Using, Closing, Cached,
     Gone, Kept, GoOn, Fetch, Entry, Goto, managerVars, closerVars, ghostVars
<1>13. ASSUME NEW c \in Call, Drop(c) PROVE Using'
  BY <1>13 DEF TypeOK, Using, Drop, Entry, Evict, Goto, Turns, closerVars, ghostVars
<1>14. ASSUME NEW c \in Call, Dropped(c) PROVE Using'
  BY <1>14, TargetAssumption, NoneAssumption DEF TypeOK, Making, Using, Closing, Cached,
     Gone, Dropped, GoOn, Fetch, Entry, Goto, Turns, managerVars, closerVars, ghostVars
<1>15. ASSUME NEW c \in Call, DropFails(c) PROVE Using'
  BY <1>15 DEF TypeOK, Using, DropFails, Spend, Goto, Turns, managerVars, closerVars,
     ghostVars
<1>16. ASSUME NEW c \in Call, Cancel(c) PROVE Using'
  BY <1>16 DEF TypeOK, Using, Cancel, Release, Spend, Ended, Goto, Turns, closerVars,
     ghostVars
<1>17. ASSUME Cleanup PROVE Using'
  BY <1>17 DEF TypeOK, Using, Cleanup, Spend, callVars, ghostVars
<1>18. ASSUME NEW n \in Name, CloserDrops(n) PROVE Using'
  BY <1>18 DEF TypeOK, Using, CloserDrops, Evict, Turns, callVars, ghostVars
<1>19. ASSUME NEW n \in Name, CloserIdles(n) PROVE Using'
  BY <1>19 DEF TypeOK, Using, CloserIdles, managerVars, callVars, ghostVars
<1>20. ASSUME NEW n \in Name, CloserEnds(n) PROVE Using'
  BY <1>20 DEF TypeOK, Using, CloserEnds, Turns, managerVars, callVars, ghostVars
<1>21. ASSUME NEW n \in Name, CloserTimesOut(n) PROVE Using'
  BY <1>21 DEF TypeOK, Using, CloserTimesOut, Turns, managerVars, callVars, ghostVars
<1>22. ASSUME NEW s \in Session, Break(s) PROVE Using'
  BY <1>22 DEF TypeOK, Using, Break, Spend, Turns, managerVars, callVars, closerVars,
     ghostVars
<1>23. ASSUME NEW s \in Session, Hang(s) PROVE Using'
  BY <1>23 DEF TypeOK, Using, Hang, Spend, Turns, managerVars, callVars, closerVars,
     ghostVars
<1> QED
  BY <1>1, <1>2, <1>3, <1>4, <1>5, <1>6, <1>7, <1>8, <1>9, <1>10, <1>11, <1>12, <1>13, <1>14,
     <1>15, <1>16, <1>17, <1>18, <1>19, <1>20, <1>21, <1>22, <1>23
  DEF Next, Steps, CloserSteps

LEMMA ClosingStep ==
  ASSUME TypeOK, Making, Using, Closing, Cached, Next
  PROVE  Closing'
<1>1. ASSUME NEW c \in Call, Begin(c) PROVE Closing'
  BY <1>1 DEF TypeOK, Closing, Begin, Fetch, Entry, Goto, managerVars, closerVars,
     ghostVars
<1>2. ASSUME NEW c \in Call, Found(c) PROVE Closing'
  BY <1>2 DEF TypeOK, Closing, Found, Fetch, Entry, Goto, managerVars, closerVars,
     ghostVars
<1>3. ASSUME NEW c \in Call, Refused(c) PROVE Closing'
  BY <1>3 DEF TypeOK, Closing, Refused, Entry, Goto, managerVars, closerVars, ghostVars
<1>4. ASSUME NEW c \in Call, NEW s \in Session, Create(c, s) PROVE Closing'
  BY <1>4 DEF TypeOK, Making, Using, Closing, Cached, Gone, Create, Entry, Goto, Turns,
     closerVars
<1>5. ASSUME NEW c \in Call, Created(c) PROVE Closing'
  BY <1>5 DEF TypeOK, Making, Using, Closing, Cached, Gone, Created, Release, Goto, Turns,
     closerVars, ghostVars
<1>6. ASSUME NEW c \in Call, CreateFails(c) PROVE Closing'
  BY <1>6 DEF TypeOK, Making, Using, Closing, Cached, Gone, CreateFails, Spend, Goto,
     Turns, managerVars, closerVars, ghostVars
<1>7. ASSUME NEW c \in Call, Undone(c) PROVE Closing'
  BY <1>7 DEF TypeOK, Making, Using, Closing, Cached, Gone, Undone, Release, Goto, Turns,
     closerVars, ghostVars
<1>8. ASSUME NEW c \in Call, Answered(c) PROVE Closing'
  BY <1>8 DEF TypeOK, Closing, Answered, Goto, managerVars, closerVars, ghostVars
<1>9. ASSUME NEW c \in Call, Dead(c) PROVE Closing'
  BY <1>9 DEF TypeOK, Closing, Dead, Goto, managerVars, closerVars
<1>10. ASSUME NEW c \in Call, RetryFails(c) PROVE Closing'
  BY <1>10 DEF TypeOK, Closing, RetryFails, Spend, Goto, managerVars, closerVars
<1>11. ASSUME NEW c \in Call, NeedsLogin(c) PROVE Closing'
  BY <1>11 DEF TypeOK, Closing, NeedsLogin, Spend, Goto, managerVars, closerVars
<1>12. ASSUME NEW c \in Call, Kept(c) PROVE Closing'
  BY <1>12 DEF TypeOK, Closing, Kept, GoOn, Fetch, Entry, Goto, managerVars, closerVars,
     ghostVars
<1>13. ASSUME NEW c \in Call, Drop(c) PROVE Closing'
  BY <1>13 DEF TypeOK, Making, Using, Closing, Cached, Gone, Drop, Entry, Evict, Goto,
     Turns, closerVars, ghostVars
<1>14. ASSUME NEW c \in Call, Dropped(c) PROVE Closing'
  BY <1>14 DEF TypeOK, Making, Using, Closing, Cached, Gone, Dropped, GoOn, Fetch, Entry,
     Goto, Turns, managerVars, closerVars, ghostVars
<1>15. ASSUME NEW c \in Call, DropFails(c) PROVE Closing'
  BY <1>15 DEF TypeOK, Making, Using, Closing, Cached, Gone, DropFails, Spend, Goto, Turns,
     managerVars, closerVars, ghostVars
<1>16. ASSUME NEW c \in Call, Cancel(c) PROVE Closing'
  BY <1>16 DEF TypeOK, Making, Using, Closing, Cached, Gone, Cancel, Release, Spend, Ended,
     Goto, Turns, closerVars, ghostVars
<1>17. ASSUME Cleanup PROVE Closing'
  BY <1>17 DEF TypeOK, Closing, Cleanup, Spend, callVars, ghostVars
<1>18. ASSUME NEW n \in Name, CloserDrops(n) PROVE Closing'
  BY <1>18 DEF TypeOK, Making, Using, Closing, Cached, Gone, CloserDrops, Evict, Turns,
     callVars, ghostVars
<1>19. ASSUME NEW n \in Name, CloserIdles(n) PROVE Closing'
  BY <1>19 DEF TypeOK, Closing, CloserIdles, managerVars, callVars, ghostVars
<1>20. ASSUME NEW n \in Name, CloserEnds(n) PROVE Closing'
  BY <1>20 DEF TypeOK, Making, Using, Closing, Cached, Gone, CloserEnds, Turns,
     managerVars, callVars, ghostVars
<1>21. ASSUME NEW n \in Name, CloserTimesOut(n) PROVE Closing'
  BY <1>21 DEF TypeOK, Making, Using, Closing, Cached, Gone, CloserTimesOut, Turns,
     managerVars, callVars, ghostVars
<1>22. ASSUME NEW s \in Session, Break(s) PROVE Closing'
  BY <1>22 DEF TypeOK, Making, Using, Closing, Cached, Gone, Break, Spend, Turns,
     managerVars, callVars, closerVars, ghostVars
<1>23. ASSUME NEW s \in Session, Hang(s) PROVE Closing'
  BY <1>23 DEF TypeOK, Making, Using, Closing, Cached, Gone, Hang, Spend, Turns,
     managerVars, callVars, closerVars, ghostVars
<1> QED
  BY <1>1, <1>2, <1>3, <1>4, <1>5, <1>6, <1>7, <1>8, <1>9, <1>10, <1>11, <1>12, <1>13, <1>14,
     <1>15, <1>16, <1>17, <1>18, <1>19, <1>20, <1>21, <1>22, <1>23
  DEF Next, Steps, CloserSteps

LEMMA CachedStep ==
  ASSUME TypeOK, Locked, Making, Using, Closing, Cached, Next
  PROVE  Cached'
<1>1. ASSUME NEW c \in Call, Begin(c) PROVE Cached'
  BY <1>1 DEF TypeOK, Cached, Begin, Fetch, Entry, Goto, managerVars, closerVars,
     ghostVars
<1>2. ASSUME NEW c \in Call, Found(c) PROVE Cached'
  BY <1>2 DEF TypeOK, Cached, Found, Fetch, Entry, Goto, managerVars, closerVars,
     ghostVars
<1>3. ASSUME NEW c \in Call, Refused(c) PROVE Cached'
  BY <1>3 DEF TypeOK, Cached, Refused, Entry, Goto, managerVars, closerVars, ghostVars
<1>4. ASSUME NEW c \in Call, NEW s \in Session, Create(c, s) PROVE Cached'
  BY <1>4 DEF TypeOK, Cached, Create, Entry, Goto, Turns, closerVars
<1>5. ASSUME NEW c \in Call, Created(c) PROVE Cached'
  <2> DEFINE k == on[c]
             n == Target[c]
  <2>1. k \in Session /\ state[k] = "opening" /\ host[k] = n /\ n \in Name /\ entries[n] = None
    BY <1>5, TargetAssumption DEF Created, Making, Locked
  <2>2. state' = [state EXCEPT ![k] = "open"] /\ entries' = [entries EXCEPT ![n] = k] /\ host' = host
    BY <1>5 DEF Created, Turns, ghostVars
  <2> HIDE DEF k, n
  <2>3. \A m \in Name : entries'[m] # None =>
          entries'[m] \in Session /\ host[entries'[m]] = m /\ state'[entries'[m]] \in {"open", "broken"}
    BY <2>1, <2>2 DEF TypeOK, Cached
  <2>4. \A s \in Session : state'[s] \in {"open", "broken"} =>
          host[s] \in Name /\ entries'[host[s]] = s
    <3> SUFFICES ASSUME NEW s \in Session, state'[s] \in {"open", "broken"}
                 PROVE  host[s] \in Name /\ entries'[host[s]] = s
      OBVIOUS
    <3>1. ASSUME s = k PROVE host[s] \in Name /\ entries'[host[s]] = s
      BY <2>1, <2>2, <3>1 DEF TypeOK
    <3>2. ASSUME s # k PROVE host[s] \in Name /\ entries'[host[s]] = s
      <4>1. host[s] \in Name /\ entries[host[s]] = s
        BY <2>1, <2>2, <3>2 DEF TypeOK, Cached
      <4>2. host[s] # n
        BY <2>1, <4>1, NoneAssumption
      <4> QED
        BY <2>1, <2>2, <4>1, <4>2 DEF TypeOK
    <3> QED
      BY <3>1, <3>2
  <2> QED
    BY <2>2, <2>3, <2>4 DEF Cached
<1>6. ASSUME NEW c \in Call, CreateFails(c) PROVE Cached'
  BY <1>6 DEF TypeOK, Locked, Making, Using, Closing, Cached, Gone, CreateFails, Spend,
     Goto, Turns, managerVars, closerVars, ghostVars
<1>7. ASSUME NEW c \in Call, Undone(c) PROVE Cached'
  BY <1>7 DEF TypeOK, Locked, Making, Using, Closing, Cached, Gone, Undone, Release, Goto,
     Turns, closerVars, ghostVars
<1>8. ASSUME NEW c \in Call, Answered(c) PROVE Cached'
  BY <1>8 DEF TypeOK, Cached, Answered, Goto, managerVars, closerVars, ghostVars
<1>9. ASSUME NEW c \in Call, Dead(c) PROVE Cached'
  BY <1>9 DEF TypeOK, Cached, Dead, Goto, managerVars, closerVars
<1>10. ASSUME NEW c \in Call, RetryFails(c) PROVE Cached'
  BY <1>10 DEF TypeOK, Cached, RetryFails, Spend, Goto, managerVars, closerVars
<1>11. ASSUME NEW c \in Call, NeedsLogin(c) PROVE Cached'
  BY <1>11 DEF TypeOK, Cached, NeedsLogin, Spend, Goto, managerVars, closerVars
<1>12. ASSUME NEW c \in Call, Kept(c) PROVE Cached'
  BY <1>12 DEF TypeOK, Cached, Kept, GoOn, Fetch, Entry, Goto, managerVars, closerVars,
     ghostVars
<1>13. ASSUME NEW c \in Call, Drop(c) PROVE Cached'
  <2> DEFINE k == on[c]
             n == Target[c]
  <2>1. k \in Session /\ n \in Name /\ entries[n] = k /\ k # None /\ host[k] = n
    BY <1>13, TargetAssumption, NoneAssumption DEF Drop, Entry, Using, Cached
  <2>2. state' = [state EXCEPT ![k] = "closing"] /\ entries' = [entries EXCEPT ![n] = None] /\ host' = host
    BY <1>13 DEF Drop, Turns, Evict, ghostVars
  <2> HIDE DEF k, n
  <2>3. \A m \in Name : entries'[m] # None => entries'[m] = entries[m] /\ entries[m] # k
    BY <2>1, <2>2 DEF TypeOK, Cached
  <2>4. \A m \in Name : entries'[m] # None =>
          entries'[m] \in Session /\ host[entries'[m]] = m /\ state'[entries'[m]] \in {"open", "broken"}
    BY <2>2, <2>3 DEF TypeOK, Cached
  <2>5. \A s \in Session : state'[s] \in {"open", "broken"} =>
          host[s] \in Name /\ entries[host[s]] = s /\ s # k
    BY <2>1, <2>2 DEF TypeOK, Cached
  <2>6. \A s \in Session : state'[s] \in {"open", "broken"} =>
          host[s] \in Name /\ entries'[host[s]] = s
    BY <2>1, <2>2, <2>5 DEF TypeOK
  <2> QED
    BY <2>2, <2>4, <2>6 DEF Cached
<1>14. ASSUME NEW c \in Call, Dropped(c) PROVE Cached'
  BY <1>14 DEF TypeOK, Cached, Dropped, GoOn, Fetch, Entry, Goto, Turns, managerVars,
     closerVars, ghostVars
<1>15. ASSUME NEW c \in Call, DropFails(c) PROVE Cached'
  BY <1>15 DEF TypeOK, Cached, DropFails, Spend, Goto, Turns, managerVars, closerVars,
     ghostVars
<1>16. ASSUME NEW c \in Call, Cancel(c) PROVE Cached'
  BY <1>16 DEF TypeOK, Locked, Making, Using, Closing, Cached, Gone, Cancel, Release,
     Spend, Ended, Goto, Turns, closerVars, ghostVars
<1>17. ASSUME Cleanup PROVE Cached'
  BY <1>17 DEF TypeOK, Cached, Cleanup, Spend, callVars, ghostVars
<1>18. ASSUME NEW n \in Name, CloserDrops(n) PROVE Cached'
  BY <1>18 DEF TypeOK, Cached, CloserDrops, Evict, Turns, callVars, ghostVars
<1>19. ASSUME NEW n \in Name, CloserIdles(n) PROVE Cached'
  BY <1>19 DEF TypeOK, Cached, CloserIdles, managerVars, callVars, ghostVars
<1>20. ASSUME NEW n \in Name, CloserEnds(n) PROVE Cached'
  BY <1>20 DEF TypeOK, Cached, CloserEnds, Turns, managerVars, callVars, ghostVars
<1>21. ASSUME NEW n \in Name, CloserTimesOut(n) PROVE Cached'
  BY <1>21 DEF TypeOK, Locked, Making, Using, Closing, Cached, Gone, CloserTimesOut, Turns,
     managerVars, callVars, ghostVars
<1>22. ASSUME NEW s \in Session, Break(s) PROVE Cached'
  BY <1>22 DEF TypeOK, Cached, Break, Spend, Turns, managerVars, callVars, closerVars,
     ghostVars
<1>23. ASSUME NEW s \in Session, Hang(s) PROVE Cached'
  BY <1>23 DEF TypeOK, Cached, Hang, Spend, Turns, managerVars, callVars, closerVars,
     ghostVars
<1> QED
  BY <1>1, <1>2, <1>3, <1>4, <1>5, <1>6, <1>7, <1>8, <1>9, <1>10, <1>11, <1>12, <1>13, <1>14,
     <1>15, <1>16, <1>17, <1>18, <1>19, <1>20, <1>21, <1>22, <1>23
  DEF Next, Steps, CloserSteps

LEMMA TendedStep ==
  ASSUME TypeOK, Locked, Making, Using, Closing, Cached, Tended, Shut, Next
  PROVE  Tended'
<1>1. ASSUME NEW c \in Call, Begin(c) PROVE Tended'
  BY <1>1 DEF TypeOK, Tended, Begin, Fetch, Entry, Goto, managerVars, closerVars,
     ghostVars
<1>2. ASSUME NEW c \in Call, Found(c) PROVE Tended'
  <2>1. state' = state /\ victim' = victim /\ closer' = closer /\ pc[c] = "getting"
    BY <1>2 DEF Found, closerVars
  <2>2. \A d \in Call \ {c} : pc'[d] = pc[d] /\ on'[d] = on[d]
    BY <1>2 DEF Found, Fetch, Goto, TypeOK
  <2> QED
    BY <2>1, <2>2 DEF Tended
<1>3. ASSUME NEW c \in Call, Refused(c) PROVE Tended'
  BY <1>3 DEF TypeOK, Tended, Refused, Entry, Goto, managerVars, closerVars, ghostVars
<1>4. ASSUME NEW c \in Call, NEW s \in Session, Create(c, s) PROVE Tended'
  BY <1>4 DEF TypeOK, Tended, Create, Entry, Goto, Turns, closerVars
<1>5. ASSUME NEW c \in Call, Created(c) PROVE Tended'
  BY <1>5 DEF TypeOK, Tended, Created, Release, Goto, Turns, closerVars, ghostVars
<1>6. ASSUME NEW c \in Call, CreateFails(c) PROVE Tended'
  BY <1>6 DEF TypeOK, Tended, CreateFails, Spend, Goto, Turns, managerVars, closerVars,
     ghostVars
<1>7. ASSUME NEW c \in Call, Undone(c) PROVE Tended'
  BY <1>7 DEF TypeOK, Tended, Undone, Release, Goto, Turns, closerVars, ghostVars
<1>8. ASSUME NEW c \in Call, Answered(c) PROVE Tended'
  BY <1>8 DEF TypeOK, Tended, Answered, Goto, managerVars, closerVars, ghostVars
<1>9. ASSUME NEW c \in Call, Dead(c) PROVE Tended'
  BY <1>9 DEF TypeOK, Tended, Dead, Goto, managerVars, closerVars
<1>10. ASSUME NEW c \in Call, RetryFails(c) PROVE Tended'
  BY <1>10 DEF TypeOK, Tended, RetryFails, Spend, Goto, managerVars, closerVars
<1>11. ASSUME NEW c \in Call, NeedsLogin(c) PROVE Tended'
  BY <1>11 DEF TypeOK, Tended, NeedsLogin, Spend, Goto, managerVars, closerVars
<1>12. ASSUME NEW c \in Call, Kept(c) PROVE Tended'
  BY <1>12 DEF TypeOK, Tended, Kept, GoOn, Fetch, Entry, Goto, managerVars, closerVars,
     ghostVars
<1>13. ASSUME NEW c \in Call, Drop(c) PROVE Tended'
  BY <1>13 DEF TypeOK, Tended, Drop, Entry, Evict, Goto, Turns, closerVars, ghostVars
<1>14. ASSUME NEW c \in Call, Dropped(c) PROVE Tended'
  BY <1>14 DEF TypeOK, Tended, Dropped, GoOn, Fetch, Entry, Goto, Turns, managerVars,
     closerVars, ghostVars
<1>15. ASSUME NEW c \in Call, DropFails(c) PROVE Tended'
  BY <1>15 DEF TypeOK, Tended, DropFails, Spend, Goto, Turns, managerVars, closerVars,
     ghostVars
<1>16. ASSUME NEW c \in Call, Cancel(c) PROVE Tended'
  BY <1>16 DEF TypeOK, Tended, Cancel, Release, Spend, Ended, Goto, Turns, closerVars,
     ghostVars
<1>17. ASSUME Cleanup PROVE Tended'
  <2>1. state' = state /\ pc' = pc /\ on' = on /\ victim' = victim
    BY <1>17 DEF Cleanup, callVars
  <2>2. \A n \in Name : closer[n] = "idle"
    BY <1>17 DEF Cleanup, Shut, TypeOK
  <2> QED
    BY <2>1, <2>2 DEF Tended
<1>18. ASSUME NEW n \in Name, CloserDrops(n) PROVE Tended'
  BY <1>18 DEF TypeOK, Tended, CloserDrops, Evict, Turns, callVars, ghostVars
<1>19. ASSUME NEW n \in Name, CloserIdles(n) PROVE Tended'
  BY <1>19 DEF TypeOK, Tended, CloserIdles, managerVars, callVars, ghostVars
<1>20. ASSUME NEW n \in Name, CloserEnds(n) PROVE Tended'
  BY <1>20 DEF TypeOK, Tended, CloserEnds, Turns, managerVars, callVars, ghostVars
<1>21. ASSUME NEW n \in Name, CloserTimesOut(n) PROVE Tended'
  BY <1>21 DEF TypeOK, Tended, CloserTimesOut, Turns, managerVars, callVars, ghostVars
<1>22. ASSUME NEW s \in Session, Break(s) PROVE Tended'
  BY <1>22 DEF TypeOK, Tended, Break, Spend, Turns, managerVars, callVars, closerVars,
     ghostVars
<1>23. ASSUME NEW s \in Session, Hang(s) PROVE Tended'
  BY <1>23 DEF TypeOK, Tended, Hang, Spend, Turns, managerVars, callVars, closerVars,
     ghostVars
<1> QED
  BY <1>1, <1>2, <1>3, <1>4, <1>5, <1>6, <1>7, <1>8, <1>9, <1>10, <1>11, <1>12, <1>13, <1>14,
     <1>15, <1>16, <1>17, <1>18, <1>19, <1>20, <1>21, <1>22, <1>23
  DEF Next, Steps, CloserSteps

LEMMA BlamedStep ==
  ASSUME TypeOK, Making, Using, Closing, Cached, Blamed, Next
  PROVE  Blamed'
<1>1. ASSUME NEW c \in Call, Begin(c) PROVE Blamed'
  BY <1>1 DEF TypeOK, Blamed, Begin, Fetch, Entry, Goto, managerVars, closerVars,
     ghostVars
<1>2. ASSUME NEW c \in Call, Found(c) PROVE Blamed'
  BY <1>2 DEF TypeOK, Blamed, Found, Fetch, Entry, Goto, managerVars, closerVars,
     ghostVars
<1>3. ASSUME NEW c \in Call, Refused(c) PROVE Blamed'
  BY <1>3 DEF TypeOK, Blamed, Refused, Entry, Goto, managerVars, closerVars, ghostVars
<1>4. ASSUME NEW c \in Call, NEW s \in Session, Create(c, s) PROVE Blamed'
  BY <1>4 DEF TypeOK, Blamed, Create, Entry, Goto, Turns, closerVars
<1>5. ASSUME NEW c \in Call, Created(c) PROVE Blamed'
  BY <1>5 DEF TypeOK, Blamed, Created, Release, Goto, Turns, closerVars, ghostVars
<1>6. ASSUME NEW c \in Call, CreateFails(c) PROVE Blamed'
  BY <1>6 DEF TypeOK, Blamed, CreateFails, Spend, Goto, Turns, managerVars, closerVars,
     ghostVars
<1>7. ASSUME NEW c \in Call, Undone(c) PROVE Blamed'
  BY <1>7 DEF TypeOK, Blamed, Undone, Release, Goto, Turns, closerVars, ghostVars
<1>8. ASSUME NEW c \in Call, Answered(c) PROVE Blamed'
  BY <1>8 DEF TypeOK, Blamed, Answered, Goto, managerVars, closerVars, ghostVars
<1>9. ASSUME NEW c \in Call, Dead(c) PROVE Blamed'
  BY <1>9 DEF TypeOK, Making, Using, Closing, Cached, Blamed, Gone, Dead, Goto,
     managerVars, closerVars
<1>10. ASSUME NEW c \in Call, RetryFails(c) PROVE Blamed'
  BY <1>10 DEF TypeOK, Blamed, RetryFails, Spend, Goto, managerVars, closerVars
<1>11. ASSUME NEW c \in Call, NeedsLogin(c) PROVE Blamed'
  BY <1>11 DEF TypeOK, Making, Using, Closing, Cached, Blamed, Gone, NeedsLogin, Spend,
     Goto, managerVars, closerVars
<1>12. ASSUME NEW c \in Call, Kept(c) PROVE Blamed'
  BY <1>12 DEF TypeOK, Blamed, Kept, GoOn, Fetch, Entry, Goto, managerVars, closerVars,
     ghostVars
<1>13. ASSUME NEW c \in Call, Drop(c) PROVE Blamed'
  BY <1>13 DEF TypeOK, Blamed, Drop, Entry, Evict, Goto, Turns, closerVars, ghostVars
<1>14. ASSUME NEW c \in Call, Dropped(c) PROVE Blamed'
  BY <1>14 DEF TypeOK, Blamed, Dropped, GoOn, Fetch, Entry, Goto, Turns, managerVars,
     closerVars, ghostVars
<1>15. ASSUME NEW c \in Call, DropFails(c) PROVE Blamed'
  BY <1>15 DEF TypeOK, Blamed, DropFails, Spend, Goto, Turns, managerVars, closerVars,
     ghostVars
<1>16. ASSUME NEW c \in Call, Cancel(c) PROVE Blamed'
  BY <1>16 DEF TypeOK, Blamed, Cancel, Release, Spend, Ended, Goto, Turns, closerVars,
     ghostVars
<1>17. ASSUME Cleanup PROVE Blamed'
  BY <1>17 DEF TypeOK, Blamed, Cleanup, Spend, callVars, ghostVars
<1>18. ASSUME NEW n \in Name, CloserDrops(n) PROVE Blamed'
  BY <1>18 DEF TypeOK, Blamed, CloserDrops, Evict, Turns, callVars, ghostVars
<1>19. ASSUME NEW n \in Name, CloserIdles(n) PROVE Blamed'
  BY <1>19 DEF TypeOK, Blamed, CloserIdles, managerVars, callVars, ghostVars
<1>20. ASSUME NEW n \in Name, CloserEnds(n) PROVE Blamed'
  BY <1>20 DEF TypeOK, Blamed, CloserEnds, Turns, managerVars, callVars, ghostVars
<1>21. ASSUME NEW n \in Name, CloserTimesOut(n) PROVE Blamed'
  BY <1>21 DEF TypeOK, Blamed, CloserTimesOut, Turns, managerVars, callVars, ghostVars
<1>22. ASSUME NEW s \in Session, Break(s) PROVE Blamed'
  BY <1>22 DEF TypeOK, Blamed, Break, Spend, Turns, managerVars, callVars, closerVars,
     ghostVars
<1>23. ASSUME NEW s \in Session, Hang(s) PROVE Blamed'
  BY <1>23 DEF TypeOK, Blamed, Hang, Spend, Turns, managerVars, callVars, closerVars,
     ghostVars
<1> QED
  BY <1>1, <1>2, <1>3, <1>4, <1>5, <1>6, <1>7, <1>8, <1>9, <1>10, <1>11, <1>12, <1>13, <1>14,
     <1>15, <1>16, <1>17, <1>18, <1>19, <1>20, <1>21, <1>22, <1>23
  DEF Next, Steps, CloserSteps

LEMMA DroppingStep ==
  ASSUME TypeOK, Making, Using, Closing, Cached, Blamed, Dropping, FailedIsGone, Next
  PROVE  Dropping'
<1>1. ASSUME NEW c \in Call, Begin(c) PROVE Dropping'
  BY <1>1 DEF TypeOK, Dropping, Begin, Fetch, Entry, Goto, managerVars, closerVars,
     ghostVars
<1>2. ASSUME NEW c \in Call, Found(c) PROVE Dropping'
  BY <1>2 DEF TypeOK, Dropping, Found, Fetch, Entry, Goto, managerVars, closerVars,
     ghostVars
<1>3. ASSUME NEW c \in Call, Refused(c) PROVE Dropping'
  BY <1>3 DEF TypeOK, Dropping, Refused, Entry, Goto, managerVars, closerVars, ghostVars
<1>4. ASSUME NEW c \in Call, NEW s \in Session, Create(c, s) PROVE Dropping'
  BY <1>4 DEF TypeOK, Dropping, Create, Entry, Goto, Turns, closerVars
<1>5. ASSUME NEW c \in Call, Created(c) PROVE Dropping'
  BY <1>5 DEF TypeOK, Making, Using, Closing, Cached, Blamed, Dropping, FailedIsGone, Gone,
     Created, Release, Goto, Turns, closerVars, ghostVars
<1>6. ASSUME NEW c \in Call, CreateFails(c) PROVE Dropping'
  BY <1>6 DEF TypeOK, Dropping, CreateFails, Spend, Goto, Turns, managerVars, closerVars,
     ghostVars
<1>7. ASSUME NEW c \in Call, Undone(c) PROVE Dropping'
  BY <1>7 DEF TypeOK, Dropping, Undone, Release, Goto, Turns, closerVars, ghostVars
<1>8. ASSUME NEW c \in Call, Answered(c) PROVE Dropping'
  BY <1>8 DEF TypeOK, Dropping, Answered, Goto, managerVars, closerVars, ghostVars
<1>9. ASSUME NEW c \in Call, Dead(c) PROVE Dropping'
  BY <1>9 DEF TypeOK, Making, Using, Closing, Cached, Blamed, Dropping, FailedIsGone, Gone,
     Dead, Goto, managerVars, closerVars
<1>10. ASSUME NEW c \in Call, RetryFails(c) PROVE Dropping'
  BY <1>10 DEF TypeOK, Making, Using, Closing, Cached, Blamed, Dropping, FailedIsGone,
     Gone, RetryFails, Spend, Goto, managerVars, closerVars
<1>11. ASSUME NEW c \in Call, NeedsLogin(c) PROVE Dropping'
  BY <1>11 DEF TypeOK, Making, Using, Closing, Cached, Blamed, Dropping, FailedIsGone,
     Gone, NeedsLogin, Spend, Goto, managerVars, closerVars
<1>12. ASSUME NEW c \in Call, Kept(c) PROVE Dropping'
  BY <1>12 DEF TypeOK, Dropping, Kept, GoOn, Fetch, Entry, Goto, managerVars, closerVars,
     ghostVars
<1>13. ASSUME NEW c \in Call, Drop(c) PROVE Dropping'
  BY <1>13, TargetAssumption, NoneAssumption DEF TypeOK, Dropping, Drop, Entry, Evict,
     Goto, Turns, closerVars, ghostVars
<1>14. ASSUME NEW c \in Call, Dropped(c) PROVE Dropping'
  BY <1>14 DEF TypeOK, Dropping, Dropped, GoOn, Fetch, Entry, Goto, Turns, managerVars,
     closerVars, ghostVars
<1>15. ASSUME NEW c \in Call, DropFails(c) PROVE Dropping'
  BY <1>15 DEF TypeOK, Dropping, DropFails, Spend, Goto, Turns, managerVars, closerVars,
     ghostVars
<1>16. ASSUME NEW c \in Call, Cancel(c) PROVE Dropping'
  BY <1>16 DEF TypeOK, Dropping, Cancel, Release, Spend, Ended, Goto, Turns, closerVars,
     ghostVars
<1>17. ASSUME Cleanup PROVE Dropping'
  BY <1>17 DEF TypeOK, Dropping, Cleanup, Spend, callVars, ghostVars
<1>18. ASSUME NEW n \in Name, CloserDrops(n) PROVE Dropping'
  BY <1>18, TargetAssumption, NoneAssumption DEF TypeOK, Dropping, CloserDrops, Evict,
     Turns, callVars, ghostVars
<1>19. ASSUME NEW n \in Name, CloserIdles(n) PROVE Dropping'
  BY <1>19 DEF TypeOK, Dropping, CloserIdles, managerVars, callVars, ghostVars
<1>20. ASSUME NEW n \in Name, CloserEnds(n) PROVE Dropping'
  BY <1>20 DEF TypeOK, Dropping, CloserEnds, Turns, managerVars, callVars, ghostVars
<1>21. ASSUME NEW n \in Name, CloserTimesOut(n) PROVE Dropping'
  BY <1>21 DEF TypeOK, Dropping, CloserTimesOut, Turns, managerVars, callVars, ghostVars
<1>22. ASSUME NEW s \in Session, Break(s) PROVE Dropping'
  BY <1>22 DEF TypeOK, Dropping, Break, Spend, Turns, managerVars, callVars, closerVars,
     ghostVars
<1>23. ASSUME NEW s \in Session, Hang(s) PROVE Dropping'
  BY <1>23 DEF TypeOK, Dropping, Hang, Spend, Turns, managerVars, callVars, closerVars,
     ghostVars
<1> QED
  BY <1>1, <1>2, <1>3, <1>4, <1>5, <1>6, <1>7, <1>8, <1>9, <1>10, <1>11, <1>12, <1>13, <1>14,
     <1>15, <1>16, <1>17, <1>18, <1>19, <1>20, <1>21, <1>22, <1>23
  DEF Next, Steps, CloserSteps

LEMMA FailedStep ==
  ASSUME TypeOK, Making, Using, Closing, Cached, Blamed, Dropping, FailedIsGone, Next
  PROVE  FailedIsGone'
<1>1. ASSUME NEW c \in Call, Begin(c) PROVE FailedIsGone'
  BY <1>1 DEF TypeOK, FailedIsGone, Begin, Fetch, Entry, Goto, managerVars, closerVars,
     ghostVars
<1>2. ASSUME NEW c \in Call, Found(c) PROVE FailedIsGone'
  BY <1>2 DEF TypeOK, FailedIsGone, Found, Fetch, Entry, Goto, managerVars, closerVars,
     ghostVars
<1>3. ASSUME NEW c \in Call, Refused(c) PROVE FailedIsGone'
  BY <1>3 DEF TypeOK, FailedIsGone, Refused, Entry, Goto, managerVars, closerVars,
     ghostVars
<1>4. ASSUME NEW c \in Call, NEW s \in Session, Create(c, s) PROVE FailedIsGone'
  BY <1>4 DEF TypeOK, FailedIsGone, Create, Entry, Goto, Turns, closerVars
<1>5. ASSUME NEW c \in Call, Created(c) PROVE FailedIsGone'
  BY <1>5 DEF TypeOK, Making, Using, Closing, Cached, Blamed, Dropping, FailedIsGone, Gone,
     Created, Release, Goto, Turns, closerVars, ghostVars
<1>6. ASSUME NEW c \in Call, CreateFails(c) PROVE FailedIsGone'
  BY <1>6 DEF TypeOK, FailedIsGone, CreateFails, Spend, Goto, Turns, managerVars,
     closerVars, ghostVars
<1>7. ASSUME NEW c \in Call, Undone(c) PROVE FailedIsGone'
  BY <1>7 DEF TypeOK, FailedIsGone, Undone, Release, Goto, Turns, closerVars, ghostVars
<1>8. ASSUME NEW c \in Call, Answered(c) PROVE FailedIsGone'
  BY <1>8 DEF TypeOK, FailedIsGone, Answered, Goto, managerVars, closerVars, ghostVars
<1>9. ASSUME NEW c \in Call, Dead(c) PROVE FailedIsGone'
  BY <1>9 DEF TypeOK, FailedIsGone, Dead, Goto, managerVars, closerVars
<1>10. ASSUME NEW c \in Call, RetryFails(c) PROVE FailedIsGone'
  BY <1>10 DEF TypeOK, FailedIsGone, RetryFails, Spend, Goto, managerVars, closerVars
<1>11. ASSUME NEW c \in Call, NeedsLogin(c) PROVE FailedIsGone'
  BY <1>11 DEF TypeOK, FailedIsGone, NeedsLogin, Spend, Goto, managerVars, closerVars
<1>12. ASSUME NEW c \in Call, Kept(c) PROVE FailedIsGone'
  BY <1>12 DEF TypeOK, Making, Using, Closing, Cached, Blamed, Dropping, FailedIsGone,
     Gone, Kept, GoOn, Fetch, Entry, Goto, managerVars, closerVars, ghostVars
<1>13. ASSUME NEW c \in Call, Drop(c) PROVE FailedIsGone'
  <2>1. pc' = [pc EXCEPT ![c] = "closing"] /\ entries' = [entries EXCEPT ![Target[c]] = None]
        /\ on' = on /\ failed' = failed
    BY <1>13 DEF Drop, Goto, Evict, ghostVars
  <2>2. \A d \in Call : None \notin failed[d]
    BY NoneAssumption DEF TypeOK
  <2>3. /\ entries'[Target[c]] = None
        /\ \A d \in Call : entries'[Target[d]] \in {None, entries[Target[d]]}
    BY <2>1, TargetAssumption DEF TypeOK
  <2> QED
    BY <2>1, <2>2, <2>3 DEF TypeOK, FailedIsGone
<1>14. ASSUME NEW c \in Call, Dropped(c) PROVE FailedIsGone'
  BY <1>14 DEF TypeOK, FailedIsGone, Dropped, GoOn, Fetch, Entry, Goto, Turns, managerVars,
     closerVars, ghostVars
<1>15. ASSUME NEW c \in Call, DropFails(c) PROVE FailedIsGone'
  BY <1>15 DEF TypeOK, FailedIsGone, DropFails, Spend, Goto, Turns, managerVars,
     closerVars, ghostVars
<1>16. ASSUME NEW c \in Call, Cancel(c) PROVE FailedIsGone'
  BY <1>16 DEF TypeOK, FailedIsGone, Cancel, Release, Spend, Ended, Goto, Turns,
     closerVars, ghostVars
<1>17. ASSUME Cleanup PROVE FailedIsGone'
  BY <1>17 DEF TypeOK, FailedIsGone, Cleanup, Spend, callVars, ghostVars
<1>18. ASSUME NEW n \in Name, CloserDrops(n) PROVE FailedIsGone'
  BY <1>18, TargetAssumption, NoneAssumption DEF TypeOK, FailedIsGone, CloserDrops, Evict,
     Turns, callVars, ghostVars
<1>19. ASSUME NEW n \in Name, CloserIdles(n) PROVE FailedIsGone'
  BY <1>19 DEF TypeOK, FailedIsGone, CloserIdles, managerVars, callVars, ghostVars
<1>20. ASSUME NEW n \in Name, CloserEnds(n) PROVE FailedIsGone'
  BY <1>20 DEF TypeOK, FailedIsGone, CloserEnds, Turns, managerVars, callVars, ghostVars
<1>21. ASSUME NEW n \in Name, CloserTimesOut(n) PROVE FailedIsGone'
  BY <1>21 DEF TypeOK, FailedIsGone, CloserTimesOut, Turns, managerVars, callVars,
     ghostVars
<1>22. ASSUME NEW s \in Session, Break(s) PROVE FailedIsGone'
  BY <1>22 DEF TypeOK, FailedIsGone, Break, Spend, Turns, managerVars, callVars,
     closerVars, ghostVars
<1>23. ASSUME NEW s \in Session, Hang(s) PROVE FailedIsGone'
  BY <1>23 DEF TypeOK, FailedIsGone, Hang, Spend, Turns, managerVars, callVars, closerVars,
     ghostVars
<1> QED
  BY <1>1, <1>2, <1>3, <1>4, <1>5, <1>6, <1>7, <1>8, <1>9, <1>10, <1>11, <1>12, <1>13, <1>14,
     <1>15, <1>16, <1>17, <1>18, <1>19, <1>20, <1>21, <1>22, <1>23
  DEF Next, Steps, CloserSteps

LEMMA ShutStep ==
  ASSUME TypeOK, Shut, Next
  PROVE  Shut'
<1>1. ASSUME NEW c \in Call, Begin(c) PROVE Shut'
  BY <1>1 DEF TypeOK, Shut, Begin, Fetch, Entry, Goto, managerVars, closerVars, ghostVars
<1>2. ASSUME NEW c \in Call, Found(c) PROVE Shut'
  BY <1>2 DEF TypeOK, Shut, Found, Fetch, Entry, Goto, managerVars, closerVars, ghostVars
<1>3. ASSUME NEW c \in Call, Refused(c) PROVE Shut'
  BY <1>3 DEF TypeOK, Shut, Refused, Entry, Goto, managerVars, closerVars, ghostVars
<1>4. ASSUME NEW c \in Call, NEW s \in Session, Create(c, s) PROVE Shut'
  BY <1>4 DEF TypeOK, Shut, Create, Entry, Goto, Turns, closerVars
<1>5. ASSUME NEW c \in Call, Created(c) PROVE Shut'
  BY <1>5 DEF TypeOK, Shut, Created, Release, Goto, Turns, closerVars, ghostVars
<1>6. ASSUME NEW c \in Call, CreateFails(c) PROVE Shut'
  BY <1>6 DEF TypeOK, Shut, CreateFails, Spend, Goto, Turns, managerVars, closerVars,
     ghostVars
<1>7. ASSUME NEW c \in Call, Undone(c) PROVE Shut'
  BY <1>7 DEF TypeOK, Shut, Undone, Release, Goto, Turns, closerVars, ghostVars
<1>8. ASSUME NEW c \in Call, Answered(c) PROVE Shut'
  BY <1>8 DEF TypeOK, Shut, Answered, Goto, managerVars, closerVars, ghostVars
<1>9. ASSUME NEW c \in Call, Dead(c) PROVE Shut'
  BY <1>9 DEF TypeOK, Shut, Dead, Goto, managerVars, closerVars
<1>10. ASSUME NEW c \in Call, RetryFails(c) PROVE Shut'
  BY <1>10 DEF TypeOK, Shut, RetryFails, Spend, Goto, managerVars, closerVars
<1>11. ASSUME NEW c \in Call, NeedsLogin(c) PROVE Shut'
  BY <1>11 DEF TypeOK, Shut, NeedsLogin, Spend, Goto, managerVars, closerVars
<1>12. ASSUME NEW c \in Call, Kept(c) PROVE Shut'
  BY <1>12 DEF TypeOK, Shut, Kept, GoOn, Fetch, Entry, Goto, managerVars, closerVars,
     ghostVars
<1>13. ASSUME NEW c \in Call, Drop(c) PROVE Shut'
  BY <1>13 DEF TypeOK, Shut, Drop, Entry, Evict, Goto, Turns, closerVars, ghostVars
<1>14. ASSUME NEW c \in Call, Dropped(c) PROVE Shut'
  BY <1>14 DEF TypeOK, Shut, Dropped, GoOn, Fetch, Entry, Goto, Turns, managerVars,
     closerVars, ghostVars
<1>15. ASSUME NEW c \in Call, DropFails(c) PROVE Shut'
  BY <1>15 DEF TypeOK, Shut, DropFails, Spend, Goto, Turns, managerVars, closerVars,
     ghostVars
<1>16. ASSUME NEW c \in Call, Cancel(c) PROVE Shut'
  BY <1>16 DEF TypeOK, Shut, Cancel, Release, Spend, Ended, Goto, Turns, closerVars,
     ghostVars
<1>17. ASSUME Cleanup PROVE Shut'
  BY <1>17 DEF TypeOK, Shut, Cleanup, Spend, callVars, ghostVars
<1>18. ASSUME NEW n \in Name, CloserDrops(n) PROVE Shut'
  BY <1>18 DEF TypeOK, Shut, CloserDrops, Evict, Turns, callVars, ghostVars
<1>19. ASSUME NEW n \in Name, CloserIdles(n) PROVE Shut'
  BY <1>19 DEF TypeOK, Shut, CloserIdles, managerVars, callVars, ghostVars
<1>20. ASSUME NEW n \in Name, CloserEnds(n) PROVE Shut'
  BY <1>20 DEF TypeOK, Shut, CloserEnds, Turns, managerVars, callVars, ghostVars
<1>21. ASSUME NEW n \in Name, CloserTimesOut(n) PROVE Shut'
  BY <1>21 DEF TypeOK, Shut, CloserTimesOut, Turns, managerVars, callVars, ghostVars
<1>22. ASSUME NEW s \in Session, Break(s) PROVE Shut'
  BY <1>22 DEF TypeOK, Shut, Break, Spend, Turns, managerVars, callVars, closerVars,
     ghostVars
<1>23. ASSUME NEW s \in Session, Hang(s) PROVE Shut'
  BY <1>23 DEF TypeOK, Shut, Hang, Spend, Turns, managerVars, callVars, closerVars,
     ghostVars
<1> QED
  BY <1>1, <1>2, <1>3, <1>4, <1>5, <1>6, <1>7, <1>8, <1>9, <1>10, <1>11, <1>12, <1>13, <1>14,
     <1>15, <1>16, <1>17, <1>18, <1>19, <1>20, <1>21, <1>22, <1>23
  DEF Next, Steps, CloserSteps

----------------------------------------------------------------------------
(* What follows *)

LEMMA Stutter ==
  ASSUME IInv, UNCHANGED vars
  PROVE  IInv'
<1> USE DEF vars, managerVars, callVars, closerVars, ghostVars
<1>1. TypeOK' /\ Locked' /\ Making' /\ Using' /\ Closing'
  BY DEF IInv, TypeOK, Locked, Making, Using, Closing, Gone
<1>2. Cached' /\ Tended' /\ Blamed' /\ Dropping' /\ FailedIsGone' /\ Shut'
  BY DEF IInv, Cached, Tended, Blamed, Dropping, FailedIsGone, Shut
<1> QED
  BY <1>1, <1>2 DEF IInv

THEOREM Inductive ==
  ASSUME IInv, [Next]_vars
  PROVE  IInv'
<1>1. ASSUME Next PROVE IInv'
  BY <1>1, TypeStep, LockedStep, MakingStep, UsingStep, ClosingStep, CachedStep, TendedStep,
     BlamedStep, DroppingStep, FailedStep, ShutStep DEF IInv
<1> QED
  BY <1>1, Stutter

\* The variables keep their types: no step of a call, of the clean-up or of a
\* server puts the manager into a state the code does not know.
THEOREM TypeCorrect ==
  Spec => []TypeOK
<1>1. IInv => TypeOK
  BY DEF IInv
<1> QED
  BY <1>1, Start, Inductive, PTL DEF Spec

Begun == {"opening", "stalled"}
Live == Begun \cup {"open", "broken"}

\* A live session is the cached one, or the one its server's lock is held for.
LEMMA Exclusive ==
  ASSUME TypeOK, Locked, Making, Cached, Tended,
         NEW s \in Session, NEW t \in Session, host[s] = host[t],
         state[s] \in Live, state[t] \in Live
  PROVE  s = t
<1>1. ASSUME NEW x \in Session, NEW y \in Session, host[x] = host[y],
             state[x] \in Begun, state[y] \in {"open", "broken"}
      PROVE  FALSE
  <2>1. PICK c \in Call : on[c] = x /\ pc[c] = "creating"
    BY <1>1 DEF Tended, Begun
  <2>2. entries[host[x]] = None
    BY <2>1 DEF Locked, Making
  <2>3. entries[host[y]] = y
    BY <1>1 DEF Cached
  <2> QED
    BY <1>1, <2>2, <2>3, NoneAssumption
<1>2. ASSUME state[s] \in Begun, state[t] \in Begun PROVE s = t
  <2>1. PICK c \in Call : on[c] = s /\ pc[c] = "creating"
    BY <1>2 DEF Tended, Begun
  <2>2. PICK d \in Call : on[d] = t /\ pc[d] = "creating"
    BY <1>2 DEF Tended, Begun
  <2>3. Target[c] = Target[d] /\ lock[Target[c]] = c /\ lock[Target[d]] = d
    BY <2>1, <2>2 DEF Locked, Making
  <2> QED
    BY <2>1, <2>2, <2>3
<1>3. ASSUME state[s] \notin Begun, state[t] \notin Begun PROVE s = t
  BY <1>3 DEF Cached, Live, Begun
<1> QED
  BY <1>1, <1>2, <1>3 DEF Live, Begun

\* Two calls of one server never end up with two live sessions, and no session is
\* left without somebody to close it (get_session, invalidate, cleanup).
THEOREM OwnershipHolds ==
  Spec => []SessionsOwned
<1>1. ASSUME IInv PROVE SessionsOwned
  <2>1. \A n \in Name : entries[n] # None =>
          host[entries[n]] = n /\ state[entries[n]] \in {"open", "broken"}
    BY <1>1 DEF IInv, Cached
  <2>2. \A s, t \in Session :
          host[s] = host[t] /\ {state[s], state[t]} \subseteq Live => s = t
    BY <1>1, Exclusive DEF IInv
  <2>3. \A s \in Session :
          state[s] \notin {"none", "cut", "closed"} => Owned(s)
    <3>1. \A s \in Session : state[s] \in {"open", "broken"} => Owned(s)
      BY <1>1 DEF IInv, Cached, Owned
    <3>2. \A s \in Session : state[s] \in Begun \cup {"closing", "stuck"} => Owned(s)
      BY <1>1 DEF IInv, Tended, Owned, Begun
    <3> QED
      BY <1>1, <3>1, <3>2 DEF IInv, TypeOK, Begun
  <2> QED
    BY <2>1, <2>2, <2>3 DEF SessionsOwned, Live, Begun
<1> QED
  BY <1>1, Start, Inductive, PTL DEF Spec

\* After invalidate returns, neither the call nor anybody else gets what it blamed.
THEOREM FailureIsFinal ==
  Spec => []FailedIsGone
<1>1. IInv => FailedIsGone
  BY DEF IInv
<1> QED
  BY <1>1, Start, Inductive, PTL DEF Spec

\* The identity check of invalidate: a session in good order outlives the failures
\* of those before it.
THEOREM HealthyOutlives ==
  Spec => HealthyIsKept
<1> DEFINE Kind == \A s \in Session : state[s] = "open" /\ state'[s] # "open" =>
             \/ state'[s] = "broken" \/ closed
             \/ \E c \in Call : (reauth[c] \/ round[c] = 2) /\ s \in failed[c]
<1>1. ASSUME IInv, [Next]_vars PROVE Kind
  <2>1. ASSUME NEW c \in Call, NEW s \in Session, Create(c, s) PROVE Kind
    BY <1>1, <2>1 DEF IInv, TypeOK, Create, Entry, Turns
  <2>2. ASSUME NEW c \in Call, Created(c) PROVE Kind
    BY <1>1, <2>2 DEF IInv, TypeOK, Making, Created, Release, Turns
  <2>3. ASSUME NEW c \in Call, CreateFails(c) PROVE Kind
    BY <1>1, <2>3 DEF IInv, TypeOK, Making, CreateFails, Turns
  <2>4. ASSUME NEW c \in Call, Undone(c) PROVE Kind
    BY <1>1, <2>4 DEF IInv, TypeOK, Closing, Gone, Undone, Release, Turns
  <2>5. ASSUME NEW c \in Call, Drop(c) PROVE Kind
    BY <1>1, <2>5 DEF IInv, TypeOK, Dropping, Drop, Entry, Evict, Turns
  <2>6. ASSUME NEW c \in Call, Dropped(c) PROVE Kind
    BY <1>1, <2>6 DEF IInv, TypeOK, Dropped, GoOn, Fetch, Entry, Turns
  <2>7. ASSUME NEW c \in Call, DropFails(c) PROVE Kind
    BY <1>1, <2>7 DEF IInv, TypeOK, DropFails, Turns
  <2>8. ASSUME NEW c \in Call, Cancel(c) PROVE Kind
    BY <1>1, <2>8 DEF IInv, TypeOK, Making, Closing, Gone, Cancel, Release, Ended, Turns
  <2>9. ASSUME NEW n \in Name, CloserDrops(n) PROVE Kind
    BY <1>1, <2>9 DEF IInv, TypeOK, Shut, CloserDrops, Evict, Turns
  <2>10. ASSUME NEW n \in Name, CloserEnds(n) PROVE Kind
    BY <1>1, <2>10 DEF IInv, TypeOK, CloserEnds, Turns
  <2>11. ASSUME NEW n \in Name, CloserTimesOut(n) PROVE Kind
    BY <1>1, <2>11 DEF IInv, TypeOK, Closing, Gone, CloserTimesOut, Turns
  <2>12. ASSUME NEW s \in Session, Break(s) PROVE Kind
    BY <1>1, <2>12 DEF IInv, TypeOK, Break, Turns
  <2>13. ASSUME NEW s \in Session, Hang(s) PROVE Kind
    BY <1>1, <2>13 DEF IInv, TypeOK, Hang, Turns
  <2>14. ASSUME UNCHANGED state PROVE Kind
    BY <2>14
  <2> QED
    BY <1>1, <2>1, <2>2, <2>3, <2>4, <2>5, <2>6, <2>7, <2>8, <2>9, <2>10, <2>11, <2>12, <2>13, <2>14
       DEF Next, Steps, CloserSteps, Begin, Found, Refused, Answered, Dead,
           RetryFails, NeedsLogin, Kept, Cleanup, CloserIdles,
           vars, managerVars, callVars, closerVars, ghostVars
<1> QED
  BY <1>1, Start, Inductive, PTL DEF Spec, HealthyIsKept
=============================================================================
