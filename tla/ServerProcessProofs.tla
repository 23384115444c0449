------------------------ MODULE ServerProcessProofs ------------------------
(***************************************************************************)
(* Proofs about the server subprocesses, for any number of objects,        *)
(* processes, ports and assistants and any budget: what an object holds,   *)
(* and that every object is the service its holders take it for.           *)
(***************************************************************************)
EXTENDS ServerProcess, FiniteSetTheorems, SequenceTheorems, TLAPS

-----------------------------------------------------------------------------
(* Type correctness *)

LEMMA PostType ==
  ASSUME mail \in Seq(Posted), NEW k \in {"up", "failed"}, NEW s \in Server \cup {None},
         NEW q \in Port \cup {None}, Post(k, s, q)
  PROVE  mail' \in Seq(Posted)
<1>1. [kind |-> k, srv |-> s, port |-> q] \in Posted
  BY DEF Posted
<1> QED
  BY <1>1, AppendProperties DEF Post

LEMMA HeadIsPosted ==
  ASSUME mail \in Seq(Posted), mail # <<>>
  PROVE  /\ Head(mail) \in Posted /\ Tail(mail) \in Seq(Posted)
         /\ Head(mail) = mail[1] /\ 1 \in DOMAIN mail
         /\ \A i \in DOMAIN Tail(mail) : i + 1 \in DOMAIN mail /\ Tail(mail)[i] = mail[i + 1]
<1>1. Len(mail) \in Nat \ {0} /\ DOMAIN mail = 1 .. Len(mail)
  BY EmptySeq, LenProperties
<1>2. Tail(mail) \in Seq(Posted) /\ Len(Tail(mail)) = Len(mail) - 1
      /\ DOMAIN Tail(mail) = 1 .. Len(mail) - 1
  BY HeadTailProperties, LenProperties
<1>3. \A i \in 1 .. Len(mail) - 1 : Tail(mail)[i] = mail[i + 1]
  BY <1>1, HeadTailProperties
<1> QED
  BY <1>1, <1>2, <1>3, HeadTailProperties

LEMMA SpendType ==
  ASSUME left \in [Op -> Nat], NEW S, Spend(S), S \subseteq Op
  PROVE  left' \in [Op -> Nat]
<1>1. \A o \in Op : (IF o \in S THEN left[o] - 1 ELSE left[o]) \in Nat
  BY DEF Spend
<1> QED
  BY <1>1 DEF Spend

\* Stopping keeps the processes what they are, but for one that is dead.
LEMMA StoppedType ==
  ASSUME TypeOK, NEW s \in Server
  PROVE  /\ Stopped(s) \in [Proc -> [state : ProcState, owner : Server \cup {None},
                                     port : Port \cup {None}, agent : Agent]]
         /\ \A p \in Proc : Stopped(s)[p].owner = proc[p].owner
         /\ \A p \in Proc : p # handle[s] => Stopped(s)[p] = proc[p]
         /\ \A p \in Proc : p = handle[s] => Stopped(s)[p].state = "dead"
<1>1. CASE handle[s] = None
  BY <1>1, NoneAssumption DEF TypeOK, Stopped
<1>2. CASE handle[s] # None
  <2>1. handle[s] \in Proc
    BY <1>2 DEF TypeOK
  <2>2. Stopped(s) = [proc EXCEPT ![handle[s]].state = "dead"]
    BY <1>2 DEF Stopped
  <2>3. proc \in [Proc -> [state : ProcState, owner : Server \cup {None},
                           port : Port \cup {None}, agent : Agent]]
    BY DEF TypeOK
  <2>4. "dead" \in ProcState
    BY DEF ProcState
  <2>5. [proc[handle[s]] EXCEPT !.state = "dead"]
          \in [state : ProcState, owner : Server \cup {None}, port : Port \cup {None},
              agent : Agent]
    BY <2>1, <2>3, <2>4
  <2>6. /\ Stopped(s) \in [Proc -> [state : ProcState, owner : Server \cup {None},
                                    port : Port \cup {None}, agent : Agent]]
        /\ \A p \in Proc : Stopped(s)[p] =
             IF p = handle[s] THEN [proc[p] EXCEPT !.state = "dead"] ELSE proc[p]
    BY <2>1, <2>2, <2>3, <2>5
  <2> QED
    BY <2>1, <2>3, <2>6
<1> QED
  BY <1>1, <1>2

LEMMA SpawnType ==
  ASSUME TypeOK, NEW s \in Server, NEW t \in Task, NEW env \in Agent,
         NEW ps \in [Proc -> [state : ProcState, owner : Server \cup {None},
                              port : Port \cup {None}, agent : Agent]],
         Spawn(t, s, ps, env)
  PROVE  /\ proc' \in [Proc -> [state : ProcState, owner : Server \cup {None},
                                port : Port \cup {None}, agent : Agent]]
         /\ environ' \in Agent /\ handle' \in [Server -> Proc \cup {None}]
         /\ port' \in [Server -> Port \cup {None}]
         /\ pc' \in [Task -> Label] /\ srv' \in [Task -> Server \cup {None}]
         /\ mine' \in [Task -> Proc \cup {None}]
<1>1. PICK q \in Port, p \in Unborn :
        /\ proc' = [ps EXCEPT ![p] = [state |-> "booting", owner |-> s, port |-> q,
                                      agent |-> env]]
        /\ handle' = [handle EXCEPT ![s] = p] /\ port' = [port EXCEPT ![s] = q]
        /\ environ' = env
        /\ srv' = [srv EXCEPT ![t] = s] /\ mine' = [mine EXCEPT ![t] = p]
        /\ Goto(t, "polling")
  BY DEF Spawn
<1>2. p \in Proc
  BY DEF Unborn
<1>3. [state |-> "booting", owner |-> s, port |-> q, agent |-> env]
        \in [state : ProcState, owner : Server \cup {None},
             port : Port \cup {None}, agent : Agent]
  BY DEF ProcState
<1>4. proc' \in [Proc -> [state : ProcState, owner : Server \cup {None},
                          port : Port \cup {None}, agent : Agent]]
  BY <1>1, <1>2, <1>3
<1>5. handle' \in [Server -> Proc \cup {None}] /\ port' \in [Server -> Port \cup {None}]
  BY <1>1, <1>2 DEF TypeOK
<1>6. pc' \in [Task -> Label] /\ srv' \in [Task -> Server \cup {None}]
      /\ mine' \in [Task -> Proc \cup {None}]
  BY <1>1, <1>2 DEF TypeOK, Goto, Label
<1> QED
  BY <1>1, <1>4, <1>5, <1>6

\* restart() keeps the types, if it is called on an object.
LEMMA RestartType ==
  ASSUME TypeOK, NEW s \in Server, NEW t \in Task, NEW over \in Agent \cup {None},
         NEW ops, ops \subseteq Op, Restart(t, s, over, ops)
  PROVE  /\ proc' \in [Proc -> [state : ProcState, owner : Server \cup {None},
                                port : Port \cup {None}, agent : Agent]]
         /\ environ' \in Agent /\ handle' \in [Server -> Proc \cup {None}]
         /\ port' \in [Server -> Port \cup {None}] /\ dir' = dir
         /\ staged' \in [Server -> Agent \cup {None}]
         /\ pc' \in [Task -> Label] /\ srv' \in [Task -> Server \cup {None}]
         /\ mine' \in [Task -> Proc \cup {None}] /\ prev' \in [Task -> Agent \cup {None}]
         /\ mail' \in Seq(Posted) /\ left' \in [Op -> Nat]
<1>1. staged' \in [Server -> Agent \cup {None}]
  BY DEF Restart, TypeOK
<1>2. CASE /\ Spawn(t, s, Stopped(s), IF over = None THEN environ ELSE over)
           /\ prev' = [prev EXCEPT ![t] = IF over = None THEN None ELSE environ]
           /\ Spend(ops) /\ UNCHANGED <<dir, mail>>
  <2>1. (IF over = None THEN environ ELSE over) \in Agent
    BY DEF TypeOK
  <2>2. prev' \in [Task -> Agent \cup {None}]
    BY <1>2 DEF TypeOK
  <2>3. left' \in [Op -> Nat] /\ mail' \in Seq(Posted) /\ dir' = dir
    BY <1>2, SpendType DEF TypeOK
  <2> QED
    BY <1>1, <1>2, <2>1, <2>2, <2>3, StoppedType, SpawnType
<1>3. CASE /\ Spend(IF HasConfig(s) THEN ops \cup {"spawnFail"} ELSE ops)
           /\ proc' = Stopped(s) /\ NoHandle(s)
           /\ Goto(t, "idle") /\ Post("failed", None, None)
           /\ UNCHANGED <<dir, port, environ, srv, mine, prev>>
  <2>1. (IF HasConfig(s) THEN ops \cup {"spawnFail"} ELSE ops) \subseteq Op
    BY DEF Op
  <2>2. left' \in [Op -> Nat]
    BY <1>3, <2>1, SpendType DEF TypeOK
  <2>3. mail' \in Seq(Posted)
    BY <1>3, PostType DEF TypeOK
  <2>4. handle' \in [Server -> Proc \cup {None}] /\ pc' \in [Task -> Label]
    BY <1>3 DEF TypeOK, NoHandle, Goto, Label
  <2> QED
    BY <1>1, <1>3, <2>2, <2>3, <2>4, StoppedType DEF TypeOK
<1> QED
  BY <1>2, <1>3 DEF Restart

-----------------------------------------------------------------------------
(* What an object holds *)

\* The parts of Phase and ObjectInv: what a step does to them is said by the
\* object it is about and by what it leaves alone.
Untouched(s) ==
  /\ handle'[s] = handle[s] /\ dir'[s] = dir[s]
  /\ handle[s] # None => proc'[handle[s]].state = proc[handle[s]].state

LEMMA UntouchedPhase ==
  ASSUME NEW s \in Server, Untouched(s)
  PROVE  Phase(s)' = Phase(s)
BY DEF Untouched, Phase, Live, HasConfig

\* A step that changes neither process, handle nor directory.
LEMMA QuietObjects ==
  ASSUME UNCHANGED <<proc, handle, dir>>
  PROVE  /\ ObjectInv => ObjectInv'
         /\ \A s \in Server : Phase(s)' = Phase(s) /\ (Made(s) => Made(s)')
BY DEF ObjectInv, HandleOwnsLive, HeldIsOwn, OnlyWithConfig, HasConfig, Phase, Live, Made

\* _stop_process on an object, whatever then becomes of its directory.
LEMMA StopObject ==
  ASSUME TypeOK, ObjectInv, NEW s \in Server,
         proc' = Stopped(s), NoHandle(s), NEW d \in {"none", "made", "gone"},
         dir' = [dir EXCEPT ![s] = d]
  PROVE  /\ ObjectInv'
         /\ handle'[s] = None /\ dir'[s] = d
         /\ \A r \in Server \ {s} : Phase(r)' = Phase(r) /\ dir'[r] = dir[r]
<1>1. /\ \A p \in Proc : proc'[p].owner = proc[p].owner
      /\ \A p \in Proc : p # handle[s] => proc'[p] = proc[p]
      /\ \A p \in Proc : p = handle[s] => proc'[p].state = "dead"
  BY StoppedType
<1>2. /\ handle'[s] = None /\ dir'[s] = d
      /\ \A r \in Server \ {s} : handle'[r] = handle[r] /\ dir'[r] = dir[r]
  BY DEF NoHandle, TypeOK
<1>3. \A r \in Server : handle[r] \in Proc \cup {None}
  BY DEF TypeOK
<1>4. HandleOwnsLive'
  <2> SUFFICES ASSUME NEW p \in Proc, Live(p)'
               PROVE  proc'[p].owner \in Server /\ handle'[proc'[p].owner] = p
    BY DEF HandleOwnsLive
  <2>1. p # handle[s]
    BY <1>1 DEF Live
  <2>2. Live(p) /\ proc'[p].owner = proc[p].owner
    BY <1>1, <2>1 DEF Live
  <2>3. proc[p].owner \in Server /\ handle[proc[p].owner] = p
    BY <2>2 DEF ObjectInv, HandleOwnsLive
  <2> QED
    BY <1>2, <2>1, <2>2, <2>3
<1>5. HeldIsOwn'
  BY <1>1, <1>2, <1>3, NoneAssumption DEF ObjectInv, HeldIsOwn
<1>6. OnlyWithConfig'
  BY <1>2 DEF ObjectInv, OnlyWithConfig, HasConfig
<1>7. ASSUME NEW r \in Server \ {s}
      PROVE  Phase(r)' = Phase(r) /\ dir'[r] = dir[r]
  <2>1. CASE handle[r] = None
    BY <1>2, <2>1, UntouchedPhase DEF Untouched
  <2>2. CASE handle[r] # None
    <3>1. handle[r] \in Proc /\ proc[handle[r]].owner = r
      BY <1>3, <2>2 DEF ObjectInv, HeldIsOwn
    <3>2. handle[r] # handle[s]
      BY <2>2, <3>1 DEF ObjectInv, HeldIsOwn
    <3>3. proc'[handle[r]] = proc[handle[r]]
      BY <1>1, <3>1, <3>2
    <3> QED
      BY <1>2, <3>3, UntouchedPhase DEF Untouched
  <2> QED
    BY <2>1, <2>2
<1> QED
  BY <1>2, <1>4, <1>5, <1>6, <1>7 DEF ObjectInv

\* A process is spawned for an object whose own, if any, has been stopped.
LEMMA SpawnObject ==
  ASSUME TypeOK, ObjectInv, NEW s \in Server, NEW t \in Task, NEW env \in Agent,
         Spawn(t, s, Stopped(s), env), dir' = [dir EXCEPT ![s] = "made"]
  PROVE  /\ ObjectInv' /\ Phase(s)' = "starting" /\ dir'[s] = "made"
         /\ \A r \in Server \ {s} : Phase(r)' = Phase(r) /\ dir'[r] = dir[r]
<1>1. PICK q \in Port, p \in Unborn :
        /\ proc' = [Stopped(s) EXCEPT ![p] = [state |-> "booting", owner |-> s,
                                              port |-> q, agent |-> env]]
        /\ handle' = [handle EXCEPT ![s] = p]
  BY DEF Spawn
<1>2. /\ Stopped(s) \in [Proc -> [state : ProcState, owner : Server \cup {None},
                                  port : Port \cup {None}, agent : Agent]]
      /\ \A k \in Proc : Stopped(s)[k].owner = proc[k].owner
      /\ \A k \in Proc : k # handle[s] => Stopped(s)[k] = proc[k]
      /\ \A k \in Proc : k = handle[s] => Stopped(s)[k].state = "dead"
  BY StoppedType
<1>3. p \in Proc /\ proc[p].state = "unborn" /\ ~Live(p)
  BY DEF Unborn, Live
<1>4. /\ proc'[p].state = "booting" /\ proc'[p].owner = s
      /\ \A k \in Proc \ {p} : proc'[k] = Stopped(s)[k]
  BY <1>1, <1>2, <1>3
<1>5. /\ handle'[s] = p /\ dir'[s] = "made"
      /\ \A r \in Server \ {s} : handle'[r] = handle[r] /\ dir'[r] = dir[r]
  BY <1>1 DEF TypeOK
<1>6. \A r \in Server : handle[r] \in Proc \cup {None}
  BY DEF TypeOK
<1>7. ASSUME NEW r \in Server \ {s}, handle[r] # None
      PROVE  handle[r] \in Proc /\ handle[r] # p /\ proc'[handle[r]] = proc[handle[r]]
  <2>1. /\ proc[handle[r]].owner = r /\ handle[r] \in Proc
        /\ proc[handle[r]].state # "unborn"
    BY <1>6, <1>7 DEF ObjectInv, HeldIsOwn
  <2>2. handle[r] # handle[s]
    BY <1>7, <2>1 DEF ObjectInv, HeldIsOwn
  <2>3. handle[r] # p
    BY <1>3, <2>1
  <2> QED
    BY <1>2, <1>4, <2>1, <2>2, <2>3
<1>8. HandleOwnsLive'
  <2> SUFFICES ASSUME NEW k \in Proc, Live(k)'
               PROVE  proc'[k].owner \in Server /\ handle'[proc'[k].owner] = k
    BY DEF HandleOwnsLive
  <2>1. CASE k = p
    BY <1>4, <1>5, <2>1
  <2>2. CASE k # p
    <3>1. proc'[k] = Stopped(s)[k] /\ k # handle[s]
      BY <1>2, <1>4, <2>2 DEF Live
    <3>2. proc'[k] = proc[k]
      BY <1>2, <3>1
    <3>3. Live(k)
      BY <3>2 DEF Live
    <3>4. proc[k].owner \in Server /\ handle[proc[k].owner] = k
      BY <3>3 DEF ObjectInv, HandleOwnsLive
    <3> QED
      BY <1>5, <3>1, <3>2, <3>4
  <2> QED
    BY <2>1, <2>2
<1>9. HeldIsOwn'
  <2> SUFFICES ASSUME NEW r \in Server, handle'[r] # None
               PROVE  proc'[handle'[r]].owner = r /\ proc'[handle'[r]].state # "unborn"
    BY DEF HeldIsOwn
  <2>1. CASE r = s
    BY <1>4, <1>5, <2>1
  <2>2. CASE r # s
    <3>1. handle'[r] = handle[r] /\ handle[r] # None
      BY <1>5, <2>2
    <3> QED
      BY <1>7, <2>2, <3>1 DEF ObjectInv, HeldIsOwn
  <2> QED
    BY <2>1, <2>2
<1>10. OnlyWithConfig'
  BY <1>5 DEF ObjectInv, OnlyWithConfig, HasConfig
<1>11. Phase(s)' = "starting"
  <2>1. p # None
    BY <1>3, NoneAssumption
  <2> QED
    BY <1>4, <1>5, <2>1 DEF Phase, Live
<1>12. ASSUME NEW r \in Server \ {s}
       PROVE  Phase(r)' = Phase(r) /\ dir'[r] = dir[r]
  <2>1. Untouched(r)
    BY <1>5, <1>7 DEF Untouched
  <2> QED
    BY <1>5, <2>1, UntouchedPhase
<1> QED
  BY <1>5, <1>8, <1>9, <1>10, <1>11, <1>12 DEF ObjectInv

\* A process comes up or dies by itself.
LEMMA TurnObject ==
  ASSUME TypeOK, ObjectInv, NEW p \in Proc, NEW x \in {"up", "dead"},
         Live(p), Turns(p, x), UNCHANGED <<handle, dir>>
  PROVE  /\ ObjectInv' /\ proc[p].owner \in Server
         /\ LET s == proc[p].owner IN Phase(s)' = IF x = "up" THEN "serving" ELSE "down"
         /\ dir[proc[p].owner] = "made"
         /\ \A r \in Server \ {proc[p].owner} : Phase(r)' = Phase(r)
<1> DEFINE s == proc[p].owner
<1>1. s \in Server /\ handle[s] = p /\ p # None /\ dir[s] = "made"
  BY NoneAssumption DEF ObjectInv, HandleOwnsLive, OnlyWithConfig, HasConfig
<1>2. /\ proc'[p].state = x /\ proc'[p].owner = s
      /\ \A k \in Proc \ {p} : proc'[k] = proc[k]
  BY DEF Turns, TypeOK
<1>3. ASSUME NEW r \in Server \ {s}
      PROVE  Phase(r)' = Phase(r) /\ (handle[r] # None => handle[r] \in Proc \ {p})
  <2>1. handle[r] # None => handle[r] \in Proc \ {p}
    BY <1>3 DEF TypeOK, ObjectInv, HeldIsOwn
  <2>2. Untouched(r)
    BY <1>2, <2>1 DEF Untouched
  <2> QED
    BY <2>1, <2>2, UntouchedPhase
<1>4. HandleOwnsLive'
  BY <1>1, <1>2 DEF ObjectInv, HandleOwnsLive, Live
<1>5. HeldIsOwn'
  <2> SUFFICES ASSUME NEW r \in Server, handle[r] # None
               PROVE  proc'[handle[r]].owner = r /\ proc'[handle[r]].state # "unborn"
    BY DEF HeldIsOwn
  <2>1. CASE r = s
    BY <1>1, <1>2, <2>1
  <2>2. CASE r # s
    BY <1>2, <1>3, <2>2 DEF ObjectInv, HeldIsOwn
  <2> QED
    BY <2>1, <2>2
<1>6. OnlyWithConfig'
  BY DEF ObjectInv, OnlyWithConfig, HasConfig
<1>7. Phase(s)' = IF x = "up" THEN "serving" ELSE "down"
  BY <1>1, <1>2 DEF Phase, Live, HasConfig
<1> QED
  BY <1>1, <1>3, <1>4, <1>5, <1>6, <1>7 DEF ObjectInv

-----------------------------------------------------------------------------
(* A step is one of one service at most *)

ServiceStep(s) ==
  /\ \A r \in Server \ {s} : Phase(r)' = Phase(r)
  /\ \/ Phase(s)' = Phase(s)
     \/ Phase(s) \in {"absent", "down", "serving"} /\ Phase(s)' = "starting"
     \/ Phase(s) = "starting" /\ Phase(s)' = "serving"
     \/ Phase(s) \in {"starting", "serving"} /\ Phase(s)' = "down"
     \/ Phase(s) # "spent" /\ Phase(s)' = "spent"
Serves == (\A s \in Server : Phase(s)' = Phase(s)) \/ \E s \in Server : ServiceStep(s)

\* No object is unmade again.
KeepsMade == \A s \in Server : Made(s) => dir'[s] # "none"

LEMMA StopServes ==
  ASSUME TypeOK, ObjectInv, NEW s \in Server, Stop(s)
  PROVE  ObjectInv' /\ Serves /\ KeepsMade
<1>1. /\ ObjectInv' /\ handle'[s] = None /\ dir'[s] = "gone"
      /\ \A r \in Server \ {s} : Phase(r)' = Phase(r) /\ dir'[r] = dir[r]
  BY StopObject DEF Stop
<1>2. Phase(s)' = "spent"
  BY <1>1 DEF Phase, HasConfig
<1>3. ServiceStep(s)
  BY <1>1, <1>2 DEF ServiceStep
<1>4. KeepsMade
  <2> SUFFICES ASSUME NEW r \in Server, dir[r] # "none" PROVE dir'[r] # "none"
    BY DEF KeepsMade, Made
  <2> QED
    BY <1>1
<1> QED
  BY <1>1, <1>3, <1>4 DEF Serves

LEMMA SpawnServes ==
  ASSUME TypeOK, ObjectInv, NEW s \in Server, NEW t \in Task, NEW env \in Agent,
         Spawn(t, s, Stopped(s), env), dir[s] \in {"none", "made"},
         dir' = [dir EXCEPT ![s] = "made"]
  PROVE  ObjectInv' /\ Serves /\ KeepsMade /\ dir'[s] = "made"
<1>1. /\ ObjectInv' /\ Phase(s)' = "starting" /\ dir'[s] = "made"
      /\ \A r \in Server \ {s} : Phase(r)' = Phase(r) /\ dir'[r] = dir[r]
  BY SpawnObject
<1>2. Phase(s) \in {"absent", "down", "serving", "starting"}
  BY DEF Phase, HasConfig
<1>3. ServiceStep(s)
  BY <1>1, <1>2 DEF ServiceStep
<1>4. KeepsMade
  <2> SUFFICES ASSUME NEW r \in Server, dir[r] # "none" PROVE dir'[r] # "none"
    BY DEF KeepsMade, Made
  <2> QED
    BY <1>1
<1> QED
  BY <1>1, <1>3, <1>4 DEF Serves

LEMMA RestartServes ==
  ASSUME TypeOK, ObjectInv, NEW s \in Server, NEW t \in Task, NEW over \in Agent \cup {None},
         NEW ops, Restart(t, s, over, ops), Made(s)
  PROVE  ObjectInv' /\ Serves /\ KeepsMade /\ dir' = dir
<1>1. CASE /\ HasConfig(s)
           /\ Spawn(t, s, Stopped(s), IF over = None THEN environ ELSE over)
           /\ UNCHANGED dir
  <2>1. (IF over = None THEN environ ELSE over) \in Agent
    BY DEF TypeOK
  <2>2. dir' = [dir EXCEPT ![s] = "made"] /\ dir[s] = "made"
    BY <1>1 DEF HasConfig, TypeOK
  <2> QED
    BY <1>1, <2>1, <2>2, SpawnServes
<1>2. CASE proc' = Stopped(s) /\ NoHandle(s) /\ UNCHANGED dir
  <2>1. dir' = [dir EXCEPT ![s] = dir[s]] /\ dir[s] \in {"made", "gone"}
    BY <1>2 DEF TypeOK, Made
  <2>2. /\ ObjectInv' /\ handle'[s] = None
        /\ \A r \in Server \ {s} : Phase(r)' = Phase(r)
    BY <1>2, <2>1, StopObject
  <2>3. Phase(s)' = IF dir[s] = "made" THEN "down" ELSE "spent"
    BY <1>2, <2>1, <2>2 DEF Phase, HasConfig
  <2>4. dir[s] = "made" => Phase(s) \in {"starting", "serving", "down"}
    BY DEF Phase, HasConfig
  <2>5. ServiceStep(s)
    BY <2>1, <2>2, <2>3, <2>4 DEF ServiceStep
  <2>6. KeepsMade
    BY <1>2 DEF KeepsMade, Made
  <2> QED
    BY <1>2, <2>2, <2>5, <2>6 DEF Serves
<1> QED
  BY <1>1, <1>2 DEF Restart

LEMMA QuietServes ==
  ASSUME ObjectInv, UNCHANGED <<proc, handle, dir>>
  PROVE  ObjectInv' /\ Serves /\ KeepsMade
<1>1. ObjectInv' /\ \A s \in Server : Phase(s)' = Phase(s)
  BY QuietObjects
<1>2. KeepsMade
  BY DEF KeepsMade, Made
<1> QED
  BY <1>1, <1>2 DEF Serves

LEMMA TurnServes ==
  ASSUME TypeOK, ObjectInv, NEW p \in Proc, NEW x \in {"up", "dead"},
         Live(p), x = "up" => proc[p].state = "booting",
         Turns(p, x), UNCHANGED <<handle, dir>>
  PROVE  ObjectInv' /\ Serves /\ KeepsMade
<1> DEFINE s == proc[p].owner
<1>1. /\ ObjectInv' /\ s \in Server
      /\ Phase(s)' = IF x = "up" THEN "serving" ELSE "down"
      /\ \A r \in Server \ {s} : Phase(r)' = Phase(r)
  BY TurnObject
<1>2. handle[s] = p /\ p # None
  BY NoneAssumption DEF ObjectInv, HandleOwnsLive
<1>3. /\ Phase(s) \in {"starting", "serving"}
      /\ x = "up" => Phase(s) = "starting"
  BY <1>2 DEF Phase, Live
<1>4. ServiceStep(s)
  BY <1>1, <1>3 DEF ServiceStep
<1>5. KeepsMade
  BY DEF KeepsMade, Made
<1> QED
  BY <1>1, <1>4, <1>5 DEF Serves

-----------------------------------------------------------------------------
(* Who refers to an object refers to one that was made *)

MailRefers == \A i \in DOMAIN mail : mail[i].kind = "up" => Made(mail[i].srv)
TasksRefer == \A t \in Task : pc[t] \notin {"idle", "begin"} => Made(srv[t])
AppRefers == appServer # None => Made(appServer)

LEMMA KeptMade ==
  ASSUME KeepsMade, NEW s, Made(s)
  PROVE  Made(s)'
BY DEF KeepsMade, Made

LEMMA MailKept ==
  ASSUME MailRefers, KeepsMade, mail' = mail
  PROVE  MailRefers'
BY DEF MailRefers, KeepsMade, Made

LEMMA MailTaken ==
  ASSUME TypeOK, MailRefers, KeepsMade, mail # <<>>, mail' = Tail(mail)
  PROVE  MailRefers'
<1>1. \A i \in DOMAIN mail : mail[i].kind = "up" =>
        mail[i].srv \in Server /\ dir'[mail[i].srv] # "none"
  BY DEF MailRefers, KeepsMade, Made
<1>2. \A i \in DOMAIN mail' : i + 1 \in DOMAIN mail /\ mail'[i] = mail[i + 1]
  BY HeadIsPosted DEF TypeOK
<1> QED
  BY <1>1, <1>2 DEF MailRefers, Made

LEMMA MailPosted ==
  ASSUME TypeOK, MailRefers, KeepsMade, NEW k \in {"up", "failed"},
         NEW s \in Server \cup {None}, NEW q \in Port \cup {None},
         Post(k, s, q), k = "up" => Made(s)
  PROVE  MailRefers'
<1>1. \A i \in DOMAIN mail : mail[i].kind = "up" =>
        mail[i].srv \in Server /\ dir'[mail[i].srv] # "none"
  BY DEF MailRefers, KeepsMade, Made
<1> DEFINE m == [kind |-> k, srv |-> s, port |-> q]
<1>2. m \in Posted
  BY DEF Posted
<1>3. /\ Len(mail) \in Nat /\ DOMAIN mail = 1 .. Len(mail)
      /\ DOMAIN mail' = 1 .. Len(mail) + 1
      /\ \A i \in 1 .. Len(mail) : mail'[i] = mail[i]
      /\ mail'[Len(mail) + 1] = m
  BY <1>2, AppendProperties, LenProperties DEF Post, TypeOK
<1>4. k = "up" => s \in Server /\ dir'[s] # "none"
  BY DEF KeepsMade, Made
<1> SUFFICES ASSUME NEW i \in DOMAIN mail', mail'[i].kind = "up"
             PROVE  mail'[i].srv \in Server /\ dir'[mail'[i].srv] # "none"
  BY DEF MailRefers, Made
<1>5. CASE i \in 1 .. Len(mail)
  BY <1>1, <1>3, <1>5
<1>6. CASE i = Len(mail) + 1
  BY <1>3, <1>4, <1>6
<1> QED
  BY <1>3, <1>5, <1>6

\* No task starts to work on an object.
LEMMA TasksKept ==
  ASSUME TasksRefer, KeepsMade,
         \A t \in Task : pc'[t] \notin {"idle", "begin"} =>
           pc[t] \notin {"idle", "begin"} /\ srv'[t] = srv[t]
  PROVE  TasksRefer'
<1> SUFFICES ASSUME NEW t \in Task, pc'[t] \notin {"idle", "begin"}
             PROVE  srv'[t] \in Server /\ dir'[srv'[t]] # "none"
  BY DEF TasksRefer, Made
<1>1. srv'[t] = srv[t] /\ srv[t] \in Server /\ dir[srv[t]] # "none"
  BY DEF TasksRefer, Made
<1> QED
  BY <1>1 DEF KeepsMade, Made

\* Task t starts to work on s.
LEMMA TaskGiven ==
  ASSUME TypeOK, TasksRefer, KeepsMade, NEW t \in Task, NEW s \in Server, dir'[s] # "none",
         NEW l, Goto(t, l), srv' = [srv EXCEPT ![t] = s]
  PROVE  TasksRefer'
<1> SUFFICES ASSUME NEW u \in Task, pc'[u] \notin {"idle", "begin"}
             PROVE  srv'[u] \in Server /\ dir'[srv'[u]] # "none"
  BY DEF TasksRefer, Made
<1>1. CASE u = t
  BY <1>1 DEF TypeOK
<1>2. CASE u # t
  BY <1>2 DEF TypeOK, Goto, TasksRefer, KeepsMade, Made
<1> QED
  BY <1>1, <1>2

LEMMA AppKept ==
  ASSUME AppRefers, KeepsMade,
         appServer' # None => appServer' = appServer \/ Made(appServer')
  PROVE  AppRefers'
BY DEF AppRefers, KeepsMade, Made

-----------------------------------------------------------------------------
(* The inductive invariant, action by action *)

IInv == TypeOK /\ ServerInv

LEMMA ServerInvParts ==
  /\ ServerInv <=> ObjectInv /\ TasksRefer /\ AppRefers /\ MailRefers
  /\ ServerInv' <=> ObjectInv' /\ TasksRefer' /\ AppRefers' /\ MailRefers'
BY DEF ServerInv, RefersToMade, TasksRefer, AppRefers, MailRefers

LEMMA InitIInv == Init => IInv
<1> SUFFICES ASSUME Init PROVE TypeOK /\ ServerInv
  BY DEF IInv
<1>1. TypeOK
  <2>1. mail \in Seq(Posted)
    BY EmptySeq DEF Init
  <2>2. left \in [Op -> Nat]
    BY BudgetAssumption DEF Init
  <2>3. proc \in [Proc -> [state : ProcState, owner : Server \cup {None},
                           port : Port \cup {None}, agent : Agent]]
    BY FirstAssumption DEF Init, ProcState
  <2> QED
    BY <2>1, <2>2, <2>3, FirstAssumption DEF Init, TypeOK, Label
<1>2. ObjectInv
  BY DEF Init, ObjectInv, HandleOwnsLive, HeldIsOwn, OnlyWithConfig, Live
<1>3. TasksRefer /\ AppRefers
  BY DEF Init, TasksRefer, AppRefers
<1>4. MailRefers
  <2>1. mail = <<>>
    BY DEF Init
  <2>2. DOMAIN mail = {}
    BY <2>1
  <2> QED
    BY <2>2 DEF MailRefers
<1> QED
  BY <1>1, <1>2, <1>3, <1>4, ServerInvParts

LEMMA HealthAnswerStep ==
  ASSUME TypeOK, ServerInv, NEW t \in Task, HealthAnswer(t)
  PROVE  TypeOK' /\ ServerInv' /\ Serves
<1>1. ObjectInv /\ TasksRefer /\ AppRefers /\ MailRefers
  BY ServerInvParts
<1>2. ObjectInv' /\ Serves /\ KeepsMade
  <2>1. UNCHANGED <<proc, handle, dir>>
    BY DEF HealthAnswer, osVars, objVars, appVars, taskVars
  <2> QED
    BY <1>1, <2>1, QuietServes
<1>3. TypeOK'
  BY DEF TypeOK, HealthAnswer, Goto, Label, osVars, objVars, appVars, taskVars
<1>4. TasksRefer' /\ AppRefers' /\ MailRefers'
  <2>1. TasksRefer'
    <3>1. \A u \in Task : pc'[u] \notin {"idle", "begin"} =>
            pc[u] \notin {"idle", "begin"} /\ srv'[u] = srv[u]
      BY DEF TypeOK, HealthAnswer, Goto, At, osVars, objVars, appVars, taskVars
    <3> QED
      BY <1>1, <1>2, <3>1, TasksKept
  <2>2. AppRefers'
    <3>1. appServer' = appServer
      BY DEF HealthAnswer, osVars, objVars, appVars, taskVars
    <3> QED
      BY <1>1, <1>2, <3>1, AppKept
  <2>3. MailRefers'
    <3>1. mail' = mail
      BY DEF HealthAnswer, osVars, objVars, appVars, taskVars
    <3> QED
      BY <1>1, <1>2, <3>1, MailKept
  <2> QED
    BY <2>1, <2>2, <2>3
<1> QED
  BY <1>2, <1>3, <1>4, ServerInvParts

LEMMA FirstStartReturnsStep ==
  ASSUME TypeOK, ServerInv, FirstStartReturns
  PROVE  TypeOK' /\ ServerInv' /\ Serves
<1>1. ObjectInv /\ TasksRefer /\ AppRefers /\ MailRefers
  BY ServerInvParts
<1>2. ObjectInv' /\ Serves /\ KeepsMade
  <2>1. UNCHANGED <<proc, handle, dir>>
    BY DEF FirstStartReturns, osVars, objVars, appVars, taskVars
  <2> QED
    BY <1>1, <2>1, QuietServes
<1>3. TypeOK'
  BY DEF TypeOK, FirstStartReturns, Goto, Label, osVars, objVars, appVars, taskVars
<1>4. TasksRefer' /\ AppRefers' /\ MailRefers'
  <2>1. TasksRefer'
    <3>1. \A t \in Task : pc'[t] \notin {"idle", "begin"} =>
            pc[t] \notin {"idle", "begin"} /\ srv'[t] = srv[t]
      BY DEF TypeOK, FirstStartReturns, Goto, At, osVars, objVars, appVars, taskVars
    <3> QED
      BY <1>1, <1>2, <3>1, TasksKept
  <2>2. AppRefers'
    <3>1. appServer' = appServer
      BY DEF FirstStartReturns, osVars, objVars, appVars, taskVars
    <3> QED
      BY <1>1, <1>2, <3>1, AppKept
  <2>3. MailRefers'
    <3>1. mail' = mail
      BY DEF FirstStartReturns, osVars, objVars, appVars, taskVars
    <3> QED
      BY <1>1, <1>2, <3>1, MailKept
  <2> QED
    BY <2>1, <2>2, <2>3
<1> QED
  BY <1>2, <1>3, <1>4, ServerInvParts

LEMMA RestartReturnsStep ==
  ASSUME TypeOK, ServerInv, NEW t \in Respawner, RestartReturns(t)
  PROVE  TypeOK' /\ ServerInv' /\ Serves
<1>1. ObjectInv /\ TasksRefer /\ AppRefers /\ MailRefers
  BY ServerInvParts
<1>2. ObjectInv' /\ Serves /\ KeepsMade
  <2>1. UNCHANGED <<proc, handle, dir>>
    BY DEF RestartReturns, osVars, objVars, appVars, taskVars
  <2> QED
    BY <1>1, <2>1, QuietServes
<1>3. TypeOK'
  BY DEF TypeOK, RestartReturns, Goto, Label, osVars, objVars, appVars, taskVars
<1>4. TasksRefer' /\ AppRefers' /\ MailRefers'
  <2>1. TasksRefer'
    <3>1. \A u \in Task : pc'[u] \notin {"idle", "begin"} =>
            pc[u] \notin {"idle", "begin"} /\ srv'[u] = srv[u]
      BY DEF TypeOK, RestartReturns, Goto, At, osVars, objVars, appVars, taskVars
    <3> QED
      BY <1>1, <1>2, <3>1, TasksKept
  <2>2. AppRefers'
    <3>1. appServer' = appServer
      BY DEF RestartReturns, osVars, objVars, appVars, taskVars
    <3> QED
      BY <1>1, <1>2, <3>1, AppKept
  <2>3. MailRefers'
    <3>1. mail' = mail
      BY DEF RestartReturns, osVars, objVars, appVars, taskVars
    <3> QED
      BY <1>1, <1>2, <3>1, MailKept
  <2> QED
    BY <2>1, <2>2, <2>3
<1> QED
  BY <1>2, <1>3, <1>4, ServerInvParts

LEMMA SwapSucceedsStep ==
  ASSUME TypeOK, ServerInv, SwapSucceeds
  PROVE  TypeOK' /\ ServerInv' /\ Serves
<1>1. ObjectInv /\ TasksRefer /\ AppRefers /\ MailRefers
  BY ServerInvParts
<1>5. srv[Swap] \in Server
  BY <1>1 DEF SwapSucceeds, At, TasksRefer, Made, Task, Restarter
<1>2. ObjectInv' /\ Serves /\ KeepsMade
  <2>1. UNCHANGED <<proc, handle, dir>>
    BY DEF SwapSucceeds, osVars, objVars, appVars, taskVars
  <2> QED
    BY <1>1, <2>1, QuietServes
<1>3. TypeOK'
  BY <1>5 DEF TypeOK, SwapSucceeds, Goto, Label, osVars, objVars, appVars, taskVars
<1>4. TasksRefer' /\ AppRefers' /\ MailRefers'
  <2>1. TasksRefer'
    <3>1. \A t \in Task : pc'[t] \notin {"idle", "begin"} =>
            pc[t] \notin {"idle", "begin"} /\ srv'[t] = srv[t]
      BY DEF TypeOK, SwapSucceeds, Goto, At, osVars, objVars, appVars, taskVars
    <3> QED
      BY <1>1, <1>2, <3>1, TasksKept
  <2>2. AppRefers'
    <3>1. appServer' = appServer
      BY DEF SwapSucceeds, osVars, objVars, appVars, taskVars
    <3> QED
      BY <1>1, <1>2, <3>1, AppKept
  <2>3. MailRefers'
    <3>1. mail' = mail
      BY DEF SwapSucceeds, osVars, objVars, appVars, taskVars
    <3> QED
      BY <1>1, <1>2, <3>1, MailKept
  <2> QED
    BY <2>1, <2>2, <2>3
<1> QED
  BY <1>2, <1>3, <1>4, ServerInvParts

LEMMA RetryStartupStep ==
  ASSUME TypeOK, ServerInv, RetryStartup
  PROVE  TypeOK' /\ ServerInv' /\ Serves
<1>1. ObjectInv /\ TasksRefer /\ AppRefers /\ MailRefers
  BY ServerInvParts
<1>2. ObjectInv' /\ Serves /\ KeepsMade
  <2>1. UNCHANGED <<proc, handle, dir>>
    BY DEF RetryStartup, osVars, objVars, appVars, taskVars
  <2> QED
    BY <1>1, <2>1, QuietServes
<1>3. TypeOK'
  <2>1. left' \in [Op -> Nat]
    BY SpendType DEF RetryStartup, TypeOK, Op
  <2> QED
    BY <2>1 DEF TypeOK, RetryStartup, Goto, Label, osVars, objVars
<1>4. TasksRefer' /\ AppRefers' /\ MailRefers'
  <2>1. TasksRefer'
    <3>1. \A t \in Task : pc'[t] \notin {"idle", "begin"} =>
            pc[t] \notin {"idle", "begin"} /\ srv'[t] = srv[t]
      BY DEF TypeOK, RetryStartup, Goto, At, osVars, objVars, appVars, taskVars
    <3> QED
      BY <1>1, <1>2, <3>1, TasksKept
  <2>2. AppRefers'
    <3>1. appServer' = appServer
      BY DEF RetryStartup, osVars, objVars, appVars, taskVars
    <3> QED
      BY <1>1, <1>2, <3>1, AppKept
  <2>3. MailRefers'
    <3>1. mail' = mail
      BY DEF RetryStartup, osVars, objVars, appVars, taskVars
    <3> QED
      BY <1>1, <1>2, <3>1, MailKept
  <2> QED
    BY <2>1, <2>2, <2>3
<1> QED
  BY <1>2, <1>3, <1>4, ServerInvParts

LEMMA RespawnTimesOutStep ==
  ASSUME TypeOK, ServerInv, NEW t \in Respawner, RespawnTimesOut(t)
  PROVE  TypeOK' /\ ServerInv' /\ Serves
<1>1. ObjectInv /\ TasksRefer /\ AppRefers /\ MailRefers
  BY ServerInvParts
<1>2. ObjectInv' /\ Serves /\ KeepsMade
  <2>1. UNCHANGED <<proc, handle, dir>>
    BY DEF RespawnTimesOut, osVars, objVars, appVars, taskVars
  <2> QED
    BY <1>1, <2>1, QuietServes
<1>3. TypeOK'
  <2>1. left' \in [Op -> Nat]
    BY SpendType DEF RespawnTimesOut, TypeOK, Op
  <2>2. mail' \in Seq(Posted)
    BY PostType DEF RespawnTimesOut, Report, TypeOK
  <2> QED
    BY <2>1, <2>2 DEF TypeOK, RespawnTimesOut, Report, Goto, Label, osVars, objVars
<1>4. TasksRefer' /\ AppRefers' /\ MailRefers'
  <2>1. TasksRefer'
    <3>1. \A u \in Task : pc'[u] \notin {"idle", "begin"} =>
            pc[u] \notin {"idle", "begin"} /\ srv'[u] = srv[u]
      BY DEF TypeOK, RespawnTimesOut, Report, Goto, At, osVars, objVars, appVars, taskVars
    <3> QED
      BY <1>1, <1>2, <3>1, TasksKept
  <2>2. AppRefers'
    <3>1. appServer' = appServer
      BY DEF RespawnTimesOut, osVars, objVars, appVars, taskVars
    <3> QED
      BY <1>1, <1>2, <3>1, AppKept
  <2>3. MailRefers'
    <3>1. Post("failed", None, None)
      BY DEF RespawnTimesOut, Report
    <3> QED
      BY <1>1, <1>2, <3>1, MailPosted
  <2> QED
    BY <2>1, <2>2, <2>3
<1> QED
  BY <1>2, <1>3, <1>4, ServerInvParts

LEMMA RespawnedStep ==
  ASSUME TypeOK, ServerInv, NEW t \in Respawner, Respawned(t)
  PROVE  TypeOK' /\ ServerInv' /\ Serves
<1>1. ObjectInv /\ TasksRefer /\ AppRefers /\ MailRefers
  BY ServerInvParts
<1>5. Made(srv[t]) /\ srv[t] \in Server /\ port[srv[t]] \in Port \cup {None}
  BY <1>1 DEF Respawned, At, TasksRefer, Made, Task, Restarter, TypeOK
<1>2. ObjectInv' /\ Serves /\ KeepsMade
  <2>1. UNCHANGED <<proc, handle, dir>>
    BY DEF Respawned, osVars, objVars, appVars, taskVars
  <2> QED
    BY <1>1, <2>1, QuietServes
<1>3. TypeOK'
  <2>1. mail' \in Seq(Posted)
    BY <1>5, PostType DEF Respawned, TypeOK
  <2> QED
    BY <1>5, <2>1 DEF TypeOK, Respawned, Goto, Label, osVars, objVars
<1>4. TasksRefer' /\ AppRefers' /\ MailRefers'
  <2>1. TasksRefer'
    <3>1. \A u \in Task : pc'[u] \notin {"idle", "begin"} =>
            pc[u] \notin {"idle", "begin"} /\ srv'[u] = srv[u]
      BY DEF TypeOK, Respawned, Goto, At, osVars, objVars, appVars, taskVars
    <3> QED
      BY <1>1, <1>2, <3>1, TasksKept
  <2>2. AppRefers'
    <3>1. appServer' = appServer
      BY DEF Respawned, osVars, objVars, appVars, taskVars
    <3> QED
      BY <1>1, <1>2, <3>1, AppKept
  <2>3. MailRefers'
    <3>1. Post("up", srv[t], port[srv[t]])
      BY DEF Respawned
    <3> QED
      BY <1>1, <1>2, <1>5, <3>1, MailPosted
  <2> QED
    BY <2>1, <2>2, <2>3
<1> QED
  BY <1>2, <1>3, <1>4, ServerInvParts

LEMMA SwapTeardownStep ==
  ASSUME TypeOK, ServerInv, SwapTeardown
  PROVE  TypeOK' /\ ServerInv' /\ Serves
<1>1. ObjectInv /\ TasksRefer /\ AppRefers /\ MailRefers
  BY ServerInvParts
<1>5. appServer \in Server /\ dir[appServer] # "none"
  BY <1>1 DEF SwapTeardown, AppRefers, Made
<1>2. ObjectInv' /\ Serves /\ KeepsMade
  <2>1. UNCHANGED <<proc, handle, dir>>
    BY DEF SwapTeardown, osVars, objVars, appVars, taskVars
  <2> QED
    BY <1>1, <2>1, QuietServes
<1>3. TypeOK'
  <2>1. left' \in [Op -> Nat]
    BY SpendType DEF SwapTeardown, TypeOK, Op
  <2> QED
    BY <1>5, <2>1 DEF TypeOK, SwapTeardown, Goto, Label, osVars, objVars
<1>4. TasksRefer' /\ AppRefers' /\ MailRefers'
  <2>1. TasksRefer'
    <3>1. /\ Goto(Swap, "teardown") /\ srv' = [srv EXCEPT ![Swap] = appServer]
          /\ Swap \in Task /\ dir'[appServer] # "none"
      BY <1>5 DEF SwapTeardown, Task, Restarter, objVars
    <3> QED
      BY <1>1, <1>2, <1>5, <3>1, TaskGiven
  <2>2. AppRefers'
    <3>1. appServer' = appServer
      BY DEF SwapTeardown, osVars, objVars, appVars, taskVars
    <3> QED
      BY <1>1, <1>2, <3>1, AppKept
  <2>3. MailRefers'
    <3>1. mail' = mail
      BY DEF SwapTeardown, osVars, objVars, appVars, taskVars
    <3> QED
      BY <1>1, <1>2, <3>1, MailKept
  <2> QED
    BY <2>1, <2>2, <2>3
<1> QED
  BY <1>2, <1>3, <1>4, ServerInvParts

LEMMA QuitStep ==
  ASSUME TypeOK, ServerInv, Quit
  PROVE  TypeOK' /\ ServerInv' /\ Serves
<1>1. ObjectInv /\ TasksRefer /\ AppRefers /\ MailRefers
  BY ServerInvParts
<1>2. ObjectInv' /\ Serves /\ KeepsMade
  <2>1. UNCHANGED <<proc, handle, dir>>
    BY DEF Quit, osVars, objVars, appVars, taskVars
  <2> QED
    BY <1>1, <2>1, QuietServes
<1>3. TypeOK'
  <2>1. left' \in [Op -> Nat]
    BY SpendType DEF Quit, TypeOK, Op
  <2> QED
    BY <2>1 DEF TypeOK, Quit, osVars, objVars, taskVars
<1>4. TasksRefer' /\ AppRefers' /\ MailRefers'
  <2>1. TasksRefer'
    <3>1. \A t \in Task : pc'[t] \notin {"idle", "begin"} =>
            pc[t] \notin {"idle", "begin"} /\ srv'[t] = srv[t]
      BY DEF TypeOK, Quit, Goto, At, osVars, objVars, appVars, taskVars
    <3> QED
      BY <1>1, <1>2, <3>1, TasksKept
  <2>2. AppRefers'
    <3>1. appServer' = appServer
      BY DEF Quit, osVars, objVars, appVars, taskVars
    <3> QED
      BY <1>1, <1>2, <3>1, AppKept
  <2>3. MailRefers'
    <3>1. mail' = mail
      BY DEF Quit, osVars, objVars, appVars, taskVars
    <3> QED
      BY <1>1, <1>2, <3>1, MailKept
  <2> QED
    BY <2>1, <2>2, <2>3
<1> QED
  BY <1>2, <1>3, <1>4, ServerInvParts

LEMMA StartupSucceedsStep ==
  ASSUME TypeOK, ServerInv, StartupSucceeds
  PROVE  TypeOK' /\ ServerInv' /\ Serves
<1>1. ObjectInv /\ TasksRefer /\ AppRefers /\ MailRefers
  BY ServerInvParts
<1>5. Made(srv[Start]) /\ srv[Start] \in Server /\ port[srv[Start]] \in Port \cup {None}
  BY <1>1 DEF StartupSucceeds, At, TasksRefer, Made, Task, TypeOK
<1>2. ObjectInv' /\ Serves /\ KeepsMade
  <2>1. UNCHANGED <<proc, handle, dir>>
    BY DEF StartupSucceeds, osVars, objVars, appVars, taskVars
  <2> QED
    BY <1>1, <2>1, QuietServes
<1>3. TypeOK'
  <2>1. mail' \in Seq(Posted)
    BY <1>5, PostType DEF StartupSucceeds, TypeOK
  <2> QED
    BY <1>5, <2>1 DEF TypeOK, StartupSucceeds, Goto, Label, osVars, objVars
<1>4. TasksRefer' /\ AppRefers' /\ MailRefers'
  <2>1. TasksRefer'
    <3>1. \A t \in Task : pc'[t] \notin {"idle", "begin"} =>
            pc[t] \notin {"idle", "begin"} /\ srv'[t] = srv[t]
      BY DEF TypeOK, StartupSucceeds, Goto, At
    <3> QED
      BY <1>1, <1>2, <3>1, TasksKept
  <2>2. AppRefers'
    <3>1. Made(appServer')
      BY <1>5 DEF StartupSucceeds
    <3> QED
      BY <1>1, <1>2, <3>1, AppKept
  <2>3. MailRefers'
    <3>1. Post("up", srv[Start], port[srv[Start]])
      BY DEF StartupSucceeds
    <3> QED
      BY <1>1, <1>2, <1>5, <3>1, MailPosted
  <2> QED
    BY <2>1, <2>2, <2>3
<1> QED
  BY <1>2, <1>3, <1>4, ServerInvParts

LEMMA HandleStep ==
  ASSUME TypeOK, ServerInv, Handle
  PROVE  TypeOK' /\ ServerInv' /\ Serves
<1>1. ObjectInv /\ TasksRefer /\ AppRefers /\ MailRefers
  BY ServerInvParts
<1>5. /\ Head(mail) \in Posted /\ Tail(mail) \in Seq(Posted)
      /\ Head(mail).kind = "up" => Made(Head(mail).srv) /\ Head(mail).srv \in Server
  <2>1. mail # <<>>
    BY DEF Handle
  <2>2. /\ Head(mail) \in Posted /\ Tail(mail) \in Seq(Posted)
        /\ Head(mail) = mail[1] /\ 1 \in DOMAIN mail
    BY <2>1, HeadIsPosted DEF TypeOK
  <2> QED
    BY <1>1, <2>2 DEF MailRefers, Made
<1>2. ObjectInv' /\ Serves /\ KeepsMade
  <2>1. UNCHANGED <<proc, handle, dir>>
    BY DEF Handle, osVars, objVars, appVars, taskVars
  <2> QED
    BY <1>1, <2>1, QuietServes
<1>3. TypeOK'
  <2> QED
    BY <1>5 DEF TypeOK, Handle, Posted, osVars, objVars, taskVars
<1>4. TasksRefer' /\ AppRefers' /\ MailRefers'
  <2>1. TasksRefer'
    <3>1. \A t \in Task : pc'[t] \notin {"idle", "begin"} =>
            pc[t] \notin {"idle", "begin"} /\ srv'[t] = srv[t]
      BY DEF TypeOK, Handle, taskVars
    <3> QED
      BY <1>1, <1>2, <3>1, TasksKept
  <2>2. AppRefers'
    <3>1. appServer' # None => appServer' = appServer \/ Made(appServer')
      BY <1>5 DEF Handle
    <3> QED
      BY <1>1, <1>2, <3>1, AppKept
  <2>3. MailRefers'
    <3>1. mail # <<>> /\ mail' = Tail(mail)
      BY DEF Handle
    <3> QED
      BY <1>1, <1>2, <3>1, MailTaken
  <2> QED
    BY <2>1, <2>2, <2>3
<1> QED
  BY <1>2, <1>3, <1>4, ServerInvParts

LEMMA BootsStep ==
  ASSUME TypeOK, ServerInv, NEW p \in Proc, Boots(p)
  PROVE  TypeOK' /\ ServerInv' /\ Serves
<1>1. ObjectInv /\ TasksRefer /\ AppRefers /\ MailRefers
  BY ServerInvParts
<1>2. ObjectInv' /\ Serves /\ KeepsMade
  <2>1. /\ Live(p) /\ Turns(p, "up") /\ UNCHANGED <<handle, dir>>
        /\ "up" = "up" => proc[p].state = "booting"
    BY DEF Boots, Live, objVars
  <2> QED
    BY <1>1, <2>1, TurnServes
<1>3. TypeOK'
  <2>1. left' \in [Op -> Nat]
    BY SpendType DEF Boots, TypeOK, Op
  <2>2. proc' \in [Proc -> [state : ProcState, owner : Server \cup {None},
                            port : Port \cup {None}, agent : Agent]]
    <3>1. Turns(p, "up")
      BY DEF Boots
    <3>2. "up" \in ProcState
      BY DEF ProcState
    <3> QED
      BY <3>1, <3>2 DEF TypeOK, Turns
  <2> QED
    BY <2>1, <2>2 DEF TypeOK, Boots, objVars, appVars, taskVars
<1>4. TasksRefer' /\ AppRefers' /\ MailRefers'
  <2>1. TasksRefer'
    <3>1. \A t \in Task : pc'[t] \notin {"idle", "begin"} =>
            pc[t] \notin {"idle", "begin"} /\ srv'[t] = srv[t]
      BY DEF TypeOK, Boots, taskVars
    <3> QED
      BY <1>1, <1>2, <3>1, TasksKept
  <2>2. AppRefers'
    <3>1. appServer' = appServer
      BY DEF Boots, appVars
    <3> QED
      BY <1>1, <1>2, <3>1, AppKept
  <2>3. MailRefers'
    <3>1. mail' = mail
      BY DEF Boots, appVars
    <3> QED
      BY <1>1, <1>2, <3>1, MailKept
  <2> QED
    BY <2>1, <2>2, <2>3
<1> QED
  BY <1>2, <1>3, <1>4, ServerInvParts

LEMMA DiesStep ==
  ASSUME TypeOK, ServerInv, NEW p \in Proc, Dies(p)
  PROVE  TypeOK' /\ ServerInv' /\ Serves
<1>1. ObjectInv /\ TasksRefer /\ AppRefers /\ MailRefers
  BY ServerInvParts
<1>2. ObjectInv' /\ Serves /\ KeepsMade
  <2>1. /\ Live(p) /\ Turns(p, "dead") /\ UNCHANGED <<handle, dir>>
        /\ "dead" = "up" => proc[p].state = "booting"
    BY DEF Dies, Live, objVars
  <2> QED
    BY <1>1, <2>1, TurnServes
<1>3. TypeOK'
  <2>1. left' \in [Op -> Nat]
    BY SpendType DEF Dies, TypeOK, Op
  <2>2. proc' \in [Proc -> [state : ProcState, owner : Server \cup {None},
                            port : Port \cup {None}, agent : Agent]]
    <3>1. Turns(p, "dead")
      BY DEF Dies
    <3>2. "dead" \in ProcState
      BY DEF ProcState
    <3> QED
      BY <3>1, <3>2 DEF TypeOK, Turns
  <2> QED
    BY <2>1, <2>2 DEF TypeOK, Dies, objVars, appVars, taskVars
<1>4. TasksRefer' /\ AppRefers' /\ MailRefers'
  <2>1. TasksRefer'
    <3>1. \A t \in Task : pc'[t] \notin {"idle", "begin"} =>
            pc[t] \notin {"idle", "begin"} /\ srv'[t] = srv[t]
      BY DEF TypeOK, Dies, taskVars
    <3> QED
      BY <1>1, <1>2, <3>1, TasksKept
  <2>2. AppRefers'
    <3>1. appServer' = appServer
      BY DEF Dies, appVars
    <3> QED
      BY <1>1, <1>2, <3>1, AppKept
  <2>3. MailRefers'
    <3>1. mail' = mail
      BY DEF Dies, appVars
    <3> QED
      BY <1>1, <1>2, <3>1, MailKept
  <2> QED
    BY <2>1, <2>2, <2>3
<1> QED
  BY <1>2, <1>3, <1>4, ServerInvParts

LEMMA HealthFailsStep ==
  ASSUME TypeOK, ServerInv, NEW t \in Task, HealthFails(t)
  PROVE  TypeOK' /\ ServerInv' /\ Serves
<1>1. ObjectInv /\ TasksRefer /\ AppRefers /\ MailRefers
  BY ServerInvParts
<1>5. srv[t] \in Server
  BY <1>1 DEF HealthFails, At, TasksRefer, Made
<1>2. ObjectInv' /\ Serves /\ KeepsMade
  <2>1. Stop(srv[t])
    BY DEF HealthFails
  <2> QED
    BY <1>1, <1>5, <2>1, StopServes
<1>3. TypeOK'
  <2>1. proc' \in [Proc -> [state : ProcState, owner : Server \cup {None},
                            port : Port \cup {None}, agent : Agent]]
    BY <1>5, StoppedType DEF HealthFails, Stop
  <2>2. mail' \in Seq(Posted)
    BY PostType DEF HealthFails, Report, TypeOK
  <2>3. left' \in [Op -> Nat]
    BY SpendType DEF HealthFails, TypeOK, Op
  <2>4. handle' \in [Server -> Proc \cup {None}] /\ dir' \in [Server -> {"none", "made", "gone"}]
    BY DEF TypeOK, HealthFails, Stop, NoHandle
  <2>5. environ' \in Agent /\ prev' \in [Task -> Agent \cup {None}]
    BY DEF TypeOK, HealthFails
  <2> QED
    BY <2>1, <2>2, <2>3, <2>4, <2>5 DEF TypeOK, HealthFails, Report, Goto, Label
<1>4. TasksRefer' /\ AppRefers' /\ MailRefers'
  <2>1. TasksRefer'
    <3>1. \A u \in Task : pc'[u] \notin {"idle", "begin"} =>
            pc[u] \notin {"idle", "begin"} /\ srv'[u] = srv[u]
      BY DEF TypeOK, HealthFails, Report, Goto, At
    <3> QED
      BY <1>1, <1>2, <3>1, TasksKept
  <2>2. AppRefers'
    <3>1. appServer' = appServer
      BY DEF HealthFails, appVars
    <3> QED
      BY <1>1, <1>2, <3>1, AppKept
  <2>3. MailRefers'
    <3>1. Post("failed", None, None)
      BY DEF HealthFails, Report
    <3> QED
      BY <1>1, <1>2, <3>1, MailPosted
  <2> QED
    BY <2>1, <2>2, <2>3
<1> QED
  BY <1>2, <1>3, <1>4, ServerInvParts

LEMMA ExitStep ==
  ASSUME TypeOK, ServerInv, Exit
  PROVE  TypeOK' /\ ServerInv' /\ Serves
<1>1. ObjectInv /\ TasksRefer /\ AppRefers /\ MailRefers
  BY ServerInvParts
<1>2. ObjectInv' /\ Serves /\ KeepsMade
  <2>1. CASE appServer = None
    <3>1. UNCHANGED <<proc, handle, dir>>
      BY <2>1 DEF Exit
    <3> QED
      BY <1>1, <3>1, QuietServes
  <2>2. CASE appServer # None
    <3>1. Stop(appServer) /\ appServer \in Server
      BY <2>2 DEF Exit, TypeOK
    <3> QED
      BY <1>1, <3>1, StopServes
  <2> QED
    BY <2>1, <2>2
<1>3. TypeOK'
  <2>1. CASE appServer = None
    BY <2>1 DEF TypeOK, Exit, Label
  <2>2. CASE appServer # None
    <3>1. Stop(appServer) /\ appServer \in Server
      BY <2>2 DEF Exit, TypeOK
    <3>2. proc' \in [Proc -> [state : ProcState, owner : Server \cup {None},
                              port : Port \cup {None}, agent : Agent]]
      BY <3>1, StoppedType DEF Stop
    <3>3. handle' \in [Server -> Proc \cup {None}] /\ dir' \in [Server -> {"none", "made", "gone"}]
      BY <3>1 DEF TypeOK, Stop, NoHandle
    <3> QED
      BY <3>2, <3>3 DEF TypeOK, Exit, Label
  <2> QED
    BY <2>1, <2>2
<1>4. TasksRefer' /\ AppRefers' /\ MailRefers'
  <2>1. TasksRefer'
    <3>1. \A t \in Task : pc'[t] \notin {"idle", "begin"} =>
            pc[t] \notin {"idle", "begin"} /\ srv'[t] = srv[t]
      BY DEF TypeOK, Exit, Label
    <3> QED
      BY <1>1, <1>2, <3>1, TasksKept
  <2>2. AppRefers'
    <3>1. appServer' = appServer
      BY DEF Exit, appVars
    <3> QED
      BY <1>1, <1>2, <3>1, AppKept
  <2>3. MailRefers'
    <3>1. mail' = mail
      BY DEF Exit, appVars
    <3> QED
      BY <1>1, <1>2, <3>1, MailKept
  <2> QED
    BY <2>1, <2>2, <2>3
<1> QED
  BY <1>2, <1>3, <1>4, ServerInvParts

LEMMA RestartRefers ==
  ASSUME TypeOK, TasksRefer, MailRefers, KeepsMade, NEW s \in Server, NEW t \in Task,
         NEW over, NEW ops, Restart(t, s, over, ops), dir' = dir, Made(s)
  PROVE  TasksRefer' /\ MailRefers'
<1>1. CASE Spawn(t, s, Stopped(s), IF over = None THEN environ ELSE over) /\ mail' = mail
  <2>1. Goto(t, "polling") /\ srv' = [srv EXCEPT ![t] = s] /\ dir'[s] # "none"
    BY <1>1 DEF Spawn, Made
  <2> QED
    BY <1>1, <2>1, TaskGiven, MailKept
<1>2. CASE Goto(t, "idle") /\ Post("failed", None, None) /\ srv' = srv
  <2>1. \A u \in Task : pc'[u] \notin {"idle", "begin"} =>
          pc[u] \notin {"idle", "begin"} /\ srv'[u] = srv[u]
    BY <1>2 DEF TypeOK, Goto
  <2> QED
    BY <1>2, <2>1, TasksKept, MailPosted
<1> QED
  BY <1>1, <1>2 DEF Restart

LEMMA RespawnStep ==
  ASSUME TypeOK, ServerInv, NEW t \in Respawner, Respawn(t)
  PROVE  TypeOK' /\ ServerInv' /\ Serves
<1>1. ObjectInv /\ TasksRefer /\ AppRefers /\ MailRefers
  BY ServerInvParts
<1>5. /\ appServer \in Server /\ Made(appServer) /\ t \in Task
      /\ staged[appServer] \in Agent \cup {None}
      /\ Restart(t, appServer, staged[appServer],
                 {IF t = Pump THEN "restart" ELSE "login"})
  BY <1>1 DEF Respawn, AppRefers, Made, TypeOK, Task, Restarter
<1>6. dir' = dir
  BY <1>1, <1>5, RestartServes
<1>2. ObjectInv' /\ Serves /\ KeepsMade
  <2> QED
    BY <1>1, <1>5, RestartServes
<1>3. TypeOK'
  <2>1. {IF t = Pump THEN "restart" ELSE "login"} \subseteq Op
    BY DEF Op
  <2>2. /\ proc' \in [Proc -> [state : ProcState, owner : Server \cup {None},
                              port : Port \cup {None}, agent : Agent]]
        /\ environ' \in Agent /\ handle' \in [Server -> Proc \cup {None}]
        /\ port' \in [Server -> Port \cup {None}] /\ dir' = dir
        /\ staged' \in [Server -> Agent \cup {None}]
        /\ pc' \in [Task -> Label] /\ srv' \in [Task -> Server \cup {None}]
        /\ mine' \in [Task -> Proc \cup {None}] /\ prev' \in [Task -> Agent \cup {None}]
        /\ mail' \in Seq(Posted) /\ left' \in [Op -> Nat]
    BY <1>5, <2>1, RestartType
  <2> QED
    BY <2>2 DEF TypeOK, Respawn
<1>4. TasksRefer' /\ AppRefers' /\ MailRefers'
  <2>1. TasksRefer'
    <3> QED
      BY <1>1, <1>2, <1>5, <1>6, RestartRefers
  <2>2. AppRefers'
    <3>1. appServer' = appServer
      BY DEF Respawn, appVars
    <3> QED
      BY <1>1, <1>2, <3>1, AppKept
  <2>3. MailRefers'
    <3> QED
      BY <1>1, <1>2, <1>5, <1>6, RestartRefers
  <2> QED
    BY <2>1, <2>2, <2>3
<1> QED
  BY <1>2, <1>3, <1>4, ServerInvParts

LEMMA SwapRestartStep ==
  ASSUME TypeOK, ServerInv, SwapRestart
  PROVE  TypeOK' /\ ServerInv' /\ Serves
<1>1. ObjectInv /\ TasksRefer /\ AppRefers /\ MailRefers
  BY ServerInvParts
<1>5. PICK a \in Agent : /\ Restart(Swap, srv[Swap], a, {})
                         /\ assistant' = IF pc'[Swap] = "polling" THEN a ELSE rollback
                         /\ srv[Swap] \in Server /\ Made(srv[Swap]) /\ Swap \in Task
  BY <1>1 DEF SwapRestart, At, TasksRefer, Made, Task, Restarter
<1>6. dir' = dir
  BY <1>1, <1>5, RestartServes
<1>2. ObjectInv' /\ Serves /\ KeepsMade
  <2> QED
    BY <1>1, <1>5, RestartServes
<1>3. TypeOK'
  <2>1. {} \subseteq Op
    OBVIOUS
  <2>2. /\ proc' \in [Proc -> [state : ProcState, owner : Server \cup {None},
                              port : Port \cup {None}, agent : Agent]]
        /\ environ' \in Agent /\ handle' \in [Server -> Proc \cup {None}]
        /\ port' \in [Server -> Port \cup {None}] /\ dir' = dir
        /\ staged' \in [Server -> Agent \cup {None}]
        /\ pc' \in [Task -> Label] /\ srv' \in [Task -> Server \cup {None}]
        /\ mine' \in [Task -> Proc \cup {None}] /\ prev' \in [Task -> Agent \cup {None}]
        /\ mail' \in Seq(Posted) /\ left' \in [Op -> Nat]
    BY <1>5, <2>1, RestartType
  <2>3. assistant' \in Agent /\ client' \in Port \cup {None}
    BY <1>5 DEF SwapRestart, TypeOK
  <2> QED
    BY <2>2, <2>3 DEF TypeOK, SwapRestart
<1>4. TasksRefer' /\ AppRefers' /\ MailRefers'
  <2>1. TasksRefer'
    <3> QED
      BY <1>1, <1>2, <1>5, <1>6, RestartRefers
  <2>2. AppRefers'
    <3>1. appServer' = appServer
      BY DEF SwapRestart, appVars
    <3> QED
      BY <1>1, <1>2, <3>1, AppKept
  <2>3. MailRefers'
    <3> QED
      BY <1>1, <1>2, <1>5, <1>6, RestartRefers
  <2> QED
    BY <2>1, <2>2, <2>3
<1> QED
  BY <1>2, <1>3, <1>4, ServerInvParts

LEMMA StartServerStep ==
  ASSUME TypeOK, ServerInv, StartServer
  PROVE  TypeOK' /\ ServerInv' /\ Serves
<1>1. ObjectInv /\ TasksRefer /\ AppRefers /\ MailRefers
  BY ServerInvParts
<1>2. PICK s \in Server :
        /\ dir[s] = "none"
        /\ \/ /\ dir' = [dir EXCEPT ![s] = "made"]
              /\ Spawn(Start, s, proc, assistant)
              /\ UNCHANGED <<mail, left>>
           \/ /\ Spend({"spawnFail"}) /\ dir' = [dir EXCEPT ![s] = "gone"]
              /\ environ' = assistant
              /\ Goto(Start, "idle") /\ Post("failed", None, None)
              /\ UNCHANGED <<proc, handle, port, srv, mine>>
  BY DEF StartServer, Unmade
<1>3. handle[s] = None /\ Stopped(s) = proc
  BY <1>1, <1>2 DEF ObjectInv, OnlyWithConfig, HasConfig, Stopped
<1>4. Start \in Task /\ assistant \in Agent
  BY DEF Task, TypeOK
<1>5. CASE /\ dir' = [dir EXCEPT ![s] = "made"]
           /\ Spawn(Start, s, Stopped(s), assistant)
           /\ UNCHANGED <<mail, left>>
  <2>1. ObjectInv' /\ Serves /\ KeepsMade /\ dir'[s] = "made"
    BY <1>1, <1>2, <1>4, <1>5, SpawnServes
  <2>2. Goto(Start, "polling") /\ srv' = [srv EXCEPT ![Start] = s]
    BY <1>5 DEF Spawn
  <2>3. TasksRefer'
    BY <1>1, <1>4, <2>1, <2>2, TaskGiven
  <2>4. AppRefers' /\ MailRefers'
    BY <1>1, <1>5, <2>1, AppKept, MailKept DEF StartServer
  <2>5. /\ proc' \in [Proc -> [state : ProcState, owner : Server \cup {None},
                              port : Port \cup {None}, agent : Agent]]
        /\ environ' \in Agent /\ handle' \in [Server -> Proc \cup {None}]
        /\ port' \in [Server -> Port \cup {None}]
        /\ pc' \in [Task -> Label] /\ srv' \in [Task -> Server \cup {None}]
        /\ mine' \in [Task -> Proc \cup {None}]
    BY <1>4, <1>5, StoppedType, SpawnType
  <2>6. TypeOK'
    BY <1>5, <2>5 DEF TypeOK, StartServer
  <2> QED
    BY <2>1, <2>3, <2>4, <2>6, ServerInvParts
<1>6. CASE /\ Spend({"spawnFail"}) /\ dir' = [dir EXCEPT ![s] = "gone"]
           /\ environ' = assistant
           /\ Goto(Start, "idle") /\ Post("failed", None, None)
           /\ UNCHANGED <<proc, handle, port, srv, mine>>
  <2>1. Stop(s)
    <3>1. [handle EXCEPT ![s] = None] = handle
      BY <1>3 DEF TypeOK
    <3> QED
      BY <1>3, <1>6, <3>1 DEF Stop, NoHandle
  <2>2. ObjectInv' /\ Serves /\ KeepsMade
    BY <1>1, <2>1, StopServes
  <2>3. \A u \in Task : pc'[u] \notin {"idle", "begin"} =>
          pc[u] \notin {"idle", "begin"} /\ srv'[u] = srv[u]
    BY <1>6 DEF TypeOK, Goto
  <2>4. TasksRefer' /\ AppRefers' /\ MailRefers'
    BY <1>1, <1>6, <2>2, <2>3, TasksKept, AppKept, MailPosted DEF StartServer
  <2>5. left' \in [Op -> Nat]
    BY <1>6, SpendType DEF TypeOK, Op
  <2>6. mail' \in Seq(Posted)
    BY <1>6, PostType DEF TypeOK
  <2>7. TypeOK'
    BY <1>4, <1>6, <2>5, <2>6 DEF TypeOK, StartServer, Goto, Label
  <2> QED
    BY <2>2, <2>4, <2>7, ServerInvParts
<1> QED
  BY <1>2, <1>3, <1>5, <1>6

LEMMA NextStep ==
  ASSUME IInv, Next
  PROVE  IInv' /\ Serves
<1> USE DEF IInv
<1>1. CASE StartServer \/ FirstStartReturns \/ StartupSucceeds \/ RetryStartup
  BY <1>1, StartServerStep, FirstStartReturnsStep, StartupSucceedsStep, RetryStartupStep
<1>2. CASE SwapTeardown \/ SwapRestart \/ SwapSucceeds
  BY <1>2, SwapTeardownStep, SwapRestartStep, SwapSucceedsStep
<1>3. ASSUME NEW t \in Task, HealthAnswer(t) \/ HealthFails(t)
      PROVE  IInv' /\ Serves
  BY <1>3, HealthAnswerStep, HealthFailsStep
<1>4. ASSUME NEW t \in Respawner,
             Respawn(t) \/ RespawnTimesOut(t) \/ RestartReturns(t) \/ Respawned(t)
      PROVE  IInv' /\ Serves
  BY <1>4, RespawnStep, RespawnTimesOutStep, RestartReturnsStep, RespawnedStep
<1>5. ASSUME NEW k \in Proc, Boots(k) \/ Dies(k)
      PROVE  IInv' /\ Serves
  BY <1>5, BootsStep, DiesStep
<1>6. CASE Handle \/ Quit \/ Exit
  BY <1>6, HandleStep, QuitStep, ExitStep
<1> QED
  BY <1>1, <1>2, <1>3, <1>4, <1>5, <1>6 DEF Next

LEMMA StutterStep ==
  ASSUME IInv, UNCHANGED vars
  PROVE  IInv'
BY DEF IInv, vars, osVars, objVars, appVars, taskVars, TypeOK, ServerInv, ObjectInv,
       HandleOwnsLive, HeldIsOwn, OnlyWithConfig, RefersToMade, Made, HasConfig, Live

\* Every variable of the servers and of the tasks that drive them keeps its type.
THEOREM TypeCorrect == Spec => []TypeOK
<1>1. IInv /\ [Next]_vars => IInv'
  BY NextStep, StutterStep
<1>2. IInv => TypeOK
  BY DEF IInv
<1> QED
  BY <1>1, <1>2, InitIInv, PTL DEF Spec

\* No server object ever loses a process it spawned, and one that is spent runs
\* nothing: however many restarts, swaps, crashes and time-outs overlap.
THEOREM HandlesHold == Spec => [](HandleOwnsLive /\ SpentRunsNothing)
<1>1. IInv /\ [Next]_vars => IInv'
  BY NextStep, StutterStep
<1>2. IInv => HandleOwnsLive /\ SpentRunsNothing
  BY DEF IInv, ServerInv, ObjectInv, OnlyWithConfig, SpentRunsNothing, HasConfig
<1> QED
  BY <1>1, <1>2, InitIInv, PTL DEF Spec

-----------------------------------------------------------------------------
(* The refinement *)

LEMMA PhaseSame ==
  ASSUME \A r \in Server : Phase(r)' = Phase(r)
  PROVE  phases' = phases
BY DEF phases

LEMMA PhaseBecomes ==
  ASSUME NEW s \in Server, \A r \in Server \ {s} : Phase(r)' = Phase(r)
  PROVE  phases' = [phases EXCEPT ![s] = Phase(s)']
BY DEF phases

LEMMA ServesImplements ==
  ASSUME Serves
  PROVE  [Service!Next]_phases
<1>1. CASE \A s \in Server : Phase(s)' = Phase(s)
  BY <1>1, PhaseSame
<1>2. ASSUME NEW s \in Server, ServiceStep(s)
      PROVE  [Service!Next]_phases
  <2>1. phases' = [phases EXCEPT ![s] = Phase(s)'] /\ phases[s] = Phase(s)
    BY <1>2, PhaseBecomes DEF ServiceStep, phases
  <2>2. CASE Phase(s)' = Phase(s)
    <3>1. \A r \in Server : Phase(r)' = Phase(r)
      BY <1>2, <2>2 DEF ServiceStep
    <3> QED
      BY <3>1, PhaseSame
  <2>3. CASE Phase(s) \in {"absent", "down", "serving"} /\ Phase(s)' = "starting"
    <3>1. Service!BringUp(s)
      BY <2>1, <2>3 DEF Service!BringUp, Service!Becomes, phases
    <3> QED
      BY <3>1 DEF Service!Next
  <2>4. CASE Phase(s) = "starting" /\ Phase(s)' = "serving"
    <3>1. Service!Answer(s)
      BY <2>1, <2>4 DEF Service!Answer, Service!Becomes, phases
    <3> QED
      BY <3>1 DEF Service!Next
  <2>5. CASE Phase(s) \in {"starting", "serving"} /\ Phase(s)' = "down"
    <3>1. Service!GoDown(s)
      BY <2>1, <2>5 DEF Service!GoDown, Service!Becomes, phases
    <3> QED
      BY <3>1 DEF Service!Next
  <2>6. CASE Phase(s) # "spent" /\ Phase(s)' = "spent"
    <3>1. Service!Spend(s)
      BY <2>1, <2>6 DEF Service!Spend, Service!Becomes, phases
    <3> QED
      BY <3>1 DEF Service!Next
  <2> QED
    BY <1>2, <2>2, <2>3, <2>4, <2>5, <2>6 DEF ServiceStep
<1> QED
  BY <1>1, <1>2 DEF Serves

\* Every ServerProcess object is the service its holders take it for: what is
\* spent stays spent, and what serves was started.
THEOREM Implements == Spec => ServiceSpec
<1>1. Init => Service!Init
  BY DEF Init, Service!Init, Phase, phases, HasConfig
<1>2. IInv /\ [Next]_vars => IInv' /\ [Service!Next]_phases
  <2>1. ASSUME IInv, Next PROVE IInv' /\ [Service!Next]_phases
    BY <2>1, NextStep, ServesImplements
  <2>2. ASSUME IInv, UNCHANGED vars PROVE IInv' /\ [Service!Next]_phases
    <3>1. \A r \in Server : Phase(r)' = Phase(r)
      BY <2>2 DEF vars, osVars, objVars, Phase, Live, HasConfig
    <3> QED
      BY <2>2, <3>1, StutterStep, PhaseSame
  <2> QED
    BY <2>1, <2>2
<1> QED
  BY <1>1, <1>2, InitIInv, PTL DEF Spec, ServiceSpec, Service!Spec
-----------------------------------------------------------------------------
(* The assistant that is served *)

\* The session has made one object at most, and whatever it asked for was created.
Made1 == \A r, s \in Server : Made(r) /\ Made(s) => r = s
AllSpawned == left["spawnFail"] = Budget["spawnFail"]
\* What the program shows, what os.environ holds, what is staged for the next restart
\* and what the process runs are the same assistant.
Agrees(s) ==
  /\ environ = assistant /\ staged[s] \in {None, assistant}
  /\ handle[s] # None => proc[handle[s]].agent = assistant
\* Nothing is staged in an object that is not made; and as long as there is one object,
\* what it has been told and what the app shows agree.
AgentInv ==
  /\ IsFiniteSet(Server \ Unmade)
  /\ \A s \in Unmade : staged[s] = None
  /\ left["spawnFail"] <= Budget["spawnFail"]
  /\ Made1 /\ AllSpawned => \A s \in Server : HasConfig(s) => Agrees(s)

LEMMA MadeIs == \A s \in Server : Made(s) <=> s \notin Unmade
BY DEF Made, Unmade

LEMMA Spending ==
  ASSUME TypeOK, UNCHANGED left \/ \E ops : Spend(ops)
  PROVE  /\ left'["spawnFail"] <= left["spawnFail"]
         /\ left["spawnFail"] \in Nat /\ Budget["spawnFail"] \in Nat
<1>1. "spawnFail" \in Op
  BY DEF Op
<1>2. left["spawnFail"] \in Nat /\ Budget["spawnFail"] \in Nat
  BY <1>1, BudgetAssumption DEF TypeOK
<1>3. CASE UNCHANGED left
  BY <1>2, <1>3
<1>4. ASSUME NEW ops, Spend(ops)
      PROVE  left'["spawnFail"] <= left["spawnFail"]
  BY <1>1, <1>2, <1>4 DEF Spend
<1> QED
  BY <1>2, <1>3, <1>4

\* The parts of AgentInv a step does not disturb, when it makes no object, or one.
LEMMA AgentParts ==
  ASSUME TypeOK, TypeOK', AgentInv, UNCHANGED left \/ \E ops : Spend(ops), KeepsMade,
         NEW r, \A s \in Server \ {r} : dir[s] = "none" => dir'[s] = "none",
         \A s \in Server : dir'[s] = "none" => staged'[s] \in {None, staged[s]},
         (Made1 /\ AllSpawned /\ Made1' /\ AllSpawned')
           => \A s \in Server : HasConfig(s)' => Agrees(s)'
  PROVE  AgentInv'
<1>1. IsFiniteSet(Server \ Unmade')
  <2>1. IsFiniteSet((Server \ Unmade) \cup {r})
    BY FS_AddElement DEF AgentInv
  <2>2. Server \ Unmade' \in SUBSET ((Server \ Unmade) \cup {r})
    BY DEF Unmade
  <2> QED
    BY <2>1, <2>2, FS_Subset
<1>2. \A s \in Server : dir'[s] = "none" => dir[s] = "none"
  BY DEF KeepsMade, Made
<1>3. \A s \in Unmade' : staged'[s] = None
  <2> SUFFICES ASSUME NEW s \in Server, dir'[s] = "none"
               PROVE  staged'[s] = None
    BY DEF Unmade
  <2> QED
    BY <1>2 DEF AgentInv, Unmade
<1>4. /\ left'["spawnFail"] <= Budget["spawnFail"]
      /\ AllSpawned' => AllSpawned
  <2>1. left'["spawnFail"] \in Int
    BY DEF TypeOK, Op
  <2> QED
    BY <2>1, Spending DEF AgentInv, AllSpawned
<1>5. Made1' => Made1
  BY <1>2 DEF Made1, Made
<1> QED
  BY <1>1, <1>3, <1>4, <1>5 DEF AgentInv

\* A step that leaves the objects as they are; a message in Respawner takes back what it
\* had staged.
LEMMA AgentSame ==
  ASSUME TypeOK, TypeOK', AgentInv, UNCHANGED left \/ \E ops : Spend(ops),
         UNCHANGED <<environ, dir, handle, assistant>>,
         \A s \in Server : staged'[s] \in {None, staged[s]},
         \A p \in Proc : proc'[p].agent = proc[p].agent
  PROVE  AgentInv'
<1>1. KeepsMade
  BY DEF KeepsMade, Made
<1>2. ASSUME Made1, AllSpawned, NEW s \in Server, HasConfig(s)'
      PROVE  Agrees(s)'
  <2>1. Agrees(s)
    BY <1>2 DEF AgentInv, HasConfig
  <2>2. handle[s] # None => handle[s] \in Proc
    BY DEF TypeOK
  <2> QED
    BY <2>1, <2>2 DEF Agrees
<1> QED
  BY <1>1, <1>2, AgentParts

\* The one object that is made is stopped for good.
LEMMA AgentStopped ==
  ASSUME TypeOK, TypeOK', AgentInv, UNCHANGED left \/ \E ops : Spend(ops),
         NEW s \in Server, Made(s), Stop(s), UNCHANGED staged
  PROVE  AgentInv'
<1>1. dir'[s] = "gone" /\ \A r \in Server \ {s} : dir'[r] = dir[r]
  BY DEF Stop, TypeOK
<1>2. KeepsMade
  BY <1>1 DEF KeepsMade, Made
<1>3. ASSUME Made1, NEW r \in Server, HasConfig(r)'
      PROVE  FALSE
  <2>1. r # s /\ Made(r)
    BY <1>1, <1>3 DEF HasConfig, Made
  <2> QED
    BY <1>3, <2>1 DEF Made1
<1>4. \A r \in Server \ {s} : dir[r] = "none" => dir'[r] = "none"
  BY <1>1
<1> QED
  BY <1>2, <1>3, <1>4, AgentParts

\* What a new process is told is what the app shows.
LEMMA AgentRestarted ==
  ASSUME TypeOK, TypeOK', AgentInv, NEW s \in Server, Made(s), NEW t \in Task,
         NEW over, NEW ops, Restart(t, s, over, ops), UNCHANGED dir,
         Agrees(s) /\ pc'[t] = "polling" =>
           over = assistant' \/ (over = None /\ assistant' = assistant)
  PROVE  AgentInv'
<1>1. UNCHANGED left \/ \E o : Spend(o)
  BY DEF Restart
<1>2. KeepsMade
  BY DEF KeepsMade, Made
<1>3. staged'[s] = over /\ \A r \in Server \ {s} : staged'[r] = staged[r]
  BY DEF Restart, TypeOK
<1>4. \A r \in Server : dir'[r] = "none" => staged'[r] \in {None, staged[r]}
  BY <1>3 DEF Made
<1>5. ASSUME Made1, AllSpawned, AllSpawned', NEW r \in Server, HasConfig(r)'
      PROVE  Agrees(r)'
  <2>1. r = s /\ HasConfig(s)
    BY <1>5 DEF HasConfig, Made, Made1
  <2>2. Agrees(s)
    BY <1>5, <2>1 DEF AgentInv
  <2>3. ~Spend(ops \cup {"spawnFail"})
    <3>1. "spawnFail" \in Op
      BY DEF Op
    <3>2. left["spawnFail"] \in Nat /\ left'["spawnFail"] = left["spawnFail"]
      BY <1>5, <3>1 DEF AllSpawned, TypeOK
    <3> QED
      BY <3>1, <3>2 DEF Spend
  <2>4. Spawn(t, s, Stopped(s), IF over = None THEN environ ELSE over)
    BY <2>1, <2>3 DEF Restart
  <2>5. PICK q \in Port, p \in Unborn :
          /\ proc' = [Stopped(s) EXCEPT ![p] = [state |-> "booting", owner |-> s, port |-> q,
                       agent |-> IF over = None THEN environ ELSE over]]
          /\ handle' = [handle EXCEPT ![s] = p]
          /\ environ' = IF over = None THEN environ ELSE over
          /\ Goto(t, "polling")
    BY <2>4 DEF Spawn
  <2>6. p \in Proc /\ Stopped(s) \in [Proc -> [state : ProcState, owner : Server \cup {None},
                                              port : Port \cup {None}, agent : Agent]]
    BY StoppedType DEF Unborn
  <2>7. proc'[p].agent = environ' /\ handle'[s] = p /\ pc'[t] = "polling"
    <3>1. proc' = [Stopped(s) EXCEPT ![p] = [state |-> "booting", owner |-> s, port |-> q,
                                             agent |-> environ']]
      BY <2>5, Zenon
    <3>2. proc'[p].agent = environ'
      BY <2>6, <3>1
    <3>3. handle'[s] = p
      BY <2>5 DEF TypeOK
    <3>4. pc'[t] = "polling"
      BY <2>5 DEF TypeOK, Goto
    <3> QED
      BY <3>2, <3>3, <3>4
  <2>8. environ' = assistant' /\ over \in {None, assistant'}
    <3>1. environ = assistant /\ environ' = IF over = None THEN environ ELSE over
      BY <2>2, <2>5 DEF Agrees
    <3>2. assistant' # None
      BY NoneAssumption DEF TypeOK
    <3>3. over = assistant' \/ (over = None /\ assistant' = assistant)
      BY <2>2, <2>7
    <3> QED
      BY <3>1, <3>2, <3>3
  <2> QED
    BY <1>3, <2>1, <2>7, <2>8 DEF Agrees
<1>6. \A r \in Server \ {None} : dir[r] = "none" => dir'[r] = "none"
  OBVIOUS
<1> QED
  BY <1>1, <1>2, <1>4, <1>5, <1>6, AgentParts

\* The first object is started with what the app shows, and nothing is staged in it.
LEMMA AgentStarted ==
  ASSUME TypeOK, TypeOK', AgentInv, ObjectInv, StartServer
  PROVE  AgentInv'
<1>1. PICK s \in Server :
        /\ dir[s] = "none"
        /\ \/ /\ dir' = [dir EXCEPT ![s] = "made"]
              /\ Spawn(Start, s, proc, assistant)
              /\ UNCHANGED <<mail, left>>
           \/ /\ Spend({"spawnFail"}) /\ dir' = [dir EXCEPT ![s] = "gone"]
  BY DEF StartServer, Unmade
<1>2. UNCHANGED <<staged, assistant>>
  BY DEF StartServer
<1>3. UNCHANGED left \/ \E o : Spend(o)
  BY <1>1
<1>4. dir'[s] # "none" /\ \A r \in Server \ {s} : dir'[r] = dir[r]
  BY <1>1 DEF TypeOK
<1>5. KeepsMade
  BY <1>4 DEF KeepsMade, Made
<1>6. ASSUME AllSpawned, Made1', AllSpawned', NEW r \in Server, HasConfig(r)'
      PROVE  Agrees(r)'
  <2>1. r = s
    BY <1>4, <1>6 DEF HasConfig, Made1, Made
  <2>2. ~Spend({"spawnFail"})
    <3>1. "spawnFail" \in Op
      BY DEF Op
    <3>2. left["spawnFail"] \in Nat /\ left'["spawnFail"] = left["spawnFail"]
      BY <1>6, <3>1 DEF AllSpawned, TypeOK
    <3> QED
      BY <3>1, <3>2 DEF Spend
  <2>3. PICK q \in Port, p \in Unborn :
          /\ proc' = [proc EXCEPT ![p] = [state |-> "booting", owner |-> s, port |-> q,
                                         agent |-> assistant]]
          /\ handle' = [handle EXCEPT ![s] = p] /\ environ' = assistant
    BY <1>1, <2>2 DEF Spawn
  <2>4. proc'[p].agent = assistant /\ handle'[s] = p
    BY <2>3 DEF TypeOK, Unborn
  <2>5. staged[s] = None
    BY <1>1 DEF AgentInv, Unmade
  <2> QED
    BY <1>2, <2>1, <2>3, <2>4, <2>5 DEF Agrees
<1>7. \A r \in Server : dir'[r] = "none" => staged'[r] \in {None, staged[r]}
  BY <1>2
<1>8. \A r \in Server \ {s} : dir[r] = "none" => dir'[r] = "none"
  BY <1>4
<1> QED
  BY <1>3, <1>5, <1>6, <1>7, <1>8, AgentParts

LEMMA AgentStep ==
  ASSUME IInv, AgentInv, Next
  PROVE  AgentInv'
<1>1. TypeOK /\ TypeOK' /\ ObjectInv /\ TasksRefer /\ AppRefers
  BY NextStep, ServerInvParts DEF IInv
<1>2. CASE \/ RetryStartup \/ FirstStartReturns \/ StartupSucceeds \/ SwapTeardown \/ Handle \/ Quit
           \/ \E t \in Task : HealthAnswer(t)
           \/ \E t \in Respawner : Respawned(t)
  <2>1. UNCHANGED left \/ \E ops : Spend(ops)
    BY <1>2 DEF RetryStartup, FirstStartReturns, StartupSucceeds, SwapTeardown, Handle, Quit,
       HealthAnswer, Respawned
  <2>2. UNCHANGED <<proc, environ, dir, handle, staged, assistant>>
    BY <1>2 DEF RetryStartup, FirstStartReturns, StartupSucceeds, SwapTeardown, Handle, Quit,
       HealthAnswer, Respawned, osVars, objVars, appVars
  <2> QED
    BY <1>1, <2>1, <2>2, AgentSame
<1>3. CASE SwapSucceeds \/ \E t \in Respawner : RestartReturns(t)
  <2>1. UNCHANGED <<left, proc, environ, dir, handle, assistant>>
    BY <1>3 DEF SwapSucceeds, RestartReturns, osVars, appVars
  <2>2. PICK t : staged' = [staged EXCEPT ![srv[t]] = None]
    BY <1>3 DEF SwapSucceeds, RestartReturns
  <2>3. \A s \in Server : staged'[s] \in {None, staged[s]}
    BY <1>1, <2>2 DEF TypeOK
  <2> QED
    BY <1>1, <2>1, <2>3, AgentSame
<1>4. ASSUME NEW t \in Respawner, RespawnTimesOut(t)
      PROVE  AgentInv'
  <2>1. t # Swap
    BY TaskAssumption DEF Respawner
  <2>2. UNCHANGED <<proc, environ, dir, handle, staged>> /\ \E ops : Spend(ops)
    BY <1>4 DEF RespawnTimesOut, osVars, objVars
  <2>3. UNCHANGED assistant
    BY <1>4, <2>1 DEF RespawnTimesOut, Report
  <2> QED
    BY <1>1, <2>2, <2>3, AgentSame
<1>5. ASSUME NEW p \in Proc, Boots(p) \/ Dies(p)
      PROVE  AgentInv'
  <2>1. UNCHANGED left \/ \E ops : Spend(ops)
    BY <1>5 DEF Boots, Dies
  <2>2. UNCHANGED <<environ, dir, handle, staged, assistant>>
    BY <1>5 DEF Boots, Dies, objVars, appVars
  <2>3. \A k \in Proc : proc'[k].agent = proc[k].agent
    <3>1. PICK st : proc' = [proc EXCEPT ![p].state = st]
      BY <1>5 DEF Boots, Dies, Turns
    <3> QED
      BY <1>1, <3>1 DEF TypeOK
  <2> QED
    BY <1>1, <2>1, <2>2, <2>3, AgentSame
<1>6. ASSUME NEW t \in Task, HealthFails(t)
      PROVE  AgentInv'
  <2>1. srv[t] \in Server /\ Made(srv[t])
    BY <1>1, <1>6 DEF HealthFails, At, TasksRefer, Made
  <2>2. Stop(srv[t]) /\ UNCHANGED staged /\ (UNCHANGED left \/ \E ops : Spend(ops))
    BY <1>6 DEF HealthFails
  <2> QED
    BY <1>1, <2>1, <2>2, AgentStopped
<1>7. CASE Exit
  <2>1. CASE appServer = None
    <3>1. UNCHANGED <<proc, environ, dir, handle, staged, assistant, left>>
      BY <1>7, <2>1 DEF Exit
    <3> QED
      BY <1>1, <3>1, AgentSame
  <2>2. CASE appServer # None
    <3>1. Stop(appServer) /\ appServer \in Server /\ Made(appServer) /\ UNCHANGED <<staged, left>>
      BY <1>1, <1>7, <2>2 DEF Exit, TypeOK, AppRefers
    <3> QED
      BY <1>1, <3>1, AgentStopped
  <2> QED
    BY <2>1, <2>2
<1>8. ASSUME NEW t \in Respawner, Respawn(t)
      PROVE  AgentInv'
  <2>1. /\ appServer \in Server /\ Made(appServer) /\ t \in Task
        /\ Restart(t, appServer, staged[appServer],
                   {IF t = Pump THEN "restart" ELSE "login"})
        /\ UNCHANGED assistant
    <3>1. appServer # None /\ t \in Task
      BY <1>8 DEF Respawn, Task, Restarter
    <3>2. appServer \in Server /\ Made(appServer)
      BY <1>1, <3>1 DEF AppRefers, Made
    <3> QED
      BY <1>8, <3>1, <3>2 DEF Respawn
  <2>2. UNCHANGED dir
    <3>1. staged[appServer] \in Agent \cup {None}
      BY <1>1, <2>1 DEF TypeOK
    <3> QED
      BY <1>1, <2>1, <3>1, RestartServes
  <2>3. Agrees(appServer) => staged[appServer] = assistant' \/ staged[appServer] = None
    BY <2>1 DEF Agrees
  <2> QED
    BY <1>1, <2>1, <2>2, <2>3, AgentRestarted
<1>9. CASE SwapRestart
  <2>1. PICK a \in Agent : /\ Restart(Swap, srv[Swap], a, {})
                           /\ assistant' = IF pc'[Swap] = "polling" THEN a ELSE rollback
                           /\ srv[Swap] \in Server /\ Made(srv[Swap]) /\ Swap \in Task
    BY <1>1, <1>9 DEF SwapRestart, At, TasksRefer, Made, Task, Restarter
  <2>2. UNCHANGED dir
    BY <1>1, <2>1, RestartServes DEF IInv
  <2> QED
    BY <1>1, <2>1, <2>2, AgentRestarted
<1>10. CASE StartServer
  BY <1>1, <1>10, AgentStarted
<1> QED
  BY <1>2, <1>3, <1>4, <1>5, <1>6, <1>7, <1>8, <1>9, <1>10 DEF Next

\* A server at rest runs the assistant the session shows: however many restarts, swaps,
\* crashes and time-outs overlap, as long as there is one object, and every process that is
\* asked for can be created (update_env, _scoped_env_overrides, the rollback of a swap).
THEOREM AssistantIsServed == Spec => []ServesAssistant
<1>1. Init => AgentInv
  <2> SUFFICES ASSUME Init
               PROVE  AgentInv
    OBVIOUS
  <2>1. Server \ Unmade = {}
    BY DEF Init, Unmade
  <2>2. "spawnFail" \in Op /\ left = Budget
    BY DEF Init, Op
  <2>3. left["spawnFail"] <= Budget["spawnFail"]
    BY <2>2, BudgetAssumption
  <2> QED
    BY <2>1, <2>3, FS_EmptySet DEF Init, AgentInv, HasConfig, Unmade
<1>2. IInv /\ AgentInv /\ [Next]_vars => AgentInv'
  <2>1. ASSUME AgentInv, UNCHANGED vars
        PROVE  AgentInv'
    BY <2>1 DEF vars, osVars, objVars, appVars, taskVars, AgentInv, Unmade, Made1, Made,
       AllSpawned, HasConfig, Agrees
  <2> QED
    BY <2>1, AgentStep
<1>3. IInv /\ [Next]_vars => IInv'
  BY NextStep, StutterStep
<1>4. IInv /\ AgentInv => ServesAssistant
  <2> SUFFICES ASSUME IInv, AgentInv, appServer # None, handle[appServer] # None, OneServer,
                      AllSpawned
               PROVE  proc[handle[appServer]].agent = assistant
    BY DEF ServesAssistant, Serving, AllSpawned
  <2>1. PICK r : Server \ Unmade = {r}
    BY FS_Singleton DEF OneServer, AgentInv
  <2>2. Made1
    BY <2>1, MadeIs DEF Made1, Made
  <2>3. appServer \in Server
    BY DEF IInv, TypeOK
  <2>4. HasConfig(appServer)
    BY <2>3 DEF IInv, ServerInv, ObjectInv, OnlyWithConfig
  <2> QED
    BY <2>2, <2>3, <2>4 DEF AgentInv, Agrees
<1> QED
  BY <1>1, <1>2, <1>3, <1>4, InitIInv, PTL DEF Spec
=============================================================================
