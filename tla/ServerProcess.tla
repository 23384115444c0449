--------------------------- MODULE ServerProcess ---------------------------
(***************************************************************************)
(* The langgraph server subprocesses of the program: the ServerProcess     *)
(* objects (server.py), their first start (server_manager.py), and the     *)
(* tasks of the app that start, restart and stop them (app.py).  Each      *)
(* stretch of code between two awaits is one action: stopping a process    *)
(* blocks the event loop, waiting for its health check does not.           *)
(***************************************************************************)
EXTENDS Naturals, Sequences, FiniteSets

CONSTANTS
  Server,   \* the ServerProcess objects
  Proc,     \* the operating system processes, bounding how often one is spawned
  Port,     \* TCP ports
  Agent,    \* assistant ids
  First,    \* the assistant the program starts with
  None,
  Pump,     \* the app's message pump, which runs /restart
  Login,    \* the worker of an MCP login, at its refresh
  Swap,     \* the _restart_server_for_agent_swap worker
  Start,    \* the _start_server_background worker
  Budget    \* [Op -> Nat]: how often each operation and fault may happen

Respawner == {Pump, Login}
Restarter == Respawner \cup {Swap}
Task == Restarter \cup {Start}
Op == {"restart", "login", "swap", "retry", "quit", "crash", "slow", "spawnFail"}

ASSUME TaskAssumption ==
  Pump \notin {Login, Swap, Start} /\ Login \notin {Swap, Start} /\ Swap # Start
ASSUME FirstAssumption == First \in Agent
ASSUME NoneAssumption == None \notin Server \cup Proc \cup Port \cup Agent
ASSUME BudgetAssumption == Budget \in [Op -> Nat]

VARIABLES
  \* the operating system
  proc,       \* [Proc -> its state, the object that spawned it, port, assistant]
  environ,    \* DEEPAGENTS_CODE_SERVER_ASSISTANT_ID in os.environ
  \* the ServerProcess objects
  handle,     \* [Server -> _process]
  dir,        \* [Server -> config_dir: "none", "made", or "gone"]
  port,       \* [Server -> port]
  staged,     \* [Server -> the assistant in _env_overrides, or None]
  \* the app
  appServer,  \* _server_proc
  assistant,  \* _assistant_id, also in _server_kwargs
  client,     \* the port _agent talks to, or None
  failed,     \* _server_startup_error is not None
  mail,       \* the ServerReady and ServerStartFailed messages posted
  quit,       \* "no", "asked", "done"
  \* the tasks
  pc,         \* [Task -> where it stands]
  srv,        \* [Task -> the object it works on]
  mine,       \* [Task -> the process its health check watches]
  prev,       \* [Task -> what it would restore in os.environ, or None]
  rollback,   \* previous_agent, a local of the swap
  left        \* [Op -> Nat]: what remains of Budget

osVars   == <<proc, environ>>
objVars  == <<handle, dir, port, staged>>
appVars  == <<appServer, assistant, client, failed, mail, quit>>
taskVars == <<pc, srv, mine, prev, rollback>>
vars == <<osVars, objVars, appVars, taskVars, left>>

Label == {"idle", "begin", "teardown", "polling", "answered", "ready"}
ProcState == {"unborn", "booting", "up", "dead"}
Posted == [kind : {"up", "failed"}, srv : Server \cup {None}, port : Port \cup {None}]

TypeOK ==
  /\ proc \in [Proc -> [state : ProcState, owner : Server \cup {None},
                        port : Port \cup {None}, agent : Agent]]
  /\ environ \in Agent
  /\ handle \in [Server -> Proc \cup {None}]
  /\ dir \in [Server -> {"none", "made", "gone"}]
  /\ port \in [Server -> Port \cup {None}]
  /\ staged \in [Server -> Agent \cup {None}]
  /\ appServer \in Server \cup {None} /\ assistant \in Agent
  /\ client \in Port \cup {None} /\ failed \in BOOLEAN
  /\ mail \in Seq(Posted) /\ quit \in {"no", "asked", "done"}
  /\ pc \in [Task -> Label] /\ srv \in [Task -> Server \cup {None}]
  /\ mine \in [Task -> Proc \cup {None}]
  /\ prev \in [Task -> Agent \cup {None}] /\ rollback \in Agent
  /\ left \in [Op -> Nat]

Live(p) == proc[p].state \in {"booting", "up"}

Init ==
  /\ proc = [p \in Proc |-> [state |-> "unborn", owner |-> None, port |-> None,
                             agent |-> First]]
  /\ environ = First
  /\ handle = [s \in Server |-> None] /\ dir = [s \in Server |-> "none"]
  /\ port = [s \in Server |-> None] /\ staged = [s \in Server |-> None]
  /\ appServer = None /\ assistant = First /\ client = None
  /\ failed = FALSE /\ mail = <<>> /\ quit = "no"
  /\ pc = [t \in Task |-> IF t = Start THEN "begin" ELSE "idle"]
  /\ srv = [t \in Task |-> None] /\ mine = [t \in Task |-> None]
  /\ prev = [t \in Task |-> None] /\ rollback = First
  /\ left = Budget

-----------------------------------------------------------------------------
(* Helpers *)

Spend(ops) ==
  /\ \A o \in ops : left[o] > 0
  /\ left' = [o \in Op |-> IF o \in ops THEN left[o] - 1 ELSE left[o]]
At(t, l) == pc[t] = l /\ quit # "done"
Goto(t, l) == pc' = [pc EXCEPT ![t] = l]
Post(kind, s, q) == mail' = Append(mail, [kind |-> kind, srv |-> s, port |-> q])

\* A bug to catch: a restart that does not stop the process it replaces.
StoppedLater(s) == proc
\* The processes after _stop_process of s: its process, if it has one, is dead.
Stopped(s) ==
  IF handle[s] = None THEN proc ELSE [proc EXCEPT ![handle[s]].state = "dead"]
NoHandle(s) == handle' = [handle EXCEPT ![s] = None]

\* stop(): no process, and the directory the object owns is removed.
Stop(s) == proc' = Stopped(s) /\ NoHandle(s) /\ dir' = [dir EXCEPT ![s] = "gone"]

\* The synchronous part of start(): a port that is not in use, and a process
\* with a copy of os.environ.
Free(q, ps) == \A p \in Proc : ps[p].state \in {"booting", "up"} => ps[p].port # q
Unborn == {p \in Proc : proc[p].state = "unborn"}
\* A bug to catch: the environment is copied before the overrides are applied.
SpawnEarly(t, s, ps, env) ==
  \E q \in Port, p \in Unborn :
    /\ Free(q, ps) /\ p = CHOOSE r \in Unborn : TRUE
    /\ proc' = [ps EXCEPT ![p] = [state |-> "booting", owner |-> s, port |-> q,
                                  agent |-> environ]]
    /\ handle' = [handle EXCEPT ![s] = p] /\ port' = [port EXCEPT ![s] = q]
    /\ environ' = env
    /\ srv' = [srv EXCEPT ![t] = s] /\ mine' = [mine EXCEPT ![t] = p]
    /\ Goto(t, "polling")

Spawn(t, s, ps, env) ==
  \E q \in Port, p \in Unborn :
    /\ Free(q, ps) /\ p = CHOOSE r \in Unborn : TRUE
    /\ proc' = [ps EXCEPT ![p] = [state |-> "booting", owner |-> s, port |-> q,
                                  agent |-> env]]
    /\ handle' = [handle EXCEPT ![s] = p] /\ port' = [port EXCEPT ![s] = q]
    /\ environ' = env
    /\ srv' = [srv EXCEPT ![t] = s] /\ mine' = [mine EXCEPT ![t] = p]
    /\ Goto(t, "polling")

\* How the caller of a start or restart that failed reports it: a swap goes
\* back to the previous assistant, and every caller posts ServerStartFailed.
Report(t) ==
  /\ Goto(t, "idle") /\ Post("failed", None, None)
  /\ assistant' = IF t = Swap THEN rollback ELSE assistant
  /\ client' = IF t = Swap THEN None ELSE client

\* A bug to catch: a restart does not look for langgraph.json.
AssumeConfig(s) == TRUE

\* restart(), up to its first await: the process is stopped, the staged
\* assistant applied, and a new process spawned.  Without langgraph.json, or
\* when the process cannot be created, start() raises before its try, so
\* os.environ is rolled back and the overrides stay staged.
HasConfig(s) == dir[s] = "made"
Restart(t, s, over, ops) ==
  /\ staged' = [staged EXCEPT ![s] = over]
  /\ \/ /\ HasConfig(s)
        /\ Spawn(t, s, Stopped(s), IF over = None THEN environ ELSE over)
        /\ prev' = [prev EXCEPT ![t] = IF over = None THEN None ELSE environ]
        /\ Spend(ops) /\ UNCHANGED <<dir, mail>>
     \/ /\ Spend(IF HasConfig(s) THEN ops \cup {"spawnFail"} ELSE ops)
        /\ proc' = Stopped(s) /\ NoHandle(s)
        /\ Goto(t, "idle") /\ Post("failed", None, None)
        /\ UNCHANGED <<dir, port, environ, srv, mine, prev>>

-----------------------------------------------------------------------------
(* The startup worker *)

\* _start_server_background, from the model's creation to the first await of
\* start(): the configuration is written to os.environ and a new object made.
Unmade == {s \in Server : dir[s] = "none"}
StartServer ==
  /\ At(Start, "begin")
  /\ \E s \in Unmade :
       /\ s = CHOOSE r \in Unmade : TRUE
       /\ \/ /\ dir' = [dir EXCEPT ![s] = "made"]
             /\ Spawn(Start, s, proc, assistant)
             /\ UNCHANGED <<mail, left>>
          \/ \* The process cannot be created: start_server_and_get_agent stops it.
             /\ Spend({"spawnFail"})
             /\ dir' = [dir EXCEPT ![s] = "gone"]
             /\ environ' = assistant
             /\ Goto(Start, "idle") /\ Post("failed", None, None)
             /\ UNCHANGED <<proc, handle, port, srv, mine>>
  /\ UNCHANGED <<staged, appServer, assistant, client, failed, quit, prev, rollback>>

\* wait_for_server_healthy has the answer of the process it watches.
HealthAnswer(t) ==
  /\ At(t, "polling") /\ proc[mine[t]].state = "up"
  /\ Goto(t, "answered")
  /\ UNCHANGED <<osVars, objVars, appVars, srv, mine, prev, rollback, left>>

\* wait_for_server_healthy finds its process gone, or gives up on one that is
\* still booting (_respawn_server gives up before that); start() stops what the
\* object runs now and spends it, and restart() rolls os.environ back.
HealthFails(t) ==
  /\ At(t, "polling")
  /\ \/ ~Live(mine[t]) /\ UNCHANGED left
     \/ t \notin Respawner /\ proc[mine[t]].state = "booting" /\ Spend({"slow"})
  /\ Stop(srv[t]) /\ Report(t)
  /\ environ' = IF prev[t] = None THEN environ ELSE prev[t]
  /\ prev' = [prev EXCEPT ![t] = None]
  /\ UNCHANGED <<port, staged, appServer, failed, quit, srv, mine, rollback>>

\* The server of a first start is there; its worker waits for the MCP metadata.
FirstStartReturns ==
  /\ At(Start, "answered") /\ Goto(Start, "ready")
  /\ UNCHANGED <<osVars, objVars, appVars, srv, mine, prev, rollback, left>>

\* _start_server_background takes the server over.
StartupSucceeds ==
  /\ At(Start, "ready") /\ Goto(Start, "idle")
  /\ appServer' = srv[Start]
  /\ Post("up", srv[Start], port[srv[Start]])
  /\ UNCHANGED <<osVars, objVars, assistant, client, failed, quit,
                 srv, mine, prev, rollback, left>>

\* _retry_startup_with_model: a new startup worker.  The group is exclusive: a
\* startup still running is cancelled, which no `except Exception` sees.
RetryStartup ==
  /\ pc[Pump] = "idle" /\ quit = "no" /\ failed /\ client = None
  /\ Spend({"retry"})
  /\ failed' = FALSE /\ Goto(Start, "begin")
  /\ UNCHANGED <<osVars, objVars, appServer, assistant, client, mail, quit,
                 srv, mine, prev, rollback>>

-----------------------------------------------------------------------------
(* Restarts *)

\* _respawn_server, for /restart and after an MCP login.
Respawn(t) ==
  /\ pc[t] = "idle" /\ quit = "no" /\ appServer # None
  /\ client' = None
  /\ Restart(t, appServer, staged[appServer], {IF t = Pump THEN "restart" ELSE "login"})
  /\ UNCHANGED <<appServer, assistant, failed, quit, rollback>>

\* asyncio.wait_for gives up on a restart before its health check does: the
\* cancelled start() stops nothing, and nothing is rolled back.
RespawnTimesOut(t) ==
  /\ At(t, "polling") /\ proc[mine[t]].state = "booting"
  /\ Spend({"slow"}) /\ Report(t)
  /\ prev' = [prev EXCEPT ![t] = None]
  /\ UNCHANGED <<osVars, objVars, appServer, failed, quit, srv, mine, rollback>>

\* restart() returns; the MCP metadata is loaded again.
RestartReturns(t) ==
  /\ At(t, "answered") /\ Goto(t, "ready")
  /\ staged' = [staged EXCEPT ![srv[t]] = None]
  /\ prev' = [prev EXCEPT ![t] = None]
  /\ UNCHANGED <<osVars, handle, dir, port, appVars, srv, mine, rollback, left>>

\* A new client, for the port the server has by now.
Respawned(t) ==
  /\ At(t, "ready") /\ Goto(t, "idle")
  /\ client' = port[srv[t]] /\ Post("up", srv[t], port[srv[t]])
  /\ UNCHANGED <<osVars, objVars, appServer, assistant, failed, quit,
                 srv, mine, prev, rollback, left>>

\* _restart_server_for_agent_swap, up to the awaits of its teardown.
SwapTeardown ==
  /\ pc[Pump] = "idle" /\ pc[Swap] = "idle" /\ quit = "no" /\ appServer # None
  /\ Spend({"swap"})
  /\ Goto(Swap, "teardown") /\ srv' = [srv EXCEPT ![Swap] = appServer]
  /\ rollback' = assistant /\ client' = None
  /\ UNCHANGED <<osVars, objVars, appServer, assistant, failed, mail, quit, mine, prev>>

\* The new assistant is staged and the server restarted with it.
SwapRestart ==
  /\ At(Swap, "teardown")
  /\ \E a \in Agent \ {assistant} :
       /\ Restart(Swap, srv[Swap], a, {})
       /\ assistant' = IF pc'[Swap] = "polling" THEN a ELSE rollback
  /\ client' = IF pc'[Swap] = "polling" THEN client ELSE None
  /\ UNCHANGED <<appServer, failed, quit, rollback>>

SwapSucceeds ==
  /\ At(Swap, "answered") /\ Goto(Swap, "idle")
  /\ staged' = [staged EXCEPT ![srv[Swap]] = None]
  /\ prev' = [prev EXCEPT ![Swap] = None]
  /\ client' = port[srv[Swap]]
  /\ UNCHANGED <<osVars, handle, dir, port, appServer, assistant, failed, mail, quit,
                 srv, mine, rollback, left>>

-----------------------------------------------------------------------------
(* Messages, processes, and the end of the program *)

\* on_deep_agents_app_server_ready and on_deep_agents_app_server_start_failed.
Handle ==
  /\ pc[Pump] = "idle" /\ quit # "done" /\ mail # <<>>
  /\ mail' = Tail(mail)
  /\ IF Head(mail).kind = "up"
     THEN /\ client' = Head(mail).port /\ appServer' = Head(mail).srv
          /\ UNCHANGED failed
     ELSE failed' = TRUE /\ UNCHANGED <<client, appServer>>
  /\ UNCHANGED <<osVars, objVars, assistant, quit, taskVars, left>>

Turns(p, s) == proc' = [proc EXCEPT ![p].state = s]
Boots(p) ==
  /\ proc[p].state = "booting" /\ Turns(p, "up")
  /\ UNCHANGED <<environ, objVars, appVars, taskVars, left>>
Dies(p) ==
  /\ Live(p) /\ Turns(p, "dead")
  /\ Spend({"crash"})
  /\ UNCHANGED <<environ, objVars, appVars, taskVars>>

\* exit(): the pump takes no more input.
Quit ==
  /\ pc[Pump] = "idle" /\ quit = "no" /\ Spend({"quit"})
  /\ quit' = "asked"
  /\ UNCHANGED <<osVars, objVars, appServer, assistant, client, failed, mail, taskVars>>

\* The app has stopped and cancelled its workers; run_textual_app stops the
\* server the app knows.
Exit ==
  /\ quit = "asked" /\ quit' = "done"
  /\ pc' = [t \in Task |-> "idle"]
  /\ IF appServer = None THEN UNCHANGED <<proc, handle, dir>> ELSE Stop(appServer)
  /\ UNCHANGED <<environ, port, staged, appServer, assistant, client, failed, mail,
                 srv, mine, prev, rollback, left>>

-----------------------------------------------------------------------------

Next ==
  \/ StartServer \/ FirstStartReturns \/ StartupSucceeds \/ RetryStartup
  \/ SwapTeardown \/ SwapRestart \/ SwapSucceeds
  \/ \E t \in Task : HealthAnswer(t) \/ HealthFails(t)
  \/ \E t \in Respawner : \/ Respawn(t) \/ RespawnTimesOut(t)
                          \/ RestartReturns(t) \/ Respawned(t)
  \/ \E p \in Proc : Boots(p) \/ Dies(p)
  \/ Handle \/ Quit \/ Exit

Spec == Init /\ [][Next]_vars

-----------------------------------------------------------------------------
(* What it promises *)

\* A ServerProcess never loses a process: every process that runs is the one
\* its object holds and would stop, so an object runs one at most, also when
\* restarts overlap (_stop_process before every start).
HandleOwnsLive ==
  \A p \in Proc : Live(p) => proc[p].owner \in Server /\ handle[proc[p].owner] = p

\* An object whose first start failed, or whose restart did, runs nothing and
\* never will: its configuration directory is gone (stop in start).
SpentRunsNothing == \A s \in Server : dir[s] = "gone" => handle[s] = None

\* What makes them inductive: an object holds processes of its own, and only
\* while its directory is there; who refers to an object refers to one made.
HeldIsOwn == \A s \in Server : handle[s] # None =>
  proc[handle[s]].owner = s /\ proc[handle[s]].state # "unborn"
Made(s) == s \in Server /\ dir[s] # "none"
OnlyWithConfig == \A s \in Server : handle[s] # None => HasConfig(s)
RefersToMade ==
  /\ \A t \in Task : pc[t] \notin {"idle", "begin"} => Made(srv[t])
  /\ appServer # None => Made(appServer)
  /\ \A i \in DOMAIN mail : mail[i].kind = "up" => Made(mail[i].srv)
ObjectInv == HandleOwnsLive /\ HeldIsOwn /\ OnlyWithConfig
ServerInv == ObjectInv /\ RefersToMade

AtRest == quit = "no" /\ mail = <<>> /\ \A t \in Task : pc[t] = "idle"
Serving == appServer # None /\ client # None /\ handle[appServer] # None

\* The server the session talks to runs the assistant the session shows, however
\* restarts, time-outs and crashes overlap (update_env, _scoped_env_overrides and
\* the rollback in _restart_server_for_agent_swap); as long as the session stays
\* with its first server object and every process it asks for can be created.
OneServer == Cardinality(Server \ Unmade) = 1
ServesAssistant ==
  AtRest /\ Serving /\ OneServer /\ left["spawnFail"] = Budget["spawnFail"]
    => proc[handle[appServer]].agent = assistant

\* What ServerProcess.stop promises to the end of the program: when it is
\* over, nothing runs (run_textual_app).
ExitStopsServers == quit = "done" => \A p \in Proc : ~Live(p)

\* The service a ServerProcess object is for its holders.
Phase(s) ==
  IF handle[s] # None /\ Live(handle[s])
  THEN IF proc[handle[s]].state = "up" THEN "serving" ELSE "starting"
  ELSE IF dir[s] = "none" THEN "absent"
       ELSE IF HasConfig(s) THEN "down" ELSE "spent"
phases == [s \in Server |-> Phase(s)]
Service == INSTANCE ServerService WITH phase <- phases
ServiceSpec == Service!Spec
=============================================================================
