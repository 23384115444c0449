---------------------------- MODULE McpSessions ----------------------------
(***************************************************************************)
(* The sessions an agent's MCP tools run in (mcp_tools.py): a manager that *)
(* keeps one session for each MCP server and makes it when a tool first    *)
(* needs it, the tool calls that share it, drop it when it is dead and     *)
(* retry once, and the clean-up at the end of the program.  A step is a    *)
(* stretch of code between two awaits.  What opens, closes and carries a   *)
(* session is outside the program.  The await of a lock that is free does  *)
(* not suspend in the code; here it may, which adds behaviours only.       *)
(***************************************************************************)
EXTENDS Integers

CONSTANTS
  Name,     \* the MCP servers that are configured
  Call,     \* calls of their tools
  Target,   \* [Call -> Name]
  Sessions, \* bound: sessions that are ever made
  None,
  Budgets   \* functions [Op -> Nat]: how often each of these may happen

Op == {"break", "reauth", "refuse", "hang", "closeFail", "cancel", "cleanup", "retryFail"}

Session == 1..Sessions

ASSUME SessionsAssumption == Sessions \in Nat
ASSUME TargetAssumption == Target \in [Call -> Name]
ASSUME NoneAssumption == None \notin Session \cup Call
ASSUME BudgetsAssumption == Budgets \subseteq [Op -> Nat]

VARIABLES
  \* outside the program
  state,    \* [Session -> what its transport does; "cut": abandoned in an await]
  \* the MCPSessionManager
  entries,  \* [Name -> the session in _entries, or None]
  lock,     \* [Name -> the call that holds its lock across an await, or None]
  closed,   \* _closed
  \* the calls
  pc,       \* [Call -> where it stands, or how it ended]
  on,       \* [Call -> session, retry_session, or the one it makes]
  round,    \* [Call -> 1, or 2 once it retries]
  reauth,   \* [Call -> the error was MCPReauthRequiredError]
  \* the clean-up
  closer,   \* [Name -> where its _close stands]
  victim,   \* [Name -> the session it closes]
  left,     \* [Op -> Nat]: what remains of the budget
  \* what happened, for the properties
  host,     \* [Session -> the server it was made for]
  failed    \* [Call -> sessions it was told are dead, or need a login]

managerVars == <<entries, lock, closed>>
callVars == <<pc, on, round, reauth>>
closerVars == <<closer, victim>>
ghostVars == <<host, failed>>
vars == <<state, managerVars, callVars, closerVars, left, ghostVars>>

Ended == {"answered", "raised", "reauth", "failed", "cancelled"}

TypeOK ==
  /\ state \in [Session -> {"none", "opening", "stalled", "open", "broken", "closing", "stuck",
                            "cut", "closed"}]
  /\ entries \in [Name -> Session \cup {None}] /\ lock \in [Name -> Call \cup {None}]
  /\ closed \in BOOLEAN
  /\ pc \in [Call -> {"idle", "getting", "creating", "undoing", "calling", "dropping",
                      "closing"} \cup Ended]
  /\ on \in [Call -> Session \cup {None}] /\ round \in [Call -> {1, 2}]
  /\ reauth \in [Call -> BOOLEAN]
  /\ closer \in [Name -> {"idle", "waiting", "closing", "done"}]
  /\ victim \in [Name -> Session \cup {None}]
  /\ left \in [Op -> Nat]
  /\ host \in [Session -> Name \cup {None}] /\ failed \in [Call -> SUBSET Session]

Init ==
  /\ state = [s \in Session |-> "none"]
  /\ entries = [n \in Name |-> None] /\ lock = [n \in Name |-> None] /\ closed = FALSE
  /\ pc = [c \in Call |-> "idle"] /\ on = [c \in Call |-> None]
  /\ round = [c \in Call |-> 1] /\ reauth = [c \in Call |-> FALSE]
  /\ closer = [n \in Name |-> "idle"] /\ victim = [n \in Name |-> None]
  /\ left \in Budgets
  /\ host = [s \in Session |-> None] /\ failed = [c \in Call |-> {}]

Spend(o) == left[o] > 0 /\ left' = [left EXCEPT ![o] = @ - 1]
Goto(c, l) == pc' = [pc EXCEPT ![c] = l]
Turns(s, v) == state' = [state EXCEPT ![s] = v]
Entry(c) == entries[Target[c]]
Evict(n) == entries' = [entries EXCEPT ![n] = None]
Release(c) == lock' = [lock EXCEPT ![Target[c]] = None]

----------------------------------------------------------------------------
(* get_session *)

\* Up to its first await: the cached session is used at once.
Fetch(c, e) ==
  \/ e # None /\ Goto(c, "calling") /\ on' = [on EXCEPT ![c] = e]
  \/ e = None /\ Goto(c, "getting") /\ UNCHANGED on

Begin(c) ==
  /\ pc[c] = "idle" /\ Fetch(c, Entry(c))
  /\ UNCHANGED <<state, managerVars, round, reauth, closerVars, left, ghostVars>>

\* The lock is free, and somebody else has made the session meanwhile.
Found(c) ==
  /\ pc[c] = "getting" /\ lock[Target[c]] = None /\ Entry(c) # None
  /\ Fetch(c, Entry(c))
  /\ UNCHANGED <<state, managerVars, round, reauth, closerVars, left, ghostVars>>

\* _create_entry; the lock is held until it returns.
Refused(c) ==
  /\ pc[c] = "getting" /\ lock[Target[c]] = None /\ Entry(c) = None
  /\ closed /\ Goto(c, "raised")
  /\ UNCHANGED <<state, managerVars, on, round, reauth, closerVars, left, ghostVars>>

CreateUnlocked(c, s) ==  \* mutant: the session is made after the lock is given back
  /\ pc[c] = "getting" /\ lock[Target[c]] = None /\ Entry(c) = None
  /\ ~closed /\ state[s] = "none" /\ \A t \in 1..(s - 1) : state[t] # "none"
  /\ Turns(s, "opening") /\ host' = [host EXCEPT ![s] = Target[c]]
  /\ Goto(c, "creating") /\ on' = [on EXCEPT ![c] = s]
  /\ UNCHANGED <<entries, lock, closed, round, reauth, closerVars, left, failed>>
Create(c, s) ==
  /\ pc[c] = "getting" /\ lock[Target[c]] = None /\ Entry(c) = None
  /\ ~closed /\ state[s] = "none" /\ \A t \in 1..(s - 1) : state[t] # "none"
  /\ Turns(s, "opening") /\ host' = [host EXCEPT ![s] = Target[c]]
  /\ lock' = [lock EXCEPT ![Target[c]] = c]
  /\ Goto(c, "creating") /\ on' = [on EXCEPT ![c] = s]
  /\ UNCHANGED <<entries, closed, round, reauth, closerVars, left, failed>>

Created(c) ==
  /\ pc[c] = "creating" /\ state[on[c]] = "opening"
  /\ Turns(on[c], "open") /\ entries' = [entries EXCEPT ![Target[c]] = on[c]]
  /\ Release(c) /\ Goto(c, "calling")
  /\ UNCHANGED <<closed, on, round, reauth, closerVars, left, ghostVars>>

\* The session is closed under the lock, and the error goes to the caller.
CreateFails(c) ==
  /\ pc[c] = "creating" /\ state[on[c]] = "opening" /\ Spend("refuse")
  /\ Turns(on[c], "closing") /\ Goto(c, "undoing")
  /\ UNCHANGED <<managerVars, on, round, reauth, closerVars, ghostVars>>

UndoneLocked(c) ==  \* mutant: the lock is not given back when making a session fails
  /\ pc[c] = "undoing" /\ state[on[c]] = "closing"
  /\ Turns(on[c], "closed") /\ Goto(c, "raised")
  /\ UNCHANGED <<managerVars, on, round, reauth, closerVars, left, ghostVars>>
Undone(c) ==
  /\ pc[c] = "undoing" /\ state[on[c]] = "closing"
  /\ Turns(on[c], "closed") /\ Release(c) /\ Goto(c, "raised")
  /\ UNCHANGED <<entries, closed, on, round, reauth, closerVars, left, ghostVars>>

----------------------------------------------------------------------------
(* The tool: a call, and one retry *)

\* A result, or an error of the tool; on the first try also one that does not
\* concern the session.
Answered(c) ==
  /\ pc[c] = "calling" /\ Goto(c, "answered")
  /\ UNCHANGED <<state, managerVars, on, round, reauth, closerVars, left, ghostVars>>

\* _is_transient_session_error: the session was lost, or somebody closes it.
Dead(c) ==
  /\ pc[c] = "calling" /\ state[on[c]] # "open" /\ Goto(c, "dropping")
  /\ failed' = [failed EXCEPT ![c] = @ \cup {on[c]}]
  /\ UNCHANGED <<state, managerVars, on, round, reauth, closerVars, left, host>>

\* Whatever goes wrong with the retry drops the session.
RetryFails(c) ==
  /\ pc[c] = "calling" /\ round[c] = 2 /\ state[on[c]] = "open" /\ Spend("retryFail")
  /\ Goto(c, "dropping") /\ failed' = [failed EXCEPT ![c] = @ \cup {on[c]}]
  /\ UNCHANGED <<state, managerVars, on, round, reauth, closerVars, host>>

\* find_reauth_required
NeedsLogin(c) ==
  /\ pc[c] = "calling" /\ Spend("reauth") /\ Goto(c, "dropping")
  /\ reauth' = [reauth EXCEPT ![c] = TRUE]
  /\ failed' = [failed EXCEPT ![c] = @ \cup {on[c]}]
  /\ UNCHANGED <<state, managerVars, on, round, closerVars, host>>

\* What follows invalidate; e is the entry it leaves.
GoOnOnce(c, e) ==  \* mutant: the retry takes the session it has
  \/ reauth[c] /\ Goto(c, "reauth") /\ UNCHANGED <<on, round>>
  \/ ~reauth[c] /\ round[c] = 2 /\ Goto(c, "failed") /\ UNCHANGED <<on, round>>
  \/ ~reauth[c] /\ round[c] = 1 /\ round' = [round EXCEPT ![c] = 2]
     /\ Goto(c, "calling") /\ UNCHANGED on
GoOn(c, e) ==
  \/ reauth[c] /\ Goto(c, "reauth") /\ UNCHANGED <<on, round>>
  \/ ~reauth[c] /\ round[c] = 2 /\ Goto(c, "failed") /\ UNCHANGED <<on, round>>
  \/ ~reauth[c] /\ round[c] = 1 /\ round' = [round EXCEPT ![c] = 2] /\ Fetch(c, e)

\* invalidate with expected_session: somebody else has dropped it, or replaced it.
Kept(c) ==
  /\ pc[c] = "dropping" /\ lock[Target[c]] = None /\ Entry(c) # on[c]
  /\ GoOn(c, Entry(c))
  /\ UNCHANGED <<state, managerVars, reauth, closerVars, left, ghostVars>>

\* It is closed after the lock is given back.
DropAny(c) ==  \* mutant: expected_session is not compared
  /\ pc[c] = "dropping" /\ lock[Target[c]] = None /\ Entry(c) # None
  /\ on' = [on EXCEPT ![c] = Entry(c)]
  /\ Evict(Target[c]) /\ Turns(Entry(c), "closing") /\ Goto(c, "closing")
  /\ UNCHANGED <<lock, closed, round, reauth, closerVars, left, ghostVars>>
Drop(c) ==
  /\ pc[c] = "dropping" /\ lock[Target[c]] = None /\ Entry(c) = on[c]
  /\ Evict(Target[c]) /\ Turns(on[c], "closing") /\ Goto(c, "closing")
  /\ UNCHANGED <<lock, closed, on, round, reauth, closerVars, left, ghostVars>>

Dropped(c) ==
  /\ pc[c] = "closing" /\ state[on[c]] = "closing"
  /\ Turns(on[c], "closed") /\ GoOn(c, Entry(c))
  /\ UNCHANGED <<managerVars, reauth, closerVars, left, ghostVars>>

\* An error of the first close goes to the caller; one of the second is logged.
DropFails(c) ==
  /\ pc[c] = "closing" /\ state[on[c]] = "closing" /\ Spend("closeFail")
  /\ Turns(on[c], "closed")
  /\ Goto(c, IF round[c] = 1 THEN "raised" ELSE IF reauth[c] THEN "reauth" ELSE "failed")
  /\ UNCHANGED <<managerVars, on, round, reauth, closerVars, ghostVars>>

\* The turn is cancelled.  What was being opened or closed may be closed by its
\* own contexts; if not, nobody does: _create_entry closes after an Exception,
\* which a cancellation is not.
Cancel(c) ==
  /\ pc[c] \notin Ended \cup {"idle"} /\ Spend("cancel") /\ Goto(c, "cancelled")
  /\ IF pc[c] \in {"creating", "undoing"} THEN Release(c) ELSE UNCHANGED lock
  /\ IF pc[c] \in {"creating", "undoing", "closing"}
     THEN \E v \in {"cut", "closed"} : Turns(on[c], v) ELSE UNCHANGED state
  /\ UNCHANGED <<entries, closed, on, round, reauth, closerVars, ghostVars>>

----------------------------------------------------------------------------
(* cleanup: one _close for each server that has a session *)

Cleanup ==
  /\ ~closed /\ Spend("cleanup") /\ closed' = TRUE
  /\ closer' = [n \in Name |-> IF entries[n] = None THEN "done" ELSE "waiting"]
  /\ UNCHANGED <<state, entries, lock, callVars, victim, ghostVars>>

CloserDrops(n) ==
  /\ closer[n] = "waiting" /\ lock[n] = None /\ entries[n] # None
  /\ Evict(n) /\ Turns(entries[n], "closing")
  /\ closer' = [closer EXCEPT ![n] = "closing"] /\ victim' = [victim EXCEPT ![n] = entries[n]]
  /\ UNCHANGED <<lock, closed, callVars, left, ghostVars>>

CloserIdles(n) ==
  /\ closer[n] = "waiting" /\ lock[n] = None /\ entries[n] = None
  /\ closer' = [closer EXCEPT ![n] = "done"]
  /\ UNCHANGED <<state, managerVars, callVars, victim, left, ghostVars>>

CloserEnds(n) ==
  /\ closer[n] = "closing" /\ state[victim[n]] = "closing"
  /\ Turns(victim[n], "closed") /\ closer' = [closer EXCEPT ![n] = "done"]
  /\ UNCHANGED <<managerVars, callVars, victim, left, ghostVars>>

\* wait_for: 5 seconds for the lock and the close together.
CloserTimesOut(n) ==
  /\ closer[n] \in {"waiting", "closing"} /\ closer' = [closer EXCEPT ![n] = "done"]
  /\ IF closer[n] = "closing" THEN \E v \in {"cut", "closed"} : Turns(victim[n], v)
     ELSE UNCHANGED state
  /\ UNCHANGED <<managerVars, callVars, victim, left, ghostVars>>

----------------------------------------------------------------------------
(* Outside the program *)

\* The server dies, or its connection.
Break(s) ==
  /\ state[s] = "open" /\ Spend("break") /\ Turns(s, "broken")
  /\ UNCHANGED <<managerVars, callVars, closerVars, ghostVars>>

\* Opening a session, or closing one, does not come to an end.
Hang(s) ==
  /\ state[s] \in {"opening", "closing"} /\ Spend("hang")
  /\ Turns(s, IF state[s] = "opening" THEN "stalled" ELSE "stuck")
  /\ UNCHANGED <<managerVars, callVars, closerVars, ghostVars>>

----------------------------------------------------------------------------

Steps(c) ==
  \/ Found(c) \/ Refused(c) \/ (\E s \in Session : Create(c, s)) \/ Created(c) \/ Undone(c)
  \/ Answered(c) \/ Dead(c) \/ Kept(c) \/ Drop(c) \/ Dropped(c)
CloserSteps(n) == CloserDrops(n) \/ CloserIdles(n) \/ CloserEnds(n) \/ CloserTimesOut(n)

Next ==
  \/ \E c \in Call : Begin(c) \/ Steps(c) \/ CreateFails(c) \/ NeedsLogin(c) \/ RetryFails(c)
                     \/ DropFails(c) \/ Cancel(c)
  \/ Cleanup \/ \E n \in Name : CloserSteps(n)
  \/ \E s \in Session : Break(s) \/ Hang(s)

Spec == Init /\ [][Next]_vars

\* A call and a clean-up go on when they can, and timers expire; nothing need ever
\* be called, and what opens or closes a session may hang.
FairSpec ==
  /\ Spec
  /\ \A c \in Call : WF_vars(Steps(c)) /\ \A n \in Name : WF_vars(CloserSteps(n))

----------------------------------------------------------------------------
(* What it promises *)

\* Who will close a session: the cache, the call that makes it, or whoever is at it.
Owned(s) ==
  \/ entries[host[s]] = s
  \/ \E c \in Call : on[c] = s /\ pc[c] \in {"creating", "undoing", "closing"}
  \/ \E n \in Name : victim[n] = s /\ closer[n] = "closing"

\* A server has one session at most, calls that overlap in making, losing and
\* dropping it share it, and every session, unless it was cut off by a
\* cancellation or a timeout, has an owner that closes it.
SessionsOwned ==
  /\ \A n \in Name : entries[n] # None =>
       host[entries[n]] = n /\ state[entries[n]] \in {"open", "broken"}
  /\ \A s, t \in Session :
       /\ host[s] = host[t]
       /\ {state[s], state[t]} \subseteq {"opening", "stalled", "open", "broken"}
       => s = t
  /\ \A s \in Session : state[s] \notin {"none", "cut", "closed"} => Owned(s)

\* What a call was told is dead, or wants a login, is gone when it goes on: its
\* retry has another session, and nobody gets the old one, whatever was cached
\* meanwhile.
FailedIsGone ==
  \A c \in Call :
    /\ pc[c] \notin {"dropping", "cancelled"} => entries[Target[c]] \notin failed[c]
    /\ pc[c] = "calling" => on[c] \notin failed[c]

\* A session in good order is closed by nobody but the clean-up, or a call that it
\* told to log in or whose retry it failed: what happened to an older session does
\* not hit its successor.
HealthyIsKept ==
  [][\A s \in Session : state[s] = "open" /\ state'[s] # "open" =>
       \/ state'[s] = "broken" \/ closed
       \/ \E c \in Call : (reauth[c] \/ round[c] = 2) /\ s \in failed[c]]_vars

\* What a call opens or closes never answers; under the lock, or after it.
HangsLocked(c) == pc[c] \in {"creating", "undoing"} /\ state[on[c]] \in {"stalled", "stuck"}
Hangs(c) == HangsLocked(c) \/ (pc[c] = "closing" /\ state[on[c]] = "stuck")
WaitsForHung(c) ==
  /\ pc[c] \in {"getting", "dropping"} /\ lock[Target[c]] # None
  /\ HangsLocked(lock[Target[c]])

\* Every call ends, unless what it opens or closes hangs, or what the holder of its
\* server's lock does: the session that is being made there, or is closed because
\* making it failed.  A session that is dropped is closed after the lock is given
\* back (invalidate), so nobody else waits for it.  The clean-up ends in any case:
\* "one slow stdio server cannot stall shutdown" (cleanup).
CallsEnd ==
  /\ \A c \in Call : pc[c] # "idle" ~> pc[c] \in Ended \/ Hangs(c) \/ WaitsForHung(c)
  /\ closed ~> \A n \in Name : closer[n] = "done"

\* After the clean-up no session is left, and none is made: "Close all cached
\* sessions concurrently and reject future creation" (cleanup).
CleanupLeavesNone ==
  closed /\ (\A n \in Name : closer[n] = "done") => \A n \in Name : entries[n] = None
=============================================================================
