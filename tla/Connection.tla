----------------------------- MODULE Connection -----------------------------
(***************************************************************************)
(* How the GUI process drives the tunnel: internal/app/connection.go with  *)
(* reapplyRouting of internal/app/routing.go, over the control client and  *)
(* the privileged service of internal/core.                                *)
(*                                                                         *)
(* Goroutines of the GUI:                                                  *)
(*   - Callers: Connect, Disconnect, GetConnectionState and                *)
(*     reapplyRouting, called by the window, the tray, the hotkey, the     *)
(*     Wi-Fi watcher, the schedule and the command line, each on a         *)
(*     goroutine of its own;                                               *)
(*   - Recons: the reconnect goroutines handleCoreState spawns;            *)
(*   - Conns: the readLoop of each control connection.  It delivers the    *)
(*     answers the other goroutines wait for, and it runs handleCoreState  *)
(*     itself, between two messages.                                       *)
(*                                                                         *)
(* The service answers requests in order and sends the state event of a    *)
(* start or a stop before the response, on the same connection.  When it   *)
(* dies, its tunnel goes with it and the connection ends.  The pending     *)
(* map, the handshake and the launch are detailed in ControlClient; the    *)
(* cores behind the tunnel in Instance.                                    *)
(***************************************************************************)
EXTENDS Naturals, Sequences, FiniteSets

CONSTANTS
    Callers,        \* goroutines that call the App's exported methods
    Recons,         \* reconnect goroutines that may exist at once
    None,           \* no goroutine
    Ops,            \* the operations callers use, of AllOps
    MaxOps,         \* bound: calls made in a behaviour
    MaxConns,       \* bound: control connections (service launches)
    MaxCrashes,     \* bound: deaths of the service
    MaxTimeouts,    \* bound: answers that take more than 90 seconds
    MaxAttempts,    \* len(reconnectDelays)
    MaxCandidates,  \* servers a plan offers at most
    StartsFail,     \* whether a core may refuse to start
    AutoReconnects, \* values of settings.AutoReconnect to consider
    KillSwitches    \* values of settings.KillSwitch to consider

AllOps == {"connect", "disconnect", "get", "reapply"}
Conns == 1..MaxConns
Procs == Callers \cup Recons \cup Conns
Workers == Callers \cup Recons

ASSUME OpsAssumption == Ops \subseteq AllOps
ASSUME BoundsAssumption ==
    /\ MaxOps \in Nat /\ MaxConns \in Nat /\ MaxCrashes \in Nat
    /\ MaxAttempts \in Nat \ {0} /\ MaxCandidates \in Nat \ {0}
    /\ MaxTimeouts \in Nat /\ StartsFail \in BOOLEAN
    /\ AutoReconnects \subseteq BOOLEAN /\ KillSwitches \subseteq BOOLEAN
ASSUME ProcsAssumption ==
    /\ Callers \cap Recons = {}
    /\ Workers \cap Nat = {}
    /\ None \notin Workers /\ None \notin Nat

VARIABLES
    state,          \* App.state: status, Reconnecting, Blocked
    lockedDown,     \* App.lockedDown
    lastValid,      \* App.lastConnect.valid
    connectGen,     \* App.connectGen
    connectMu,      \* holder of App.connectMu
    settings,       \* AutoReconnect and KillSwitch
    pc,             \* where each goroutine is
    generation,     \* the generation a connect was given
    tries,          \* candidates a connect has left
    attempt,        \* the reconnect loop's counter
    snap,           \* the copy of App.state a goroutine works from
    answer,         \* the answer to the goroutine's request
    cur,            \* Client.conn: the connection in use, 0 for none
    epoch,          \* control connections opened so far
    reqs,           \* requests the service has not read yet
    inbox,          \* messages each readLoop has not read yet
    alive,          \* the service process exists
    tunnel,         \* what its Instance runs
    calls,          \* calls made so far, against MaxOps
    crashes,        \* deaths of the service so far, against MaxCrashes
    timeouts,       \* late answers so far, against MaxTimeouts
    served,         \* history: newest generation that got connectMu
    wanted          \* history: what the last call to get connectMu asked for

app == <<state, lockedDown, lastValid, connectGen, connectMu>>
locals == <<generation, tries, attempt, snap>>
wire == <<cur, epoch, reqs, inbox, alive, tunnel>>
history == <<served, wanted>>
bounds == <<calls, crashes, timeouts, settings>>
vars == <<app, pc, locals, answer, wire, history, bounds>>

Statuses == {"idle", "connecting", "connected", "error"}
States == [status : Statuses, reconnecting : BOOLEAN, blocked : BOOLEAN]
St(s) == [status |-> s, reconnecting |-> FALSE, blocked |-> FALSE]

Answers == {"none", "wait", "ok", "err", "up", "down"}
Tunnels == {"none", "tunnel", "lockdown"}
Labels ==
    {"idle", "lock", "superseded", "plan", "try", "await", "up",      \* connect
     "gread", "gwait", "gset",                            \* GetConnectionState
     "dlock", "didle", "dwait",                                  \* Disconnect
     "rlock", "rstart", "rwait",                             \* reapplyRouting
     "begin", "lstore", "lsend", "lwait",         \* reconnect, engageLockdown
     "attempt", "announce", "sleep", "giveup",                    \* reconnect
     "read", "reattach", "htrue", "hfalse", "hlost", "hdrop", "hspawn", "herr"}

Init ==
    /\ state = St("idle")
    /\ lockedDown = FALSE
    /\ lastValid = FALSE
    /\ connectGen = 0
    /\ connectMu = None
    /\ settings \in [auto : AutoReconnects, kill : KillSwitches]
    /\ pc = [p \in Procs |-> IF p \in Conns THEN "read" ELSE "idle"]
    /\ generation = [p \in Workers |-> 0]
    /\ tries = [p \in Workers |-> 0]
    /\ attempt = [r \in Recons |-> 0]
    /\ snap = [p \in Procs |-> St("idle")]
    /\ answer = [p \in Procs |-> "none"]
    /\ cur = 0
    /\ epoch = 0
    /\ reqs = <<>>
    /\ inbox = [c \in Conns |-> <<>>]
    /\ alive = FALSE
    /\ tunnel = "none"
    /\ calls = 0
    /\ crashes = 0
    /\ timeouts = 0
    /\ served = 0
    /\ wanted = "disconnect"

-----------------------------------------------------------------------------
(* The control client, as its callers see it *)

Goto(p, l) == pc' = [pc EXCEPT ![p] = l]
SetState(s) == state' = s
Answered(p) == answer[p] \notin {"none", "wait"}

\* Client.request: on a dead service the write fails.
Request(p, cmd) ==
    /\ IF alive
       THEN /\ reqs' = Append(reqs, [from |-> p, cmd |-> cmd])
            /\ answer' = [answer EXCEPT ![p] = "wait"]
       ELSE /\ answer' = [answer EXCEPT ![p] = "err"]
            /\ UNCHANGED reqs
    /\ UNCHANGED <<cur, epoch, inbox, alive, tunnel>>

\* Client.Start: Ensure, which launches the service when there is no
\* connection, then the request.  The user may decline the elevation prompt.
Start(p, cmd) ==
    \/ cur # 0 /\ Request(p, cmd)
    \/ /\ cur = 0
       /\ epoch < MaxConns
       /\ epoch' = epoch + 1
       /\ cur' = epoch + 1
       /\ alive' = TRUE
       /\ reqs' = <<[from |-> p, cmd |-> cmd]>>
       /\ answer' = [answer EXCEPT ![p] = "wait"]
       /\ UNCHANGED <<inbox, tunnel>>
    \/ /\ cur = 0
       /\ answer' = [answer EXCEPT ![p] = "err"]
       /\ UNCHANGED wire

\* Client.Stop and Client.Running do nothing without a connection.
IfConnected(p, cmd, otherwise) ==
    IF cur # 0 THEN Request(p, cmd)
    ELSE answer' = [answer EXCEPT ![p] = otherwise] /\ UNCHANGED wire

\* Mutant: a request that waits without a timeout.
TimeoutNever(p) == answer[p] = "timeout" /\ UNCHANGED vars

\* What a request nobody waits for any more leaves behind: Client.pending has
\* no entry for its id.
Forget(s, p) ==
    [i \in 1..Len(s) |-> IF s[i].from = p THEN [s[i] EXCEPT !.from = None]
                         ELSE s[i]]

\* The readLoop that would deliver the answer is itself waiting for one.
Stuck ==
    /\ reqs = <<>>
    /\ cur # 0
    /\ pc[cur] = "lwait" /\ answer[cur] = "wait"

\* The 90 second timeout of Client.request, with the request unread, under
\* way, or answered behind a slow readLoop.  The service still executes it;
\* the late answer finds no waiter.  MaxTimeouts bounds those of
\* a slow service; the one of a readLoop that waits for itself is certain.
Timeout(p) ==
    /\ answer[p] = "wait"
    /\ \/ timeouts < MaxTimeouts /\ timeouts' = timeouts + 1
       \/ Stuck /\ UNCHANGED timeouts
    /\ answer' = [answer EXCEPT ![p] = "err"]
    /\ reqs' = Forget(reqs, p)
    /\ inbox' = [c \in Conns |-> Forget(inbox[c], p)]
    /\ UNCHANGED <<app, pc, locals, cur, epoch, alive, tunnel, history, calls,
                   crashes, settings>>

-----------------------------------------------------------------------------
(* Connect, and connect for a given generation *)

\* What a finished call leaves: callers return to the user, a reconnect
\* goroutine ends on success and otherwise goes to its next attempt.
Return(p, ok) == Goto(p, IF p \in Callers \/ ok THEN "idle" ELSE "attempt")

Call(u, o, l) ==
    /\ pc[u] = "idle"
    /\ o \in Ops
    /\ calls < MaxOps
    /\ calls' = calls + 1
    /\ Goto(u, l)

Connect(u) ==
    /\ Call(u, "connect", "lock")
    /\ connectGen' = connectGen + 1
    /\ generation' = [generation EXCEPT ![u] = connectGen + 1]
    /\ UNCHANGED <<state, lockedDown, lastValid, connectMu, tries, attempt,
                   snap, answer, wire, history, crashes, timeouts,
                   settings>>

\* Mutant: the generation is not checked again under the mutex.
ConnectLockUnchecked(p) ==
    /\ pc[p] = "lock"
    /\ connectMu = None
    /\ connectMu' = p
    /\ Goto(p, "plan")
    /\ UNCHANGED <<state, lockedDown, lastValid, connectGen, locals, answer,
                   wire, history, bounds>>

\* connectMu.Lock, then the generation check.
ConnectLock(p) ==
    /\ pc[p] = "lock"
    /\ connectMu = None
    /\ connectMu' = p
    /\ IF connectGen = generation[p]
       THEN /\ Goto(p, "plan")
            /\ served' = generation[p]
            /\ wanted' = IF p \in Callers THEN "connect" ELSE wanted
       ELSE Goto(p, "superseded") /\ UNCHANGED history
    /\ UNCHANGED <<state, lockedDown, lastValid, connectGen, locals, answer,
                   wire, bounds>>

\* No profiles, or planConnection finds no proxy.
PlanFails(p) ==
    /\ pc[p] = "plan"
    /\ SetState(St("error"))
    /\ connectMu' = None
    /\ Return(p, FALSE)
    /\ UNCHANGED <<lockedDown, lastValid, connectGen, locals, answer, wire,
                   history, bounds>>

Plan(p) ==
    /\ pc[p] = "plan"
    /\ \E n \in 1..MaxCandidates : tries' = [tries EXCEPT ![p] = n]
    /\ SetState(St("connecting"))
    /\ Goto(p, "try")
    /\ UNCHANGED <<lockedDown, lastValid, connectGen, connectMu, generation,
                   attempt, snap, answer, wire, history, bounds>>

\* startProfile for the next candidate: building the config may fail before
\* the core hears of it.
Try(p) ==
    /\ pc[p] = "try"
    /\ SetState(St("connecting"))
    /\ \/ Start(p, "tunnel")
       \/ answer' = [answer EXCEPT ![p] = "err"] /\ UNCHANGED wire
    /\ Goto(p, "await")
    /\ UNCHANGED <<lockedDown, lastValid, connectGen, connectMu, locals,
                   history, bounds>>

\* Mutant: the loop over the candidates has no end.
TryNextUnbounded(p) ==
    /\ pc[p] = "await"
    /\ answer[p] = "err"
    /\ tries' = [tries EXCEPT ![p] = @ - 1]
    /\ answer' = [answer EXCEPT ![p] = "none"]
    /\ Goto(p, "try")
    /\ UNCHANGED <<app, generation, attempt, snap, wire, history, bounds>>

\* A failure that may be the server's: a resilient plan goes to the next one.
TryNext(p) ==
    /\ pc[p] = "await"
    /\ answer[p] = "err"
    /\ tries[p] > 1
    /\ tries' = [tries EXCEPT ![p] = @ - 1]
    /\ answer' = [answer EXCEPT ![p] = "none"]
    /\ Goto(p, "try")
    /\ UNCHANGED <<app, generation, attempt, snap, wire, history, bounds>>

\* Mutant: fail reports the error to its caller only.
ConnectFailsSilently(p) ==
    /\ pc[p] = "await"
    /\ answer[p] = "err"
    /\ answer' = [answer EXCEPT ![p] = "none"]
    /\ connectMu' = None
    /\ Return(p, FALSE)
    /\ UNCHANGED <<state, lockedDown, lastValid, connectGen, locals, wire,
                   history, bounds>>

\* A local failure, a pinned server, or no candidate left: fail / failFor.
ConnectFails(p) ==
    /\ pc[p] = "await"
    /\ answer[p] = "err"
    /\ SetState(St("error"))
    /\ answer' = [answer EXCEPT ![p] = "none"]
    /\ connectMu' = None
    /\ Return(p, FALSE)
    /\ UNCHANGED <<lockedDown, lastValid, connectGen, locals, wire, history,
                   bounds>>

ConnectStarted(p) ==
    /\ pc[p] = "await"
    /\ answer[p] = "ok"
    /\ lockedDown' = FALSE
    /\ lastValid' = TRUE
    /\ answer' = [answer EXCEPT ![p] = "none"]
    /\ Goto(p, "up")
    /\ UNCHANGED <<state, connectGen, connectMu, locals, wire, history, bounds>>

ConnectDone(p) ==
    /\ pc[p] = "up"
    /\ SetState(St("connected"))
    /\ connectMu' = None
    /\ Return(p, TRUE)
    /\ UNCHANGED <<lockedDown, lastValid, connectGen, locals, answer, wire,
                   history, bounds>>

-----------------------------------------------------------------------------
(* GetConnectionState, called by the UI and by a superseded connect *)

Get(u) ==
    /\ Call(u, "get", "gread")
    /\ UNCHANGED <<app, locals, answer, wire, history, crashes, timeouts,
                   settings>>

\* Copies the state, then asks the core whether it runs.
GetRead(p) ==
    /\ pc[p] \in {"gread", "superseded"}
    /\ snap' = [snap EXCEPT ![p] = state]
    /\ IfConnected(p, "status", "down")
    /\ Goto(p, "gwait")
    /\ UNCHANGED <<app, generation, tries, attempt, history, bounds>>

\* GetConnectionState returns; a superseded connect then unlocks and fails.
GetReturn(p) ==
    /\ answer' = [answer EXCEPT ![p] = "none"]
    /\ connectMu' = IF connectMu = p THEN None ELSE connectMu
    /\ Return(p, FALSE)

\* Nothing to reconcile, or the lockdown is what runs.
Agrees(p) ==
    \/ lockedDown
    \/ answer[p] = "up" /\ snap[p].status = "connected"
    \/ answer[p] # "up" /\ snap[p].status # "connected"

GetAgrees(p) ==
    /\ pc[p] = "gwait"
    /\ Answered(p)
    /\ Agrees(p)
    /\ GetReturn(p)
    /\ UNCHANGED <<state, lockedDown, lastValid, connectGen, locals, wire,
                   history, bounds>>

GetDiffers(p) ==
    /\ pc[p] = "gwait"
    /\ Answered(p)
    /\ ~Agrees(p)
    /\ Goto(p, "gset")
    /\ UNCHANGED <<app, locals, answer, wire, history, bounds>>

\* The core is the authority: the copy read earlier is written back.
GetReconcile(p) ==
    /\ pc[p] = "gset"
    /\ SetState(IF answer[p] = "up" THEN [snap[p] EXCEPT !.status = "connected"]
                ELSE St("idle"))
    /\ GetReturn(p)
    /\ UNCHANGED <<lockedDown, lastValid, connectGen, locals, wire, history,
                   bounds>>

-----------------------------------------------------------------------------
(* Disconnect *)

Disconnect(u) ==
    /\ Call(u, "disconnect", "dlock")
    /\ connectGen' = connectGen + 1
    /\ generation' = [generation EXCEPT ![u] = connectGen + 1]
    /\ UNCHANGED <<state, lockedDown, lastValid, connectMu, tries, attempt,
                   snap, answer, wire, history, crashes, timeouts,
                   settings>>

\* Disconnect has no generation check of its own: it always runs.
DisconnectLock(u) ==
    /\ pc[u] = "dlock"
    /\ connectMu = None
    /\ connectMu' = u
    /\ lockedDown' = FALSE
    /\ lastValid' = FALSE
    /\ wanted' = "disconnect"
    /\ served' = IF generation[u] > served THEN generation[u] ELSE served
    /\ Goto(u, "didle")
    /\ UNCHANGED <<state, connectGen, locals, answer, wire, bounds>>

\* Mutant: the core is only stopped when the UI shows a connection.
DisconnectIdleShown(u) ==
    /\ pc[u] = "didle"
    /\ SetState(St("idle"))
    /\ IF state.status = "connected" THEN IfConnected(u, "stop", "ok")
       ELSE answer' = [answer EXCEPT ![u] = "ok"] /\ UNCHANGED wire
    /\ Goto(u, "dwait")
    /\ UNCHANGED <<lockedDown, lastValid, connectGen, connectMu, locals,
                   history, bounds>>

\* Idle before the core is asked to stop.
DisconnectIdle(u) ==
    /\ pc[u] = "didle"
    /\ SetState(St("idle"))
    /\ IfConnected(u, "stop", "ok")
    /\ Goto(u, "dwait")
    /\ UNCHANGED <<lockedDown, lastValid, connectGen, connectMu, locals,
                   history, bounds>>

DisconnectDone(u) ==
    /\ pc[u] = "dwait"
    /\ Answered(u)
    /\ IF answer[u] = "err" THEN SetState(St("error")) ELSE UNCHANGED state
    /\ answer' = [answer EXCEPT ![u] = "none"]
    /\ connectMu' = None
    /\ Goto(u, "idle")
    /\ UNCHANGED <<lockedDown, lastValid, connectGen, locals, wire, history,
                   bounds>>

-----------------------------------------------------------------------------
(* reapplyRouting *)

Reapply(u) ==
    /\ Call(u, "reapply", "rlock")
    /\ UNCHANGED <<app, locals, answer, wire, history, crashes, timeouts,
                   settings>>

\* Mutant: a routing change does not take connectMu.
ReapplyLockBarges(u) ==
    /\ pc[u] = "rlock"
    /\ IF state.status = "connected"
       THEN connectMu' = u /\ Goto(u, "rstart")
       ELSE UNCHANGED connectMu /\ Goto(u, "idle")
    /\ UNCHANGED <<state, lockedDown, lastValid, connectGen, locals, answer,
                   wire, history, bounds>>

\* Nothing happens while disconnected, or when the profile is gone.
ReapplyLock(u) ==
    /\ pc[u] = "rlock"
    /\ connectMu = None
    /\ \/ /\ state.status = "connected"
          /\ connectMu' = u
          /\ Goto(u, "rstart")
       \/ UNCHANGED connectMu /\ Goto(u, "idle")
    /\ UNCHANGED <<state, lockedDown, lastValid, connectGen, locals, answer,
                   wire, history, bounds>>

ReapplyStart(u) ==
    /\ pc[u] = "rstart"
    /\ \/ Start(u, "tunnel")
       \/ answer' = [answer EXCEPT ![u] = "err"] /\ UNCHANGED wire
    /\ Goto(u, "rwait")
    /\ UNCHANGED <<app, locals, history, bounds>>

ReapplyDone(u) ==
    /\ pc[u] = "rwait"
    /\ Answered(u)
    /\ IF answer[u] = "err" THEN SetState(St("error")) ELSE UNCHANGED state
    /\ answer' = [answer EXCEPT ![u] = "none"]
    /\ connectMu' = None
    /\ Goto(u, "idle")
    /\ UNCHANGED <<lockedDown, lastValid, connectGen, locals, wire, history,
                   bounds>>

-----------------------------------------------------------------------------
(* engageLockdown, run by a reconnect goroutine or by a readLoop *)

AfterLockdown(p) == IF p \in Recons THEN "attempt" ELSE "herr"

\* sbconfig.Lockdown may fail; otherwise lockedDown is set first.
LockdownStore(p) ==
    /\ pc[p] = "lstore"
    /\ \/ lockedDown' = TRUE /\ Goto(p, "lsend")
       \/ UNCHANGED lockedDown /\ Goto(p, AfterLockdown(p))
    /\ UNCHANGED <<state, lastValid, connectGen, connectMu, locals, answer,
                   wire, history, bounds>>

LockdownSend(p) ==
    /\ pc[p] = "lsend"
    /\ Start(p, "lockdown")
    /\ Goto(p, "lwait")
    /\ UNCHANGED <<app, locals, history, bounds>>

LockdownDone(p) ==
    /\ pc[p] = "lwait"
    /\ Answered(p)
    /\ lockedDown' = IF answer[p] = "err" THEN FALSE ELSE lockedDown
    /\ answer' = [answer EXCEPT ![p] = "none"]
    /\ Goto(p, AfterLockdown(p))
    /\ UNCHANGED <<state, lastValid, connectGen, connectMu, locals, wire,
                   history, bounds>>

-----------------------------------------------------------------------------
(* reconnect *)

ReconBegin(r) ==
    /\ pc[r] = "begin"
    /\ Goto(r, IF settings.kill THEN "lstore" ELSE "attempt")
    /\ UNCHANGED <<app, locals, answer, wire, history, bounds>>

\* The head of the loop, and the check after it.
ReconAttempt(r) ==
    /\ pc[r] = "attempt"
    /\ IF connectGen # generation[r]
       THEN Goto(r, "idle") /\ UNCHANGED attempt
       ELSE IF attempt[r] < MaxAttempts
            THEN /\ attempt' = [attempt EXCEPT ![r] = @ + 1]
                 /\ Goto(r, "announce")
            ELSE Goto(r, "giveup") /\ UNCHANGED attempt
    /\ UNCHANGED <<app, generation, tries, snap, answer, wire, history, bounds>>

ReconAnnounce(r) ==
    /\ pc[r] = "announce"
    /\ SetState([status |-> "connecting", reconnecting |-> TRUE,
                 blocked |-> lockedDown])
    /\ Goto(r, "sleep")
    /\ UNCHANGED <<lockedDown, lastValid, connectGen, connectMu, locals,
                   answer, wire, history, bounds>>

\* After the delay: give up if superseded, else connect(..., generation).
ReconWake(r) ==
    /\ pc[r] = "sleep"
    /\ Goto(r, IF connectGen # generation[r] THEN "idle" ELSE "lock")
    /\ UNCHANGED <<app, locals, answer, wire, history, bounds>>

ReconGiveUp(r) ==
    /\ pc[r] = "giveup"
    /\ SetState([St("error") EXCEPT !.blocked = lockedDown])
    /\ Goto(r, "idle")
    /\ UNCHANGED <<lockedDown, lastValid, connectGen, connectMu, locals,
                   answer, wire, history, bounds>>

-----------------------------------------------------------------------------
(* readLoop and handleCoreState *)

Read(c) == inbox' = [inbox EXCEPT ![c] = Tail(@)]
Incoming(c, kind) ==
    /\ pc[c] = "read"
    /\ inbox[c] # <<>>
    /\ Head(inbox[c]).kind = kind

\* A response goes to the goroutine that waits for it, if it still does.
ReadResponse(c) ==
    /\ Incoming(c, "response")
    /\ LET m == Head(inbox[c]) IN
       answer' = IF m.from = None THEN answer
                 ELSE [answer EXCEPT ![m.from] = m.value]
    /\ Read(c)
    /\ UNCHANGED <<app, pc, locals, cur, epoch, reqs, alive, tunnel, history,
                   bounds>>

\* Mutant: a tunnel down while connecting counts as a drop.
ReadEventEager(c) ==
    /\ Incoming(c, "event")
    /\ snap' = [snap EXCEPT ![c] = state]
    /\ Goto(c, IF Head(inbox[c]).value = "up" THEN "htrue"
               ELSE IF state.status = "idle" THEN "read"
               ELSE "hfalse")
    /\ Read(c)
    /\ UNCHANGED <<app, generation, tries, attempt, answer, cur, epoch, reqs,
                   alive, tunnel, history, bounds>>

\* handleCoreState reads the state first.  A tunnel down while connecting or
\* idle is no news.
ReadEvent(c) ==
    /\ Incoming(c, "event")
    /\ snap' = [snap EXCEPT ![c] = state]
    /\ Goto(c, IF Head(inbox[c]).value = "up" THEN "htrue"
               ELSE IF state.status \in {"connecting", "idle"} THEN "read"
               ELSE "hfalse")
    /\ Read(c)
    /\ UNCHANGED <<app, generation, tries, attempt, answer, cur, epoch, reqs,
                   alive, tunnel, history, bounds>>

HandleUp(c) ==
    /\ pc[c] = "htrue"
    /\ IF snap[c].status = "connected" \/ lockedDown
       THEN UNCHANGED state
       ELSE SetState([snap[c] EXCEPT !.status = "connected"])
    /\ Goto(c, "read")
    /\ UNCHANGED <<lockedDown, lastValid, connectGen, connectMu, locals,
                   answer, wire, history, bounds>>

\* lockedDown.Swap(false).
HandleDown(c) ==
    /\ pc[c] = "hfalse"
    /\ lockedDown' = FALSE
    /\ Goto(c, IF lockedDown THEN "hlost" ELSE "hdrop")
    /\ UNCHANGED <<state, lastValid, connectGen, connectMu, locals, answer,
                   wire, history, bounds>>

\* The kill switch itself stopped.
HandleLost(c) ==
    /\ pc[c] = "hlost"
    /\ SetState(St("error"))
    /\ Goto(c, "read")
    /\ UNCHANGED <<lockedDown, lastValid, connectGen, connectMu, locals,
                   answer, wire, history, bounds>>

\* An unexpected drop: reconnect, or engage the kill switch, or report.
HandleDrop(c) ==
    /\ pc[c] = "hdrop"
    /\ Goto(c, IF lastValid /\ settings.auto THEN "hspawn"
               ELSE IF settings.kill THEN "lstore" ELSE "herr")
    /\ UNCHANGED <<app, locals, answer, wire, history, bounds>>

\* go a.reconnect(a.connectGen.Load(), ...)
HandleSpawn(c) ==
    /\ pc[c] = "hspawn"
    /\ \E r \in Recons :
          /\ pc[r] = "idle"
          /\ pc' = [pc EXCEPT ![c] = "read", ![r] = "begin"]
          /\ generation' = [generation EXCEPT ![r] = connectGen]
          /\ attempt' = [attempt EXCEPT ![r] = 0]
    /\ UNCHANGED <<app, tries, snap, answer, wire, history, bounds>>

HandleError(c) ==
    /\ pc[c] = "herr"
    /\ SetState([St("error") EXCEPT !.blocked = lockedDown])
    /\ Goto(c, "read")
    /\ UNCHANGED <<lockedDown, lastValid, connectGen, connectMu, locals,
                   answer, wire, history, bounds>>

\* The connection ended: disconnect closes every waiter.
ReadEnd(c) ==
    /\ Incoming(c, "end")
    /\ Read(c)
    /\ IF cur = c
       THEN /\ cur' = 0
            /\ answer' = [p \in Procs |->
                             IF answer[p] = "wait" THEN "err" ELSE answer[p]]
            /\ Goto(c, "reattach")
       ELSE UNCHANGED <<cur, answer, pc>>
    /\ UNCHANGED <<app, locals, epoch, reqs, alive, tunnel, history, bounds>>

\* The three seconds reattach waits outlast the local steps of a goroutine
\* that already has its answer.
Settled == \A w \in Workers : ~Answered(w) /\ pc[w] # "up"

\* Mutant: a lost service is not reported as a lost tunnel.
ReattachSilent(c) ==
    /\ pc[c] = "reattach"
    /\ alive \/ Settled
    /\ snap' = [snap EXCEPT ![c] = state]
    /\ Goto(c, "read")
    /\ UNCHANGED <<app, generation, tries, attempt, answer, wire, history,
                   bounds>>

\* reattach reaches no service in its time, or reaches one that another
\* goroutine launched meanwhile and asks it; only a running tunnel keeps the
\* drop from being reported.  handleCoreState then reads the state.
Reattach(c) ==
    /\ pc[c] = "reattach"
    /\ alive \/ Settled
    /\ snap' = [snap EXCEPT ![c] = state]
    /\ Goto(c, IF alive /\ tunnel # "none" THEN "read"
               ELSE IF state.status \in {"connecting", "idle"} THEN "read"
               ELSE "hfalse")
    /\ UNCHANGED <<app, generation, tries, attempt, answer, wire, history,
                   bounds>>

-----------------------------------------------------------------------------
(* The service *)

Up(t) == IF t = "none" THEN "down" ELSE "up"
Event(t) == [kind |-> "event", from |-> None, value |-> Up(t)]
Response(p, v) == [kind |-> "response", from |-> p, value |-> v]

\* What a request leaves running, and the answers it may get.  A start stops
\* what ran before it, whether or not the new core comes up; a stop may
\* report an error of the core it closed.
Outcomes(cmd) ==
    CASE cmd \in {"tunnel", "lockdown"} ->
            {<<cmd, "ok">>} \cup (IF StartsFail THEN {<<"none", "err">>} ELSE {})
      [] cmd = "stop" -> {<<"none", "ok">>, <<"none", "err">>}
      [] cmd = "status" -> {<<tunnel, Up(tunnel)>>}

\* serve and handle: the state event of a start or a stop goes out before
\* the response.
Serve ==
    /\ alive
    /\ reqs # <<>>
    /\ \E o \in Outcomes(Head(reqs).cmd) :
          /\ tunnel' = o[1]
          /\ inbox' = [inbox EXCEPT ![epoch] = @ \o
                (IF Head(reqs).cmd = "status" THEN <<>> ELSE <<Event(o[1])>>)
                \o <<Response(Head(reqs).from, o[2])>>]
    /\ reqs' = Tail(reqs)
    /\ UNCHANGED <<app, pc, locals, answer, cur, epoch, alive, history, bounds>>

\* The service process dies, and the tunnel with it.
Crash ==
    /\ alive
    /\ crashes < MaxCrashes
    /\ crashes' = crashes + 1
    /\ alive' = FALSE
    /\ tunnel' = "none"
    /\ reqs' = <<>>
    /\ inbox' = [inbox EXCEPT ![epoch] =
                    Append(@, [kind |-> "end", from |-> None, value |-> "down"])]
    /\ UNCHANGED <<app, pc, locals, answer, cur, epoch, history, calls,
                   timeouts, settings>>

-----------------------------------------------------------------------------

ConnectSteps(p) ==
    \/ ConnectLock(p) \/ PlanFails(p) \/ Plan(p) \/ Try(p) \/ TryNext(p)
    \/ ConnectFails(p) \/ ConnectStarted(p) \/ ConnectDone(p)
    \/ GetRead(p) \/ GetAgrees(p) \/ GetDiffers(p) \/ GetReconcile(p)
CallerSteps(u) ==
    \/ ConnectSteps(u)
    \/ DisconnectLock(u) \/ DisconnectIdle(u) \/ DisconnectDone(u)
    \/ ReapplyLock(u) \/ ReapplyStart(u) \/ ReapplyDone(u)
LockdownSteps(p) == LockdownStore(p) \/ LockdownSend(p) \/ LockdownDone(p)
ReconSteps(r) ==
    \/ ReconBegin(r) \/ ReconAttempt(r) \/ ReconAnnounce(r) \/ ReconWake(r)
    \/ ReconGiveUp(r) \/ LockdownSteps(r) \/ ConnectSteps(r)
ReaderSteps(c) ==
    \/ ReadResponse(c) \/ ReadEvent(c) \/ HandleUp(c) \/ HandleDown(c)
    \/ HandleLost(c) \/ HandleDrop(c) \/ HandleSpawn(c) \/ HandleError(c)
    \/ LockdownSteps(c) \/ ReadEnd(c) \/ Reattach(c)

Next ==
    \/ \E u \in Callers :
          Connect(u) \/ Disconnect(u) \/ Get(u) \/ Reapply(u) \/ CallerSteps(u)
    \/ \E r \in Recons : ReconSteps(r)
    \/ \E c \in Conns : ReaderSteps(c)
    \/ \E p \in Procs : Timeout(p)
    \/ Serve
    \/ Crash

\* The Go scheduler runs every runnable goroutine, Go mutexes are handed over
\* to waiters, and the service reads what it is sent.  Calls and crashes are
\* the environment's.
Fairness ==
    /\ \A u \in Callers : SF_vars(CallerSteps(u)) /\ WF_vars(Timeout(u))
    /\ \A r \in Recons : SF_vars(ReconSteps(r)) /\ WF_vars(Timeout(r))
    /\ \A c \in Conns : WF_vars(ReaderSteps(c)) /\ WF_vars(Timeout(c))
    /\ WF_vars(Serve)

Spec == Init /\ [][Next]_vars
FairSpec == Spec /\ Fairness

-----------------------------------------------------------------------------
(* Properties *)

Messages == [kind : {"event", "response", "end"}, from : Procs \cup {None},
             value : Answers]
Requests == [from : Procs \cup {None},
             cmd : {"tunnel", "lockdown", "stop", "status"}]

TypeOK ==
    /\ state \in States
    /\ lockedDown \in BOOLEAN
    /\ lastValid \in BOOLEAN
    /\ connectGen \in Nat
    /\ connectMu \in Workers \cup {None}
    /\ settings \in [auto : BOOLEAN, kill : BOOLEAN]
    /\ pc \in [Procs -> Labels]
    /\ generation \in [Workers -> Nat]
    /\ tries \in [Workers -> Nat]
    /\ attempt \in [Recons -> Nat]
    /\ snap \in [Procs -> States]
    /\ answer \in [Procs -> Answers]
    /\ cur \in Conns \cup {0}
    /\ epoch \in Conns \cup {0}
    /\ reqs \in Seq(Requests)
    /\ inbox \in [Conns -> Seq(Messages)]
    /\ alive \in BOOLEAN
    /\ tunnel \in Tunnels
    /\ calls \in Nat
    /\ crashes \in Nat
    /\ timeouts \in Nat
    /\ served \in Nat
    /\ wanted \in {"connect", "disconnect"}

\* Nothing is in progress: no call, no reconnect, nothing on the wire.
Quiet ==
    /\ \A w \in Workers : pc[w] = "idle"
    /\ \A c \in Conns : pc[c] = "read" /\ inbox[c] = <<>>
    /\ reqs = <<>>

\* The state the UI renders is true once things settle: "connected" only with
\* the tunnel of a server up, whatever connects, disconnects, failovers and
\* drops overlapped on the way.  (An error may be shown over a tunnel that is
\* still up: a connect that fails while planning leaves the old one alone.)
ConnectedMeansUp == Quiet /\ state.status = "connected" => tunnel = "tunnel"

\* "idle" only with nothing running: neither a tunnel nor a lockdown is left
\* behind by a disconnect or by a call it overtook.
IdleMeansDown == Quiet /\ state.status = "idle" => tunnel = "none"

\* "Any connect or disconnect by the user bumps connectGen and ends it": when
\* nothing is connecting any more, the UI does not say that something is.
NeverStuckConnecting == Quiet => state.status # "connecting"

\* "the user asked for the tunnel to be down": after a Disconnect that no later
\* Connect of the user followed, no tunnel runs and none is shown, so the
\* stop's own event was not taken for a drop and no reconnect came back.
DisconnectSticks ==
    Quiet /\ wanted = "disconnect" =>
        tunnel # "tunnel" /\ state.status # "connected"

\* As long as the service has not died, calls alone keep both: the UI is never
\* left connecting, and a disconnect is final.
CallsAloneSettle == crashes = 0 => NeverStuckConnecting /\ DisconnectSticks

\* "Blocked means the kill switch is holding all traffic until the tunnel is
\* back, or the user disconnects."
BlockedIsBlocked == Quiet /\ state.blocked => tunnel = "lockdown"

\* Labels of a connect past its generation check.
Starting == {"plan", "try", "await", "up"}

\* A reconnect or a connect that a newer Connect or Disconnect has overtaken
\* never brings up a tunnel behind it: from its generation check to its end,
\* no newer call has been through connectMu.
SupersededNeverStarts ==
    \A p \in Workers : pc[p] \in Starting => served <= generation[p]

\* connectMu "serialises Connect and Disconnect so two clicks cannot race": a
\* connect, a disconnect or a routing change sends its request while an
\* earlier one is still on its way only when that one's caller has given it
\* up.  The service reads them in order, so a stop never overtakes the start
\* it is meant to undo.
Commands == {"tunnel", "stop"}
OneCommandAtATime ==
    \A i, j \in 1..Len(reqs) :
       i < j /\ reqs[i].cmd \in Commands /\ reqs[j].cmd \in Commands
          => reqs[i].from = None

\* Every call returns: nobody waits for an answer for ever, not even behind a
\* readLoop that waits for one itself, and connectMu is always released.
CallsReturn == \A u \in Callers : pc[u] # "idle" ~> pc[u] = "idle"

\* When calls and crashes stop, everything comes to rest: reconnects and the
\* events they cause do not keep each other going.  Without the kill switch: a
\* lockdown that cannot start is tried again for ever.
Settles == ~settings.kill => <>[]Quiet

-----------------------------------------------------------------------------
(* The inductive invariant behind SupersededNeverStarts. *)

\* Labels between connectMu.Lock and its deferred Unlock.  GetConnectionState
\* runs under the mutex only inside a superseded connect.
Critical == {"superseded", "plan", "try", "await", "up", "didle", "dwait",
             "rstart", "rwait"}
MutexInv == \A p \in Workers : pc[p] \in Critical => connectMu = p

GenerationInv ==
    /\ served <= connectGen
    /\ \A p \in Workers : generation[p] <= connectGen

ConnTypes ==
    /\ pc \in [Procs -> Labels]
    /\ connectMu \in Workers \cup {None}
    /\ connectGen \in Nat
    /\ generation \in [Workers -> Nat]
    /\ served \in Nat

ConnInv == ConnTypes /\ MutexInv /\ GenerationInv /\ SupersededNeverStarts

-----------------------------------------------------------------------------
(* The inductive invariant behind OneCommandAtATime and NoStaleAnswer. *)

\* Labels of a goroutine inside Client.request.
Waiting == {"await", "gwait", "dwait", "rwait", "lwait"}
WaitersInv == \A p \in Procs : answer[p] = "wait" => pc[p] \in Waiting

\* One service at a time, at the end of the connection in use; what a
\* connection carried is gone once its end has been read.
LinkInv ==
    /\ cur \in {0, epoch}
    /\ alive => cur # 0
    /\ ~alive => reqs = <<>>
    /\ \A c \in Conns : c # cur => inbox[c] = <<>>
    /\ \A c \in Conns : \A i \in 1..Len(inbox[c]) :
          inbox[c][i].kind = "end" => ~alive /\ i = Len(inbox[c])

\* A request on the wire that was not given up is the one its goroutine waits
\* for; those that change the tunnel come from under connectMu.
RequestsInv ==
    \A i \in 1..Len(reqs) : reqs[i].from # None =>
       /\ answer[reqs[i].from] = "wait"
       /\ \A j \in 1..Len(reqs) : reqs[j].from = reqs[i].from => j = i
       /\ reqs[i].cmd \in Commands =>
             /\ reqs[i].from \in Workers
             /\ pc[reqs[i].from] \in {"await", "dwait", "rwait"}

\* An answer on the wire is for a goroutine that still waits, and for the one
\* request that goroutine waits for: it has no other on the wire, and no other
\* answer.
NoStaleAnswer ==
    \A c \in Conns : \A i \in 1..Len(inbox[c]) :
       inbox[c][i].from # None =>
          /\ answer[inbox[c][i].from] = "wait"
          /\ \A j \in 1..Len(reqs) : reqs[j].from # inbox[c][i].from
          /\ \A j \in 1..Len(inbox[c]) :
                inbox[c][j].from = inbox[c][i].from => j = i

WireInv ==
    WaitersInv /\ LinkInv /\ RequestsInv /\ OneCommandAtATime /\ NoStaleAnswer
=============================================================================
