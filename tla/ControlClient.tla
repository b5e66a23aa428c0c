---------------------------- MODULE ControlClient ----------------------------
(***************************************************************************)
(* The GUI's end of the control channel: internal/core/client.go, with the *)
(* part of internal/core/service.go it talks to (token file, listener,     *)
(* authentication, answers, parent watcher).                               *)
(*                                                                         *)
(* Callers are the goroutines that use one Client: Start and StartCore     *)
(* (Ensure, then a request), Stop and Running (a request if Connected).    *)
(* Every connection has a readLoop goroutine, which reattaches when the    *)
(* connection it reads is lost.  All of them share conn, token and the     *)
(* pending map, and nothing serialises Ensure.                             *)
(*                                                                         *)
(* A Unix socket path has one listener at a time: a service that binds it, *)
(* or a client that removes the file, makes the previous one unreachable,  *)
(* without ending it.                                                      *)
(***************************************************************************)
EXTENDS Naturals, Sequences, FiniteSets

CONSTANTS
    Callers,        \* goroutines that use the client
    Ops,            \* what they call: "start", "stop", "status"
    MaxOps,         \* bound: calls
    MaxConns,       \* bound: connections dialled
    MaxServices,    \* bound: services launched, the leftover one included
    MaxCrashes,     \* bound: deaths of a service and losses of a connection
    Leftovers,      \* whether a service of an earlier session may be running
    TimesOut,       \* whether a request may outlast its 90 seconds
    PromptInTime,   \* whether the elevation prompt is answered in 60 seconds
    Quits           \* whether the GUI may exit

Conns == 1..MaxConns
Services == 1..MaxServices
\* Bound on request ids: a connection sees at most one hello and one status of
\* a reattach, and a call sends at most one request of its own.
MaxIDs == 2 * MaxConns + MaxOps
IDs == 1..MaxIDs
Procs == Callers \cup Conns

ASSUME OpsAssumption == Ops \subseteq {"start", "stop", "status"}
ASSUME BoundsAssumption ==
    /\ {MaxOps, MaxConns, MaxServices, MaxCrashes} \subseteq Nat
    /\ MaxServices > 0
    /\ {TimesOut, PromptInTime, Quits} \subseteq BOOLEAN
    /\ Leftovers \subseteq BOOLEAN
ASSUME CallersAssumption == Callers \cap Nat = {}

VARIABLES
    \* the Client
    conn,       \* Client.conn and encoder: the connection in use, 0 for nil
    token,      \* Client.token: the number of the launch it is for, 0 for ""
    nextID,     \* Client.nextID
    pending,    \* keys of Client.pending
    waiter,     \* the channel of each request: open, answered, or closed
    \* its goroutines
    pc,
    phase,      \* what a connect or a request is for
    req,        \* the request a goroutine is making
    \* connections: which service accepted it, whether both ends are open,
    \* whether the hello was accepted, and the messages in both directions
    peer, open, authenticated, sent, received,
    dialled,    \* connections so far
    \* services and what they share with the client
    service,    \* none, starting, binding, running, gone
    key,        \* ServiceOptions.Token of each
    tunnel,     \* whether its Instance runs
    listener,   \* the service that answers on the socket path, 0 for none
    file,       \* the token file, 0 when there is none
    launches, crashes, calls,   \* against their bounds
    gui,        \* the GUI process is alive
    \* history
    told,       \* the last state event the App was given
    alone,      \* Stops that began with no Start under way
    settled     \* such a Stop has returned nil, and no Start began since

client == <<conn, token, nextID, pending, waiter>>
procs == <<pc, phase, req>>
links == <<peer, open, authenticated, sent, received, dialled>>
services == <<service, key, tunnel, listener, file, launches>>
history == <<told, alone, settled>>
env == <<crashes, calls, gui>>
vars == <<client, procs, links, services, history, env>>

Labels == {"idle", "check", "dial", "hello", "ask", "send", "wait", "drop",
           "stale", "unlink", "newtoken", "settoken", "elevate",
           "unborn", "read", "done"}
Cmds == {"hello", "start", "stop", "status"}
Reqs == [cmd : Cmds, id : IDs \cup {0}, on : Conns \cup {0},
         token : Services \cup {0}]
NoReq == [cmd |-> "status", id |-> 0, on |-> 0, token |-> 0]

Init ==
    /\ conn = 0 /\ token = 0 /\ nextID = 0 /\ pending = {}
    /\ waiter = [i \in IDs |-> "unused"]
    /\ pc = [p \in Procs |-> IF p \in Conns THEN "unborn" ELSE "idle"]
    /\ phase = [p \in Procs |-> "use"]
    /\ req = [p \in Procs |-> NoReq]
    /\ peer = [n \in Conns |-> 0]
    /\ open = [n \in Conns |-> FALSE]
    /\ authenticated = [n \in Conns |-> FALSE]
    /\ sent = [n \in Conns |-> <<>>]
    /\ received = [n \in Conns |-> <<>>]
    /\ dialled = 0
    /\ \E old \in Leftovers :
          /\ service = [s \in Services |->
                           IF s = 1 /\ old THEN "running" ELSE "none"]
          /\ listener = IF old THEN 1 ELSE 0
          /\ launches = IF old THEN 1 ELSE 0
          /\ tunnel \in [Services -> BOOLEAN]
          /\ \A s \in Services : tunnel[s] => s = 1 /\ old
    /\ key = [s \in Services |-> 0]
    /\ file = 0
    /\ crashes = 0 /\ calls = 0 /\ gui = TRUE
    /\ told = "down" /\ alone = {} /\ settled = FALSE

-----------------------------------------------------------------------------
(* Shared steps: connect, disconnect, request *)

Goto(p, l) == pc' = [pc EXCEPT ![p] = l]

\* Ensure looks for a service ("find"), then waits for the one it launched
\* ("launched"); a readLoop reattaches ("reattach"); "use" is the request
\* proper.  All but the last disconnect when a handshake or request fails.
OnFailure(p) == IF phase[p] = "use" THEN "idle" ELSE "drop"

\* Steps that take seconds (a person at a prompt, a process starting, a
\* deadline of 3, 10, 60 or 90 seconds) outlast those that only need the
\* processor: nobody is in the middle of one when they end.
Local == {"check", "hello", "ask", "send", "drop", "unlink", "newtoken",
          "settoken"}
Rested ==
    gui =>
      /\ \A p \in Procs : /\ pc[p] \notin Local
                          /\ pc[p] = "wait" => waiter[req[p].id] = "open"
                          /\ pc[p] = "dial" => listener = 0
      /\ \A n \in Conns : pc[n] = "read" => open[n] /\ received[n] = <<>>
      /\ \A s \in Services : service[s] # "binding"

\* Client.connect: dial, make it the connection in use, start its readLoop.
Connect(p) ==
    /\ pc[p] = "dial"
    /\ listener # 0
    /\ dialled < MaxConns
    /\ LET n == dialled + 1 IN
       /\ dialled' = n
       /\ conn' = n
       /\ peer' = [peer EXCEPT ![n] = listener]
       /\ open' = [open EXCEPT ![n] = TRUE]
       /\ pc' = [pc EXCEPT ![p] = "hello", ![n] = "read"]
    /\ UNCHANGED <<token, nextID, pending, waiter, phase, req, authenticated,
                   sent, received, services, history, env>>

\* Mutant: reattach gives up without a word.
ConnectFailsSilently(p) ==
    /\ pc[p] = "dial"
    /\ listener = 0
    /\ phase[p] # "find" => Rested
    /\ phase[p] = "launched" /\ PromptInTime =>
          \A s \in Services : service[s] # "starting"
    /\ Goto(p, CASE phase[p] = "find" -> "unlink"
                 [] phase[p] = "launched" -> "idle"
                 [] phase[p] = "reattach" -> "done")
    /\ UNCHANGED <<client, phase, req, links, services, history, env>>

\* Mutant: Ensure waits for the service it launched without a deadline.
ConnectFailsNever(p) ==
    /\ pc[p] = "dial"
    /\ listener = 0
    /\ phase[p] # "launched"
    /\ phase[p] # "find" => Rested
    /\ Goto(p, IF phase[p] = "find" THEN "unlink" ELSE "done")
    /\ told' = IF phase[p] = "reattach" THEN "down" ELSE told
    /\ UNCHANGED <<client, phase, req, links, services, alone, settled, env>>

\* Nobody listens, and for a launched or lost service the time is up: Ensure
\* goes on to launch a service, or reports the timeout; reattach tells the App
\* that the tunnel is down.
ConnectFails(p) ==
    /\ pc[p] = "dial"
    /\ listener = 0
    /\ phase[p] # "find" => Rested
    /\ phase[p] = "launched" /\ PromptInTime =>
          \A s \in Services : service[s] # "starting"
    /\ Goto(p, CASE phase[p] = "find" -> "unlink"
                 [] phase[p] = "launched" -> "idle"
                 [] phase[p] = "reattach" -> "done")
    /\ told' = IF phase[p] = "reattach" THEN "down" ELSE told
    /\ UNCHANGED <<client, phase, req, links, services, alone, settled, env>>

\* Client.handshake reads the token; without one it fails.
Handshake(p) ==
    /\ pc[p] = "hello"
    /\ req' = [req EXCEPT ![p] =
                  [NoReq EXCEPT !.cmd = "hello", !.token = token]]
    /\ Goto(p, IF token = 0 THEN OnFailure(p) ELSE "ask")
    /\ UNCHANGED <<client, phase, links, services, history, env>>

\* Client.request, under mu: no encoder, or a new waiter.
Register(p) ==
    /\ pc[p] = "ask"
    /\ IF conn = 0
       THEN Goto(p, OnFailure(p)) /\ UNCHANGED <<nextID, pending, waiter, req>>
       ELSE /\ nextID < MaxIDs
            /\ nextID' = nextID + 1
            /\ pending' = pending \cup {nextID + 1}
            /\ waiter' = [waiter EXCEPT ![nextID + 1] = "open"]
            /\ req' = [req EXCEPT ![p].id = nextID + 1, ![p].on = conn]
            /\ Goto(p, "send")
    /\ UNCHANGED <<conn, token, phase, links, services, history, env>>

\* encoder.Encode, on the connection that was current at Register.
Send(p) ==
    /\ pc[p] = "send"
    /\ LET n == req[p].on IN
       IF open[n]
       THEN /\ sent' = [sent EXCEPT ![n] = Append(@, req[p])]
            /\ Goto(p, "wait")
            /\ UNCHANGED pending
       ELSE /\ pending' = pending \ {req[p].id}
            /\ Goto(p, OnFailure(p))
            /\ UNCHANGED sent
    /\ UNCHANGED <<conn, token, nextID, waiter, phase, req, peer, open,
                   authenticated, received, dialled, services, history, env>>

\* Mutant: a failed handshake leaves the pending map alone.
DisconnectKeepsMap(p) ==
    /\ pc[p] = "drop"
    /\ conn' = 0
    /\ waiter' = [i \in IDs |-> IF i \in pending THEN "closed" ELSE waiter[i]]
    /\ open' = [n \in Conns |-> open[n] /\ n # conn]
    /\ received' = [n \in Conns |-> IF n = conn THEN <<>> ELSE received[n]]
    /\ Goto(p, IF phase[p] = "find" THEN "stale" ELSE "dial")
    /\ UNCHANGED <<token, nextID, pending, phase, req, peer, authenticated,
                   sent, dialled, services, history, env>>

\* Client.disconnect: takes the connection and the whole pending map, closes
\* the one and every waiter of the other, whichever connection they wait on.
Disconnect(p) ==
    /\ pc[p] = "drop"
    /\ conn' = 0
    /\ pending' = {}
    /\ waiter' = [i \in IDs |-> IF i \in pending THEN "closed" ELSE waiter[i]]
    /\ open' = [n \in Conns |-> open[n] /\ n # conn]
    /\ received' = [n \in Conns |-> IF n = conn THEN <<>> ELSE received[n]]
    /\ Goto(p, IF phase[p] = "find" THEN "stale" ELSE "dial")
    /\ UNCHANGED <<token, nextID, phase, req, peer, authenticated, sent,
                   dialled, services, history, env>>

\* The answer to a hello: Ensure is done and its caller sends the start;
\* reattach asks for the status.
HelloAccepted(p) ==
    /\ pc[p] = "wait"
    /\ req[p].cmd = "hello"
    /\ waiter[req[p].id] \in {"up", "down"}
    /\ req' = [req EXCEPT ![p] = [NoReq EXCEPT
                  !.cmd = IF phase[p] = "reattach" THEN "status" ELSE "start"]]
    /\ phase' = [phase EXCEPT ![p] = IF @ = "reattach" THEN @ ELSE "use"]
    /\ Goto(p, "ask")
    /\ UNCHANGED <<client, links, services, history, env>>

\* reattach learns the state: only a running tunnel goes unreported.
Reattached(n) ==
    /\ pc[n] = "wait"
    /\ phase[n] = "reattach" /\ req[n].cmd = "status"
    /\ waiter[req[n].id] \in {"up", "down"}
    /\ told' = IF waiter[req[n].id] = "up" THEN told ELSE "down"
    /\ Goto(n, "done")
    /\ UNCHANGED <<client, phase, req, links, services, alone, settled, env>>

\* The service refused, or a disconnect closed the waiter.
RequestFails(p) ==
    /\ pc[p] = "wait"
    /\ phase[p] # "use"
    /\ waiter[req[p].id] \in {"err", "closed"}
    /\ Goto(p, "drop")
    /\ UNCHANGED <<client, phase, req, links, services, history, env>>

\* The 90 seconds are over.
Timeout(p) ==
    /\ TimesOut
    /\ Rested
    /\ pc[p] = "wait"
    /\ waiter[req[p].id] = "open"
    /\ pending' = pending \ {req[p].id}
    /\ Goto(p, OnFailure(p))
    /\ UNCHANGED <<conn, token, nextID, waiter, phase, req, links, services,
                   history, env>>

-----------------------------------------------------------------------------
(* The operations: Start and StartCore; Stop and Running *)

Call(u, o) ==
    /\ pc[u] = "idle"
    /\ o \in Ops
    /\ calls < MaxOps
    /\ calls' = calls + 1
    /\ req' = [req EXCEPT ![u] = [NoReq EXCEPT !.cmd = o]]

CallStart(u) ==
    /\ Call(u, "start")
    /\ phase' = [phase EXCEPT ![u] = "find"]
    /\ alone' = {} /\ settled' = FALSE
    /\ Goto(u, "check")
    /\ UNCHANGED <<client, links, services, told, crashes, gui>>

\* Ensure's first line: a connection is taken to be ready for use.
EnsureConnected(u) ==
    /\ pc[u] = "check"
    /\ IF conn # 0
       THEN Goto(u, "ask") /\ phase' = [phase EXCEPT ![u] = "use"]
       ELSE Goto(u, "dial") /\ UNCHANGED phase
    /\ UNCHANGED <<client, req, links, services, history, env>>

\* Someone is between the call of Start and its return.
StartUnderWay ==
    \E v \in Callers : pc[v] # "idle" /\ req[v].cmd \in {"start", "hello"}

\* Stop and Running do nothing without a connection, and Stop reports success.
CallIfConnected(u, o) ==
    /\ o \in {"stop", "status"}
    /\ Call(u, o)
    /\ phase' = [phase EXCEPT ![u] = "use"]
    /\ Goto(u, IF conn = 0 THEN "idle" ELSE "ask")
    /\ alone' = IF o = "stop" /\ ~StartUnderWay THEN alone \cup {u} ELSE alone
    /\ settled' = (settled \/ (conn = 0 /\ u \in alone'))
    /\ UNCHANGED <<client, links, services, told, crashes, gui>>

CallReturns(u) ==
    /\ pc[u] = "wait"
    /\ phase[u] = "use"
    /\ waiter[req[u].id] # "open"
    /\ settled' = (settled \/ (u \in alone /\ waiter[req[u].id] = "down"))
    /\ alone' = alone \ {u}
    /\ Goto(u, "idle")
    /\ UNCHANGED <<client, phase, req, links, services, told, env>>

-----------------------------------------------------------------------------
(* Ensure, when no service accepts us: waitForStaleService, launchService *)

\* Until nothing answers, or the ten seconds are over.
WaitForStaleService(u) ==
    /\ pc[u] = "stale"
    /\ Rested
    /\ Goto(u, "unlink")
    /\ UNCHANGED <<client, phase, req, links, services, history, env>>

\* os.Remove(socketPath)
RemoveSocket(u) ==
    /\ pc[u] = "unlink"
    /\ listener' = 0
    /\ Goto(u, "newtoken")
    /\ UNCHANGED <<client, phase, req, links, service, key, tunnel, file,
                   launches, history, env>>

\* newToken writes the file, which may fail, then stores the token.
NewToken(u) ==
    /\ pc[u] = "newtoken"
    /\ \/ /\ launches < MaxServices
          /\ launches' = launches + 1
          /\ file' = launches + 1
          /\ req' = [req EXCEPT ![u].token = launches + 1]
          /\ Goto(u, "settoken")
       \/ Goto(u, "idle") /\ UNCHANGED <<launches, file, req>>
    /\ UNCHANGED <<client, phase, links, service, key, tunnel, listener,
                   history, env>>

SetToken(u) ==
    /\ pc[u] = "settoken"
    /\ token' = req[u].token
    /\ Goto(u, "elevate")
    /\ UNCHANGED <<conn, nextID, pending, waiter, phase, req, links, services,
                   history, env>>

\* elevateAndRun: no pkexec, or a prompt that Ensure does not wait for.
Elevate(u) ==
    /\ pc[u] = "elevate"
    /\ \/ /\ service' = [service EXCEPT ![req[u].token] = "starting"]
          /\ phase' = [phase EXCEPT ![u] = "launched"]
          /\ Goto(u, "dial")
       \/ Goto(u, "idle") /\ UNCHANGED <<service, phase>>
    /\ UNCHANGED <<client, req, links, key, tunnel, listener, file, launches,
                   history, env>>

-----------------------------------------------------------------------------
(* readLoop *)

\* Mutant: a delivered answer stays in the pending map.
ReadResponseKeeps(n) ==
    /\ pc[n] = "read"
    /\ received[n] # <<>>
    /\ LET m == Head(received[n]) IN
       /\ m.id # 0
       /\ waiter' = IF m.id \in pending THEN [waiter EXCEPT ![m.id] = m.value]
                    ELSE waiter
    /\ received' = [received EXCEPT ![n] = Tail(@)]
    /\ UNCHANGED <<conn, token, nextID, pending, procs, peer, open,
                   authenticated, sent, dialled, services, history, env>>

\* A response resolves the waiter of its id, if there still is one.
ReadResponse(n) ==
    /\ pc[n] = "read"
    /\ received[n] # <<>>
    /\ LET m == Head(received[n]) IN
       /\ m.id # 0
       /\ waiter' = IF m.id \in pending THEN [waiter EXCEPT ![m.id] = m.value]
                    ELSE waiter
       /\ pending' = pending \ {m.id}
    /\ received' = [received EXCEPT ![n] = Tail(@)]
    /\ UNCHANGED <<conn, token, nextID, procs, peer, open, authenticated, sent,
                   dialled, services, history, env>>

\* A state event goes to the App.
ReadEvent(n) ==
    /\ pc[n] = "read"
    /\ received[n] # <<>>
    /\ Head(received[n]).id = 0
    /\ told' = Head(received[n]).value
    /\ received' = [received EXCEPT ![n] = Tail(@)]
    /\ UNCHANGED <<client, procs, peer, open, authenticated, sent, dialled,
                   services, alone, settled, env>>

\* Mutant: a lost connection counts as a lost service.
ReadEndGivesUp(n) ==
    /\ pc[n] = "read"
    /\ ~open[n] /\ received[n] = <<>>
    /\ conn' = IF conn = n THEN 0 ELSE conn
    /\ told' = IF conn = n THEN "down" ELSE told
    /\ Goto(n, "done")
    /\ UNCHANGED <<token, nextID, pending, waiter, phase, req, links, services,
                   alone, settled, env>>

\* The connection ended.  Only the one in use is reattached.
ReadEnd(n) ==
    /\ pc[n] = "read"
    /\ ~open[n] /\ received[n] = <<>>
    /\ phase' = [phase EXCEPT ![n] = "reattach"]
    /\ Goto(n, IF conn = n THEN "drop" ELSE "done")
    /\ UNCHANGED <<client, req, links, services, history, env>>

-----------------------------------------------------------------------------
(* The service, and the two processes' ends *)

Answer(r, v) == [id |-> r.id, value |-> v]
Event(v) == [id |-> 0, value |-> v]
Up(b) == IF b THEN "up" ELSE "down"

\* The user declines, and no service comes of it.
Declined(s) ==
    /\ service[s] = "starting"
    /\ Rested
    /\ service' = [service EXCEPT ![s] = "gone"]
    /\ UNCHANGED <<client, procs, links, key, tunnel, listener, file, launches,
                   history, env>>

\* ReadTokenFile takes the file away; a service without a token ends.
ReadTokenFile(s) ==
    /\ service[s] = "starting"
    /\ Rested
    /\ service' = [service EXCEPT ![s] = IF file = 0 THEN "gone" ELSE "binding"]
    /\ key' = [key EXCEPT ![s] = file]
    /\ file' = 0
    /\ UNCHANGED <<client, procs, links, tunnel, listener, launches, history,
                   env>>

\* run: the socket file is replaced.
Listen(s) ==
    /\ service[s] = "binding"
    /\ service' = [service EXCEPT ![s] = "running"]
    /\ listener' = s
    /\ UNCHANGED <<client, procs, links, key, tunnel, file, launches, history,
                   env>>

FirstOf(n) == Head(sent[n])
Incoming(s, n) ==
    /\ service[s] \in {"running", "closing"}
    /\ peer[n] = s
    /\ sent[n] # <<>>

\* serve: anything but a hello with the right token ends the connection.
ServeUnauthorized(s, n) ==
    /\ Incoming(s, n)
    /\ ~authenticated[n]
    /\ FirstOf(n).cmd # "hello" \/ FirstOf(n).token # key[s]
    /\ received' = IF open[n] THEN [received EXCEPT ![n] =
                                       Append(@, Answer(FirstOf(n), "err"))]
                   ELSE received
    /\ sent' = [sent EXCEPT ![n] = <<>>]
    /\ open' = [open EXCEPT ![n] = FALSE]
    /\ UNCHANGED <<client, procs, peer, authenticated, dialled, services, told,
                   alone, settled, env>>

\* What reaches the client: nothing once it has closed its end.
Deliver(to) ==
    received' = [n \in Conns |-> IF open[n] THEN received[n] \o to[n]
                                 ELSE received[n]]

\* An answer that cannot be written ends serve; the first hello's is not looked
\* at.
Rest(n) == IF open[n] \/ ~authenticated[n] THEN Tail(sent[n]) ELSE <<>>

\* A hello, or a status: the answer says whether the tunnel runs.
ServeQuery(s, n) ==
    /\ Incoming(s, n)
    /\ \/ /\ FirstOf(n).cmd = "hello"
          /\ authenticated[n] \/ FirstOf(n).token = key[s]
       \/ FirstOf(n).cmd = "status" /\ authenticated[n]
    /\ authenticated' = [authenticated EXCEPT ![n] = TRUE]
    /\ Deliver([m \in Conns |->
          IF m = n THEN <<Answer(FirstOf(n), Up(tunnel[s]))>> ELSE <<>>])
    /\ sent' = [sent EXCEPT ![n] = Rest(n)]
    /\ UNCHANGED <<client, procs, peer, open, dialled, services, told, alone,
                   settled, env>>

\* What a start that left the tunnel running or not, or a stop, is answered.
CommandAnswer(n, runs) ==
    Answer(FirstOf(n),
           IF FirstOf(n).cmd = "start" /\ ~runs THEN "err" ELSE Up(runs))

\* The state event goes to every authenticated connection, then the answer to
\* the one that asked.
BroadcastState(s, n, runs) ==
    Deliver([m \in Conns |->
       (IF authenticated[m] /\ peer[m] = s THEN <<Event(Up(runs))>> ELSE <<>>)
       \o (IF m = n THEN <<CommandAnswer(n, runs)>> ELSE <<>>)])

\* A start, which may fail and then leaves nothing running, or a stop.
ServeCommand(s, n) ==
    /\ Incoming(s, n)
    /\ authenticated[n]
    /\ FirstOf(n).cmd \in {"start", "stop"}
    /\ \E runs \in (IF FirstOf(n).cmd = "start" THEN BOOLEAN ELSE {FALSE}) :
          /\ tunnel' = [tunnel EXCEPT ![s] = runs]
          /\ BroadcastState(s, n, runs)
    /\ sent' = [sent EXCEPT ![n] = Rest(n)]
    /\ UNCHANGED <<client, procs, peer, open, authenticated, dialled, service,
                   key, listener, file, launches, told, alone, settled, env>>

\* The end of service s as its connections see it.
Gone(s) ==
    /\ service' = [service EXCEPT ![s] = "gone"]
    /\ tunnel' = [tunnel EXCEPT ![s] = FALSE]
    /\ open' = [n \in Conns |-> open[n] /\ peer[n] # s]
    /\ sent' = [n \in Conns |-> IF peer[n] = s THEN <<>> ELSE sent[n]]

\* The service process dies; its socket file stays, with nothing behind it.
ServiceDies(s) ==
    /\ service[s] = "running"
    /\ crashes < MaxCrashes
    /\ crashes' = crashes + 1
    /\ Gone(s)
    /\ listener' = IF listener = s THEN 0 ELSE listener
    /\ UNCHANGED <<client, procs, peer, authenticated, received, dialled, key,
                   file, launches, history, calls, gui>>

\* serve gives up on a connection (a request over its limit, a failed write)
\* while the service and its tunnel live on.
LinkDrops(n) ==
    /\ open[n]
    /\ service[peer[n]] = "running"
    /\ crashes < MaxCrashes
    /\ crashes' = crashes + 1
    /\ open' = [open EXCEPT ![n] = FALSE]
    /\ sent' = [sent EXCEPT ![n] = <<>>]
    /\ UNCHANGED <<client, procs, peer, authenticated, received, dialled,
                   services, history, calls, gui>>

\* Its parent is the GUI of this session, or of an earlier one, whose token
\* nobody here knows.
ParentGone(s) == ~gui \/ key[s] = 0

\* Mutant: the parent is never looked at.
WatchParentNever(s) == service[s] = "watched" /\ UNCHANGED vars

\* watchParent: stop the tunnel, close the listener (which unlinks the path).
WatchParent(s) ==
    /\ service[s] = "running"
    /\ ParentGone(s)
    /\ service' = [service EXCEPT ![s] = "closing"]
    /\ tunnel' = [tunnel EXCEPT ![s] = FALSE]
    /\ listener' = 0
    /\ UNCHANGED <<client, procs, links, key, file, launches, history, env>>

\* run returns: the deferred os.Remove takes whatever is at the path.
ServiceExits(s) ==
    /\ service[s] = "closing"
    /\ Gone(s)
    /\ listener' = 0
    /\ UNCHANGED <<client, procs, peer, authenticated, received, dialled, key,
                   file, launches, history, env>>

\* The GUI process ends without saying goodbye, its goroutines with it.
Quit ==
    /\ Quits
    /\ gui
    /\ gui' = FALSE
    /\ open' = [n \in Conns |-> FALSE]
    /\ UNCHANGED <<client, procs, peer, authenticated, sent, received, dialled,
                   services, history, crashes, calls>>

-----------------------------------------------------------------------------

RequestSteps(p) ==
    \/ Connect(p) \/ ConnectFails(p) \/ Handshake(p) \/ Register(p) \/ Send(p)
    \/ Disconnect(p) \/ HelloAccepted(p) \/ RequestFails(p) \/ Timeout(p)
CallerSteps(u) ==
    \/ RequestSteps(u) \/ EnsureConnected(u) \/ CallReturns(u)
    \/ WaitForStaleService(u) \/ RemoveSocket(u) \/ NewToken(u) \/ SetToken(u)
    \/ Elevate(u)
ReaderSteps(n) ==
    \/ RequestSteps(n) \/ Reattached(n)
    \/ ReadResponse(n) \/ ReadEvent(n) \/ ReadEnd(n)
Calls(u) == CallStart(u) \/ \E o \in Ops : CallIfConnected(u, o)
ServiceSteps(s) ==
    \/ Listen(s) \/ WatchParent(s) \/ ServiceExits(s)
    \/ \E n \in Conns :
          ServeUnauthorized(s, n) \/ ServeQuery(s, n) \/ ServeCommand(s, n)

PromptAnswered(s) == ReadTokenFile(s) \/ Declined(s)

Next ==
    \/ gui /\ \E u \in Callers : Calls(u) \/ CallerSteps(u)
    \/ gui /\ \E n \in Conns : ReaderSteps(n)
    \/ \E s \in Services :
          ServiceSteps(s) \/ PromptAnswered(s) \/ ServiceDies(s)
    \/ \E n \in Conns : LinkDrops(n)
    \/ Quit

\* Goroutines and services run when they can; calls, the answer to a prompt,
\* deaths and the GUI's exit are the environment's.
Fairness ==
    /\ \A u \in Callers : WF_vars(gui /\ CallerSteps(u))
    /\ \A n \in Conns : WF_vars(gui /\ ReaderSteps(n))
    /\ \A s \in Services : WF_vars(ServiceSteps(s))

Spec == Init /\ [][Next]_vars
FairSpec == Spec /\ Fairness

-----------------------------------------------------------------------------
(* Properties *)

WaiterStates == {"unused", "open", "up", "down", "err", "closed"}

TypeOK ==
    /\ conn \in Conns \cup {0}
    /\ token \in Services \cup {0}
    /\ nextID \in IDs \cup {0}
    /\ pending \subseteq IDs
    /\ waiter \in [IDs -> WaiterStates]
    /\ pc \in [Procs -> Labels]
    /\ phase \in [Procs -> {"find", "launched", "reattach", "use"}]
    /\ req \in [Procs -> Reqs]
    /\ dialled \in 0..MaxConns
    /\ peer \in [Conns -> Services \cup {0}]
    /\ open \in [Conns -> BOOLEAN]
    /\ authenticated \in [Conns -> BOOLEAN]
    /\ sent \in [Conns -> Seq(Reqs)]
    /\ received \in [Conns -> Seq([id : IDs \cup {0}, value : WaiterStates])]
    /\ service \in [Services -> {"none", "starting", "binding", "running",
                                 "closing", "gone"}]
    /\ key \in [Services -> Services \cup {0}]
    /\ tunnel \in [Services -> BOOLEAN]
    /\ listener \in Services \cup {0}
    /\ file \in Services \cup {0}
    /\ launches \in 0..MaxServices
    /\ told \in {"up", "down"}

\* A waiter is resolved at most once, by an answer or by a disconnect, and is
\* then out of the map: a second send or close would panic the GUI.
ResolvedOnce ==
    [][\A i \in IDs :
          waiter[i] \notin {"unused", "open"} => waiter'[i] = waiter[i]]_vars

\* Every waiter in the map is still unresolved, and ids not handed out yet have
\* no waiter: what a resolver takes from the map nobody resolved before.
PendingInv ==
    /\ \A i \in pending : waiter[i] = "open" /\ i <= nextID
    /\ \A i \in IDs : i > nextID => waiter[i] = "unused"

\* Nothing is under way, on either side of the channel.
Quiet ==
    /\ gui
    /\ \A u \in Callers : pc[u] = "idle"
    /\ \A n \in Conns : /\ pc[n] \in {"unborn", "read", "done"}
                        /\ pc[n] = "read" => open[n] /\ received[n] = <<>>
                        /\ sent[n] = <<>>
    /\ \A s \in Services : service[s] \notin {"starting", "binding", "closing"}
    /\ \A s \in Services : service[s] = "running" => ~ParentGone(s)

\* "The core is gone, so whatever the UI last heard is now wrong: say so
\* explicitly rather than leaving it showing a tunnel that no longer exists."
DropIsTold == Quiet /\ told = "up" => \E s \in Services : tunnel[s]

\* "Stop tears the tunnel down": after a Stop that returned nil, with no Start
\* under way or since, no service runs one.
StopStops == Quiet /\ settled => \A s \in Services : ~tunnel[s]

\* "Losing the control connection is not the same as losing the tunnel": once
\* things are quiet, a tunnel that runs has an authenticated connection to be
\* stopped by and asked about, whatever was lost and reattached on the way.
TunnelInReach ==
    Quiet => \A s \in Services : tunnel[s] =>
        conn # 0 /\ peer[conn] = s /\ authenticated[conn]

\* Every call on the client returns.
CallsReturn ==
    \A u \in Callers :
        pc[u] # "idle" ~> pc[u] = "idle" \/ ~gui \/ dialled = MaxConns

\* "no root process outlives the app", nor the services of earlier sessions.
NoServiceOutlives ==
    \A s \in Services : ~gui ~> service[s] \in {"none", "starting", "gone"}
=============================================================================
