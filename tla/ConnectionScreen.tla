-------------------------- MODULE ConnectionScreen --------------------------
(***************************************************************************)
(* The connection as the window sees it (hooks/use-connection.ts, App.tsx, *)
(* views/ConnectionView.tsx, lib/server-selection.ts): the copy of Go's    *)
(* state kept by events and answers, the connect button, the public        *)
(* address and the measured servers.  Go's side is what module Connection  *)
(* describes in detail; here it is cut down to the states it announces.    *)
(* Events and answers arrive in the order Go sends them, and connectMu is  *)
(* handed on in the order it was asked for.                                *)
(***************************************************************************)
EXTENDS Naturals, Sequences, FiniteSets, SequencesExt, Sublists

CONSTANTS
    Trips,      \* the scenarios: the bounds "left" may start with
    Exits,      \* the servers a connection may go through
    Groups      \* the configurations that can be selected

ASSUME TripsAssumption == \A trip \in Trips : "get" \in DOMAIN trip /\ trip["get"] \in Nat

Status(status, exit, error, reason) ==
    [status |-> status, exit |-> exit, error |-> error, reason |-> reason,
     reconnecting |-> FALSE, blocked |-> FALSE]
IDLE == Status("idle", "", "", "")
Connecting == Status("connecting", "", "", "")
Reconnecting(blocked) == [Connecting EXCEPT !.reconnecting = TRUE, !.blocked = blocked]
Failed(error, reason) == Status("error", "", error, reason)
Dropped(blocked) == [Failed("dropped", "") EXCEPT !.blocked = blocked]

VARIABLES
    panel,      \* useConnection's state
    tunnel,     \* Go's: app.state
    gen,        \* app.connectGen
    queue,      \* commands waiting for connectMu
    job,        \* the command that holds it, if its connect is under way
    wire,       \* events and answers on their way to the window
    session,    \* which connection is up, counted
    ip,         \* ipInfo: the connection the address shown belongs to, 0 for none
    ipCalls,    \* check_ip calls: 0 while unanswered, then what they found
    group,      \* selection.domain
    pings,      \* profilePings: the group they were measured for
    pingCalls,  \* ping_profiles calls on their way, oldest first
    dismissed,  \* ghost: whether the user dismissed a failure
    left        \* what is left of the bounds

goVars == <<tunnel, gen, queue, job, session>>
ipVars == <<ip, ipCalls>>
pingVars == <<group, pings, pingCalls>>
screenVars == <<panel, goVars, wire, ipVars, pingVars, dismissed, left>>

Can(what) == left[what] > 0
Use(what) == left' = [left EXCEPT ![what] = @ - 1]

Connected(s) == s.status = "connected"
News(what, state, ok) == [what |-> what, state |-> state, ok |-> ok]
Event(state) == News("event", state, TRUE)

-----------------------------------------------------------------------------
(* Go.  setState records a state and emits it; an answer follows. *)

Commands == {"connect", "disconnect"}
NextCommand(i) == job = "" /\ queue # <<>> /\ i = 1
Done(i) == queue' = RemoveAt(queue, i)

(* A command that a later one overtook while it waited. *)
Superseded(i) ==
    /\ NextCommand(i) /\ queue[i].op # "disconnect" /\ queue[i].gen # gen
    /\ wire' = IF queue[i].op = "connect" THEN Append(wire, News("connect", Failed("superseded", ""), FALSE))
               ELSE wire
    /\ Done(i)
    /\ UNCHANGED <<panel, tunnel, gen, job, session, ipVars, pingVars, dismissed, left>>

ConnectBegins(i) ==
    /\ NextCommand(i) /\ queue[i].op # "disconnect" /\ queue[i].gen = gen
    /\ tunnel' = Connecting /\ wire' = Append(wire, Event(Connecting))
    /\ job' = queue[i].op /\ Done(i)
    /\ UNCHANGED <<panel, gen, session, ipVars, pingVars, dismissed, left>>

(* The answer of a connect the user asked for; a reconnect has none. *)
Answered(state, ok) == IF job = "connect" THEN <<News("connect", state, ok)>> ELSE <<>>

ConnectEnds ==
    /\ job # ""
    /\ \E next \in {Status("connected", exit, "", "") : exit \in Exits}
                   \cup {Failed("refused", reason) : reason \in {"", "adapter"}} :
          /\ tunnel' = next
          /\ session' = session + (IF Connected(next) THEN 1 ELSE 0)
          /\ wire' = Append(wire, Event(next)) \o
                     Answered(IF Connected(next) THEN next ELSE Failed(next.error, ""), Connected(next))
    /\ job' = ""
    /\ UNCHANGED <<panel, gen, queue, ipVars, pingVars, dismissed, left>>

(* Idle first, then the core is stopped, which may fail. *)
DisconnectServed(i) ==
    /\ NextCommand(i) /\ queue[i].op = "disconnect"
    /\ \/ /\ tunnel' = IDLE
          /\ wire' = wire \o <<Event(IDLE), News("disconnect", IDLE, TRUE)>>
       \/ /\ Can("fail") /\ tunnel' = Failed("stop", "")
          /\ wire' = wire \o <<Event(IDLE), Event(tunnel'), News("disconnect", tunnel', FALSE)>>
    /\ Done(i)
    /\ UNCHANGED <<panel, gen, job, session, ipVars, pingVars, dismissed, left>>

(* The tunnel dies by itself: reported, or brought back. *)
TunnelDrops ==
    /\ Connected(tunnel) /\ Can("drop") /\ Use("drop")
    /\ \E blocked \in BOOLEAN :
          \/ tunnel' = Dropped(blocked) /\ UNCHANGED queue
          \/ tunnel' = Reconnecting(blocked) /\ queue' = Append(queue, [op |-> "reconnect", gen |-> gen])
    /\ wire' = Append(wire, Event(tunnel'))
    /\ UNCHANGED <<panel, gen, job, session, ipVars, pingVars, dismissed>>

(* The window's one look at the state when it opens. *)
StateAsked ==
    /\ Can("get") /\ Use("get")
    /\ wire' = Append(wire, News("get", tunnel, TRUE))
    /\ UNCHANGED <<panel, goVars, ipVars, pingVars, dismissed>>

ScreenServe == \/ \E i \in DOMAIN queue : Superseded(i) \/ ConnectBegins(i) \/ DisconnectServed(i)
               \/ ConnectEnds \/ StateAsked

-----------------------------------------------------------------------------
(* useConnection. *)

Ask(op) == /\ gen' = gen + 1 /\ queue' = Append(queue, [op |-> op, gen |-> gen + 1])
           /\ UNCHANGED <<tunnel, job, session>>

(* Shown at once, before Go answers. *)
Connect == panel' = Connecting /\ Ask("connect")
Disconnect == UNCHANGED panel /\ Ask("disconnect")

(* What the button does, and when it is disabled. *)
Busy(s) == s.status = "connecting" /\ ~s.reconnecting
Disconnects(s) == Connected(s) \/ s.reconnecting \/ s.blocked

(* isConnected turning false takes the address off; the effects of it. *)
PanelBecomes(next) ==
    /\ panel' = next
    /\ ip' = IF Connected(next) THEN ip ELSE 0
    /\ UNCHANGED ipCalls

ToggleConnection ==
    /\ Can("toggle") /\ Use("toggle") /\ ~Busy(panel)
    /\ IF Disconnects(panel) THEN Disconnect ELSE Connect
    /\ ip' = IF Connected(panel') THEN ip ELSE 0
    /\ UNCHANGED <<wire, ipCalls, pingVars, dismissed>>

(* A plugin connects or disconnects whatever the button says. *)
PluginConnects ==
    /\ Can("plugin") /\ Use("plugin")
    /\ Connect \/ Disconnect
    /\ ip' = IF Connected(panel') THEN ip ELSE 0
    /\ UNCHANGED <<wire, ipCalls, pingVars, dismissed>>

DismissError ==
    /\ panel.status = "error" /\ ~panel.blocked
    /\ PanelBecomes(IDLE) /\ dismissed' = TRUE
    /\ UNCHANGED <<goVars, wire, pingVars, left>>

(* Mutant: the answer of a failed connect replaces the event's version. *)
NewsHeardPlain(i) ==
    /\ i = 1
    /\ PanelBecomes(wire[i].state)
    /\ wire' = RemoveAt(wire, i)
    /\ UNCHANGED <<goVars, pingVars, dismissed, left>>

(* An event or an answer: the whole state, except that the answer of a failed
   connect leaves the event's version of the same failure, which has a reason. *)
NewsHeard(i) ==
    LET m == wire[i] IN
    /\ i = 1
    /\ PanelBecomes(IF m.what = "connect" /\ ~m.ok /\ panel.status = "error" /\ panel.error = m.state.error
                    THEN panel ELSE m.state)
    /\ wire' = RemoveAt(wire, i)
    /\ UNCHANGED <<goVars, pingVars, dismissed, left>>

-----------------------------------------------------------------------------
(* checkIp, a while after connecting and then on a timer; the answer is the
   address of the connection that is up when Go asks. *)
CheckIp ==
    /\ Can("ip") /\ Connected(panel) /\ Len(ipCalls) < left["ip"]
    /\ ipCalls' = Append(ipCalls, 0)
    /\ UNCHANGED <<panel, goVars, wire, ip, pingVars, dismissed, left>>

IpFound(i) ==
    /\ i \in DOMAIN ipCalls /\ ipCalls[i] = 0 /\ Connected(tunnel)
    /\ ipCalls' = [ipCalls EXCEPT ![i] = session]
    /\ UNCHANGED <<panel, goVars, wire, ip, pingVars, dismissed, left>>

IpHeard(i) ==
    /\ i \in DOMAIN ipCalls /\ (ipCalls[i] # 0 \/ ~Connected(tunnel))
    /\ ip' = ipCalls[i] /\ ipCalls' = RemoveAt(ipCalls, i)
    /\ UNCHANGED <<panel, goVars, wire, pingVars, dismissed, left>>

(* refreshPings runs when the selection changes and on a timer; its answer
   replaces every measurement. *)
SelectGroup(g) ==
    /\ Can("group") /\ Use("group") /\ g # group
    /\ group' = g /\ pingCalls' = Append(pingCalls, g)
    /\ UNCHANGED <<panel, goVars, wire, ipVars, pings, dismissed>>

PingsHeard(i) ==
    /\ i = 1
    /\ pings' = pingCalls[i] /\ pingCalls' = RemoveAt(pingCalls, i)
    /\ UNCHANGED <<panel, goVars, wire, ipVars, group, dismissed, left>>

(* serverSelection: the server shown.  Best is a recommendation, and never
   stands in for the one a connection goes through. *)
Displayed(s, best) == IF Connected(s) THEN s.exit ELSE best

-----------------------------------------------------------------------------
ScreenInit ==
    /\ panel = IDLE /\ tunnel \in {IDLE} \cup {Status("connected", exit, "", "") : exit \in Exits}
    /\ session = (IF Connected(tunnel) THEN 1 ELSE 0)
    /\ gen = 0 /\ queue = <<>> /\ job = "" /\ wire = <<>>
    /\ ip = 0 /\ ipCalls = <<>>
    /\ dismissed = FALSE /\ left \in Trips
    /\ tunnel # IDLE => Can("get")      \* "Reconcile once on mount"
    /\ group = CHOOSE g \in Groups : TRUE
    /\ IF Can("group") THEN pings = "" /\ pingCalls = <<group>> ELSE pings = group /\ pingCalls = <<>>

ScreenNext ==
    \/ ScreenServe \/ TunnelDrops
    \/ ToggleConnection \/ PluginConnects \/ DismissError
    \/ \E i \in DOMAIN wire : NewsHeard(i)
    \/ CheckIp \/ \E i \in DOMAIN ipCalls : IpFound(i) \/ IpHeard(i)
    \/ \E g \in Groups : SelectGroup(g)
    \/ \E i \in DOMAIN pingCalls : PingsHeard(i)

(* Go works off its commands, the window's event loop takes what arrives, the
   address timer fires and its call returns. *)
SomeNewsHeard == \E i \in DOMAIN wire : NewsHeard(i)
IpCallReturns == \E i \in DOMAIN ipCalls : IpFound(i) \/ IpHeard(i)
ScreenFairness ==
    /\ WF_screenVars(ScreenServe) /\ WF_screenVars(SomeNewsHeard)
    /\ WF_screenVars(CheckIp) /\ WF_screenVars(IpCallReturns)

ScreenSpec == ScreenInit /\ [][ScreenNext]_screenVars /\ ScreenFairness

-----------------------------------------------------------------------------
Settled == wire = <<>> /\ queue = <<>> /\ job = "" /\ ~Can("get")

(* Go's state, or a failure of it that the user has dismissed. *)
ShowsTunnel ==
    panel = tunnel \/ (dismissed /\ tunnel.status = "error" /\ ~tunnel.blocked
                       /\ panel \in {IDLE, Failed(tunnel.error, "")})

(***************************************************************************)
(* "The state lives in Go and arrives on the vpn-state event; nothing here *)
(* guesses" (use-connection.ts).  Once every call is answered and every    *)
(* event has arrived, in order, the window shows exactly Go's state, the   *)
(* reason of a failure included, unless the user dismissed the failure;    *)
(* and the server it names is the one in use.                              *)
(***************************************************************************)
PanelIsTunnel ==
    Settled =>
        /\ ShowsTunnel
        /\ Connected(tunnel) => \A best \in Exits : Displayed(panel, best) = tunnel.exit

(* The measurements on screen are of the configuration that is selected, once
   the last sweep has answered (refreshPings, answers in order). *)
PingsAreCurrent == pingCalls = <<>> => pings = group

(***************************************************************************)
(* Once everything asked for has been answered, the screen is of the       *)
(* present: its state and its server are Go's (useConnection), and its     *)
(* measurements are of the configuration selected (refreshPings).          *)
(***************************************************************************)
ScreenHolds == PanelIsTunnel /\ PingsAreCurrent

(* The connect button spins; or the address shown was measured over an earlier
   connection, because its answer was late. *)
ScreenWaits == Busy(panel) \/ (Can("ip") /\ Connected(panel) /\ ip # session)

-----------------------------------------------------------------------------
(* The inductive invariant behind ScreenHolds. *)

ScreenTypes ==
    /\ gen \in Nat /\ dismissed \in BOOLEAN /\ "get" \in DOMAIN left /\ left["get"] \in Nat
    /\ IsList(queue) /\ IsList(wire) /\ IsList(pingCalls)
    /\ \A i \in DOMAIN queue : queue[i].op \in Commands \cup {"reconnect"} /\ queue[i].gen \in 0..gen

(* A command that was overtaken has the one that overtook it behind it. *)
OvertakenInv == \A i \in DOMAIN queue : queue[i].gen # gen => \E j \in DOMAIN queue : i < j /\ queue[j].gen = gen

(* A command is under way that will end in an event. *)
EventComes == job # "" \/ \E i \in DOMAIN queue : queue[i].op = "disconnect" \/ queue[i].gen = gen

(* The news that ends on Go's present state: the whole of it, or the answer of
   a failed connect right after its event. *)
Tells(m) == m.state = tunnel /\ (m.what # "connect" \/ m.ok)
Echoes(m) == /\ m.what = "connect" /\ ~m.ok /\ m.state = Failed(tunnel.error, "")
             /\ tunnel.status = "error" /\ ~tunnel.blocked
LastTells ==
    \/ wire = <<>> /\ ShowsTunnel
    \/ wire # <<>> /\ Tells(wire[Len(wire)])
    \/ Len(wire) = 1 /\ Echoes(wire[1]) /\ ShowsTunnel
    \/ Len(wire) > 1 /\ Echoes(wire[Len(wire)]) /\ wire[Len(wire) - 1] = Event(tunnel)

SweepInv == IF pingCalls = <<>> THEN pings = group ELSE pingCalls[Len(pingCalls)] = group

ScreenInv == ScreenTypes /\ OvertakenInv /\ SweepInv /\ (~EventComes /\ ~Can("get") => LastTells)

=============================================================================
