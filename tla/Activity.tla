------------------------------ MODULE Activity ------------------------------
(***************************************************************************)
(* The Activity screens: the connections going through the tunnel          *)
(* (ConnectionsView.tsx), polled every second and kept between visits, the *)
(* traffic statistics by period (StatisticsView.tsx), cached and refreshed,*)
(* and the rolling log (use-logs.ts).  Answers may arrive in any order.    *)
(***************************************************************************)
EXTENDS Naturals, Sequences, FiniteSets, SequencesExt, Sublists

CONSTANTS
    Visits,         \* the scenarios: the bounds "visits" may start with
    ProgramOf,      \* the program of each connection that may be opened
    SystemPrograms, \* those isSystemProgram recognises
    MaxReads,       \* bound: reads under way at once
    Periods         \* PERIODS, by their days

VARIABLES
    flow,    \* connected, and the connections the core has open
    watch,      \* ConnectionsView: mounted, paused, visible, its rows
    live,       \* the module state kept between visits
    reads,      \* get_connections calls under way
    closes,     \* close_connection calls under way
    openApp,    \* the program opened: [in, app]
    showSystem, \* useShowSystem
    stats,      \* StatisticsView: mounted and visible, period, usageCache, Go's numbers, calls
    log,        \* useLogs: enabled, limit, lines, and ghost: all it was given
    visits      \* what is left of the bounds

connVars == <<flow, watch, live, reads, closes, openApp, showSystem>>
activityVars == <<connVars, stats, log, visits>>

Visit(what) == visits[what] > 0 /\ visits' = [visits EXCEPT ![what] = @ - 1]

-----------------------------------------------------------------------------
(* ConnectionsView *)

NoApp == [in |-> "", app |-> ""]
SystemApp == [in |-> "system", app |-> ""]
IsSystem(id) == ProgramOf[id] \in SystemPrograms

(* groupRows: the groups of the program list, and of System opened. *)
GroupRows(rows, system) ==
    LET folded(r) == ~system /\ IsSystem(r.id)
    IN  {[in |-> "", app |-> ProgramOf[r.id]] : r \in {r \in rows : ~folded(r)}}
        \cup {SystemApp : r \in {r \in rows : folded(r)}}
        \cup {[in |-> "system", app |-> ProgramOf[r.id]] : r \in {r \in rows : folded(r)}}

(* The effect on what is open: a program with nothing left gives way to the
   System group it was in, or to the list. *)
Landed(app, rows, system) ==
    LET groups == GroupRows(rows, system)
    IN  IF app = NoApp \/ rows = {} \/ app \in groups THEN app
        ELSE IF app.in = "system" /\ app.app # "" /\ SystemApp \in groups THEN SystemApp ELSE NoApp

(* Every change of the rows or of the switch ends in that effect. *)
Show(rows, fresh, system) ==
    /\ watch' = [watch EXCEPT !.rows = rows, !.fresh = fresh]
    /\ openApp' = Landed(openApp, rows, system)

Polling == flow.on /\ watch.mounted /\ watch.visible /\ ~watch.paused
CancelReads == reads' = [i \in DOMAIN reads |-> [reads[i] EXCEPT !.cancelled = TRUE]]

(* read, to its await: at once when polling starts, and every POLL_MS.  The
   core lists what is open now. *)
Poll ==
    /\ Polling /\ Visit("poll") /\ Len(reads) < MaxReads
    /\ reads' = Append(reads, [list |-> flow.open, cancelled |-> FALSE])
    /\ UNCHANGED <<flow, watch, live, closes, openApp, showSystem, stats, log>>

(* Mutant: a read of an earlier connection or visit still counts. *)
ReadEndsLate(k) ==
    /\ k \in DOMAIN reads /\ reads' = RemoveAt(reads, k)
    /\ LET seen == reads[k].list
           rows == {[id |-> i, closed |-> FALSE] : i \in seen}
       IN  live' = [live EXCEPT !.lastOpen = seen, !.recent = {}, !.rows = rows] /\ Show(rows, TRUE, showSystem)
    /\ UNCHANGED <<flow, closes, showSystem, stats, log, visits>>

(* read, after it: what was open and is not stays a while, dimmed, unless the
   user closed it; after RECENT_MS it goes. *)
ReadEnds(k) ==
    /\ k \in DOMAIN reads /\ reads' = RemoveAt(reads, k)
    /\ \/ /\ reads[k].cancelled /\ UNCHANGED <<watch, live, openApp>>
       \/ /\ ~reads[k].cancelled
          /\ \E expired \in {{}, live.recent} :
             LET seen == reads[k].list
                 recent == (((live.recent \ expired) \cup (live.lastOpen \ live.dismissed)) \ seen)
                 rows == {[id |-> i, closed |-> FALSE] : i \in seen} \cup {[id |-> i, closed |-> TRUE] : i \in recent}
             IN  /\ live' = [live EXCEPT !.lastOpen = seen, !.recent = recent, !.rows = rows]
                 /\ Show(rows, TRUE, showSystem)
    /\ UNCHANGED <<flow, closes, showSystem, stats, log, visits>>

(* The tunnel comes up or goes down, with the effect on connected where the
   screen is there to run it: the rows and the kept state go. *)
Tunnel(on) ==
    /\ flow.on # on /\ Visit("flow")
    /\ flow' = [on |-> on, open |-> {}]
    /\ CancelReads
    /\ IF watch.mounted /\ ~on
       THEN live' = [live EXCEPT !.lastOpen = {}, !.recent = {}, !.rows = {}] /\ Show({}, TRUE, showSystem)
       ELSE UNCHANGED <<live, watch, openApp>>
    /\ UNCHANGED <<closes, showSystem, stats, log>>

(* Programs open and close connections. *)
Traffic(id) ==
    /\ flow.on /\ Visit("traffic")
    /\ flow' = [flow EXCEPT !.open = IF id \in @ THEN @ \ {id} ELSE @ \cup {id}]
    /\ id \in flow.open \/ id \notin live.lastOpen \cup live.recent \cup live.dismissed
    /\ UNCHANGED <<watch, live, reads, closes, openApp, showSystem, stats, log>>

(* The screen is shown or left; while it was away, the last list is kept. *)
OpenScreen ==
    /\ ~watch.mounted /\ Visit("screen")
    /\ LET rows == IF flow.on THEN live.rows ELSE {}
       IN  /\ watch' = [watch EXCEPT !.mounted = TRUE, !.paused = FALSE, !.rows = rows, !.fresh = rows = {}]
           /\ openApp' = Landed(openApp, rows, showSystem)
    /\ live' = IF flow.on THEN live ELSE [live EXCEPT !.lastOpen = {}, !.recent = {}, !.rows = {}]
    /\ UNCHANGED <<flow, reads, closes, showSystem, stats, log>>

LeaveScreen ==
    /\ watch.mounted /\ watch' = [watch EXCEPT !.mounted = FALSE] /\ CancelReads
    /\ UNCHANGED <<flow, live, closes, openApp, showSystem, stats, log, visits>>

(* Pause, and the window hidden or shown. *)
Pause ==
    /\ watch.mounted /\ flow.on /\ Visit("screen") /\ CancelReads
    /\ \/ watch' = [watch EXCEPT !.paused = ~@]
       \/ watch' = [watch EXCEPT !.visible = ~@]
    /\ UNCHANGED <<flow, live, closes, openApp, showSystem, stats, log>>

(* A row of the list, Back to what it was in, and the Show system switch. *)
SetOpenApp(app) ==
    /\ watch.mounted /\ flow.on /\ Visit("open")
    /\ \/ openApp \in {NoApp, SystemApp} /\ app \in GroupRows(watch.rows, showSystem)
          /\ (openApp = SystemApp <=> app.in = "system" /\ app.app # "") /\ openApp' = app
       \/ openApp # NoApp /\ openApp' = IF openApp.in = "system" /\ openApp.app # "" THEN SystemApp ELSE NoApp
    /\ UNCHANGED <<flow, watch, live, reads, closes, showSystem, stats, log>>

SetShowSystem ==
    /\ watch.mounted /\ Visit("open")
    /\ showSystem' = ~showSystem /\ Show(watch.rows, watch.fresh, ~showSystem)
    /\ UNCHANGED <<flow, live, reads, closes, stats, log>>

(* close, to its await: one connection, the open ones of the program opened,
   or everything, and then what was listed at the time. *)
InOpenApp(r) == r.id \in {i \in DOMAIN ProgramOf :
                            IF openApp = SystemApp THEN ~showSystem /\ IsSystem(i) ELSE ProgramOf[i] = openApp.app}
Close(ids, all) ==
    /\ watch.mounted /\ flow.on /\ Visit("close")
    /\ closes' = Append(closes, [ids |-> ids, all |-> all])
    /\ UNCHANGED <<flow, watch, live, reads, openApp, showSystem, stats, log>>
CloseApp == openApp # NoApp /\ Close({r.id : r \in {q \in watch.rows : ~q.closed /\ InOpenApp(q)}}, FALSE)
CloseAll == openApp = NoApp /\ watch.rows # {} /\ Close({r.id : r \in watch.rows}, TRUE)

(* close, after it: the core has closed them, and they go at once. *)
CloseEnds(k) ==
    /\ k \in DOMAIN closes /\ closes' = RemoveAt(closes, k)
    /\ LET gone == closes[k].ids
           rows == IF closes[k].all THEN {} ELSE {r \in watch.rows : r.id \notin gone} IN
       /\ flow' = [flow EXCEPT !.open = IF closes[k].all THEN {} ELSE @ \ gone]
       /\ live' = [live EXCEPT !.dismissed = @ \cup gone, !.recent = @ \ gone]
       /\ Show(rows, watch.fresh, showSystem)
    /\ UNCHANGED <<reads, showSystem, stats, log, visits>>

(* One of them fails: the others may be closed by then; the list is left as
   it is, for the next read to correct. *)
CloseFails(k) ==
    /\ k \in DOMAIN closes /\ Visit("fail") /\ closes' = RemoveAt(closes, k)
    /\ \E done \in SUBSET closes[k].ids : flow' = [flow EXCEPT !.open = @ \ done]
    /\ UNCHANGED <<watch, live, reads, openApp, showSystem, stats, log>>

-----------------------------------------------------------------------------
(* StatisticsView.  Go's numbers are a version that grows. *)

(* read of a period. *)
Asked(calls, periods) == calls \o [i \in 1..Cardinality(periods) |-> [period |-> SetToSeq(periods)[i], version |-> stats.now]]

(* Opening the page reads every period; its interval reads the one shown. *)
OpenStatistics ==
    /\ ~stats.shown /\ Visit("stats")
    /\ stats' = [stats EXCEPT !.shown = TRUE, !.calls = Asked(@, Periods)]
    /\ UNCHANGED <<connVars, log>>
LeaveStatistics ==
    /\ stats.shown /\ stats' = [stats EXCEPT !.shown = FALSE]
    /\ UNCHANGED <<connVars, log, visits>>
SetDays(days) ==
    /\ stats.shown /\ days # stats.days /\ Visit("days")
    /\ stats' = [stats EXCEPT !.days = days, !.calls = Asked(@, {days})]
    /\ UNCHANGED <<connVars, log>>
Load ==
    /\ stats.shown /\ Len(stats.calls) < MaxReads
    /\ stats' = [stats EXCEPT !.calls = Asked(@, {stats.days})]
    /\ UNCHANGED <<connVars, log, visits>>

UsageRead(k) ==
    /\ k \in DOMAIN stats.calls
    /\ stats' = [stats EXCEPT !.calls = RemoveAt(@, k), !.cache[stats.calls[k].period] = stats.calls[k].version]
    /\ UNCHANGED <<connVars, log, visits>>
UsageFails(k) ==
    /\ k \in DOMAIN stats.calls /\ Visit("fail")
    /\ stats' = [stats EXCEPT !.calls = RemoveAt(@, k)]
    /\ UNCHANGED <<connVars, log>>

UsageGrows == /\ Visit("days") /\ stats' = [stats EXCEPT !.now = @ + 1] /\ UNCHANGED <<connVars, log>>

(* clear: awaits Go, empties the cache, and reads every period again. *)
ClearStatistics ==
    /\ stats.shown /\ Visit("clear") /\ stats' = [stats EXCEPT !.clearing = @ + 1]
    /\ UNCHANGED <<connVars, log>>
Cleared ==
    /\ stats.clearing > 0
    /\ stats' = [stats EXCEPT !.clearing = @ - 1, !.now = @ + 1, !.cache = [p \in Periods |-> 0],
                              !.calls = @ \o [i \in 1..Cardinality(Periods) |->
                                                [period |-> SetToSeq(Periods)[i], version |-> stats.now + 1]]
                                         \o <<[period |-> stats.days, version |-> stats.now + 1]>>]
    /\ UNCHANGED <<connVars, log, visits>>

(* Go could not: nothing changes. *)
ClearFails ==
    /\ stats.clearing > 0 /\ Visit("fail") /\ stats' = [stats EXCEPT !.clearing = @ - 1]
    /\ UNCHANGED <<connVars, log>>

-----------------------------------------------------------------------------
(* useLogs *)

LastOf(lines, limit) == IF Len(lines) > limit THEN SubSeq(lines, Len(lines) - limit + 1, Len(lines)) ELSE lines

(* append: a batch of lines, from Go or from the window itself. *)
AppendLog(n) ==
    /\ Visit("log")
    /\ LET batch == [i \in 1..n |-> Len(log.all) + i]
       IN  log' = [log EXCEPT !.lines = IF log.on THEN LastOf(@ \o batch, log.limit) ELSE @,
                              !.all = IF log.on THEN @ \o batch ELSE @]
    /\ UNCHANGED <<connVars, stats>>

ChangeLimit(limit) ==
    /\ Visit("log") /\ log' = [log EXCEPT !.limit = limit, !.lines = LastOf(@, limit)]
    /\ UNCHANGED <<connVars, stats>>
ClearLog == /\ Visit("log") /\ log' = [log EXCEPT !.lines = <<>>] /\ UNCHANGED <<connVars, stats>>

(* The effect on enabled. *)
EnableLog(on) ==
    /\ on # log.on /\ Visit("log")
    /\ log' = [log EXCEPT !.on = on, !.lines = IF on THEN @ ELSE <<>>]
    /\ UNCHANGED <<connVars, stats>>

ActivityInit ==
    /\ flow = [on |-> TRUE, open |-> {}]
    /\ watch = [mounted |-> FALSE, paused |-> FALSE, visible |-> TRUE, rows |-> {}, fresh |-> TRUE]
    /\ live = [rows |-> {}, lastOpen |-> {}, recent |-> {}, dismissed |-> {}]
    /\ reads = <<>> /\ closes = <<>> /\ openApp = NoApp /\ showSystem = FALSE
    /\ stats = [shown |-> FALSE, days |-> CHOOSE p \in Periods : TRUE, cache |-> [p \in Periods |-> 0],
                now |-> 1, calls |-> <<>>, clearing |-> 0]
    /\ log = [on |-> TRUE, limit |-> 2, lines |-> <<>>, all |-> <<>>]
    /\ visits \in Visits

ActivityNext ==
    \/ Poll \/ \E k \in DOMAIN reads : ReadEnds(k)
    \/ \E on \in BOOLEAN : Tunnel(on) \/ EnableLog(on)
    \/ \E id \in DOMAIN ProgramOf : Traffic(id)
    \/ OpenScreen \/ LeaveScreen \/ Pause \/ SetShowSystem
    \/ \E app \in GroupRows(watch.rows, showSystem) : SetOpenApp(app)
    \/ \E r \in watch.rows : openApp # NoApp /\ InOpenApp(r) /\ ~r.closed /\ Close({r.id}, FALSE)
    \/ CloseApp \/ CloseAll
    \/ \E k \in DOMAIN closes : CloseEnds(k) \/ CloseFails(k)
    \/ OpenStatistics \/ LeaveStatistics \/ Load \/ UsageGrows \/ ClearStatistics \/ Cleared \/ ClearFails
    \/ \E days \in Periods : SetDays(days)
    \/ \E k \in DOMAIN stats.calls : UsageRead(k) \/ UsageFails(k)
    \/ \E n \in 1..3 : AppendLog(n)
    \/ \E limit \in 1..3 : ChangeLimit(limit)
    \/ ClearLog

(* The interval fires while the page is shown, Go answers every call. *)
MostCalls == MaxReads + 3 * Cardinality(Periods) + 2
ActivityFairness ==
    /\ WF_activityVars(Load) /\ WF_activityVars(Cleared)
    /\ \A k \in 1..MostCalls : WF_activityVars(UsageRead(k))

ActivitySpec == ActivityInit /\ [][ActivityNext]_activityVars /\ ActivityFairness

-----------------------------------------------------------------------------
(* The list is empty when nothing is connected, shows a connection once, open
   or just closed, and no read brings back, dimmed, one the user closed: over
   reads answered late or in another order, disconnects, and visits to other
   screens (the effect's "cancelled" and live). *)
ListHonest ==
    /\ ~flow.on /\ watch.mounted => watch.rows = {}
    /\ \A r, q \in watch.rows : r.id = q.id => r = q
    /\ watch.mounted /\ watch.fresh => \A r \in watch.rows : r.closed => r.id \notin live.dismissed

(* The program opened has rows to show as long as anything has: one whose
   connections are all gone gives way, whatever took them (a read, a close, a
   disconnect, the Show system switch). *)
OpenAppShown ==
    watch.mounted /\ watch.rows # {} /\ openApp # NoApp => openApp \in GroupRows(watch.rows, showSystem)

(* The statistics show what Go no longer counts: also after a clear that
   crossed a read, which leaves the old numbers. *)
StatsWait == stats.shown /\ stats.cache[stats.days] # stats.now

(* The log shows the newest lines, as many as it keeps, in order: none is
   missing between two that are shown, and with logging off there is none. *)
LogIsTail ==
    /\ Len(log.lines) <= log.limit
    /\ \E i \in 0..Len(log.all) : log.lines = SubSeq(log.all, i + 1, Len(log.all)) \/ log.lines = <<>>
    /\ ~log.on => log.lines = <<>>

(***************************************************************************)
(* The Activity screens show what there is: the list of connections is     *)
(* honest and its open program has something to show (ConnectionsView),    *)
(* and the log is the tail of what it was given (useLogs).                 *)
(***************************************************************************)
ActivityHolds == ListHonest /\ OpenAppShown /\ LogIsTail

-----------------------------------------------------------------------------
(* The inductive invariant behind ActivityHolds. *)

Opened == DOMAIN ProgramOf
ConnRows == [id : Opened, closed : BOOLEAN]
ActivityTypes ==
    /\ flow \in [on : BOOLEAN, open : SUBSET Opened]
    /\ watch \in [mounted : BOOLEAN, paused : BOOLEAN, visible : BOOLEAN, rows : SUBSET ConnRows, fresh : BOOLEAN]
    /\ live \in [rows : SUBSET ConnRows, lastOpen : SUBSET Opened, recent : SUBSET Opened, dismissed : SUBSET Opened]
    /\ reads \in Seq([list : SUBSET Opened, cancelled : BOOLEAN])
    /\ closes \in Seq([ids : SUBSET Opened, all : BOOLEAN])
    /\ showSystem \in BOOLEAN
    /\ log \in [on : BOOLEAN, limit : Nat, lines : Seq(Nat), all : Seq(Nat)]

(* A read that counts was made by the polling that goes on: whatever ends the
   polling cancels it. *)
ReadsInv == \A k \in DOMAIN reads : reads[k].cancelled \/ Polling

(* What is kept between visits has each connection once, and nothing the user
   closed waits to be shown as just closed. *)
KeptInv == /\ \A r, q \in live.rows : r.id = q.id => r = q
           /\ live.recent \cap live.dismissed = {}

ActivityInv == ActivityTypes /\ ReadsInv /\ KeptInv /\ ActivityHolds

=============================================================================
