--------------------------- MODULE RoutingEditor ----------------------------
(***************************************************************************)
(* The routing screen (RoutingView.tsx, routing/order.tsx, setups.tsx,     *)
(* presets.tsx): the graph drawn from the settings, the edits pushed back  *)
(* through onChange, undo and redo, the import with its undo toast, hidden *)
(* destinations, the geo files and the saved setups.                       *)
(*                                                                         *)
(* A graph is a record of the rules in order (id, entries, action, server),*)
(* the default action and server, the servers placed by hand, the notes,   *)
(* and the saved places of nodes.  "of" is a ghost field, the setup the    *)
(* graph was made for: it is copied with the graph and never read.         *)
(***************************************************************************)
EXTENDS SettingsSync

CONSTANTS
    RuleIds,        \* ids new rules may get
    Servers,        \* the profiles that can be placed as destinations
    NoteIds,        \* ids new notes may get
    NewSetups,      \* ids new setups may get
    HISTORY_LIMIT   \* how many steps back undo can go

Actions == {"proxy", "direct", "block", "drop"}
HideableActions == {"block", "drop"}
DEFAULT_NODE == "default"

VARIABLES
    hidden,         \* useHiddenActions: destinations taken off the canvas
    past, future,   \* history.current
    toast,          \* the import's toast: <<>>, or the graph its Undo puts back
    geoBusy,        \* which of GeoPanel and GeoOfferBanner await Go
    geoOffer,       \* whether the banner offers the geo files of an import
    switcher,       \* SetupSwitcher: its run() in progress and its delete dialog
    opened,         \* ghost: the graph when the history was last emptied
    trimmed,        \* ghost: whether the history dropped a step since then
    crossed         \* ghost: the setups that were given another one's graph

historyVars == <<past, future, opened, trimmed>>
importVars == <<toast, geoOffer, crossed>>
editorVars == <<hidden, historyVars, importVars, geoBusy, switcher>>
routingVars == <<syncVars, editorVars>>

-----------------------------------------------------------------------------
(* What is drawn. *)

RuleSeqIds(rules) == {rules[i].id : i \in DOMAIN rules}
RuleOf(g, id) == CHOOSE i \in DOMAIN g.rules : g.rules[i].id = id

(* The node a rule's edge ends at: a server of its own, or its action. *)
TargetOf(action, server) ==
    IF action = "proxy" /\ server # None THEN server ELSE action

(* The server destinations: those placed, plus any a rule or the catch-all uses. *)
ServerIds(g) ==
    (g.servers \cup {g.rules[i].server : i \in {j \in DOMAIN g.rules : g.rules[j].action = "proxy"}}
               \cup IF g.default_action = "proxy" THEN {g.default_server} ELSE {}) \ {None}

(* derivedEdges: one per rule that has an action, and the catch-all's. *)
Edges(g) ==
    {<<g.rules[i].id, TargetOf(g.rules[i].action, g.rules[i].server)>> :
        i \in {j \in DOMAIN g.rules : g.rules[j].action # None}}
    \cup {<<DEFAULT_NODE, TargetOf(g.default_action, g.default_server)>>}

(* inboundCounts, as far as zero or not matters. *)
Inbound(g, node) == \E e \in Edges(g) : e[2] = node

(* Mutant: a hidden destination stays off, whatever goes to it. *)
ActionNodesHidden(g, off) == Actions \ off

(* derivedNodes: something going to a destination keeps it on the canvas,
   hidden or not. *)
ActionNodes(g, off) == {a \in Actions : Inbound(g, a) \/ a \notin off}
Nodes(g, off) ==
    {DEFAULT_NODE} \cup RuleSeqIds(g.rules) \cup ActionNodes(g, off)
    \cup ServerIds(g) \cup DOMAIN g.comments

-----------------------------------------------------------------------------
(* The edits, as functions from a graph to a graph. *)

MapRules(g, F(_)) == [g EXCEPT !.rules = [i \in DOMAIN @ |-> F(@[i])]]
UpdateRule(g, id, action, server) ==
    MapRules(g, LAMBDA r : IF r.id = id THEN [r EXCEPT !.action = action, !.server = server] ELSE r)
EditRule(g, id) ==
    MapRules(g, LAMBDA r : IF r.id = id THEN [r EXCEPT !.values = 1 - @] ELSE r)
RulesWithout(g, gone) == KeepAt(g.rules, {i \in DOMAIN g.rules : g.rules[i].id \notin gone})
RemoveRule(g, id) == [g EXCEPT !.rules = RulesWithout(g, {id})]
Omit(f, keys) == [x \in DOMAIN f \ keys |-> f[x]]
With(f, key, value) == [x \in DOMAIN f \cup {key} |-> IF x = key THEN value ELSE f[x]]

UpdateComment(g, id) == [g EXCEPT !.comments[id] = 1 - @]
RemoveComment(g, id) == [g EXCEPT !.comments = Omit(@, {id}), !.layout = Omit(@, {id})]

(* Taking servers off the canvas sends what went through them back to the
   connected server. *)
ForgetServers(g, gone) ==
    [MapRules(g, LAMBDA r : IF r.server \in gone THEN [r EXCEPT !.server = None] ELSE r)
        EXCEPT !.servers = ServerIds(g) \ gone,
               !.default_server = IF @ \in gone THEN None ELSE @]
RemoveServer(g, id) == [ForgetServers(g, {id}) EXCEPT !.layout = Omit(@, {id})]

(* Resized, moved, and back to the natural size. *)
ResizeNode(g, id) == [g EXCEPT !.layout = With(@, id, "sized")]
MoveNode(g, id) ==
    [g EXCEPT !.layout = With(@, id, IF id \in DOMAIN @ THEN @[id] ELSE "placed")]
ResetNodeSize(g, id) == [g EXCEPT !.layout[id] = "placed"]

(* Delete or Backspace: the selected rules, servers and notes go and the
   selected wires are cut, in one change. *)
RemoveSelected(g, selected, cut) ==
    LET gone == ServerIds(g) \cap selected
        kept == [g EXCEPT !.rules = RulesWithout(g, selected),
                          !.comments = Omit(@, selected),
                          !.layout = Omit(@, selected)]
        wired == MapRules(kept, LAMBDA r : IF r.id \in cut
                                           THEN [r EXCEPT !.action = None, !.server = None] ELSE r)
    IN  [ForgetServers(wired, gone) EXCEPT !.servers = ServerIds(g) \ gone]

NewRule(id, action) == [id |-> id, values |-> 0, action |-> action, server |-> None]

(* What is added gets a place of its own. *)
Placed(g, id) == [g EXCEPT !.layout = With(@, id, "placed")]

(* A source, a note, a server. *)
AddSource(g, id) == Placed([g EXCEPT !.rules = Append(@, NewRule(id, "proxy"))], id)
AddNote(g, id) == Placed([g EXCEPT !.comments = With(@, id, 0)], id)
AddServer(g, id) == Placed([g EXCEPT !.servers = ServerIds(g) \cup {id}], id)

(* The presets block before everything else or go direct after it. *)
PRESETS == {[action |-> "block", placement |-> "first"], [action |-> "direct", placement |-> "last"]}
AddPreset(g, id, preset) ==
    LET rule == <<NewRule(id, preset.action)>>
    IN  Placed([g EXCEPT !.rules = IF preset.placement = "first" THEN rule \o @ ELSE @ \o rule], id)

(* RuleOrder's move. *)
MoveRule(g, from, to) ==
    [g EXCEPT !.rules = InsertAt(RemoveAt(@, from), to, g.rules[from])]

(* The edits each part of the screen offers; which of them a scenario looks at
   is part of its bounds. *)
ServerOf(target) == IF target \in Actions THEN None ELSE target
ActionOf(target) == IF target \in Actions THEN target ELSE "proxy"
WireEdits(g, off) ==
    LET targets == ActionNodes(g, off) \cup ServerIds(g)
    IN  {UpdateRule(g, id, ActionOf(t), ServerOf(t)) : id \in RuleSeqIds(g.rules), t \in targets}
        \cup {[g EXCEPT !.default_action = ActionOf(t), !.default_server = ServerOf(t)] : t \in targets}
CutEdits(g, off) ==
    {UpdateRule(g, e[1], None, None) : e \in {d \in Edges(g) : d[1] # DEFAULT_NODE}}  \* onEdgeClick
    \cup {RemoveSelected(g, sel, cut) :
            sel \in {S \in SUBSET Nodes(g, off) : Cardinality(S) \in 1 .. 2}, cut \in SUBSET RuleSeqIds(g.rules)}
DeleteEdits(g) ==
    {RemoveRule(g, id) : id \in RuleSeqIds(g.rules)}
    \cup {RemoveServer(g, id) : id \in ServerIds(g)}
    \cup {RemoveComment(g, id) : id \in DOMAIN g.comments}
PaletteEdits(g) ==
    {AddSource(g, id) : id \in RuleIds \ RuleSeqIds(g.rules)}
    \cup {AddServer(g, id) : id \in Servers \ ServerIds(g)}
    \cup {AddNote(g, id) : id \in NoteIds \ DOMAIN g.comments}
PresetEdits(g) ==
    {AddPreset(g, id, preset) : id \in RuleIds \ RuleSeqIds(g.rules), preset \in PRESETS}
OrderEdits(g) == {MoveRule(g, i, j) : i, j \in DOMAIN g.rules}
ClearRules(g) == [g EXCEPT !.rules = <<>>]
CanvasEdits(g, off) ==
    WireEdits(g, off) \cup CutEdits(g, off) \cup DeleteEdits(g) \cup PaletteEdits(g)
    \cup PresetEdits(g) \cup OrderEdits(g) \cup {ClearRules(g)}
LayoutEdits(g, off) ==
    {ResizeNode(g, id) : id \in Nodes(g, off)} \cup {MoveNode(g, id) : id \in Nodes(g, off)}
    \cup {ResetNodeSize(g, id) : id \in {n \in DOMAIN g.layout : g.layout[n] = "sized"}}
    \cup {UpdateComment(g, id) : id \in DOMAIN g.comments}
CardEdits(g) == {EditRule(g, id) : id \in RuleSeqIds(g.rules)}

-----------------------------------------------------------------------------
(* onChange: the graph as it was is one more step to undo, and the redo list
   is over; then the change is shown and saved. *)
RecordStep ==
    /\ past' = IF Len(past) = HISTORY_LIMIT THEN Append(Tail(past), shown.graph)
               ELSE Append(past, shown.graph)
    /\ trimmed' = (trimmed \/ Len(past) = HISTORY_LIMIT)
    /\ future' = <<>>
    /\ UNCHANGED opened

OnChange(next) ==
    /\ MayCall
    /\ RecordStep
    /\ PatchSettings([shown EXCEPT !.graph = next])
    /\ UNCHANGED <<stored, failed>>

Edit ==
    /\ \/ May("canvas") /\ Spend("canvas") /\ \E g \in CanvasEdits(shown.graph, hidden) : OnChange(g)
       \/ May("layout") /\ Spend("layout") /\ \E g \in LayoutEdits(shown.graph, hidden) : OnChange(g)
       \/ May("card") /\ Spend("card") /\ \E g \in CardEdits(shown.graph) : OnChange(g)
    /\ UNCHANGED <<hidden, importVars, geoBusy, switcher>>

Undo ==
    /\ May("undo") /\ MayCall /\ past # <<>>
    /\ past' = Front(past) /\ future' = Append(future, shown.graph)
    /\ PatchSettings([shown EXCEPT !.graph = Last(past)])
    /\ Spend("undo")
    /\ UNCHANGED <<stored, failed, opened, trimmed, hidden, importVars, geoBusy, switcher>>

(* Mutant: redo is no step to undo. *)
RedoForgets ==
    /\ May("undo") /\ MayCall /\ future # <<>>
    /\ future' = Front(future) /\ UNCHANGED past
    /\ PatchSettings([shown EXCEPT !.graph = Last(future)])
    /\ Spend("undo")
    /\ UNCHANGED <<stored, failed, opened, trimmed, hidden, importVars, geoBusy, switcher>>

Redo ==
    /\ May("undo") /\ MayCall /\ future # <<>>
    /\ future' = Front(future) /\ past' = Append(past, shown.graph)
    /\ PatchSettings([shown EXCEPT !.graph = Last(future)])
    /\ Spend("undo")
    /\ UNCHANGED <<stored, failed, opened, trimmed, hidden, importVars, geoBusy, switcher>>

(* Mutant: the history outlives a change of setup. *)
HistoryStays(next) == UNCHANGED historyVars

(* The effect on active_routing_setup: another setup is another graph, and its
   history is not this one's. *)
HistoryFollows(next) ==
    IF next.active # shown.active
    THEN past' = <<>> /\ future' = <<>> /\ opened' = next.graph /\ trimmed' = FALSE
    ELSE UNCHANGED historyVars

(* Taking an unused destination off the canvas, and putting it back. *)
HideAction(a) ==
    /\ May("hide") /\ Spend("hide")
    /\ a \in HideableActions \cap ActionNodes(shown.graph, hidden) /\ ~Inbound(shown.graph, a)
    /\ hidden' = hidden \cup {a}
    /\ UNCHANGED <<shown, stored, calls, failed, historyVars, importVars, geoBusy, switcher>>

ShowAction(a) ==
    /\ May("hide") /\ Spend("hide")
    /\ a \in hidden /\ a # shown.graph.default_action
    /\ \A i \in DOMAIN shown.graph.rules : shown.graph.rules[i].action # a
    /\ hidden' = hidden \ {a}
    /\ UNCHANGED <<shown, stored, calls, failed, historyVars, importVars, geoBusy, switcher>>

-----------------------------------------------------------------------------
(* importRouting: the graph on screen is kept for the toast's Undo, Go reads and
   saves the file's graph, and that replaces the whole of the one on screen by
   then.  Nothing keeps a second import from starting meanwhile. *)
ImportRouting ==
    /\ May("import") /\ Spend("import") /\ MayCall
    /\ calls' = Posted(calls, "flow", shown, None, "flow", [NoData EXCEPT !.rest = <<shown.graph>>])
    /\ UNCHANGED <<shown, stored, failed, hidden, historyVars, importVars, geoBusy, switcher>>

(* A graph put on screen from outside it: the setup it is put into is noted
   when that is not the setup the graph was made for. *)
Crossing(g) == IF g.of = shown.active THEN crossed ELSE crossed \cup {shown.active}

(* The answer, whichever setup is on screen by then; without a file, nothing.
   All imports share one toast, and so does the message of one that failed. *)
ImportHeard(c) ==
    /\ NextHeard(c) /\ c.then = "flow"
    /\ IF c.ok
       THEN /\ LET next == [shown EXCEPT !.graph = c.value.graph]
               IN  shown' = next /\ Continue(c, "save", next, None, "patch")
            /\ RecordStep
            /\ toast' = c.data.rest
            /\ geoOffer' \in BOOLEAN
            /\ crossed' = Crossing(c.value.graph)
       ELSE /\ calls' = calls \ {c} /\ toast' \in {toast, <<>>}
            /\ UNCHANGED <<shown, historyVars, geoOffer, crossed>>
    /\ UNCHANGED <<stored, failed, budget, hidden, geoBusy, switcher>>

ToastUndo ==
    /\ toast # <<>>
    /\ OnChange(toast[1])
    /\ toast' = <<>> /\ geoOffer' = FALSE
    /\ crossed' = Crossing(toast[1])
    /\ UNCHANGED <<budget, hidden, geoBusy, switcher>>

(* Dismissed, or eight seconds later. *)
ToastGone ==
    /\ toast # <<>> /\ toast' = <<>>
    /\ UNCHANGED <<syncVars, hidden, historyVars, geoOffer, crossed, geoBusy, switcher>>

(* GeoPanel and GeoOfferBanner run a command; its geo files are merged into
   the settings on screen and saved, and are no step to undo. *)
GeoRun(who) ==
    /\ May("geo") /\ Spend("geo") /\ MayCall
    /\ who \notin geoBusy /\ (who = "banner" => geoOffer)
    /\ geoBusy' = geoBusy \cup {who}
    /\ Send("geo", shown, None, who)
    /\ UNCHANGED <<shown, stored, failed, hidden, historyVars, importVars, switcher>>

GeoHeard(c) ==
    /\ NextHeard(c) /\ c.then \in {"panel", "banner"}
    /\ geoBusy' = geoBusy \ {c.then}
    /\ IF c.ok
       THEN /\ shown' = [shown EXCEPT !.geo = c.value.geo]
            /\ Continue(c, "save", [shown EXCEPT !.geo = c.value.geo], None, "patch")
            /\ geoOffer' = (geoOffer /\ c.then = "panel")
       ELSE calls' = calls \ {c} /\ UNCHANGED <<shown, geoOffer>>
    /\ UNCHANGED <<stored, failed, budget, hidden, historyVars, toast, crossed, switcher>>

GeoSkip ==
    /\ geoOffer /\ geoOffer' = FALSE
    /\ UNCHANGED <<syncVars, hidden, historyVars, toast, crossed, geoBusy, switcher>>

-----------------------------------------------------------------------------
(* SetupSwitcher.  Its menu is disabled while run() is busy; the canvas is
   not. *)
Idle == [pc |-> "idle", target |-> None, delete |-> None, dialog |-> None]
SwitcherCalls(base, pc, target, delete) ==
    /\ switcher.pc = "idle" /\ May("setups") /\ MayCall
    /\ SendSave(base, "switcher")
    /\ switcher' = [switcher EXCEPT !.pc = pc, !.target = target, !.delete = delete]
    /\ Spend("setups")
    /\ UNCHANGED <<shown, stored, failed, hidden, historyVars, importVars, geoBusy>>

(* Saved first, so the graph being left is stored as it is on screen. *)
SwitchTo(id) == id # shown.active /\ switcher.dialog = None /\ SwitcherCalls(shown, "saving", id, None)

(* A new setup starts empty or as a copy of the graph on screen. *)
CreateSetup(id) ==
    /\ id \notin SetupIds(shown) /\ switcher.dialog = None
    /\ \E graph \in {EmptyGraph(id), [shown.graph EXCEPT !.of = id]} :
          SwitcherCalls([shown EXCEPT !.setups = Append(@, [id |-> id, graph |-> graph])],
                        "saving", id, None)

(* Another name for the active setup: one save of the settings on screen. *)
RenameSetup ==
    switcher.dialog = None /\ SwitcherCalls([shown EXCEPT !.other = 1 - @], "final", None, None)

(* The schedule dialog, offered while there is more than one setup: its
   entries and its fallback are its own until its Save, which is one save of
   the settings on screen with them. *)
SaveSchedule ==
    /\ Len(shown.setups) > 1 /\ switcher.dialog = None
    /\ SwitcherCalls([shown EXCEPT !.schedule = 1 - @], "final", None, None)

WithoutSetup(s, id) ==
    [s EXCEPT !.setups = KeepAt(s.setups, {i \in DOMAIN s.setups : s.setups[i].id # id})]

(* The delete dialog opens on the active setup, while there is another, and
   may be closed while its deletion is under way. *)
OpenDelete ==
    /\ May("setups") /\ switcher.dialog = None /\ Len(shown.setups) > 1
    /\ switcher' = [switcher EXCEPT !.dialog = shown.active]
    /\ UNCHANGED <<syncVars, hidden, historyVars, importVars, geoBusy>>

CloseDelete ==
    /\ switcher.dialog # None
    /\ switcher' = [switcher EXCEPT !.dialog = None]
    /\ UNCHANGED <<syncVars, hidden, historyVars, importVars, geoBusy>>

(* Confirmed: the active setup is left for the first other one and dropped
   after that; one that is not active any more is dropped at once. *)
DeleteSetup ==
    LET id == switcher.dialog
        first == SelectInSeq(shown.setups, LAMBDA e : e.id # id)
    IN  /\ id # None
        /\ \/ id = shown.active /\ first # 0 /\ SwitcherCalls(shown, "saving", shown.setups[first].id, id)
           \/ id # shown.active /\ SwitcherCalls(WithoutSetup(shown, id), "final", None, None)

(* The continuations of run(): the base is saved, then the switch is asked
   for, then a deleted setup is dropped; the last answer replaces the copy. *)
SwitcherHeard(c) ==
    /\ NextHeard(c) /\ c.then = "switcher"
    /\ \/ /\ ~c.ok
          /\ switcher' = [Idle EXCEPT !.dialog = switcher.dialog] /\ calls' = calls \ {c}
          /\ UNCHANGED <<shown, historyVars>>
       \/ /\ c.ok /\ switcher.pc = "saving"
          /\ switcher' = [switcher EXCEPT !.pc = "switching"]
          /\ Continue(c, "switch", c.value, switcher.target, "switcher")
          /\ UNCHANGED <<shown, historyVars>>
       \/ /\ c.ok /\ switcher.pc = "switching" /\ switcher.delete # None
          /\ switcher' = [switcher EXCEPT !.pc = "final"]
          /\ Continue(c, "save", WithoutSetup(c.value, switcher.delete), None, "switcher")
          /\ UNCHANGED <<shown, historyVars>>
       \/ /\ c.ok /\ (switcher.pc = "final" \/ (switcher.pc = "switching" /\ switcher.delete = None))
          /\ switcher' = Idle /\ calls' = calls \ {c}
          /\ shown' = c.value /\ HistoryFollows(c.value)
    /\ UNCHANGED <<stored, failed, budget, hidden, importVars, geoBusy>>

(* Another answer or event replaces the copy under the screen. *)
SettingsReplaced(c) ==
    /\ SettingsHeard(c)
    /\ HistoryFollows(shown')
    /\ UNCHANGED <<hidden, importVars, geoBusy, switcher>>

-----------------------------------------------------------------------------
RoutingInit ==
    /\ SyncInit
    /\ hidden = {} /\ past = <<>> /\ future = <<>>
    /\ toast = <<>> /\ geoBusy = {} /\ geoOffer = FALSE
    /\ switcher = Idle
    /\ opened = shown.graph /\ trimmed = FALSE /\ crossed = {}

RoutingNext ==
    \/ Edit \/ Undo \/ Redo
    \/ \E a \in HideableActions : HideAction(a) \/ ShowAction(a)
    \/ ImportRouting \/ ToastUndo \/ ToastGone \/ GeoSkip
    \/ \E who \in {"panel", "banner"} : GeoRun(who)
    \/ \E id \in SetupIds(shown) : SwitchTo(id)
    \/ OpenDelete \/ CloseDelete \/ DeleteSetup
    \/ \E id \in NewSetups : CreateSetup(id)
    \/ RenameSetup \/ SaveSchedule
    \/ \E c \in calls : \/ ImportHeard(c) \/ GeoHeard(c) \/ SwitcherHeard(c)
                        \/ SettingsReplaced(c)
    \/ \E id \in SetupIds(stored) : TraySwitch(id) /\ UNCHANGED editorVars
    \/ ServeSettings /\ UNCHANGED editorVars

(* Go answers every call, and the window's event loop takes every answer. *)
RoutingServed == ServeSettings /\ UNCHANGED editorVars
RoutingHeard == \E c \in calls : ImportHeard(c) \/ GeoHeard(c) \/ SwitcherHeard(c) \/ SettingsReplaced(c)
RoutingFairness == WF_routingVars(RoutingServed) /\ WF_routingVars(RoutingHeard)

RoutingSpec == RoutingInit /\ [][RoutingNext]_routingVars /\ RoutingFairness

-----------------------------------------------------------------------------
(***************************************************************************)
(* Every wire on the canvas ends at a node on the canvas: taking servers   *)
(* off, hiding destinations, cutting, importing, undoing and switching     *)
(* setups never leaves a rule or the catch-all pointing at nothing         *)
(* (serverIds, inboundCounts and derivedNodes in RoutingView.tsx), no rule *)
(* keeps a server it does not use, and no two rules share an id.           *)
(***************************************************************************)
WiresLand ==
    LET g == shown.graph IN
    /\ \A e \in Edges(g) : e[2] \in Nodes(g, hidden)
    /\ \A i \in DOMAIN g.rules : g.rules[i].server # None => g.rules[i].action = "proxy"
    /\ Cardinality(RuleSeqIds(g.rules)) = Len(g.rules)

(***************************************************************************)
(* A setup's graph is the one made in it.  Edits, undo, switches from the  *)
(* window and from the tray, deletions and late or reordered saves never   *)
(* write one setup's graph into another ("Another setup is another graph;  *)
(* its history is not this one's", RoutingView.tsx).  Two things do, and   *)
(* only the setup on screen at that moment is given what is not its own:   *)
(* an import answered after a switch, and the Undo in its toast pressed    *)
(* after one.                                                              *)
(***************************************************************************)
SetupsKeepTheirGraphs ==
    \A s \in {shown, stored} :
        /\ s.active \notin crossed => s.graph.of = s.active
        /\ \A i \in DOMAIN s.setups :
              s.setups[i].id \notin crossed => s.setups[i].graph.of = s.setups[i].id

(***************************************************************************)
(* Undoing everything gives back the graph the setup was opened with, all  *)
(* of it, as long as each save is answered before the next change and the  *)
(* history never reached its limit.                                        *)
(***************************************************************************)
UndoReturns ==
    (Quiet /\ budget["flight"] = 1 /\ past = <<>> /\ ~trimmed /\ ~failed) => shown.graph = opened

(* The setup menu is disabled by a create, rename, delete or switch. *)
SwitcherWaits == switcher.pc # "idle"

-----------------------------------------------------------------------------
(* The inductive invariants behind WiresLand and SetupsKeepTheirGraphs. *)

(* A graph that normalizeRouting has nothing to strip from: valid actions, a
   server only where traffic goes through one, rules told apart by their ids. *)
GraphFields == {"rules", "default_action", "default_server", "servers", "comments", "layout", "of"}
RuleFields == {"id", "values", "action", "server"}
RuleOK(r) ==
    /\ DOMAIN r = RuleFields
    /\ r.action \in Actions \cup {None}
    /\ r.server # None => r.action = "proxy"
GraphOK(g) ==
    /\ DOMAIN g = GraphFields
    /\ IsList(g.rules) /\ Distinct(g.rules)
    /\ \A r \in Range(g.rules) : RuleOK(r)
    /\ g.default_action \in Actions
    /\ g.default_server # None => g.default_action = "proxy"

(* Settings that normalizeSetups has nothing to repair in: the graph edited and
   those of the setups are such graphs, no two setups share an id, and the
   active one is in the list. *)
SettingsFields == {"graph", "active", "setups", "geo", "hwid", "other", "schedule"}
SetupOK(e) == DOMAIN e = {"id", "graph"} /\ GraphOK(e.graph)
SettingsOK(s) ==
    /\ SettingsFields \subseteq DOMAIN s
    /\ GraphOK(s.graph)
    /\ IsList(s.setups) /\ Distinct(s.setups)
    /\ \A e \in Range(s.setups) : SetupOK(e)
    /\ s.active \in SetupIds(s)

(* Every graph is its own setup's, the setups in "but" apart. *)
OwnGraphs(s, but) ==
    /\ s.active \notin but => s.graph.of = s.active
    /\ \A e \in Range(s.setups) : e.id \notin but => e.graph.of = e.id

(* What Go has loaded went through Normalize, and its graphs were made by this
   editor. *)
ASSUME FirstSettingsNormal == \A s \in FirstSettings : SettingsOK(s) /\ OwnGraphs(s, {})
ASSUME HistoryLimitPositive == HISTORY_LIMIT \in Nat \ {0}

(* Graphs and settings are well formed wherever they are kept: on screen, in
   Go, in a call or an answer under way, in the history, in the import. *)
Graphs(list) == IsList(list) /\ \A g \in Range(list) : GraphOK(g)
ShapesInv ==
    /\ SettingsOK(shown) /\ SettingsOK(stored)
    /\ \A c \in calls : DOMAIN c = CallFields /\ SettingsOK(c.value)
                        /\ (c.then = "flow" => Graphs(c.data.rest))
    /\ \A list \in {past, future, toast} : Graphs(list)
    /\ DOMAIN switcher = DOMAIN Idle

(* What SetupSwitcher waits for: one call at a time; the switch asked for
   before a deletion has left the setup to be dropped. *)
SwitcherInv ==
    /\ \A c, d \in calls : c.then = "switcher" /\ d.then = "switcher" => c = d
    /\ \A c \in calls : c.then = "switcher" =>
          /\ switcher.pc # "idle"
          /\ switcher.pc = "switching" => c.kind = "switch" /\ c.id = switcher.target
          /\ c.kind = "switch" /\ c.done /\ c.ok => c.value.active = c.id
    /\ switcher.delete # None => switcher.delete # switcher.target

(* No graph under way is another setup's, and the history is the active one's. *)
OwnInv ==
    /\ OwnGraphs(shown, crossed) /\ OwnGraphs(stored, crossed)
    /\ \A c \in calls : OwnGraphs(c.value, crossed)
    /\ shown.active \notin crossed => \A g \in Range(past) \cup Range(future) : g.of = shown.active

(* For ShownIsStored: what SetupSwitcher has saved first still has the setup it
   is about to switch to. *)
SwitcherTarget ==
    \A c \in calls : c.then = "switcher" /\ switcher.pc = "saving" =>
        c.kind = "save" /\ switcher.target \in SetupIds(c.value)

RoutingInv == ShapesInv /\ SwitcherInv /\ OwnInv

-----------------------------------------------------------------------------
(* The inductive invariant behind UndoReturns. *)
ASSUME FlightIsGiven == \A b \in Budgets : "flight" \in DOMAIN b

Alike(s, t) == s.active = t.active /\ s.graph = t.graph

(* With one call at a time: which await continues with which call, and nothing
   but the event of a switch beside it, while the switcher has that behind it. *)
SoleCall(c, pc) ==
    /\ c.kind \in {"save", "switch", "flow", "geo"}
    /\ c.kind = "save" => c.then \in {"patch", "switcher"}
    /\ c.kind = "switch" => c.then \in {"switcher", "event", "tray"}
    /\ c.kind = "flow" => c.then = "flow"
    /\ c.kind = "geo" => c.then \in {"panel", "banner"}
    /\ c.then = "event" => c.done /\ c.ok
    /\ c.kind = "switch" /\ c.then = "switcher" => pc # "saving"
Beside(c, d) ==
    \/ c = d
    \/ c.then = "event" /\ d.then = "switcher"
    \/ c.then = "switcher" /\ d.then = "event"
AfterSwitch(c, d, pc) ==
    c.then = "event" /\ d.then = "switcher" => pc # "saving" /\ (d.done \/ d.kind = "save")

(* What a call carries and brings: the graph in Go, or the one on screen. *)
SoleBrings(c, sh, st) ==
    /\ c.done => Alike(c.value, st)
    /\ c.read => Alike(c.value, st)
    /\ ~c.done /\ c.then = "patch" => Alike(c.value, sh)
    /\ c.kind = "save" /\ c.then = "switcher" => Alike(c.value, st)

(* Where the screen differs from Go, a save, an import or a switch is under way. *)
ScreenFollows(cs, sh, st) ==
    \/ Alike(sh, st)
    \/ \E c \in cs : c.then = "patch" /\ ~c.done
    \/ \E c \in cs : c.then = "flow" /\ c.done /\ c.ok
    \/ (\E c \in cs : c.then = "event") /\ sh.active # st.active

OneFlight(cs, sh, st, pc) ==
    /\ \A c \in cs : SoleCall(c, pc) /\ SoleBrings(c, sh, st)
    /\ \A c, d \in cs : Beside(c, d) /\ AfterSwitch(c, d, pc)
    /\ ScreenFollows(cs, sh, st)

(* The history leads back to the graph it started from. *)
LeadsBack == IF past = <<>> THEN shown.graph = opened ELSE past[1] = opened

UndoInv ==
    /\ "flight" \in DOMAIN budget /\ trimmed \in BOOLEAN
    /\ budget["flight"] = 1 /\ ~failed =>
          OneFlight(calls, shown, stored, switcher.pc) /\ (~trimmed => LeadsBack)

=============================================================================
