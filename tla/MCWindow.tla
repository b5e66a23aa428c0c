------------------------------ MODULE MCWindow ------------------------------
(***************************************************************************)
(* The window's parts side by side, for TLC.  A behaviour uses one part    *)
(* ("view"), in one of the scenarios below; the others stay at rest.  Each *)
(* scenario is a set of bounds chosen for one hazard; a bound that is not  *)
(* named is zero.                                                          *)
(***************************************************************************)
EXTENDS RoutingEditor, ServerList, SettingsPages, ConnectionScreen, RuleCard, BackStack,
        Links, ProxyDraft, Lists, Exports, Activity, PluginHost, Appearance

VARIABLE view

Still(rec) == \A what \in DOMAIN rec : rec[what] = 0
Zero(whats) == [what \in whats |-> 0]

-----------------------------------------------------------------------------
(* The settings' parts: routing, the server list, the settings screen. *)
NoBudget == [flight |-> 1, inOrder |-> 1] @@
    Zero({"fail", "tray", "canvas", "layout", "card", "undo", "hide", "import", "geo", "setups",
          "pick", "edit", "chain", "list", "refresh", "tick", "walk", "toggle", "hop", "command", "suggest"})

BudgetsOf ==
    [routing |->
       {[NoBudget EXCEPT !.canvas = 2, !.undo = 1, !.hide = 1],
        [NoBudget EXCEPT !.layout = 2, !.card = 1, !.undo = 3],
        [NoBudget EXCEPT !.flight = 2, !.card = 1, !.undo = 1, !.import = 1, !.geo = 1],
        [NoBudget EXCEPT !.flight = 2, !.import = 1, !.setups = 1, !.fail = 1],
        [NoBudget EXCEPT !.flight = 2, !.import = 2, !.tray = 1, !.undo = 1],
        [NoBudget EXCEPT !.card = 1, !.undo = 2, !.setups = 2, !.tray = 1],
        [NoBudget EXCEPT !.flight = 2, !.card = 1, !.setups = 2, !.tray = 1],
        [NoBudget EXCEPT !.flight = 2, !.inOrder = 0, !.card = 1, !.setups = 1, !.fail = 1],
        [NoBudget EXCEPT !.flight = 2, !.inOrder = 0, !.setups = 1, !.tray = 1]},
     servers |->
       {[NoBudget EXCEPT !.pick = 1, !.list = 1, !.refresh = 1],
        [NoBudget EXCEPT !.fail = 1, !.refresh = 1, !.tick = 1],
        [NoBudget EXCEPT !.flight = 2, !.list = 1, !.refresh = 1],
        [NoBudget EXCEPT !.flight = 2, !.inOrder = 0, !.pick = 1],
        [NoBudget EXCEPT !.flight = 2, !.edit = 1, !.chain = 1]},
     pages |->
       {[NoBudget EXCEPT !.walk = 7],
        [NoBudget EXCEPT !.walk = 2, !.hop = 3],
        [NoBudget EXCEPT !.walk = 2, !.toggle = 2, !.suggest = 2],
        [NoBudget EXCEPT !.flight = 2, !.fail = 1, !.walk = 2, !.toggle = 1, !.suggest = 1],
        [NoBudget EXCEPT !.flight = 2, !.walk = 4, !.toggle = 1, !.command = 1]}]

OneGraph(of) ==
    [rules |-> <<[id |-> "r1", values |-> 0, action |-> "proxy", server |-> "p1"]>>,
     default_action |-> "proxy", default_server |-> "", servers |-> {"p1"},
     comments |-> [n \in {"n1"} |-> 0], layout |-> [n \in {"r1"} |-> "placed"], of |-> of]
OneSetup == <<[id |-> "main", graph |-> EmptyGraph("main")]>>
TwoSetups == <<[id |-> "main", graph |-> OneGraph("main")], [id |-> "work", graph |-> EmptyGraph("work")]>>

First(setups, last, chain, sync, update) ==
    [graph |-> setups[1].graph, active |-> "main", setups |-> setups, geo |-> 0, hwid |-> 0, other |-> 0, schedule |-> 0,
     trusted |-> <<>>, choice |-> [answered |-> 0, hours |-> 0, rule |-> FALSE],
     chain |-> chain, chain_on |-> 1, last |-> last, sync |-> sync, auto_connect |-> sync,
     auto_update |-> update, core |-> "builtin", shortcut |-> None]
NothingPicked == LastSelection(<<>>, EMPTY_SELECTION)
Pinned(domain, id, name) ==
    [domain |-> domain, mode |-> "manual", profile_id |-> id, profile_name |-> name]

SettingsOf ==
    [routing |-> {First(TwoSetups, NothingPicked, <<>>, 0, 0)},
     servers |-> {First(OneSetup, NoLast, <<>>, 0, 1),
                  First(OneSetup, Pinned("a.org", "s2", "one"), <<"s3">>, 1, 0)},
     pages |-> {First(OneSetup, NothingPicked, <<"s1">>, 1, 0)}]

AllBudgets == {NoBudget} \cup UNION {BudgetsOf[v] : v \in DOMAIN BudgetsOf}
AllSettings == UNION {SettingsOf[v] : v \in DOMAIN SettingsOf}

Profile(id, domain, name) == [id |-> id, domain |-> domain, name |-> name]
SomeProvided ==
    [d \in {"a.org", "b.org"} |->
       IF d = "b.org" THEN {<<Profile("t1", d, "one")>>}
       ELSE {<<Profile("s1", d, "one")>>, <<Profile("s2", d, "one"), Profile("s3", d, "two")>>}]
SomeProfiles ==
    {<<Profile("s1", "a.org", "one"), Profile("t1", "b.org", "one")>>,
     <<Profile("m1", "local", "mine"), Profile("s3", "a.org", "two")>>}
(* New ids for one import, the most a scenario has. *)
SomeMinted == [s1 |-> "n1", s2 |-> "n2", s3 |-> "n3", t1 |-> "n4"]
HandAdded == {Profile("m2", "local", "other")}
SomeDomains == <<"local", "a.org", "b.org">>

-----------------------------------------------------------------------------
(* The connection screen, the rule cards and the links. *)
NoTrip == Zero({"toggle", "plugin", "drop", "fail", "get", "ip", "group"})
SomeTrips ==
    {NoTrip,
     [NoTrip EXCEPT !.get = 1, !.toggle = 1, !.plugin = 1, !.fail = 1],
     [NoTrip EXCEPT !.get = 1, !.toggle = 1, !.drop = 1, !.fail = 1],
     [NoTrip EXCEPT !.get = 1, !.toggle = 2, !.ip = 2],
     [NoTrip EXCEPT !.get = 1, !.drop = 1, !.ip = 2],
     [NoTrip EXCEPT !.get = 1, !.group = 2]}

NoHand == Zero({"type", "click", "dns", "picker", "note"})
SomeHands ==
    {NoHand,
     [NoHand EXCEPT !.type = 2, !.click = 3],
     [NoHand EXCEPT !.type = 1, !.click = 3, !.picker = 1],
     [NoHand EXCEPT !.note = 3, !.dns = 2, !.click = 1]}

NoWalk == Zero({"arrive", "open", "type", "process", "scan", "camera", "focus", "accept", "share"})
SomeWalks ==
    {NoWalk,
     [NoWalk EXCEPT !.arrive = 2, !.open = 1, !.type = 1, !.process = 2, !.camera = 1],
     [NoWalk EXCEPT !.open = 1, !.arrive = 1, !.camera = 2, !.scan = 1, !.process = 1],
     [NoWalk EXCEPT !.focus = 2, !.accept = 2, !.open = 1],
     [NoWalk EXCEPT !.share = 3]}

-----------------------------------------------------------------------------
(* The Edit server dialog: links of every scheme, and what its parser reads
   wrongly. *)
Link(scheme, json, f) == [scheme |-> scheme, json |-> json, f |-> f]
Fields(secret, method, security) ==
    [server |-> "old.org", port |-> 8443, secret |-> secret, method |-> method, security |-> security,
     sni |-> "cdn.org", key |-> "k", insecure |-> TRUE, network |-> "ws"]
Portless == [server |-> "old.org", secret |-> "plain", security |-> "tls"]
SomeLinks ==
    {Link(s, FALSE, Fields("plain", "aes", "reality")) : s \in Recognised \cup {"wireguard", "garbled"}}
    \cup {Link("ss", FALSE, Fields(x, "aes", "none")) : x \in {"with:colon", "padded"}}
    \cup {Link(s, FALSE, Fields("user:pass", "auto", "tls")) : s \in {"trojan", "hysteria2"}}
    \cup {Link(s, FALSE, Portless) : s \in {"trojan", "hysteria2", "vless", "socks", "http"}}
    \cup {Link("ss", FALSE, Fields("plain", "aes", "none") @@ [encoded |-> TRUE]),
          Link("hysteria2", FALSE, [server |-> "old.org", port |-> 8443, auth |-> "plain"])}
    \cup {Link("shadowsocks", TRUE, Fields("plain", "aes", "tls")),
          Link("vless", TRUE, Fields("plain", "aes", "none")),
          Link("http", FALSE, [server |-> "old.org", port |-> 80])}

NoEffort == [links |-> <<>>, effort |-> Zero({"edit", "type", "turn", "save"})]
SomeEfforts ==
    {NoEffort,
     [links |-> [i \in {"p1", "p2"} |-> Link("vless", FALSE, Fields(i, "aes", "tls"))],
      effort |-> [edit |-> 3, type |-> 0, turn |-> 0, save |-> 2]]}
    \cup {[links |-> [i \in {"p1"} |-> l], effort |-> [edit |-> 1, type |-> 1, turn |-> 2, save |-> 1]] :
            l \in SomeLinks}

-----------------------------------------------------------------------------
(* The lists, the exports, the activity screens and the plugins. *)
AllRows == {"a", "b", "c", "d", "L"}
SomeGroups == [i \in AllRows |-> IF i \in {"a", "b"} THEN "g" ELSE ""]
SomePings == [i \in AllRows |-> IF i = "a" THEN 3 ELSE 1]
SomeNames == <<"L", "d", "b", "c", "a">>
NoStrokes == Zero({"click", "bulk", "change", "domain", "filter", "fold"})
Tour(on, strokesOf) ==
    [screen |-> on, stars |-> {"b"}, domain |-> "one", strokes |-> strokesOf,
     rows |-> [one |-> <<"a", "b", "c">>, two |-> <<"d">>, sources |-> <<"one", "two", "L">>]]
SomeTours ==
    {Tour("servers", NoStrokes),
     Tour("servers", [NoStrokes EXCEPT !.click = 3, !.bulk = 1, !.change = 1]),
     Tour("servers", [NoStrokes EXCEPT !.click = 2, !.bulk = 2, !.change = 1, !.domain = 1]),
     Tour("servers", [NoStrokes EXCEPT !.click = 2, !.filter = 1, !.fold = 1]),
     Tour("servers", [NoStrokes EXCEPT !.click = 1, !.domain = 2, !.fold = 2]),
     Tour("sources", [NoStrokes EXCEPT !.click = 3, !.bulk = 1, !.change = 1, !.domain = 1])}

NoDrive == Zero({"export", "choose", "file", "edit", "type", "refresh", "save"})
SomeDrives ==
    {NoDrive,
     [NoDrive EXCEPT !.export = 1, !.choose = 2, !.file = 1],
     [NoDrive EXCEPT !.export = 2, !.choose = 1],
     [NoDrive EXCEPT !.edit = 2, !.type = 1, !.refresh = 1, !.save = 1]}

SomePrograms == [c1 |-> "app", c2 |-> "svc", c3 |-> "dns"]
NoVisit == Zero({"poll", "flow", "traffic", "screen", "open", "close", "stats", "days", "fail", "clear", "log"})
SomeVisits ==
    {NoVisit,
     [NoVisit EXCEPT !.poll = 3, !.traffic = 3, !.screen = 1, !.open = 1, !.close = 1, !.fail = 1],
     [NoVisit EXCEPT !.poll = 2, !.traffic = 2, !.screen = 1, !.open = 3],
     [NoVisit EXCEPT !.poll = 2, !.traffic = 1, !.screen = 2, !.flow = 2, !.open = 1, !.close = 1],
     [NoVisit EXCEPT !.stats = 1, !.days = 2, !.clear = 1, !.fail = 1],
     [NoVisit EXCEPT !.log = 4]}

Pack(id, version, permissions) == [id |-> id, version |-> version, permissions |-> permissions]
SomePackages ==      \* two of them of one version
    {Pack("p", 1, {"state"}), Pack("p", 1, {}), Pack("p", 2, {"state", "control"}), Pack("q", 1, {})}
NoPlay == Zero({"pick", "card", "fail", "theme", "call"})
SomePlays ==
    {[NoPlay EXCEPT !.pick = 2, !.card = 1],
     [NoPlay EXCEPT !.pick = 1, !.call = 1],
     [NoPlay EXCEPT !.card = 2, !.call = 2],
     [NoPlay EXCEPT !.card = 2, !.fail = 1, !.theme = 1]}

-----------------------------------------------------------------------------
(* The appearance: a theme of the user's and one of a plugin's. *)
SomePresets == [night |-> [mode |-> "dark", l |-> 150], paper |-> [mode |-> "light", l |-> 880]]
SomeFonts == [sans |-> {"latin"}, noto |-> {"latin", "hans"}]
SomeDefaults == [latin |-> "sans", hans |-> "noto"]
Look(id, mode, l) == [id |-> id, mode |-> mode, l |-> l, image |-> "", tone |-> 0]
PluginThemes == [t \in {"plugin:t"} |-> Look(t, "light", 950)]
SomeContent == {[themes |-> <<>>, fonts |-> {}], [themes |-> PluginThemes, fonts |-> {"plugin-f"}]}
SomeWardrobes ==
    {[themeId |-> theme,
      prefs |-> [font |-> font, accent |-> "", order |-> DEFAULT_ORDER, metrics |-> ToSet(DEFAULT_ORDER),
                 customThemes |-> [t \in {"c1"} |-> Look(t, "dark", 90)], activeCustom |-> worn,
                 userFonts |-> {"f1"}, pluginThemes |-> PluginThemes, pluginFonts |-> {"plugin-f"}]] :
       <<theme, font, worn>> \in {<<"custom-dark", "f1", "c1">>, <<"custom-light", "plugin-f", "plugin:t">>}}
NoTouch == Zero({"theme", "edit", "draw", "save", "image", "font", "accent", "layout", "plugin", "system", "fail", "restart"})
SomeTouches ==
    {NoTouch,
     [NoTouch EXCEPT !.theme = 1, !.edit = 1, !.draw = 2, !.save = 1],
     [NoTouch EXCEPT !.edit = 2, !.image = 1, !.draw = 1, !.save = 1],
     [NoTouch EXCEPT !.theme = 2, !.plugin = 2, !.accent = 1],
     [NoTouch EXCEPT !.font = 3, !.restart = 1],
     [NoTouch EXCEPT !.font = 2, !.plugin = 1, !.restart = 1],
     [NoTouch EXCEPT !.theme = 2, !.system = 3, !.fail = 1],
     [NoTouch EXCEPT !.layout = 2, !.accent = 1, !.restart = 1],
     [NoTouch EXCEPT !.edit = 1, !.save = 1, !.theme = 1, !.restart = 1]}

-----------------------------------------------------------------------------
(* Where the parts start: the one in use in its own way, the others at rest,
   with nothing under way. *)
ServersAtRest ==
    /\ stock = <<>> /\ profiles = <<>> /\ selection = EMPTY_SELECTION /\ dialed = EMPTY_SELECTION
    /\ phase = "done" /\ refreshing = None /\ ticking = FALSE

HostAtRest ==
    /\ installed = {} /\ listed = {} /\ offers = {} /\ prompt = NoOffer /\ installing = FALSE
    /\ cards = {} /\ talk = <<>> /\ told = <<>> /\ lost = FALSE /\ allowedSeen = {}
    /\ seen = [id \in PluginIds |-> NewFrame] /\ pending = {} /\ look = 0 /\ settling = FALSE
    /\ play = NoPlay

WindowInit ==
    /\ view \in {"routing", "servers", "pages", "screen", "card", "back", "links", "draft", "lists",
                 "exports", "activity", "host", "look"}
    /\ IF view \in DOMAIN BudgetsOf THEN stored \in SettingsOf[view] /\ budget \in BudgetsOf[view]
       ELSE stored \in SettingsOf.routing /\ budget = NoBudget
    /\ RoutingInit /\ SettingsInit
    /\ IF view = "servers" THEN ServerInit ELSE ServersAtRest
    /\ ScreenInit /\ (view = "screen" <=> ~Still(left))
    /\ CardInit /\ (view = "card" <=> ~Still(hand))
    /\ (view # "card" => rule.kind = "domains" /\ rule.action = "proxy")
    /\ BackInit
    /\ LinksInit /\ (view = "links" <=> ~Still(steps))
    /\ DraftInit /\ (view = "draft" <=> ~Still(effort))
    /\ ListInit /\ (view = "lists" <=> ~Still(strokes))
    /\ ExportsInit /\ (view = "exports" <=> ~Still(drive))
    /\ ActivityInit /\ (view = "activity" <=> ~Still(visits))
    /\ IF view = "host" THEN HostInit ELSE HostAtRest
    /\ LookInit /\ (view = "look" <=> ~Still(touches)) /\ (view # "look" => themeId = "custom-dark")

(* The parts of the window, and the parts that share the settings. *)
aloneVars == <<screenVars, cardVars, backVars, linkVars, draftVars, selectingVars, exportsVars,
               activityVars, hostVars, lookVars>>
sharedVars == <<syncVars, editorVars, listVars, pageVars>>
windowVars == <<view, sharedVars, aloneVars>>

WindowNext ==
    /\ UNCHANGED view
    /\ \/ /\ UNCHANGED aloneVars
          /\ \/ view = "routing" /\ RoutingNext /\ UNCHANGED <<listVars, pageVars>>
             \/ view = "servers" /\ ServerNext /\ UNCHANGED <<editorVars, pageVars>>
             \/ view = "pages" /\ SettingsNext
                /\ opened' = shown'.graph      \* what the routing screen would open with
                /\ UNCHANGED <<hidden, past, future, trimmed, importVars, geoBusy, switcher, listVars>>
       \/ /\ UNCHANGED sharedVars
          /\ \/ view = "screen" /\ ScreenNext
                /\ UNCHANGED <<cardVars, backVars, linkVars, draftVars, selectingVars, exportsVars, activityVars, hostVars, lookVars>>
             \/ view = "card" /\ CardNext
                /\ UNCHANGED <<screenVars, backVars, linkVars, draftVars, selectingVars, exportsVars, activityVars, hostVars, lookVars>>
             \/ view = "back" /\ BackNext
                /\ UNCHANGED <<screenVars, cardVars, linkVars, draftVars, selectingVars, exportsVars, activityVars, hostVars, lookVars>>
             \/ view = "links" /\ LinksNext
                /\ UNCHANGED <<screenVars, cardVars, backVars, draftVars, selectingVars, exportsVars, activityVars, hostVars, lookVars>>
             \/ view = "draft" /\ DraftNext
                /\ UNCHANGED <<screenVars, cardVars, backVars, linkVars, selectingVars, exportsVars, activityVars, hostVars, lookVars>>
             \/ view = "lists" /\ ListNext
                /\ UNCHANGED <<screenVars, cardVars, backVars, linkVars, draftVars, exportsVars, activityVars, hostVars, lookVars>>
             \/ view = "exports" /\ ExportsNext
                /\ UNCHANGED <<screenVars, cardVars, backVars, linkVars, draftVars, selectingVars, activityVars, hostVars, lookVars>>
             \/ view = "activity" /\ ActivityNext
                /\ UNCHANGED <<screenVars, cardVars, backVars, linkVars, draftVars, selectingVars, exportsVars, hostVars, lookVars>>
             \/ view = "host" /\ HostNext
                /\ UNCHANGED <<screenVars, cardVars, backVars, linkVars, draftVars, selectingVars, exportsVars, activityVars, lookVars>>
             \/ view = "look" /\ LookNext
                /\ UNCHANGED <<screenVars, cardVars, backVars, linkVars, draftVars, selectingVars, exportsVars, activityVars, hostVars>>

(* The fairness of each part while it is the one in use, as its module states
   it: a part at rest owes nothing. *)
WindowSpec ==
    /\ WindowInit /\ [][WindowNext]_windowVars
    /\ WF_routingVars(view = "routing" /\ RoutingServed) /\ WF_routingVars(view = "routing" /\ RoutingHeard)
    /\ WF_serverVars(view = "servers" /\ Start)
    /\ WF_serverVars(view = "servers" /\ ServersServed) /\ WF_serverVars(view = "servers" /\ ServersHeard)
    /\ WF_settingsVars(view = "pages" /\ PagesServed) /\ WF_settingsVars(view = "pages" /\ PagesHeard)
    /\ WF_screenVars(view = "screen" /\ ScreenServe) /\ WF_screenVars(view = "screen" /\ SomeNewsHeard)
    /\ WF_screenVars(view = "screen" /\ CheckIp) /\ WF_screenVars(view = "screen" /\ IpCallReturns)
    /\ WF_activityVars(view = "activity" /\ Load) /\ WF_activityVars(view = "activity" /\ Cleared)
    /\ \A k \in 1..MostCalls : WF_activityVars(view = "activity" /\ UsageRead(k))
    /\ WF_hostVars(view = "host" /\ GoServes) /\ WF_hostVars(view = "host" /\ WindowHears)
    /\ WF_hostVars(view = "host" /\ ThemeSettles)
    /\ WF_lookVars(view = "look" /\ TimerLoads)
    /\ WF_lookVars(view = "look" /\ GoReadsPalette) /\ WF_lookVars(view = "look" /\ PaletteHeard)

(***************************************************************************)
(* Plugins run, and dress the window, as the user agreed to and as Go has  *)
(* them: the list and the pages catch up with what is installed, and what  *)
(* is written on the page (theme, accent, picture, font) is what is chosen *)
(* and still there, whichever of the user, the editor, a plugin that goes, *)
(* a late answer and a restart changed it last (HostHolds, LookHolds).     *)
(***************************************************************************)
PluginsAndLookHold == HostHolds /\ LookHolds

(***************************************************************************)
(* Nothing on screen is left waiting for good, whatever fails or is        *)
(* overtaken on the way: startup ends, spinners stop, the setup menu, the  *)
(* connect button, the core's choice, the suggestion, the plugin prompt    *)
(* and its cards come back, and a late address or an old statistic is      *)
(* replaced.                                                               *)
(***************************************************************************)
NothingHangs ==
    []<>~(SwitcherWaits \/ ServersWait \/ PagesWait \/ ScreenWaits \/ StatsWait \/ PromptsWait \/ PaletteWaits)

=============================================================================
