--------------------------- MODULE SettingsPages ----------------------------
(***************************************************************************)
(* The settings screen (SettingsView.tsx, components/settings) and the     *)
(* tab it lives in (App.tsx).  Screens are mounted when their tab is shown *)
(* and unmounted when it is left; what should outlive them is remembered   *)
(* outside (lib/remember.ts).  Switches and fields patch the settings (see *)
(* SettingsSync); the core and the shortcut are commands of their own,     *)
(* which Go saves itself and the panel then patches into the window's      *)
(* copy.                                                                   *)
(***************************************************************************)
EXTENDS SettingsSync

CONSTANTS
    Sections,       \* the sections of the list
    Matching,       \* the ones a search finds
    Requested,      \* the one the update toast opens
    Cores, Shortcuts, Hops,
    Networks        \* Wi-Fi networks that can be named

VARIABLES
    tab,            \* App's activeTab
    moving,         \* where a tab change still being rendered leads, or None
    home,           \* settingsHome
    request,        \* settingsOpen: [id, n]
    memory,         \* what useRemembered keeps: [open, query, handled]
    mounted,        \* the screen's own state: [firstHome, picked], and the
                    \* core panel's: which mount of it this is, and busy
    suggest,        \* the provider's suggestion: [offer, later, busy]
    registered,     \* the shortcut the system calls the app for
    accepted,       \* the core Go last agreed to
    went            \* where in Settings the last step led, to compare with

pageVars == <<tab, moving, home, request, memory, mounted, suggest, registered, accepted, went>>
settingsVars == <<syncVars, pageVars>>

(* A provider's suggested settings are put to the user over whatever is on
   screen, unless answered before or put off. *)
Asking == suggest.offer \notin {0, shown.choice.answered} /\ ~suggest.later

InSettings == tab = "settings" /\ ~Asking

(* A mount: state not remembered starts over, and the current home count is
   not a request to leave a section. *)
Mount(h, panel) == [firstHome |-> h, picked |-> None, busy |-> FALSE, panel |-> panel]

(* Each section is a mount of its own: leaving one forgets the core panel's
   spinner, which the answer still to come no longer belongs to. *)
Left(m) == IF m.busy THEN [m EXCEPT !.busy = FALSE, !.panel = @ + 1] ELSE m

(* Mutant: the request is handled on every mount. *)
HandledRequestAgain(m, r) == IF r.n # 0 THEN [m EXCEPT !.handled = r.n, !.open = r.id] ELSE m

(* A request to open a section is handled once, however often the screen is
   mounted. *)
HandledRequest(m, r) ==
    IF r.n # m.handled THEN [m EXCEPT !.handled = r.n, !.open = r.id] ELSE m

(* Clicking Settings from inside it. *)
HandledHome(m, h, first) == IF h # first THEN [m EXCEPT !.open = None] ELSE m

(* changeTab: a second click on Settings goes to its list; any other change
   is a transition, rendered later. *)
ChangeTab(t) ==
    /\ ~Asking /\ May("walk") /\ Spend("walk")
    /\ IF t = "settings" /\ InSettings
       THEN /\ home' = home + 1
            /\ memory' = HandledHome(memory, home', mounted.firstHome)
            /\ mounted' = Left(mounted)
            /\ went' = None
            /\ UNCHANGED moving
       ELSE moving' = t /\ UNCHANGED <<home, memory, mounted, went>>
    /\ UNCHANGED <<tab, request, suggest, registered, accepted, shown, stored, calls, failed>>

(* The transition is rendered: the screen mounts and its effects run. *)
TabRendered ==
    /\ moving # None
    /\ tab' = moving /\ moving' = None
    /\ IF tab' = "settings" /\ tab # "settings"
       THEN /\ mounted' = Mount(home, Left(mounted).panel)
            /\ memory' = HandledRequest(memory, request)
       ELSE UNCHANGED <<mounted, memory>>
    /\ UNCHANGED <<home, request, suggest, registered, accepted, went, syncVars>>

(* openSettingsSection, from the update toast: rendered at once; a tab change
   queued before it gives way to it. *)
OpenSettingsSection ==
    /\ ~Asking /\ May("walk") /\ Spend("walk")
    /\ tab' = "settings" /\ moving' = None
    /\ request' = [id |-> Requested, n |-> request.n + 1]
    /\ mounted' = IF ~InSettings THEN Mount(home, Left(mounted).panel)
                  ELSE IF memory.open = Requested THEN mounted ELSE Left(mounted)
    /\ memory' = HandledRequest(memory, request')
    /\ went' = Requested
    /\ UNCHANGED <<home, suggest, registered, accepted, shown, stored, calls, failed>>

(* navigate: a row of the list, of the search results while something is
   searched for, back to the list, or another section from an open one's
   menu. *)
SectionRows ==
    CASE memory.open # None -> Sections \ {memory.open}
      [] memory.query -> Matching
      [] OTHER -> Sections
Navigate(id) ==
    /\ InSettings /\ May("walk") /\ Spend("walk")
    /\ IF id = None THEN memory.open # None ELSE id \in SectionRows
    /\ memory' = [memory EXCEPT !.open = id] /\ went' = id
    /\ mounted' = Left(mounted)
    /\ UNCHANGED <<tab, moving, home, request, suggest, registered, accepted, shown, stored, calls, failed>>

Search ==
    /\ InSettings /\ memory.open = None /\ May("walk") /\ Spend("walk")
    /\ memory' = [memory EXCEPT !.query = ~@]
    /\ UNCHANGED <<tab, moving, home, request, mounted, suggest, registered, accepted, went, shown, stored, calls, failed>>

-----------------------------------------------------------------------------
(* What the sections change. *)
Open(id) == InSettings /\ memory.open = id

(* The switches and fields of each section.  TLS options are off while a core
   that ignores them is chosen. *)
BehaviourOffers == Open("behaviour")
ConnectionOffers == Open("connection")
TlsOffers == Open("tls") /\ shown.core \notin {"mihomo", "xray"}
PrivacyOffers == Open("privacy")
UpdatesOffers == Open("updates")
IdentityOffers == Open("subscriptions")
WifiOffers == Open("wifi")

(* One of them changed: onSettingsChange. *)
ChangeSetting ==
    /\ \/ BehaviourOffers \/ ConnectionOffers \/ TlsOffers \/ PrivacyOffers
       \/ UpdatesOffers \/ IdentityOffers \/ WifiOffers
    /\ May("toggle") /\ MayCall
    /\ PatchSettings([shown EXCEPT !.other = 1 - @])
    /\ Spend("toggle")
    /\ UNCHANGED <<pageVars, stored, failed>>

(* add in wifi.tsx, for a name typed or the network the device is on, and a
   name's cross. *)
TrustNetwork(name) ==
    /\ WifiOffers /\ name \notin Range(shown.trusted) /\ May("toggle") /\ MayCall
    /\ PatchSettings([shown EXCEPT !.trusted = Append(@, name)])
    /\ Spend("toggle") /\ UNCHANGED <<pageVars, stored, failed>>

ForgetNetwork(name) ==
    /\ WifiOffers /\ name \in Range(shown.trusted) /\ May("toggle") /\ MayCall
    /\ PatchSettings([shown EXCEPT !.trusted = SelectSeq(@, LAMBDA n : n # name)])
    /\ Spend("toggle") /\ UNCHANGED <<pageVars, stored, failed>>

(* onRegenerateHWID: Go mints the device id and answers with all settings. *)
RegenerateHWID ==
    /\ IdentityOffers /\ May("command") /\ MayCall /\ Spend("command")
    /\ Send("hwid", NoSettings, None, "save")
    /\ UNCHANGED <<pageVars, shown, stored, failed>>

(* onDisconnectSync: saved, and shown once Go has answered. *)
DisconnectSync ==
    /\ Open("sync") /\ shown.sync = 1 /\ May("command") /\ MayCall /\ Spend("command")
    /\ SendSave([shown EXCEPT !.sync = 0], "save")
    /\ UNCHANGED <<pageVars, shown, stored, failed>>

(* The chain: a server is picked among those not in it, then added;
   handleMoveChainProxy and the bin change what is there. *)
ChainOffers == Open("chain") /\ shown.chain_on = 1

SwitchChain ==
    /\ Open("chain") /\ May("hop") /\ MayCall
    /\ PatchSettings([shown EXCEPT !.chain_on = 1 - @])
    /\ Spend("hop")
    /\ UNCHANGED <<pageVars, stored, failed>>

PickHop(p) ==
    /\ ChainOffers /\ May("hop") /\ Spend("hop")
    /\ p \notin Range(shown.chain)
    /\ mounted' = [mounted EXCEPT !.picked = p]
    /\ UNCHANGED <<tab, moving, home, request, memory, suggest, registered, accepted, went, shown, stored, calls, failed>>

HandleAddChainProxy ==
    /\ ChainOffers /\ MayCall
    /\ mounted.picked \notin Range(shown.chain) \cup {None}
    /\ PatchSettings([shown EXCEPT !.chain = Append(@, mounted.picked)])
    /\ mounted' = [mounted EXCEPT !.picked = None]
    /\ UNCHANGED <<tab, moving, home, request, memory, suggest, registered, accepted, went, stored, failed, budget>>

Swapped(s, i, j) == [s EXCEPT ![i] = s[j], ![j] = s[i]]
ChangeChain ==
    /\ ChainOffers /\ May("hop") /\ MayCall
    /\ \E i \in DOMAIN shown.chain :
          \/ i > 1 /\ PatchSettings([shown EXCEPT !.chain = Swapped(@, i, i - 1)])
          \/ i < Len(shown.chain) /\ PatchSettings([shown EXCEPT !.chain = Swapped(@, i, i + 1)])
          \/ PatchSettings([shown EXCEPT !.chain = RemoveAt(@, i)])
    /\ Spend("hop")
    /\ UNCHANGED <<pageVars, stored, failed>>

(* choose in cores.tsx: not offered while one is on its way, as far as this
   mount knows. *)
Choose(id) ==
    /\ Open("core") /\ ~mounted.busy /\ id # shown.core
    /\ May("command") /\ MayCall /\ Spend("command")
    /\ calls' = Posted(calls, "core", NoSettings, id, "core", [NoData EXCEPT !.rest = <<mounted.panel>>])
    /\ mounted' = [mounted EXCEPT !.busy = TRUE]
    /\ UNCHANGED <<tab, moving, home, request, memory, suggest, registered, accepted, went, shown, stored, failed>>

(* save in shortcut.tsx, once a combination was pressed; "" clears the one
   there is. *)
SaveShortcut(spec) ==
    /\ BehaviourOffers /\ (spec # None \/ shown.shortcut # None)
    /\ May("command") /\ MayCall /\ Spend("command")
    /\ Send("shortcut", NoSettings, spec, "shortcut")
    /\ UNCHANGED <<pageVars, shown, stored, failed>>

(* SetCore: refused, nothing to do, or saved into Go's settings; it may still
   fail once saved, when the running tunnel cannot be changed. *)
CoreServed(c) ==
    /\ NextServed(c) /\ c.kind = "core" /\ c.read
    /\ \/ Answer(c, c.value, FALSE) /\ UNCHANGED <<stored, accepted, failed>>
       \/ /\ c.value.core = c.id /\ accepted' = c.id
          /\ Answer(c, c.value, TRUE) /\ UNCHANGED <<stored, failed>>
       \/ /\ c.value.core # c.id /\ accepted' = c.id
          /\ stored' = [c.value EXCEPT !.core = c.id]
          /\ \E ok \in BOOLEAN : Answer(c, stored', ok) /\ failed' = (failed \/ ~ok)
    /\ UNCHANGED <<shown, budget, tab, moving, home, request, memory, mounted, suggest, registered, went>>

(* SetGlobalShortcut: refused by the system, or registered, then saved, which
   may fail. *)
ShortcutServed(c) ==
    /\ NextServed(c) /\ c.kind = "shortcut" /\ c.read
    /\ \/ Answer(c, c.value, FALSE) /\ UNCHANGED <<stored, registered, failed>>
       \/ /\ registered' = c.id
          /\ \/ /\ stored' = [c.value EXCEPT !.shortcut = c.id]
                /\ Answer(c, stored', TRUE) /\ UNCHANGED failed
             \/ Answer(c, c.value, FALSE) /\ failed' = TRUE /\ UNCHANGED stored
    /\ UNCHANGED <<shown, budget, tab, moving, home, request, memory, mounted, suggest, accepted, went>>

(* The await goes on when the panel is gone; its busy flag is then nobody's. *)
PanelFreed(m, c) == IF c.data.rest = <<m.panel>> THEN [m EXCEPT !.busy = FALSE] ELSE m

(* Mutant: what Go accepted is only shown. *)
PanelHeardOnly(c) ==
    /\ NextHeard(c) /\ c.then \in {"core", "shortcut"}
    /\ calls' = calls \ {c} /\ UNCHANGED shown
    /\ mounted' = PanelFreed(mounted, c)
    /\ UNCHANGED <<stored, failed, budget, tab, moving, home, request, memory, suggest, registered, accepted, went>>

(* The panel patches what Go accepted into the window's copy. *)
PanelHeard(c) ==
    LET next == IF c.kind = "core" THEN [shown EXCEPT !.core = c.value.core]
                ELSE [shown EXCEPT !.shortcut = c.id]
    IN  /\ NextHeard(c) /\ c.then \in {"core", "shortcut"}
        /\ IF c.ok THEN shown' = next /\ calls' = PostSave(calls \ {c}, next, "patch")
           ELSE calls' = calls \ {c} /\ UNCHANGED shown
        /\ mounted' = PanelFreed(mounted, c)
        /\ UNCHANGED <<stored, failed, budget, tab, moving, home, request, memory, suggest, registered, accepted, went>>

-----------------------------------------------------------------------------
(* SubscriptionSuggestions. *)

(* A refresh brings a suggestion, or one different from the last. *)
SuggestionArrives ==
    /\ May("suggest") /\ Spend("suggest")
    /\ suggest' = [suggest EXCEPT !.offer = @ + 1]
    /\ UNCHANGED <<tab, moving, home, request, memory, mounted, registered, accepted, went, shown, stored, calls, failed>>

(* The dialog closed without an answer, which it may be while one is saved. *)
Later ==
    /\ Asking
    /\ suggest' = [suggest EXCEPT !.later = TRUE]
    /\ UNCHANGED <<tab, moving, home, request, memory, mounted, registered, accepted, went, syncVars>>

(* The rule that keeps the suggested applications out of the tunnel replaces
   the one an earlier answer added, where that is still there. *)
AppsRule == [id |-> "apps", values |-> 0, action |-> "direct", server |-> ""]
WithAppsRule(g, added) ==
    IF added /\ \E i \in DOMAIN g.rules : g.rules[i].id = AppsRule.id
    THEN [g EXCEPT !.rules = [i \in DOMAIN @ |-> IF @[i].id = AppsRule.id THEN AppsRule ELSE @[i]]]
    ELSE [g EXCEPT !.rules = Append(@, AppsRule)]

(* answer: the interval, the applications, both, or (nothing taken) declined. *)
AnswerSuggestion(taken) ==
    LET choice == [answered |-> suggest.offer,
                   hours |-> IF "hours" \in taken THEN suggest.offer ELSE shown.choice.hours,
                   rule |-> shown.choice.rule \/ "apps" \in taken]
    IN  /\ Asking /\ ~suggest.busy /\ MayCall
        /\ SendSave([shown EXCEPT !.choice = choice,
                       !.graph = IF "apps" \in taken THEN WithAppsRule(@, shown.choice.rule) ELSE @],
                    "suggest")
        /\ suggest' = [suggest EXCEPT !.busy = TRUE]
        /\ UNCHANGED <<tab, moving, home, request, memory, mounted, registered, accepted, went, shown, stored, failed, budget>>

(* saveSettings returns or throws: the dialog is free either way. *)
SuggestionHeard(c) ==
    /\ NextHeard(c) /\ c.then = "suggest"
    /\ shown' = IF c.ok THEN c.value ELSE shown
    /\ calls' = calls \ {c}
    /\ suggest' = [suggest EXCEPT !.busy = FALSE]
    /\ UNCHANGED <<tab, moving, home, request, memory, mounted, registered, accepted, went, stored, failed, budget>>

-----------------------------------------------------------------------------
SettingsInit ==
    /\ SyncInit
    /\ tab = "connection" /\ moving = None /\ home = 0 /\ request = [id |-> None, n |-> 0]
    /\ memory = [open |-> None, query |-> FALSE, handled |-> 0]
    /\ mounted = Mount(0, 0)
    /\ suggest = [offer |-> 0, later |-> FALSE, busy |-> FALSE]
    /\ registered = stored.shortcut /\ accepted = stored.core
    /\ went = None

PagesUser ==
    \/ \E t \in {"connection", "settings"} : ChangeTab(t)
    \/ OpenSettingsSection \/ Search
    \/ \E id \in Sections \cup {None} : Navigate(id)
    \/ ChangeSetting \/ RegenerateHWID \/ DisconnectSync
    \/ SwitchChain \/ HandleAddChainProxy \/ ChangeChain
    \/ \E p \in Hops : PickHop(p)
    \/ \E id \in Cores : Choose(id)
    \/ \E spec \in Shortcuts : SaveShortcut(spec)
    \/ \E name \in Networks : TrustNetwork(name) \/ ForgetNetwork(name)
    \/ Later \/ \E taken \in SUBSET {"hours", "apps"} : AnswerSuggestion(taken)

PagesServed == (ServeSettings /\ UNCHANGED pageVars) \/ \E c \in calls : CoreServed(c) \/ ShortcutServed(c)
PagesHeard ==
    \E c \in calls : \/ PanelHeard(c) \/ SuggestionHeard(c)
                     \/ SettingsHeard(c) /\ UNCHANGED pageVars

SettingsNext == PagesUser \/ TabRendered \/ SuggestionArrives \/ PagesServed \/ PagesHeard

(* Go answers and the window hears it. *)
SettingsSpec ==
    /\ SettingsInit /\ [][SettingsNext]_settingsVars
    /\ WF_settingsVars(PagesServed) /\ WF_settingsVars(PagesHeard)

(* What waits for an answer. *)
PagesWait == suggest.busy \/ mounted.busy

-----------------------------------------------------------------------------
(***************************************************************************)
(* "Leaving Settings from inside a section and coming back returns to that *)
(* section", a second click on Settings goes to the list, and a request to *)
(* open a section "is handled once" and never reopens it "over whichever   *)
(* one was left open" (SettingsView.tsx): whenever Settings is on screen   *)
(* it shows the place the user last asked for, whatever was visited        *)
(* between.                                                                *)
(***************************************************************************)
ReturnsWhereLeft == tab = "settings" => memory.open = went

(***************************************************************************)
(* A core or a shortcut Go has agreed to is not lost to a setting changed  *)
(* from a copy that did not have it yet: with calls in order and nothing   *)
(* refused, once all is quiet Go's settings name the core last chosen and  *)
(* the shortcut the system has registered.  The panels patch Go's answer   *)
(* into the copy for this (cores.tsx, shortcut.tsx).  It covers one choice *)
(* and one setting changed meanwhile; a further change made on a copy that *)
(* a late answer has taken back can still lose either.                     *)
(***************************************************************************)
ChoicesStick ==
    (Quiet /\ budget["inOrder"] = 1 /\ ~failed) =>
        stored.core = accepted /\ stored.shortcut = registered

(* The inductive invariant behind ReturnsWhereLeft: what is remembered is where
   the user went, on screen or not, and no request or click is still owed. *)
PlacesInv ==
    /\ DOMAIN memory = {"open", "query", "handled"}
    /\ DOMAIN mounted = {"firstHome", "picked", "busy", "panel"}
    /\ home \in Nat /\ mounted.firstHome \in Nat /\ mounted.firstHome <= home
    /\ request.n \in Nat /\ request.n = memory.handled
    /\ memory.open = went

=============================================================================
