----------------------------- MODULE PluginHost -----------------------------
(***************************************************************************)
(* Plugins as the window runs them: the list it holds of what Go has       *)
(* installed (plugins-provider.tsx), the prompts that change it            *)
(* (settings/plugins.tsx), and the host that answers the plugins' pages    *)
(* (lib/plugin-host.ts).  A plugin's page runs in a frame keyed by its id  *)
(* and version: a frame of another version starts over, one of the same    *)
(* version installed again stays, whatever that is now allowed.            *)
(*                                                                         *)
(* Requests to Go are served, and their answers heard, in order.           *)
(***************************************************************************)
EXTENDS Naturals, Sequences, FiniteSets

CONSTANTS
    Packages,       \* plugin files: [id, version, permissions]
    Permissions,
    Plays           \* the bounds a behaviour starts with

VARIABLES
    installed,      \* Go's store: the plugins it has, as [pack, enabled]
    listed,         \* the window's list
    offers,         \* Go's pendingPlugins: files read and not installed yet, by token
    prompt,         \* the install prompt: an offer, or NoOffer
    installing,     \* PluginsPanel's busy
    cards,          \* the plugins whose card is busy
    talk,           \* requests on their way to Go
    told,           \* answers on their way back
    lost,           \* whether some request failed
    seen,           \* per plugin, what its frame has of the app: [hello, theme]
    pending,        \* the calls of frames not answered yet
    look,           \* the theme on screen
    settling,       \* the 50 ms before a change of it is passed on
    allowedSeen,    \* the packages the user allowed in a prompt
    play            \* what is left of the bounds

packVars == <<installed, listed, offers, prompt, installing, cards, talk, told, lost, allowedSeen>>
frameVars == <<seen, pending, look, settling>>
hostVars == <<packVars, frameVars, play>>

Playing(what) == play[what] > 0 /\ play' = [play EXCEPT ![what] = @ - 1]

PluginIds == {p.id : p \in Packages}
Entry(list, id) == {e \in list : e.pack.id = id}
Uninstalled(list, id) == list \ Entry(list, id)

(* The frames on the page: one for each plugin that is on. *)
FrameOf(list, id) == {e.pack.version : e \in {f \in Entry(list, id) : f.enabled}}
Framed(id) == FrameOf(listed, id) # {}

(* allowed: on, and given the permission; "" asks for none. *)
Allowed(id, permission) ==
    \E e \in Entry(listed, id) : e.enabled /\ (permission = "" \/ permission \in e.pack.permissions)

NewFrame == [hello |-> FALSE, theme |-> 0]

(* setPlugins: the host's map and the page's frames change together; a frame
   whose key changed is another one, and the calls of the old one are left
   without a window to answer to. *)
SetPlugins(list) ==
    /\ listed' = list
    /\ seen' = [id \in PluginIds |-> IF FrameOf(list, id) = FrameOf(listed, id) THEN seen[id] ELSE NewFrame]
    /\ pending' = {c \in pending : FrameOf(list, c.plugin) = FrameOf(listed, c.plugin)}

NoPack == [id |-> "", version |-> 0, permissions |-> {}]
NoOffer == [token |-> 0, pack |-> NoPack]

(* A request: about a plugin, an offer, and whether to turn it on. *)
Request(kind, id, offer, on) == [kind |-> kind, id |-> id, offer |-> offer, on |-> on]
ListRequest(id) == Request("list", id, NoOffer, FALSE)

-----------------------------------------------------------------------------
(* The prompts. *)

(* pick: nothing keeps a second one from being under way.  Go gives the file a
   random token; here it comes with the request. *)
Pick ==
    /\ Playing("pick")
    /\ prompt = NoOffer
    /\ \E p \in Packages :
          talk' = Append(talk, Request("pick", "", [token |-> play["pick"], pack |-> p], FALSE))
    /\ UNCHANGED <<installed, listed, offers, prompt, installing, cards, told, lost, allowedSeen, frameVars>>

Install ==
    /\ prompt # NoOffer /\ ~installing
    /\ installing' = TRUE
    /\ allowedSeen' = allowedSeen \cup {prompt.pack}
    /\ talk' = Append(talk, Request("install", "", prompt, FALSE))
    /\ UNCHANGED <<installed, listed, offers, prompt, cards, told, lost, frameVars, play>>

CancelInstall ==
    /\ prompt # NoOffer /\ ~installing
    /\ prompt' = NoOffer
    /\ UNCHANGED <<installed, listed, offers, installing, cards, talk, told, lost, allowedSeen, frameVars, play>>

(* toggle and remove on a plugin's card, which is busy meanwhile. *)
TogglePlugin(id) ==
    /\ Entry(listed, id) # {} /\ id \notin cards /\ Playing("card")
    /\ cards' = cards \cup {id}
    /\ talk' = Append(talk, Request("toggle", id, NoOffer, ~Framed(id)))
    /\ UNCHANGED <<installed, listed, offers, prompt, installing, told, lost, allowedSeen, frameVars>>

RemovePlugin(id) ==
    /\ Entry(listed, id) # {} /\ id \notin cards /\ Playing("card")
    /\ cards' = cards \cup {id}
    /\ talk' = Append(talk, Request("remove", id, NoOffer, FALSE))
    /\ UNCHANGED <<installed, listed, offers, prompt, installing, told, lost, allowedSeen, frameVars>>

-----------------------------------------------------------------------------
(* Go's side (internal/app/plugins.go, internal/plugins/store.go). *)
Replied(r, ok) == Append(told, [kind |-> r.kind, id |-> r.id, ok |-> ok, offer |-> r.offer,
                             list |-> IF r.kind \in {"toggle", "list"} THEN installed' ELSE {}])

(* A file is read and held under its token. *)
ServePick(r) ==
    /\ r.kind = "pick"
    /\ offers' = offers \cup {r.offer}
    /\ UNCHANGED installed

(* The package held under the token, on and with all it asks for. *)
OfferOf(token) == {o \in offers : o.token = token}
ServeInstall(r) ==
    /\ r.kind = "install"
    /\ \E o \in OfferOf(r.offer.token) :
          /\ installed' = Uninstalled(installed, o.pack.id) \cup {[pack |-> o.pack, enabled |-> TRUE]}
          /\ offers' = offers \ {o}

ServeToggle(r) ==
    /\ r.kind = "toggle" /\ Entry(installed, r.id) # {}
    /\ installed' = {IF e.pack.id = r.id THEN [e EXCEPT !.enabled = r.on] ELSE e : e \in installed}
    /\ UNCHANGED offers

ServeRemove(r) ==
    /\ r.kind = "remove"
    /\ installed' = Uninstalled(installed, r.id)
    /\ UNCHANGED offers

ServeList(r) == r.kind = "list" /\ UNCHANGED <<installed, offers>>

(* The disk refuses, the file is no plugin, the plugin is gone, or the token is
   spent; an install spends it either way. *)
ServeFails(r) ==
    /\ \/ Playing("fail")
       \/ /\ \/ r.kind = "toggle" /\ Entry(installed, r.id) = {}
             \/ r.kind = "install" /\ OfferOf(r.offer.token) = {}
          /\ UNCHANGED play
    /\ offers' = IF r.kind = "install" THEN offers \ OfferOf(r.offer.token) ELSE offers
    /\ UNCHANGED installed

GoServes ==
    /\ talk # <<>>
    /\ talk' = Tail(talk)
    /\ LET r == Head(talk) IN
          \/ /\ ServePick(r) \/ ServeInstall(r) \/ ServeToggle(r) \/ ServeRemove(r) \/ ServeList(r)
             /\ told' = Replied(r, TRUE)
             /\ UNCHANGED <<lost, play>>
          \/ ServeFails(r) /\ told' = Replied(r, FALSE) /\ lost' = TRUE
    /\ UNCHANGED <<listed, prompt, installing, cards, allowedSeen, frameVars>>

-----------------------------------------------------------------------------
(* What the awaits do with Go's answers. *)

PickHeard(a) ==
    /\ a.kind = "pick"
    /\ prompt' = IF a.ok THEN a.offer ELSE prompt
    /\ UNCHANGED <<listed, installing, cards, talk, seen, pending>>

(* Mutant: an install does not refresh the list. *)
InstallHeardOnly(a) ==
    /\ a.kind = "install"
    /\ installing' = FALSE /\ prompt' = NoOffer
    /\ UNCHANGED <<listed, cards, talk, seen, pending>>

(* install and remove go on to refresh the list; toggle's answer is the list. *)
InstallHeard(a) ==
    /\ a.kind = "install"
    /\ IF a.ok THEN talk' = Append(talk, ListRequest("")) /\ UNCHANGED installing
       ELSE installing' = FALSE /\ UNCHANGED talk
    /\ UNCHANGED <<listed, prompt, cards, seen, pending>>

RemoveHeard(a) ==
    /\ a.kind = "remove"
    /\ IF a.ok THEN talk' = Append(talk, ListRequest(a.id)) /\ UNCHANGED cards
       ELSE cards' = cards \ {a.id} /\ UNCHANGED talk
    /\ UNCHANGED <<listed, prompt, installing, seen, pending>>

ToggleHeard(a) ==
    /\ a.kind = "toggle"
    /\ IF a.ok THEN SetPlugins(a.list) ELSE UNCHANGED <<listed, seen, pending>>
    /\ cards' = cards \ {a.id}
    /\ UNCHANGED <<prompt, installing, talk>>

(* refresh: a list that could not be read leaves the old one; then the install
   closes its prompt, or the card is free again. *)
PluginListHeard(a) ==
    /\ a.kind = "list"
    /\ IF a.ok THEN SetPlugins(a.list) ELSE UNCHANGED <<listed, seen, pending>>
    /\ IF a.id = "" /\ installing THEN installing' = FALSE /\ prompt' = NoOffer
       ELSE UNCHANGED <<installing, prompt>>
    /\ cards' = cards \ {a.id}
    /\ UNCHANGED talk

WindowHears ==
    /\ told # <<>>
    /\ told' = Tail(told)
    /\ LET a == Head(told) IN
          PickHeard(a) \/ InstallHeard(a) \/ RemoveHeard(a) \/ ToggleHeard(a) \/ PluginListHeard(a)
    /\ UNCHANGED <<installed, offers, lost, allowedSeen, look, settling, play>>

-----------------------------------------------------------------------------
(* The host. *)

(* A page has loaded: it gets the theme, and every change of it from now on. *)
Hello(id) ==
    /\ Framed(id) /\ ~seen[id].hello
    /\ seen' = [seen EXCEPT ![id].hello = TRUE, ![id].theme = look]
    /\ UNCHANGED <<packVars, pending, look, settling, play>>

(* The theme's attributes change; the timer starts over. *)
ThemeChanges ==
    /\ Playing("theme")
    /\ look' = 1 - look /\ settling' = TRUE
    /\ UNCHANGED <<packVars, seen, pending>>

(* broadcast of the theme, to the frames that asked and are allowed. *)
ThemeSettles ==
    /\ settling /\ settling' = FALSE
    /\ seen' = [id \in PluginIds |-> IF seen[id].hello /\ Allowed(id, "")
                               THEN [seen[id] EXCEPT !.theme = look] ELSE seen[id]]
    /\ UNCHANGED <<packVars, pending, look, play>>

(* A call: refused at once unless the plugin may make it; otherwise the app
   works on it and the frame waits.  "by" is a ghost, the package that asked.
   Model bound: one call at a time per plugin. *)
Call(id, permission) ==
    /\ Framed(id) /\ seen[id].hello /\ Playing("call")
    /\ ~\E c \in pending : c.plugin = id
    /\ \E e \in Entry(listed, id) :
          pending' = IF Allowed(id, permission)
                     THEN pending \cup {[plugin |-> id, permission |-> permission, by |-> e.pack]}
                     ELSE pending
    /\ UNCHANGED <<packVars, seen, look, settling>>

(* The run ends, with a result or an error, and its frame is told either
   way. *)
CallAnswered(c) ==
    /\ c \in pending
    /\ pending' = pending \ {c}
    /\ UNCHANGED <<packVars, seen, look, settling, play>>

-----------------------------------------------------------------------------
HostInit ==
    /\ \E old \in Packages : installed = {[pack |-> old, enabled |-> TRUE]}
    /\ listed = {} /\ offers = {} /\ prompt = NoOffer /\ installing = FALSE /\ cards = {}
    /\ talk = <<ListRequest("")>> /\ told = <<>> /\ lost = FALSE
    /\ seen = [id \in PluginIds |-> NewFrame]
    /\ pending = {} /\ look = 0 /\ settling = FALSE
    /\ allowedSeen = {e.pack : e \in installed}
    /\ play \in Plays

HostNext ==
    \/ Pick \/ Install \/ CancelInstall
    \/ \E id \in PluginIds : TogglePlugin(id) \/ RemovePlugin(id) \/ Hello(id)
    \/ GoServes \/ WindowHears
    \/ ThemeChanges \/ ThemeSettles
    \/ \E id \in PluginIds, permission \in Permissions \cup {""} : Call(id, permission)
    \/ \E c \in pending : CallAnswered(c)

(* Go answers every request, the window takes every answer, the timer fires. *)
HostFairness == WF_hostVars(GoServes) /\ WF_hostVars(WindowHears) /\ WF_hostVars(ThemeSettles)

HostSpec == HostInit /\ [][HostNext]_hostVars /\ HostFairness

-----------------------------------------------------------------------------
(***************************************************************************)
(* The window's list, which decides what frames run and what they may do,  *)
(* is Go's again once every request has been answered and none failed:     *)
(* setPlugins after a toggle, refresh after an install or a removal.       *)
(***************************************************************************)
PluginsCatchUp == (talk = <<>> /\ told = <<>> /\ ~lost) => listed = installed

(***************************************************************************)
(* "Installs a plugin read by PickPlugin, once the user has seen what it   *)
(* asks for" (internal/app/plugins.go): nothing is installed but a package *)
(* whose own prompt the user agreed to, also when a second file was picked *)
(* before the first prompt came up.                                        *)
(***************************************************************************)
InstalledWasShown == \A e \in installed : e.pack \in allowedSeen

(***************************************************************************)
(* A page that has loaded matches the app: unless a change of the theme is *)
(* still settling, it has the theme on screen.  It got it with its hello   *)
(* or with the last broadcast (onMessage, startPluginHost).                *)
(***************************************************************************)
PagesMatchTheme ==
    ~settling => \A id \in PluginIds : seen[id].hello => seen[id].theme = look

(***************************************************************************)
(* A page waiting for an answer is of a plugin that is on, in the version  *)
(* that asked: a plugin turned off, removed, or replaced by another        *)
(* version leaves no page waiting, because its frame goes with the list    *)
(* that says so (the keys of PluginFrame).  So it may still do what it     *)
(* waits for, unless another package of that very version came in between. *)
(***************************************************************************)
WaitingIsAllowed ==
    \A c \in pending :
        /\ FrameOf(listed, c.plugin) = {c.by.version}
        /\ [pack |-> c.by, enabled |-> TRUE] \in listed => Allowed(c.plugin, c.permission)

(***************************************************************************)
(* What runs in the window, and what it may do, is what the user agreed to *)
(* and what Go has: the list catches up, nothing unseen is installed,      *)
(* pages match the theme, and none outlives the version it belongs to.     *)
(***************************************************************************)
HostHolds == PluginsCatchUp /\ InstalledWasShown /\ PagesMatchTheme /\ WaitingIsAllowed

(* The prompt or a card is busy. *)
PromptsWait == installing \/ cards # {}

=============================================================================
