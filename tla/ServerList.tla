----------------------------- MODULE ServerList -----------------------------
(***************************************************************************)
(* The servers in the window (App.tsx, hooks/use-profiles.ts): the list    *)
(* Go owns and the window's copy, the selection kept in step with it and   *)
(* remembered in the settings, the startup sequence, the refreshes by hand *)
(* and on the timer, and the proxy chain.                                  *)
(*                                                                         *)
(* A profile is a record of its id, its domain and its name.  What a       *)
(* provider sends for a domain is one of a few lists.                      *)
(***************************************************************************)
EXTENDS SettingsSync

CONSTANTS
    DomainOrder,    \* the domains in the order sortedDomains gives them
    Provided,       \* domain -> the lists its provider may send; a body
                    \* without servers is a failure (CallFails)
    Minted,         \* the id a provider's server gets when it is imported
    FirstProfiles,  \* the lists Go may have when the window opens
    NewProfiles     \* the profiles the user may add by hand

Local == "local"

VARIABLES
    profiles, selection,    \* useProfiles
    stock,                  \* Go's: app.profiles
    phase,                  \* how far start() is
    refreshing,             \* refreshingDomain: whose card shows a spinner
    ticking,                \* the timer's "running"
    dialed                  \* what the automatic connect was asked for

listVars == <<profiles, selection, stock, phase, refreshing, ticking, dialed>>
serverVars == <<syncVars, listVars>>

-----------------------------------------------------------------------------
(* hooks/use-profiles.ts *)

Ids(list) == {list[i].id : i \in DOMAIN list}
DomainsOf(list) == {list[i].domain : i \in DOMAIN list}
InDomain(list, d) == KeepAt(list, {i \in DOMAIN list : list[i].domain = d})
NameOf(list, id) ==
    IF id \in Ids(list) THEN list[SelectInSeq(list, LAMBDA p : p.id = id)].name ELSE None

NoLast == [domain |-> None, mode |-> None, profile_id |-> None, profile_name |-> None]
EMPTY_SELECTION == [domain |-> Local, mode |-> "manual", profileId |-> None]
AutoIn(d) == [domain |-> d, mode |-> "auto", profileId |-> None]
Manual(d, id) == [domain |-> d, mode |-> "manual", profileId |-> id]

(* Local first, then alphabetically. *)
FirstDomain(list) == DomainOrder[Min({i \in DOMAIN DomainOrder : DomainOrder[i] \in DomainsOf(list)})]

(* reconcileSelection: what is selected once the list is this one. *)
Reconcile(list, current) ==
    LET d == IF current.domain \in DomainsOf(list) THEN current.domain ELSE FirstDomain(list)
        there == current.profileId \in Ids(InDomain(list, d))
    IN  CASE list = <<>> -> EMPTY_SELECTION
          [] list # <<>> /\ d = Local ->
               Manual(d, IF there THEN current.profileId ELSE InDomain(list, d)[1].id)
          [] list # <<>> /\ d # Local ->
               IF there THEN [current EXCEPT !.domain = d] ELSE AutoIn(d)

(* buildSources: a source per profile added by hand, one per subscription. *)
Sources(list) == {<<"profile", id>> : id \in Ids(InDomain(list, Local))}
                 \cup {<<"subscription", d>> : d \in DomainsOf(list) \ {Local}}
(* profilesOf: the profiles a source stands for. *)
ProfilesOf(list, source) ==
    IF source[1] = "profile" THEN {source[2]} \cap Ids(list) ELSE Ids(InDomain(list, source[2]))

-----------------------------------------------------------------------------
(* The effect that remembers the selection; it runs after every change of the
   selection or of the list, with the settings on screen by then (base). *)
LastSelection(list, sel) ==
    [domain |-> sel.domain, mode |-> sel.mode, profile_id |-> sel.profileId,
     profile_name |-> NameOf(list, sel.profileId)]

Restored == phase \in {"refresh", "done"}

(* Mutant: a server that only changed its name is not saved again. *)
RememberIds(restored, list, sel, base, cs) ==
    LET next == LastSelection(list, sel)
        patched == [base EXCEPT !.last = next]
    IN  IF ~restored \/ [base.last EXCEPT !.profile_name = next.profile_name] = next
        THEN shown' = base /\ calls' = cs
        ELSE shown' = patched /\ calls' = PostSave(cs, patched, "patch")

Remember(restored, list, sel, base, cs) ==
    LET next == LastSelection(list, sel)
        patched == [base EXCEPT !.last = next]
    IN  IF ~restored \/ base.last = next
        THEN shown' = base /\ calls' = cs
        ELSE shown' = patched /\ calls' = PostSave(cs, patched, "patch")

Select(sel, list, base, cs) ==
    /\ selection' = sel /\ profiles' = list
    /\ Remember(Restored, list, sel, base, cs)

(* Mutant: the selection is left as it was. *)
ApplyList(list, base, cs) == Select(selection, list, base, cs)

(* apply: a new list, and the selection repaired in one step. *)
Apply(list, base, cs) == Select(Reconcile(list, selection), list, base, cs)

-----------------------------------------------------------------------------
(* Go's profile store.  Whatever changes the list copies it, works on the copy
   and replaces the whole of it: two steps, between which another call may do
   the same, and a fetch besides in some. *)
Fetches == {"import", "refresh", "refreshAll"}
Copies == Fetches \cup {"add", "delete", "update"}

(* KeepIdentities: a server that a refresh brings has the id of the last one of
   its name before it, unless another took that.  (A match by link, which the
   code tries first, is left out with the links: in a provider's list a server
   keeps its id for as long as its link is the same.) *)
KeepIdentities(previous, fresh) ==
    [i \in DOMAIN fresh |->
       LET same == {j \in DOMAIN previous : previous[j].name = fresh[i].name}
       IN  IF same # {} /\ \A k \in 1 .. i - 1 : fresh[k].name # fresh[i].name
           THEN [fresh[i] EXCEPT !.id = previous[Max(same)].id] ELSE fresh[i]]
WithDomain(list, d, sent) ==
    KeepAt(list, {i \in DOMAIN list : list[i].domain # d}) \o KeepIdentities(InDomain(list, d), sent)

(* Domains one after another, each replaced by what its provider sent; the code
   takes them in any order. *)
InOrder(domains) == KeepAt(DomainOrder, {i \in DOMAIN DomainOrder : DomainOrder[i] \in domains})
WithDomains(list, domains, sent) ==
    LET with[n \in 0 .. Len(domains)] ==
          IF n = 0 THEN list ELSE WithDomain(with[n - 1], domains[n], sent[domains[n]])
    IN  with[Len(domains)]

(* An import adds servers of its own. *)
Imported(sent) == [i \in DOMAIN sent |-> [sent[i] EXCEPT !.id = Minted[@]]]

AnswerList(c, list, ok) ==
    calls' = (calls \ {c}) \cup
             {[c EXCEPT !.n = Stamp(calls), !.done = TRUE, !.ok = ok, !.data.list = list]}

ReadList(c) ==
    /\ NextServed(c) /\ c.kind \in Copies /\ ~c.read
    /\ calls' = (calls \ {c}) \cup {[c EXCEPT !.read = TRUE, !.data.list = stock]}
    /\ UNCHANGED <<shown, stored, failed, budget, listVars>>

(* A provider may fail the refresh of all of them for its own servers only. *)
Fetched(c) ==
    CASE c.kind = "import" -> {c.data.list \o Imported(sent) : sent \in Provided[c.id]}
      [] c.kind = "refresh" -> {WithDomain(c.data.list, c.id, sent) : sent \in Provided[c.id]}
      [] c.kind = "refreshAll" ->
           {WithDomains(c.data.list, InOrder(answering), sent) :
              answering \in SUBSET (DomainsOf(c.data.list) \ {Local}),
              sent \in {f \in [DOMAIN Provided -> UNION {Provided[d] : d \in DOMAIN Provided}] :
                           \A d \in DOMAIN Provided : f[d] \in Provided[d]}}

(* The subscription to refresh, or the profile to change, was no longer there
   when the list was copied. *)
Gone(c) ==
    /\ c.read
    /\ \/ c.kind = "refresh" /\ c.id \notin DomainsOf(c.data.list)
       \/ c.kind = "update" /\ c.id \notin Ids(c.data.list)

FetchServed(c) ==
    /\ NextServed(c) /\ c.kind \in Fetches /\ c.read /\ ~Gone(c)
    /\ stock' \in Fetched(c) /\ AnswerList(c, stock', TRUE)
    /\ UNCHANGED <<shown, stored, failed, budget, profiles, selection, phase, refreshing, ticking, dialed>>

StoreServed(c) ==
    /\ NextServed(c) /\ ~Gone(c)
    /\ LET list == c.data.list IN
       \/ c.kind = "profiles" /\ UNCHANGED stock
       \/ c.read /\ c.kind = "add" /\ stock' = Append(list, c.data.name)
       \/ /\ c.read /\ c.kind = "delete"
          /\ stock' = KeepAt(list, {i \in DOMAIN list : list[i].id \notin c.data.ids})
       \/ /\ c.read /\ c.kind = "update"
          /\ stock' = [i \in DOMAIN list |->
                IF list[i].id = c.id THEN [list[i] EXCEPT !.name = c.data.name] ELSE list[i]]
    /\ AnswerList(c, stock', TRUE)
    /\ UNCHANGED <<shown, stored, failed, budget, profiles, selection, phase, refreshing, ticking, dialed>>

SettingsServed(c) ==
    /\ NextServed(c) /\ c.kind \in {"settings", "push"}
    /\ Answer(c, stored, TRUE)
    /\ UNCHANGED <<shown, stored, failed, budget, listVars>>

(* A fetch, an upload or a store call that fails changes nothing. *)
CallFails(c) ==
    /\ NextServed(c)
    /\ \/ /\ c.kind \in Copies \cup {"profiles", "push"}
          /\ May("fail") /\ Spend("fail")
       \/ Gone(c) /\ UNCHANGED budget
    /\ AnswerList(c, <<>>, FALSE)
    /\ failed' = (failed \/ c.kind = "profiles")
    /\ UNCHANGED <<shown, stored, listVars>>

ServeProfiles ==
    \E c \in calls : \/ ReadList(c) \/ FetchServed(c) \/ StoreServed(c)
                     \/ SettingsServed(c) \/ CallFails(c)

-----------------------------------------------------------------------------
(* Mutant: the servers are loaded after an upload only. *)
StartSettingsStops(c) ==
    /\ NextHeard(c) /\ c.then = "start:settings"
    /\ shown' = c.value
    /\ IF c.value.sync = 1 THEN Continue(c, "push", NoSettings, None, "start:push") ELSE calls' = calls \ {c}
    /\ phase' = "profiles"
    /\ UNCHANGED <<stored, failed, budget, profiles, selection, stock, refreshing, ticking, dialed>>

(* start(): settings, an upload that is still owed, profiles and the saved
   selection, the automatic connect, the refresh of every subscription. *)
StartSettingsHeard(c) ==
    /\ NextHeard(c) /\ c.then = "start:settings"
    /\ shown' = c.value
    /\ IF c.value.sync = 1 THEN Continue(c, "push", NoSettings, None, "start:push")
       ELSE Continue(c, "profiles", NoSettings, None, "start:profiles")
    /\ phase' = "profiles"
    /\ UNCHANGED <<stored, failed, budget, profiles, selection, stock, refreshing, ticking, dialed>>

StartPushHeard(c) ==
    /\ NextHeard(c) /\ c.then = "start:push"
    /\ IF c.ok THEN Continue(c, "save", [shown EXCEPT !.sync = 0], None, "start:pushed")
       ELSE Continue(c, "profiles", NoSettings, None, "start:profiles")
    /\ UNCHANGED <<shown, stored, failed, budget, listVars>>

StartPushedHeard(c) ==
    /\ NextHeard(c) /\ c.then = "start:pushed"
    /\ shown' = IF c.ok THEN c.value ELSE shown
    /\ Continue(c, "profiles", NoSettings, None, "start:profiles")
    /\ UNCHANGED <<stored, failed, budget, listVars>>

(* The server picked last time: by id, or by name when its link has changed. *)
SavedSelection(list, last) ==
    LET byName == {i \in DOMAIN list : list[i].domain = last.domain /\ list[i].name = last.profile_name}
        id == IF last.profile_id \in Ids(list) THEN last.profile_id
              ELSE IF byName # {} THEN list[Min(byName)].id ELSE None
    IN  Reconcile(list, [domain |-> last.domain, mode |-> last.mode, profileId |-> id])

DialTarget(list, last) ==
    IF last = NoLast THEN Reconcile(list, AutoIn(None))
    ELSE Reconcile(list, [domain |-> last.domain, mode |-> last.mode,
                          profileId |-> IF last.profile_id \in Ids(list) THEN last.profile_id ELSE None])

StartProfilesHeard(c) ==
    LET last == shown.last
        refreshes == shown.auto_update = 1
        cs == IF refreshes THEN Posted(calls \ {c}, "refreshAll", NoSettings, None, "start:refresh", NoData)
              ELSE calls \ {c}
    IN  /\ NextHeard(c) /\ c.then = "start:profiles"
        /\ phase' = IF refreshes THEN "refresh" ELSE "done"
        /\ IF c.ok
           THEN LET sel == IF last = NoLast THEN Reconcile(c.data.list, selection) ELSE SavedSelection(c.data.list, last)
                IN  /\ profiles' = c.data.list /\ selection' = sel
                    /\ dialed' = IF shown.auto_connect = 1 /\ c.data.list # <<>> THEN DialTarget(c.data.list, last) ELSE dialed
                    /\ Remember(TRUE, c.data.list, sel, shown, cs)
           ELSE calls' = cs /\ UNCHANGED <<shown, profiles, selection, dialed>>
        /\ UNCHANGED <<stored, failed, budget, stock, refreshing, ticking>>

(* Mutant: the refreshed list is not loaded. *)
StartRefreshForgotten(c) ==
    /\ NextHeard(c) /\ c.then = "start:refresh"
    /\ calls' = calls \ {c} /\ phase' = "done"
    /\ UNCHANGED <<shown, stored, failed, budget, profiles, selection, stock, refreshing, ticking, dialed>>

StartRefreshHeard(c) ==
    /\ NextHeard(c) /\ c.then = "start:refresh"
    /\ IF c.ok THEN Continue(c, "profiles", NoSettings, None, "start:load") /\ UNCHANGED phase
       ELSE calls' = calls \ {c} /\ phase' = "done"
    /\ UNCHANGED <<shown, stored, failed, budget, profiles, selection, stock, refreshing, ticking, dialed>>

StartLoadHeard(c) ==
    /\ NextHeard(c) /\ c.then = "start:load"
    /\ phase' = "done"
    /\ IF c.ok THEN Apply(c.data.list, shown, calls \ {c})
       ELSE calls' = calls \ {c} /\ UNCHANGED <<shown, profiles, selection>>
    /\ UNCHANGED <<stored, failed, budget, stock, refreshing, ticking, dialed>>

-----------------------------------------------------------------------------
(* What the user does; not before the settings and servers are on screen. *)
Acts(what) == Restored /\ May(what) /\ Spend(what) /\ MayCall

(* handleSelectProxy: a hop cannot also be the exit. *)
HandleSelectProxy(id) ==
    LET pruned == [shown EXCEPT !.chain = SelectSeq(@, LAMBDA h : h # id)]
        cs == IF shown.chain_on = 1 /\ id \in ToSet(shown.chain)
              THEN PostSave(calls, pruned, "save") ELSE calls
        d == profiles[SelectInSeq(profiles, LAMBDA p : p.id = id)].domain
    IN  /\ Acts("pick")
        /\ id \in Ids(profiles)
        /\ Select(Manual(d, id), profiles, shown, cs)
        /\ UNCHANGED <<stored, failed, stock, phase, refreshing, ticking, dialed>>

HandleSelectAuto ==
    /\ Acts("pick")
    /\ Select(AutoIn(selection.domain), profiles, shown, calls)
    /\ UNCHANGED <<stored, failed, stock, phase, refreshing, ticking, dialed>>

(* selectSource: a profile, or a subscription, where a pinned server of it stays. *)
SelectSource(source) ==
    /\ Acts("pick")
    /\ source \in Sources(profiles)
    /\ Select(CASE source[1] = "profile" -> Manual(Local, source[2])
                [] source[1] = "subscription" ->
                     IF selection.profileId \in Ids(InDomain(profiles, source[2]))
                     THEN [selection EXCEPT !.domain = source[2]] ELSE AutoIn(source[2]),
              profiles, shown, calls)
    /\ UNCHANGED <<stored, failed, stock, phase, refreshing, ticking, dialed>>

(* updateSetting, from any settings page. *)
UpdateSetting ==
    /\ Acts("edit")
    /\ PatchSettings([shown EXCEPT !.other = 1 - @])
    /\ UNCHANGED <<stored, failed, listVars>>

(* addToChain: hops go last; the connected exit cannot also be a hop. *)
AddToChain(ids) ==
    LET exit == IF selection.mode = "manual" THEN {selection.profileId} ELSE {}
        added == SelectSeq(profiles, LAMBDA p : p.id \in ids \ (exit \cup ToSet(shown.chain)))
    IN  /\ Acts("chain") /\ ids \subseteq Ids(profiles)
        /\ SendSave([shown EXCEPT !.chain = @ \o [i \in DOMAIN added |-> added[i].id], !.chain_on = 1], "save")
        /\ UNCHANGED <<shown, stored, failed, listVars>>

(* The calls that answer with the whole list: of a new profile, which goes in
   the place of a name, *)
AddProfile(p) ==
    /\ Acts("list") /\ p.id \notin Ids(stock)
    /\ ~\E c \in calls : c.kind = "add" /\ c.data.name = p
    /\ calls' = Posted(calls, "add", NoSettings, None, "add", [NoData EXCEPT !.name = p])
    /\ UNCHANGED <<shown, stored, failed, listVars>>

ImportSubscription(d) ==
    /\ Acts("list")
    /\ Send("import", NoSettings, d, "import")
    /\ UNCHANGED <<shown, stored, failed, listVars>>

(* updateProfile; setFavorites and updateSubscriptionUrl take the same way. *)
UpdateProfile(id, name) ==
    /\ Acts("list") /\ id \in Ids(profiles)
    /\ calls' = Posted(calls, "update", NoSettings, id, "list", [NoData EXCEPT !.name = name])
    /\ UNCHANGED <<shown, stored, failed, listVars>>

(* deleteProfiles and handleDeleteSources: the settings of the moment of the
   click are kept for the chain. *)
DeleteProfiles(ids) ==
    /\ Acts("list") /\ ids # {} /\ ids \subseteq Ids(profiles)
    /\ calls' = Posted(calls, "delete", shown, None, "delete", [NoData EXCEPT !.ids = ids])
    /\ UNCHANGED <<shown, stored, failed, listVars>>

HandleDeleteSources(sources) ==
    DeleteProfiles(UNION {ProfilesOf(profiles, s) : s \in sources \cap Sources(profiles)})

(* handleRefreshSources: one after another; data.rest is left to do. *)
HandleRefreshSources(domains) ==
    /\ Acts("refresh") /\ domains # <<>> /\ ToSet(domains) \subseteq DomainsOf(profiles) \ {Local}
    /\ calls' = Posted(calls, "refresh", NoSettings, domains[1], "hand", [NoData EXCEPT !.rest = Tail(domains)])
    /\ refreshing' = domains[1]
    /\ UNCHANGED <<shown, stored, failed, profiles, selection, stock, phase, ticking, dialed>>

(* tick: the subscriptions that are due, one after another, never twice at once. *)
Tick(domains) ==
    /\ May("tick") /\ Spend("tick") /\ MayCall /\ ~ticking
    /\ domains # <<>> /\ ToSet(domains) \subseteq DomainsOf(profiles) \ {Local}
    /\ calls' = Posted(calls, "refresh", NoSettings, domains[1], "tick", [NoData EXCEPT !.rest = Tail(domains)])
    /\ ticking' = TRUE
    /\ UNCHANGED <<shown, stored, failed, profiles, selection, stock, phase, refreshing, dialed>>

-----------------------------------------------------------------------------
(* Their answers. *)
AddHeard(c) ==
    /\ NextHeard(c) /\ c.then = "add"
    /\ IF c.ok THEN Select(Manual(Local, Last(c.data.list).id), c.data.list, shown, calls \ {c})
       ELSE calls' = calls \ {c} /\ UNCHANGED <<shown, profiles, selection>>
    /\ UNCHANGED <<stored, failed, budget, stock, phase, refreshing, ticking, dialed>>

SubscriptionHeard(c) ==
    /\ NextHeard(c) /\ c.then = "import"
    /\ IF c.ok THEN Select(Reconcile(c.data.list, AutoIn(c.id)), c.data.list, shown, calls \ {c})
       ELSE calls' = calls \ {c} /\ UNCHANGED <<shown, profiles, selection>>
    /\ UNCHANGED <<stored, failed, budget, stock, phase, refreshing, ticking, dialed>>

ListHeard(c) ==
    /\ NextHeard(c) /\ c.then = "list"
    /\ IF c.ok THEN Apply(c.data.list, shown, calls \ {c})
       ELSE calls' = calls \ {c} /\ UNCHANGED <<shown, profiles, selection>>
    /\ UNCHANGED <<stored, failed, budget, stock, phase, refreshing, ticking, dialed>>

(* A chain hop that no longer exists is pruned from the settings kept. *)
DeleteHeard(c) ==
    LET chain == SelectSeq(c.value.chain, LAMBDA h : h \in Ids(c.data.list))
        cs == IF chain # c.value.chain
              THEN PostSave(calls \ {c}, [c.value EXCEPT !.chain = chain], "save")
              ELSE calls \ {c}
    IN  /\ NextHeard(c) /\ c.then = "delete"
        /\ IF c.ok THEN Apply(c.data.list, shown, cs)
           ELSE calls' = calls \ {c} /\ UNCHANGED <<shown, profiles, selection>>
        /\ UNCHANGED <<stored, failed, budget, stock, phase, refreshing, ticking, dialed>>

(* refreshDomain: the fetch, then the list; then the next domain of the loop. *)
RefreshHeard(c) ==
    /\ NextHeard(c) /\ c.then \in {"hand", "tick"} /\ c.kind = "refresh" /\ c.ok
    /\ calls' = Posted(calls \ {c}, "profiles", NoSettings, None, c.then, [NoData EXCEPT !.rest = c.data.rest])
    /\ UNCHANGED <<shown, stored, failed, budget, listVars>>

RefreshedHeard(c) ==
    /\ NextHeard(c) /\ c.then \in {"hand", "tick"} /\ (c.kind = "profiles" \/ ~c.ok)
    /\ LET cs == IF c.data.rest = <<>> THEN calls \ {c}
                 ELSE Posted(calls \ {c}, "refresh", NoSettings, c.data.rest[1], c.then,
                             [NoData EXCEPT !.rest = Tail(c.data.rest)])
       IN  IF c.ok THEN Apply(c.data.list, shown, cs)
           ELSE calls' = cs /\ UNCHANGED <<shown, profiles, selection>>
    /\ refreshing' = IF c.then = "tick" THEN refreshing
                     ELSE IF c.data.rest = <<>> THEN None ELSE c.data.rest[1]
    /\ ticking' = (ticking /\ ~(c.then = "tick" /\ c.data.rest = <<>>))
    /\ UNCHANGED <<stored, failed, budget, stock, phase, dialed>>

ServerHeard(c) ==
    \/ StartSettingsHeard(c) \/ StartPushHeard(c) \/ StartPushedHeard(c) \/ StartProfilesHeard(c)
    \/ StartRefreshHeard(c) \/ StartLoadHeard(c)
    \/ AddHeard(c) \/ SubscriptionHeard(c) \/ ListHeard(c) \/ DeleteHeard(c)
    \/ RefreshHeard(c) \/ RefreshedHeard(c)
    \/ SettingsHeard(c) /\ UNCHANGED listVars

-----------------------------------------------------------------------------
ServerInit ==
    /\ SyncInit
    /\ stock \in FirstProfiles
    /\ profiles = <<>> /\ selection = EMPTY_SELECTION
    /\ phase = "settings" /\ refreshing = None /\ ticking = FALSE /\ dialed = EMPTY_SELECTION

(* The effect that starts start(), once. *)
Start ==
    /\ phase = "settings" /\ calls = {}
    /\ Send("settings", NoSettings, None, "start:settings")
    /\ UNCHANGED <<shown, stored, failed, budget, listVars>>

DomainLists == LET subs == KeepAt(DomainOrder, {i \in DOMAIN DomainOrder : DomainOrder[i] # Local})
               IN  {subs} \cup {<<d>> : d \in ToSet(subs)}

ServerUser ==
    \/ \E id \in Ids(profiles) : HandleSelectProxy(id)
    \/ HandleSelectAuto
    \/ \E source \in Sources(profiles) : SelectSource(source)
    \/ UpdateSetting
    \/ \E ids \in SUBSET Ids(profiles) : AddToChain(ids) \/ DeleteProfiles(ids)
    \/ \E sources \in SUBSET Sources(profiles) : HandleDeleteSources(sources)
    \/ \E p \in NewProfiles : AddProfile(p)
    \/ \E id \in Ids(profiles) : UpdateProfile(id, "renamed")
    \/ \E d \in DOMAIN Provided : ImportSubscription(d)
    \/ \E ds \in DomainLists : HandleRefreshSources(ds) \/ Tick(ds)

ServerNext ==
    \/ Start \/ ServerUser
    \/ \E c \in calls : ServerHeard(c)
    \/ ServeProfiles
    \/ ServeSettings /\ UNCHANGED listVars

(* startup runs, Go answers every call and the window takes every answer. *)
ServersServed == ServeProfiles \/ (ServeSettings /\ UNCHANGED listVars)
ServersHeard == \E c \in calls : ServerHeard(c)
ServerFairness == WF_serverVars(Start) /\ WF_serverVars(ServersServed) /\ WF_serverVars(ServersHeard)

ServerSpec == ServerInit /\ [][ServerNext]_serverVars /\ ServerFairness

-----------------------------------------------------------------------------
(* sel is a selection from this list: a domain of it, and a server there. *)
Selects(list, sel) ==
    list # <<>> =>
        /\ sel.domain \in DomainsOf(list)
        /\ sel.profileId # None => sel.profileId \in Ids(InDomain(list, sel.domain))
        /\ sel.mode = "manual" => sel.profileId # None

(***************************************************************************)
(* The selection is always of the list on screen: whatever the order in    *)
(* which refreshes, deletions, additions and the restored selection arrive,*)
(* its domain has servers, and a pinned server is one of them              *)
(* (reconcileSelection: "a subscription refresh can delete the server you  *)
(* had selected, and a delete can remove the whole configuration").        *)
(***************************************************************************)
SelectionExists == Selects(profiles, selection)

(***************************************************************************)
(* Once everything asked for has been answered, in order, the list on      *)
(* screen is Go's, whichever of the calls that change it overlapped.       *)
(***************************************************************************)
ListIsGos == (Quiet /\ phase = "done" /\ budget["inOrder"] = 1 /\ ~failed) => profiles = stock

(***************************************************************************)
(* What is selected is what the next start restores: after startup and     *)
(* after every change made while nothing else was on its way, the saved    *)
(* selection is the one on screen, its server's name included.             *)
(***************************************************************************)
PickRemembered ==
    (Quiet /\ Restored /\ budget["flight"] = 1 /\ ~failed) => stored.last = LastSelection(profiles, selection)

(* The app is starting, a card shows a spinner, or the timer waits for its own
   refresh. *)
ServersWait == phase # "done" \/ refreshing # None \/ ticking

(***************************************************************************)
(* "A hop cannot also be the exit" (handleSelectProxy), and a hop that no  *)
(* longer exists is pruned ("would fail the next connect with a confusing  *)
(* error", handleDeleteSources): once all is saved, in order.              *)
(***************************************************************************)
ChainFits ==
    (Quiet /\ Restored /\ ~failed /\ stored.chain_on = 1) =>
        /\ ToSet(stored.chain) \subseteq Ids(stock)
        /\ selection.mode = "manual" => selection.profileId \notin ToSet(stored.chain)

-----------------------------------------------------------------------------
(* The inductive invariants behind SelectionExists and ListIsGos. *)

(* A profile has an id and a domain that sortedDomains knows. *)
ProfileOK(p) ==
    /\ DOMAIN p = {"id", "domain", "name"}
    /\ p.id # None /\ p.domain \in Range(DomainOrder)
ProfilesOK(list) == IsList(list) /\ \A p \in Range(list) : ProfileOK(p)

(* Every domain but Local is one that can be fetched, a provider sends profiles
   and AddProfile makes a Local one. *)
ASSUME ProfilesGiven ==
    /\ IsList(DomainOrder)
    /\ \A d \in Range(DomainOrder) \ {Local} : d \in DOMAIN Provided
    /\ \A d \in DOMAIN Provided : \A sent \in Provided[d] :
          ProfilesOK(sent) /\ \A i \in DOMAIN sent : Minted[sent[i].id] # None
    /\ \A list \in FirstProfiles : ProfilesOK(list)
    /\ \A p \in NewProfiles : ProfileOK(p) /\ p.domain = Local

(* Which await continues with the answer to which call about the list. *)
ListCalls == {<<"add", "add">>, <<"import", "import">>, <<"update", "list">>, <<"delete", "delete">>,
              <<"refresh", "hand">>, <<"refresh", "tick">>, <<"profiles", "hand">>, <<"profiles", "tick">>,
              <<"profiles", "start:profiles">>, <<"profiles", "start:load">>, <<"refreshAll", "start:refresh">>}
ListKinds == Fetches \cup {"add", "update", "delete", "profiles"}
ListThens == {"add", "import", "list", "delete", "hand", "tick", "start:profiles", "start:refresh", "start:load"}
ListCallFits(c) == c.kind \in ListKinds \/ c.then \in ListThens => <<c.kind, c.then>> \in ListCalls

(* What a call carries: a list of profiles, the new one for "add", last in its
   answer, and domains that can be fetched. *)
CallCarries(c) ==
    /\ DOMAIN c = CallFields /\ DOMAIN c.data = DOMAIN NoData
    /\ ProfilesOK(c.data.list)
    /\ c.kind = "add" => ProfileOK(c.data.name) /\ c.data.name.domain = Local
    /\ c.kind = "add" /\ c.done /\ c.ok => c.data.list # <<>> /\ Last(c.data.list).domain = Local
    /\ c.kind \in {"import", "refresh"} => c.id \in DOMAIN Provided
    /\ IsList(c.data.rest) /\ Range(c.data.rest) \subseteq DOMAIN Provided

SelectionInv ==
    /\ ProfilesOK(stock) /\ ProfilesOK(profiles)
    /\ DOMAIN selection = DOMAIN EMPTY_SELECTION /\ Selects(profiles, selection)
    /\ \A c \in calls : ListCallFits(c) /\ CallCarries(c)

(* An answer that will replace the list on screen; a call or an answer after
   which it is loaded. *)
BringsList(c) ==
    /\ c.done /\ c.ok
    /\ c.then \in {"add", "import", "list", "delete", "start:profiles", "start:load"}
       \/ (c.then \in {"hand", "tick"} /\ c.kind = "profiles")
WillList(c) ==
    \/ ~c.done /\ c.kind = "profiles"
    \/ c.done /\ c.ok /\ c.kind \in {"refresh", "refreshAll"}
    \/ c.then \in {"start:push", "start:pushed"}
ListAgrees(cs, list, st) ==
    \/ \E c \in cs : WillList(c)
    \/ \E c \in cs : BringsList(c) /\ c.data.list = st /\ \A d \in cs : BringsList(d) => d.n <= c.n
    \/ list = st /\ \A d \in cs : ~BringsList(d)

(* Past its first call, start() is past its first phase. *)
ListInv ==
    /\ \A c \in calls : c.then \in {"start:push", "start:pushed", "start:profiles", "start:refresh", "start:load"} =>
                           phase # "settings"
    /\ budget["inOrder"] = 1 /\ ~failed /\ phase # "settings" => ListAgrees(calls, profiles, stock)

=============================================================================
