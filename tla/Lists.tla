------------------------------- MODULE Lists -------------------------------
(***************************************************************************)
(* The two card lists: the servers of a subscription (ProxiesView.tsx) and *)
(* the configurations (ConfigurationView.tsx), with picking several cards, *)
(* what is done to the picked ones, and folding a subscription's sections. *)
(* The lists come from outside and change while cards are picked and while *)
(* a bulk operation is awaited.                                            *)
(***************************************************************************)
EXTENDS Naturals, Sequences, FiniteSets, SequencesExt, Sublists

CONSTANTS
    Tours,          \* the scenarios: first state, and bounds of "strokes"
    GroupOf,        \* a server's section, "" for none
    PingOf,         \* a server's ping
    NameOrder,      \* the servers by name
    FilterAbove     \* a list longer than this has filters (3 in the code)

(* A scenario has a list for the subscription shown, and one of the sources. *)
ASSUME ToursAssumption ==
    \A tour \in Tours : /\ {"sources", tour.domain} \subseteq DOMAIN tour.rows /\ tour.domain # "sources"
                        /\ \A l \in DOMAIN tour.rows : IsList(tour.rows[l])

VARIABLES
    screen,     \* "servers" or "sources": the view that is mounted
    rows,       \* the servers of each domain, and the sources: list name -> keys
    stars,      \* servers marked favorite
    filter,     \* domain, sort, starredOnly, query (the matching keys, or All)
    pick,       \* the view's mount, selecting, picked, anchor, confirm, busy
    bulk,       \* bulk operations under way
    folds,      \* sections folded: on screen, and in localStorage by domain
    strokes     \* what is left of the bounds

selectingVars == <<screen, rows, stars, filter, pick, bulk, folds, strokes>>

Stroke(what) == strokes[what] > 0 /\ strokes' = [strokes EXCEPT ![what] = @ - 1]
All == {"*"}
Place(list, key) == CHOOSE i \in DOMAIN list : list[i] = key
Remaining(list, keys) == KeepAt(list, {i \in DOMAIN list : list[i] \notin keys})

-----------------------------------------------------------------------------
(* What the lists show. *)

(* The order of shown: starred servers first whatever the sort, equal pings in
   the order of the list. *)
SortBefore(a, b) ==
    LET place(key) == Place(rows[filter.domain], key)
        sorted == CASE filter.sort = "name" -> Place(NameOrder, a) < Place(NameOrder, b)
                    [] filter.sort = "ping" -> \/ PingOf[a] < PingOf[b]
                                               \/ PingOf[a] = PingOf[b] /\ place(a) < place(b)
                    [] OTHER -> place(a) < place(b)
    IN  (a \in stars /\ b \notin stars) \/ ((a \in stars <=> b \in stars) /\ sorted)

(* shown: the servers that pass the filters. *)
ShownServers ==
    {i \in ToSet(rows[filter.domain]) : (filter.starred => i \in stars) /\ (filter.query = All \/ i \in filter.query)}
Cards == IF screen = "servers" THEN ShownServers ELSE ToSet(rows["sources"])
CardBefore(a, b) == IF screen = "servers" THEN SortBefore(a, b) ELSE Place(rows["sources"], a) < Place(rows["sources"], b)
Present == IF screen = "servers" THEN ToSet(rows[filter.domain]) ELSE ToSet(rows["sources"])

(* A card in a folded section is there but inert; a search unfolds it. *)
Clickable(key) ==
    /\ key \in Cards
    /\ screen = "servers" => filter.query # All \/ GroupOf[key] \notin folds.shown

-----------------------------------------------------------------------------
(* Picking. *)

Unpicked(n) == [mount |-> n, selecting |-> FALSE, picked |-> {}, anchor |-> "", confirm |-> FALSE, busy |-> FALSE]
StopSelecting(p) == [p EXCEPT !.selecting = FALSE, !.picked = {}, !.anchor = ""]

(* What disappeared leaves the selection. *)
Pruned(p, present) == [p EXCEPT !.picked = @ \cap present]

(* The part of handleCard that picks: with Shift, everything from the anchor
   to the card; otherwise the card itself, in or out. *)
Picked(p, key, range) ==
    LET between == {c \in Cards : \E low, high \in {p.anchor, key} : ~CardBefore(c, low) /\ ~CardBefore(high, c)}
    IN  IF range /\ p.anchor \in Cards
        THEN [p EXCEPT !.selecting = TRUE, !.picked = @ \cup between]
        ELSE [p EXCEPT !.selecting = TRUE, !.anchor = key,
                       !.picked = IF key \in @ THEN @ \ {key} ELSE @ \cup {key}]

(* handleCard of the servers: a plain click outside selection is not a pick. *)
HandleCard(key, range) ==
    /\ screen = "servers" /\ Stroke("click") /\ Clickable(key) /\ ~pick.confirm
    /\ pick' = Picked(pick, key, range)
    /\ UNCHANGED <<screen, rows, stars, filter, bulk, folds>>

HandleSourceCard(key, range) ==
    /\ screen = "sources" /\ Stroke("click") /\ Clickable(key) /\ ~pick.confirm
    /\ pick' = Picked(pick, key, range)
    /\ UNCHANGED <<screen, rows, stars, filter, bulk, folds>>

(* Ctrl+A, and the toolbar's All or None. *)
PickAll ==
    /\ screen = "servers" /\ pick.selecting /\ ~pick.confirm /\ Stroke("click")
    /\ \/ pick' = [pick EXCEPT !.picked = Cards]
       \/ pick' = [pick EXCEPT !.picked = IF Cards # {} /\ Cards \subseteq pick.picked THEN {} ELSE Cards]
    /\ UNCHANGED <<screen, rows, stars, filter, bulk, folds>>

PickAllSources ==
    /\ screen = "sources" /\ pick.selecting /\ ~pick.confirm /\ Stroke("click")
    /\ \/ pick' = [pick EXCEPT !.picked = Cards]
       \/ pick' = [pick EXCEPT !.picked = IF Cards # {} /\ Cardinality(pick.picked) = Cardinality(Cards) THEN {} ELSE Cards]
    /\ UNCHANGED <<screen, rows, stars, filter, bulk, folds>>

(* The Select button, and Cancel or Escape. *)
StartSelecting == /\ ~pick.selecting /\ Cardinality(Present) > 1 /\ Stroke("click") /\ pick' = [pick EXCEPT !.selecting = TRUE]
          /\ UNCHANGED <<screen, rows, stars, filter, bulk, folds>>
CancelSelecting == /\ pick.selecting /\ ~pick.confirm /\ pick' = StopSelecting(pick)
                   /\ UNCHANGED <<screen, rows, stars, filter, bulk, folds, strokes>>

-----------------------------------------------------------------------------
(* What is done to the picked cards.  run sets busy and awaits the work. *)

Run(what) == /\ pick.selecting /\ ~pick.busy /\ Stroke("bulk")
             /\ pick' = [pick EXCEPT !.busy = TRUE]
             /\ bulk' = Append(bulk, [what |-> what, keys |-> pick.picked, mount |-> pick.mount])

(* The star on a card, which nothing waits for. *)
ToggleStar(key) ==
    /\ screen = "servers" /\ ~pick.selecting /\ ~pick.confirm /\ Clickable(key) /\ Stroke("bulk")
    /\ bulk' = Append(bulk, [what |-> IF key \in stars THEN "unstar" ELSE "star", keys |-> {key}, mount |-> 0])
    /\ UNCHANGED <<screen, rows, stars, filter, pick, folds>>

(* The servers' toolbar: test, star or unstar, add to the chain. *)
BulkServers ==
    /\ screen = "servers" /\ ~pick.confirm /\ pick.picked # {}
    /\ Run(IF pick.picked \subseteq stars THEN "unstar" ELSE "star") \/ Run("other")
    /\ UNCHANGED <<screen, rows, stars, filter, folds>>

(* The sources' toolbar: refresh, copy. *)
BulkSources ==
    /\ screen = "sources" /\ ~pick.confirm /\ pick.picked # {} /\ Run("other")
    /\ UNCHANGED <<screen, rows, stars, filter, folds>>

ConfirmDelete ==
    /\ pick.selecting /\ ~pick.confirm /\ ~pick.busy /\ pick.picked # {}
    /\ pick' = [pick EXCEPT !.confirm = TRUE]
    /\ UNCHANGED <<screen, rows, stars, filter, bulk, folds, strokes>>

CancelDelete ==
    /\ pick.confirm /\ pick' = [pick EXCEPT !.confirm = FALSE]
    /\ UNCHANGED <<screen, rows, stars, filter, bulk, folds, strokes>>

(* The dialog's Delete: what is picked by now, which the dialog counts. *)
BulkDelete == /\ pick.confirm /\ ~pick.busy /\ Stroke("bulk")
              /\ pick' = [pick EXCEPT !.busy = TRUE]
              /\ bulk' = Append(bulk, [what |-> "delete", keys |-> pick.picked, mount |-> pick.mount])
              /\ UNCHANGED <<screen, rows, stars, filter, folds>>

(* The work ends: the list it left is shown, and a delete ends the selecting.
   A view that was left meanwhile is not there to be told. *)
BulkEnds(k) ==
    /\ k \in DOMAIN bulk /\ bulk' = RemoveAt(bulk, k)
    /\ LET job == bulk[k]
           left == [l \in DOMAIN rows |-> Remaining(rows[l], job.keys)]
           done == IF job.mount # pick.mount THEN pick ELSE [pick EXCEPT !.busy = FALSE]
       IN  \/ /\ job.what = "delete" /\ rows' = left /\ stars' = stars \ job.keys
              /\ pick' = Pruned(IF job.mount # pick.mount THEN pick ELSE [StopSelecting(done) EXCEPT !.confirm = FALSE],
                                Present \ job.keys)
           \/ /\ job.what \in {"star", "unstar"} /\ pick' = done /\ UNCHANGED rows
              /\ stars' = IF job.what = "star" THEN stars \cup job.keys ELSE stars \ job.keys
           \/ /\ job.what = "other" /\ pick' = done /\ UNCHANGED <<rows, stars>>
    /\ UNCHANGED <<screen, filter, folds, strokes>>

-----------------------------------------------------------------------------
(* The rest of the views. *)

(* localStorage: the sections folded, by subscription. *)
LoadCollapsed(domain) == folds.stored[domain]
SaveCollapsed(domain, groups) == [folds.stored EXCEPT ![domain] = groups]

(* A refresh, or a delete from elsewhere, replaces a list. *)
ListChanges(l, gone) ==
    /\ Stroke("change") /\ l \in DOMAIN rows
    /\ rows' = [rows EXCEPT ![l] = Remaining(@, {gone})]
    /\ stars' = stars \ {gone}
    /\ pick' = Pruned(pick, Present \ (IF l = (IF screen = "servers" THEN filter.domain ELSE "sources") THEN {gone} ELSE {}))
    /\ UNCHANGED <<screen, filter, bulk, folds>>

(* Mutant: the picks of the list that was shown stay. *)
DomainChangesKeepsPicks(domain) ==
    /\ Stroke("domain") /\ domain # filter.domain /\ domain \in DOMAIN rows \ {"sources"}
    /\ filter' = [filter EXCEPT !.domain = domain]
    /\ folds' = [folds EXCEPT !.shown = LoadCollapsed(domain)]
    /\ UNCHANGED <<screen, rows, stars, pick, bulk>>

(* Another configuration is selected: the servers shown are another list. *)
DomainChanges(domain) ==
    /\ Stroke("domain") /\ domain # filter.domain /\ domain \in DOMAIN rows \ {"sources"}
    /\ filter' = [filter EXCEPT !.domain = domain]
    /\ pick' = IF screen = "servers" THEN [pick EXCEPT !.selecting = FALSE, !.picked = {}] ELSE pick
    /\ folds' = [folds EXCEPT !.shown = LoadCollapsed(domain)]
    /\ UNCHANGED <<screen, rows, stars, bulk>>

(* Another tab and back: the view mounts anew; its filters are remembered. *)
ShowView(s) ==
    /\ Stroke("domain") /\ s # screen /\ ~pick.confirm
    /\ screen' = s /\ pick' = Unpicked(pick.mount + 1) /\ folds' = [folds EXCEPT !.shown = LoadCollapsed(filter.domain)]
    /\ UNCHANGED <<rows, stars, filter, bulk>>

(* Search, Starred, and the order. *)
Filter(field, value) ==
    /\ screen = "servers" /\ ~pick.confirm /\ Cardinality(Present) > FilterAbove /\ Stroke("filter")
    /\ filter' = [filter EXCEPT ![field] = value]
    /\ UNCHANGED <<screen, rows, stars, pick, bulk, folds>>

(* toggleGroup. *)
ToggleGroup(name) ==
    /\ screen = "servers" /\ ~pick.confirm /\ Stroke("fold")
    /\ \E i \in Cards : GroupOf[i] = name /\ name # ""
    /\ LET next == IF name \in folds.shown THEN folds.shown \ {name} ELSE folds.shown \cup {name}
       IN  folds' = [shown |-> next, stored |-> SaveCollapsed(filter.domain, next)]
    /\ UNCHANGED <<screen, rows, stars, filter, pick, bulk>>

ListInit ==
    /\ \E tour \in Tours :
        /\ screen = tour.screen /\ rows = tour.rows /\ stars = tour.stars /\ strokes = tour.strokes
        /\ filter = [domain |-> tour.domain, sort |-> "list", starred |-> FALSE, query |-> All]
        /\ folds = [shown |-> {}, stored |-> [d \in DOMAIN tour.rows \ {"sources"} |-> {}]]
    /\ pick = Unpicked(1) /\ bulk = <<>>

ListNext ==
    \/ \E key \in Cards, range \in BOOLEAN : HandleCard(key, range) \/ HandleSourceCard(key, range)
    \/ PickAll \/ PickAllSources \/ StartSelecting \/ CancelSelecting
    \/ \E key \in Cards : ToggleStar(key)
    \/ BulkServers \/ BulkSources \/ ConfirmDelete \/ CancelDelete \/ BulkDelete
    \/ \E k \in DOMAIN bulk : BulkEnds(k)
    \/ \E l \in DOMAIN rows : \E gone \in ToSet(rows[l]) : ListChanges(l, gone)
    \/ \E d \in DOMAIN rows : DomainChanges(d)
    \/ \E s \in {"servers", "sources"} : ShowView(s)
    \/ \E s \in {"name", "ping"} : Filter("sort", s)
    \/ \E i \in DOMAIN GroupOf : Filter("query", {i})
    \/ Filter("starred", ~filter.starred)
    \/ \E i \in DOMAIN GroupOf : ToggleGroup(GroupOf[i])

ListSpec == ListInit /\ [][ListNext]_selectingVars

-----------------------------------------------------------------------------
(* What is picked is in the list, and nothing stays picked once selecting is
   over: a bulk delete never reaches a server that was picked for an earlier
   one, in another list or on another screen (the effects of both views). *)
PicksAreCurrent == pick.picked \subseteq Present /\ (~pick.selecting => pick.picked = {})

(* A view awaits one bulk operation at a time: the toolbar and the delete
   dialog are disabled while one runs (run and busy).  A view that is left and
   shown again is a new one, and does not know of the earlier one's work. *)
BulkAlone == Cardinality({k \in DOMAIN bulk : bulk[k].mount = pick.mount}) <= 1

(* The sections folded on screen are those kept for the subscription shown,
   over changes of subscription and of screen: folding one never folds
   another's (loadCollapsed, saveCollapsed, and the effect on domain). *)
FoldsAreOwn == screen = "servers" => folds.shown = folds.stored[filter.domain]

(***************************************************************************)
(* What is done to the picked cards reaches the cards picked in the list   *)
(* on screen, one operation at a time, and sections fold on their own.     *)
(***************************************************************************)
PicksHold == PicksAreCurrent /\ BulkAlone /\ FoldsAreOwn

-----------------------------------------------------------------------------
(* The inductive invariant behind PicksHold. *)

PickFields == {"mount", "selecting", "picked", "anchor", "confirm", "busy"}
ListTypes ==
    /\ "sources" \in DOMAIN rows /\ \A l \in DOMAIN rows : IsList(rows[l])
    /\ DOMAIN filter = {"domain", "sort", "starred", "query"} /\ filter.domain \in DOMAIN rows \ {"sources"}
    /\ DOMAIN pick = PickFields /\ pick.mount \in Nat \ {0}
    /\ pick.selecting \in BOOLEAN /\ pick.busy \in BOOLEAN /\ pick.confirm \in BOOLEAN
    /\ IsList(bulk) /\ \A k \in DOMAIN bulk : bulk[k].mount \in Nat
    /\ DOMAIN folds = {"shown", "stored"} /\ DOMAIN folds.stored = DOMAIN rows \ {"sources"}

(* busy says whether an operation of this mount is under way: there is one at
   most, none while the toolbar is enabled, and none of a mount to come. *)
BusyInv ==
    /\ \A k \in DOMAIN bulk : bulk[k].mount <= pick.mount /\ (bulk[k].mount = pick.mount => pick.busy)
    /\ \A j, k \in DOMAIN bulk : bulk[j].mount = pick.mount /\ bulk[k].mount = pick.mount => j = k

PicksInv == ListTypes /\ BusyInv /\ PicksAreCurrent /\ FoldsAreOwn

=============================================================================
