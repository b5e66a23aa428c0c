---------------------------- MODULE RoutingProofs ---------------------------
(***************************************************************************)
(* For every set of first settings, rules, servers, setups and bounds:     *)
(* every wire on the routing canvas ends at a node, and no setup's graph   *)
(* is ever written into another, whatever saves, switches, events and      *)
(* answers are under way and in whatever order they arrive.                *)
(*                                                                         *)
(* RoutingInv is the inductive invariant.  ShapesInv says of every copy of *)
(* a graph (on screen, in Go, in calls, in the history, in the import)     *)
(* that it is one the editor could have made; OwnInv that it belongs to    *)
(* the setup it would be written into; SwitcherInv, what the setup menu    *)
(* waits for, is needed where a deletion drops a setup from an answer.     *)
(*                                                                         *)
(* The last part is about a rule's card: for any cards, conditions, values *)
(* and texts, what is typed or picked lands where it was meant.  CardInv   *)
(* is its inductive invariant.                                             *)
(***************************************************************************)
EXTENDS RoutingEditor, RuleCard, SublistProofs

(* The edits.  e is a valid graph of the setup g is of. *)
Same(g, e) == GraphOK(e) /\ e.of = g.of

(* The graph of a new setup, and the one an import brings. *)
LEMMA EmptyGraphOK ==
    ASSUME NEW of
    PROVE  /\ GraphOK(EmptyGraph(of)) /\ EmptyGraph(of).of = of
           /\ GraphOK(ImportedGraph(of)) /\ ImportedGraph(of).of = of
BY EmptyIsList DEF GraphOK, EmptyGraph, ImportedGraph, GraphFields, Actions, None

(* A copy made for another setup (CreateSetup). *)
LEMMA RelabelledOK ==
    ASSUME NEW g, GraphOK(g), NEW x
    PROVE  GraphOK([g EXCEPT !.of = x]) /\ [g EXCEPT !.of = x].of = x
BY DEF GraphOK, GraphFields

(* A graph with other rules, as long as they are valid and told apart. *)
LEMMA RulesReplaced ==
    ASSUME NEW g, GraphOK(g), NEW rs, IsList(rs), Distinct(rs), \A r \in Range(rs) : RuleOK(r)
    PROVE  Same(g, [g EXCEPT !.rules = rs])
BY DEF GraphOK, GraphFields, Same

(* Places, notes and placed servers are no part of what is valid. *)
LEMMA RestReplaced ==
    ASSUME NEW g, GraphOK(g), NEW x
    PROVE  /\ Same(g, [g EXCEPT !.layout = x])
           /\ Same(g, [g EXCEPT !.comments = x])
           /\ Same(g, [g EXCEPT !.servers = x])
BY DEF GraphOK, GraphFields, Same

(* The catch-all wired to another destination. *)
LEMMA DefaultReplaced ==
    ASSUME NEW g, GraphOK(g), NEW a \in Actions, NEW d, d # None => a = "proxy"
    PROVE  Same(g, [g EXCEPT !.default_action = a, !.default_server = d])
BY DEF GraphOK, GraphFields, Same

(* Rules changed in place, each keeping its id (updateRule and its like). *)
LEMMA RulesMapped ==
    ASSUME NEW g, GraphOK(g), NEW rs, rs = [i \in DOMAIN g.rules |-> rs[i]],
           \A i \in DOMAIN g.rules : RuleOK(rs[i]) /\ rs[i].id = g.rules[i].id
    PROVE  Same(g, [g EXCEPT !.rules = rs])
<1>1. DOMAIN g.rules = 1 .. Len(g.rules) /\ Len(g.rules) \in Nat
  BY ListFacts DEF GraphOK
<1>2. IsList(rs) /\ Len(rs) = Len(g.rules)
  BY <1>1, MapIsList
<1>3. Distinct(rs)
  BY DistinctSame DEF GraphOK
<1>4. \A r \in Range(rs) : RuleOK(r)
  BY DEF Range
<1> QED BY <1>2, <1>3, <1>4, RulesReplaced

(* A rule of a valid graph is valid. *)
LEMMA RulesAreOK ==
    ASSUME NEW g, GraphOK(g), NEW i \in DOMAIN g.rules
    PROVE  g.rules[i] \in Range(g.rules) /\ RuleOK(g.rules[i])
BY DEF GraphOK, Range

(* A rule wired to a destination, or cut off from one. *)
LEMMA UpdateRuleOK ==
    ASSUME NEW g, GraphOK(g), NEW id, NEW a \in Actions \cup {None}, NEW d, d # None => a = "proxy"
    PROVE  Same(g, UpdateRule(g, id, a, d))
<1> DEFINE rs == [i \in DOMAIN g.rules |->
                    IF g.rules[i].id = id THEN [g.rules[i] EXCEPT !.action = a, !.server = d]
                    ELSE g.rules[i]]
<1>1. \A i \in DOMAIN g.rules : RuleOK(rs[i]) /\ rs[i].id = g.rules[i].id
  BY RulesAreOK DEF RuleOK, RuleFields
<1>2. rs = [i \in DOMAIN g.rules |-> rs[i]] OBVIOUS
<1>3. UpdateRule(g, id, a, d) = [g EXCEPT !.rules = rs]
  BY DEF UpdateRule, MapRules
<1> HIDE DEF rs
<1> QED BY <1>1, <1>2, <1>3, RulesMapped

(* A rule's entries edited in its card. *)
LEMMA EditRuleOK ==
    ASSUME NEW g, GraphOK(g), NEW id
    PROVE  Same(g, EditRule(g, id))
<1> DEFINE rs == [i \in DOMAIN g.rules |->
                    IF g.rules[i].id = id THEN [g.rules[i] EXCEPT !.values = 1 - @]
                    ELSE g.rules[i]]
<1>1. \A i \in DOMAIN g.rules : RuleOK(rs[i]) /\ rs[i].id = g.rules[i].id
  BY RulesAreOK DEF RuleOK, RuleFields
<1>2. rs = [i \in DOMAIN g.rules |-> rs[i]] OBVIOUS
<1>3. EditRule(g, id) = [g EXCEPT !.rules = rs]
  BY DEF EditRule, MapRules
<1> HIDE DEF rs
<1> QED BY <1>1, <1>2, <1>3, RulesMapped

(* Rules removed. *)
LEMMA RulesWithoutOK ==
    ASSUME NEW g, GraphOK(g), NEW gone
    PROVE  Same(g, [g EXCEPT !.rules = RulesWithout(g, gone)])
<1>1. /\ IsList(RulesWithout(g, gone)) /\ Distinct(RulesWithout(g, gone))
      /\ Range(RulesWithout(g, gone)) \subseteq Range(g.rules)
  <2> DEFINE at == {i \in DOMAIN g.rules : g.rules[i].id \notin gone}
  <2>1. IsList(g.rules) /\ Distinct(g.rules) BY DEF GraphOK
  <2>2. \A i \in 1 .. Len(g.rules) : g.rules[i] \in Range(g.rules) BY <2>1, ListFacts
  <2> HIDE DEF at
  <2>3. /\ IsList(KeepAt(g.rules, at)) /\ Distinct(KeepAt(g.rules, at))
        /\ Range(KeepAt(g.rules, at)) = {g.rules[i] : i \in at \cap (1 .. Len(g.rules))}
    BY <2>1, KeepAtList
  <2> QED BY <2>2, <2>3 DEF RulesWithout, at
<1>2. \A r \in Range(RulesWithout(g, gone)) : RuleOK(r)
  BY <1>1 DEF GraphOK
<1> QED BY <1>1, <1>2, RulesReplaced

(* Servers taken off the canvas: what went through them goes to the connected one. *)
LEMMA ForgetServersOK ==
    ASSUME NEW g, GraphOK(g), NEW gone
    PROVE  Same(g, ForgetServers(g, gone))
<1> DEFINE rs == [i \in DOMAIN g.rules |->
                    IF g.rules[i].server \in gone THEN [g.rules[i] EXCEPT !.server = None]
                    ELSE g.rules[i]]
           h == [g EXCEPT !.rules = rs]
<1>1. \A i \in DOMAIN g.rules : RuleOK(rs[i]) /\ rs[i].id = g.rules[i].id
  BY RulesAreOK DEF RuleOK, RuleFields
<1>2. rs = [i \in DOMAIN g.rules |-> rs[i]] OBVIOUS
<1> HIDE DEF rs
<1>3. Same(g, h)
  BY <1>1, <1>2, RulesMapped
<1>4. ForgetServers(g, gone) =
        [h EXCEPT !.servers = ServerIds(g) \ gone,
                  !.default_server = IF h.default_server \in gone THEN None ELSE h.default_server]
  BY DEF ForgetServers, MapRules, rs
<1> HIDE DEF h
<1>5. ASSUME NEW sv, NEW d, d # None => d = h.default_server
      PROVE  Same(h, [h EXCEPT !.servers = sv, !.default_server = d])
  BY <1>3, <1>5 DEF GraphOK, GraphFields, Same
<1>6. Same(h, ForgetServers(g, gone))
  <2> DEFINE sv == ServerIds(g) \ gone
             d == IF h.default_server \in gone THEN None ELSE h.default_server
  <2>1. d # None => d = h.default_server OBVIOUS
  <2>2. ForgetServers(g, gone) = [h EXCEPT !.servers = sv, !.default_server = d] BY <1>4
  <2> HIDE DEF sv, d
  <2>3. Same(h, [h EXCEPT !.servers = sv, !.default_server = d]) BY <1>5, <2>1
  <2> QED BY <2>2, <2>3
<1> QED BY <1>3, <1>6 DEF Same

(* Edits made one after another. *)
LEMMA SameTrans ==
    ASSUME NEW g, NEW h, NEW e, Same(g, h), Same(h, e)
    PROVE  Same(g, e)
BY DEF Same

(* A server removed by its own button. *)
LEMMA RemoveServerOK ==
    ASSUME NEW g, GraphOK(g), NEW id
    PROVE  Same(g, RemoveServer(g, id))
<1> DEFINE h == ForgetServers(g, {id})
<1>1. Same(g, h) BY ForgetServersOK
<1>2. RemoveServer(g, id) = [h EXCEPT !.layout = Omit(h.layout, {id})] BY DEF RemoveServer
<1> HIDE DEF h
<1>3. GraphOK(h) BY <1>1 DEF Same
<1>4. Same(h, RemoveServer(g, id)) BY <1>2, <1>3, RestReplaced
<1> QED BY <1>1, <1>4, SameTrans

(* Delete or Backspace: rules, notes, wires and servers in one change. *)
LEMMA RemoveSelectedOK ==
    ASSUME NEW g, GraphOK(g), NEW selected, NEW cut
    PROVE  Same(g, RemoveSelected(g, selected, cut))
<1> DEFINE gone == ServerIds(g) \cap selected
           k1 == [g EXCEPT !.rules = RulesWithout(g, selected)]
           k2 == [k1 EXCEPT !.comments = Omit(g.comments, selected)]
           k3 == [k2 EXCEPT !.layout = Omit(g.layout, selected)]
           rs == [i \in DOMAIN k3.rules |->
                    IF k3.rules[i].id \in cut THEN [k3.rules[i] EXCEPT !.action = None, !.server = None]
                    ELSE k3.rules[i]]
           w == [k3 EXCEPT !.rules = rs]
           f == ForgetServers(w, gone)
<1>1. DOMAIN g = GraphFields BY DEF GraphOK
<1>2. k3 = [g EXCEPT !.rules = RulesWithout(g, selected),
                     !.comments = Omit(g.comments, selected),
                     !.layout = Omit(g.layout, selected)]
  BY <1>1 DEF GraphFields
<1>3. RemoveSelected(g, selected, cut) = [f EXCEPT !.servers = ServerIds(g) \ gone]
  BY <1>2 DEF RemoveSelected, MapRules
<1>4. Same(g, k1) BY RulesWithoutOK
<1> HIDE DEF k1
<1>5. Same(k1, k2)
  <2>1. GraphOK(k1) BY <1>4 DEF Same
  <2> QED BY <2>1, RestReplaced
<1> HIDE DEF k2
<1>6. Same(k2, k3)
  <2>1. GraphOK(k2) BY <1>5 DEF Same
  <2> QED BY <2>1, RestReplaced
<1> HIDE DEF k3
<1>7. GraphOK(k3) BY <1>6 DEF Same
<1>8. \A i \in DOMAIN k3.rules : RuleOK(rs[i]) /\ rs[i].id = k3.rules[i].id
  BY <1>7, RulesAreOK DEF RuleOK, RuleFields
<1>9. rs = [i \in DOMAIN k3.rules |-> rs[i]] OBVIOUS
<1> HIDE DEF rs
<1>10. Same(k3, w) BY <1>7, <1>8, <1>9, RulesMapped
<1> HIDE DEF w
<1>11. Same(w, f) BY <1>10, ForgetServersOK DEF Same
<1> HIDE DEF f
<1>12. Same(f, RemoveSelected(g, selected, cut))
  <2>1. GraphOK(f) BY <1>11 DEF Same
  <2> DEFINE sv == ServerIds(g) \ gone
  <2>2. RemoveSelected(g, selected, cut) = [f EXCEPT !.servers = sv] BY <1>3
  <2> HIDE DEF sv
  <2> QED BY <2>1, <2>2, RestReplaced
<1> QED BY <1>4, <1>5, <1>6, <1>10, <1>11, <1>12 DEF Same

(* What is added gets a place of its own. *)
LEMMA PlacedOK ==
    ASSUME NEW g, GraphOK(g), NEW id
    PROVE  Same(g, Placed(g, id))
BY RestReplaced DEF Placed

(* A new rule is valid. *)
LEMMA NewRuleOK ==
    ASSUME NEW id, NEW a \in Actions
    PROVE  RuleOK(NewRule(id, a)) /\ NewRule(id, a).id = id
BY DEF RuleOK, RuleFields, NewRule, None

(* A rule with a fresh id, before or after the others. *)
LEMMA AddedOK ==
    ASSUME NEW g, GraphOK(g), NEW r, RuleOK(r), r.id \notin RuleSeqIds(g.rules)
    PROVE  /\ Same(g, [g EXCEPT !.rules = Append(g.rules, r)])
           /\ Same(g, [g EXCEPT !.rules = <<r>> \o g.rules])
           /\ Same(g, [g EXCEPT !.rules = g.rules \o <<r>>])
<1>1. IsList(g.rules) /\ Distinct(g.rules) /\ \A x \in Range(g.rules) : RuleOK(x)
  BY DEF GraphOK
<1>2. \A x \in Range(g.rules) : x.id # r.id
  BY DEF RuleSeqIds, Range
<1>3. Same(g, [g EXCEPT !.rules = Append(g.rules, r)])
  <2>1. IsList(Append(g.rules, r)) /\ \A x \in Range(Append(g.rules, r)) : RuleOK(x)
    BY <1>1, AppendList
  <2>2. Distinct(Append(g.rules, r)) BY <1>1, <1>2, DistinctAppend
  <2> QED BY <2>1, <2>2, RulesReplaced
<1>4. Same(g, [g EXCEPT !.rules = <<r>> \o g.rules])
  <2>1. IsList(<<r>> \o g.rules) /\ \A x \in Range(<<r>> \o g.rules) : RuleOK(x)
    BY <1>1, OneList, ConcatList
  <2>2. Distinct(<<r>> \o g.rules) BY <1>1, <1>2, DistinctPrepend
  <2> QED BY <2>1, <2>2, RulesReplaced
<1>5. g.rules \o <<r>> = Append(g.rules, r)
  <2> DEFINE S == Range(g.rules) \cup {r}
  <2>1. g.rules \in Seq(S) /\ r \in S BY <1>1, SeqMonotonic DEF IsList
  <2> HIDE DEF S
  <2> QED BY <2>1, AppendIsConcat
<1> QED BY <1>3, <1>4, <1>5

(* A source added from the palette. *)
LEMMA AddSourceOK ==
    ASSUME NEW g, GraphOK(g), NEW id, id \notin RuleSeqIds(g.rules)
    PROVE  Same(g, AddSource(g, id))
<1> DEFINE r == NewRule(id, "proxy")
           h == [g EXCEPT !.rules = Append(g.rules, r)]
<1>1. RuleOK(r) /\ r.id = id BY NewRuleOK DEF Actions
<1>2. AddSource(g, id) = Placed(h, id) BY DEF AddSource
<1> HIDE DEF r
<1>3. Same(g, h) BY <1>1, AddedOK
<1> HIDE DEF h
<1> QED BY <1>2, <1>3, PlacedOK, SameTrans DEF Same

(* A preset added before or after the rules. *)
LEMMA AddPresetOK ==
    ASSUME NEW g, GraphOK(g), NEW id, id \notin RuleSeqIds(g.rules), NEW preset \in PRESETS
    PROVE  Same(g, AddPreset(g, id, preset))
<1> DEFINE r == NewRule(id, preset.action)
           h == [g EXCEPT !.rules = IF preset.placement = "first" THEN <<r>> \o g.rules ELSE g.rules \o <<r>>]
<1>1. preset.action \in Actions BY DEF PRESETS, Actions
<1>2. RuleOK(r) /\ r.id = id BY <1>1, NewRuleOK
<1>3. AddPreset(g, id, preset) = Placed(h, id) BY DEF AddPreset
<1> HIDE DEF r
<1>4. Same(g, h)
  <2>1. CASE preset.placement = "first"
    <3>1. h = [g EXCEPT !.rules = <<r>> \o g.rules] BY <2>1
    <3> HIDE DEF h
    <3> QED BY <3>1, <1>2, AddedOK
  <2>2. CASE preset.placement # "first"
    <3>1. h = [g EXCEPT !.rules = g.rules \o <<r>>] BY <2>2
    <3> HIDE DEF h
    <3> QED BY <3>1, <1>2, AddedOK
  <2> QED BY <2>1, <2>2
<1> HIDE DEF h
<1> QED BY <1>3, <1>4, PlacedOK, SameTrans DEF Same

(* A note or a server added from the palette. *)
LEMMA AddNoteOK ==
    ASSUME NEW g, GraphOK(g), NEW id
    PROVE  Same(g, AddNote(g, id)) /\ Same(g, AddServer(g, id))
<1> DEFINE h == [g EXCEPT !.comments = With(g.comments, id, 0)]
           k == [g EXCEPT !.servers = ServerIds(g) \cup {id}]
<1>1. AddNote(g, id) = Placed(h, id) /\ AddServer(g, id) = Placed(k, id) BY DEF AddNote, AddServer
<1>2. Same(g, h) /\ Same(g, k) BY RestReplaced
<1> HIDE DEF h, k
<1>3. Same(h, Placed(h, id)) /\ Same(k, Placed(k, id)) BY <1>2, PlacedOK DEF Same
<1> QED BY <1>1, <1>2, <1>3 DEF Same

(* A rule moved up or down. *)
LEMMA MoveRuleOK ==
    ASSUME NEW g, GraphOK(g), NEW i \in DOMAIN g.rules, NEW j \in DOMAIN g.rules
    PROVE  Same(g, MoveRule(g, i, j))
<1> DEFINE rs == InsertAt(RemoveAt(g.rules, i), j, g.rules[i])
<1>1. IsList(g.rules) /\ Distinct(g.rules) /\ \A x \in Range(g.rules) : RuleOK(x)
  BY DEF GraphOK
<1>2. IsList(rs) /\ Distinct(rs) /\ Range(rs) \subseteq Range(g.rules)
  BY <1>1, MoveList
<1>3. MoveRule(g, i, j) = [g EXCEPT !.rules = rs] BY DEF MoveRule
<1> HIDE DEF rs
<1> QED BY <1>1, <1>2, <1>3, RulesReplaced

(* Nodes moved and resized, notes edited and removed. *)
LEMMA LayoutOK ==
    ASSUME NEW g, GraphOK(g), NEW id
    PROVE  /\ Same(g, ResizeNode(g, id)) /\ Same(g, MoveNode(g, id))
           /\ Same(g, ResetNodeSize(g, id))
           /\ Same(g, UpdateComment(g, id)) /\ Same(g, RemoveComment(g, id))
<1>1. Same(g, ResizeNode(g, id)) BY RestReplaced DEF ResizeNode
<1>2. Same(g, MoveNode(g, id)) BY RestReplaced DEF MoveNode
<1>3. Same(g, ResetNodeSize(g, id)) BY RestReplaced DEF ResetNodeSize
<1>4. Same(g, UpdateComment(g, id)) BY RestReplaced DEF UpdateComment
<1>5. Same(g, RemoveComment(g, id))
  <2> DEFINE h == [g EXCEPT !.comments = Omit(g.comments, {id})]
             x == Omit(g.layout, {id})
  <2>1. RemoveComment(g, id) = [h EXCEPT !.layout = x] BY DEF RemoveComment, GraphOK, GraphFields
  <2>2. Same(g, h) BY RestReplaced
  <2> HIDE DEF h, x
  <2>3. Same(h, [h EXCEPT !.layout = x]) BY <2>2, RestReplaced DEF Same
  <2> QED BY <2>1, <2>2, <2>3 DEF Same
<1> QED BY <1>1, <1>2, <1>3, <1>4, <1>5

(* Every edit the screen offers gives a graph of the same setup that
   normalizeRouting would leave alone. *)
LEMMA EditsOK ==
    ASSUME NEW g, GraphOK(g), NEW off
    PROVE  \A e \in CanvasEdits(g, off) \cup LayoutEdits(g, off) \cup CardEdits(g) : Same(g, e)
<1>1. \A e \in WireEdits(g, off) : Same(g, e)
  <2>1. \A t : ActionOf(t) \in Actions /\ (ServerOf(t) # None => ActionOf(t) = "proxy")
    BY DEF Actions, ActionOf, ServerOf
  <2>2. \A id, t : Same(g, UpdateRule(g, id, ActionOf(t), ServerOf(t)))
    BY <2>1, UpdateRuleOK
  <2>3. \A t : Same(g, [g EXCEPT !.default_action = ActionOf(t), !.default_server = ServerOf(t)])
    BY <2>1, DefaultReplaced
  <2> DEFINE Default(t) == [g EXCEPT !.default_action = ActionOf(t), !.default_server = ServerOf(t)]
             T == ActionNodes(g, off) \cup ServerIds(g)
  <2>4. WireEdits(g, off) =
          {UpdateRule(g, id, ActionOf(t), ServerOf(t)) : id \in RuleSeqIds(g.rules), t \in T}
          \cup {Default(t) : t \in T}
    BY DEF WireEdits
  <2>5. \A t : Same(g, Default(t)) BY <2>3
  <2> HIDE DEF Default, T
  <2> QED BY <2>2, <2>4, <2>5
<1>2. \A e \in CutEdits(g, off) : Same(g, e)
  <2>1. \A id : Same(g, UpdateRule(g, id, None, None)) BY UpdateRuleOK
  <2>2. \A sel, cut : Same(g, RemoveSelected(g, sel, cut)) BY RemoveSelectedOK
  <2> QED BY <2>1, <2>2 DEF CutEdits
<1>3. \A e \in DeleteEdits(g) : Same(g, e)
  <2>1. \A id : Same(g, RemoveRule(g, id)) BY RulesWithoutOK DEF RemoveRule
  <2>2. \A id : Same(g, RemoveServer(g, id)) BY RemoveServerOK
  <2>3. \A id : Same(g, RemoveComment(g, id)) BY LayoutOK
  <2> QED BY <2>1, <2>2, <2>3 DEF DeleteEdits
<1>4. \A e \in PaletteEdits(g) : Same(g, e)
  <2>1. \A id : id \notin RuleSeqIds(g.rules) => Same(g, AddSource(g, id)) BY AddSourceOK
  <2>2. \A id : Same(g, AddNote(g, id)) /\ Same(g, AddServer(g, id)) BY AddNoteOK
  <2> QED BY <2>1, <2>2 DEF PaletteEdits
<1>5. \A e \in PresetEdits(g) : Same(g, e)
  <2>1. \A id, preset : id \notin RuleSeqIds(g.rules) /\ preset \in PRESETS => Same(g, AddPreset(g, id, preset))
    BY AddPresetOK
  <2> QED BY <2>1 DEF PresetEdits
<1>6. \A e \in OrderEdits(g) : Same(g, e)
  <2>1. \A i, j \in DOMAIN g.rules : Same(g, MoveRule(g, i, j)) BY MoveRuleOK
  <2> QED BY <2>1 DEF OrderEdits
<1>7. Same(g, ClearRules(g))
  BY EmptyIsList, RulesReplaced DEF ClearRules
<1>8. \A e \in LayoutEdits(g, off) : Same(g, e)
  <2>1. \A id : /\ Same(g, ResizeNode(g, id)) /\ Same(g, MoveNode(g, id))
                /\ Same(g, ResetNodeSize(g, id)) /\ Same(g, UpdateComment(g, id))
    BY LayoutOK
  <2> QED BY <2>1 DEF LayoutEdits
<1>9. \A e \in CardEdits(g) : Same(g, e)
  <2>1. \A id : Same(g, EditRule(g, id)) BY EditRuleOK
  <2> QED BY <2>1 DEF CardEdits
<1> QED BY <1>1, <1>2, <1>3, <1>4, <1>5, <1>6, <1>7, <1>8, <1>9 DEF CanvasEdits

-----------------------------------------------------------------------------
(* The settings.  The graphs of t are their setups' wherever those of s are. *)
OwnFrom(s, t) == \A but : OwnGraphs(s, but) => OwnGraphs(t, but)

(* t is well formed too, with the same setup active. *)
Kept(s, t) == SettingsOK(t) /\ OwnFrom(s, t) /\ t.active = s.active

(* More exceptions ask for less. *)
LEMMA OwnGrows ==
    ASSUME NEW s, NEW a, NEW b, a \subseteq b, OwnGraphs(s, a)
    PROVE  OwnGraphs(s, b)
BY DEF OwnGraphs

(* The list of setups of well-formed settings. *)
LEMMA SetupFacts ==
    ASSUME NEW s, SettingsOK(s)
    PROVE  /\ Len(s.setups) \in Nat /\ DOMAIN s.setups = 1 .. Len(s.setups)
           /\ \A i \in DOMAIN s.setups : s.setups[i] \in Range(s.setups) /\ SetupOK(s.setups[i])
           /\ SetupIds(s) = {e.id : e \in Range(s.setups)}
<1>1. IsList(s.setups) /\ \A e \in Range(s.setups) : SetupOK(e) BY DEF SettingsOK
<1>2. /\ Len(s.setups) \in Nat /\ DOMAIN s.setups = 1 .. Len(s.setups)
      /\ \A i \in DOMAIN s.setups : s.setups[i] \in Range(s.setups)
  BY <1>1, ListFacts
<1>3. SetupIds(s) = {e.id : e \in Range(s.setups)}
  BY DEF SetupIds, Range
<1> QED BY <1>1, <1>2, <1>3

(* Another graph being edited. *)
LEMMA GraphReplaced ==
    ASSUME NEW s, SettingsOK(s), NEW g, GraphOK(g)
    PROVE  /\ SettingsOK([s EXCEPT !.graph = g])
           /\ [s EXCEPT !.graph = g].active = s.active
           /\ \A but : OwnGraphs(s, but) /\ (g.of = s.active \/ s.active \in but)
                => OwnGraphs([s EXCEPT !.graph = g], but)
<1> DEFINE t == [s EXCEPT !.graph = g]
<1>1. t.graph = g /\ t.active = s.active /\ t.setups = s.setups /\ DOMAIN t = DOMAIN s
  BY DEF SettingsOK, SettingsFields
<1> HIDE DEF t
<1>2. SettingsOK(t) BY <1>1 DEF SettingsOK, SetupIds
<1>3. ASSUME NEW but, OwnGraphs(s, but), g.of = s.active \/ s.active \in but PROVE OwnGraphs(t, but)
  BY <1>1, <1>3 DEF OwnGraphs
<1> QED BY <1>1, <1>2, <1>3 DEF t

(* Fields that hold no graph. *)
LEMMA FieldReplaced ==
    ASSUME NEW s, SettingsOK(s), NEW x
    PROVE  /\ Kept(s, [s EXCEPT !.geo = x]) /\ Kept(s, [s EXCEPT !.hwid = x])
           /\ Kept(s, [s EXCEPT !.other = x]) /\ Kept(s, [s EXCEPT !.schedule = x])
<1>1. ASSUME NEW t, t.graph = s.graph, t.active = s.active, t.setups = s.setups, DOMAIN t = DOMAIN s
      PROVE  Kept(s, t)
  BY <1>1 DEF SettingsOK, OwnGraphs, SetupIds, Kept, OwnFrom
<1>2. \A f \in {"geo", "hwid", "other", "schedule"} :
        LET t == [s EXCEPT ![f] = x]
        IN  t.graph = s.graph /\ t.active = s.active /\ t.setups = s.setups /\ DOMAIN t = DOMAIN s
  BY DEF SettingsOK, SettingsFields
<1>3. \A f \in {"geo", "hwid", "other", "schedule"} : Kept(s, [s EXCEPT ![f] = x])
  BY <1>1, <1>2
<1> QED BY <1>3

(* normalizeSetups keeps the setups and their ids, and as the active one is in
   the list it writes no graph into a setup of another. *)
LEMMA NormalizeOK ==
    ASSUME NEW s, SettingsOK(s)
    PROVE  /\ SettingsOK(Normalize(s))
           /\ Normalize(s).graph = s.graph
           /\ SetupIds(Normalize(s)) = SetupIds(s)
           /\ Normalize(s).active = s.active
           /\ OwnFrom(s, Normalize(s))
<1> DEFINE active == IF s.active \in SetupIds(s) THEN s.active ELSE s.setups[1].id
           us == [i \in DOMAIN s.setups |->
                    IF s.setups[i].id = active THEN [s.setups[i] EXCEPT !.graph = s.graph]
                    ELSE s.setups[i]]
           t == Normalize(s)
<1>0. /\ {"graph", "active", "setups"} \subseteq DOMAIN s /\ GraphOK(s.graph) /\ Distinct(s.setups)
      /\ s.active \in SetupIds(s)
  BY DEF SettingsOK, SettingsFields
<1>1. t = [s EXCEPT !.active = active, !.setups = us]
  BY DEF Normalize
<1> HIDE DEF active
<1>2. \A i \in DOMAIN s.setups : SetupOK(us[i]) /\ us[i].id = s.setups[i].id
  BY <1>0, SetupFacts DEF SetupOK
<1>3. us = [i \in DOMAIN s.setups |-> us[i]] /\ DOMAIN us = DOMAIN s.setups OBVIOUS
<1>4. \A i \in DOMAIN s.setups : us[i].graph = IF us[i].id = active THEN s.graph ELSE s.setups[i].graph
  BY SetupFacts DEF SetupOK
<1> HIDE DEF us
<1>5. IsList(us) BY <1>3, SetupFacts, MapIsList
<1>6. Distinct(us) BY <1>0, <1>2, <1>3, DistinctSame
<1>7. Range(us) = {us[i] : i \in DOMAIN s.setups} BY <1>3 DEF Range
<1>8. t.graph = s.graph /\ t.active = active /\ t.setups = us /\ DOMAIN t = DOMAIN s
  BY <1>0, <1>1
<1> HIDE DEF t
<1>9. SetupIds(t) = SetupIds(s)
  BY <1>2, <1>3, <1>8 DEF SetupIds
<1>10. t.active = s.active
  BY <1>0, <1>8 DEF active
<1>11. SettingsOK(t)
  <2>1. \A e \in Range(us) : SetupOK(e) BY <1>2, <1>7
  <2>2. t.active \in SetupIds(t) BY <1>0, <1>9, <1>10
  <2> QED BY <1>0, <1>5, <1>6, <1>8, <2>1, <2>2 DEF SettingsOK
<1>12. ASSUME NEW but, OwnGraphs(s, but) PROVE OwnGraphs(t, but)
  <2>1. active = s.active BY <1>8, <1>10
  <2>2. \A i \in DOMAIN s.setups :
          s.setups[i].id \notin but => s.setups[i].graph.of = s.setups[i].id
    BY <1>12, SetupFacts DEF OwnGraphs
  <2>3. \A e \in Range(us) : e.id \notin but => e.graph.of = e.id
    <3> SUFFICES ASSUME NEW i \in DOMAIN s.setups, us[i].id \notin but PROVE us[i].graph.of = us[i].id
      BY <1>7
    <3>1. s.active \notin but => s.graph.of = s.active BY <1>12 DEF OwnGraphs
    <3> QED BY <1>2, <1>4, <2>1, <2>2, <3>1
  <2> QED BY <1>8, <1>10, <1>12, <2>3 DEF OwnGraphs
<1> QED BY <1>8, <1>9, <1>10, <1>11, <1>12 DEF t, OwnFrom

(* SwitchSetup: the graph left is stored where it belongs, and the one entered is
   the target's own. *)
LEMMA SwitchSetupOK ==
    ASSUME NEW s, SettingsOK(s), NEW id \in SetupIds(s)
    PROVE  /\ SettingsOK(SwitchSetup(s, id))
           /\ SwitchSetup(s, id).active = id
           /\ OwnFrom(s, SwitchSetup(s, id))
<1> DEFINE n == Normalize(s)
           kept == n.setups
           target == CHOOSE i \in DOMAIN kept : kept[i].id = id
           t == [s EXCEPT !.setups = kept, !.active = id, !.graph = kept[target].graph]
<1>1. SettingsOK(n) /\ SetupIds(n) = SetupIds(s) /\ OwnFrom(s, n)
  BY NormalizeOK
<1>2. SwitchSetup(s, id) = Normalize(t) BY DEF SwitchSetup
<1> HIDE DEF n
<1>3. target \in DOMAIN kept /\ kept[target].id = id
  BY <1>1 DEF SetupIds
<1> HIDE DEF target
<1>4. SetupOK(kept[target]) /\ kept[target] \in Range(kept) BY <1>1, <1>3, SetupFacts
<1>5. /\ t.setups = kept /\ t.active = id /\ t.graph = kept[target].graph /\ DOMAIN t = DOMAIN s
  BY DEF SettingsOK, SettingsFields
<1> HIDE DEF t
<1>6. id \in SetupIds(t) BY <1>3, <1>5 DEF SetupIds
<1>7. SettingsOK(t) BY <1>1, <1>4, <1>5, <1>6 DEF SettingsOK, SetupOK
<1>8. OwnFrom(s, t)
  BY <1>1, <1>3, <1>4, <1>5 DEF OwnGraphs, OwnFrom
<1> QED BY <1>2, <1>5, <1>7, <1>8, NormalizeOK DEF OwnFrom

(* A setup dropped from the list.  When it is the active one, the next Normalize
   would write the graph being edited into the first setup: the hypothesis is
   needed, and SwitcherInv is what provides it. *)
LEMMA WithoutSetupOK ==
    ASSUME NEW s, SettingsOK(s), NEW id, id # s.active
    PROVE  SettingsOK(WithoutSetup(s, id)) /\ OwnFrom(s, WithoutSetup(s, id))
<1> DEFINE at == {i \in DOMAIN s.setups : s.setups[i].id # id}
           us == KeepAt(s.setups, at)
           t == WithoutSetup(s, id)
<1>1. t = [s EXCEPT !.setups = us] BY DEF WithoutSetup
<1>2. t.setups = us /\ t.active = s.active /\ t.graph = s.graph /\ DOMAIN t = DOMAIN s
  BY <1>1 DEF SettingsOK, SettingsFields
<1>3. /\ IsList(us) /\ Distinct(us)
      /\ Range(us) = {s.setups[i] : i \in at \cap (1 .. Len(s.setups))}
  BY KeepAtList DEF SettingsOK
<1> HIDE DEF us, t
<1>4. Range(us) \subseteq Range(s.setups) BY <1>3, SetupFacts
<1>5. s.active \in SetupIds(t)
  <2>1. PICK i \in DOMAIN s.setups : s.setups[i].id = s.active BY DEF SettingsOK, SetupIds
  <2>2. s.setups[i] \in Range(us) BY <1>3, <2>1, SetupFacts
  <2>3. SetupIds(t) = {e.id : e \in Range(us)} BY <1>2 DEF SetupIds, Range
  <2> QED BY <2>1, <2>2, <2>3
<1>6. SettingsOK(t) BY <1>2, <1>3, <1>4, <1>5 DEF SettingsOK
<1>7. OwnFrom(s, t) BY <1>2, <1>4 DEF OwnGraphs, OwnFrom
<1> QED BY <1>6, <1>7 DEF t

(* A setup added to the list. *)
LEMMA SetupAdded ==
    ASSUME NEW s, SettingsOK(s), NEW id, id \notin SetupIds(s), NEW g, GraphOK(g), g.of = id
    PROVE  Kept(s, [s EXCEPT !.setups = Append(s.setups, [id |-> id, graph |-> g])])
<1> DEFINE e == [id |-> id, graph |-> g]
           us == Append(s.setups, e)
           t == [s EXCEPT !.setups = us]
<1>1. SetupOK(e) /\ e.id = id /\ e.graph = g BY DEF SetupOK
<1> HIDE DEF e
<1>2. IsList(s.setups) /\ Distinct(s.setups) /\ \A x \in Range(s.setups) : SetupOK(x) /\ x.id # e.id
  BY <1>1, SetupFacts DEF SettingsOK
<1>3. IsList(us) /\ Range(us) = Range(s.setups) \cup {e} /\ Distinct(us)
  BY <1>2, AppendList, DistinctAppend
<1> HIDE DEF us
<1>4. t.setups = us /\ t.active = s.active /\ t.graph = s.graph /\ DOMAIN t = DOMAIN s
  BY DEF SettingsOK, SettingsFields
<1> HIDE DEF t
<1>5. SetupIds(t) = {x.id : x \in Range(us)} BY <1>4 DEF SetupIds, Range
<1>6. SetupIds(s) \subseteq SetupIds(t) BY <1>3, <1>5, SetupFacts
<1>7. SettingsOK(t) BY <1>1, <1>2, <1>3, <1>4, <1>6 DEF SettingsOK
<1>8. ASSUME NEW but, OwnGraphs(s, but) PROVE OwnGraphs(t, but)
  <2>1. \A x \in Range(us) : x.id \notin but => x.graph.of = x.id BY <1>1, <1>3, <1>8 DEF OwnGraphs
  <2> QED BY <1>4, <1>8, <2>1 DEF OwnGraphs
<1> QED BY <1>4, <1>7, <1>8 DEF Kept, OwnFrom, t, us, e

-----------------------------------------------------------------------------
(* The steps. *)
CallOK(c) ==
    DOMAIN c = CallFields /\ SettingsOK(c.value) /\ (c.then = "flow" => Graphs(c.data.rest))

(* ShapesInv, conjunct by conjunct. *)
LEMMA ShapesAre ==
    ShapesInv <=> /\ SettingsOK(shown) /\ SettingsOK(stored) /\ \A c \in calls : CallOK(c)
                  /\ Graphs(past) /\ Graphs(future) /\ Graphs(toast)
                  /\ DOMAIN switcher = DOMAIN Idle
BY DEF ShapesInv, CallOK, Graphs

(* The same of the next state. *)
LEMMA ShapesNext ==
    ShapesInv' <=> /\ SettingsOK(shown') /\ SettingsOK(stored') /\ \A c \in calls' : CallOK(c)
                   /\ Graphs(past') /\ Graphs(future') /\ Graphs(toast')
                   /\ DOMAIN switcher' = DOMAIN Idle
BY DEF ShapesInv, CallOK, Graphs

(* OwnInv of the next state. *)
LEMMA OwnNext ==
    OwnInv' <=> /\ OwnGraphs(shown', crossed') /\ OwnGraphs(stored', crossed')
                /\ \A c \in calls' : OwnGraphs(c.value, crossed')
                /\ shown'.active \notin crossed' =>
                      \A g \in Range(past') \cup Range(future') : g.of = shown'.active
BY DEF OwnInv

(* The call a request adds. *)
LEMMA PostedIs ==
    ASSUME NEW cs, NEW kind, NEW value, NEW id, NEW then, NEW data
    PROVE  \E c : /\ Posted(cs, kind, value, id, then, data) = cs \cup {c}
                  /\ DOMAIN c = CallFields /\ c.value = value /\ c.then = then
                  /\ c.kind = kind /\ c.id = id /\ c.data = data /\ ~c.done
<1> DEFINE n == Stamp(cs)
           c == [n |-> n, kind |-> kind, value |-> value, id |-> id, then |-> then,
                 data |-> data, read |-> FALSE, done |-> FALSE, ok |-> TRUE]
<1>1. Posted(cs, kind, value, id, then, data) = cs \cup {c} BY DEF Posted
<1> HIDE DEF n
<1>2. DOMAIN c = CallFields /\ c.value = value /\ c.then = then /\ c.kind = kind /\ c.id = id
      /\ c.data = data /\ ~c.done
  BY DEF CallFields
<1> QED BY <1>1, <1>2

(* Steps that neither ask for nor hear anything of the switcher. *)
LEMMA SwitcherKept ==
    ASSUME SwitcherInv, switcher'.pc = switcher.pc, switcher'.target = switcher.target,
           switcher'.delete = switcher.delete,
           \A c \in calls' : c.then = "switcher" => c \in calls
    PROVE  SwitcherInv'
BY DEF SwitcherInv

(* Go works on a call, possibly one of the switcher. *)
LEMMA SwitcherServed ==
    ASSUME SwitcherInv, UNCHANGED switcher, NEW c \in calls, NEW a,
           \A d \in calls' : d.then = "switcher" => d \in calls \ {c} \/ d = a,
           a.then = c.then, a.kind = c.kind, a.id = c.id,
           a.kind = "switch" /\ a.done /\ a.ok => a.value.active = a.id
    PROVE  SwitcherInv'
<1>1. ASSUME NEW d \in calls', NEW e \in calls', d.then = "switcher", e.then = "switcher" PROVE d = e
  BY <1>1 DEF SwitcherInv
<1>2. ASSUME NEW d \in calls', d.then = "switcher"
      PROVE  /\ switcher'.pc # "idle"
             /\ switcher'.pc = "switching" => d.kind = "switch" /\ d.id = switcher'.target
             /\ d.kind = "switch" /\ d.done /\ d.ok => d.value.active = d.id
  BY <1>2 DEF SwitcherInv
<1>3. switcher'.delete # None => switcher'.delete # switcher'.target BY DEF SwitcherInv
<1> QED BY <1>1, <1>2, <1>3 DEF SwitcherInv

-----------------------------------------------------------------------------
(* One more step to undo, the oldest dropped at the limit. *)
LEMMA RecordStepOK ==
    ASSUME ShapesInv, RecordStep
    PROVE  /\ Graphs(past') /\ Graphs(future')
           /\ OwnInv /\ shown.active \notin crossed =>
                \A g \in Range(past') \cup Range(future') : g.of = shown.active
<1>1. IsList(past) /\ (\A g \in Range(past) : GraphOK(g)) /\ GraphOK(shown.graph)
  BY ShapesAre DEF Graphs, SettingsOK
<1>2. future' = <<>> /\ Graphs(future') /\ Range(future') = {}
  BY EmptyIsList DEF RecordStep, Graphs
<1>3. PICK q : /\ past' = Append(q, shown.graph) /\ IsList(q) /\ Range(q) \subseteq Range(past)
  <2>1. CASE Len(past) = HISTORY_LIMIT
    <3>1. past # <<>>
      <4>1. Len(past) # 0 BY <2>1, HistoryLimitPositive
      <4> QED BY <4>1
    <3>2. past' = Append(Tail(past), shown.graph) BY <2>1 DEF RecordStep
    <3> QED BY <1>1, <3>1, <3>2, TailList
  <2>2. CASE Len(past) # HISTORY_LIMIT
    BY <1>1, <2>2 DEF RecordStep
  <2> QED BY <2>1, <2>2
<1>4. IsList(past') /\ Range(past') = Range(q) \cup {shown.graph}
  BY <1>3, AppendList
<1>5. Graphs(past') BY <1>1, <1>3, <1>4 DEF Graphs
<1>6. OwnInv /\ shown.active \notin crossed => \A g \in Range(past') : g.of = shown.active
  BY <1>3, <1>4 DEF OwnInv, OwnGraphs
<1> QED BY <1>2, <1>5, <1>6

(* patchSettings with another graph. *)
LEMMA PatchedOK ==
    ASSUME ShapesInv, SwitcherInv, NEW g, GraphOK(g), PatchSettings([shown EXCEPT !.graph = g]),
           UNCHANGED stored
    PROVE  /\ SettingsOK(shown') /\ shown'.active = shown.active
           /\ \A c \in calls' : CallOK(c)
           /\ \A c \in calls' : c.then = "switcher" => c \in calls
           /\ OwnInv /\ crossed \subseteq crossed' /\ (g.of = shown.active \/ shown.active \in crossed') =>
                /\ OwnGraphs(shown', crossed') /\ OwnGraphs(stored', crossed')
                /\ \A c \in calls' : OwnGraphs(c.value, crossed')
<1> DEFINE s == [shown EXCEPT !.graph = g]
<1>1. SettingsOK(shown) /\ \A c \in calls : CallOK(c) BY ShapesAre
<1>2. shown' = s /\ calls' = Posted(calls, "save", s, None, "patch", NoData)
  BY DEF PatchSettings, SendSave, PostSave
<1>3. /\ SettingsOK(s) /\ s.active = shown.active
      /\ \A but : OwnGraphs(shown, but) /\ (g.of = shown.active \/ shown.active \in but) => OwnGraphs(s, but)
  BY <1>1, GraphReplaced
<1> HIDE DEF s
<1>4. PICK c : calls' = calls \cup {c} /\ DOMAIN c = CallFields /\ c.value = s /\ c.then = "patch"
  BY <1>2, PostedIs
<1>5. ASSUME OwnInv, crossed \subseteq crossed', g.of = shown.active \/ shown.active \in crossed'
      PROVE  /\ OwnGraphs(shown', crossed') /\ OwnGraphs(stored', crossed')
             /\ \A d \in calls' : OwnGraphs(d.value, crossed')
  <2>1. /\ OwnGraphs(shown, crossed') /\ OwnGraphs(stored, crossed')
        /\ \A d \in calls : OwnGraphs(d.value, crossed')
    BY <1>5, OwnGrows DEF OwnInv
  <2>2. OwnGraphs(s, crossed') BY <1>3, <1>5, <2>1
  <2> QED BY <1>2, <1>4, <2>1, <2>2
<1> QED BY <1>1, <1>2, <1>3, <1>4, <1>5 DEF CallOK

(* Edits. *)
LEMMA EditOK ==
    ASSUME RoutingInv, Edit
    PROVE  RoutingInv'
<1>1. ShapesInv /\ SwitcherInv BY DEF RoutingInv
<1>2. PICK g \in CanvasEdits(shown.graph, hidden) \cup LayoutEdits(shown.graph, hidden) \cup CardEdits(shown.graph) :
        OnChange(g)
  BY DEF Edit
<1>3. GraphOK(shown.graph) BY <1>1, ShapesAre DEF SettingsOK
<1>4. GraphOK(g) /\ g.of = shown.graph.of BY <1>2, <1>3, EditsOK DEF Same
<1>5. RecordStep /\ PatchSettings([shown EXCEPT !.graph = g]) /\ UNCHANGED stored BY <1>2 DEF OnChange
<1>6. UNCHANGED <<toast, crossed, switcher>> BY DEF Edit, importVars
<1>7. ShapesInv' BY <1>1, <1>4, <1>5, <1>6, PatchedOK, RecordStepOK, ShapesAre, ShapesNext
<1>8. SwitcherInv' BY <1>1, <1>4, <1>5, <1>6, PatchedOK, SwitcherKept
<1>9. OwnInv => OwnInv'
  <2> SUFFICES ASSUME OwnInv PROVE OwnInv' OBVIOUS
  <2>1. g.of = shown.active \/ shown.active \in crossed' BY <1>4, <1>6 DEF OwnInv, OwnGraphs
  <2> QED BY <1>1, <1>4, <1>5, <1>6, <2>1, PatchedOK, RecordStepOK, OwnNext
<1> QED BY <1>6, <1>7, <1>8, <1>9 DEF RoutingInv

(* A setup given another one's graph is noted. *)
LEMMA CrossingNotes ==
    ASSUME NEW g, crossed' = Crossing(g)
    PROVE  crossed \subseteq crossed' /\ (g.of = shown.active \/ shown.active \in crossed')
BY DEF Crossing

(* The Undo of the import's toast. *)
LEMMA ToastUndoOK ==
    ASSUME RoutingInv, ToastUndo
    PROVE  RoutingInv'
<1> DEFINE g == toast[1]
<1>1. ShapesInv /\ SwitcherInv /\ OwnInv BY DEF RoutingInv
<1>2. GraphOK(g)
  <2>1. IsList(toast) /\ (\A x \in Range(toast) : GraphOK(x)) /\ toast # <<>>
    BY <1>1, ShapesAre DEF Graphs, ToastUndo
  <2>2. 1 \in 1 .. Len(toast) BY <2>1, EmptySeq DEF IsList
  <2> QED BY <2>1, <2>2, ListFacts
<1>3. /\ RecordStep /\ PatchSettings([shown EXCEPT !.graph = g]) /\ UNCHANGED <<stored, switcher>>
      /\ toast' = <<>> /\ crossed' = Crossing(g)
  BY DEF ToastUndo, OnChange
<1> HIDE DEF g
<1>4. crossed \subseteq crossed' /\ (g.of = shown.active \/ shown.active \in crossed')
  BY <1>3, CrossingNotes
<1>5. ShapesInv'
  BY <1>1, <1>2, <1>3, PatchedOK, RecordStepOK, EmptyIsList, ShapesAre, ShapesNext DEF Graphs
<1>6. SwitcherInv' BY <1>1, <1>2, <1>3, PatchedOK, SwitcherKept
<1>7. OwnInv' BY <1>1, <1>2, <1>3, <1>4, PatchedOK, RecordStepOK, OwnNext
<1> QED BY <1>5, <1>6, <1>7 DEF RoutingInv

(* Undo and redo. *)
LEMMA UndoOK ==
    ASSUME RoutingInv, Undo \/ Redo
    PROVE  RoutingInv'
<1>1. ShapesInv /\ SwitcherInv BY DEF RoutingInv
<1>2. UNCHANGED <<stored, toast, crossed, switcher>> BY DEF Undo, Redo, importVars
<1>3. PICK from \in {past, future}, to \in {past, future} :
        /\ from # <<>>
        /\ PatchSettings([shown EXCEPT !.graph = Last(from)])
        /\ {past', future'} = {Front(from), Append(to, shown.graph)}
  BY DEF Undo, Redo
<1>4. /\ IsList(from) /\ \A x \in Range(from) : GraphOK(x)
      /\ IsList(to) /\ \A x \in Range(to) : GraphOK(x)
      /\ GraphOK(shown.graph)
  BY <1>1, ShapesAre DEF Graphs, SettingsOK
<1>5. /\ IsList(Front(from)) /\ Range(Front(from)) \subseteq Range(from) /\ Last(from) \in Range(from)
      /\ IsList(Append(to, shown.graph)) /\ Range(Append(to, shown.graph)) = Range(to) \cup {shown.graph}
  BY <1>3, <1>4, FrontList, AppendList
<1> DEFINE g == Last(from)
           a == Front(from)
           b == Append(to, shown.graph)
<1>6. GraphOK(g) /\ PatchSettings([shown EXCEPT !.graph = g]) /\ {past', future'} = {a, b}
  BY <1>3, <1>4, <1>5
<1>7. Graphs(a) /\ Graphs(b) BY <1>4, <1>5 DEF Graphs
<1>8. OwnInv /\ shown.active \notin crossed =>
        g.of = shown.active /\ \A x \in Range(a) \cup Range(b) : x.of = shown.active
  BY <1>3, <1>5 DEF OwnInv, OwnGraphs
<1> HIDE DEF g, a, b
<1>9. past' \in {a, b} /\ future' \in {a, b} BY <1>6
<1>10. ShapesInv' BY <1>1, <1>2, <1>6, <1>7, <1>9, PatchedOK, ShapesAre, ShapesNext
<1>11. SwitcherInv' BY <1>1, <1>2, <1>6, PatchedOK, SwitcherKept
<1>12. OwnInv => OwnInv' BY <1>1, <1>2, <1>6, <1>8, <1>9, PatchedOK, OwnNext
<1> QED BY <1>2, <1>10, <1>11, <1>12 DEF RoutingInv

(* Steps that change neither settings, calls nor history. *)
LEMMA QuietOK ==
    ASSUME RoutingInv, UNCHANGED <<shown, stored, calls, past, future, crossed>>,
           toast' = toast \/ toast' = <<>>, DOMAIN switcher' = DOMAIN Idle,
           switcher'.pc = switcher.pc, switcher'.target = switcher.target,
           switcher'.delete = switcher.delete
    PROVE  RoutingInv'
<1>1. ShapesInv' BY EmptyIsList, ShapesAre, ShapesNext DEF Graphs, RoutingInv
<1>2. SwitcherInv' BY SwitcherKept DEF RoutingInv
<1>3. OwnInv => OwnInv' BY DEF OwnInv
<1> QED BY <1>1, <1>2, <1>3 DEF RoutingInv

(* Destinations hidden and shown, the toast and the banner gone, the delete dialog. *)
LEMMA LocalOK ==
    ASSUME RoutingInv,
           \/ \E a \in HideableActions : HideAction(a) \/ ShowAction(a)
           \/ ToastGone \/ GeoSkip \/ OpenDelete \/ CloseDelete
    PROVE  RoutingInv'
<1>1. DOMAIN switcher = DOMAIN Idle BY ShapesAre DEF RoutingInv
<1>2. CASE \E a \in HideableActions : HideAction(a) \/ ShowAction(a)
  BY <1>1, <1>2, QuietOK DEF HideAction, ShowAction, historyVars, importVars
<1>3. CASE ToastGone
  BY <1>1, <1>3, QuietOK DEF ToastGone, historyVars, syncVars
<1>4. CASE GeoSkip
  BY <1>1, <1>4, QuietOK DEF GeoSkip, historyVars, syncVars
<1>5. CASE OpenDelete \/ CloseDelete
  <2>1. \E x : switcher' = [switcher EXCEPT !.dialog = x]
    BY <1>5 DEF OpenDelete, CloseDelete
  <2>2. /\ DOMAIN switcher' = DOMAIN Idle /\ switcher'.pc = switcher.pc
        /\ switcher'.target = switcher.target /\ switcher'.delete = switcher.delete
    BY <1>1, <2>1 DEF Idle
  <2>3. UNCHANGED <<shown, stored, calls, past, future, toast, crossed>>
    BY <1>5 DEF OpenDelete, CloseDelete, historyVars, importVars, syncVars
  <2> QED BY <2>2, <2>3, QuietOK
<1> QED BY <1>2, <1>3, <1>4, <1>5

(* A call sent with the settings as they are; an import's carries a graph. *)
LEMMA SendOK ==
    ASSUME RoutingInv, NEW kind, NEW value \in {shown, stored}, NEW id, NEW then, NEW data,
           then # "switcher", then = "flow" => Graphs(data.rest),
           calls' = Posted(calls, kind, value, id, then, data),
           UNCHANGED <<shown, stored, past, future, toast, crossed, switcher>>
    PROVE  RoutingInv'
<1>1. PICK c : calls' = calls \cup {c} /\ DOMAIN c = CallFields /\ c.value = value /\ c.then = then
               /\ c.data = data
  BY PostedIs
<1>2. ShapesInv /\ SwitcherInv BY DEF RoutingInv
<1>3. SettingsOK(value) BY <1>2, ShapesAre
<1>4. ShapesInv' BY <1>1, <1>2, <1>3, ShapesAre, ShapesNext DEF CallOK
<1>5. SwitcherInv' BY <1>1, <1>2, SwitcherKept
<1>6. OwnInv => OwnInv' BY <1>1 DEF OwnInv
<1> QED BY <1>4, <1>5, <1>6 DEF RoutingInv

(* Imports, geo files and the tray. *)
LEMMA AsksOK ==
    ASSUME RoutingInv,
           \/ ImportRouting
           \/ \E who \in {"panel", "banner"} : GeoRun(who)
           \/ \E id \in SetupIds(stored) : TraySwitch(id) /\ UNCHANGED editorVars
    PROVE  RoutingInv'
<1>1. CASE ImportRouting
  <2> DEFINE data == [NoData EXCEPT !.rest = <<shown.graph>>]
  <2>1. /\ calls' = Posted(calls, "flow", shown, None, "flow", data)
        /\ UNCHANGED <<shown, stored, past, future, toast, crossed, switcher>>
    BY <1>1 DEF ImportRouting, historyVars, importVars
  <2>2. data.rest = <<shown.graph>> BY DEF NoData
  <2>3. Graphs(data.rest) BY <2>2, OneList, ShapesAre DEF SettingsOK, Graphs, RoutingInv
  <2> HIDE DEF data
  <2> QED BY <2>1, <2>3, SendOK
<1>2. ASSUME NEW who \in {"panel", "banner"}, GeoRun(who) PROVE RoutingInv'
  <2>1. /\ calls' = Posted(calls, "geo", shown, None, who, NoData)
        /\ UNCHANGED <<shown, stored, past, future, toast, crossed, switcher>>
    BY <1>2 DEF GeoRun, Send, historyVars, importVars
  <2> QED BY <2>1, SendOK
<1>3. ASSUME NEW id \in SetupIds(stored), TraySwitch(id), UNCHANGED editorVars PROVE RoutingInv'
  <2>1. /\ calls' = Posted(calls, "switch", stored, id, "tray", NoData)
        /\ UNCHANGED <<shown, stored, past, future, toast, crossed, switcher>>
    BY <1>3 DEF TraySwitch, Send, editorVars, historyVars, importVars
  <2> QED BY <2>1, SendOK
<1> QED BY <1>1, <1>2, <1>3

(* run() in SetupSwitcher begins. *)
LEMMA SwitcherCallsOK ==
    ASSUME RoutingInv, NEW base, NEW pc, NEW target, NEW delete,
           SwitcherCalls(base, pc, target, delete),
           SettingsOK(base), OwnFrom(shown, base),
           pc # "idle", pc # "switching", delete # None => delete # target
    PROVE  RoutingInv'
<1>1. ShapesInv /\ SwitcherInv BY DEF RoutingInv
<1>2. /\ switcher.pc = "idle" /\ calls' = Posted(calls, "save", base, None, "switcher", NoData)
      /\ switcher' = [switcher EXCEPT !.pc = pc, !.target = target, !.delete = delete]
      /\ UNCHANGED <<shown, stored, past, future, toast, crossed>>
  BY DEF SwitcherCalls, SendSave, PostSave, historyVars, importVars
<1>3. PICK c : /\ calls' = calls \cup {c} /\ DOMAIN c = CallFields /\ c.value = base
               /\ c.then = "switcher" /\ c.kind = "save"
  BY <1>2, PostedIs
<1>4. /\ DOMAIN switcher' = DOMAIN Idle /\ switcher'.pc = pc /\ switcher'.target = target
      /\ switcher'.delete = delete
  <2>1. DOMAIN switcher = {"pc", "target", "delete", "dialog"} /\ DOMAIN switcher = DOMAIN Idle
    BY <1>1, ShapesAre DEF Idle
  <2> QED BY <1>2, <2>1
<1>5. \A d \in calls : d.then # "switcher" BY <1>1, <1>2 DEF SwitcherInv
<1>6. ShapesInv' BY <1>1, <1>2, <1>3, <1>4, ShapesAre, ShapesNext DEF CallOK
<1>7. SwitcherInv' BY <1>3, <1>4, <1>5 DEF SwitcherInv
<1>8. OwnInv => OwnInv' BY <1>2, <1>3 DEF OwnInv, OwnFrom
<1> QED BY <1>2, <1>6, <1>7, <1>8 DEF RoutingInv

(* Switching, deleting, creating and renaming a setup, and its schedule. *)
LEMMA SetupMenuOK ==
    ASSUME RoutingInv,
           \/ \E id \in SetupIds(shown) : SwitchTo(id)
           \/ DeleteSetup
           \/ \E id \in NewSetups : CreateSetup(id)
           \/ RenameSetup \/ SaveSchedule
    PROVE  RoutingInv'
<1>1. SettingsOK(shown) BY ShapesAre DEF RoutingInv
<1>2. ASSUME NEW id \in SetupIds(shown), SwitchTo(id) PROVE RoutingInv'
  BY <1>1, <1>2, SwitcherCallsOK DEF SwitchTo, OwnFrom
<1>3. CASE DeleteSetup
  <2> DEFINE id == switcher.dialog
             first == SelectInSeq(shown.setups, LAMBDA e : e.id # id)
  <2>1. CASE id = shown.active /\ first # 0 /\ SwitcherCalls(shown, "saving", shown.setups[first].id, id)
    <3>1. shown.setups[first].id # id
      <4> DEFINE I == {i \in 1 .. Len(shown.setups) : shown.setups[i].id # id}
      <4>1. first = IF I # {} THEN Min(I) ELSE 0 BY DEF SelectInSeq
      <4>2. I # {} /\ first = Min(I) BY <2>1, <4>1
      <4>3. I \subseteq Nat OBVIOUS
      <4> HIDE DEF I
      <4>4. Min(I) \in I BY <4>2, <4>3, MinIsIn
      <4> QED BY <4>2, <4>4 DEF I
    <3> QED BY <1>1, <2>1, <3>1, SwitcherCallsOK DEF OwnFrom
  <2>2. CASE id # shown.active /\ SwitcherCalls(WithoutSetup(shown, id), "final", None, None)
    BY <1>1, <2>2, WithoutSetupOK, SwitcherCallsOK
  <2> QED BY <1>3, <2>1, <2>2 DEF DeleteSetup
<1>4. ASSUME NEW id \in NewSetups, CreateSetup(id) PROVE RoutingInv'
  <2>1. PICK g \in {EmptyGraph(id), [shown.graph EXCEPT !.of = id]} :
          SwitcherCalls([shown EXCEPT !.setups = Append(shown.setups, [id |-> id, graph |-> g])], "saving", id, None)
    BY <1>4 DEF CreateSetup
  <2>2. id \notin SetupIds(shown) BY <1>4 DEF CreateSetup
  <2>3. GraphOK(shown.graph) BY <1>1 DEF SettingsOK
  <2>4. GraphOK(g) /\ g.of = id
    <3>1. CASE g = EmptyGraph(id) BY <3>1, EmptyGraphOK
    <3>2. CASE g = [shown.graph EXCEPT !.of = id] BY <2>3, <3>2, RelabelledOK
    <3> QED BY <3>1, <3>2
  <2> DEFINE base == [shown EXCEPT !.setups = Append(shown.setups, [id |-> id, graph |-> g])]
  <2>5. Kept(shown, base) BY <1>1, <2>2, <2>4, SetupAdded
  <2> HIDE DEF base
  <2>6. SwitcherCalls(base, "saving", id, None) BY <2>1 DEF base
  <2> QED BY <2>5, <2>6, SwitcherCallsOK DEF Kept
<1>5. CASE RenameSetup
  <2>1. Kept(shown, [shown EXCEPT !.other = 1 - shown.other]) BY <1>1, FieldReplaced
  <2> QED BY <1>5, <2>1, SwitcherCallsOK DEF RenameSetup, Kept
<1>6. CASE SaveSchedule
  <2>1. Kept(shown, [shown EXCEPT !.schedule = 1 - shown.schedule]) BY <1>1, FieldReplaced
  <2> QED BY <1>6, <2>1, SwitcherCallsOK DEF SaveSchedule, Kept
<1> QED BY <1>2, <1>3, <1>4, <1>5, <1>6

(* The effect on active_routing_setup. *)
LEMMA HistoryFollowsOK ==
    ASSUME ShapesInv, NEW next, HistoryFollows(next), shown' = next
    PROVE  /\ Graphs(past') /\ Graphs(future')
           /\ OwnInv /\ shown'.active \notin crossed =>
                \A g \in Range(past') \cup Range(future') : g.of = shown'.active
<1>1. CASE next.active # shown.active
  BY <1>1, EmptyIsList DEF HistoryFollows, Graphs
<1>2. CASE next.active = shown.active
  <2>1. past' = past /\ future' = future BY <1>2 DEF HistoryFollows, historyVars
  <2> QED BY <1>2, <2>1, ShapesAre DEF OwnInv
<1> QED BY <1>1, <1>2

(* An answer that changes nothing. *)
LEMMA DroppedCall ==
    ASSUME RoutingInv, NEW c \in calls, calls' = calls \ {c},
           UNCHANGED <<shown, stored, past, future, crossed, switcher>>, toast' \in {toast, <<>>}
    PROVE  RoutingInv'
<1>1. ShapesInv /\ SwitcherInv BY DEF RoutingInv
<1>2. ShapesInv' BY <1>1, EmptyIsList, ShapesAre, ShapesNext DEF Graphs
<1>3. SwitcherInv' BY <1>1, SwitcherKept
<1>4. OwnInv => OwnInv' BY DEF OwnInv
<1> QED BY <1>2, <1>3, <1>4 DEF RoutingInv

(* The call an await makes next. *)
LEMMA ContinuedIs ==
    ASSUME NEW c \in calls, NEW kind, NEW value, NEW id, NEW then, Continue(c, kind, value, id, then)
    PROVE  \E a : /\ calls' = (calls \ {c}) \cup {a}
                  /\ DOMAIN a = CallFields /\ a.value = value /\ a.then = then
                  /\ a.kind = kind /\ a.id = id /\ ~a.done
BY PostedIs DEF Continue

(* The imported graph arrives, on whichever setup is shown. *)
LEMMA ImportHeardOK ==
    ASSUME RoutingInv, NEW c \in calls, ImportHeard(c)
    PROVE  RoutingInv'
<1>1. ShapesInv /\ SwitcherInv /\ OwnInv BY DEF RoutingInv
<1>2. UNCHANGED <<stored, switcher>> /\ c.then = "flow" BY DEF ImportHeard
<1>3. CASE c.ok
  <2> DEFINE g == c.value.graph
             s == [shown EXCEPT !.graph = g]
  <2>1. /\ shown' = s /\ Continue(c, "save", s, None, "patch") /\ RecordStep
        /\ toast' = c.data.rest /\ crossed' = Crossing(g)
    BY <1>3 DEF ImportHeard
  <2>2. GraphOK(g) /\ SettingsOK(shown) /\ Graphs(c.data.rest)
    BY <1>1, <1>2, ShapesAre DEF CallOK, SettingsOK
  <2> HIDE DEF g
  <2>3. crossed \subseteq crossed' /\ (g.of = shown.active \/ shown.active \in crossed')
    BY <2>1, CrossingNotes
  <2>4. /\ SettingsOK(s) /\ s.active = shown.active
        /\ \A but : OwnGraphs(shown, but) /\ (g.of = shown.active \/ shown.active \in but) => OwnGraphs(s, but)
    BY <2>2, GraphReplaced
  <2> HIDE DEF s
  <2>5. PICK a : /\ calls' = (calls \ {c}) \cup {a}
                 /\ DOMAIN a = CallFields /\ a.value = s /\ a.then = "patch"
    BY <2>1, ContinuedIs
  <2>6. ShapesInv'
    BY <1>1, <1>2, <2>1, <2>2, <2>4, <2>5, RecordStepOK, ShapesAre, ShapesNext DEF CallOK
  <2>7. SwitcherInv' BY <1>1, <1>2, <2>5, SwitcherKept
  <2>8. OwnInv'
    <3>1. shown'.active \notin crossed' =>
            \A x \in Range(past') \cup Range(future') : x.of = shown'.active
      BY <1>1, <2>1, <2>3, <2>4, RecordStepOK
    <3>2. /\ OwnGraphs(shown, crossed') /\ OwnGraphs(stored, crossed')
          /\ \A d \in calls : OwnGraphs(d.value, crossed')
      BY <1>1, <2>3, OwnGrows DEF OwnInv
    <3>3. OwnGraphs(s, crossed') BY <2>3, <2>4, <3>2
    <3>4. OwnGraphs(shown', crossed') /\ OwnGraphs(stored', crossed') BY <1>2, <2>1, <3>2, <3>3
    <3>5. \A d \in calls' : OwnGraphs(d.value, crossed') BY <2>5, <3>2, <3>3
    <3> QED BY <3>1, <3>4, <3>5, OwnNext
  <2> QED BY <2>6, <2>7, <2>8 DEF RoutingInv
<1>4. CASE ~c.ok
  <2>1. calls' = calls \ {c} /\ UNCHANGED <<shown, past, future, crossed>> /\ toast' \in {toast, <<>>}
    BY <1>4 DEF ImportHeard, historyVars
  <2> QED BY <1>2, <2>1, DroppedCall
<1> QED BY <1>3, <1>4

(* The geo files arrive. *)
LEMMA GeoHeardOK ==
    ASSUME RoutingInv, NEW c \in calls, GeoHeard(c)
    PROVE  RoutingInv'
<1>1. ShapesInv /\ SwitcherInv BY DEF RoutingInv
<1>2. UNCHANGED <<stored, crossed, switcher, past, future, toast>> BY DEF GeoHeard, historyVars
<1>3. CASE c.ok
  <2> DEFINE s == [shown EXCEPT !.geo = c.value.geo]
  <2>1. shown' = s /\ Continue(c, "save", s, None, "patch") BY <1>3 DEF GeoHeard
  <2>2. Kept(shown, s) BY <1>1, ShapesAre, FieldReplaced
  <2> HIDE DEF s
  <2>3. PICK a : /\ calls' = (calls \ {c}) \cup {a}
                 /\ DOMAIN a = CallFields /\ a.value = s /\ a.then = "patch"
    BY <2>1, ContinuedIs
  <2>4. ShapesInv' BY <1>1, <1>2, <2>1, <2>2, <2>3, ShapesAre, ShapesNext DEF CallOK, Kept
  <2>5. SwitcherInv' BY <1>1, <1>2, <2>3, SwitcherKept
  <2>6. OwnInv => OwnInv' BY <1>2, <2>1, <2>2, <2>3, OwnNext DEF OwnInv, Kept, OwnFrom
  <2> QED BY <1>2, <2>4, <2>5, <2>6 DEF RoutingInv
<1>4. CASE ~c.ok
  <2>1. calls' = calls \ {c} /\ UNCHANGED shown BY <1>4 DEF GeoHeard
  <2> QED BY <1>2, <2>1, DroppedCall
<1> QED BY <1>3, <1>4

(* The copy on screen is replaced by an answer or an event. *)
LEMMA ReplacedOK ==
    ASSUME RoutingInv, NEW c \in calls, SettingsReplaced(c)
    PROVE  RoutingInv'
<1>1. ShapesInv /\ SwitcherInv BY DEF RoutingInv
<1>2. UNCHANGED <<stored, crossed, switcher, toast>> /\ calls' = calls \ {c}
  BY DEF SettingsReplaced, SettingsHeard, importVars
<1>3. shown' \in {shown, c.value} /\ HistoryFollows(shown') BY DEF SettingsReplaced, SettingsHeard
<1>4. SettingsOK(shown') /\ (OwnInv => OwnGraphs(shown', crossed)) BY <1>1, <1>3, ShapesAre DEF CallOK, OwnInv
<1>5. ShapesInv' BY <1>1, <1>2, <1>3, <1>4, HistoryFollowsOK, ShapesAre, ShapesNext
<1>6. SwitcherInv' BY <1>1, <1>2, SwitcherKept
<1>7. OwnInv => OwnInv'
  <2> SUFFICES ASSUME OwnInv PROVE OwnInv' OBVIOUS
  <2>1. shown'.active \notin crossed =>
          \A x \in Range(past') \cup Range(future') : x.of = shown'.active
    BY <1>1, <1>3, HistoryFollowsOK
  <2>2. OwnGraphs(stored', crossed) /\ \A d \in calls' : OwnGraphs(d.value, crossed) BY <1>2 DEF OwnInv
  <2> QED BY <1>2, <1>4, <2>1, <2>2, OwnNext
<1> QED BY <1>2, <1>5, <1>6, <1>7 DEF RoutingInv

(* run() goes on.  Before the last save of a deletion, the answer to the switch
   has the target active, so what is dropped is not the active setup. *)
LEMMA SwitcherHeardOK ==
    ASSUME RoutingInv, NEW c \in calls, SwitcherHeard(c)
    PROVE  RoutingInv'
<1>1. ShapesInv /\ SwitcherInv BY DEF RoutingInv
<1>2. UNCHANGED <<stored, crossed, toast>> BY DEF SwitcherHeard, importVars
<1>3. c.then = "switcher" /\ c.done BY DEF SwitcherHeard, NextHeard
<1>4. \A d \in calls \ {c} : d.then # "switcher" BY <1>1, <1>3 DEF SwitcherInv
<1>5. DOMAIN switcher = {"pc", "target", "delete", "dialog"} /\ DOMAIN switcher = DOMAIN Idle
  BY <1>1, ShapesAre DEF Idle
<1>6. CASE /\ ~c.ok
           /\ switcher' = [Idle EXCEPT !.dialog = switcher.dialog] /\ calls' = calls \ {c}
           /\ UNCHANGED <<shown, historyVars>>
  <2>1. UNCHANGED <<past, future>> BY <1>6 DEF historyVars
  <2>2. DOMAIN switcher' = DOMAIN Idle /\ switcher'.delete = None BY <1>6 DEF Idle
  <2>3. ShapesInv' BY <1>1, <1>2, <1>6, <2>1, <2>2, ShapesAre, ShapesNext
  <2>4. SwitcherInv' BY <1>4, <1>6, <2>2 DEF SwitcherInv
  <2>5. OwnInv => OwnInv' BY <1>2, <1>6, <2>1 DEF OwnInv
  <2> QED BY <1>2, <2>3, <2>4, <2>5 DEF RoutingInv
<1>7. CASE /\ c.ok /\ switcher.pc = "saving"
           /\ switcher' = [switcher EXCEPT !.pc = "switching"]
           /\ Continue(c, "switch", c.value, switcher.target, "switcher")
           /\ UNCHANGED <<shown, historyVars>>
  <2>1. UNCHANGED <<past, future>> BY <1>7 DEF historyVars
  <2>2. /\ DOMAIN switcher' = DOMAIN Idle /\ switcher'.pc = "switching"
        /\ switcher'.delete = switcher.delete /\ switcher'.target = switcher.target
    BY <1>5, <1>7
  <2>3. PICK a : /\ calls' = (calls \ {c}) \cup {a} /\ DOMAIN a = CallFields /\ a.value = c.value
                 /\ a.then = "switcher" /\ a.kind = "switch" /\ a.id = switcher.target /\ ~a.done
    BY <1>7, ContinuedIs
  <2>4. ShapesInv' BY <1>1, <1>2, <1>7, <2>1, <2>2, <2>3, ShapesAre, ShapesNext DEF CallOK
  <2>5. SwitcherInv' BY <1>1, <1>4, <2>2, <2>3 DEF SwitcherInv
  <2>6. OwnInv => OwnInv' BY <1>2, <1>7, <2>1, <2>3 DEF OwnInv
  <2> QED BY <1>2, <2>4, <2>5, <2>6 DEF RoutingInv
<1>8. CASE /\ c.ok /\ switcher.pc = "switching" /\ switcher.delete # None
           /\ switcher' = [switcher EXCEPT !.pc = "final"]
           /\ Continue(c, "save", WithoutSetup(c.value, switcher.delete), None, "switcher")
           /\ UNCHANGED <<shown, historyVars>>
  <2> DEFINE s == WithoutSetup(c.value, switcher.delete)
  <2>1. UNCHANGED <<past, future>> BY <1>8 DEF historyVars
  <2>2. /\ DOMAIN switcher' = DOMAIN Idle /\ switcher'.pc = "final"
        /\ switcher'.delete = switcher.delete /\ switcher'.target = switcher.target
    BY <1>5, <1>8
  <2>3. switcher.delete # c.value.active
    <3>1. c.kind = "switch" /\ c.id = switcher.target BY <1>1, <1>3, <1>8 DEF SwitcherInv
    <3>2. c.value.active = c.id BY <1>1, <1>3, <1>8, <3>1 DEF SwitcherInv
    <3> QED BY <1>1, <1>8, <3>1, <3>2 DEF SwitcherInv
  <2>4. SettingsOK(s) /\ OwnFrom(c.value, s)
    BY <1>1, <2>3, WithoutSetupOK, ShapesAre DEF CallOK
  <2>5. PICK a : /\ calls' = (calls \ {c}) \cup {a} /\ DOMAIN a = CallFields /\ a.value = s
                 /\ a.then = "switcher" /\ a.kind = "save"
    BY <1>8, ContinuedIs
  <2> HIDE DEF s
  <2>6. ShapesInv' BY <1>1, <1>2, <1>8, <2>1, <2>2, <2>4, <2>5, ShapesAre, ShapesNext DEF CallOK
  <2>7. SwitcherInv' BY <1>1, <1>4, <2>2, <2>5 DEF SwitcherInv
  <2>8. OwnInv => OwnInv' BY <1>2, <1>8, <2>1, <2>4, <2>5 DEF OwnInv, OwnFrom
  <2> QED BY <1>2, <2>6, <2>7, <2>8 DEF RoutingInv
<1>9. CASE switcher' = Idle /\ calls' = calls \ {c} /\ shown' = c.value /\ HistoryFollows(c.value)
  <2>1. SettingsOK(shown') /\ (OwnInv => OwnGraphs(shown', crossed)) BY <1>1, <1>9, ShapesAre DEF CallOK, OwnInv
  <2>2. ShapesInv' BY <1>1, <1>2, <1>9, <2>1, HistoryFollowsOK, ShapesAre, ShapesNext
  <2>3. SwitcherInv' BY <1>4, <1>9 DEF SwitcherInv, Idle
  <2>4. OwnInv => OwnInv'
    <3> SUFFICES ASSUME OwnInv PROVE OwnInv' OBVIOUS
    <3>1. shown'.active \notin crossed =>
            \A x \in Range(past') \cup Range(future') : x.of = shown'.active
      BY <1>1, <1>9, HistoryFollowsOK
    <3>2. OwnGraphs(stored', crossed) /\ \A d \in calls' : OwnGraphs(d.value, crossed)
      BY <1>2, <1>9 DEF OwnInv
    <3> QED BY <1>2, <2>1, <3>1, <3>2, OwnNext
  <2> QED BY <1>2, <2>2, <2>3, <2>4 DEF RoutingInv
<1> QED BY <1>6, <1>7, <1>8, <1>9 DEF SwitcherHeard

-----------------------------------------------------------------------------
(* What a step of Go does to the call it works on. *)
LEMMA ServedCall ==
    ASSUME RoutingInv, NEW c \in calls, NEW a,
           \A d \in calls' : d \in calls \ {c} \/ d = a
                              \/ (CallOK(d) /\ d.then # "switcher" /\ d.value = stored'),
           UNCHANGED <<shown, editorVars>>,
           SettingsOK(stored'), OwnInv => OwnGraphs(stored', crossed),
           CallOK(a), OwnInv => OwnGraphs(a.value, crossed),
           a.then = c.then, a.kind = c.kind, a.id = c.id,
           a.kind = "switch" /\ a.done /\ a.ok => a.value.active = a.id
    PROVE  RoutingInv'
<1>1. ShapesInv /\ SwitcherInv BY DEF RoutingInv
<1>2. UNCHANGED <<past, future, toast, crossed, switcher>>
  BY DEF editorVars, historyVars, importVars
<1>3. ShapesInv' BY <1>1, <1>2, ShapesAre, ShapesNext
<1>4. SwitcherInv' BY <1>1, <1>2, SwitcherServed
<1>5. OwnInv => OwnInv'
  <2> SUFFICES ASSUME OwnInv PROVE OwnInv' OBVIOUS
  <2>1. OwnGraphs(stored', crossed) /\ OwnGraphs(a.value, crossed) OBVIOUS
  <2>2. \A d \in calls' : OwnGraphs(d.value, crossed) BY <2>1 DEF OwnInv
  <2> QED BY <1>2, <2>1, <2>2, OwnNext DEF OwnInv
<1> QED BY <1>2, <1>3, <1>4, <1>5 DEF RoutingInv

(* Go's answer. *)
LEMMA AnsweredIs ==
    ASSUME NEW c, CallOK(c), NEW v, NEW ok, Answer(c, v, ok)
    PROVE  \E a : /\ calls' = (calls \ {c}) \cup {a}
                  /\ DOMAIN a = CallFields /\ a.value = v /\ a.then = c.then /\ a.kind = c.kind
                  /\ a.id = c.id /\ a.data = c.data /\ a.ok = ok
<1> DEFINE n == Stamp(calls)
           a == [c EXCEPT !.n = n, !.done = TRUE, !.ok = ok, !.value = v]
<1>1. calls' = (calls \ {c}) \cup {a} BY DEF Answer
<1> HIDE DEF n
<1>2. /\ DOMAIN a = CallFields /\ a.value = v /\ a.then = c.then /\ a.kind = c.kind
      /\ a.id = c.id /\ a.data = c.data /\ a.ok = ok
  BY DEF CallOK, CallFields
<1> QED BY <1>1, <1>2

(* SaveSettings, served or refused. *)
LEMMA SaveServedOK ==
    ASSUME RoutingInv, NEW c \in calls, SaveServed(c) \/ SaveRefused(c), UNCHANGED editorVars
    PROVE  RoutingInv'
<1>1. CallOK(c) /\ SettingsOK(stored) BY ShapesAre DEF RoutingInv
<1>2. SettingsOK(c.value) BY <1>1 DEF CallOK
<1>3. UNCHANGED shown /\ c.kind = "save" BY DEF SaveServed, SaveRefused
<1>4. stored' \in {stored, Normalize(c.value)} BY DEF SaveServed, SaveRefused
<1>5. SettingsOK(stored') /\ (OwnInv => OwnGraphs(stored', crossed))
  BY <1>1, <1>2, <1>4, NormalizeOK DEF OwnInv, OwnFrom
<1>6. \E v \in {stored', c.value}, ok \in BOOLEAN : Answer(c, v, ok)
  BY DEF SaveServed, SaveRefused
<1>7. PICK v \in {stored', c.value}, ok \in BOOLEAN : Answer(c, v, ok) BY <1>6
<1>8. PICK a : /\ calls' = (calls \ {c}) \cup {a}
               /\ DOMAIN a = CallFields /\ a.value = v /\ a.then = c.then /\ a.kind = c.kind /\ a.id = c.id
               /\ a.data = c.data
  BY <1>1, <1>7, AnsweredIs
<1>9. CallOK(a) /\ (OwnInv => OwnGraphs(a.value, crossed)) /\ a.kind # "switch"
  BY <1>1, <1>2, <1>3, <1>5, <1>8 DEF CallOK, OwnInv
<1> QED BY <1>3, <1>5, <1>8, <1>9, ServedCall

(* A command reads the settings. *)
LEMMA ReadSettingsOK ==
    ASSUME RoutingInv, NEW c \in calls, ReadSettings(c), UNCHANGED editorVars
    PROVE  RoutingInv'
<1> DEFINE a == [c EXCEPT !.read = TRUE, !.value = stored]
<1>1. CallOK(c) /\ SettingsOK(stored) BY ShapesAre DEF RoutingInv
<1>2. /\ UNCHANGED <<shown, stored>> /\ calls' = (calls \ {c}) \cup {a} /\ ~c.done
  BY DEF ReadSettings, NextServed
<1>3. /\ DOMAIN a = CallFields /\ a.value = stored /\ a.then = c.then /\ a.kind = c.kind /\ a.id = c.id
      /\ a.data = c.data /\ a.done = c.done
  BY <1>1 DEF CallOK, CallFields
<1> HIDE DEF a
<1>4. CallOK(a) /\ ~a.done BY <1>1, <1>2, <1>3 DEF CallOK
<1>5. OwnInv => OwnGraphs(stored, crossed) BY DEF OwnInv
<1> QED BY <1>1, <1>2, <1>3, <1>4, <1>5, ServedCall

(* hwid, geo files, import_routing. *)
LEMMA CommandServedOK ==
    ASSUME RoutingInv, NEW c \in calls, CommandServed(c), UNCHANGED editorVars
    PROVE  RoutingInv'
<1>1. CallOK(c) /\ SettingsOK(stored) BY ShapesAre DEF RoutingInv
<1>2. SettingsOK(c.value) BY <1>1 DEF CallOK
<1>3. UNCHANGED shown /\ c.kind \in {"hwid", "geo", "flow"} BY DEF CommandServed
<1>4. SettingsOK(Commanded(c)) /\ OwnFrom(c.value, Commanded(c))
  <2>1. CASE c.kind = "geo"
    <3> DEFINE x == 1 - c.value.geo
    <3>1. Commanded(c) = [c.value EXCEPT !.geo = x] BY <2>1 DEF Commanded
    <3> HIDE DEF x
    <3>2. Kept(c.value, [c.value EXCEPT !.geo = x]) BY <1>2, FieldReplaced
    <3>3. Kept(c.value, Commanded(c)) BY <3>1, <3>2
    <3> QED BY <3>3 DEF Kept
  <2>2. CASE c.kind = "hwid"
    <3> DEFINE x == 1 - c.value.hwid
    <3>1. Commanded(c) = [c.value EXCEPT !.hwid = x] BY <2>2 DEF Commanded
    <3> HIDE DEF x
    <3>2. Kept(c.value, [c.value EXCEPT !.hwid = x]) BY <1>2, FieldReplaced
    <3>3. Kept(c.value, Commanded(c)) BY <3>1, <3>2
    <3> QED BY <3>3 DEF Kept
  <2>3. CASE c.kind = "flow"
    <3> DEFINE g == ImportedGraph(c.value.active)
               s == [c.value EXCEPT !.graph = g]
    <3>1. Commanded(c) = Normalize(s) BY <2>3 DEF Commanded
    <3>2. GraphOK(g) /\ g.of = c.value.active BY EmptyGraphOK
    <3> HIDE DEF g
    <3>3. SettingsOK(s) /\ OwnFrom(c.value, s) BY <1>2, <3>2, GraphReplaced DEF OwnFrom
    <3> HIDE DEF s
    <3> QED BY <3>1, <3>3, NormalizeOK DEF OwnFrom
  <2> QED BY <1>3, <2>1, <2>2, <2>3
<1>5. stored' \in {stored, Commanded(c)} BY DEF CommandServed
<1>6. SettingsOK(stored') /\ (OwnInv => OwnGraphs(stored', crossed))
  BY <1>1, <1>4, <1>5 DEF OwnInv, OwnFrom
<1>7. \E ok : Answer(c, stored', ok) BY DEF CommandServed
<1>8. PICK ok : Answer(c, stored', ok) BY <1>7
<1>9. PICK a : /\ calls' = (calls \ {c}) \cup {a}
               /\ DOMAIN a = CallFields /\ a.value = stored' /\ a.then = c.then /\ a.kind = c.kind /\ a.id = c.id
               /\ a.data = c.data
  BY <1>1, <1>8, AnsweredIs
<1>10. CallOK(a) /\ a.kind # "switch" BY <1>1, <1>3, <1>6, <1>9 DEF CallOK
<1> QED BY <1>3, <1>6, <1>9, <1>10, ServedCall

(* The event and the answer of a switch. *)
LEMMA ToldIs ==
    ASSUME NEW c, CallOK(c), NEW events, NEW ok, Told(c, events, ok), SettingsOK(stored')
    PROVE  \E a : /\ \A d \in calls' : \/ d \in calls \ {c}
                                       \/ d = a
                                       \/ CallOK(d) /\ d.then # "switcher" /\ d.value = stored'
                  /\ DOMAIN a = CallFields /\ a.value = stored' /\ a.then = c.then /\ a.kind = c.kind
                  /\ a.id = c.id /\ a.data = c.data
<1> DEFINE n == Stamp(calls)
           m == Stamp(calls) + 1
           e0 == [c EXCEPT !.n = n, !.then = "event"]
           a0 == [c EXCEPT !.n = m, !.ok = ok]
           e == [e0 EXCEPT !.value = stored', !.done = TRUE]
           a == [a0 EXCEPT !.value = stored', !.done = TRUE]
<1>1. \A d \in calls' : d \in calls \ {c} \/ d = e \/ d = a
  BY DEF Told
<1> HIDE DEF n, m
<1>2. /\ DOMAIN a = CallFields /\ a.value = stored' /\ a.then = c.then /\ a.kind = c.kind
      /\ a.id = c.id /\ a.data = c.data
  BY DEF CallOK, CallFields
<1>3. DOMAIN e = CallFields /\ e.value = stored' /\ e.then = "event"
  BY DEF CallOK, CallFields
<1> HIDE DEF e, a
<1>4. CallOK(e) /\ e.then # "switcher" BY <1>3 DEF CallOK
<1> QED BY <1>1, <1>2, <1>3, <1>4

(* SwitchRoutingSetup. *)
LEMMA SwitchServedOK ==
    ASSUME RoutingInv, NEW c \in calls, SwitchServed(c), UNCHANGED editorVars
    PROVE  RoutingInv'
<1>1. CallOK(c) /\ SettingsOK(stored) BY ShapesAre DEF RoutingInv
<1>2. SettingsOK(c.value) BY <1>1 DEF CallOK
<1>3. UNCHANGED shown BY DEF SwitchServed
<1>4. CASE c.id \in SetupIds(c.value) \ {c.value.active}
  <2>1. stored' = SwitchSetup(c.value, c.id) BY <1>4 DEF SwitchServed
  <2>2. /\ SettingsOK(stored') /\ stored'.active = c.id
        /\ OwnInv => OwnGraphs(stored', crossed)
    BY <1>2, <1>4, <2>1, SwitchSetupOK DEF OwnInv, OwnFrom
  <2>3. \E events, ok : Told(c, events, ok) BY <1>4 DEF SwitchServed
  <2>4. PICK events, ok : Told(c, events, ok) BY <2>3
  <2>5. PICK a : /\ \A d \in calls' : \/ d \in calls \ {c}
                                      \/ d = a
                                      \/ CallOK(d) /\ d.then # "switcher" /\ d.value = stored'
                 /\ DOMAIN a = CallFields /\ a.value = stored' /\ a.then = c.then /\ a.kind = c.kind
                 /\ a.id = c.id /\ a.data = c.data
    BY <1>1, <2>2, <2>4, ToldIs
  <2>6. CallOK(a) /\ a.value.active = a.id BY <1>1, <2>2, <2>5 DEF CallOK
  <2> QED BY <1>3, <2>2, <2>5, <2>6, ServedCall
<1>5. CASE c.id \notin SetupIds(c.value) \ {c.value.active}
  <2>1. UNCHANGED stored BY <1>5 DEF SwitchServed
  <2>2. CASE c.then = "tray"
    <3>1. calls' = calls \ {c} BY <1>5, <2>2 DEF SwitchServed
    <3>2. UNCHANGED <<past, future, toast, crossed, switcher>>
      BY DEF editorVars, historyVars, importVars
    <3> QED BY <1>3, <2>1, <3>1, <3>2, DroppedCall
  <2>3. CASE c.then # "tray"
    <3>1. Answer(c, c.value, c.id = c.value.active) BY <1>5, <2>3 DEF SwitchServed
    <3>2. PICK a : /\ calls' = (calls \ {c}) \cup {a}
                   /\ DOMAIN a = CallFields /\ a.value = c.value /\ a.then = c.then /\ a.kind = c.kind
                   /\ a.id = c.id /\ a.data = c.data /\ a.ok = (c.id = c.value.active)
      BY <1>1, <3>1, AnsweredIs
    <3>3. CallOK(a) /\ (a.ok => a.value.active = a.id) BY <1>1, <1>2, <3>2 DEF CallOK
    <3>4. OwnInv => OwnGraphs(stored, crossed) /\ OwnGraphs(a.value, crossed) BY <3>2 DEF OwnInv
    <3> QED BY <1>1, <1>3, <2>1, <3>2, <3>3, <3>4, ServedCall
  <2> QED BY <2>2, <2>3
<1> QED BY <1>4, <1>5
-----------------------------------------------------------------------------
(* The invariant holds when the window opens. *)
LEMMA RoutingStart == RoutingInit => RoutingInv
<1> SUFFICES ASSUME RoutingInit PROVE RoutingInv OBVIOUS
<1>1. /\ stored \in FirstSettings /\ shown = stored /\ calls = {} /\ past = <<>> /\ future = <<>>
      /\ toast = <<>> /\ switcher = Idle /\ crossed = {}
  BY DEF RoutingInit, SyncInit
<1>2. SettingsOK(stored) /\ OwnGraphs(stored, crossed) BY <1>1, FirstSettingsNormal
<1>3. ShapesInv BY <1>1, <1>2, EmptyIsList, ShapesAre DEF Graphs
<1>4. SwitcherInv BY <1>1 DEF SwitcherInv, Idle
<1>5. OwnInv BY <1>1, <1>2, EmptyIsList DEF OwnInv
<1> QED BY <1>1, <1>3, <1>4, <1>5 DEF RoutingInv

(* Every step of the screen and of Go keeps it. *)
LEMMA RoutingStep == RoutingInv /\ [RoutingNext]_routingVars => RoutingInv'
<1> SUFFICES ASSUME RoutingInv, [RoutingNext]_routingVars PROVE RoutingInv' OBVIOUS
<1>1. CASE UNCHANGED routingVars
  <2>1. UNCHANGED <<shown, stored, calls, past, future, toast, crossed, switcher>>
    BY <1>1 DEF routingVars, syncVars, editorVars, historyVars, importVars
  <2>2. DOMAIN switcher = DOMAIN Idle BY ShapesAre DEF RoutingInv
  <2> QED BY <2>1, <2>2, QuietOK
<1>2. CASE Edit \/ Undo \/ Redo \/ ToastUndo
  BY <1>2, EditOK, UndoOK, ToastUndoOK
<1>3. CASE \/ \E a \in HideableActions : HideAction(a) \/ ShowAction(a)
           \/ ToastGone \/ GeoSkip \/ OpenDelete \/ CloseDelete
  BY <1>3, LocalOK
<1>4. CASE \/ ImportRouting
           \/ \E who \in {"panel", "banner"} : GeoRun(who)
           \/ \E id \in SetupIds(stored) : TraySwitch(id) /\ UNCHANGED editorVars
  BY <1>4, AsksOK
<1>5. CASE \/ \E id \in SetupIds(shown) : SwitchTo(id)
           \/ DeleteSetup
           \/ \E id \in NewSetups : CreateSetup(id)
           \/ RenameSetup \/ SaveSchedule
  BY <1>5, SetupMenuOK
<1>6. ASSUME NEW c \in calls, ImportHeard(c) \/ GeoHeard(c) \/ SwitcherHeard(c) \/ SettingsReplaced(c)
      PROVE  RoutingInv'
  BY <1>6, ImportHeardOK, GeoHeardOK, SwitcherHeardOK, ReplacedOK
<1>7. CASE ServeSettings /\ UNCHANGED editorVars
  <2>1. PICK c \in calls : \/ SaveServed(c) \/ SaveRefused(c)
                           \/ ReadSettings(c) \/ SwitchServed(c) \/ CommandServed(c)
    BY <1>7 DEF ServeSettings
  <2> QED BY <1>7, <2>1, SaveServedOK, ReadSettingsOK, SwitchServedOK, CommandServedOK
<1> QED BY <1>1, <1>2, <1>3, <1>4, <1>5, <1>6, <1>7 DEF RoutingNext

(***************************************************************************)
(* RoutingInv holds throughout: the parts above put together.              *)
(***************************************************************************)
THEOREM RoutingInvariance == RoutingSpec => []RoutingInv
BY RoutingStart, RoutingStep, PTL DEF RoutingSpec

(* SetupsKeepTheirGraphs is part of it. *)
LEMMA OwnMeansKept == RoutingInv => SetupsKeepTheirGraphs
<1> SUFFICES ASSUME RoutingInv, NEW s \in {shown, stored}
             PROVE  /\ s.active \notin crossed => s.graph.of = s.active
                    /\ \A i \in DOMAIN s.setups :
                          s.setups[i].id \notin crossed => s.setups[i].graph.of = s.setups[i].id
  BY DEF SetupsKeepTheirGraphs
<1>1. OwnGraphs(s, crossed) /\ SettingsOK(s) BY ShapesAre DEF RoutingInv, OwnInv
<1> QED BY <1>1, SetupFacts DEF OwnGraphs

(* WiresLand follows: a target is an action something goes to, or a server in use. *)
LEMMA OKMeansLand == RoutingInv => WiresLand
<1> DEFINE g == shown.graph
<1> SUFFICES ASSUME RoutingInv PROVE WiresLand OBVIOUS
<1>1. GraphOK(g) BY ShapesAre DEF RoutingInv, SettingsOK
<1> HIDE DEF g
<1>2. Cardinality(RuleSeqIds(g.rules)) = Len(g.rules)
  BY <1>1, DistinctCount DEF GraphOK, RuleSeqIds
<1>3. \A i \in DOMAIN g.rules : g.rules[i].server # None => g.rules[i].action = "proxy"
  BY <1>1, RulesAreOK DEF RuleOK
<1>4. ASSUME NEW e \in Edges(g) PROVE e[2] \in Nodes(g, hidden)
  <2>1. ASSUME e[2] \in Actions PROVE e[2] \in Nodes(g, hidden)
    BY <2>1 DEF Nodes, ActionNodes, Inbound
  <2>2. CASE e = <<DEFAULT_NODE, TargetOf(g.default_action, g.default_server)>>
    <3>1. g.default_action \in Actions BY <1>1 DEF GraphOK
    <3>2. e[2] = TargetOf(g.default_action, g.default_server) BY <2>2
    <3>3. CASE g.default_action = "proxy" /\ g.default_server # None
      BY <3>2, <3>3 DEF TargetOf, Nodes, ServerIds
    <3>4. CASE ~(g.default_action = "proxy" /\ g.default_server # None)
      BY <2>1, <3>1, <3>2, <3>4 DEF TargetOf
    <3> QED BY <3>3, <3>4
  <2>3. ASSUME NEW i \in DOMAIN g.rules, g.rules[i].action # None,
               e = <<g.rules[i].id, TargetOf(g.rules[i].action, g.rules[i].server)>>
        PROVE  e[2] \in Nodes(g, hidden)
    <3>1. g.rules[i].action \in Actions BY <1>1, <2>3, RulesAreOK DEF RuleOK
    <3>2. e[2] = TargetOf(g.rules[i].action, g.rules[i].server) BY <2>3
    <3>3. CASE g.rules[i].action = "proxy" /\ g.rules[i].server # None
      <4>1. e[2] = g.rules[i].server BY <3>2, <3>3 DEF TargetOf
      <4>2. e[2] \in ServerIds(g) BY <3>3, <4>1 DEF ServerIds
      <4> QED BY <4>2 DEF Nodes
    <3>4. CASE ~(g.rules[i].action = "proxy" /\ g.rules[i].server # None)
      BY <2>1, <3>1, <3>2, <3>4 DEF TargetOf
    <3> QED BY <3>3, <3>4
  <2> QED BY <1>4, <2>2, <2>3 DEF Edges
<1> QED BY <1>2, <1>3, <1>4 DEF WiresLand, g

(***************************************************************************)
(* No setup's graph is written into another by edits, undo, switches from  *)
(* the window and the tray, deletions, refused and reordered saves: only   *)
(* by an import answered after a switch and by the Undo of its toast       *)
(* pressed after one, each into the setup on screen.  (normalizeSetups,    *)
(* SwitchSetup, SetupSwitcher, the effect on active_routing_setup.)        *)
(***************************************************************************)
THEOREM SetupsKeepTheirGraphsHolds == RoutingSpec => []SetupsKeepTheirGraphs
BY RoutingInvariance, OwnMeansKept, PTL

(***************************************************************************)
(* Every wire ends at a node on the canvas, no rule keeps a server it does *)
(* not use, no two rules share an id (serverIds, inboundCounts and         *)
(* derivedNodes in RoutingView.tsx), after any sequence of edits.          *)
(***************************************************************************)
THEOREM WiresLandHolds == RoutingSpec => []WiresLand
BY RoutingInvariance, OKMeansLand, PTL

-----------------------------------------------------------------------------
(* The card of a rule (RuleCard): the entries a list has more than once. *)

(* A list without any. *)
LEMMA InjectiveOnce ==
    ASSUME NEW s, IsInjective(s)
    PROVE  Repeated(s) = {}
BY DEF IsInjective, Repeated

(* Adding an entry that is not there yet. *)
LEMMA AppendEntry ==
    ASSUME NEW s, IsList(s), NEW x, x \notin Range(s)
    PROVE  Repeated(Append(s, x)) \subseteq Repeated(s)
<1> DEFINE t == Append(s, x)
<1>1. /\ IsList(t) /\ Len(t) = Len(s) + 1 /\ t[Len(s) + 1] = x
      /\ \A i \in 1 .. Len(s) : t[i] = s[i]
  BY AppendList
<1>2. DOMAIN t = 1 .. Len(s) + 1 /\ DOMAIN s = 1 .. Len(s) /\ Len(s) \in Nat
  BY <1>1, ListFacts
<1>3. \A i \in 1 .. Len(s) : t[i] \in Range(s)  BY <1>1, ListFacts
<1> HIDE DEF t
<1>4. \A a \in 1 .. Len(s) + 1 : a \in 1 .. Len(s) \/ a = Len(s) + 1  BY <1>2
<1>5. ASSUME NEW a \in DOMAIN t, NEW b \in DOMAIN t, a # b, t[a] = t[b]
      PROVE  t[a] \in Repeated(s)
  <2>1. a \in 1 .. Len(s) /\ b \in 1 .. Len(s) BY <1>1, <1>2, <1>3, <1>4, <1>5
  <2>2. t[a] = s[a] /\ t[b] = s[b] BY <1>1, <2>1
  <2> QED BY <1>2, <1>5, <2>1, <2>2 DEF Repeated
<1>6. Repeated(t) \subseteq Repeated(s) BY <1>5 DEF Repeated
<1> QED BY <1>6 DEF t

(* Contains, by the entries of the list. *)
LEMMA ContainsIsRange ==
    ASSUME NEW s, IsList(s), NEW x
    PROVE  Contains(s, x) <=> x \in Range(s)
BY ListFacts DEF Contains

(* A filtered list has no entry more often. *)
LEMMA KeepEntries ==
    ASSUME NEW s, IsList(s), NEW places
    PROVE  Repeated(KeepAt(s, places)) \subseteq Repeated(s)
<1> DEFINE t == KeepAt(s, places)
<1>1. s \in Seq(Range(s)) BY DEF IsList
<1>2. PICK at \in [1 .. Len(t) -> places \cap (1 .. Len(s))] :
        /\ \A i \in 1 .. Len(t) : t[i] = s[at[i]]
        /\ \A i, j \in 1 .. Len(t) : i < j => at[i] < at[j]
  BY <1>1, KeepAtPlaces
<1>3. IsList(t) BY KeepAtList
<1>4. DOMAIN t = 1 .. Len(t) /\ DOMAIN s = 1 .. Len(s) /\ Len(t) \in Nat /\ Len(s) \in Nat BY <1>3, ListFacts
<1> HIDE DEF t
<1>5. ASSUME NEW a \in DOMAIN t, NEW b \in DOMAIN t, a # b, t[a] = t[b]
      PROVE  t[a] \in Repeated(s)
  <2>1. a \in 1 .. Len(t) /\ b \in 1 .. Len(t) BY <1>4
  <2>2. at[a] \in 1 .. Len(s) /\ at[b] \in 1 .. Len(s) BY <1>2, <2>1
  <2>3. at[a] # at[b]
    <3>1. a < b \/ b < a BY <1>4, <1>5, <2>1
    <3>2. at[a] < at[b] \/ at[b] < at[a] BY <1>2, <2>1, <3>1
    <3> QED BY <1>4, <2>2, <3>2
  <2>4. t[a] = s[at[a]] /\ t[b] = s[at[b]] BY <1>2, <2>1
  <2> QED BY <1>4, <1>5, <2>2, <2>3, <2>4 DEF Repeated
<1>6. Repeated(t) \subseteq Repeated(s) BY <1>5 DEF Repeated
<1> QED BY <1>6 DEF t

(* One list after another that shares no entry with it. *)
LEMMA ConcatEntries ==
    ASSUME NEW s, NEW t, IsList(s), IsList(t), Range(s) \cap Range(t) = {}
    PROVE  Repeated(s \o t) \subseteq Repeated(s) \cup Repeated(t)
<1> DEFINE u == s \o t
           m == Len(s)
           n == Len(t)
<1>1. /\ IsList(u) /\ Len(u) = m + n
      /\ \A i \in 1 .. m + n : u[i] = IF i <= m THEN s[i] ELSE t[i - m]
  BY ConcatList
<1>2. DOMAIN u = 1 .. m + n /\ DOMAIN s = 1 .. m /\ DOMAIN t = 1 .. n /\ m \in Nat /\ n \in Nat
  BY <1>1, ListFacts
<1>3. (\A i \in 1 .. m : s[i] \in Range(s)) /\ (\A i \in 1 .. n : t[i] \in Range(t)) BY ListFacts
<1> HIDE DEF u, m, n
<1>4. ASSUME NEW a \in 1 .. m + n, NEW b \in 1 .. m + n, a # b, u[a] = u[b]
      PROVE  u[a] \in Repeated(s) \cup Repeated(t)
  <2>1. CASE a <= m /\ b <= m
    <3>1. a \in 1 .. m /\ b \in 1 .. m /\ s[a] = s[b] /\ u[a] = s[a]
      BY <1>1, <1>2, <1>4, <2>1
    <3> QED BY <1>2, <1>4, <3>1 DEF Repeated
  <2>2. CASE a > m /\ b > m
    <3>1. a - m \in 1 .. n /\ b - m \in 1 .. n /\ a - m # b - m BY <1>2, <1>4, <2>2
    <3>2. t[a - m] = t[b - m] /\ u[a] = t[a - m] BY <1>1, <1>2, <1>4, <2>2
    <3> QED BY <1>2, <3>1, <3>2 DEF Repeated
  <2>3. CASE a <= m /\ b > m
    <3>1. a \in 1 .. m /\ b - m \in 1 .. n BY <1>2, <2>3
    <3>2. s[a] = t[b - m] BY <1>1, <1>2, <1>4, <2>3
    <3> QED BY <1>3, <3>1, <3>2
  <2>4. CASE a > m /\ b <= m
    <3>1. b \in 1 .. m /\ a - m \in 1 .. n BY <1>2, <2>4
    <3>2. s[b] = t[a - m] BY <1>1, <1>2, <1>4, <2>4
    <3> QED BY <1>3, <3>1, <3>2
  <2> QED BY <1>2, <2>1, <2>2, <2>3, <2>4
<1>5. Repeated(u) \subseteq Repeated(s) \cup Repeated(t) BY <1>2, <1>4 DEF Repeated
<1> QED BY <1>5 DEF u

(* A finite set in some order. *)
LEMMA SetInOrder ==
    ASSUME NEW S, IsFiniteSet(S)
    PROVE  IsList(SetToSeq(S)) /\ Repeated(SetToSeq(S)) = {} /\ Range(SetToSeq(S)) \subseteq S
<1> DEFINE n == Cardinality(S)
           q == SetToSeq(S)
<1>1. n \in Nat /\ ExistsBijection(1 .. n, S) BY FS_CardinalityType
<1>2. \E f \in [1 .. n -> S] : \A a, b \in 1 .. n : f[a] = f[b] => a = b
  BY <1>1 DEF ExistsBijection, Bijection, Injection, IsInjective
<1>3. \E f \in [1 .. n -> S] : IsInjective(f)  BY <1>2 DEF IsInjective
<1>4. q \in [1 .. n -> S] /\ IsInjective(q)  BY <1>3 DEF SetToSeq
<1>5. q \in Seq(S) BY <1>1, <1>4
<1> QED BY <1>4, <1>5, SeqIsList, InjectiveOnce

(* The programs a rule may have are finitely many. *)
LEMMA AppsFinite == IsFiniteSet(Fits("apps"))
<1> DEFINE A == Installed \cup {"typed"}
           f == [a \in A |-> <<"app", a>>]
<1>1. IsFiniteSet(A) BY CardAssumption, FS_AddElement
<1>2. Fits("apps") = {<<"app", a>> : a \in A} BY DEF Fits
<1>3. f \in Surjection(A, Fits("apps")) BY <1>2 DEF Surjection
<1> QED BY <1>1, <1>3, FS_Surjection

-----------------------------------------------------------------------------
(* What was entered into a rule. *)
EntriesOf(r) == UNION {Range(r.conditions[j].values) : j \in DOMAIN r.conditions}

(* Two names for the entries of a list. *)
LEMMA ToSetIsRange == ASSUME NEW s PROVE ToSet(s) = Range(s)
BY DEF ToSet, Range

(* Entered, as a function of the rule. *)
LEMMA EnteredIs == Entered = EntriesOf(rule)
BY ToSetIsRange DEF Entered, EntriesOf, Values

(* A rule with one condition replaced. *)
LEMMA ConditionReplaced ==
    ASSUME NEW r, RuleFits(r), NEW i \in DOMAIN r.conditions, NEW c, ConditionFits(c, r.twice),
           r.kind # "logical" => c.kind = r.kind
    PROVE  LET n == [r EXCEPT !.conditions[i] = c] IN
           /\ RuleFits(n) /\ DOMAIN n.conditions = DOMAIN r.conditions
           /\ n.conditions[i] = c /\ \A j \in DOMAIN r.conditions : j # i => n.conditions[j] = r.conditions[j]
           /\ EntriesOf(n) \subseteq EntriesOf(r) \cup Range(c.values)
<1> DEFINE n == [r EXCEPT !.conditions[i] = c]
           old == r.conditions
           new == [old EXCEPT ![i] = c]
<1>1. n = [r EXCEPT !.conditions = new] OBVIOUS
<1>2. n.conditions = new /\ n.kind = r.kind /\ n.dns = r.dns /\ n.twice = r.twice /\ DOMAIN n = DOMAIN r
  BY <1>1 DEF RuleFits
<1>3. IsList(old) /\ Len(old) \in Nat /\ DOMAIN old = 1 .. Len(old) BY ListFacts DEF RuleFits
<1>4. new = [j \in 1 .. Len(old) |-> new[j]] BY <1>3
<1>5. IsList(new) /\ Len(new) = Len(old) BY <1>3, <1>4, MapIsList
<1>6. DOMAIN new = DOMAIN old /\ new[i] = c /\ \A j \in DOMAIN old : j # i => new[j] = old[j] OBVIOUS
<1> HIDE DEF n, new
<1>7. \A j \in DOMAIN new : ConditionFits(new[j], r.twice) BY <1>6 DEF RuleFits
<1>8. n.kind # "logical" => Len(new) = 1 /\ new[1].kind = n.kind
  <2>1. SUFFICES ASSUME n.kind # "logical" PROVE Len(new) = 1 /\ new[1].kind = n.kind  OBVIOUS
  <2>2. Len(old) = 1 /\ r.kind # "logical" BY <1>2, <2>1 DEF RuleFits
  <2>3. i = 1 BY <1>3, <2>2
  <2> QED BY <1>2, <1>5, <1>6, <2>2, <2>3
<1>9. RuleFits(n) BY <1>2, <1>5, <1>7, <1>8 DEF RuleFits
<1>10. EntriesOf(n) \subseteq EntriesOf(r) \cup Range(c.values)
  BY <1>2, <1>6 DEF EntriesOf
<1> QED BY <1>2, <1>6, <1>9, <1>10 DEF n

(* SetValues: other entries for one condition. *)
LEMMA ValuesReplaced ==
    ASSUME RuleFits(rule), NEW i, At(i), NEW vs, SetValues(i, vs), IsList(vs), Repeated(vs) \subseteq rule.twice,
           Range(vs) \subseteq Fits(rule.conditions[i].kind)
    PROVE  /\ RuleFits(rule') /\ DOMAIN rule'.conditions = DOMAIN rule.conditions
           /\ \A j \in DOMAIN rule.conditions : rule'.conditions[j].kind = rule.conditions[j].kind
           /\ EntriesOf(rule') \subseteq EntriesOf(rule) \cup Range(vs)
<1> DEFINE old == rule.conditions[i]
           c == [old EXCEPT !.values = vs]
<1>1. ConditionFits(old, rule.twice) /\ i \in DOMAIN rule.conditions BY DEF RuleFits, At
<1>2. DOMAIN c = DOMAIN old /\ c.kind = old.kind /\ c.values = vs BY <1>1 DEF ConditionFits
<1>3. rule' = [rule EXCEPT !.conditions[i] = c] BY DEF SetValues
<1> HIDE DEF c
<1>4. ConditionFits(c, rule.twice) BY <1>1, <1>2 DEF ConditionFits
<1>5. rule.kind # "logical" => c.kind = rule.kind
  <2>1. SUFFICES ASSUME rule.kind # "logical" PROVE c.kind = rule.kind  OBVIOUS
  <2>2. Len(rule.conditions) = 1 /\ rule.conditions[1].kind = rule.kind BY <2>1 DEF RuleFits
  <2>3. DOMAIN rule.conditions = 1 .. 1 BY <2>2, ListFacts DEF RuleFits
  <2>4. i = 1 BY <1>1, <2>3
  <2> QED BY <1>2, <2>2, <2>4
<1> QED BY <1>1, <1>2, <1>3, <1>4, <1>5, ConditionReplaced

(* There are never more conditions than the bound. *)
LEMMA ConditionsInRange ==
    ASSUME NEW r, RuleFits(r)
    PROVE  DOMAIN r.conditions \subseteq 1 .. MaxConditions
<1>1. Len(r.conditions) \in Nat /\ DOMAIN r.conditions = 1 .. Len(r.conditions) BY ListFacts DEF RuleFits
<1>2. Len(r.conditions) <= MaxConditions /\ MaxConditions \in Nat BY CardAssumption DEF RuleFits
<1> QED BY <1>1, <1>2

(* What may be typed fits. *)
LEMMA TypableFits ==
    ASSUME NEW kind \in Kinds
    PROVE  Typable(kind) \subseteq Fits(kind)
BY DEF Kinds, Typable, Fits

(* No program, protocol or whole code is a half-typed one. *)
LEMMA Given ==
    ASSUME given \subseteq {<<"code", Half>>}
    PROVE  /\ \A x \in Protocols : <<"protocol", x>> \notin given
           /\ \A x \in Codes : <<"code", x>> \notin given
           /\ Fits("apps") \cap given = {} /\ Fits("domain_regex") \cap given = {}
BY CardAssumption DEF Fits, Typable, DomainAsPattern, PlainDomain

-----------------------------------------------------------------------------
(* CardInv but for the lists of programs. *)
FieldsInv == RuleFits(rule) /\ DraftsFit /\ GivenFits /\ PickerFits

(* The parts of FieldsInv after a step that leaves most of it alone. *)

(* Without the focus and the picker, entries that were never given up. *)
LEMMA ClickKeeps ==
    ASSUME FieldsInv, Clicks, RuleFits(rule'), Entered' \cap given = {},
           UNCHANGED <<focus, picker, given>>,
           DOMAIN drafts' = DOMAIN drafts, \A i \in DOMAIN drafts : drafts'[i] \in {drafts[i], Nothing}
    PROVE  FieldsInv'
<1>1. DraftsFit' BY DEF FieldsInv, DraftsFit, Clicks
<1>2. GivenFits' BY DEF FieldsInv, GivenFits
<1>3. PickerFits' BY DEF FieldsInv, PickerFits, Clicks, TypedAppsStay, NoPicker
<1> QED BY <1>1, <1>2, <1>3 DEF FieldsInv

(* A step that changes nothing of the rule, the fields and the picker. *)
LEMMA RestKeeps ==
    ASSUME FieldsInv, UNCHANGED <<rule, focus, drafts, picker, given>>
    PROVE  FieldsInv'
<1>1. RuleFits(rule)' BY DEF FieldsInv
<1>2. DraftsFit' BY DEF FieldsInv, DraftsFit, At
<1>3. GivenFits' BY DEF FieldsInv, GivenFits, Entered, Values
<1>4. PickerFits' BY DEF FieldsInv, PickerFits, TypedAppsStay, Values, At
<1> QED BY <1>1, <1>2, <1>3, <1>4 DEF FieldsInv

-----------------------------------------------------------------------------
(* One lemma per action. *)

(* EntryEditor: typing takes the focus. *)
LEMMA TypeKeeps ==
    ASSUME FieldsInv, NEW i \in 1 .. MaxConditions, NEW v, Type(i, v)
    PROVE  FieldsInv'
<1>0. UNCHANGED <<rule, picker>> /\ At(i) /\ focus \in {0, i} /\ picker.at = 0 /\ focus' = i
      /\ drafts' = [drafts EXCEPT ![i] = v] /\ given' = given \ {v} /\ v \in Typable(rule.conditions[i].kind)
  BY DEF Type
<1>1. RuleFits(rule)' BY <1>0 DEF FieldsInv
<1>2. DraftsFit' BY <1>0 DEF FieldsInv, DraftsFit, At
<1>3. GivenFits' BY <1>0 DEF FieldsInv, GivenFits, Entered, Values
<1>4. PickerFits' BY <1>0 DEF FieldsInv, PickerFits, TypedAppsStay
<1> QED BY <1>1, <1>2, <1>3, <1>4 DEF FieldsInv

(* The text of the field with the focus becomes an entry. *)
LEMMA CommitKeeps ==
    ASSUME FieldsInv, focus # 0, Commit(focus), focus' \in {0, focus}, UNCHANGED picker
    PROVE  FieldsInv'
<1> DEFINE x == drafts[focus]
           vs == Values(focus)
<1>1. At(focus) /\ picker.at = 0 /\ x \in (Typable(rule.conditions[focus].kind) \ given) \cup {Nothing}
  BY DEF FieldsInv, DraftsFit
<1>2. ConditionFits(rule.conditions[focus], rule.twice) BY <1>1 DEF FieldsInv, RuleFits, At
<1>3. IsList(vs) /\ Repeated(vs) \subseteq rule.twice /\ Range(vs) \subseteq Fits(rule.conditions[focus].kind)
  BY <1>2 DEF ConditionFits, Values
<1>4. Range(vs) \subseteq EntriesOf(rule) BY <1>1 DEF EntriesOf, Values, At
<1>5. /\ IsList(Added(vs, x)) /\ Repeated(Added(vs, x)) \subseteq rule.twice
      /\ Range(Added(vs, x)) \subseteq Fits(rule.conditions[focus].kind)
      /\ Range(Added(vs, x)) \cap given = {}
  <2>1. Range(vs) \cap given = {} BY <1>4, EnteredIs DEF FieldsInv, GivenFits
  <2>2. CASE x = Nothing \/ Contains(vs, x) BY <1>3, <2>1, <2>2 DEF Added
  <2>3. CASE x # Nothing /\ ~Contains(vs, x)
    <3>1. Added(vs, x) = Append(vs, x) BY <2>3 DEF Added
    <3>2. x \notin Range(vs) BY <1>3, <2>3, ContainsIsRange
    <3>3. x \in Fits(rule.conditions[focus].kind) /\ x \notin given
      BY <1>1, <1>2, <2>3, TypableFits DEF ConditionFits
    <3> QED BY <1>3, <2>1, <3>1, <3>2, <3>3, AppendEntry, AppendList
  <2> QED BY <2>2, <2>3
<1>6. SetValues(focus, Added(vs, x)) /\ drafts' = [drafts EXCEPT ![focus] = Nothing] /\ given' = given
  BY DEF Commit
<1>7. RuleFits(rule) BY DEF FieldsInv
<1>8. /\ RuleFits(rule') /\ DOMAIN rule'.conditions = DOMAIN rule.conditions
      /\ EntriesOf(rule') \subseteq EntriesOf(rule) \cup Range(Added(vs, x))
  BY <1>1, <1>5, <1>6, <1>7, ValuesReplaced
<1>9. DraftsFit'
  <2>1. focus \in 1 .. MaxConditions BY <1>1, <1>7, ConditionsInRange DEF At
  <2>2. DOMAIN drafts' = 1 .. MaxConditions /\ \A i \in 1 .. MaxConditions : drafts'[i] = Nothing
    BY <1>6, <2>1 DEF FieldsInv, DraftsFit
  <2>3. At(focus)' \/ focus' = 0 BY <1>1, <1>8 DEF At
  <2>4. picker'.at = 0 BY <1>1
  <2> QED BY <2>1, <2>2, <2>3, <2>4 DEF DraftsFit
<1>10. GivenFits'
  <2>1. Entered' = EntriesOf(rule') BY ToSetIsRange DEF Entered, EntriesOf, Values
  <2> QED BY <1>5, <1>6, <1>8, <2>1, EnteredIs DEF FieldsInv, GivenFits
<1>11. PickerFits' BY <1>1 DEF FieldsInv, PickerFits, TypedAppsStay
<1> QED BY <1>8, <1>9, <1>10, <1>11 DEF FieldsInv

(* A suggestion, and what was half typed is given up. *)
LEMMA PickCodeKeeps ==
    ASSUME FieldsInv, NEW code \in Codes, PickCode(code)
    PROVE  FieldsInv'
<1> DEFINE x == <<"code", code>>
           vs == Values(focus)
<1>0. /\ focus # 0 /\ rule.conditions[focus].kind = "geosite" /\ drafts[focus] = <<"code", Half>>
      /\ ~Contains(vs, x) /\ SetValues(focus, Added(vs, x))
      /\ drafts' = [drafts EXCEPT ![focus] = Nothing]
      /\ given' = given \cup ({<<"code", Half>>} \ Entered)
      /\ UNCHANGED <<focus, picker>>
  BY DEF PickCode
<1>1. At(focus) /\ picker.at = 0 BY <1>0 DEF FieldsInv, DraftsFit
<1>2. ConditionFits(rule.conditions[focus], rule.twice) BY <1>1 DEF FieldsInv, RuleFits, At
<1>3. IsList(vs) /\ Repeated(vs) \subseteq rule.twice /\ Range(vs) \subseteq Fits("geosite")
  BY <1>0, <1>2 DEF ConditionFits, Values
<1>4. Range(vs) \subseteq EntriesOf(rule) BY <1>1 DEF EntriesOf, Values, At
<1>5. x \in Fits("geosite") /\ x # <<"code", Half>> /\ x # Nothing
  <2>1. x \in Fits("geosite") BY DEF Fits, Typable
  <2>2. code # Half BY CardAssumption
  <2> QED BY <2>1, <2>2 DEF Nothing
<1>6. Added(vs, x) = Append(vs, x) /\ x \notin Range(vs) BY <1>0, <1>3, <1>5, ContainsIsRange DEF Added
<1> HIDE DEF x
<1>7. IsList(Added(vs, x)) /\ Repeated(Added(vs, x)) \subseteq rule.twice /\ Range(Added(vs, x)) = Range(vs) \cup {x}
  <2>1. Repeated(Append(vs, x)) \subseteq rule.twice BY <1>3, <1>6, AppendEntry
  <2>2. IsList(Append(vs, x)) /\ Range(Append(vs, x)) = Range(vs) \cup {x} BY <1>3, AppendList
  <2> QED BY <1>6, <2>1, <2>2
<1>8. /\ RuleFits(rule') /\ DOMAIN rule'.conditions = DOMAIN rule.conditions
      /\ EntriesOf(rule') \subseteq EntriesOf(rule) \cup Range(Added(vs, x))
  <2>1. RuleFits(rule) BY DEF FieldsInv
  <2>2. Range(Added(vs, x)) \subseteq Fits(rule.conditions[focus].kind) BY <1>0, <1>3, <1>5, <1>7
  <2> QED BY <1>0, <1>1, <1>7, <2>1, <2>2, ValuesReplaced
<1>9. DraftsFit'
  <2>1. focus \in 1 .. MaxConditions BY <1>1, ConditionsInRange DEF At, FieldsInv
  <2>2. DOMAIN drafts' = 1 .. MaxConditions /\ \A i \in 1 .. MaxConditions : drafts'[i] = Nothing
    BY <1>0, <2>1 DEF FieldsInv, DraftsFit
  <2>3. At(focus)' BY <1>0, <1>1, <1>8 DEF At
  <2>4. picker'.at = 0 BY <1>0, <1>1
  <2> QED BY <1>0, <2>1, <2>2, <2>3, <2>4 DEF DraftsFit
<1>10. GivenFits'
  <2>1. Entered' = EntriesOf(rule') BY ToSetIsRange DEF Entered, EntriesOf, Values
  <2>2. Entered' \subseteq Entered \cup {x} BY <1>4, <1>7, <1>8, <2>1, EnteredIs
  <2>3. given \subseteq {<<"code", Half>>} /\ Entered \cap given = {} BY DEF FieldsInv, GivenFits
  <2> QED BY <1>0, <1>5, <2>2, <2>3 DEF GivenFits
<1>11. PickerFits' BY <1>0, <1>1 DEF FieldsInv, PickerFits, TypedAppsStay
<1> QED BY <1>8, <1>9, <1>10, <1>11 DEF FieldsInv

(* Other entries under one condition, by a click. *)
LEMMA ValuesClicked ==
    ASSUME FieldsInv, Clicks, NEW i, At(i), NEW vs, SetValues(i, vs), IsList(vs), Repeated(vs) \subseteq rule.twice,
           Range(vs) \subseteq Fits(rule.conditions[i].kind), Range(vs) \cap given = {},
           UNCHANGED <<focus, drafts, picker, given>>
    PROVE  FieldsInv'
<1>1. RuleFits(rule) BY DEF FieldsInv
<1>2. RuleFits(rule') /\ EntriesOf(rule') \subseteq EntriesOf(rule) \cup Range(vs)
  BY <1>1, ValuesReplaced
<1>3. Entered' = EntriesOf(rule') BY ToSetIsRange DEF Entered, EntriesOf, Values
<1>4. Entered' \cap given = {} BY <1>2, <1>3, EnteredIs DEF FieldsInv, GivenFits
<1> QED BY <1>2, <1>4, ClickKeeps

(* A choice of a closed set. *)
LEMMA PickChoiceKeeps ==
    ASSUME FieldsInv, NEW i, NEW p \in Protocols, PickChoice(i, p)
    PROVE  FieldsInv'
<1> DEFINE x == <<"protocol", p>>
           vs == Values(i)
<1>0. /\ Clicks /\ At(i) /\ rule.conditions[i].kind = "protocol" /\ ~Contains(vs, x)
      /\ SetValues(i, Append(vs, x)) /\ UNCHANGED <<focus, drafts, picker, given>>
  BY DEF PickChoice
<1>1. ConditionFits(rule.conditions[i], rule.twice) BY <1>0 DEF FieldsInv, RuleFits, At
<1>2. IsList(vs) /\ Repeated(vs) \subseteq rule.twice /\ Range(vs) \subseteq Fits("protocol")
  BY <1>0, <1>1 DEF ConditionFits, Values
<1>3. Range(vs) \cap given = {}
  <2>1. Range(vs) \subseteq EntriesOf(rule) BY <1>0 DEF EntriesOf, Values, At
  <2> QED BY <2>1, EnteredIs DEF FieldsInv, GivenFits
<1>4. x \in Fits("protocol") BY DEF Fits
<1>5. x \notin given BY Given DEF FieldsInv, GivenFits
<1>6. x \notin Range(vs) BY <1>0, <1>2, ContainsIsRange
<1>7. IsList(Append(vs, x)) /\ Repeated(Append(vs, x)) \subseteq rule.twice /\ Range(Append(vs, x)) = Range(vs) \cup {x}
  BY <1>2, <1>6, AppendEntry, AppendList
<1> QED BY <1>0, <1>2, <1>3, <1>4, <1>5, <1>7, ValuesClicked

(* One entry removed. *)
LEMMA RemoveValueKeeps ==
    ASSUME FieldsInv, NEW i, NEW v, RemoveValue(i, v)
    PROVE  FieldsInv'
<1> DEFINE vs == Values(i)
           new == KeepAt(vs, {j \in DOMAIN vs : vs[j] # v})
<1>0. Clicks /\ At(i) /\ SetValues(i, new) /\ UNCHANGED <<focus, drafts, picker, given>>
  BY DEF RemoveValue
<1>1. ConditionFits(rule.conditions[i], rule.twice) BY <1>0 DEF FieldsInv, RuleFits, At
<1>2. IsList(vs) /\ Repeated(vs) \subseteq rule.twice /\ Range(vs) \subseteq Fits(rule.conditions[i].kind)
  BY <1>1 DEF ConditionFits, Values
<1>3. Range(vs) \cap given = {}
  <2>1. Range(vs) \subseteq EntriesOf(rule) BY <1>0 DEF EntriesOf, Values, At
  <2> QED BY <2>1, EnteredIs DEF FieldsInv, GivenFits
<1>4. IsList(new) /\ Repeated(new) \subseteq rule.twice BY <1>2, KeepAtList, KeepEntries
<1>5. Range(new) \subseteq Range(vs) BY <1>2, KeepAtList, ListFacts
<1> HIDE DEF new
<1> QED BY <1>0, <1>2, <1>3, <1>4, <1>5, ValuesClicked

(* The other kind of names, with what was entered as patterns. *)
LEMMA SwitchKeeps ==
    ASSUME FieldsInv, SwitchDomainMode
    PROVE  FieldsInv'
<1> DEFINE old == rule.conditions[1]
           vs == old.values
           next == IF rule.kind = "domains" THEN "domain_regex" ELSE "domains"
           new == [j \in DOMAIN vs |-> DomainAsPattern(vs[j])]
           c == [old EXCEPT !.kind = next, !.values = new]
<1>0. /\ Clicks /\ rule.kind \in {"domains", "domain_regex"} /\ (rule.kind = "domain_regex" => vs = <<>>)
      /\ UNCHANGED <<focus, drafts, picker, given>>
  BY DEF SwitchDomainMode, Values
<1>1. /\ DOMAIN rule = {"kind", "action", "invert", "dns", "conditions", "twice"} /\ rule.dns \in Resolvers \cup {""}
      /\ IsList(rule.conditions) /\ Len(rule.conditions) = 1 /\ old.kind = rule.kind
      /\ \A i \in DOMAIN rule.conditions : ConditionFits(rule.conditions[i], rule.twice)
  BY <1>0 DEF FieldsInv, RuleFits
<1>2. DOMAIN rule.conditions = 1 .. 1 BY <1>1, ListFacts
<1>3. ConditionFits(old, rule.twice)
  <2>1. 1 \in DOMAIN rule.conditions BY <1>2
  <2> QED BY <1>1, <2>1
<1>4. IsList(vs) /\ Repeated(vs) \subseteq rule.twice /\ Range(vs) \subseteq Fits(rule.kind) BY <1>1, <1>3 DEF ConditionFits
<1>5. Len(vs) \in Nat /\ DOMAIN vs = 1 .. Len(vs) /\ \A j \in 1 .. Len(vs) : vs[j] \in Range(vs) BY <1>4, ListFacts
<1>6. new = [j \in 1 .. Len(vs) |-> new[j]] BY <1>5
<1>7. IsList(new) BY <1>5, <1>6, MapIsList
<1>8. rule.kind = "domain_regex" => DOMAIN vs = {}
  BY <1>0
<1>9. rule.kind = "domains" => \A j \in DOMAIN vs : \E n \in Names : vs[j] \in {<<"name", n>>, <<"dotted", n>>}
  BY <1>4, <1>5 DEF Fits, Typable, PlainDomain, DottedDomain
<1>11. Range(new) \subseteq Fits(next) /\ Range(new) \subseteq Fits("domain_regex")
  <2>1. CASE rule.kind = "domains"
    <3>1. \A j \in DOMAIN vs : \E n \in Names : new[j] = DomainAsPattern(PlainDomain(n))
      <4>1. SUFFICES ASSUME NEW j \in DOMAIN vs PROVE \E n \in Names : new[j] = <<"pattern", n>>
        BY DEF DomainAsPattern, PlainDomain
      <4>2. PICK n \in Names : vs[j] \in {<<"name", n>>, <<"dotted", n>>} BY <1>9, <2>1
      <4>3. vs[j][2] = n BY <4>2
      <4> QED BY <4>3 DEF DomainAsPattern
    <3>2. Range(new) = {new[j] : j \in DOMAIN vs} BY DEF Range
    <3>3. Fits("domain_regex") = {DomainAsPattern(PlainDomain(n)) : n \in Names} BY DEF Fits, Typable
    <3> QED BY <2>1, <3>1, <3>2, <3>3
  <2>2. CASE rule.kind # "domains"
    BY <1>0, <1>8, <2>2 DEF Range
  <2> QED BY <2>1, <2>2
<1>12. DOMAIN c = {"kind", "values", "invert"} /\ c.kind = next /\ c.values = new /\ next \in Kinds
  BY <1>0, <1>3 DEF ConditionFits, Kinds
<1>13. /\ DOMAIN rule' = DOMAIN rule /\ rule'.kind = next /\ rule'.dns = rule.dns
       /\ rule'.twice = Repeated(new)
       /\ rule'.conditions = [rule.conditions EXCEPT ![1].kind = next, ![1].values = new]
  <2> DEFINE two == Repeated(new)
  <2>1. rule' = [rule EXCEPT !.kind = next, !.conditions[1].kind = next,
                             !.conditions[1].values = new, !.twice = two]
    BY DEF SwitchDomainMode, Values
  <2> HIDE DEF two, new, next
  <2>2. /\ DOMAIN rule' = DOMAIN rule /\ rule'.kind = next /\ rule'.dns = rule.dns /\ rule'.twice = two
        /\ rule'.conditions = [rule.conditions EXCEPT ![1].kind = next, ![1].values = new]
    BY <1>1, <2>1
  <2> QED BY <2>2 DEF two
<1>21. [rule.conditions EXCEPT ![1].kind = next, ![1].values = new] = [rule.conditions EXCEPT ![1] = c]
  <2> HIDE DEF new, next
  <2> QED OBVIOUS
<1> HIDE DEF c, new, vs, old, next
<1>14. ConditionFits(c, Repeated(new)) BY <1>7, <1>11, <1>12 DEF ConditionFits
<1> DEFINE cs == [rule.conditions EXCEPT ![1] = c]
<1>15. DOMAIN cs = 1 .. 1 /\ cs[1] = c /\ cs = [j \in 1 .. 1 |-> cs[j]] BY <1>2
<1>16. IsList(cs) /\ Len(cs) = 1 BY <1>15, MapIsList
<1> HIDE DEF cs
<1>17. /\ DOMAIN rule' = DOMAIN rule /\ rule'.kind = next /\ rule'.conditions = cs
       /\ rule'.dns = rule.dns /\ rule'.twice = Repeated(new)
  BY <1>13, <1>21 DEF cs
<1>18. \A i \in DOMAIN cs : ConditionFits(cs[i], Repeated(new)) BY <1>14, <1>15
<1>19. RuleFits(rule')
  <2>1. 1 <= MaxConditions BY CardAssumption
  <2>2. cs[1].kind = next BY <1>12, <1>15
  <2> QED BY <1>1, <1>16, <1>17, <1>18, <2>1, <2>2 DEF RuleFits
<1>20. Entered' \cap given = {}
  <2>1. Entered' = EntriesOf(rule') BY ToSetIsRange DEF Entered, EntriesOf, Values
  <2>2. EntriesOf(rule') \subseteq Range(new) BY <1>12, <1>15, <1>17 DEF EntriesOf
  <2>3. Fits("domain_regex") \cap given = {} BY Given DEF FieldsInv, GivenFits
  <2> QED BY <1>11, <2>1, <2>2, <2>3
<1> QED BY <1>0, <1>19, <1>20, ClickKeeps

(* Another kind for one condition of a combined rule, without its entries. *)
LEMMA SetKindKeeps ==
    ASSUME FieldsInv, NEW i, NEW kind \in Kinds, SetKind(i, kind)
    PROVE  FieldsInv'
<1> DEFINE c == [rule.conditions[i] EXCEPT !.kind = kind, !.values = <<>>]
<1>0. /\ Clicks /\ rule.kind = "logical" /\ At(i) /\ rule' = [rule EXCEPT !.conditions[i] = c]
      /\ UNCHANGED <<focus, drafts, picker, given>>
  BY DEF SetKind
<1>1. ConditionFits(rule.conditions[i], rule.twice) /\ i \in DOMAIN rule.conditions /\ RuleFits(rule)
  BY <1>0 DEF FieldsInv, RuleFits, At
<1>2. DOMAIN c = {"kind", "values", "invert"} /\ c.kind = kind /\ c.values = <<>>
  BY <1>1 DEF ConditionFits
<1> HIDE DEF c
<1>3. Repeated(<<>>) = {} BY DEF Repeated
<1>4. ConditionFits(c, rule.twice) BY <1>2, <1>3, EmptyIsList DEF ConditionFits
<1>5. RuleFits(rule') /\ EntriesOf(rule') \subseteq EntriesOf(rule) \cup Range(c.values)
  BY <1>0, <1>1, <1>4, ConditionReplaced
<1>6. EntriesOf(rule') \subseteq EntriesOf(rule) BY <1>2, <1>5, EmptyIsList
<1>7. Entered' = EntriesOf(rule') BY ToSetIsRange DEF Entered, EntriesOf, Values
<1>8. Entered' \cap given = {} BY <1>6, <1>7, EnteredIs DEF FieldsInv, GivenFits
<1> QED BY <1>0, <1>5, <1>8, ClickKeeps

(* A combined rule with other conditions. *)
LEMMA ConditionsReplaced ==
    ASSUME NEW r, RuleFits(r), r.kind = "logical", NEW cs, IsList(cs), Len(cs) <= MaxConditions,
           \A i \in DOMAIN cs : ConditionFits(cs[i], r.twice)
    PROVE  RuleFits([r EXCEPT !.conditions = cs]) /\ [r EXCEPT !.conditions = cs].conditions = cs
BY DEF RuleFits

(* One more condition, the last. *)
LEMMA AddConditionKeeps ==
    ASSUME FieldsInv, AddCondition
    PROVE  FieldsInv'
<1> DEFINE old == rule.conditions
           x == Condition("domains")
           cs == Append(old, x)
<1>0. /\ Clicks /\ rule.kind = "logical" /\ Len(old) < MaxConditions /\ rule' = [rule EXCEPT !.conditions = cs]
      /\ UNCHANGED <<focus, drafts, picker, given>>
  BY DEF AddCondition
<1>1. IsList(old) /\ RuleFits(rule) /\ \A i \in DOMAIN old : ConditionFits(old[i], rule.twice) BY DEF FieldsInv, RuleFits
<1>2. /\ IsList(cs) /\ Len(cs) = Len(old) + 1 /\ cs[Len(old) + 1] = x
      /\ \A i \in 1 .. Len(old) : cs[i] = old[i]
  BY <1>1, AppendList
<1>3. Len(old) \in Nat /\ DOMAIN old = 1 .. Len(old) /\ DOMAIN cs = 1 .. Len(old) + 1 BY <1>1, <1>2, ListFacts
<1>4. DOMAIN x = {"kind", "values", "invert"} /\ x.kind = "domains" /\ x.values = <<>> BY DEF Condition
<1> HIDE DEF cs, x
<1>5. Repeated(<<>>) = {} BY DEF Repeated
<1>6. ConditionFits(x, rule.twice) BY <1>4, <1>5, EmptyIsList DEF ConditionFits, Kinds
<1>7. \A i \in DOMAIN cs : i \in DOMAIN old \/ i = Len(old) + 1 BY <1>3
<1>8. \A i \in DOMAIN cs : ConditionFits(cs[i], rule.twice) BY <1>1, <1>2, <1>3, <1>6, <1>7
<1>9. Len(cs) <= MaxConditions BY <1>0, <1>2, <1>3, CardAssumption
<1>10. RuleFits(rule') /\ rule'.conditions = cs BY <1>0, <1>1, <1>2, <1>8, <1>9, ConditionsReplaced
<1>11. EntriesOf(rule') \subseteq EntriesOf(rule)
  BY <1>2, <1>3, <1>4, <1>7, <1>10, EmptyIsList DEF EntriesOf
<1>12. Entered' = EntriesOf(rule') BY ToSetIsRange DEF Entered, EntriesOf, Values
<1>13. Entered' \cap given = {} BY <1>11, <1>12, EnteredIs DEF FieldsInv, GivenFits
<1> QED BY <1>0, <1>10, <1>13, ClickKeeps

(* One condition less: the later ones move up, and no field holds text. *)
LEMMA RemoveConditionKeeps ==
    ASSUME FieldsInv, NEW at, RemoveCondition(at)
    PROVE  FieldsInv'
<1> DEFINE old == rule.conditions
           cs == RemoveAt(old, at)
<1>0. /\ Clicks /\ rule.kind = "logical" /\ at \in DOMAIN old /\ rule' = [rule EXCEPT !.conditions = cs]
      /\ drafts' = [drafts EXCEPT ![Len(old)] = Nothing]
      /\ UNCHANGED <<focus, picker, given>>
  BY DEF RemoveCondition, At
<1>1. IsList(old) /\ RuleFits(rule) /\ Len(old) <= MaxConditions /\ \A i \in DOMAIN old : ConditionFits(old[i], rule.twice)
  BY DEF FieldsInv, RuleFits
<1>2. /\ IsList(cs) /\ Len(cs) = Len(old) - 1 /\ Range(cs) \subseteq Range(old)
  BY <1>0, <1>1, RemoveAtList
<1>3. Len(old) \in Nat /\ DOMAIN old = 1 .. Len(old) /\ DOMAIN cs = 1 .. Len(cs) BY <1>1, <1>2, ListFacts
<1> HIDE DEF cs
<1>4. \A i \in DOMAIN cs : \E j \in DOMAIN old : cs[i] = old[j]
  <2>1. \A i \in DOMAIN cs : cs[i] \in Range(cs) BY DEF Range
  <2> QED BY <1>2, <2>1 DEF Range
<1>5. \A i \in DOMAIN cs : ConditionFits(cs[i], rule.twice) BY <1>1, <1>4
<1>6. Len(cs) <= MaxConditions BY <1>1, <1>2, <1>3, CardAssumption
<1>7. RuleFits(rule') /\ rule'.conditions = cs BY <1>0, <1>1, <1>2, <1>5, <1>6, ConditionsReplaced
<1>8. EntriesOf(rule') \subseteq EntriesOf(rule) BY <1>4, <1>7 DEF EntriesOf
<1>9. Entered' = EntriesOf(rule') BY ToSetIsRange DEF Entered, EntriesOf, Values
<1>10. Entered' \cap given = {} BY <1>8, <1>9, EnteredIs DEF FieldsInv, GivenFits
<1>11. DOMAIN drafts' = DOMAIN drafts /\ \A i \in DOMAIN drafts : drafts'[i] \in {drafts[i], Nothing}
  BY <1>0
<1> QED BY <1>0, <1>7, <1>10, <1>11, ClickKeeps

(* Everything but the entries, for the rule or a condition. *)
LEMMA InvertKeeps ==
    ASSUME FieldsInv, NEW i, Invert(i)
    PROVE  FieldsInv'
<1>0. Clicks /\ UNCHANGED <<focus, drafts, picker, given>> /\ RuleFits(rule) BY DEF Invert, FieldsInv
<1>1. RuleFits(rule') /\ EntriesOf(rule') \subseteq EntriesOf(rule)
  <2>1. CASE rule' = [rule EXCEPT !.invert = ~@]
    <3>1. DOMAIN rule' = DOMAIN rule /\ rule'.conditions = rule.conditions /\ rule'.dns = rule.dns
          /\ rule'.kind = rule.kind /\ rule'.twice = rule.twice
      BY <1>0, <2>1 DEF RuleFits
    <3> QED BY <1>0, <3>1 DEF RuleFits, EntriesOf
  <2>2. CASE At(i) /\ rule' = [rule EXCEPT !.conditions[i].invert = ~@]
    <3> DEFINE old == rule.conditions[i]
               c == [old EXCEPT !.invert = ~@]
    <3>1. i \in DOMAIN rule.conditions /\ ConditionFits(old, rule.twice) BY <1>0, <2>2 DEF RuleFits, At
    <3>2. DOMAIN c = DOMAIN old /\ c.kind = old.kind /\ c.values = old.values BY <3>1 DEF ConditionFits
    <3>3. rule' = [rule EXCEPT !.conditions[i] = c] BY <2>2
    <3> HIDE DEF c
    <3>4. ConditionFits(c, rule.twice) BY <3>1, <3>2 DEF ConditionFits
    <3>5. rule.kind # "logical" => c.kind = rule.kind
      <4>1. SUFFICES ASSUME rule.kind # "logical" PROVE c.kind = rule.kind  OBVIOUS
      <4>2. Len(rule.conditions) = 1 /\ rule.conditions[1].kind = rule.kind BY <1>0, <4>1 DEF RuleFits
      <4>3. DOMAIN rule.conditions = 1 .. 1 BY <1>0, <4>2, ListFacts DEF RuleFits
      <4>4. i = 1 BY <3>1, <4>3
      <4> QED BY <3>2, <4>2, <4>4
    <3>6. RuleFits(rule') /\ EntriesOf(rule') \subseteq EntriesOf(rule) \cup Range(c.values)
      BY <1>0, <3>1, <3>3, <3>4, <3>5, ConditionReplaced
    <3>7. Range(c.values) \subseteq EntriesOf(rule) BY <3>1, <3>2 DEF EntriesOf
    <3> QED BY <3>6, <3>7
  <2> QED BY <2>1, <2>2 DEF Invert
<1>2. Entered' = EntriesOf(rule') BY ToSetIsRange DEF Entered, EntriesOf, Values
<1>3. Entered' \cap given = {} BY <1>1, <1>2, EnteredIs DEF FieldsInv, GivenFits
<1> QED BY <1>0, <1>1, <1>3, ClickKeeps

(* Another resolver. *)
LEMMA DnsReplaced ==
    ASSUME FieldsInv, Clicks, NEW text \in Resolvers \cup {""}, rule' = [rule EXCEPT !.dns = text],
           UNCHANGED <<focus, drafts, picker, given>>
    PROVE  FieldsInv'
<1>1. RuleFits(rule) BY DEF FieldsInv
<1>2. DOMAIN rule' = DOMAIN rule /\ rule'.conditions = rule.conditions /\ rule'.dns = text
      /\ rule'.kind = rule.kind /\ rule'.twice = rule.twice
  BY <1>1 DEF RuleFits
<1>3. RuleFits(rule') BY <1>1, <1>2 DEF RuleFits
<1>4. Entered' = Entered BY <1>2 DEF Entered, Values
<1>5. Entered' \cap given = {} BY <1>4 DEF FieldsInv, GivenFits
<1> QED BY <1>3, <1>5, ClickKeeps

(* The three steps of the resolver's field. *)
LEMMA DnsKeeps ==
    ASSUME FieldsInv, OpenDns \/ RemoveDns \/ \E text : SaveDns(text)
    PROVE  FieldsInv'
<1>1. CASE OpenDns BY <1>1, RestKeeps DEF OpenDns
<1>2. CASE RemoveDns
  <2>1. "" \in Resolvers \cup {""} OBVIOUS
  <2> QED BY <1>2, <2>1, DnsReplaced DEF RemoveDns
<1>3. ASSUME NEW text, SaveDns(text) PROVE FieldsInv'
  <2>1. CASE text # rule.dns /\ text \in Resolvers \cup {""}
    BY <1>3, <2>1, DnsReplaced DEF SaveDns
  <2>2. CASE ~(text # rule.dns /\ text \in Resolvers \cup {""})
    BY <1>3, <2>2, RestKeeps DEF SaveDns
  <2> QED BY <2>1, <2>2
<1> QED BY <1>1, <1>2, <1>3

-----------------------------------------------------------------------------
(* The picker. *)

(* A step of the picker alone. *)
LEMMA PickerStep ==
    ASSUME FieldsInv, focus = 0, UNCHANGED <<rule, focus, drafts, given>>, PickerFits'
    PROVE  FieldsInv'
<1>1. RuleFits(rule)' BY DEF FieldsInv
<1>2. DraftsFit' BY DEF FieldsInv, DraftsFit
<1>3. GivenFits' BY DEF FieldsInv, GivenFits, Entered, Values
<1> QED BY <1>1, <1>2, <1>3 DEF FieldsInv

(* The ticks start from the entries. *)
LEMMA OpenPickerKeeps ==
    ASSUME FieldsInv, NEW i, OpenPicker(i)
    PROVE  FieldsInv'
<1>0. /\ focus = 0 /\ At(i) /\ rule.conditions[i].kind = "apps"
      /\ picker' = [at |-> i, chosen |-> ToSet(Values(i))]
      /\ UNCHANGED <<rule, focus, drafts, given>>
  BY DEF OpenPicker, Clicks
<1>1. ConditionFits(rule.conditions[i], rule.twice) BY <1>0 DEF FieldsInv, RuleFits, At
<1>2. ToSet(Values(i)) \subseteq Fits("apps") BY <1>0, <1>1, ToSetIsRange DEF ConditionFits, Values
<1>3. DOMAIN picker' = DOMAIN NoPicker /\ picker'.at = i /\ picker'.chosen = ToSet(Values(i))
  BY <1>0 DEF NoPicker
<1>4. PickerFits' BY <1>0, <1>2, <1>3 DEF PickerFits, TypedAppsStay, At, Values
<1> QED BY <1>0, <1>4, PickerStep

(* Nothing has the focus while the picker is open. *)
LEMMA PickerOpen ==
    ASSUME FieldsInv, picker.at # 0
    PROVE  focus = 0
BY DEF FieldsInv, DraftsFit

(* A tick changes for a program of the list only. *)
LEMMA ToggleAppKeeps ==
    ASSUME FieldsInv, AppListsFit, NEW a, ToggleApp(a)
    PROVE  FieldsInv'
<1> DEFINE x == <<"app", a>>
<1>0. /\ picker.at # 0 /\ UNCHANGED <<rule, focus, drafts, given>> /\ a \in appLists[picker.at].apps
      /\ picker' = [picker EXCEPT !.chosen = SymDiff(@, {x})]
  BY DEF ToggleApp, Rows
<1>1. PickerFits BY DEF FieldsInv
<1>2. /\ DOMAIN picker' = DOMAIN picker /\ picker'.at = picker.at
      /\ picker'.chosen = SymDiff(picker.chosen, {x})
  BY <1>0, <1>1 DEF PickerFits, NoPicker
<1>3. a \in Installed
  <2>1. picker.at \in 1 .. MaxConditions
    BY <1>0, <1>1, ConditionsInRange DEF PickerFits, At, FieldsInv
  <2> QED BY <1>0, <2>1 DEF AppListsFit
<1>4. x \in Fits("apps") BY <1>3 DEF Fits
<1>5. x[2] \in Installed BY <1>3
<1> HIDE DEF x
<1>6. picker'.chosen \subseteq picker.chosen \cup {x} /\ picker.chosen \ {x} \subseteq picker'.chosen
  BY <1>2 DEF SymDiff
<1>7. picker'.chosen \subseteq Fits("apps") BY <1>0, <1>1, <1>4, <1>6 DEF PickerFits
<1>8. TypedAppsStay'
  <2>1. SUFFICES ASSUME NEW v \in ToSet(Values(picker.at)), v[2] \notin Installed PROVE v \in picker'.chosen
    BY <1>0, <1>2 DEF TypedAppsStay, Values
  <2>2. v \in picker.chosen BY <1>0, <1>1, <2>1 DEF PickerFits, TypedAppsStay
  <2>3. v # x BY <1>5, <2>1
  <2> QED BY <1>6, <2>2, <2>3
<1>9. PickerFits' BY <1>0, <1>1, <1>2, <1>7, <1>8 DEF PickerFits, At
<1> QED BY <1>0, <1>9, PickerStep, PickerOpen

(* Closed without saving. *)
LEMMA PickerClosesKeeps ==
    ASSUME FieldsInv, PickerCloses
    PROVE  FieldsInv'
<1>1. picker.at # 0 /\ picker' = NoPicker /\ UNCHANGED <<rule, focus, drafts, given>> BY DEF PickerCloses
<1>2. PickerFits' BY <1>1 DEF PickerFits, TypedAppsStay, NoPicker
<1> QED BY <1>1, <1>2, PickerStep, PickerOpen

(* The entries still ticked, then the new ticks in some order. *)
LEMMA PickerSavesKeeps ==
    ASSUME FieldsInv, PickerSaves
    PROVE  FieldsInv'
<1> DEFINE i == picker.at
           own == Values(i)
           kept == KeepAt(own, {j \in DOMAIN own : own[j] \in picker.chosen})
           more == SetToSeq(picker.chosen \ ToSet(kept))
           vs == kept \o more
<1>0. /\ i # 0 /\ picker' = NoPicker /\ SetValues(i, vs)
      /\ UNCHANGED <<focus, drafts, given>>
  BY DEF PickerSaves
<1>1. At(i) /\ rule.conditions[i].kind = "apps" /\ picker.chosen \subseteq Fits("apps")
  BY <1>0 DEF FieldsInv, PickerFits
<1>2. ConditionFits(rule.conditions[i], rule.twice) /\ RuleFits(rule) BY <1>1 DEF FieldsInv, RuleFits, At
<1>3. IsList(own) /\ Repeated(own) \subseteq rule.twice /\ Range(own) \subseteq Fits("apps")
  BY <1>1, <1>2 DEF ConditionFits, Values
<1>4. IsList(kept) /\ Repeated(kept) \subseteq rule.twice BY <1>3, KeepAtList, KeepEntries
<1>5. Range(kept) \subseteq Range(own) BY <1>3, KeepAtList, ListFacts
<1>6. IsFiniteSet(picker.chosen \ ToSet(kept)) BY <1>1, AppsFinite, FS_Subset
<1>7. IsList(more) /\ Repeated(more) = {} /\ Range(more) \subseteq picker.chosen \ Range(kept)
  BY <1>6, SetInOrder, ToSetIsRange
<1> HIDE DEF kept, more, own, i
<1>8. IsList(vs) /\ Repeated(vs) \subseteq rule.twice /\ Range(vs) = Range(kept) \cup Range(more)
  <2>1. Range(kept) \cap Range(more) = {} BY <1>7
  <2> QED BY <1>4, <1>7, <2>1, ConcatList, ConcatEntries
<1>9. Range(vs) \subseteq Fits("apps") BY <1>1, <1>3, <1>5, <1>7, <1>8
<1> HIDE DEF vs
<1>10. RuleFits(rule') /\ EntriesOf(rule') \subseteq EntriesOf(rule) \cup Range(vs)
  BY <1>0, <1>1, <1>2, <1>8, <1>9, ValuesReplaced
<1>11. GivenFits'
  <2>1. Entered' = EntriesOf(rule') BY ToSetIsRange DEF Entered, EntriesOf, Values
  <2>2. given \subseteq {<<"code", Half>>} /\ Entered \cap given = {} BY DEF FieldsInv, GivenFits
  <2>3. Fits("apps") \cap given = {} BY <2>2, Given
  <2> QED BY <1>0, <1>9, <1>10, <2>1, <2>2, <2>3, EnteredIs DEF GivenFits
<1>12. focus = 0 BY <1>0, PickerOpen DEF i
<1>13. DraftsFit' BY <1>0, <1>12 DEF FieldsInv, DraftsFit
<1>14. PickerFits' BY <1>0 DEF PickerFits, TypedAppsStay, NoPicker
<1> QED BY <1>10, <1>11, <1>13, <1>14 DEF FieldsInv

-----------------------------------------------------------------------------
(* A new card. *)
LEMMA CardInitOK == CardInit => CardInv
<1>1. SUFFICES ASSUME CardInit PROVE CardInv  OBVIOUS
<1> DEFINE c == Condition("domains")
<1>2. /\ rule.kind \in {"domains", "logical"} /\ rule.dns = "" /\ rule.conditions = <<c>>
      /\ DOMAIN rule = {"kind", "action", "invert", "dns", "conditions", "twice"}
      /\ focus = 0 /\ drafts = [i \in 1 .. MaxConditions |-> Nothing] /\ picker = NoPicker /\ given = {}
      /\ appLists = [i \in 1 .. MaxConditions |-> NoList]
  BY <1>1 DEF CardInit
<1>3. DOMAIN c = {"kind", "values", "invert"} /\ c.kind = "domains" /\ c.values = <<>> BY DEF Condition
<1> HIDE DEF c
<1>4. Repeated(<<>>) = {} BY DEF Repeated
<1>5. ConditionFits(c, rule.twice) BY <1>3, <1>4, EmptyIsList DEF ConditionFits, Kinds
<1>6. IsList(<<c>>) /\ Len(<<c>>) = 1 /\ <<c>>[1] = c /\ DOMAIN <<c>> = {1} BY OneList
<1>7. 1 <= MaxConditions BY CardAssumption
<1>8. RuleFits(rule) BY <1>2, <1>3, <1>5, <1>6, <1>7 DEF RuleFits
<1>9. DraftsFit BY <1>2 DEF DraftsFit
<1>10. GivenFits BY <1>2 DEF GivenFits
<1>11. PickerFits BY <1>2 DEF PickerFits, TypedAppsStay, NoPicker
<1>12. AppListsFit BY <1>2 DEF AppListsFit, NoList
<1> QED BY <1>8, <1>9, <1>10, <1>11, <1>12 DEF CardInv

(* Every step of the card, but for the lists of programs. *)
LEMMA FieldsStep ==
    ASSUME FieldsInv, AppListsFit, [CardNext]_cardVars
    PROVE  FieldsInv'
<1>1. CASE UNCHANGED cardVars BY <1>1, RestKeeps DEF cardVars
<1>2. ASSUME NEW i \in 1 .. MaxConditions, NEW v, Type(i, v) PROVE FieldsInv' BY <1>2, TypeKeeps
<1>3. CASE Enter
  <2>1. focus # 0 /\ Commit(focus) /\ focus' = focus /\ UNCHANGED picker BY <1>3 DEF Enter
  <2> QED BY <2>1, CommitKeeps
<1>4. CASE Blur
  <2>1. focus # 0 /\ Commit(focus) /\ focus' = 0 /\ UNCHANGED picker BY <1>4 DEF Blur
  <2> QED BY <2>1, CommitKeeps
<1>5. CASE OpenDns \/ RemoveDns \/ \E text \in Resolvers \cup {"", "typo"} : SaveDns(text) BY <1>5, DnsKeeps
<1>6. CASE (\E text \in {"n1", "n2"} : TypeNote(text) \/ NoteReplaced(text)) \/ BlurNote
  <2>1. UNCHANGED <<rule, focus, drafts, picker, given>> BY <1>6 DEF TypeNote, NoteReplaced, BlurNote
  <2> QED BY <2>1, RestKeeps
<1>7. ASSUME NEW i \in 1 .. MaxConditions,
             \/ \E p \in Protocols : PickChoice(i, p)
             \/ \E v \in UNION {Fits(k) : k \in Kinds} : RemoveValue(i, v)
             \/ \E k \in Kinds : SetKind(i, k)
             \/ RemoveCondition(i) \/ OpenPicker(i)
      PROVE  FieldsInv'
  BY <1>7, PickChoiceKeeps, RemoveValueKeeps, SetKindKeeps, RemoveConditionKeeps, OpenPickerKeeps
<1>8. CASE \E c \in Codes : PickCode(c) BY <1>8, PickCodeKeeps
<1>9. CASE (\E i \in 0 .. MaxConditions : Invert(i)) \/ SwitchDomainMode \/ AddCondition
  BY <1>9, InvertKeeps, SwitchKeeps, AddConditionKeeps
<1>10. ASSUME ShowSystem \/ \E i \in 1 .. MaxConditions : AppsListed(i) PROVE FieldsInv'
  <2>1. UNCHANGED <<rule, focus, drafts, picker, given>> BY <1>10 DEF ShowSystem, AppsListed
  <2> QED BY <2>1, RestKeeps
<1>11. CASE PickerSaves \/ PickerCloses \/ \E a \in Installed : ToggleApp(a)
  BY <1>11, PickerSavesKeeps, PickerClosesKeeps, ToggleAppKeeps
<1> QED BY <1>1, <1>2, <1>3, <1>4, <1>5, <1>6, <1>7, <1>8, <1>9, <1>10, <1>11 DEF CardNext

(* The lists of programs: kept, emptied with their picker, asked for, arrived. *)
LEMMA ListsStep ==
    ASSUME AppListsFit, [CardNext]_cardVars
    PROVE  AppListsFit'
<1>1. CASE UNCHANGED appLists BY <1>1 DEF AppListsFit
<1>2. CASE PickersFollow
  <2>1. DOMAIN appLists' = DOMAIN appLists /\ \A i \in DOMAIN appLists : appLists'[i] \in {appLists[i], NoList}
    BY <1>2 DEF PickersFollow
  <2>2. NoList.apps = {} BY DEF NoList
  <2> QED BY <2>1, <2>2 DEF AppListsFit
<1>3. ASSUME NEW i, OpenPicker(i) PROVE AppListsFit'
  <2>1. appLists' = [appLists EXCEPT ![i].asked = TRUE] BY <1>3 DEF OpenPicker
  <2> QED BY <2>1 DEF AppListsFit, NoList
<1>4. ASSUME NEW i, AppsListed(i) PROVE AppListsFit'
  <2>1. appLists' = [appLists EXCEPT ![i].asked = FALSE, ![i].apps = Installed] BY <1>4 DEF AppsListed
  <2> QED BY <2>1 DEF AppListsFit, NoList
<1>5. CASE ShowSystem
  <2>1. appLists' = [appLists EXCEPT ![picker.at].system = ~@] BY <1>5 DEF ShowSystem
  <2> QED BY <2>1 DEF AppListsFit, NoList
<1>6. CASE (\E i, v : Type(i, v)) \/ Enter \/ Blur \/ (\E c : PickCode(c)) \/ (\E i, p : PickChoice(i, p))
  BY <1>1, <1>6 DEF Type, Enter, Blur, PickCode, PickChoice
<1>7. CASE (\E i, v : RemoveValue(i, v)) \/ SwitchDomainMode \/ AddCondition \/ \E i : Invert(i)
  BY <1>1, <1>7 DEF RemoveValue, SwitchDomainMode, AddCondition, Invert
<1>8. CASE OpenDns \/ RemoveDns \/ \E text : SaveDns(text)
  BY <1>1, <1>8 DEF OpenDns, RemoveDns, SaveDns
<1>9. CASE PickerSaves \/ PickerCloses \/ \E a : ToggleApp(a)
  BY <1>1, <1>9 DEF PickerSaves, PickerCloses, ToggleApp
<1>10. CASE BlurNote \/ \E text : TypeNote(text) \/ NoteReplaced(text)
  BY <1>1, <1>10 DEF BlurNote, TypeNote, NoteReplaced
<1>11. CASE (\E i, k : SetKind(i, k)) \/ \E i : RemoveCondition(i)
  BY <1>2, <1>11 DEF SetKind, RemoveCondition
<1>12. CASE UNCHANGED cardVars BY <1>1, <1>12 DEF cardVars
<1> QED BY <1>3, <1>4, <1>5, <1>6, <1>7, <1>8, <1>9, <1>10, <1>11, <1>12 DEF CardNext

(* Every step of the card. *)
LEMMA CardStep ==
    ASSUME CardInv, [CardNext]_cardVars
    PROVE  CardInv'
BY FieldsStep, ListsStep DEF CardInv, FieldsInv

(* What the invariant is for. *)
LEMMA CardInvImplies == CardInv => CardHolds
<1>1. SUFFICES ASSUME CardInv PROVE CardHolds  OBVIOUS
<1>2. EntriesFit BY <1>1, ToSetIsRange DEF CardInv, RuleFits, ConditionFits, EntriesFit, Values
<1>3. TypedLands BY <1>1 DEF CardInv, DraftsFit, GivenFits, TypedLands
<1>4. TypedAppsStay BY <1>1 DEF CardInv, PickerFits
<1> QED BY <1>2, <1>3, <1>4 DEF CardHolds

(***************************************************************************)
(* A rule's card keeps its rule right, for any names, codes, programs and  *)
(* number of conditions: entries fit their condition and are there once    *)
(* (but for the pattern DomainModeSwitch makes of a name with and without  *)
(* its leading dot), what is typed lands where it was typed or nowhere,    *)
(* and the app picker takes nothing away it did not show (EntryEditor,     *)
(* GeoSuggestions, DomainModeSwitch, LogicalNode, AppPicker).              *)
(***************************************************************************)
THEOREM CardHoldsAlways == CardSpec => []CardHolds
<1>1. CardInit => CardInv BY CardInitOK
<1>2. CardInv /\ [CardNext]_cardVars => CardInv' BY CardStep
<1>3. CardInv => CardHolds BY CardInvImplies
<1> QED BY <1>1, <1>2, <1>3, PTL DEF CardSpec

=============================================================================
