------------------------------ MODULE RuleCard ------------------------------
(***************************************************************************)
(* One rule's card on the routing canvas (routing/nodes.tsx), with the     *)
(* picker of installed apps (routing/app-picker.tsx) and a note beside it. *)
(* A plain rule is one condition, a combined rule any number of them.      *)
(* What a card changes goes to the rule at once (RoutingEditor's           *)
(* updateRule); what is typed stays with the card until its field loses    *)
(* focus.  A click anywhere else takes the focus first, so every click     *)
(* below waits for focus = 0, except the suggestions', which keep it.      *)
(***************************************************************************)
EXTENDS Naturals, Sequences, FiniteSets, SequencesExt, Sublists

CONSTANTS
    Hands,      \* the scenarios: the bounds "hand" may start with
    Names,      \* domain names that may be typed
    Codes,      \* geosite codes in the user's file; "half" is the start of each
    Protocols,  \* SNIFFABLE_PROTOCOLS
    Installed,  \* list_installed_apps: programs of the user's and the system's
    System,     \* those of them that came with the system
    Resolvers,  \* addresses validDnsAddress accepts
    MaxConditions

VARIABLES
    rule,       \* the rule: kind, conditions, action, invert, dns, and a ghost,
                \*   "twice": the patterns DomainModeSwitch made of several names
    focus,      \* the condition whose text field has the focus, 0 for none
    drafts,     \* EntryEditor's draft, by condition
    dns,        \* RuleOptions' draft and whether its field is open
    picker,     \* AppPicker: the condition it is open for and the ticks
    appLists,   \* what the picker of each condition keeps from one opening to
                \*   the next: the list, "show system", a request under way
    note,       \* CommentNode: its text, its draft, whether it has the focus
    given,      \* ghost: half-typed texts given up for a suggestion
    hand        \* what is left of the bounds

cardVars == <<rule, focus, drafts, dns, picker, appLists, note, given, hand>>

Deals(what) == hand[what] > 0 /\ hand' = [hand EXCEPT ![what] = @ - 1]

Half == "half"
PlainDomain(v) == <<"name", v>>
DottedDomain(v) == <<"dotted", v>>      \* the same name after a dot: ".a.org"

(* The leading dots are dropped: both forms of a name give one pattern. *)
DomainAsPattern(v) == <<"pattern", v[2]>>

(* What may be typed into a condition's field, by its kind. *)
Typable(kind) ==
    CASE kind = "domains" -> {PlainDomain(n) : n \in Names} \cup {DottedDomain(n) : n \in Names}
      [] kind = "domain_regex" -> {DomainAsPattern(PlainDomain(n)) : n \in Names}
      [] kind = "geosite" -> {<<"code", c>> : c \in Codes} \cup {<<"code", Half>>}
      [] kind = "apps" -> {<<"app", "typed">>}
      [] OTHER -> {}

(* The entries that make sense under a kind. *)
Fits(kind) ==
    CASE kind = "protocol" -> {<<"protocol", p>> : p \in Protocols}
      [] kind = "apps" -> {<<"app", a>> : a \in Installed \cup {"typed"}}
      [] OTHER -> Typable(kind)

Kinds == {"domains", "domain_regex", "geosite", "protocol", "apps"}
DOMAIN_KINDS == {"domains", "domain_regex", "geosite", "logical"}
Nothing == <<"", "">>

Condition(kind) == [kind |-> kind, values |-> <<>>, invert |-> FALSE]
Values(i) == rule.conditions[i].values
Entered == UNION {ToSet(Values(i)) : i \in DOMAIN rule.conditions}
At(i) == i \in DOMAIN rule.conditions
NoPicker == [at |-> 0, chosen |-> {}]
NoList == [apps |-> {}, system |-> FALSE, asked |-> FALSE]
Clicks == focus = 0 /\ picker.at = 0 /\ ~note.focus

SetValues(i, values) == rule' = [rule EXCEPT !.conditions[i].values = values]

(* The entries a list has more than once. *)
Repeated(values) ==
    {values[i] : i \in {j \in DOMAIN values : \E k \in DOMAIN values : k # j /\ values[k] = values[j]}}
Added(values, v) == IF v = Nothing \/ Contains(values, v) THEN values ELSE Append(values, v)

-----------------------------------------------------------------------------
(* EntryEditor: typing, Enter, the button and losing the focus. *)

Type(i, v) ==
    /\ At(i) /\ focus \in {0, i} /\ picker.at = 0 /\ ~note.focus /\ Deals("type")
    /\ v \in Typable(rule.conditions[i].kind)
    /\ focus' = i /\ drafts' = [drafts EXCEPT ![i] = v]
    /\ given' = given \ {v}
    /\ UNCHANGED <<rule, dns, picker, appLists, note>>

Commit(i) ==
    /\ SetValues(i, Added(Values(i), drafts[i]))
    /\ drafts' = [drafts EXCEPT ![i] = Nothing]
    /\ UNCHANGED given

Enter == focus # 0 /\ Commit(focus) /\ UNCHANGED <<focus, dns, picker, appLists, note, hand>>

Blur == focus # 0 /\ Commit(focus) /\ focus' = 0 /\ UNCHANGED <<dns, picker, appLists, note, hand>>

(* Mutant: the click takes the focus, so the half-typed text is added first. *)
PickCodeBlurs(c) ==
    /\ focus # 0 /\ rule.conditions[focus].kind = "geosite"
    /\ drafts[focus] = <<"code", Half>> /\ ~Contains(Values(focus), <<"code", c>>)
    /\ SetValues(focus, Added(Added(Values(focus), drafts[focus]), <<"code", c>>))
    /\ drafts' = [drafts EXCEPT ![focus] = Nothing]
    /\ given' = given \cup ({drafts[focus]} \ Entered)
    /\ UNCHANGED <<focus, dns, picker, appLists, note, hand>>

(* GeoSuggestions: a click that keeps the focus in the field, so what is half
   typed is not added as well. *)
PickCode(c) ==
    /\ focus # 0 /\ rule.conditions[focus].kind = "geosite"
    /\ drafts[focus] = <<"code", Half>> /\ ~Contains(Values(focus), <<"code", c>>)
    /\ SetValues(focus, Added(Values(focus), <<"code", c>>))
    /\ drafts' = [drafts EXCEPT ![focus] = Nothing]
    /\ given' = given \cup ({drafts[focus]} \ Entered)
    /\ UNCHANGED <<focus, dns, picker, appLists, note, hand>>

(* ChoiceChips offers what is left of a closed set. *)
PickChoice(i, p) ==
    /\ Clicks /\ At(i) /\ rule.conditions[i].kind = "protocol" /\ Deals("click")
    /\ ~Contains(Values(i), <<"protocol", p>>)
    /\ SetValues(i, Append(Values(i), <<"protocol", p>>))
    /\ UNCHANGED <<focus, drafts, dns, picker, appLists, note, given>>

(* ValueList's remove. *)
RemoveValue(i, v) ==
    /\ Clicks /\ At(i) /\ Contains(Values(i), v) /\ Deals("click")
    /\ SetValues(i, KeepAt(Values(i), {j \in DOMAIN Values(i) : Values(i)[j] # v}))
    /\ UNCHANGED <<focus, drafts, dns, picker, appLists, note, given>>

-----------------------------------------------------------------------------
(* DomainModeSwitch: names carry over as patterns, patterns lock the way back.
   Nothing looks for a pattern that is there already. *)
SwitchDomainMode ==
    /\ Clicks /\ Deals("click") /\ rule.kind \in {"domains", "domain_regex"}
    /\ rule.kind = "domain_regex" => Values(1) = <<>>
    /\ LET next == IF rule.kind = "domains" THEN "domain_regex" ELSE "domains"
           now == [j \in DOMAIN Values(1) |-> DomainAsPattern(Values(1)[j])] IN
       rule' = [rule EXCEPT !.kind = next,
                            !.conditions[1].kind = next,
                            !.conditions[1].values = now,
                            !.twice = Repeated(now)]
    /\ UNCHANGED <<focus, drafts, dns, picker, appLists, note, given>>

(* LogicalNode.  Conditions are told apart by their position only: the editors
   below a removed one take over the state of the one before them, and a picker
   is there as long as its position has a condition of apps. *)
IsApps(r, i) == i \in DOMAIN r.conditions /\ r.conditions[i].kind = "apps"
PickersFollow ==
    appLists' = [i \in DOMAIN appLists |-> IF IsApps(rule, i) /\ IsApps(rule', i) THEN appLists[i] ELSE NoList]

SetKind(i, kind) ==
    /\ Clicks /\ Deals("click") /\ rule.kind = "logical" /\ At(i)
    /\ kind # rule.conditions[i].kind
    /\ rule' = [rule EXCEPT !.conditions[i] = [@ EXCEPT !.kind = kind, !.values = <<>>]]
    /\ PickersFollow
    /\ UNCHANGED <<focus, drafts, dns, picker, note, given>>

AddCondition ==
    /\ Clicks /\ Deals("click") /\ rule.kind = "logical" /\ Len(rule.conditions) < MaxConditions
    /\ rule' = [rule EXCEPT !.conditions = Append(@, Condition("domains"))]
    /\ UNCHANGED <<focus, drafts, dns, picker, appLists, note, given>>

RemoveCondition(i) ==
    /\ Clicks /\ Deals("click") /\ rule.kind = "logical" /\ At(i)
    /\ rule' = [rule EXCEPT !.conditions = RemoveAt(@, i)]
    /\ drafts' = [drafts EXCEPT ![Len(rule.conditions)] = Nothing]
    /\ PickersFollow
    /\ UNCHANGED <<focus, dns, picker, note, given>>

(* RuleOptions: matching everything but the entries, for the rule or one
   condition of it. *)
Invert(i) ==
    /\ Clicks /\ Deals("click")
    /\ \/ i = 0 /\ rule' = [rule EXCEPT !.invert = ~@]
       \/ rule.kind = "logical" /\ At(i) /\ rule' = [rule EXCEPT !.conditions[i].invert = ~@]
    /\ UNCHANGED <<focus, drafts, dns, picker, appLists, note, given>>

(* RuleOptions: the resolver.  Its field is there for rules whose names are
   looked up, and saves on Enter and on losing the focus. *)
CanDns == rule.kind \in DOMAIN_KINDS /\ rule.action \notin {"block", "drop"} /\ ~rule.invert

OpenDns == /\ Clicks /\ CanDns /\ ~dns.open /\ dns' = [dns EXCEPT !.open = TRUE]
           /\ UNCHANGED <<rule, focus, drafts, picker, appLists, note, given, hand>>

SaveDns(text) ==
    /\ Clicks /\ CanDns /\ dns.open /\ Deals("dns")
    /\ IF text # rule.dns /\ text \in Resolvers \cup {""}
       THEN /\ rule' = [rule EXCEPT !.dns = text]
            /\ dns' = [draft |-> text, open |-> TRUE]
       ELSE dns' = [dns EXCEPT !.draft = text] /\ UNCHANGED rule
    /\ UNCHANGED <<focus, drafts, picker, appLists, note, given>>

RemoveDns ==
    /\ Clicks /\ CanDns /\ dns.open
    /\ dns' = [draft |-> "", open |-> FALSE] /\ rule' = [rule EXCEPT !.dns = ""]
    /\ UNCHANGED <<focus, drafts, picker, appLists, note, given, hand>>

-----------------------------------------------------------------------------
(* AppPicker.  The ticks start from the rule's entries.  The list is asked for
   at every opening and arrives while the picker is open, after it closed, or
   never; until then the list of the opening before is shown. *)
OpenPicker(i) ==
    /\ Clicks /\ At(i) /\ rule.conditions[i].kind = "apps" /\ Deals("picker")
    /\ picker' = [at |-> i, chosen |-> ToSet(Values(i))]
    /\ appLists' = [appLists EXCEPT ![i].asked = TRUE]
    /\ UNCHANGED <<rule, focus, drafts, dns, note, given>>

AppsListed(i) ==
    /\ appLists[i].asked /\ appLists' = [appLists EXCEPT ![i].asked = FALSE, ![i].apps = Installed]
    /\ UNCHANGED <<rule, focus, drafts, dns, picker, note, given, hand>>

ShowSystem ==
    /\ picker.at # 0 /\ appLists' = [appLists EXCEPT ![picker.at].system = ~@] /\ Deals("click")
    /\ UNCHANGED <<rule, focus, drafts, dns, picker, note, given>>

(* The rows: the system's programs are left out unless asked for or ticked. *)
Rows ==
    {a \in appLists[picker.at].apps :
        appLists[picker.at].system \/ a \notin System \/ <<"app", a>> \in picker.chosen}

ToggleApp(a) ==
    /\ picker.at # 0 /\ a \in Rows /\ Deals("click")
    /\ picker' = [picker EXCEPT !.chosen = SymDiff(@, {<<"app", a>>})]
    /\ UNCHANGED <<rule, focus, drafts, dns, appLists, note, given>>

(* The ticks in the order they were made: the rule's own first. *)
PickerSaves ==
    LET own == Values(picker.at)
        kept == KeepAt(own, {j \in DOMAIN own : own[j] \in picker.chosen}) IN
    /\ picker.at # 0
    /\ SetValues(picker.at, kept \o SetToSeq(picker.chosen \ ToSet(kept)))
    /\ picker' = NoPicker
    /\ UNCHANGED <<focus, drafts, dns, appLists, note, given, hand>>

PickerCloses == /\ picker.at # 0 /\ picker' = NoPicker
                /\ UNCHANGED <<rule, focus, drafts, dns, appLists, note, given, hand>>

-----------------------------------------------------------------------------
(* CommentNode: saved when it loses the focus; a text that changes meanwhile
   replaces what is being typed. *)
TypeNote(text) ==
    /\ focus = 0 /\ picker.at = 0 /\ Deals("note")
    /\ note' = [note EXCEPT !.draft = text, !.focus = TRUE]
    /\ UNCHANGED <<rule, focus, drafts, dns, picker, appLists, given>>

BlurNote ==
    /\ note.focus /\ note' = [note EXCEPT !.text = note.draft, !.focus = FALSE]
    /\ UNCHANGED <<rule, focus, drafts, dns, picker, appLists, given, hand>>

NoteReplaced(text) ==
    /\ Deals("note") /\ note' = [note EXCEPT !.text = text, !.draft = IF text = note.text THEN @ ELSE text]
    /\ UNCHANGED <<rule, focus, drafts, dns, picker, appLists, given>>

-----------------------------------------------------------------------------
CardInit ==
    /\ rule \in [kind : {"domains", "logical"}, action : {"proxy", "block"}, invert : {FALSE},
                 dns : {""}, conditions : {<<Condition("domains")>>}, twice : {{}}]
    /\ focus = 0 /\ drafts = [i \in 1..MaxConditions |-> Nothing]
    /\ dns = [draft |-> "", open |-> FALSE] /\ picker = NoPicker
    /\ appLists = [i \in 1..MaxConditions |-> NoList]
    /\ note = [text |-> "", draft |-> "", focus |-> FALSE]
    /\ given = {}
    /\ hand \in Hands

CardNext ==
    \/ \E i \in 1..MaxConditions :
          \/ \E v \in UNION {Typable(k) : k \in Kinds} : Type(i, v)
          \/ \E p \in Protocols : PickChoice(i, p)
          \/ \E v \in UNION {Fits(k) : k \in Kinds} : RemoveValue(i, v)
          \/ \E k \in Kinds : SetKind(i, k)
          \/ RemoveCondition(i) \/ OpenPicker(i) \/ AppsListed(i)
    \/ \E i \in 0..MaxConditions : Invert(i)
    \/ Enter \/ Blur \/ \E c \in Codes : PickCode(c)
    \/ SwitchDomainMode \/ AddCondition
    \/ OpenDns \/ RemoveDns \/ \E text \in Resolvers \cup {"", "typo"} : SaveDns(text)
    \/ ShowSystem \/ PickerSaves \/ PickerCloses \/ \E a \in Installed : ToggleApp(a)
    \/ \E text \in {"n1", "n2"} : TypeNote(text) \/ NoteReplaced(text)
    \/ BlurNote

CardSpec == CardInit /\ [][CardNext]_cardVars

-----------------------------------------------------------------------------
(***************************************************************************)
(* Whatever the order of typing, clicking, switching and removing, an      *)
(* entry sits under a kind it makes sense for (names are never patterns,   *)
(* "an app name is not a port", a closed set holds only its own values),   *)
(* no entry is there twice, and the resolver is one the backend accepts.   *)
(* The one exception is what DomainModeSwitch makes of a name with and     *)
(* without its leading dot: one pattern, listed for each.                  *)
(***************************************************************************)
EntriesFit ==
    /\ rule.dns \in Resolvers \cup {""}
    /\ \A i \in DOMAIN rule.conditions :
          /\ ToSet(Values(i)) \subseteq Fits(rule.conditions[i].kind)
          /\ Repeated(Values(i)) \subseteq rule.twice

(***************************************************************************)
(* Nothing typed stays behind in a field that lost the focus, to land in   *)
(* another condition later: it became an entry.  But text that was given   *)
(* up for a suggestion never becomes an entry as well                      *)
(* (EntryEditor's commit, GeoSuggestions' kept focus).                     *)
(***************************************************************************)
TypedLands ==
    /\ focus = 0 => \A i \in 1..MaxConditions : drafts[i] = Nothing
    /\ Entered \cap given = {}

(***************************************************************************)
(* "Entries already in the rule that are not in the list (a process name   *)
(* typed in) stay as they are": they are ticked for as long as the picker  *)
(* is open, and nothing listed or not can untick them.                     *)
(***************************************************************************)
TypedAppsStay ==
    picker.at # 0 => {v \in ToSet(Values(picker.at)) : v[2] \notin Installed} \subseteq picker.chosen

(***************************************************************************)
(* A card keeps its rule right: entries fit their condition, what is typed *)
(* lands where it was typed or nowhere, and the app picker takes nothing   *)
(* away it did not show (EntryEditor, LogicalNode, AppPicker).             *)
(***************************************************************************)
CardHolds == EntriesFit /\ TypedLands /\ TypedAppsStay

-----------------------------------------------------------------------------
(* The inductive invariant behind CardHolds. *)

(* There is room for a condition, the system lists finitely many programs, and
   a code half typed is not a code. *)
ASSUME CardAssumption ==
    /\ MaxConditions \in Nat \ {0}
    /\ IsFiniteSet(Installed)
    /\ Half \notin Codes

ConditionFits(c, twice) ==
    /\ DOMAIN c = {"kind", "values", "invert"} /\ c.kind \in Kinds
    /\ IsList(c.values) /\ Repeated(c.values) \subseteq twice /\ Range(c.values) \subseteq Fits(c.kind)

(* A plain rule is one condition, of its own kind. *)
RuleFits(r) ==
    /\ DOMAIN r = {"kind", "action", "invert", "dns", "conditions", "twice"}
    /\ r.dns \in Resolvers \cup {""}
    /\ IsList(r.conditions) /\ Len(r.conditions) <= MaxConditions
    /\ \A i \in DOMAIN r.conditions : ConditionFits(r.conditions[i], r.twice)
    /\ r.kind # "logical" => Len(r.conditions) = 1 /\ r.conditions[1].kind = r.kind

(* Only the field with the focus holds text, of its condition's kind. *)
DraftsFit ==
    /\ DOMAIN drafts = 1 .. MaxConditions
    /\ \A i \in 1 .. MaxConditions : i # focus => drafts[i] = Nothing
    /\ focus # 0 => /\ At(focus) /\ picker.at = 0
                    /\ drafts[focus] \in (Typable(rule.conditions[focus].kind) \ given) \cup {Nothing}

(* Only half-typed codes are given up, and none of those became an entry. *)
GivenFits == given \subseteq {<<"code", Half>>} /\ Entered \cap given = {}

PickerFits ==
    /\ DOMAIN picker = DOMAIN NoPicker
    /\ picker.at # 0 => /\ At(picker.at) /\ rule.conditions[picker.at].kind = "apps"
                        /\ picker.chosen \subseteq Fits("apps")
    /\ TypedAppsStay

(* Only programs of the list are ever listed. *)
AppListsFit ==
    /\ DOMAIN appLists = 1 .. MaxConditions
    /\ \A i \in 1 .. MaxConditions : DOMAIN appLists[i] = DOMAIN NoList /\ appLists[i].apps \subseteq Installed

CardInv == RuleFits(rule) /\ DraftsFit /\ GivenFits /\ PickerFits /\ AppListsFit

=============================================================================
