---------------------------- MODULE SettingsSync ----------------------------
(***************************************************************************)
(* The settings as the window and Go share them.  Go owns them; the window *)
(* holds a copy (App.tsx, "settings"), changes it before Go has answered,  *)
(* and replaces it by whatever answer or event arrives next.  Calls are    *)
(* separate requests: Go may serve two of them, and the window may receive *)
(* their answers, in either order.                                         *)
(*                                                                         *)
(* A settings value is a record: the routing graph being edited, the saved *)
(* setups, the active one, the schedule, the geo files, the device id, the *)
(* proxy chain, the remembered selection, and "other" for other fields.    *)
(***************************************************************************)
EXTENDS Naturals, Sequences, FiniteSets, SequencesExt, Sublists

CONSTANTS
    \* The values "budget" may start with; a budget gives the bounds
    \* of one scenario: how often each kind of step may happen, how many
    \* calls may be in flight ("flight") and whether calls and answers keep
    \* their order ("inOrder").
    Budgets,
    \* The settings Go may have when the window opens.
    FirstSettings

VARIABLES
    shown,      \* the window's copy: App's settings and settingsRef.current
    stored,     \* Go's: app.settings
    calls,      \* calls on their way to Go and answers on their way back
    failed,     \* whether a save was refused so far
    budget      \* what is left of the bounds

syncVars == <<shown, stored, calls, failed, budget>>

(* Model bounds. *)
May(what) == budget[what] > 0
Spend(what) == budget' = [budget EXCEPT ![what] = @ - 1]
MayCall == Cardinality(calls) < budget["flight"]

None == ""

SetupIds(s) == {s.setups[i].id : i \in DOMAIN s.setups}

(* normalizeSetups: the active setup is one of the list, and its entry
   mirrors the graph being edited. *)
Normalize(s) ==
    LET active == IF s.active \in SetupIds(s) THEN s.active ELSE s.setups[1].id
    IN  [s EXCEPT !.active = active,
                  !.setups = [i \in DOMAIN @ |->
                     IF @[i].id = active THEN [@[i] EXCEPT !.graph = s.graph]
                     ELSE @[i]]]

(* SwitchSetup: the live graph goes to the setup being left, the target's
   becomes the live one. *)
SwitchSetup(s, id) ==
    LET kept == Normalize(s).setups
        target == CHOOSE i \in DOMAIN kept : kept[i].id = id
    IN  Normalize([s EXCEPT !.setups = kept, !.active = id,
                            !.graph = kept[target].graph])

(* Calls are stamped in the order they are sent, answers in the order Go gives
   them. *)
Stamp(cs) == 1 + Max({c.n : c \in cs} \cup {0})

(* A request to Go among cs.  "then" says which await continues with its
   answer, "value" is a settings record, "data" anything else it carries or
   the code around that await holds meanwhile. *)
NoSettings == CHOOSE s \in FirstSettings : TRUE
NoData == [list |-> <<>>, ids |-> {}, rest |-> <<>>, name |-> None]
Posted(cs, kind, value, id, then, data) ==
    cs \cup {[n |-> Stamp(cs), kind |-> kind, value |-> value, id |-> id, then |-> then,
              data |-> data, read |-> FALSE, done |-> FALSE, ok |-> TRUE]}
PostSave(cs, value, then) == Posted(cs, "save", value, None, then, NoData)

Send(kind, value, id, then) == calls' = Posted(calls, kind, value, id, then, NoData)
SendSave(value, then) == calls' = PostSave(calls, value, then)

(* Go's answer to c. *)
Answer(c, value, ok) ==
    calls' = (calls \ {c}) \cup
             {[c EXCEPT !.n = Stamp(calls), !.done = TRUE, !.ok = ok, !.value = value]}

(* The call an await makes next, once c has been answered. *)
Continue(c, kind, value, id, then) == calls' = Posted(calls \ {c}, kind, value, id, then, NoData)

(* patchSettings: the merge is built on the copy on screen, shown at once and
   sent to Go; nobody waits for the answer but the copy itself. *)
PatchSettings(next) == shown' = next /\ SendSave(next, "patch")

(* The call Go takes next, and the answer the window takes next. *)
Oldest(c, S) == budget["inOrder"] = 1 => \A d \in S : c.n <= d.n
NextServed(c) == c \in calls /\ ~c.done /\ Oldest(c, {d \in calls : ~d.done})
NextHeard(c) == c \in calls /\ c.done /\ Oldest(c, {d \in calls : d.done})

-----------------------------------------------------------------------------
(* Go's side. *)

(* SaveSettings: the whole record replaces Go's. *)
SaveServed(c) ==
    /\ NextServed(c) /\ c.kind = "save"
    /\ stored' = Normalize(c.value)
    /\ Answer(c, stored', TRUE)
    /\ UNCHANGED <<shown, failed, budget>>

(* SaveSettings failing: the system refuses the autostart change and nothing
   is stored, or the file cannot be written after Go's copy was replaced. *)
SaveRefused(c) ==
    /\ NextServed(c) /\ c.kind = "save" /\ May("fail")
    /\ \/ UNCHANGED stored
       \/ stored' = Normalize(c.value)
    /\ Answer(c, c.value, FALSE)
    /\ failed' = TRUE /\ Spend("fail")
    /\ UNCHANGED shown

(* Every other command reads Go's settings, changes its copy and saves it:
   two steps, between which another call may save. *)
ReadSettings(c) ==
    /\ NextServed(c) /\ c.kind \in {"switch", "hwid", "geo", "flow", "core", "shortcut"} /\ ~c.read
    /\ calls' = (calls \ {c}) \cup {[c EXCEPT !.read = TRUE, !.value = stored]}
    /\ UNCHANGED <<shown, stored, failed, budget>>

(* SwitchRoutingSetup: nothing to do for the active setup, an error for one
   that is gone, otherwise switch, save and tell the window by an event as
   well as by the answer.  The file may not be written after Go's copy was
   replaced, and no event is sent; or the tunnel may not restart on the new
   routing.  The tray has no use for the answer. *)
Told(c, events, ok) ==
    calls' = (calls \ {c}) \cup
             {[d EXCEPT !.value = stored', !.done = TRUE] :
                d \in {[c EXCEPT !.n = Stamp(calls), !.then = "event"] : e \in events} \cup
                      IF c.then = "tray" THEN {} ELSE {[c EXCEPT !.n = Stamp(calls) + 1, !.ok = ok]}}
SwitchServed(c) ==
    /\ NextServed(c) /\ c.kind = "switch" /\ c.read
    /\ IF c.id \in SetupIds(c.value) \ {c.value.active}
       THEN /\ stored' = SwitchSetup(c.value, c.id)
            /\ \/ Told(c, {"settings"}, TRUE) /\ UNCHANGED <<failed, budget>>
               \/ /\ May("fail") /\ Spend("fail") /\ failed' = TRUE
                  /\ Told(c, {}, FALSE) \/ Told(c, {"settings"}, FALSE)
       ELSE /\ IF c.then = "tray" THEN calls' = calls \ {c}
               ELSE Answer(c, c.value, c.id = c.value.active)
            /\ UNCHANGED <<stored, failed, budget>>
    /\ UNCHANGED shown

(* A setup is picked in the tray, or the schedule's choice changes. *)
TraySwitch(id) ==
    /\ May("tray") /\ MayCall
    /\ Send("switch", stored, id, "tray")
    /\ Spend("tray")
    /\ UNCHANGED <<shown, stored, failed>>

(* Commands that change one part and answer with all of it: regenerate_hwid,
   the geo files' import, download and removal, and import_routing, which
   replaces the graph being edited. *)
EmptyGraph(of) ==
    [rules |-> <<>>, default_action |-> "proxy", default_server |-> "",
     servers |-> {}, comments |-> <<>>, layout |-> <<>>, of |-> of]
ImportedGraph(of) == [EmptyGraph(of) EXCEPT !.default_action = "direct"]
Commanded(c) ==
    CASE c.kind = "geo" -> [c.value EXCEPT !.geo = 1 - @]
      [] c.kind = "hwid" -> [c.value EXCEPT !.hwid = 1 - @]
      [] OTHER -> Normalize([c.value EXCEPT !.graph = ImportedGraph(c.value.active)])

(* They may fail before anything is saved, or with Go's copy replaced and the
   file not written. *)
CommandServed(c) ==
    /\ NextServed(c) /\ c.kind \in {"hwid", "geo", "flow"} /\ c.read
    /\ \/ stored' = Commanded(c) /\ Answer(c, stored', TRUE) /\ UNCHANGED <<failed, budget>>
       \/ UNCHANGED <<stored, failed, budget>> /\ Answer(c, stored, FALSE)
       \/ /\ May("fail") /\ Spend("fail") /\ failed' = TRUE
          /\ stored' = Commanded(c) /\ Answer(c, stored', FALSE)
    /\ UNCHANGED shown

ServeSettings ==
    \E c \in calls : \/ SaveServed(c) \/ SaveRefused(c)
                     \/ ReadSettings(c) \/ SwitchServed(c) \/ CommandServed(c)

-----------------------------------------------------------------------------
(* Mutant: the answer of a plain save is dropped. *)
SettingsHeardUnlessSaved(c) ==
    /\ NextHeard(c) /\ c.then \in {"patch", "save", "event"}
    /\ shown' = IF c.ok /\ c.then # "save" THEN c.value ELSE shown
    /\ calls' = calls \ {c}
    /\ UNCHANGED <<stored, failed, budget>>

(* The window's side: what an answer does to the copy by itself.  saveSettings
   and the settings event replace the whole copy; a refused save leaves it. *)
SettingsHeard(c) ==
    /\ NextHeard(c) /\ c.then \in {"patch", "save", "event"}
    /\ shown' = IF c.ok THEN c.value ELSE shown
    /\ calls' = calls \ {c}
    /\ UNCHANGED <<stored, failed, budget>>

SyncInit ==
    /\ stored \in FirstSettings
    /\ shown = stored
    /\ calls = {} /\ failed = FALSE
    /\ budget \in Budgets

Quiet == calls = {}

(***************************************************************************)
(* "Go normalises and returns the canonical value, so the UI holds exactly *)
(* what was persisted" (saveSettings in App.tsx): whenever nothing is on   *)
(* its way, the copy on screen is Go's, as long as calls keep their order  *)
(* and no save was refused.                                                *)
(***************************************************************************)
ShownIsStored == (Quiet /\ budget["inOrder"] = 1 /\ ~failed) => shown = stored

-----------------------------------------------------------------------------
(* The inductive invariant behind ShownIsStored: what differs between the two
   copies is accounted for by a call or an answer under way. *)
ASSUME OrderIsGiven == \A b \in Budgets : "inOrder" \in DOMAIN b

CallFields == {"n", "kind", "value", "id", "then", "data", "read", "done", "ok"}

(* The awaits that replace the copy by their answer, and those that save the
   copy once they have theirs. *)
Replacing == {"patch", "save", "event", "suggest", "switcher", "start:settings", "start:pushed"}
Resaving == {"core", "shortcut", "flow", "panel", "banner", "start:push"}

(* Which await may continue with the answer to which command. *)
CallFits(c) ==
    /\ DOMAIN c = CallFields /\ c.n \in Nat
    /\ c.read \in BOOLEAN /\ c.done \in BOOLEAN /\ c.ok \in BOOLEAN
    /\ c.kind \in {"save", "hwid", "settings"} => c.then \in Replacing
    /\ c.kind \in {"geo", "flow", "core", "shortcut", "push"} => c.then \in Resaving
    /\ c.kind = "switch" => c.then \in {"tray", "switcher", "event"}
    /\ c.then \in Replacing => c.kind \in {"save", "hwid", "settings", "switch"}
    /\ c.then = "start:settings" => c.kind = "settings"
    /\ ~c.done \/ c.kind = "settings" => c.ok

(* No two stamps are the same, and there is always a next one. *)
Stamped(cs) ==
    /\ \E k \in Nat : \A c \in cs : c.n <= k
    /\ \A c, d \in cs : c.n = d.n => c = d

(* In order, the settings a switch has read are still Go's when it goes on. *)
ReadIsFresh(cs, st) ==
    \A c \in cs : c.kind = "switch" /\ c.read /\ ~c.done =>
        c.value = st /\ \A d \in cs : ~d.done => c.n <= d.n

(* An answer that will replace the copy; a call or an answer that a save comes
   of; a switch of the setup menu's that will find its target. *)
Brings(c) == c.done /\ c.ok /\ c.then \in Replacing
Saves(c) == (~c.done /\ c.kind = "save") \/ (c.done /\ c.ok /\ c.then \in Resaving)
WillSwitch(c, st) == ~c.done /\ c.kind = "switch" /\ c.then = "switcher" /\ c.id \in SetupIds(st)
Agrees(cs, sh, st) ==
    \/ \E c \in cs : Saves(c) \/ WillSwitch(c, st)
    \/ \E c \in cs : Brings(c) /\ c.value = st /\ \A d \in cs : Brings(d) => d.n <= c.n
    \/ sh = st /\ \A d \in cs : ~Brings(d)

ShownInv ==
    /\ "inOrder" \in DOMAIN budget /\ failed \in BOOLEAN
    /\ (\A c \in calls : CallFits(c)) /\ Stamped(calls)
    /\ budget["inOrder"] = 1 => ReadIsFresh(calls, stored)
    /\ budget["inOrder"] = 1 /\ ~failed => Agrees(calls, shown, stored)

=============================================================================
