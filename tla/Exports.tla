------------------------------ MODULE Exports ------------------------------
(***************************************************************************)
(* Two dialogs of the lists: Export (ExportDialog.tsx), whose text Go makes*)
(* anew for every format, and Edit subscription (EditConfigDialog.tsx).    *)
(* Both close after an exit animation of 200 ms and both await a call that *)
(* may end after they closed or show something else.                       *)
(***************************************************************************)
EXTENDS Naturals, Sequences, FiniteSets, SequencesExt, Sublists

CONSTANTS
    Drives,         \* the scenarios: the bounds "drive" may start with
    Exportable,     \* lists of profiles to export
    Subscriptions   \* domains

(* "" stands for null: there is nothing to export under that name. *)
ASSUME ExportableAssumption == "" \notin Exportable

VARIABLES
    exporting,  \* exportingProfiles, "" for null
    export,     \* ExportDialog's mounts so far
    asks,       \* export_configs calls under way
    files,      \* save pickers under way, and files written
    urls,       \* what Go keeps: domain -> subscription url
    source,     \* editingSource, "" for null
    config,     \* EditConfigDialog's mounts so far
    updates,    \* onUpdateSubscriptionUrl calls under way
    closings,   \* setTimeout(onClose, 200) under way: which dialog, which mount
    drive       \* what is left of the bounds

exportVars == <<exporting, export, asks, files>>
configVars == <<urls, source, config, updates>>
exportsVars == <<exportVars, configVars, closings, drive>>

Drive(what) == drive[what] > 0 /\ drive' = [drive EXCEPT ![what] = @ - 1]

-----------------------------------------------------------------------------
(* ExportDialog *)

Exp == Last(export)
Exporting == exporting # ""
Wants(list, e) == [list |-> list, format |-> e.format, full |-> e.full]

(* Mutant: the earlier call's answer still counts. *)
AskFormatToo(list, e, n) ==
    asks' = Append(asks, [want |-> Wants(list, e), mount |-> n, cancelled |-> FALSE])

(* The effect on profiles, format and fullConfig: the earlier call's answer
   is dropped, and a new one is asked for. *)
AskFormat(list, e, n) ==
    asks' = Append([i \in DOMAIN asks |-> IF asks[i].mount = n THEN [asks[i] EXCEPT !.cancelled = TRUE] ELSE asks[i]],
                   [want |-> Wants(list, e), mount |-> n, cancelled |-> FALSE])

(* setExportingProfiles: from a card, the toolbar or another dialog.  While
   the dialog is still closing, isOpen does not change and it stays closed. *)
Export(list) ==
    /\ Drive("export") /\ (Exporting => ~Exp.open /\ list # exporting)
    /\ exporting' = list
    /\ IF Exporting
       THEN /\ export' = [export EXCEPT ![Len(export)].loading = TRUE, ![Len(export)].error = FALSE]
            /\ AskFormat(list, Exp, Len(export))
       ELSE LET e == [open |-> TRUE, closing |-> FALSE, format |-> "singbox", full |-> TRUE, content |-> <<>>,
                      loading |-> TRUE, error |-> FALSE, saving |-> FALSE]
            IN  export' = Append(export, e) /\ AskFormat(list, e, Len(export) + 1)
    /\ UNCHANGED <<files, configVars, closings>>

(* The format switch and the full-config switch. *)
ChooseFormat(format, full) ==
    /\ Exporting /\ Exp.open /\ Drive("choose") /\ <<format, full>> # <<Exp.format, Exp.full>>
    /\ LET e == [Exp EXCEPT !.format = format, !.full = full, !.loading = TRUE, !.error = FALSE]
       IN  export' = [export EXCEPT ![Len(export)] = e] /\ AskFormat(exporting, e, Len(export))
    /\ UNCHANGED <<exporting, files, configVars, closings>>

(* export_configs answers, or fails. *)
Exported(k) ==
    /\ k \in DOMAIN asks /\ asks' = RemoveAt(asks, k)
    /\ LET n == asks[k].mount IN
       IF asks[k].cancelled THEN UNCHANGED export
       ELSE \/ export' = [export EXCEPT ![n].content = <<asks[k].want>>, ![n].loading = FALSE]
            \/ export' = [export EXCEPT ![n].error = TRUE, ![n].loading = FALSE]
    /\ UNCHANGED <<exporting, files, configVars, closings, drive>>

CloseExport(n) == IF export[n].closing THEN export[n] ELSE [export[n] EXCEPT !.closing = TRUE, !.open = FALSE]
ExportClosing(n) == IF export[n].closing THEN closings ELSE Append(closings, [dialog |-> "export", mount |-> n])

CancelExport ==
    /\ Exporting /\ Exp.open
    /\ export' = [export EXCEPT ![Len(export)] = CloseExport(Len(export))] /\ closings' = ExportClosing(Len(export))
    /\ UNCHANGED <<exporting, asks, files, configVars, drive>>

(* handleCopy and handleSaveFile: the buttons wait for the text.  The file's
   name is made of the format, its content is what was read last. *)
HandleSaveFile ==
    /\ Exporting /\ Exp.open /\ ~Exp.loading /\ Exp.content # <<>> /\ ~Exp.saving /\ Drive("file")
    /\ export' = [export EXCEPT ![Len(export)].saving = TRUE]
    /\ files' = [files EXCEPT !.asked = Append(@,
                   [mount |-> Len(export), name |-> Exp.format, text |-> Exp.content[1], failed |-> Exp.error,
                    list |-> exporting])]
    /\ UNCHANGED <<exporting, asks, configVars, closings>>

(* The file picker answers: a path and the file is written, or nothing. *)
FilePicked(k) ==
    /\ k \in DOMAIN files.asked
    /\ LET job == files.asked[k]
           n == job.mount
       IN  \/ /\ files' = [asked |-> RemoveAt(files.asked, k), written |-> files.written \cup {job}]
              /\ export' = [export EXCEPT ![n] = [CloseExport(n) EXCEPT !.saving = FALSE]]
              /\ closings' = ExportClosing(n)
           \/ /\ files' = [files EXCEPT !.asked = RemoveAt(@, k)]
              /\ export' = [export EXCEPT ![n].saving = FALSE] /\ UNCHANGED closings
    /\ UNCHANGED <<exporting, asks, configVars, drive>>

-----------------------------------------------------------------------------
(* EditConfigDialog, for a subscription. *)

Cfg == Last(config)
EditingSource == source # ""

(* The effect on source, isOpen and profiles: the fields are filled anew. *)
Filled(c, domain) == [c EXCEPT !.of = domain, !.url = urls'[domain], !.open = TRUE, !.closing = FALSE, !.error = FALSE]

EditSource(domain) ==
    /\ Drive("edit") /\ (EditingSource => ~Cfg.open)
    /\ source' = domain /\ UNCHANGED urls
    /\ config' = IF EditingSource THEN [config EXCEPT ![Len(config)] = Filled(Cfg, domain)]
                 ELSE Append(config, Filled([saving |-> FALSE, of |-> "", url |-> "", open |-> TRUE, closing |-> FALSE, error |-> FALSE], domain))
    /\ UNCHANGED <<updates, exportVars, closings>>

TypeUrl(url) ==
    /\ EditingSource /\ Cfg.open /\ ~Cfg.saving /\ Drive("type")
    /\ config' = [config EXCEPT ![Len(config)].url = url]
    /\ UNCHANGED <<urls, source, updates, exportVars, closings>>

(* The list is refreshed: what is typed is replaced, and a dialog on its way
   out comes back. *)
ProfilesRefreshed(domain, url) ==
    /\ Drive("refresh") /\ urls' = [urls EXCEPT ![domain] = url]
    /\ config' = IF EditingSource THEN [config EXCEPT ![Len(config)] = Filled(Cfg, source)] ELSE config
    /\ UNCHANGED <<source, updates, exportVars, closings>>

CloseConfig(n) == IF config[n].closing THEN config[n] ELSE [config[n] EXCEPT !.closing = TRUE, !.open = FALSE]
ConfigClosing(n) == IF config[n].closing THEN closings ELSE Append(closings, [dialog |-> "config", mount |-> n])

CancelConfig ==
    /\ EditingSource /\ Cfg.open
    /\ config' = [config EXCEPT ![Len(config)] = CloseConfig(Len(config))] /\ closings' = ConfigClosing(Len(config))
    /\ UNCHANGED <<urls, source, updates, exportVars, drive>>

(* handleSave, to its await. *)
SaveUrl ==
    /\ EditingSource /\ Cfg.open /\ ~Cfg.saving /\ Cfg.url # "" /\ Drive("save")
    /\ config' = [config EXCEPT ![Len(config)].saving = TRUE, ![Len(config)].error = FALSE]
    /\ updates' = Append(updates, [mount |-> Len(config), domain |-> source, draft |-> Cfg])
    /\ UNCHANGED <<urls, source, exportVars, closings>>

(* handleSave, after it: the new list arrives with the answer, so the effect
   on profiles runs in the dialog that is open by now. *)
UrlSaved(k) ==
    /\ k \in DOMAIN updates /\ updates' = RemoveAt(updates, k)
    /\ LET n == updates[k].mount IN
       \/ /\ urls' = [urls EXCEPT ![updates[k].domain] = updates[k].draft.url]
          /\ LET refilled == IF EditingSource THEN [config EXCEPT ![Len(config)] = Filled(Cfg, source)] ELSE config
             IN  config' = [refilled EXCEPT ![n] = [@ EXCEPT !.saving = FALSE, !.closing = TRUE, !.open = FALSE]]
          /\ closings' = IF config[n].closing /\ ~(EditingSource /\ n = Len(config)) THEN closings
                         ELSE Append(closings, [dialog |-> "config", mount |-> n])
       \/ /\ config' = [config EXCEPT ![n].saving = FALSE, ![n].error = TRUE]
          /\ UNCHANGED <<urls, closings>>
    /\ UNCHANGED <<source, exportVars, drive>>

-----------------------------------------------------------------------------
(* The 200 ms are over: the view closes the dialog, whatever it shows. *)
ExitEnds(k) ==
    /\ k \in DOMAIN closings /\ closings' = RemoveAt(closings, k)
    /\ LET n == closings[k].mount IN
       IF closings[k].dialog = "export"
       THEN /\ exporting' = "" /\ export' = [export EXCEPT ![n].closing = FALSE]
            /\ asks' = [i \in DOMAIN asks |-> [asks[i] EXCEPT !.cancelled = TRUE]]
            /\ UNCHANGED <<files, configVars>>
       ELSE source' = "" /\ config' = [config EXCEPT ![n].closing = FALSE] /\ UNCHANGED <<urls, updates, exportVars>>
    /\ UNCHANGED drive

ExportsInit ==
    /\ exporting = "" /\ export = <<>> /\ asks = <<>> /\ files = [asked |-> <<>>, written |-> {}]
    /\ urls = [d \in Subscriptions |-> "first"] /\ source = "" /\ config = <<>> /\ updates = <<>>
    /\ closings = <<>> /\ drive \in Drives

ExportsNext ==
    \/ \E list \in Exportable : Export(list)
    \/ \E format \in {"singbox", "clash", "xray"}, full \in BOOLEAN : ChooseFormat(format, full)
    \/ \E k \in DOMAIN asks : Exported(k)
    \/ CancelExport \/ HandleSaveFile
    \/ \E k \in DOMAIN files.asked : FilePicked(k)
    \/ \E d \in Subscriptions : EditSource(d)
    \/ \E url \in {"", "typed"} : TypeUrl(url)
    \/ \E d \in Subscriptions : ProfilesRefreshed(d, "moved")
    \/ CancelConfig \/ SaveUrl
    \/ \E k \in DOMAIN updates : UrlSaved(k)
    \/ \E k \in DOMAIN closings : ExitEnds(k)

ExportsSpec == ExportsInit /\ [][ExportsNext]_exportsVars

-----------------------------------------------------------------------------
(* The text shown is of the servers, the format and the scope chosen, however
   often they were changed while Go was still making an earlier one (the
   effect's "cancelled"). *)
ExportIsChosen ==
    Exporting /\ ~Exp.loading /\ ~Exp.error => Exp.content = <<Wants(exporting, Exp)>>

(* A file's text is of the format its name says and of the servers chosen when
   it was asked for, unless it was saved past an error: then the text is still
   the one before. *)
FilesAreNamed ==
    \A job \in files.written \cup ToSet(files.asked) :
        ~job.failed => job.text.format = job.name /\ job.text.list = job.list

(* What the dialog saves as a subscription's address was filled in for that
   subscription, whatever was opened, closed or refreshed meanwhile. *)
ConfigDraftIsOwn ==
    /\ \A k \in DOMAIN updates : updates[k].draft.of = updates[k].domain
    /\ EditingSource => Cfg.of = source

(***************************************************************************)
(* Both dialogs work on what they show: the text exported, the file saved  *)
(* and the address stored belong to the choice they were made for.         *)
(***************************************************************************)
DialogsHold == ExportIsChosen /\ FilesAreNamed /\ ConfigDraftIsOwn

-----------------------------------------------------------------------------
(* The inductive invariant behind DialogsHold. *)

ExportFields == {"open", "closing", "format", "full", "content", "loading", "error", "saving"}
ConfigFields == {"saving", "of", "url", "open", "closing", "error"}
ExportTypes ==
    /\ IsList(export) /\ \A e \in Range(export) : DOMAIN e = ExportFields
    /\ IsList(config) /\ \A c \in Range(config) : DOMAIN c = ConfigFields
    /\ IsList(asks) /\ \A a \in Range(asks) : DOMAIN a = {"want", "mount", "cancelled"}
    /\ IsList(updates) /\ IsList(closings)
    /\ DOMAIN files = {"asked", "written"} /\ IsList(files.asked)

(* A call whose answer still counts asks for what the dialog on screen has
   chosen. *)
AsksInv ==
    \A a \in Range(asks) : ~a.cancelled =>
        Exporting /\ a.mount = Len(export) /\ a.want = Wants(exporting, Exp)

DialogsInv ==
    /\ ExportTypes /\ AsksInv /\ DialogsHold
    /\ Exporting => export # <<>>
    /\ EditingSource => config # <<>>

=============================================================================
