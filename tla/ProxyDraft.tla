----------------------------- MODULE ProxyDraft -----------------------------
(***************************************************************************)
(* The Edit server dialog (EditProxyDialog.tsx) and the links it reads and *)
(* writes (lib/proxy-config.ts).  A link is its scheme and the fields that *)
(* are written in it; reading one fills a form with defaults for the rest. *)
(* A save is awaited, and closing waits for the exit animation, so both    *)
(* may end when the dialog shows another server.                           *)
(***************************************************************************)
EXTENDS Naturals, Sequences, FiniteSets, SequencesExt

CONSTANTS
    Efforts         \* the scenarios: first links, and bounds of "effort"

VARIABLES
    links,      \* what Go keeps: profile id -> link
    editing,    \* ProxiesView's editingProfile: [id, link] or NoEdit
    dialogs,    \* the dialog's mounts so far
    writes,     \* onSave calls under way
    timers,     \* setTimeout(onClose, 200) under way: the mount of each
    effort      \* what is left of the bounds

draftVars == <<links, editing, dialogs, writes, timers, effort>>

NoEdit == [id |-> "", link |-> [scheme |-> "", json |-> FALSE, f |-> <<>>]]
SpendEffort(what) == effort[what] > 0 /\ effort' = [effort EXCEPT ![what] = @ - 1]

-----------------------------------------------------------------------------
(* ProxyFormState, by the fields the properties tell apart: secret is uuid,
   password or username, key is the Reality key. *)

DraftFields == {"server", "port", "secret", "method", "security", "sni", "key", "insecure", "network"}
DefaultForm == [server |-> "localhost", port |-> 443, secret |-> "", method |-> "auto", security |-> "tls",
                sni |-> "", key |-> "", insecure |-> FALSE, network |-> "tcp"]

Has(link, field) == field \in DOMAIN link.f
Read(link, field, default) == IF Has(link, field) THEN link.f[field] ELSE default

(* A Shadowsocks link holds base64 of "method:secret".  What is split off at
   the first two colons loses a secret's tail; base64 that needs padding is
   escaped by the URL parser and is taken as the secret itself.  Where a URL
   has a password after the user's name, only the name is read. *)
ReadSecret(link) ==
    LET secret == Read(link, "secret", "") IN
    CASE link.json -> secret
      [] link.scheme = "ss" /\ secret = "with:colon" -> "with"
      [] link.scheme = "ss" /\ secret = "padded" -> "escaped"
      [] link.scheme \in {"trojan", "hysteria2"} /\ secret = "user:pass" -> "user"
      [] OTHER -> secret

(* Shadowsocks' older form is base64 all through, server and all. *)
AllEncoded(link) == link.scheme = "ss" /\ Has(link, "encoded")

(* parseProxyLink, the TLS part: some schemes imply TLS whatever they say. *)
ReadSecurity(link) ==
    LET said == Read(link, "security", "none")
    IN  IF link.json \/ link.scheme = "vless" THEN said
        ELSE IF link.scheme = "vmess" THEN IF said = "tls" THEN "tls" ELSE "none"
        ELSE IF said = "reality" THEN said
        ELSE IF said = "tls" \/ link.scheme \in {"trojan", "hysteria2", "tuic"} THEN "tls"
        ELSE "none"

(* parseProxyLink: a form, with the protocol and the raw link it came from.
   A URL drops the port that is its scheme's default, and a link without a port
   is read as 443 whatever its scheme. *)
ParseProxyLink(link) ==
    IF link.scheme \in {"", "garbled"}
    THEN [protocol |-> "vless", json |-> FALSE, raw |-> link, f |-> DefaultForm]
    ELSE IF AllEncoded(link)
    THEN [protocol |-> "ss", json |-> FALSE, raw |-> link,
          f |-> [DefaultForm EXCEPT !.server = "encoded", !.security = "none"]]
    ELSE [protocol |-> link.scheme, json |-> link.json, raw |-> link,
          f |-> [server |-> Read(link, "server", ""),
                 port |-> IF link.scheme = "http" /\ ~link.json /\ Read(link, "port", 80) = 80 THEN 443 ELSE Read(link, "port", 443),
                 secret |-> ReadSecret(link),
                 method |-> CASE link.json -> "auto"
                              [] link.scheme = "ss" /\ Read(link, "secret", "") = "padded" -> "auto"
                              [] link.scheme \in {"ss", "vmess"} -> Read(link, "method", "auto")
                              [] OTHER -> "auto",
                 security |-> ReadSecurity(link),
                 sni |-> Read(link, "sni", ""), key |-> Read(link, "key", ""),
                 insecure |-> link.scheme # "vmess" /\ Read(link, "insecure", FALSE),
                 network |-> Read(link, "network", "tcp")]]

(* serializeProxyConfig: the fields each protocol's branch writes. *)
Always == {"server", "port", "secret"}
TlsFields(f) == IF f.security = "none" THEN {} ELSE {"sni"} \cup (IF f.security = "reality" THEN {"key"} ELSE {})
WrittenFields(form) ==
    LET f == form.f IN
    IF form.json
    THEN Always \cup {"security", "network"} \cup TlsFields(f) \cup (IF f.security = "none" THEN {} ELSE {"insecure"})
    ELSE CASE form.protocol = "vless" -> Always \cup {"security", "network", "insecure"} \cup TlsFields(f)
           [] form.protocol = "vmess" -> Always \cup {"method", "security", "network", "sni"}
           [] form.protocol = "trojan" -> Always \cup {"security", "network", "sni"}
           [] form.protocol = "ss" -> Always \cup {"method"}
           [] form.protocol = "hysteria2" -> Always \cup {"sni", "insecure"}
           [] form.protocol = "tuic" -> Always \cup {"sni"}
           [] OTHER -> Always

WrittenValue(form, field) ==
    CASE field = "security" /\ form.protocol = "vmess" /\ ~form.json -> IF form.f.security = "tls" THEN "tls" ELSE "none"
      [] field = "security" /\ form.protocol = "trojan" /\ ~form.json -> IF form.f.security = "none" THEN "none" ELSE "tls"
      [] field = "sni" /\ form.json -> IF form.f.sni = "" THEN form.f.server ELSE form.f.sni
      [] field = "method" /\ form.f.method = "" -> IF form.protocol = "ss" THEN "aes-256-gcm" ELSE "auto"
      [] OTHER -> form.f[field]

Recognised == {"vless", "vmess", "trojan", "ss", "hysteria2", "tuic", "socks", "http"}
SerializeProxyConfig(form) ==
    IF form.json \/ form.protocol \in Recognised
    THEN [scheme |-> form.protocol, json |-> form.json,
          f |-> [field \in WrittenFields(form) |-> WrittenValue(form, field)]]
    ELSE form.raw

-----------------------------------------------------------------------------
(* The dialog. *)

Editing == editing.id # ""
Draft == Last(dialogs)
Drafting == Editing /\ Draft.open
InDialog(d) == dialogs' = [dialogs EXCEPT ![Len(dialogs)] = d]

(* Mutant: a dialog that is still mounted is not filled anew. *)
EditDraftStale(id) ==
    /\ SpendEffort("edit") /\ id \in DOMAIN links
    /\ Editing => ~Draft.open
    /\ editing' = [id |-> id, link |-> links[id]]
    /\ LET fresh == [of |-> id, open |-> TRUE, closing |-> FALSE, tab |-> "form", saving |-> FALSE, touched |-> {},
                     form |-> ParseProxyLink(links[id]), raw |-> links[id], error |-> FALSE]
       IN  dialogs' = IF Editing THEN [dialogs EXCEPT ![Len(dialogs)] = [Draft EXCEPT !.open = TRUE]]
                      ELSE Append(dialogs, fresh)
    /\ UNCHANGED <<links, writes, timers>>

(* setEditingProfile(profile): the dialog mounts, unless it is mounted still
   and shows this profile next; the effect fills it either way. *)
EditDraft(id) ==
    /\ SpendEffort("edit") /\ id \in DOMAIN links
    /\ Editing => ~Draft.open
    /\ editing' = [id |-> id, link |-> links[id]]
    /\ LET fresh == [of |-> id, open |-> TRUE, closing |-> FALSE, tab |-> "form", saving |-> FALSE, touched |-> {},
                     form |-> ParseProxyLink(links[id]), raw |-> links[id], error |-> FALSE]
       IN  dialogs' = IF Editing THEN [dialogs EXCEPT ![Len(dialogs)] = [fresh EXCEPT !.saving = Draft.saving]]
                      ELSE Append(dialogs, fresh)
    /\ UNCHANGED <<links, writes, timers>>

(* The inputs the form offers for a protocol. *)
InputsOf(form) ==
    {"server", "port", "security", "network"}
    \cup (IF form.protocol \in Recognised \cup {"shadowsocks"} THEN {"secret"} ELSE {})
    \cup (IF form.protocol \in {"ss", "shadowsocks", "vmess"} THEN {"method"} ELSE {})
    \cup (IF form.f.security = "none" THEN {} ELSE {"sni", "insecure"})
    \cup (IF form.f.security = "reality" THEN {"key"} ELSE {})

InputValues(field) ==
    CASE field = "server" -> {"", "new.org"} [] field = "port" -> {8443}
      [] field = "security" -> {"none", "tls", "reality"} [] field = "network" -> {"ws"}
      [] field = "insecure" -> {TRUE} [] OTHER -> {"typed"}

(* updateField: the raw text follows every change of the form. *)
UpdateField(field, value) ==
    /\ Drafting /\ Draft.tab = "form" /\ SpendEffort("type") /\ field \in InputsOf(Draft.form)
    /\ LET form == [Draft.form EXCEPT !.f[field] = value]
       IN  InDialog([Draft EXCEPT !.form = form, !.raw = SerializeProxyConfig(form), !.touched = @ \cup {field}])
    /\ UNCHANGED <<links, editing, writes, timers>>

(* handleTabChange. *)
HandleTabChange ==
    /\ Drafting /\ SpendEffort("turn")
    /\ InDialog(IF Draft.tab = "raw"
                THEN [Draft EXCEPT !.tab = "form", !.form = ParseProxyLink(Draft.raw)]
                ELSE [Draft EXCEPT !.tab = "raw", !.raw = SerializeProxyConfig(Draft.form)])
    /\ UNCHANGED <<links, editing, writes, timers>>

(* The raw text is typed over: by another server's link, or by nothing. *)
TypeRaw(link) ==
    /\ Drafting /\ Draft.tab = "raw" /\ ~Draft.saving /\ SpendEffort("type") /\ link # Draft.raw
    /\ InDialog([Draft EXCEPT !.raw = link, !.touched = @ \cup {"raw"}])
    /\ UNCHANGED <<links, editing, writes, timers>>

(* handleClose of mount i. *)
ClosedMount(i) == IF dialogs[i].closing THEN dialogs[i] ELSE [dialogs[i] EXCEPT !.closing = TRUE, !.open = FALSE]
ClosingTimer(i) == IF dialogs[i].closing THEN timers ELSE Append(timers, i)

(* Cancel (not while saving), Escape or a click outside. *)
CloseEdit ==
    /\ Drafting
    /\ InDialog(ClosedMount(Len(dialogs))) /\ timers' = ClosingTimer(Len(dialogs))
    /\ UNCHANGED <<links, editing, writes, effort>>

(* The timer of handleClose: onClose, whichever profile is edited by now. *)
TimerFires(k) ==
    /\ k \in DOMAIN timers /\ timers' = RemoveAt(timers, k)
    /\ editing' = NoEdit
    /\ dialogs' = [dialogs EXCEPT ![timers[k]].closing = FALSE]
    /\ UNCHANGED <<links, writes, effort>>

(* handleSave, to its await. *)
HandleSave ==
    /\ Drafting /\ ~Draft.saving /\ SpendEffort("save")
    /\ IF IF Draft.tab = "form" THEN Draft.form.f.server = "" ELSE Draft.raw = NoEdit.link
       THEN InDialog([Draft EXCEPT !.error = TRUE]) /\ UNCHANGED writes
       ELSE /\ InDialog([Draft EXCEPT !.saving = TRUE, !.error = FALSE])
            /\ writes' = Append(writes,
                 [mount |-> Len(dialogs), id |-> editing.id, was |-> editing.link, draft |-> Draft,
                  link |-> IF Draft.tab = "raw" THEN Draft.raw ELSE SerializeProxyConfig(Draft.form)])
    /\ UNCHANGED <<links, editing, timers>>

(* handleSave, after it: saved, and the dialog of that mount closes; or an
   error is shown in it. *)
SaveEnds(k) ==
    /\ k \in DOMAIN writes /\ writes' = RemoveAt(writes, k)
    /\ LET i == writes[k].mount IN
       \/ /\ links' = [links EXCEPT ![writes[k].id] = writes[k].link]
          /\ dialogs' = [dialogs EXCEPT ![i] = [ClosedMount(i) EXCEPT !.saving = FALSE]]
          /\ timers' = ClosingTimer(i)
       \/ /\ dialogs' = [dialogs EXCEPT ![i].saving = FALSE, ![i].error = TRUE]
          /\ UNCHANGED <<links, timers>>
    /\ UNCHANGED <<editing, effort>>

DraftInit ==
    /\ \E start \in Efforts : links = start.links /\ effort = start.effort
    /\ editing = NoEdit /\ dialogs = <<>> /\ writes = <<>> /\ timers = <<>>

DraftNext ==
    \/ \E id \in DOMAIN links : EditDraft(id)
    \/ \E field \in DraftFields : \E value \in InputValues(field) : UpdateField(field, value)
    \/ \E link \in {links[id] : id \in DOMAIN links} \cup {NoEdit.link} : TypeRaw(link)
    \/ HandleTabChange \/ CloseEdit \/ HandleSave
    \/ \E k \in DOMAIN timers : TimerFires(k)
    \/ \E k \in DOMAIN writes : SaveEnds(k)

DraftSpec == DraftInit /\ [][DraftNext]_draftVars

-----------------------------------------------------------------------------
(* A dialog shows the draft of one server, and what it saves under a server's
   id is that server's draft, whatever was opened, closed or saved meanwhile:
   handleSave's id and its form come from the same opening. *)
DraftIsOfProfile ==
    /\ \A k \in DOMAIN writes : writes[k].draft.of = writes[k].id
    /\ Editing => Draft.of = editing.id

(* What Go reads in a link when it connects (internal/link/parse.go), of the
   three fields below: a user's password belongs to a Hysteria secret, which may
   also be a parameter, and each scheme has its own port for none. *)
GoPort(link) ==
    IF Has(link, "port") THEN link.f.port
    ELSE CASE link.scheme = "socks" -> 1080 [] link.scheme = "http" -> 80 [] OTHER -> 443
GoSecret(link) ==
    LET secret == Read(link, "secret", "") IN
    CASE link.scheme = "trojan" /\ secret = "user:pass" -> "user"
      [] link.scheme = "hysteria2" /\ secret = "" -> Read(link, "auth", "")
      [] OTHER -> secret
GoReads(link) == [server |-> Read(link, "server", ""), port |-> GoPort(link), secret |-> GoSecret(link)]

(* Where proxy-config.ts and parse.go read one link differently: the secrets
   the former cuts or overlooks, the ports it takes for 443, texts it cannot
   read; and VLESS or Shadowsocks without a port, which only the former reads. *)
Lossy(link) ==
    \/ link.scheme = "ss" /\ Read(link, "secret", "") \in {"with:colon", "padded"}
    \/ AllEncoded(link) \/ link.scheme = "garbled"
    \/ link.scheme = "hysteria2" /\ (Read(link, "secret", "") = "user:pass" \/ Has(link, "auth"))
    \/ link.scheme \in {"socks", "vless", "ss"} /\ ~Has(link, "port")
    \/ link.scheme = "http" /\ ~link.json /\ GoPort(link) = 80

(* Unless its raw text was typed over, saving changes of a server's address,
   port and secret, as Go will read them, only what was changed in the form,
   and changes it to that, over any turns between the two tabs: what
   parseProxyLink reads and serializeProxyConfig writes is what Go reads. *)
OnlyEditsChange ==
    \A k \in DOMAIN writes :
        "raw" \notin writes[k].draft.touched /\ ~Lossy(writes[k].was) /\ (writes[k].was.json \/ writes[k].was.scheme \in Recognised) =>
            LET before == GoReads(writes[k].was)
                after == GoReads(writes[k].link)
                draft == writes[k].draft
            IN  \A field \in Always :
                    after[field] = IF field \in draft.touched THEN draft.form.f[field] ELSE before[field]

(* One turn through the two tabs normalises a link; further turns change
   nothing, so looking at a server's raw text twice is as good as once.  (What
   is taken for the secret of padded base64 grows with every turn.) *)
TripsSettle ==
    LET trip(l) == SerializeProxyConfig(ParseProxyLink(l))
    IN  \A id \in DOMAIN links :
            links[id].scheme # "garbled" /\ Read(links[id], "secret", "") # "padded" =>
                trip(trip(links[id])) = trip(links[id])

(***************************************************************************)
(* Editing a server changes that server, and of it what was edited: a save *)
(* is of the server it is saved for, it changes only what was changed, and *)
(* going back and forth between form and text settles.                     *)
(***************************************************************************)
DraftHolds == DraftIsOfProfile /\ OnlyEditsChange /\ TripsSettle

=============================================================================
