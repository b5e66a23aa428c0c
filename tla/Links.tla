------------------------------- MODULE Links -------------------------------
(***************************************************************************)
(* Links on their way in and out: the Add dialog (AddModal.tsx), the links *)
(* offered to it by nuggetvpn:// and the clipboard (App.tsx), the camera   *)
(* and images read for a QR code, and the Share dialog (qr.tsx).  The Add  *)
(* dialog stays mounted while it is closed: what it awaits still lands in  *)
(* its state.                                                              *)
(***************************************************************************)
EXTENDS Naturals, Sequences, FiniteSets, SequencesExt, Sublists

CONSTANTS
    Walks,          \* the scenarios: the bounds "steps" may start with
    Addresses,      \* links
    Known           \* links of profiles already added

VARIABLES
    modal,      \* AddModal: open, inputLink, isLoading, errorMsg, camera
    offered,    \* App's offeredLink
    jobs,       \* links being saved or imported
    scans,      \* images being decoded
    cams,       \* QrScanner's mounts so far: mounted, and its stream
    clip,       \* read_clipboard_link calls under way, and offeredRef
    toasts,     \* clipboard offers shown, in order
    share,      \* ShareDialog: the link it is for, the one drawn, drawings under way
    edited,     \* ghost: the field was changed since the last offer
    steps       \* what is left of the bounds

addVars == <<modal, offered, jobs, scans, cams, edited>>
clipVars == <<clip, toasts>>
linkVars == <<addVars, clipVars, share, steps>>

Walk(what) == steps[what] > 0 /\ steps' = [steps EXCEPT ![what] = @ - 1]

-----------------------------------------------------------------------------
(* openWithLink, with the effect that fills the field when the dialog opens
   or the offered link changes. *)
OpenWithLink(link) ==
    /\ offered' = link
    /\ modal' = [modal EXCEPT !.open = TRUE,
                              !.link = IF ~modal.open \/ link # offered THEN link ELSE @]
    /\ edited' = (edited /\ modal.open /\ link = offered)
    /\ UNCHANGED <<jobs, scans>>

(* A scanner is on screen while the dialog is open and its camera was asked
   for; mounting it opens a camera, unmounting it stops the stream. *)
Mounted(i) == cams[i].mounted
Scanner(on) ==
    cams' = IF on /\ ~\E i \in DOMAIN cams : Mounted(i)
            THEN Append(cams, [mounted |-> TRUE, stream |-> "opening"])
            ELSE IF on THEN cams
            ELSE [i \in DOMAIN cams |->
                    IF Mounted(i)
                    THEN [mounted |-> FALSE, stream |-> IF cams[i].stream = "live" THEN "off" ELSE cams[i].stream]
                    ELSE cams[i]]

(* The event of a nuggetvpn:// link, or the one that started the app. *)
LinkArrives(link) ==
    /\ Walk("arrive") /\ OpenWithLink(link) /\ Scanner(modal'.camera)
    /\ UNCHANGED <<clipVars, share>>

OpenAdd ==
    /\ ~modal.open /\ Walk("open")
    /\ modal' = [modal EXCEPT !.open = TRUE] /\ Scanner(modal.camera)
    /\ UNCHANGED <<offered, jobs, scans, edited, clipVars, share>>

Closed(m) == [m EXCEPT !.open = FALSE, !.link = "", !.error = FALSE]

(* handleClose, by the user: Cancel, Escape, a click outside, Back. *)
HandleClose ==
    /\ modal.open /\ ~modal.camera
    /\ modal' = Closed(modal) /\ offered' = ""
    /\ Scanner(FALSE)
    /\ UNCHANGED <<jobs, scans, edited, clipVars, share, steps>>

TypeLink(link) ==
    /\ modal.open /\ ~modal.camera /\ Walk("type")
    /\ modal' = [modal EXCEPT !.link = link] /\ edited' = TRUE
    /\ UNCHANGED <<offered, jobs, scans, cams, clipVars, share>>

(* handleProcess: disabled while it runs, and by an empty field.  Closing the
   dialog does not end it. *)
HandleProcess ==
    /\ modal.open /\ ~modal.camera /\ ~modal.loading /\ modal.link # "" /\ Walk("process")
    /\ modal' = [modal EXCEPT !.loading = TRUE, !.error = FALSE]
    /\ jobs' = Append(jobs, modal.link)
    /\ UNCHANGED <<offered, scans, cams, edited, clipVars, share>>

ProcessEnds(i) ==
    /\ i \in DOMAIN jobs /\ jobs' = RemoveAt(jobs, i)
    /\ \/ /\ modal' = [Closed(modal) EXCEPT !.loading = FALSE]
          /\ offered' = "" /\ Scanner(FALSE)
       \/ /\ modal' = [modal EXCEPT !.loading = FALSE, !.error = TRUE]
          /\ UNCHANGED <<offered, cams>>
    /\ UNCHANGED <<scans, edited, clipVars, share, steps>>

(* scan: an image picked, dropped or pasted, decoded in its own time. *)
Scan ==
    /\ modal.open /\ ~modal.camera /\ Walk("scan") /\ scans' = scans + 1
    /\ modal' = [modal EXCEPT !.error = FALSE]
    /\ UNCHANGED <<offered, jobs, cams, edited, clipVars, share>>

ScanEnds ==
    /\ scans > 0 /\ scans' = scans - 1
    /\ \/ \E link \in Addresses : modal' = [modal EXCEPT !.link = link] /\ edited' = TRUE
       \/ modal' = [modal EXCEPT !.error = TRUE] /\ UNCHANGED edited
    /\ UNCHANGED <<offered, jobs, cams, clipVars, share, steps>>

-----------------------------------------------------------------------------
(* QrScanner. *)

OpenCamera ==
    /\ modal.open /\ ~modal.camera /\ Walk("camera")
    /\ modal' = [modal EXCEPT !.camera = TRUE] /\ Scanner(TRUE)
    /\ UNCHANGED <<offered, jobs, scans, edited, clipVars, share>>

(* Mutant: a camera that opens late stays on. *)
CameraOpensLate(i) ==
    /\ i \in DOMAIN cams /\ cams[i].stream = "opening"
    /\ cams' = [cams EXCEPT ![i].stream = "live"]
    /\ UNCHANGED <<modal, offered, jobs, scans, edited, clipVars, share, steps>>

(* A camera opens, or none does; a scanner that is gone stops it at once. *)
CameraOpens(i) ==
    /\ i \in DOMAIN cams /\ cams[i].stream = "opening"
    /\ \/ cams' = [cams EXCEPT ![i].stream = IF Mounted(i) THEN "live" ELSE "off"]
       \/ cams' = [cams EXCEPT ![i].stream = "error"]
    /\ UNCHANGED <<modal, offered, jobs, scans, edited, clipVars, share, steps>>

(* A code is read: once, and the scanner closes with it. *)
CodeRead(i, link) ==
    /\ i \in DOMAIN cams /\ Mounted(i) /\ cams[i].stream = "live"
    /\ modal' = [modal EXCEPT !.camera = FALSE, !.error = FALSE, !.link = link]
    /\ edited' = TRUE /\ Scanner(FALSE)
    /\ UNCHANGED <<offered, jobs, scans, clipVars, share, steps>>

CloseCamera ==
    /\ modal.open /\ modal.camera
    /\ modal' = [modal EXCEPT !.camera = FALSE] /\ Scanner(FALSE)
    /\ UNCHANGED <<offered, jobs, scans, edited, clipVars, share, steps>>

-----------------------------------------------------------------------------
(* The clipboard is read whenever the window gets the focus. *)

WindowFocused ==
    /\ Walk("focus") /\ clip' = [clip EXCEPT !.reads = @ + 1]
    /\ UNCHANGED <<addVars, toasts, share>>

(* "Once per link, and not for what is already added." *)
ClipboardRead(link) ==
    /\ clip.reads > 0
    /\ clip' = [reads |-> clip.reads - 1, seen |-> clip.seen \cup {link}]
    /\ toasts' = IF link \in clip.seen \cup Known THEN toasts ELSE Append(toasts, link)
    /\ UNCHANGED <<addVars, share, steps>>

AcceptOffer(i) ==
    /\ i \in DOMAIN toasts /\ Walk("accept")
    /\ OpenWithLink(toasts[i]) /\ Scanner(modal'.camera)
    /\ UNCHANGED <<clipVars, share>>

-----------------------------------------------------------------------------
(* ShareDialog: a code or a list of links is made for what is chosen; a choice
   made meanwhile cancels what is under way. *)
ChooseShared(link) ==
    /\ Walk("share") /\ share.link # link
    /\ share' = [share EXCEPT !.link = link, !.tooLong = FALSE,
                              !.making = {[m EXCEPT !.cancelled = TRUE] : m \in @}
                                         \cup {[link |-> link, n |-> steps["share"], cancelled |-> FALSE]}]
    /\ UNCHANGED <<addVars, clipVars>>

CodeMade(m) ==
    /\ m \in share.making
    /\ share' = IF m.cancelled THEN [share EXCEPT !.making = @ \ {m}]
                ELSE [share EXCEPT !.making = @ \ {m}, !.drawn = m.link]
    /\ UNCHANGED <<addVars, clipVars, steps>>

CodeTooLong(m) ==
    /\ m \in share.making
    /\ share' = IF m.cancelled THEN [share EXCEPT !.making = @ \ {m}]
                ELSE [share EXCEPT !.making = @ \ {m}, !.tooLong = TRUE]
    /\ UNCHANGED <<addVars, clipVars, steps>>

-----------------------------------------------------------------------------
LinksInit ==
    /\ modal = [open |-> FALSE, link |-> "", loading |-> FALSE, error |-> FALSE, camera |-> FALSE]
    /\ offered = "" /\ jobs = <<>> /\ scans = 0 /\ cams = <<>> /\ edited = FALSE
    /\ clip = [reads |-> 0, seen |-> {}] /\ toasts = <<>>
    /\ share = [link |-> "", drawn |-> "", tooLong |-> FALSE, making |-> {}]
    /\ steps \in Walks

LinksNext ==
    \/ \E link \in Addresses : \/ LinkArrives(link) \/ TypeLink(link) \/ ClipboardRead(link)
                               \/ ChooseShared(link)
                               \/ \E i \in DOMAIN cams : CodeRead(i, link)
    \/ OpenAdd \/ HandleClose \/ HandleProcess \/ \E i \in DOMAIN jobs : ProcessEnds(i)
    \/ Scan \/ ScanEnds
    \/ OpenCamera \/ CloseCamera \/ \E i \in DOMAIN cams : CameraOpens(i)
    \/ WindowFocused \/ \E i \in DOMAIN toasts : AcceptOffer(i)
    \/ \E m \in share.making : CodeMade(m) \/ CodeTooLong(m)

LinksSpec == LinksInit /\ [][LinksNext]_linkVars

-----------------------------------------------------------------------------
(***************************************************************************)
(* Closing and opening the Add dialog while a link is being added never    *)
(* lets a second one start beside it: isLoading outlives the dialog, and   *)
(* is true exactly while handleProcess runs.                               *)
(***************************************************************************)
OneImport == Len(jobs) = (IF modal.loading THEN 1 ELSE 0)

(***************************************************************************)
(* "Both open the Add dialog filled in": an offered link, the newest if    *)
(* several arrive, is in the field of the open dialog until the user or a  *)
(* code replaces it, also when an earlier import closes the dialog late.   *)
(***************************************************************************)
OfferFilled == modal.open /\ offered # "" /\ ~edited => modal.link = offered

(***************************************************************************)
(* The camera is never left on: a stream belongs to the scanner on screen, *)
(* also when it opens after the scanner was closed, or another one opened  *)
(* meanwhile; and a scanner is only on screen inside the open dialog.      *)
(***************************************************************************)
CameraOff ==
    /\ \A i \in DOMAIN cams : cams[i].stream = "live" => Mounted(i)
    /\ Cardinality({i \in DOMAIN cams : Mounted(i)}) = (IF modal.open /\ modal.camera THEN 1 ELSE 0)

(***************************************************************************)
(* The clipboard is offered "once per link, and not for what is already    *)
(* added", also when the window gets the focus again before the first read *)
(* has answered.                                                           *)
(***************************************************************************)
OfferedOnce == IsInjective(toasts) /\ ToSet(toasts) \cap Known = {}

(***************************************************************************)
(* The code on screen is the one of the link chosen, once it is made, in   *)
(* whatever order the drawings end.                                        *)
(***************************************************************************)
SharedIsChosen == share.making = {} => share.tooLong \/ share.drawn = share.link

(***************************************************************************)
(* Links come in and go out one at a time and as asked: one import at once,*)
(* the offered link in the field, no camera left on, no clipboard offer    *)
(* twice, and the code drawn is of the link chosen.                        *)
(***************************************************************************)
LinksHold == OneImport /\ OfferFilled /\ CameraOff /\ OfferedOnce /\ SharedIsChosen

-----------------------------------------------------------------------------
(* The inductive invariant behind LinksHold. *)

LinkTypes ==
    /\ DOMAIN modal = {"open", "link", "loading", "error", "camera"}
    /\ modal.open \in BOOLEAN /\ modal.loading \in BOOLEAN /\ modal.camera \in BOOLEAN
    /\ edited \in BOOLEAN
    /\ IsList(jobs) /\ IsList(cams) /\ IsList(toasts)
    /\ \A i \in DOMAIN cams : DOMAIN cams[i] = {"mounted", "stream"} /\ cams[i].mounted \in BOOLEAN
    /\ DOMAIN clip = {"reads", "seen"}
    /\ DOMAIN share = {"link", "drawn", "tooLong", "making"}
    /\ \A m \in share.making : DOMAIN m = {"link", "n", "cancelled"} /\ m.cancelled \in BOOLEAN

(* A closed dialog has forgotten what was offered; a scanner is on screen
   exactly in an open one, and there is one. *)
DialogInv ==
    /\ ~modal.open => offered = ""
    /\ \A i, j \in DOMAIN cams : Mounted(i) /\ Mounted(j) => i = j
    /\ (\E i \in DOMAIN cams : Mounted(i)) <=> modal.open /\ modal.camera

(* What is offered was seen; a drawing not cancelled is of the link chosen,
   and with none under way the link is drawn. *)
SeenInv == \A i \in DOMAIN toasts : toasts[i] \in clip.seen
ShareInv ==
    /\ \A m \in share.making : m.cancelled \/ m.link = share.link
    /\ (\A m \in share.making : m.cancelled) => share.tooLong \/ share.drawn = share.link

LinksInv ==
    /\ LinkTypes /\ DialogInv /\ SeenInv /\ ShareInv
    /\ OneImport /\ OfferFilled /\ OfferedOnce
    /\ \A i \in DOMAIN cams : cams[i].stream = "live" => Mounted(i)

=============================================================================
