---------------------------- MODULE DialogProofs ----------------------------
(***************************************************************************)
(* Theorems about the dialogs that outlive what they show: Add and Share   *)
(* (Links), Export and Edit subscription (Exports), and the history of     *)
(* what Back closes (BackStack).                                           *)
(***************************************************************************)
EXTENDS Links, Exports, BackStack, SublistProofs

(* A list changed at its places. *)
LEMMA ChangedList ==
    ASSUME NEW s, IsList(s), NEW t, DOMAIN t = DOMAIN s, t = [i \in DOMAIN t |-> t[i]]
    PROVE  IsList(t) /\ Len(t) = Len(s)
BY ListFacts, MapIsList

-----------------------------------------------------------------------------
(* The Add dialog: jobs and the field. *)

(* The parts of LinksInv, by the variables they are about. *)
AddPart ==
    /\ DOMAIN modal = {"open", "link", "loading", "error", "camera"}
    /\ modal.open \in BOOLEAN /\ modal.loading \in BOOLEAN /\ modal.camera \in BOOLEAN
    /\ edited \in BOOLEAN
    /\ IsList(jobs) /\ OneImport /\ OfferFilled
    /\ ~modal.open => offered = ""
CamsPart ==
    /\ IsList(cams)
    /\ \A i \in DOMAIN cams : DOMAIN cams[i] = {"mounted", "stream"} /\ cams[i].mounted \in BOOLEAN
    /\ \A i, j \in DOMAIN cams : Mounted(i) /\ Mounted(j) => i = j
    /\ \A i \in DOMAIN cams : cams[i].stream = "live" => Mounted(i)
Screened == (\E i \in DOMAIN cams : Mounted(i)) <=> modal.open /\ modal.camera
ToastPart == IsList(toasts) /\ DOMAIN clip = {"reads", "seen"} /\ SeenInv /\ OfferedOnce
SharePart ==
    /\ DOMAIN share = {"link", "drawn", "tooLong", "making"}
    /\ \A m \in share.making : DOMAIN m = {"link", "n", "cancelled"} /\ m.cancelled \in BOOLEAN
    /\ ShareInv

(* LinksInv, divided by the variables a step of AddModal.tsx or qr.tsx changes. *)
LEMMA LinksParts == LinksInv <=> AddPart /\ CamsPart /\ Screened /\ ToastPart /\ SharePart
BY DEF LinksInv, LinkTypes, DialogInv, AddPart, CamsPart, Screened, ToastPart, SharePart

(* The same for the state after a step. *)
LEMMA LinksPartsNext ==
    ASSUME AddPart', CamsPart', Screened', ToastPart', SharePart' PROVE LinksInv'
BY DEF LinksInv, LinkTypes, DialogInv, AddPart, CamsPart, Screened, ToastPart, SharePart

(* QrScanner mounted or not: one at most, as the dialog asks. *)
LEMMA ScannerStep ==
    ASSUME CamsPart, NEW on \in BOOLEAN, Scanner(on)
    PROVE  CamsPart' /\ ((\E i \in DOMAIN cams' : Mounted(i)') <=> on)
<1>1. CASE on /\ ~\E i \in DOMAIN cams : Mounted(i)
  <2> DEFINE c == [mounted |-> TRUE, stream |-> "opening"]
  <2>1. cams' = Append(cams, c) BY <1>1 DEF Scanner
  <2>2. IsList(cams') /\ Len(cams') = Len(cams) + 1 /\ cams'[Len(cams) + 1] = c
        /\ \A i \in 1 .. Len(cams) : cams'[i] = cams[i]
    BY <2>1, AppendList DEF CamsPart
  <2>3. Len(cams) \in Nat /\ DOMAIN cams = 1 .. Len(cams) /\ DOMAIN cams' = 1 .. Len(cams) + 1
    BY <2>2, ListFacts DEF CamsPart
  <2> HIDE DEF c
  <2>4. c.mounted /\ c.mounted \in BOOLEAN /\ c.stream # "live" /\ DOMAIN c = {"mounted", "stream"} BY DEF c
  <2>5. \A i \in 1 .. Len(cams) : ~cams'[i].mounted BY <1>1, <2>2, <2>3 DEF Mounted
  <2>6. \A i \in 1 .. Len(cams) + 1 : i = Len(cams) + 1 \/ i \in 1 .. Len(cams) BY <2>3
  <2>7. \A i \in 1 .. Len(cams) + 1 : cams'[i].mounted <=> i = Len(cams) + 1 BY <2>2, <2>3, <2>4, <2>5, <2>6
  <2>8. \A i \in 1 .. Len(cams) + 1 :
           DOMAIN cams'[i] = {"mounted", "stream"} /\ cams'[i].mounted \in BOOLEAN
    BY <2>2, <2>3, <2>4, <2>6 DEF CamsPart
  <2>9. \A i \in 1 .. Len(cams) + 1 : cams'[i].stream # "live"
    BY <1>1, <2>2, <2>3, <2>4, <2>6 DEF CamsPart
  <2>10. CamsPart' BY <2>2, <2>3, <2>7, <2>8, <2>9 DEF CamsPart, Mounted
  <2>11. \E i \in DOMAIN cams' : Mounted(i)' BY <2>3, <2>7 DEF Mounted
  <2> QED BY <1>1, <2>10, <2>11
<1>2. CASE on /\ \E i \in DOMAIN cams : Mounted(i)
  BY <1>2 DEF Scanner, CamsPart, Mounted
<1>3. CASE ~on
  <2>1. /\ cams' = [i \in DOMAIN cams |->
                    IF Mounted(i)
                    THEN [mounted |-> FALSE, stream |-> IF cams[i].stream = "live" THEN "off" ELSE cams[i].stream]
                    ELSE cams[i]]
    BY <1>3 DEF Scanner
  <2>2. DOMAIN cams' = DOMAIN cams /\ cams' = [i \in DOMAIN cams' |-> cams'[i]] BY <2>1
  <2>3. IsList(cams') BY <2>2, ChangedList DEF CamsPart
  <2>4. \A i \in DOMAIN cams : /\ DOMAIN cams'[i] = {"mounted", "stream"} /\ cams'[i].mounted = FALSE
                               /\ cams'[i].stream # "live"
    BY <2>1 DEF CamsPart, Mounted
  <2> QED BY <1>3, <2>2, <2>3, <2>4 DEF CamsPart, Mounted
<1> QED BY <1>1, <1>2, <1>3

(* openWithLink: a link that arrives, or an offer accepted. *)
LEMMA OpenWithLinkStep ==
    ASSUME LinksInv, NEW link, OpenWithLink(link), Scanner(modal'.camera), UNCHANGED <<clipVars, share>>
    PROVE  LinksInv'
<1>1. AddPart /\ CamsPart /\ Screened /\ ToastPart /\ SharePart BY LinksParts
<1>2. /\ DOMAIN modal' = DOMAIN modal /\ modal'.open /\ modal'.camera = modal.camera
      /\ modal'.loading = modal.loading /\ offered' = link
      /\ modal'.link = (IF ~modal.open \/ link # offered THEN link ELSE modal.link)
      /\ UNCHANGED jobs
      /\ edited' = (edited /\ modal.open /\ link = offered)
  BY <1>1 DEF AddPart, OpenWithLink
<1>3. AddPart'
  BY <1>1, <1>2 DEF AddPart, OneImport, OfferFilled
<1>4. CamsPart' /\ Screened'
  <2>1. modal'.camera \in BOOLEAN BY <1>3 DEF AddPart
  <2> QED BY <1>1, <1>2, <2>1, ScannerStep DEF Screened
<1>5. ToastPart' /\ SharePart'
  BY <1>1 DEF ToastPart, SharePart, clipVars, SeenInv, OfferedOnce, ShareInv
<1> QED BY <1>3, <1>4, <1>5, LinksPartsNext

(* The rest of the dialog, the camera apart. *)
LEMMA FieldSteps ==
    ASSUME LinksInv,
           \/ \E link : TypeLink(link)
           \/ HandleProcess \/ Scan \/ ScanEnds
    PROVE  LinksInv'
<1>1. AddPart /\ CamsPart /\ Screened /\ ToastPart /\ SharePart BY LinksParts
<1>2. /\ DOMAIN modal' = DOMAIN modal /\ modal'.open = modal.open /\ modal'.camera = modal.camera
      /\ UNCHANGED <<offered, cams, clip, toasts, share>>
  BY <1>1 DEF AddPart, TypeLink, HandleProcess, Scan, ScanEnds, clipVars
<1>3. CamsPart' /\ Screened' /\ ToastPart' /\ SharePart'
  BY <1>1, <1>2 DEF CamsPart, Screened, ToastPart, SharePart, Mounted, SeenInv, OfferedOnce, ShareInv
<1>4. \/ /\ UNCHANGED jobs /\ modal'.loading = modal.loading
         /\ edited' = TRUE \/ (UNCHANGED edited /\ modal'.link = modal.link)
      \/ /\ ~modal.loading /\ modal'.loading /\ modal'.loading \in BOOLEAN /\ jobs' = Append(jobs, modal.link)
         /\ UNCHANGED edited /\ modal'.link = modal.link
  BY <1>1 DEF AddPart, TypeLink, HandleProcess, Scan, ScanEnds
<1>5. IsList(jobs') /\ OneImport' /\ modal'.loading \in BOOLEAN
  <2>1. CASE UNCHANGED jobs /\ modal'.loading = modal.loading
    BY <1>1, <2>1 DEF AddPart, OneImport
  <2>2. CASE ~modal.loading /\ modal'.loading /\ modal'.loading \in BOOLEAN /\ jobs' = Append(jobs, modal.link)
    <3>1. IsList(jobs') /\ Len(jobs') = Len(jobs) + 1 BY <1>1, <2>2, AppendList DEF AddPart
    <3>2. Len(jobs) = 0 BY <1>1, <2>2 DEF AddPart, OneImport
    <3> QED BY <2>2, <3>1, <3>2 DEF OneImport
  <2> QED BY <1>4, <2>1, <2>2
<1>6. edited' \in BOOLEAN /\ OfferFilled'
  BY <1>1, <1>2, <1>4 DEF AddPart, OfferFilled
<1>7. AddPart' BY <1>1, <1>2, <1>5, <1>6 DEF AddPart
<1> QED BY <1>3, <1>7, LinksPartsNext

(* The dialog opens or closes, by the user or at the end of an import. *)
LEMMA DialogSteps ==
    ASSUME LinksInv, OpenAdd \/ HandleClose \/ \E i \in DOMAIN jobs : ProcessEnds(i)
    PROVE  LinksInv'
<1>1. AddPart /\ CamsPart /\ Screened /\ ToastPart /\ SharePart BY LinksParts
<1>2. UNCHANGED <<clip, toasts, share, edited>>
  BY DEF OpenAdd, HandleClose, ProcessEnds, clipVars
<1>3. ToastPart' /\ SharePart'
  BY <1>1, <1>2 DEF ToastPart, SharePart, SeenInv, OfferedOnce, ShareInv
<1>4. IsList(jobs') /\ OneImport' /\ modal'.loading \in BOOLEAN
  <2>1. CASE OpenAdd \/ HandleClose
    <3>1. UNCHANGED jobs /\ modal'.loading = modal.loading
      BY <1>1, <2>1 DEF AddPart, OpenAdd, HandleClose, Closed
    <3> QED BY <1>1, <3>1 DEF AddPart, OneImport
  <2>2. CASE \E i \in DOMAIN jobs : ProcessEnds(i)
    <3>1. PICK i \in DOMAIN jobs : ProcessEnds(i) BY <2>2
    <3>2. jobs' = RemoveAt(jobs, i) /\ modal'.loading = FALSE
      BY <1>1, <3>1 DEF AddPart, ProcessEnds, Closed
    <3>3. IsList(jobs') /\ Len(jobs') = Len(jobs) - 1 BY <1>1, <3>2, RemoveAtList DEF AddPart
    <3>4. Len(jobs) # 0
      <4>1. IsList(jobs) BY <1>1 DEF AddPart
      <4>2. Len(jobs) \in Nat /\ i \in 1 .. Len(jobs) BY <3>1, <4>1, ListFacts
      <4> QED BY <4>2
    <3>5. Len(jobs) \in {0, 1} BY <1>1 DEF AddPart, OneImport
    <3>6. Len(jobs') = 0 BY <3>3, <3>4, <3>5
    <3>7. ~modal'.loading /\ modal'.loading \in BOOLEAN BY <3>2
    <3> QED BY <3>3, <3>6, <3>7 DEF OneImport
  <2> QED BY <2>1, <2>2
<1>5. /\ DOMAIN modal' = DOMAIN modal /\ modal'.open \in BOOLEAN /\ modal'.camera \in BOOLEAN
      /\ OfferFilled' /\ (~modal'.open => offered' = "")
  <2>1. CASE OpenAdd
    <3>1. /\ DOMAIN modal' = DOMAIN modal /\ modal'.open /\ modal'.open \in BOOLEAN
          /\ modal'.camera = modal.camera /\ offered' = offered /\ ~modal.open
      BY <1>1, <2>1 DEF AddPart, OpenAdd
    <3> QED BY <1>1, <3>1 DEF AddPart, OfferFilled
  <2>2. CASE HandleClose
    <3>1. /\ DOMAIN modal' = DOMAIN modal /\ ~modal'.open /\ modal'.open \in BOOLEAN
          /\ modal'.camera = modal.camera /\ offered' = ""
      BY <1>1, <2>2 DEF AddPart, HandleClose, Closed
    <3> QED BY <1>1, <3>1 DEF AddPart, OfferFilled
  <2>3. CASE \E i \in DOMAIN jobs : ProcessEnds(i)
    BY <1>1, <1>2, <2>3 DEF AddPart, OfferFilled, ProcessEnds, Closed
  <2> QED BY <2>1, <2>2, <2>3
<1>6. AddPart' BY <1>1, <1>2, <1>4, <1>5 DEF AddPart
<1>7. \/ Scanner(modal.camera) /\ modal'.open /\ modal'.camera = modal.camera
      \/ Scanner(FALSE) /\ ~modal'.open
      \/ UNCHANGED cams /\ modal'.open = modal.open /\ modal'.camera = modal.camera
  BY <1>1 DEF AddPart, OpenAdd, HandleClose, ProcessEnds, Closed
<1>8. CamsPart' /\ Screened'
  <2>1. CASE Scanner(modal.camera) /\ modal'.open /\ modal'.camera = modal.camera
    <3>1. modal.camera \in BOOLEAN BY <1>1 DEF AddPart
    <3> QED BY <1>1, <2>1, <3>1, ScannerStep DEF Screened
  <2>2. CASE Scanner(FALSE) /\ ~modal'.open
    <3>1. FALSE \in BOOLEAN OBVIOUS
    <3> QED BY <1>1, <2>2, <3>1, ScannerStep DEF Screened
  <2>3. CASE UNCHANGED cams /\ modal'.open = modal.open /\ modal'.camera = modal.camera
    BY <1>1, <2>3 DEF CamsPart, Screened, Mounted
  <2> QED BY <1>7, <2>1, <2>2, <2>3
<1> QED BY <1>3, <1>6, <1>8, LinksPartsNext

(* The scanner: opened, its camera opened, a code read, closed. *)
LEMMA CameraSteps ==
    ASSUME LinksInv,
           \/ OpenCamera \/ CloseCamera
           \/ \E i \in DOMAIN cams : CameraOpens(i) \/ \E link : CodeRead(i, link)
    PROVE  LinksInv'
<1>1. AddPart /\ CamsPart /\ Screened /\ ToastPart /\ SharePart BY LinksParts
<1>2. UNCHANGED <<clip, toasts, share, offered, jobs>>
  BY DEF OpenCamera, CloseCamera, CameraOpens, CodeRead, clipVars
<1>3. ToastPart' /\ SharePart'
  BY <1>1, <1>2 DEF ToastPart, SharePart, SeenInv, OfferedOnce, ShareInv
<1>4. /\ DOMAIN modal' = DOMAIN modal /\ modal'.open = modal.open /\ modal'.camera \in BOOLEAN
      /\ modal'.loading = modal.loading
      /\ edited' = TRUE \/ (UNCHANGED edited /\ modal'.link = modal.link)
  BY <1>1 DEF AddPart, OpenCamera, CloseCamera, CameraOpens, CodeRead
<1>5. AddPart'
  <2>1. modal'.open \in BOOLEAN /\ modal'.loading \in BOOLEAN /\ edited' \in BOOLEAN
    BY <1>1, <1>4 DEF AddPart
  <2>2. OneImport' BY <1>1, <1>2, <1>4 DEF AddPart, OneImport
  <2>3. CASE edited' = TRUE BY <1>1, <1>2, <1>4, <2>1, <2>2, <2>3 DEF AddPart, OfferFilled
  <2>4. CASE UNCHANGED edited /\ modal'.link = modal.link
    BY <1>1, <1>2, <1>4, <2>1, <2>2, <2>4 DEF AddPart, OfferFilled
  <2> QED BY <1>4, <2>3, <2>4
<1>6. CASE \E i \in DOMAIN cams : CameraOpens(i)
  <2>1. PICK i \in DOMAIN cams : CameraOpens(i) BY <1>6
  <2>2. PICK st : /\ cams' = [cams EXCEPT ![i].stream = st] /\ (st = "live" => Mounted(i))
    <3> DEFINE st == IF Mounted(i) THEN "live" ELSE "off"
    <3>1. st = "live" => Mounted(i) OBVIOUS
    <3> HIDE DEF st
    <3>2. CASE cams' = [cams EXCEPT ![i].stream = st] BY <3>1, <3>2
    <3>3. CASE cams' = [cams EXCEPT ![i].stream = "error"]
      <4> WITNESS "error"
      <4> QED BY <3>3
    <3> QED BY <2>1, <3>2, <3>3 DEF CameraOpens, st
  <2>3. DOMAIN cams' = DOMAIN cams /\ cams' = [j \in DOMAIN cams' |-> cams'[j]] BY <2>2
  <2>4. IsList(cams') BY <1>1, <2>3, ChangedList DEF CamsPart
  <2>5. \A j \in DOMAIN cams :
           /\ DOMAIN cams'[j] = DOMAIN cams[j] /\ cams'[j].mounted = cams[j].mounted
           /\ cams'[j].stream = IF j = i THEN st ELSE cams[j].stream
    BY <1>1, <2>2 DEF CamsPart
  <2>6. UNCHANGED modal BY <2>1 DEF CameraOpens
  <2>7. CamsPart' /\ Screened' BY <1>1, <2>2, <2>3, <2>4, <2>5, <2>6 DEF CamsPart, Screened, Mounted
  <2> QED BY <1>3, <1>5, <2>7, LinksPartsNext
<1>7. CASE OpenCamera \/ CloseCamera \/ \E i \in DOMAIN cams : \E link : CodeRead(i, link)
  <2>1. \E on \in BOOLEAN : Scanner(on) /\ (on <=> modal'.open /\ modal'.camera)
    BY <1>1, <1>7 DEF AddPart, OpenCamera, CloseCamera, CodeRead
  <2>2. CamsPart' /\ Screened' BY <1>1, <2>1, ScannerStep DEF Screened
  <2> QED BY <1>3, <1>5, <2>2, LinksPartsNext
<1> QED BY <1>6, <1>7

(* The clipboard: what is read is seen from then on. *)
LEMMA ClipSteps ==
    ASSUME LinksInv, WindowFocused \/ \E link : ClipboardRead(link)
    PROVE  LinksInv'
<1>1. AddPart /\ CamsPart /\ Screened /\ ToastPart /\ SharePart BY LinksParts
<1>2. UNCHANGED <<modal, offered, jobs, cams, edited, share>>
  BY DEF WindowFocused, ClipboardRead, addVars
<1>3. AddPart' /\ CamsPart' /\ Screened' /\ SharePart'
  BY <1>1, <1>2 DEF AddPart, CamsPart, Screened, SharePart, Mounted, OneImport, OfferFilled, ShareInv
<1>4. CASE WindowFocused
  <2>1. DOMAIN clip' = {"reads", "seen"} /\ clip'.seen = clip.seen /\ UNCHANGED toasts
    BY <1>1, <1>4 DEF ToastPart, WindowFocused
  <2>2. ToastPart' BY <1>1, <2>1 DEF ToastPart, SeenInv, OfferedOnce
  <2> QED BY <1>3, <2>2, LinksPartsNext
<1>5. CASE \E link : ClipboardRead(link)
  <2>1. PICK link : ClipboardRead(link) BY <1>5
  <2>2. DOMAIN clip' = {"reads", "seen"} /\ clip'.seen = clip.seen \cup {link} BY <2>1 DEF ClipboardRead
  <2>3. CASE link \in clip.seen \cup Known
    <3>1. UNCHANGED toasts BY <2>1, <2>3 DEF ClipboardRead
    <3>2. ToastPart' BY <1>1, <2>2, <3>1 DEF ToastPart, SeenInv, OfferedOnce
    <3> QED BY <1>3, <3>2, LinksPartsNext
  <2>4. CASE link \notin clip.seen \cup Known
    <3>1. toasts' = Append(toasts, link) BY <2>1, <2>4 DEF ClipboardRead
    <3>2. /\ IsList(toasts') /\ Len(toasts') = Len(toasts) + 1 /\ toasts'[Len(toasts) + 1] = link
          /\ \A i \in 1 .. Len(toasts) : toasts'[i] = toasts[i]
      BY <1>1, <3>1, AppendList DEF ToastPart
    <3>3. Len(toasts) \in Nat /\ DOMAIN toasts = 1 .. Len(toasts) /\ DOMAIN toasts' = 1 .. Len(toasts) + 1
      BY <1>1, <3>2, ListFacts DEF ToastPart
    <3>4. \A i \in DOMAIN toasts' : i = Len(toasts) + 1 \/ i \in DOMAIN toasts BY <3>3
    <3>5. \A i \in DOMAIN toasts : toasts'[i] = toasts[i] /\ toasts[i] # link /\ toasts[i] \notin Known
      BY <1>1, <2>4, <3>2, <3>3 DEF ToastPart, SeenInv, OfferedOnce, ToSet
    <3>6. SeenInv' BY <1>1, <2>2, <3>2, <3>4, <3>5 DEF ToastPart, SeenInv
    <3>7. IsInjective(toasts') BY <1>1, <3>2, <3>4, <3>5 DEF ToastPart, OfferedOnce, IsInjective
    <3>8. ToSet(toasts') \cap Known = {} BY <2>4, <3>2, <3>4, <3>5 DEF ToSet
    <3>9. ToastPart' BY <2>2, <3>2, <3>6, <3>7, <3>8 DEF ToastPart, OfferedOnce
    <3> QED BY <1>3, <3>9, LinksPartsNext
  <2> QED BY <2>3, <2>4
<1> QED BY <1>4, <1>5

(* ShareDialog: a choice cancels the drawings under way and starts its own. *)
LEMMA ShareSteps ==
    ASSUME LinksInv,
           \/ \E link : ChooseShared(link)
           \/ \E m \in share.making : CodeMade(m) \/ CodeTooLong(m)
    PROVE  LinksInv'
<1>1. AddPart /\ CamsPart /\ Screened /\ ToastPart /\ SharePart BY LinksParts
<1>2. UNCHANGED <<modal, offered, jobs, cams, edited, clip, toasts>>
  BY DEF ChooseShared, CodeMade, CodeTooLong, addVars, clipVars
<1>3. AddPart' /\ CamsPart' /\ Screened' /\ ToastPart'
  BY <1>1, <1>2 DEF AddPart, CamsPart, Screened, ToastPart, Mounted, OneImport, OfferFilled, SeenInv, OfferedOnce
<1>4. CASE \E link : ChooseShared(link)
  <2>1. PICK link : ChooseShared(link) BY <1>4
  <2> DEFINE new == [link |-> link, n |-> steps["share"], cancelled |-> FALSE]
             off(m) == [m EXCEPT !.cancelled = TRUE]
             old == {off(m) : m \in share.making}
  <2>2. share' = [share EXCEPT !.link = link, !.tooLong = FALSE, !.making = old \cup {new}]
    BY <2>1 DEF ChooseShared
  <2>3. DOMAIN new = {"link", "n", "cancelled"} /\ new.cancelled = FALSE /\ new.link = link OBVIOUS
  <2>4. \A m \in share.making : DOMAIN off(m) = {"link", "n", "cancelled"} /\ off(m).cancelled = TRUE
    BY <1>1 DEF SharePart
  <2> HIDE DEF new, off
  <2>5. \A m \in old : DOMAIN m = {"link", "n", "cancelled"} /\ m.cancelled = TRUE BY <2>4
  <2> HIDE DEF old
  <2>6. DOMAIN share' = DOMAIN share /\ share'.link = link /\ share'.making = old \cup {new}
    BY <1>1, <2>2 DEF SharePart
  <2>7. SharePart' BY <1>1, <2>3, <2>5, <2>6 DEF SharePart, ShareInv
  <2> QED BY <1>3, <2>7, LinksPartsNext
<1>5. CASE \E m \in share.making : CodeMade(m) \/ CodeTooLong(m)
  <2>1. PICK m \in share.making : CodeMade(m) \/ CodeTooLong(m) BY <1>5
  <2>2. DOMAIN share' = DOMAIN share /\ share'.link = share.link /\ share'.making = share.making \ {m}
    BY <1>1, <2>1 DEF SharePart, CodeMade, CodeTooLong
  <2>3. CASE m.cancelled
    <3>1. share'.drawn = share.drawn /\ share'.tooLong = share.tooLong
      BY <1>1, <2>1, <2>3 DEF SharePart, CodeMade, CodeTooLong
    <3>2. SharePart' BY <1>1, <2>2, <2>3, <3>1 DEF SharePart, ShareInv
    <3> QED BY <1>3, <3>2, LinksPartsNext
  <2>4. CASE ~m.cancelled
    <3>1. share'.drawn = m.link \/ share'.tooLong
      BY <1>1, <2>1, <2>4 DEF SharePart, CodeMade, CodeTooLong
    <3>2. m.link = share.link BY <1>1, <2>4 DEF SharePart, ShareInv
    <3>3. SharePart' BY <1>1, <2>2, <3>1, <3>2 DEF SharePart, ShareInv
    <3> QED BY <1>3, <3>3, LinksPartsNext
  <2> QED BY <2>3, <2>4
<1> QED BY <1>4, <1>5

(* Nothing is on its way when the window starts. *)
LEMMA LinksStart == LinksInit => LinksInv
<1> SUFFICES ASSUME LinksInit PROVE LinksInv OBVIOUS
<1>1. /\ jobs = <<>> /\ cams = <<>> /\ toasts = <<>> /\ edited = FALSE /\ offered = ""
      /\ modal = [open |-> FALSE, link |-> "", loading |-> FALSE, error |-> FALSE, camera |-> FALSE]
      /\ clip = [reads |-> 0, seen |-> {}]
      /\ share = [link |-> "", drawn |-> "", tooLong |-> FALSE, making |-> {}]
  BY DEF LinksInit
<1>2. IsList(<<>>) /\ DOMAIN <<>> = {} /\ Len(<<>>) = 0 BY EmptyIsList
<1>3. AddPart
  <2>1. /\ DOMAIN modal = {"open", "link", "loading", "error", "camera"}
        /\ ~modal.open /\ ~modal.loading /\ modal.open \in BOOLEAN /\ modal.loading \in BOOLEAN
        /\ modal.camera \in BOOLEAN /\ edited \in BOOLEAN
    BY <1>1
  <2>2. Len(jobs) = 0 BY <1>1, <1>2
  <2>3. ~modal.loading => OneImport BY <2>2 DEF OneImport
  <2> QED BY <1>1, <1>2, <2>1, <2>3 DEF AddPart, OfferFilled
<1>4. CamsPart /\ Screened BY <1>1, <1>2 DEF CamsPart, Screened, Mounted
<1>5. ToastPart BY <1>1, <1>2 DEF ToastPart, SeenInv, OfferedOnce, IsInjective, ToSet
<1>6. SharePart BY <1>1 DEF SharePart, ShareInv
<1> QED BY <1>3, <1>4, <1>5, <1>6, LinksParts

(* Every step of the Add and Share dialogs keeps LinksInv, handler by handler. *)
LEMMA LinksStep == LinksInv /\ [LinksNext]_linkVars => LinksInv'
<1> SUFFICES ASSUME LinksInv, [LinksNext]_linkVars PROVE LinksInv' OBVIOUS
<1>1. CASE \E link \in Addresses : LinkArrives(link) BY <1>1, OpenWithLinkStep DEF LinkArrives
<1>2. CASE \E i \in DOMAIN toasts : AcceptOffer(i) BY <1>2, OpenWithLinkStep DEF AcceptOffer
<1>3. CASE (\E link \in Addresses : TypeLink(link)) \/ HandleProcess \/ Scan \/ ScanEnds
  BY <1>3, FieldSteps
<1>4. CASE OpenAdd \/ HandleClose \/ \E i \in DOMAIN jobs : ProcessEnds(i) BY <1>4, DialogSteps
<1>5. CASE \/ OpenCamera \/ CloseCamera \/ \E i \in DOMAIN cams : CameraOpens(i)
           \/ \E link \in Addresses : \E i \in DOMAIN cams : CodeRead(i, link)
  BY <1>5, CameraSteps
<1>6. CASE WindowFocused \/ \E link \in Addresses : ClipboardRead(link) BY <1>6, ClipSteps
<1>7. CASE \/ \E link \in Addresses : ChooseShared(link)
           \/ \E m \in share.making : CodeMade(m) \/ CodeTooLong(m)
  BY <1>7, ShareSteps
<1>8. CASE UNCHANGED linkVars
  BY <1>8 DEF linkVars, addVars, clipVars, LinksInv, LinkTypes, DialogInv, SeenInv, ShareInv, OneImport,
              OfferFilled, OfferedOnce, Mounted
<1> QED BY <1>1, <1>2, <1>3, <1>4, <1>5, <1>6, <1>7, <1>8 DEF LinksNext

(* The inductive invariant of the Add and Share dialogs, for any links, any
   profiles already added and any number of steps. *)
THEOREM LinksInvariance == LinksSpec => []LinksInv
BY LinksStart, LinksStep, PTL DEF LinksSpec

(* One import at a time, the newest offer in the field, no camera left on, no
   clipboard offer twice and the code drawn that was asked for, for any links
   and any number of steps (AddModal.tsx, qr.tsx). *)
THEOREM LinksHoldAlways == LinksSpec => []LinksHold
<1>1. LinksInv => LinksHold
  <2> SUFFICES ASSUME LinksInv PROVE LinksHold OBVIOUS
  <2>1. AddPart /\ CamsPart /\ Screened /\ ToastPart /\ SharePart BY LinksParts
  <2> DEFINE on == {i \in DOMAIN cams : Mounted(i)}
  <2>2. Cardinality(on) = (IF modal.open /\ modal.camera THEN 1 ELSE 0)
    <3>1. CASE modal.open /\ modal.camera
      <4>1. PICK i \in DOMAIN cams : Mounted(i) BY <2>1, <3>1 DEF Screened
      <4>2. on = {i} BY <2>1, <4>1 DEF CamsPart
      <4> QED BY <3>1, <4>2, FS_Singleton
    <3>2. CASE ~(modal.open /\ modal.camera)
      <4>1. on = {} BY <2>1, <3>2 DEF Screened
      <4> QED BY <3>2, <4>1, FS_EmptySet
    <3> QED BY <3>1, <3>2
  <2>3. CameraOff BY <2>1, <2>2 DEF CameraOff, CamsPart
  <2>4. SharedIsChosen BY <2>1 DEF SharedIsChosen, SharePart, ShareInv
  <2> QED BY <2>1, <2>3, <2>4 DEF LinksHold, AddPart, ToastPart
<1> QED BY <1>1, LinksInvariance, PTL

-----------------------------------------------------------------------------
(* The Export and the Edit subscription dialogs. *)

(* The parts of DialogsInv, by the dialog they are about. *)
ExportPart ==
    /\ IsList(export) /\ \A e \in Range(export) : DOMAIN e = ExportFields
    /\ IsList(asks) /\ \A a \in Range(asks) : DOMAIN a = {"want", "mount", "cancelled"}
    /\ DOMAIN files = {"asked", "written"} /\ IsList(files.asked)
    /\ Exporting => export # <<>>
    /\ AsksInv /\ ExportIsChosen /\ FilesAreNamed
ConfigPart ==
    /\ IsList(config) /\ \A c \in Range(config) : DOMAIN c = ConfigFields
    /\ IsList(updates) /\ (EditingSource => config # <<>>) /\ ConfigDraftIsOwn
DialogsParts == ExportPart /\ ConfigPart /\ IsList(closings)

(* DialogsInv, divided between ExportDialog.tsx and EditConfigDialog.tsx. *)
LEMMA DialogsAre == DialogsInv <=> DialogsParts
BY DEF DialogsInv, ExportTypes, DialogsHold, DialogsParts, ExportPart, ConfigPart

(* The same for the state after a step. *)
LEMMA DialogsNext ==
    ASSUME ExportPart', ConfigPart', IsList(closings') PROVE DialogsInv'
BY DEF DialogsInv, ExportTypes, DialogsHold, DialogsParts, ExportPart, ConfigPart

(* A part whose variables a step leaves alone keeps its part of the invariant. *)
LEMMA ConfigAlone ==
    ASSUME ConfigPart, UNCHANGED configVars PROVE ConfigPart'
BY DEF ConfigPart, configVars, ConfigDraftIsOwn, EditingSource, Cfg, Last

(* The same for the Export dialog. *)
LEMMA ExportAlone ==
    ASSUME ExportPart, UNCHANGED exportVars PROVE ExportPart'
BY DEF ExportPart, exportVars, AsksInv, ExportIsChosen, FilesAreNamed, Exporting, Exp, Wants, Last

(* A timer is added to those under way, or not. *)
LEMMA ClosingsList ==
    ASSUME IsList(closings), NEW n
    PROVE  IsList(ExportClosing(n)) /\ IsList(ConfigClosing(n))
<1> DEFINE a == [dialog |-> "export", mount |-> n]
           b == [dialog |-> "config", mount |-> n]
<1>1. ExportClosing(n) \in {closings, Append(closings, a)} BY DEF ExportClosing
<1>2. ConfigClosing(n) \in {closings, Append(closings, b)} BY DEF ConfigClosing
<1> HIDE DEF a, b
<1>3. IsList(Append(closings, a)) /\ IsList(Append(closings, b)) BY AppendList
<1> QED BY <1>1, <1>2, <1>3

(* What the mount on screen has chosen, and what it shows. *)
Chosen(e) == <<e.format, e.full, e.content, e.loading, e.error>>

(* The last of a list, and a list changed at one place. *)
LEMMA LastFacts ==
    ASSUME NEW s, IsList(s), s # <<>>
    PROVE  Len(s) \in Nat /\ Len(s) \in DOMAIN s /\ Last(s) = s[Len(s)] /\ Last(s) \in Range(s)
<1>1. Len(s) \in Nat \ {0} BY EmptySeq DEF IsList
<1> QED BY <1>1, ListFacts DEF Last

(* EXCEPT at one place changes that place and keeps a list a list. *)
LEMMA ChangedAt ==
    ASSUME NEW s, IsList(s), NEW k, NEW x
    PROVE  /\ IsList([s EXCEPT ![k] = x]) /\ Len([s EXCEPT ![k] = x]) = Len(s)
           /\ Range([s EXCEPT ![k] = x]) \subseteq Range(s) \cup {x}
           /\ DOMAIN [s EXCEPT ![k] = x] = DOMAIN s
           /\ \A i \in DOMAIN s : [s EXCEPT ![k] = x][i] = IF i = k THEN x ELSE s[i]
<1> DEFINE t == [s EXCEPT ![k] = x]
<1>1. DOMAIN t = DOMAIN s /\ t = [i \in DOMAIN t |-> t[i]] OBVIOUS
<1>2. IsList(t) /\ Len(t) = Len(s) BY <1>1, ChangedList
<1>3. \A i \in DOMAIN s : t[i] = IF i = k THEN x ELSE s[i] OBVIOUS
<1>4. Range(t) \subseteq Range(s) \cup {x} BY <1>1, <1>3 DEF Range
<1> QED BY <1>1, <1>2, <1>3, <1>4

(* The same, for a list known to be such a change. *)
LEMMA ChangedTo ==
    ASSUME NEW s, IsList(s), NEW k, NEW x, NEW t, t = [s EXCEPT ![k] = x]
    PROVE  /\ IsList(t) /\ Len(t) = Len(s) /\ DOMAIN t = DOMAIN s
           /\ Range(t) \subseteq Range(s) \cup {x}
           /\ \A i \in DOMAIN s : t[i] = IF i = k THEN x ELSE s[i]
BY ChangedAt

(* AskFormat: of the calls, only the new one still counts, and it asks for what
   is chosen now. *)
LEMMA AskFormatStep ==
    ASSUME ExportPart, ExportIsChosen', FilesAreNamed', Exporting',
           NEW list, NEW e, NEW n, AskFormat(list, e, n), Exporting => n = Len(export),
           IsList(export'), export' # <<>>, \A x \in Range(export') : DOMAIN x = ExportFields,
           n = Len(export'), list = exporting', Last(export') = e, UNCHANGED files
    PROVE  ExportPart'
<1> DEFINE new == [want |-> Wants(list, e), mount |-> n, cancelled |-> FALSE]
           old == [i \in DOMAIN asks |-> IF asks[i].mount = n THEN [asks[i] EXCEPT !.cancelled = TRUE] ELSE asks[i]]
<1>1. asks' = Append(old, new) BY DEF AskFormat
<1>2. DOMAIN old = DOMAIN asks /\ old = [i \in DOMAIN old |-> old[i]] OBVIOUS
<1>3. IsList(old) BY <1>2, ChangedList DEF ExportPart
<1>4. \A i \in DOMAIN asks : asks[i] \in Range(asks) BY DEF Range
<1>5. \A i \in DOMAIN asks : DOMAIN old[i] = {"want", "mount", "cancelled"} /\ old[i].cancelled
  <2> SUFFICES ASSUME NEW i \in DOMAIN asks
               PROVE  DOMAIN old[i] = {"want", "mount", "cancelled"} /\ old[i].cancelled
    OBVIOUS
  <2>1. DOMAIN asks[i] = {"want", "mount", "cancelled"} BY <1>4 DEF ExportPart
  <2>2. CASE asks[i].mount = n BY <2>1, <2>2
  <2>3. CASE asks[i].mount # n
    <3>1. asks[i].cancelled BY <1>4, <2>3 DEF ExportPart, AsksInv
    <3> QED BY <2>1, <2>3, <3>1
  <2> QED BY <2>2, <2>3
<1> HIDE DEF old
<1>6. \A a \in Range(old) : DOMAIN a = {"want", "mount", "cancelled"} /\ a.cancelled
  BY <1>2, <1>5 DEF Range
<1>7. DOMAIN new = {"want", "mount", "cancelled"} /\ new.mount = n /\ new.want = Wants(list, e) OBVIOUS
<1> HIDE DEF new
<1>8. IsList(asks') /\ Range(asks') = Range(old) \cup {new} BY <1>1, <1>3, AppendList
<1>9. Wants(list, e) = Wants(exporting, Exp)' BY DEF Wants, Exp
<1>10. AsksInv' BY <1>6, <1>7, <1>8, <1>9 DEF AsksInv
<1>11. \A a \in Range(asks') : DOMAIN a = {"want", "mount", "cancelled"} BY <1>6, <1>7, <1>8
<1> QED BY <1>8, <1>10, <1>11 DEF ExportPart

(* The dialog opens, or gets another list while it closes. *)
LEMMA ExportStep ==
    ASSUME DialogsInv, NEW list \in Exportable, Export(list), list # ""
    PROVE  DialogsInv'
<1>1. ExportPart /\ ConfigPart /\ IsList(closings) BY DialogsAre DEF DialogsParts
<1>2. UNCHANGED <<files, configVars, closings>> /\ exporting' = list /\ Exporting' BY DEF Export, Exporting
<1>3. ConfigPart' BY <1>1, <1>2, ConfigAlone
<1>4. FilesAreNamed' BY <1>1, <1>2 DEF ExportPart, FilesAreNamed
<1>5. CASE Exporting
  <2> DEFINE e == [Exp EXCEPT !.loading = TRUE, !.error = FALSE]
  <2>1. export # <<>> BY <1>1, <1>5 DEF ExportPart
  <2>2. Len(export) \in DOMAIN export /\ Exp = export[Len(export)] /\ Exp \in Range(export) /\ Len(export) \in Nat
    BY <1>1, <2>1, LastFacts DEF ExportPart, Exp
  <2>3. DOMAIN e = ExportFields /\ e.loading BY <1>1, <2>2 DEF ExportPart, ExportFields
  <2>4. export' = [export EXCEPT ![Len(export)] = e] /\ AskFormat(list, Exp, Len(export))
    BY <1>5, <2>2 DEF Export
  <2>5. Wants(list, Exp) = Wants(list, e) BY <1>1, <2>2 DEF Wants, ExportPart, ExportFields
  <2>6. AskFormat(list, e, Len(export)) BY <2>4, <2>5 DEF AskFormat
  <2> HIDE DEF e
  <2>7. /\ IsList(export') /\ Len(export') = Len(export) /\ export'[Len(export)] = e
        /\ Range(export') \subseteq Range(export) \cup {e} /\ DOMAIN export' = DOMAIN export
    BY <1>1, <2>2, <2>4, ChangedAt DEF ExportPart
  <2>8. Last(export') = e /\ export' # <<>>
    <3>1. Last(export') = e BY <2>7 DEF Last
    <3>2. e \in Range(export') BY <2>2, <2>7 DEF Range
    <3> QED BY <3>1, <3>2, EmptyIsList
  <2>9. ExportIsChosen' BY <2>3, <2>8 DEF ExportIsChosen, Exp
  <2>10. \A x \in Range(export') : DOMAIN x = ExportFields BY <1>1, <2>3, <2>7 DEF ExportPart
  <2>11. ExportPart' BY <1>1, <1>2, <1>4, <2>6, <2>7, <2>8, <2>9, <2>10, AskFormatStep
  <2> QED BY <1>1, <1>2, <1>3, <2>11, DialogsNext
<1>6. CASE ~Exporting
  <2> DEFINE e == [open |-> TRUE, closing |-> FALSE, format |-> "singbox", full |-> TRUE, content |-> <<>>,
                   loading |-> TRUE, error |-> FALSE, saving |-> FALSE]
  <2>1. export' = Append(export, e) /\ AskFormat(list, e, Len(export) + 1) BY <1>6 DEF Export
  <2>2. DOMAIN e = ExportFields /\ e.loading BY DEF ExportFields
  <2> HIDE DEF e
  <2>3. /\ IsList(export') /\ Len(export') = Len(export) + 1 /\ export'[Len(export) + 1] = e
        /\ Range(export') = Range(export) \cup {e}
    BY <1>1, <2>1, AppendList DEF ExportPart
  <2>4. Last(export') = e BY <2>3 DEF Last
  <2>12. export' # <<>>
    <3>1. e \in Range(export') BY <2>3
    <3> QED BY <3>1, EmptyIsList
  <2>5. ExportIsChosen' BY <2>2, <2>4 DEF ExportIsChosen, Exp
  <2>6. \A x \in Range(export') : DOMAIN x = ExportFields BY <1>1, <2>2, <2>3 DEF ExportPart
  <2>7. ExportPart' BY <1>1, <1>2, <1>4, <1>6, <2>1, <2>3, <2>4, <2>12, <2>5, <2>6, AskFormatStep
  <2> QED BY <1>1, <1>2, <1>3, <2>7, DialogsNext
<1> QED BY <1>5, <1>6

(* Another format or scope. *)
LEMMA ChooseFormatStep ==
    ASSUME DialogsInv, NEW format, NEW full, ChooseFormat(format, full)
    PROVE  DialogsInv'
<1>1. ExportPart /\ ConfigPart /\ IsList(closings) BY DialogsAre DEF DialogsParts
<1>2. UNCHANGED <<exporting, files, configVars, closings>> /\ Exporting BY DEF ChooseFormat
<1>3. ConfigPart' BY <1>1, <1>2, ConfigAlone
<1>4. FilesAreNamed' BY <1>1, <1>2 DEF ExportPart, FilesAreNamed
<1> DEFINE e == [Exp EXCEPT !.format = format, !.full = full, !.loading = TRUE, !.error = FALSE]
<1>5. Len(export) \in DOMAIN export /\ Exp = export[Len(export)] /\ Exp \in Range(export) /\ Len(export) \in Nat
  BY <1>1, <1>2, LastFacts DEF ExportPart, Exp
<1>6. export' = [export EXCEPT ![Len(export)] = e] /\ AskFormat(exporting, e, Len(export)) BY DEF ChooseFormat
<1>7. DOMAIN e = ExportFields /\ e.loading BY <1>1, <1>5 DEF ExportPart, ExportFields
<1> HIDE DEF e
<1>8. /\ IsList(export') /\ Len(export') = Len(export) /\ export'[Len(export)] = e
      /\ Range(export') \subseteq Range(export) \cup {e} /\ DOMAIN export' = DOMAIN export
  BY <1>1, <1>5, <1>6, ChangedAt DEF ExportPart
<1>9. Last(export') = e /\ export' # <<>> BY <1>5, <1>8 DEF Last
<1>10. ExportIsChosen' BY <1>7, <1>9 DEF ExportIsChosen, Exp
<1>11. \A x \in Range(export') : DOMAIN x = ExportFields BY <1>1, <1>7, <1>8 DEF ExportPart
<1>12. Exporting' /\ exporting = exporting' BY <1>2 DEF Exporting
<1>13. ExportPart' BY <1>1, <1>2, <1>4, <1>6, <1>8, <1>9, <1>10, <1>11, <1>12, AskFormatStep
<1> QED BY <1>1, <1>2, <1>3, <1>13, DialogsNext

(* A mount is changed and keeps what it has chosen and shows: AsksInv and
   ExportIsChosen do not notice. *)
LEMMA SameChoice ==
    ASSUME ExportPart, NEW n, NEW e, export' = [export EXCEPT ![n] = e],
           n \in DOMAIN export => DOMAIN e = ExportFields /\ Chosen(e) = Chosen(export[n]),
           UNCHANGED <<exporting, asks>>, DOMAIN files' = {"asked", "written"}, IsList(files'.asked),
           FilesAreNamed'
    PROVE  ExportPart'
<1>1. /\ IsList(export') /\ Len(export') = Len(export) /\ DOMAIN export' = DOMAIN export
      /\ \A i \in DOMAIN export : export'[i] = IF i = n THEN e ELSE export[i]
  BY ChangedAt DEF ExportPart
<1>2. \A i \in DOMAIN export : DOMAIN export'[i] = ExportFields /\ Chosen(export'[i]) = Chosen(export[i])
  <2>1. \A i \in DOMAIN export : export[i] \in Range(export) BY DEF Range
  <2> QED BY <1>1, <2>1 DEF ExportPart
<1>3. \A x \in Range(export') : DOMAIN x = ExportFields BY <1>1, <1>2 DEF Range
<1>4. Exporting' = Exporting BY DEF Exporting
<1>5. Exporting => export # <<>> /\ export' # <<>> /\ Chosen(Exp') = Chosen(Exp)
  <2> SUFFICES ASSUME Exporting PROVE export # <<>> /\ export' # <<>> /\ Chosen(Exp') = Chosen(Exp) OBVIOUS
  <2>1. export # <<>> BY DEF ExportPart
  <2>2. Len(export) \in DOMAIN export /\ Exp = export[Len(export)] BY <2>1, LastFacts DEF ExportPart, Exp
  <2>3. Exp' = export'[Len(export)] BY <1>1 DEF Exp, Last
  <2> QED BY <1>1, <1>2, <2>1, <2>2, <2>3
<1>6. Exporting => Wants(exporting, Exp)' = Wants(exporting, Exp) BY <1>5 DEF Wants, Chosen
<1>7. AsksInv' BY <1>1, <1>4, <1>6 DEF ExportPart, AsksInv
<1>8. ExportIsChosen' BY <1>4, <1>5, <1>6 DEF ExportPart, ExportIsChosen, Chosen
<1> QED BY <1>1, <1>3, <1>4, <1>5, <1>7, <1>8 DEF ExportPart

(* export_configs answers: a call that still counts is the last mount's. *)
LEMMA ExportedStep ==
    ASSUME DialogsInv, NEW k \in DOMAIN asks, Exported(k)
    PROVE  DialogsInv'
<1>1. ExportPart /\ ConfigPart /\ IsList(closings) BY DialogsAre DEF DialogsParts
<1>2. UNCHANGED <<exporting, files, configVars, closings>> /\ asks' = RemoveAt(asks, k) BY DEF Exported
<1>3. ConfigPart' BY <1>1, <1>2, ConfigAlone
<1>4. FilesAreNamed' BY <1>1, <1>2 DEF ExportPart, FilesAreNamed
<1>5. IsList(asks') /\ Range(asks') \subseteq Range(asks) BY <1>1, <1>2, RemoveAtList DEF ExportPart
<1>6. asks[k] \in Range(asks) BY DEF Range
<1>7. CASE asks[k].cancelled
  <2>1. UNCHANGED export BY <1>7 DEF Exported
  <2>2. AsksInv' BY <1>1, <1>2, <1>5, <2>1 DEF ExportPart, AsksInv, Exporting, Exp, Wants
  <2>3. ExportIsChosen' BY <1>1, <1>2, <2>1 DEF ExportPart, ExportIsChosen, Exporting, Exp, Wants
  <2>4. ExportPart' BY <1>1, <1>2, <1>4, <1>5, <2>1, <2>2, <2>3 DEF ExportPart, Exporting
  <2> QED BY <1>1, <1>2, <1>3, <2>4, DialogsNext
<1>8. CASE ~asks[k].cancelled
  <2>1. Exporting /\ asks[k].mount = Len(export) /\ asks[k].want = Wants(exporting, Exp)
    BY <1>1, <1>6, <1>8 DEF ExportPart, AsksInv
  <2>2. Len(export) \in DOMAIN export /\ Exp = export[Len(export)] /\ Exp \in Range(export) /\ Len(export) \in Nat
    BY <1>1, <2>1, LastFacts DEF ExportPart, Exp
  <2>3. DOMAIN Exp = ExportFields BY <1>1, <2>2 DEF ExportPart
  <2>4. PICK e : /\ export' = [export EXCEPT ![Len(export)] = e] /\ DOMAIN e = ExportFields
                 /\ e.format = Exp.format /\ e.full = Exp.full
                 /\ e.error \/ e.content = <<asks[k].want>>
    <3> DEFINE a == [Exp EXCEPT !.content = <<asks[k].want>>, !.loading = FALSE]
               b == [Exp EXCEPT !.error = TRUE, !.loading = FALSE]
    <3>1. /\ DOMAIN a = ExportFields /\ a.format = Exp.format /\ a.full = Exp.full
          /\ a.content = <<asks[k].want>>
      BY <2>3 DEF ExportFields
    <3>2. DOMAIN b = ExportFields /\ b.format = Exp.format /\ b.full = Exp.full /\ b.error
      BY <2>3 DEF ExportFields
    <3>3. export' = [export EXCEPT ![Len(export)] = a] \/ export' = [export EXCEPT ![Len(export)] = b]
      BY <1>8, <2>1, <2>2 DEF Exported
    <3> HIDE DEF a, b
    <3> QED BY <3>1, <3>2, <3>3
  <2>5. /\ IsList(export') /\ Len(export') = Len(export) /\ export'[Len(export)] = e
        /\ Range(export') \subseteq Range(export) \cup {e} /\ DOMAIN export' = DOMAIN export
    <3>1. IsList(export) BY <1>1 DEF ExportPart
    <3> QED BY <2>2, <2>4, <3>1, ChangedAt
  <2>6. Exp' = e /\ export' # <<>> BY <2>2, <2>5 DEF Exp, Last
  <2>7. Wants(exporting, Exp)' = Wants(exporting, Exp) BY <1>2, <2>4, <2>6 DEF Wants
  <2>8. AsksInv' BY <1>1, <1>2, <1>5, <2>1, <2>5, <2>7 DEF ExportPart, AsksInv, Exporting
  <2>9. ExportIsChosen' BY <2>1, <2>4, <2>6, <2>7 DEF ExportIsChosen
  <2>10. \A x \in Range(export') : DOMAIN x = ExportFields BY <1>1, <2>4, <2>5 DEF ExportPart
  <2>11. ExportPart' BY <1>1, <1>2, <1>4, <1>5, <2>5, <2>6, <2>8, <2>9, <2>10 DEF ExportPart
  <2> QED BY <1>1, <1>2, <1>3, <2>11, DialogsNext
<1> QED BY <1>7, <1>8

(* CloseExport and a mount's saving and closing flags are no choice. *)
LEMMA CloseExportSame ==
    ASSUME NEW n, DOMAIN export[n] = ExportFields
    PROVE  DOMAIN CloseExport(n) = ExportFields /\ Chosen(CloseExport(n)) = Chosen(export[n])
BY DEF CloseExport, Chosen, ExportFields

(* Nor are setSaving and setClosing on a record of a mount. *)
LEMMA FlagsSame ==
    ASSUME NEW e, DOMAIN e = ExportFields, NEW flag
    PROVE  /\ DOMAIN [e EXCEPT !.saving = flag] = ExportFields
           /\ Chosen([e EXCEPT !.saving = flag]) = Chosen(e)
           /\ DOMAIN [e EXCEPT !.closing = flag] = ExportFields
           /\ Chosen([e EXCEPT !.closing = flag]) = Chosen(e)
BY DEF Chosen, ExportFields

(* Cancel: the dialog closes with its choice as it was (ExportDialog.tsx). *)
LEMMA CancelExportStep ==
    ASSUME DialogsInv, CancelExport
    PROVE  DialogsInv'
<1>1. ExportPart /\ ConfigPart /\ IsList(closings) BY DialogsAre DEF DialogsParts
<1> DEFINE n == Len(export)
<1>2. /\ UNCHANGED <<exporting, asks, files, configVars>> /\ closings' = ExportClosing(n)
      /\ export' = [export EXCEPT ![n] = CloseExport(n)]
  BY DEF CancelExport
<1> HIDE DEF n
<1>3. ConfigPart' BY <1>1, <1>2, ConfigAlone
<1>4. FilesAreNamed' BY <1>1, <1>2 DEF ExportPart, FilesAreNamed
<1>5. n \in DOMAIN export => DOMAIN export[n] = ExportFields BY <1>1 DEF ExportPart, Range
<1>6. ExportPart' BY <1>1, <1>2, <1>4, <1>5, CloseExportSame, SameChoice DEF ExportPart
<1>7. IsList(closings') BY <1>1, <1>2, ClosingsList
<1> QED BY <1>3, <1>6, <1>7, DialogsNext

(* A file is asked for: its text is what the dialog shows. *)
LEMMA SaveFileStep ==
    ASSUME DialogsInv, HandleSaveFile
    PROVE  DialogsInv'
<1>1. ExportPart /\ ConfigPart /\ IsList(closings) BY DialogsAre DEF DialogsParts
<1> DEFINE n == Len(export)
           e == [export[n] EXCEPT !.saving = TRUE]
           job == [mount |-> n, name |-> Exp.format, text |-> Exp.content[1], failed |-> Exp.error,
                   list |-> exporting]
<1>2. /\ UNCHANGED <<exporting, asks, configVars, closings>> /\ Exporting /\ ~Exp.loading
      /\ export' = [export EXCEPT ![n] = e]
      /\ files' = [files EXCEPT !.asked = Append(@, job)]
  BY DEF HandleSaveFile
<1>3. ConfigPart' BY <1>1, <1>2, ConfigAlone
<1>4. ~job.failed => job.text.format = job.name /\ job.text.list = job.list
  <2> SUFFICES ASSUME ~Exp.error
               PROVE  Exp.content[1].format = Exp.format /\ Exp.content[1].list = exporting
    OBVIOUS
  <2>1. Exp.content = <<Wants(exporting, Exp)>> BY <1>1, <1>2 DEF ExportPart, ExportIsChosen
  <2>2. Exp.content[1] = Wants(exporting, Exp) BY <2>1
  <2> QED BY <2>2 DEF Wants
<1>5. n \in DOMAIN export => DOMAIN export[n] = ExportFields BY <1>1 DEF ExportPart, Range
<1>6. n \in DOMAIN export => DOMAIN e = ExportFields /\ Chosen(e) = Chosen(export[n]) BY <1>5, FlagsSame
<1> HIDE DEF e, job, n
<1>7. DOMAIN files' = {"asked", "written"} /\ files'.asked = Append(files.asked, job) /\ files'.written = files.written
  BY <1>1, <1>2 DEF ExportPart
<1>8. IsList(files'.asked) /\ Range(files'.asked) = Range(files.asked) \cup {job}
  BY <1>1, <1>7, AppendList DEF ExportPart
<1>9. FilesAreNamed'
  <2>1. ToSet(files'.asked) = ToSet(files.asked) \cup {job} BY <1>8 DEF ToSet, Range
  <2> QED BY <1>1, <1>4, <1>7, <2>1 DEF ExportPart, FilesAreNamed
<1>10. ExportPart' BY <1>1, <1>2, <1>6, <1>7, <1>8, <1>9, SameChoice
<1> QED BY <1>1, <1>2, <1>3, <1>10, DialogsNext

(* The picker answers: the dialog that asked closes, or stays. *)
LEMMA FilePickedStep ==
    ASSUME DialogsInv, NEW k \in DOMAIN files.asked, FilePicked(k)
    PROVE  DialogsInv'
<1>1. ExportPart /\ ConfigPart /\ IsList(closings) BY DialogsAre DEF DialogsParts
<1> DEFINE job == files.asked[k]
           n == job.mount
           c == [CloseExport(n) EXCEPT !.saving = FALSE]
           d == [export[n] EXCEPT !.saving = FALSE]
<1>2. UNCHANGED <<exporting, asks, configVars>> BY DEF FilePicked
<1>3. ConfigPart' BY <1>1, <1>2, ConfigAlone
<1>4. \/ /\ files' = [asked |-> RemoveAt(files.asked, k), written |-> files.written \cup {job}]
         /\ export' = [export EXCEPT ![n] = c] /\ closings' = ExportClosing(n)
      \/ /\ files' = [files EXCEPT !.asked = RemoveAt(@, k)]
         /\ export' = [export EXCEPT ![n] = d] /\ UNCHANGED closings
  BY DEF FilePicked
<1>5. n \in DOMAIN export => DOMAIN export[n] = ExportFields BY <1>1 DEF ExportPart, Range
<1>6. n \in DOMAIN export => DOMAIN c = ExportFields /\ Chosen(c) = Chosen(export[n])
  BY <1>5, CloseExportSame, FlagsSame
<1>7. n \in DOMAIN export => DOMAIN d = ExportFields /\ Chosen(d) = Chosen(export[n]) BY <1>5, FlagsSame
<1>8. job \in ToSet(files.asked) BY DEF ToSet
<1> HIDE DEF c, d, n, job
<1>9. IsList(closings') BY <1>1, <1>4, ClosingsList
<1>10. /\ DOMAIN files' = {"asked", "written"} /\ files'.asked = RemoveAt(files.asked, k)
       /\ files'.written \subseteq files.written \cup {job}
  BY <1>1, <1>4 DEF ExportPart
<1>11. IsList(files'.asked) /\ Range(files'.asked) \subseteq Range(files.asked)
  BY <1>1, <1>10, RemoveAtList DEF ExportPart
<1>12. FilesAreNamed'
  <2>1. ToSet(files'.asked) \subseteq ToSet(files.asked) BY <1>11 DEF ToSet, Range
  <2> QED BY <1>1, <1>8, <1>10, <2>1 DEF ExportPart, FilesAreNamed
<1>13. ExportPart'
  <2>1. CASE export' = [export EXCEPT ![n] = c]
    BY <1>1, <1>2, <1>6, <1>10, <1>11, <1>12, <2>1, SameChoice
  <2>2. CASE export' = [export EXCEPT ![n] = d]
    BY <1>1, <1>2, <1>7, <1>10, <1>11, <1>12, <2>2, SameChoice
  <2> QED BY <1>4, <2>1, <2>2
<1> QED BY <1>3, <1>9, <1>13, DialogsNext

-----------------------------------------------------------------------------
(* A subscription's dialog: a mount is changed, and the last one is still of
   the subscription edited. *)
LEMMA SameSource ==
    ASSUME ConfigPart, NEW n, NEW c, config' = [config EXCEPT ![n] = c],
           n \in DOMAIN config => DOMAIN c = ConfigFields,
           n \in DOMAIN config /\ n = Len(config) /\ EditingSource' => c.of = source',
           EditingSource' => config # <<>> /\ (n = Len(config) \/ Cfg.of = source'),
           IsList(updates'), \A k \in DOMAIN updates' : updates'[k].draft.of = updates'[k].domain
    PROVE  ConfigPart'
<1>1. /\ IsList(config') /\ Len(config') = Len(config) /\ DOMAIN config' = DOMAIN config
      /\ \A i \in DOMAIN config : config'[i] = IF i = n THEN c ELSE config[i]
  BY ChangedAt DEF ConfigPart
<1>2. \A x \in Range(config') : DOMAIN x = ConfigFields BY <1>1 DEF ConfigPart, Range
<1>3. EditingSource' => config' # <<>> /\ (Cfg.of = source)'
  <2> SUFFICES ASSUME EditingSource' PROVE config' # <<>> /\ (Cfg.of = source)' OBVIOUS
  <2>1. Len(config) \in DOMAIN config /\ Cfg = config[Len(config)] BY LastFacts DEF ConfigPart, Cfg
  <2>2. Cfg' = config'[Len(config)] BY <1>1 DEF Cfg, Last
  <2> QED BY <1>1, <2>1, <2>2
<1> QED BY <1>1, <1>2, <1>3 DEF ConfigPart, ConfigDraftIsOwn

(* What the effect fills in is of the domain it is given. *)
LEMMA FilledOf ==
    ASSUME NEW c, DOMAIN c = ConfigFields, NEW domain
    PROVE  DOMAIN Filled(c, domain) = ConfigFields /\ Filled(c, domain).of = domain
BY DEF Filled, ConfigFields

(* A subscription's dialog opens, or gets another subscription while it closes:
   the effect fills it in for that one (EditConfigDialog.tsx). *)
LEMMA EditSourceStep ==
    ASSUME DialogsInv, NEW domain, EditSource(domain)
    PROVE  DialogsInv'
<1>1. ExportPart /\ ConfigPart /\ IsList(closings) BY DialogsAre DEF DialogsParts
<1>2. UNCHANGED <<updates, exportVars, closings>> /\ source' = domain BY DEF EditSource
<1>3. ExportPart' BY <1>1, <1>2, ExportAlone
<1>4. IsList(updates') /\ \A k \in DOMAIN updates' : updates'[k].draft.of = updates'[k].domain
  BY <1>1, <1>2 DEF ConfigPart, ConfigDraftIsOwn
<1>5. CASE EditingSource
  <2>1. config # <<>> BY <1>1, <1>5 DEF ConfigPart
  <2>2. Len(config) \in DOMAIN config /\ Cfg \in Range(config) BY <1>1, <2>1, LastFacts DEF ConfigPart, Cfg
  <2> DEFINE c == Filled(Cfg, domain)
  <2>3. DOMAIN c = ConfigFields /\ c.of = domain BY <1>1, <2>2, FilledOf DEF ConfigPart
  <2>4. config' = [config EXCEPT ![Len(config)] = c] BY <1>5 DEF EditSource
  <2> HIDE DEF c
  <2>5. ConfigPart' BY <1>1, <1>2, <1>4, <2>1, <2>3, <2>4, SameSource
  <2> QED BY <1>1, <1>2, <1>3, <2>5, DialogsNext
<1>6. CASE ~EditingSource
  <2> DEFINE b == [saving |-> FALSE, of |-> "", url |-> "", open |-> TRUE, closing |-> FALSE, error |-> FALSE]
             c == Filled(b, domain)
  <2>1. DOMAIN b = ConfigFields BY DEF ConfigFields
  <2>2. config' = Append(config, c) BY <1>6 DEF EditSource
  <2> HIDE DEF b
  <2>3. DOMAIN c = ConfigFields /\ c.of = domain BY <2>1, FilledOf
  <2> HIDE DEF c
  <2>4. /\ IsList(config') /\ Len(config') = Len(config) + 1 /\ config'[Len(config) + 1] = c
        /\ Range(config') = Range(config) \cup {c}
    BY <1>1, <2>2, AppendList DEF ConfigPart
  <2>5. Cfg' = c BY <2>4 DEF Cfg, Last
  <2>6. config' # <<>>
    <3>1. c \in Range(config') BY <2>4
    <3> QED BY <3>1, EmptyIsList
  <2>7. ConfigPart' BY <1>1, <1>2, <1>4, <2>3, <2>4, <2>5, <2>6 DEF ConfigPart, ConfigDraftIsOwn
  <2> QED BY <1>1, <1>2, <1>3, <2>7, DialogsNext
<1> QED BY <1>5, <1>6

(* Typing, closing and the start of a save leave the dialog to its
   subscription; what is saved is what it was filled in for. *)
LEMMA ConfigSteps ==
    ASSUME DialogsInv, (\E url : TypeUrl(url)) \/ CancelConfig \/ SaveUrl
    PROVE  DialogsInv'
<1>1. ExportPart /\ ConfigPart /\ IsList(closings) BY DialogsAre DEF DialogsParts
<1>2. UNCHANGED <<source, exportVars>> /\ EditingSource BY DEF TypeUrl, CancelConfig, SaveUrl
<1>3. ExportPart' BY <1>1, <1>2, ExportAlone
<1>4. config # <<>> /\ Cfg.of = source BY <1>1, <1>2 DEF ConfigPart, ConfigDraftIsOwn
<1>5. Len(config) \in DOMAIN config /\ Cfg = config[Len(config)] /\ Cfg \in Range(config)
  BY <1>1, <1>4, LastFacts DEF ConfigPart, Cfg
<1>6. DOMAIN Cfg = ConfigFields BY <1>1, <1>5 DEF ConfigPart
<1>7. PICK c : config' = [config EXCEPT ![Len(config)] = c] /\ DOMAIN c = ConfigFields /\ c.of = Cfg.of
  <2>1. CASE \E url : TypeUrl(url)
    <3>1. PICK url : TypeUrl(url) BY <2>1
    <3> DEFINE c == [Cfg EXCEPT !.url = url]
    <3>2. DOMAIN c = ConfigFields /\ c.of = Cfg.of BY <1>6 DEF ConfigFields
    <3>3. config' = [config EXCEPT ![Len(config)] = c] BY <1>5, <3>1 DEF TypeUrl
    <3> HIDE DEF c
    <3> QED BY <3>2, <3>3
  <2>2. CASE CancelConfig
    <3> DEFINE c == CloseConfig(Len(config))
    <3>1. DOMAIN c = ConfigFields /\ c.of = Cfg.of BY <1>5, <1>6 DEF CloseConfig, ConfigFields
    <3>2. config' = [config EXCEPT ![Len(config)] = c] BY <2>2 DEF CancelConfig
    <3> HIDE DEF c
    <3> QED BY <3>1, <3>2
  <2>3. CASE SaveUrl
    <3> DEFINE c == [Cfg EXCEPT !.saving = TRUE, !.error = FALSE]
    <3>1. DOMAIN c = ConfigFields /\ c.of = Cfg.of BY <1>6 DEF ConfigFields
    <3>2. config' = [config EXCEPT ![Len(config)] = c] BY <1>5, <2>3 DEF SaveUrl
    <3> HIDE DEF c
    <3> QED BY <3>1, <3>2
  <2> QED BY <2>1, <2>2, <2>3
<1>8. IsList(closings') BY <1>1, ClosingsList DEF TypeUrl, CancelConfig, SaveUrl
<1>9. IsList(updates') /\ \A k \in DOMAIN updates' : updates'[k].draft.of = updates'[k].domain
  <2>1. CASE UNCHANGED updates BY <1>1, <2>1 DEF ConfigPart, ConfigDraftIsOwn
  <2>2. CASE SaveUrl
    <3> DEFINE u == [mount |-> Len(config), domain |-> source, draft |-> Cfg]
    <3>1. updates' = Append(updates, u) BY <2>2 DEF SaveUrl
    <3>2. u.draft.of = u.domain BY <1>4
    <3> HIDE DEF u
    <3>3. /\ IsList(updates') /\ Len(updates') = Len(updates) + 1 /\ updates'[Len(updates) + 1] = u
          /\ \A i \in 1 .. Len(updates) : updates'[i] = updates[i]
      BY <1>1, <3>1, AppendList DEF ConfigPart
    <3>4. Len(updates) \in Nat /\ DOMAIN updates = 1 .. Len(updates) /\ DOMAIN updates' = 1 .. Len(updates) + 1
      BY <1>1, <3>3, ListFacts DEF ConfigPart
    <3>5. \A k \in DOMAIN updates' : k = Len(updates) + 1 \/ k \in DOMAIN updates BY <3>4
    <3> QED BY <1>1, <3>2, <3>3, <3>4, <3>5 DEF ConfigPart, ConfigDraftIsOwn
  <2> QED BY <2>1, <2>2 DEF TypeUrl, CancelConfig
<1>10. ConfigPart' BY <1>1, <1>2, <1>4, <1>7, <1>9, SameSource DEF EditingSource
<1> QED BY <1>3, <1>8, <1>10, DialogsNext

(* The list is refreshed, by another part of the window or with an answer: the
   effect on profiles fills the open dialog anew, for the subscription it
   edits. *)
LEMMA RefilledOK ==
    ASSUME ConfigPart, NEW refilled,
           refilled = IF EditingSource THEN [config EXCEPT ![Len(config)] = Filled(Cfg, source)] ELSE config
    PROVE  /\ IsList(refilled) /\ Len(refilled) = Len(config) /\ DOMAIN refilled = DOMAIN config
           /\ \A x \in Range(refilled) : DOMAIN x = ConfigFields
           /\ EditingSource => refilled # <<>> /\ refilled[Len(config)].of = source
<1>1. CASE EditingSource
  <2>1. config # <<>> BY <1>1 DEF ConfigPart
  <2>2. Len(config) \in DOMAIN config /\ Cfg \in Range(config) BY <2>1, LastFacts DEF ConfigPart, Cfg
  <2> DEFINE c == Filled(Cfg, source)
  <2>3. DOMAIN c = ConfigFields /\ c.of = source BY <2>2, FilledOf DEF ConfigPart
  <2>4. refilled = [config EXCEPT ![Len(config)] = c] BY <1>1
  <2> HIDE DEF c
  <2>5. /\ IsList(refilled) /\ Len(refilled) = Len(config) /\ DOMAIN refilled = DOMAIN config
        /\ Range(refilled) \subseteq Range(config) \cup {c}
        /\ \A i \in DOMAIN config : refilled[i] = IF i = Len(config) THEN c ELSE config[i]
    <3>1. IsList(config) BY DEF ConfigPart
    <3> QED BY <2>4, <3>1, ChangedTo
  <2>6. refilled # <<>> BY <2>2, <2>5
  <2> QED BY <2>2, <2>3, <2>5, <2>6 DEF ConfigPart
<1>2. CASE ~EditingSource BY <1>2 DEF ConfigPart
<1> QED BY <1>1, <1>2

(* A refresh from elsewhere in the window reaches the dialog. *)
LEMMA RefreshedStep ==
    ASSUME DialogsInv, NEW domain, NEW url, ProfilesRefreshed(domain, url)
    PROVE  DialogsInv'
<1>1. ExportPart /\ ConfigPart /\ IsList(closings) BY DialogsAre DEF DialogsParts
<1>2. UNCHANGED <<source, updates, exportVars, closings>> BY DEF ProfilesRefreshed
<1>3. ExportPart' BY <1>1, <1>2, ExportAlone
<1>4. config' = IF EditingSource THEN [config EXCEPT ![Len(config)] = Filled(Cfg, source)] ELSE config
  BY DEF ProfilesRefreshed
<1>5. /\ IsList(config') /\ Len(config') = Len(config) /\ \A x \in Range(config') : DOMAIN x = ConfigFields
      /\ EditingSource => config' # <<>> /\ config'[Len(config)].of = source
  BY <1>1, <1>4, RefilledOK
<1>6. EditingSource' = EditingSource BY <1>2 DEF EditingSource
<1>7. EditingSource => (Cfg.of = source)' BY <1>2, <1>5 DEF Cfg, Last
<1>8. ConfigPart' BY <1>1, <1>2, <1>5, <1>6, <1>7 DEF ConfigPart, ConfigDraftIsOwn
<1> QED BY <1>1, <1>2, <1>3, <1>8, DialogsNext

(* The answer to a save: the dialog that saved closes, whichever subscription
   the open one is for by now. *)
LEMMA UrlSavedStep ==
    ASSUME DialogsInv, NEW k \in DOMAIN updates, UrlSaved(k)
    PROVE  DialogsInv'
<1>1. ExportPart /\ ConfigPart /\ IsList(closings) BY DialogsAre DEF DialogsParts
<1>2. UNCHANGED <<source, exportVars>> /\ updates' = RemoveAt(updates, k) BY DEF UrlSaved
<1>3. ExportPart' BY <1>1, <1>2, ExportAlone
<1>4. IsList(updates') /\ Range(updates') \subseteq Range(updates) BY <1>1, <1>2, RemoveAtList DEF ConfigPart
<1>5. \A j \in DOMAIN updates' : updates'[j].draft.of = updates'[j].domain
  <2>1. \A u \in Range(updates) : u.draft.of = u.domain BY <1>1 DEF ConfigPart, ConfigDraftIsOwn, Range
  <2>2. \A j \in DOMAIN updates' : updates'[j] \in Range(updates') BY DEF Range
  <2> QED BY <1>4, <2>1, <2>2
<1>6. EditingSource' = EditingSource BY <1>2 DEF EditingSource
<1> DEFINE n == updates[k].mount
           refilled == IF EditingSource THEN [config EXCEPT ![Len(config)] = Filled(Cfg, source)] ELSE config
           c == [refilled[n] EXCEPT !.saving = FALSE, !.closing = TRUE, !.open = FALSE]
           d == [config[n] EXCEPT !.saving = FALSE, !.error = TRUE]
<1>7. \/ config' = [refilled EXCEPT ![n] = c]
      \/ config' = [config EXCEPT ![n] = d]
  BY DEF UrlSaved
<1>8. IsList(closings')
  <2> DEFINE new == [dialog |-> "config", mount |-> n]
  <2>1. closings' = closings \/ closings' = Append(closings, new) BY DEF UrlSaved
  <2> HIDE DEF new
  <2>2. IsList(Append(closings, new)) BY <1>1, AppendList
  <2> QED BY <1>1, <2>1, <2>2
<1>9. /\ IsList(refilled) /\ Len(refilled) = Len(config) /\ DOMAIN refilled = DOMAIN config
      /\ \A x \in Range(refilled) : DOMAIN x = ConfigFields
      /\ EditingSource => refilled # <<>> /\ refilled[Len(config)].of = source
  BY <1>1, RefilledOK
<1> HIDE DEF n
<1>10. /\ n \in DOMAIN refilled => DOMAIN refilled[n] = ConfigFields
       /\ n \in DOMAIN config => DOMAIN config[n] = ConfigFields
  BY <1>1, <1>9 DEF ConfigPart, Range
<1> HIDE DEF refilled
<1>11. n \in DOMAIN refilled => DOMAIN c = ConfigFields /\ c.of = refilled[n].of BY <1>10 DEF ConfigFields
<1>12. n \in DOMAIN config => DOMAIN d = ConfigFields /\ d.of = config[n].of BY <1>10 DEF ConfigFields
<1> HIDE DEF c, d
<1>13. CASE config' = [refilled EXCEPT ![n] = c]
  <2>1. /\ IsList(config') /\ Len(config') = Len(refilled) /\ DOMAIN config' = DOMAIN refilled
        /\ \A i \in DOMAIN refilled : config'[i] = IF i = n THEN c ELSE refilled[i]
    <3>1. IsList(refilled) BY <1>9
    <3> DEFINE t == [refilled EXCEPT ![n] = c]
    <3>2. /\ IsList(t) /\ Len(t) = Len(refilled) /\ DOMAIN t = DOMAIN refilled
          /\ \A i \in DOMAIN refilled : t[i] = IF i = n THEN c ELSE refilled[i]
      BY <3>1, ChangedAt
    <3>3. config' = t BY <1>13
    <3> HIDE DEF t
    <3> QED BY <3>2, <3>3
  <2>2. \A x \in Range(config') : DOMAIN x = ConfigFields
    <3>1. \A i \in DOMAIN refilled : refilled[i] \in Range(refilled) BY DEF Range
    <3> QED BY <1>9, <1>11, <2>1, <3>1 DEF Range
  <2>3. EditingSource => config' # <<>> /\ (Cfg.of = source)'
    <3> SUFFICES ASSUME EditingSource PROVE config' # <<>> /\ (Cfg.of = source)' OBVIOUS
    <3>1. Len(refilled) \in DOMAIN refilled BY <1>9, LastFacts
    <3>2. Cfg' = config'[Len(refilled)] BY <2>1 DEF Cfg, Last
    <3>3. Cfg'.of = refilled[Len(refilled)].of BY <1>11, <2>1, <3>1, <3>2
    <3>4. config' # <<>> BY <2>1, <3>1
    <3> QED BY <1>2, <1>9, <3>3, <3>4
  <2>4. ConfigPart' BY <1>4, <1>5, <1>6, <2>1, <2>2, <2>3 DEF ConfigPart, ConfigDraftIsOwn
  <2> QED BY <1>3, <1>8, <2>4, DialogsNext
<1>14. CASE config' = [config EXCEPT ![n] = d]
  <2>1. EditingSource => config # <<>> /\ Cfg.of = source BY <1>1 DEF ConfigPart, ConfigDraftIsOwn
  <2>2. n = Len(config) => config[n] = Cfg BY DEF Cfg, Last
  <2>3. ConfigPart' BY <1>1, <1>2, <1>4, <1>5, <1>6, <1>12, <1>14, <2>1, <2>2, SameSource
  <2> QED BY <1>3, <1>8, <2>3, DialogsNext
<1> QED BY <1>7, <1>13, <1>14

(* The 200 ms are over: the view forgets what the dialog was for, and no call
   counts any more. *)
LEMMA ExitEndsStep ==
    ASSUME DialogsInv, NEW k \in DOMAIN closings, ExitEnds(k)
    PROVE  DialogsInv'
<1>1. ExportPart /\ ConfigPart /\ IsList(closings) BY DialogsAre DEF DialogsParts
<1>2. IsList(closings') BY <1>1, RemoveAtList DEF ExitEnds
<1> DEFINE n == closings[k].mount
<1>3. CASE closings[k].dialog = "export"
  <2> DEFINE e == [export[n] EXCEPT !.closing = FALSE]
             off == [i \in DOMAIN asks |-> [asks[i] EXCEPT !.cancelled = TRUE]]
  <2>1. exporting' = "" /\ export' = [export EXCEPT ![n] = e] /\ asks' = off /\ UNCHANGED <<files, configVars>>
    BY <1>3 DEF ExitEnds
  <2> HIDE DEF n
  <2>2. ConfigPart' BY <1>1, <2>1, ConfigAlone
  <2>3. n \in DOMAIN export => DOMAIN e = ExportFields BY <1>1, FlagsSame DEF ExportPart, Range
  <2> HIDE DEF e
  <2>4. /\ IsList(export') /\ DOMAIN export' = DOMAIN export
        /\ \A i \in DOMAIN export : export'[i] = IF i = n THEN e ELSE export[i]
    BY <1>1, <2>1, ChangedAt DEF ExportPart
  <2>5. \A x \in Range(export') : DOMAIN x = ExportFields BY <1>1, <2>3, <2>4 DEF ExportPart, Range
  <2>6. DOMAIN off = DOMAIN asks /\ off = [i \in DOMAIN off |-> off[i]] OBVIOUS
  <2>7. IsList(off) BY <1>1, <2>6, ChangedList DEF ExportPart
  <2>8. \A i \in DOMAIN asks : DOMAIN off[i] = {"want", "mount", "cancelled"} /\ off[i].cancelled
    BY <1>1 DEF ExportPart, Range
  <2> HIDE DEF off
  <2>9. \A a \in Range(asks') : DOMAIN a = {"want", "mount", "cancelled"} /\ a.cancelled
    BY <2>1, <2>6, <2>8 DEF Range
  <2>10. ~Exporting' BY <2>1 DEF Exporting
  <2>11. AsksInv' /\ ExportIsChosen' BY <2>9, <2>10 DEF AsksInv, ExportIsChosen
  <2>12. FilesAreNamed' BY <1>1, <2>1 DEF ExportPart, FilesAreNamed
  <2>13. ExportPart' BY <1>1, <2>1, <2>4, <2>5, <2>7, <2>9, <2>10, <2>11, <2>12 DEF ExportPart
  <2> QED BY <1>2, <2>2, <2>13, DialogsNext
<1>4. CASE closings[k].dialog # "export"
  <2> DEFINE c == [config[n] EXCEPT !.closing = FALSE]
  <2>1. source' = "" /\ config' = [config EXCEPT ![n] = c] /\ UNCHANGED <<urls, updates, exportVars>>
    BY <1>4 DEF ExitEnds
  <2> HIDE DEF n
  <2>2. ExportPart' BY <1>1, <2>1, ExportAlone
  <2>3. n \in DOMAIN config => DOMAIN c = ConfigFields BY <1>1 DEF ConfigPart, Range, ConfigFields
  <2> HIDE DEF c
  <2>4. ~EditingSource' BY <2>1 DEF EditingSource
  <2>5. IsList(updates') /\ \A j \in DOMAIN updates' : updates'[j].draft.of = updates'[j].domain
    BY <1>1, <2>1 DEF ConfigPart, ConfigDraftIsOwn
  <2>6. ConfigPart' BY <1>1, <2>1, <2>3, <2>4, <2>5, SameSource
  <2> QED BY <1>2, <2>2, <2>6, DialogsNext
<1> QED BY <1>3, <1>4

(* Nothing is open and nothing under way at the start. *)
LEMMA DialogsStart == ExportsInit => DialogsInv
<1> SUFFICES ASSUME ExportsInit PROVE DialogsInv OBVIOUS
<1>1. /\ exporting = "" /\ export = <<>> /\ asks = <<>> /\ files = [asked |-> <<>>, written |-> {}]
      /\ source = "" /\ config = <<>> /\ updates = <<>> /\ closings = <<>>
  BY DEF ExportsInit
<1>2. IsList(<<>>) /\ Range(<<>>) = {} /\ DOMAIN <<>> = {} BY EmptyIsList
<1>3. ~Exporting /\ ~EditingSource BY <1>1 DEF Exporting, EditingSource
<1>4. FilesAreNamed BY <1>1, <1>2 DEF FilesAreNamed, ToSet
<1>5. ExportPart BY <1>1, <1>2, <1>3, <1>4 DEF ExportPart, AsksInv, ExportIsChosen
<1>6. ConfigPart BY <1>1, <1>2, <1>3 DEF ConfigPart, ConfigDraftIsOwn
<1> QED BY <1>1, <1>2, <1>5, <1>6, DialogsAre DEF DialogsParts

(* Every step of the two dialogs keeps DialogsInv, handler by handler. *)
LEMMA DialogsStep == DialogsInv /\ [ExportsNext]_exportsVars => DialogsInv'
<1> SUFFICES ASSUME DialogsInv, [ExportsNext]_exportsVars PROVE DialogsInv' OBVIOUS
<1>1. CASE \E list \in Exportable : Export(list) BY <1>1, ExportStep, ExportableAssumption
<1>2. CASE \E format \in {"singbox", "clash", "xray"}, full \in BOOLEAN : ChooseFormat(format, full)
  BY <1>2, ChooseFormatStep
<1>3. CASE \E k \in DOMAIN asks : Exported(k) BY <1>3, ExportedStep
<1>4. CASE CancelExport BY <1>4, CancelExportStep
<1>5. CASE HandleSaveFile BY <1>5, SaveFileStep
<1>6. CASE \E k \in DOMAIN files.asked : FilePicked(k) BY <1>6, FilePickedStep
<1>7. CASE \E d \in Subscriptions : EditSource(d) BY <1>7, EditSourceStep
<1>8. CASE (\E url \in {"", "typed"} : TypeUrl(url)) \/ CancelConfig \/ SaveUrl BY <1>8, ConfigSteps
<1>9. CASE \E d \in Subscriptions : ProfilesRefreshed(d, "moved") BY <1>9, RefreshedStep
<1>10. CASE \E k \in DOMAIN updates : UrlSaved(k) BY <1>10, UrlSavedStep
<1>11. CASE \E k \in DOMAIN closings : ExitEnds(k) BY <1>11, ExitEndsStep
<1>12. CASE UNCHANGED exportsVars
  <2>1. ExportPart /\ ConfigPart /\ IsList(closings) BY DialogsAre DEF DialogsParts
  <2>2. UNCHANGED exportVars /\ UNCHANGED configVars /\ UNCHANGED closings BY <1>12 DEF exportsVars
  <2> QED BY <2>1, <2>2, ExportAlone, ConfigAlone, DialogsNext
<1> QED BY <1>1, <1>2, <1>3, <1>4, <1>5, <1>6, <1>7, <1>8, <1>9, <1>10, <1>11, <1>12 DEF ExportsNext

(* The inductive invariant of the Export and Edit subscription dialogs, for any
   lists, subscriptions and number of steps. *)
THEOREM DialogsInvariance == ExportsSpec => []DialogsInv
BY DialogsStart, DialogsStep, PTL DEF ExportsSpec

(* The text exported, the file saved and the address stored belong to the
   choice they were made for, however calls, timers and pickers that outlive a
   dialog end (ExportDialog.tsx, EditConfigDialog.tsx). *)
THEOREM DialogsHoldAlways == ExportsSpec => []DialogsHold
<1>1. DialogsInv => DialogsHold BY DEF DialogsInv
<1> QED BY <1>1, DialogsInvariance, PTL

-----------------------------------------------------------------------------
(* Back: for any things and any number of steps. *)

(* No entry of s is there twice; the entries of s. *)
Once(s) == \A a, b \in 1..Len(s) : s[a] = s[b] => a = b
Entries(s) == {s[a] : a \in 1..Len(s)}

(* A list less one of its places is a list. *)
LEMMA WithoutList ==
    ASSUME NEW S, NEW s \in Seq(S), NEW i \in 1..Len(s)
    PROVE  Without(s, i) \in Seq(S) /\ Len(Without(s, i)) = Len(s) - 1
<1> DEFINE w == Without(s, i)
           n == Len(s) - 1
<1>1. n \in Nat /\ Len(s) \in Nat /\ i \in Nat
  OBVIOUS
<1>2. w = [j \in 1..n |-> IF j < i THEN s[j] ELSE s[j + 1]]
  BY DEF Without
<1>3. w \in [1..n -> S]
  BY <1>1, <1>2
<1> QED
  BY <1>1, <1>3

(***************************************************************************)
(* Taking an element out of a stack leaves the others, each once           *)
(* (stack.splice and stack.pop).                                           *)
(***************************************************************************)
LEMMA WithoutFacts ==
    ASSUME NEW S, NEW s \in Seq(S), NEW i \in 1..Len(s),
           \A a, b \in 1..Len(s) : s[a] = s[b] => a = b
    PROVE  /\ Without(s, i) \in Seq(S)
           /\ Len(Without(s, i)) = Len(s) - 1
           /\ \A a, b \in 1..(Len(s) - 1) : Without(s, i)[a] = Without(s, i)[b] => a = b
           /\ {Without(s, i)[a] : a \in 1..(Len(s) - 1)} = {s[a] : a \in 1..Len(s)} \ {s[i]}
<1> DEFINE w == Without(s, i)
           n == Len(s) - 1
<1>1. n \in Nat /\ Len(s) \in Nat /\ i \in Nat
  OBVIOUS
<1>2. w = [j \in 1..n |-> IF j < i THEN s[j] ELSE s[j + 1]]
  BY DEF Without
<1>3. w \in [1..n -> S]
  BY <1>1, <1>2
<1>4. w \in Seq(S) /\ Len(w) = n
  BY <1>1, <1>3
<1>5. \A a \in 1..n : w[a] = s[IF a < i THEN a ELSE a + 1]
  BY <1>1, <1>2
<1>6. \A a, b \in 1..n : w[a] = w[b] => a = b
  <2> SUFFICES ASSUME NEW a \in 1..n, NEW b \in 1..n, w[a] = w[b] PROVE a = b
    OBVIOUS
  <2> DEFINE f(c) == IF c < i THEN c ELSE c + 1
  <2>1. f(a) \in 1..Len(s) /\ f(b) \in 1..Len(s)
    BY <1>1
  <2>2. s[f(a)] = s[f(b)]
    BY <1>5
  <2>3. f(a) = f(b)
    BY <2>1, <2>2
  <2> QED
    BY <1>1, <2>3
<1>7. {w[a] : a \in 1..n} = {s[a] : a \in 1..Len(s)} \ {s[i]}
  <2>1. ASSUME NEW a \in 1..n
        PROVE  \E c \in 1..Len(s) : c # i /\ w[a] = s[c]
    <3>1. CASE a < i
      BY <1>1, <1>5, <3>1
    <3>2. CASE ~(a < i)
      <4>1. a + 1 \in 1..Len(s) /\ a + 1 # i /\ w[a] = s[a + 1]
        BY <1>1, <1>5, <3>2
      <4> QED
        BY <4>1
    <3> QED
      BY <3>1, <3>2
  <2>2. ASSUME NEW c \in 1..Len(s), c # i
        PROVE  \E a \in 1..n : w[a] = s[c]
    <3>1. CASE c < i
      <4>1. c \in 1..n /\ w[c] = s[c]
        BY <1>1, <1>5, <3>1
      <4> QED
        BY <4>1
    <3>2. CASE ~(c < i)
      <4>1. c - 1 \in 1..n /\ ~(c - 1 < i) /\ (c - 1) + 1 = c
        BY <1>1, <2>2, <3>2
      <4>2. w[c - 1] = s[c]
        BY <1>5, <4>1
      <4> QED
        BY <4>1, <4>2
    <3> QED
      BY <3>1, <3>2
  <2>3. \A c \in 1..Len(s) : s[c] = s[i] => c = i
    OBVIOUS
  <2>4. ASSUME NEW y \in {w[a] : a \in 1..n} PROVE y \in {s[a] : a \in 1..Len(s)} \ {s[i]}
    BY <2>1, <2>3, <2>4
  <2>5. ASSUME NEW y \in {s[a] : a \in 1..Len(s)} \ {s[i]} PROVE y \in {w[a] : a \in 1..n}
    <3>1. PICK c \in 1..Len(s) : y = s[c] /\ c # i
      BY <2>5
    <3> QED
      BY <2>2, <3>1
  <2> QED
    BY <2>4, <2>5
<1> QED
  BY <1>4, <1>6, <1>7

(***************************************************************************)
(* A thing taken out of a list, if it is there (useBack's splice).         *)
(***************************************************************************)
LEMMA LessFacts ==
    ASSUME NEW S, NEW s \in Seq(S), NEW x
    PROVE  /\ Less(s, x) \in Seq(S)
           /\ Len(Less(s, x)) = IF Holds(s, x) THEN Len(s) - 1 ELSE Len(s)
           /\ Once(s) => Once(Less(s, x)) /\ Entries(Less(s, x)) = Entries(s) \ {x}
<1>1. CASE Holds(s, x)
  <2> DEFINE i == CHOOSE a \in 1..Len(s) : s[a] = x
  <2>1. i \in 1..Len(s) /\ s[i] = x
    BY <1>1 DEF Holds
  <2>2. Less(s, x) = Without(s, i)
    BY <1>1 DEF Less
  <2> HIDE DEF i
  <2>3. Less(s, x) \in Seq(S) /\ Len(Less(s, x)) = Len(s) - 1
    BY <2>1, <2>2, WithoutList
  <2>4. ASSUME Once(s)
        PROVE  Once(Less(s, x)) /\ Entries(Less(s, x)) = Entries(s) \ {x}
    <3>1. \A a, b \in 1..Len(s) : s[a] = s[b] => a = b
      BY <2>4 DEF Once
    <3>2. \A a, b \in 1..(Len(s) - 1) : Without(s, i)[a] = Without(s, i)[b] => a = b
      BY <2>1, <3>1, WithoutFacts
    <3>3. {Without(s, i)[a] : a \in 1..(Len(s) - 1)} = {s[a] : a \in 1..Len(s)} \ {s[i]}
      BY <2>1, <3>1, WithoutFacts
    <3>4. \A a, b \in 1..Len(Less(s, x)) : Less(s, x)[a] = Less(s, x)[b] => a = b
      BY <2>2, <2>3, <3>2
    <3>5. {Less(s, x)[a] : a \in 1..Len(Less(s, x))} = {s[a] : a \in 1..Len(s)} \ {x}
      BY <2>1, <2>2, <2>3, <3>3
    <3> QED
      BY <3>4, <3>5 DEF Once, Entries
  <2> QED
    BY <1>1, <2>3, <2>4
<1>2. CASE ~Holds(s, x)
  <2>1. Less(s, x) = s
    BY <1>2 DEF Less
  <2>2. x \notin Entries(s)
    BY <1>2 DEF Holds, Entries
  <2> QED
    BY <1>2, <2>1, <2>2
<1> QED
  BY <1>1, <1>2

(* EntriesStand, by the entries of the stack. *)
LEMMA StandIs ==
    EntriesStand <=> Once(stack) /\ Entries(stack) \subseteq rendered /\ rendered \ spent \subseteq Entries(stack)
BY DEF EntriesStand, Once, Entries, Holds
LEMMA StandNext ==
    EntriesStand' <=> /\ Once(stack') /\ Entries(stack') \subseteq rendered'
                      /\ rendered' \ spent' \subseteq Entries(stack')
BY DEF EntriesStand, Once, Entries, Holds

(* useBack's cleanup: an entry more is owed for each that is taken off. *)
LEMMA CleanupKeeps ==
    ASSUME NEW x, NEW rest \in Seq(Things), Once(rest), Cleanup(x, rest)
    PROVE  /\ stack' \in Seq(Things) /\ Once(stack') /\ Entries(stack') = Entries(rest) \ {x}
           /\ rendered' = rendered \ {x}
           /\ \/ Len(stack') = Len(rest) /\ ownPops' = ownPops /\ backs' = backs
              \/ Len(stack') = Len(rest) - 1 /\ ownPops' = ownPops + 1 /\ backs' = backs + 1
<1>1. stack' = Less(rest, x) /\ rendered' = rendered \ {x}
  BY DEF Cleanup
<1>2. /\ stack' \in Seq(Things) /\ Once(stack') /\ Entries(stack') = Entries(rest) \ {x}
      /\ Len(stack') = IF Holds(rest, x) THEN Len(rest) - 1 ELSE Len(rest)
  BY <1>1, LessFacts
<1> QED
  BY <1>1, <1>2 DEF Cleanup

(* Something registers. *)
LEMMA RegistersKeeps ==
    ASSUME BackInv, NEW x \in Things, Registers(x)
    PROVE  BackInv'
<1>1. BackTypeOK /\ Balanced /\ Owed /\ EntriesStand
  BY DEF BackInv
<1>0. /\ ownPops \in Nat /\ depth \in Nat /\ backs \in Nat /\ pops \in Nat /\ due \in Int
      /\ stack \in Seq(Things) /\ Len(stack) \in Nat /\ open \in Seq(Dialogs) /\ Len(open) \in Nat
  BY <1>1 DEF BackTypeOK
<1>2. /\ stack \in Seq(Things) /\ Len(stack) \in Nat /\ open \in Seq(Dialogs) /\ x \notin rendered
      /\ stack' = Append(stack, x) /\ rendered' = rendered \cup {x} /\ spent' = spent \ {x}
      /\ depth' = depth + 1 /\ taps' = taps + 1 /\ UNCHANGED <<ownPops, backs, pops, due>>
  BY <1>1 DEF Registers, Tap, BackTypeOK
<1>3. /\ stack' \in Seq(Things) /\ Len(stack') = Len(stack) + 1 /\ stack'[Len(stack) + 1] = x
      /\ \A i \in 1..Len(stack) : stack'[i] = stack[i]
  BY <1>2
<1>4. open' \in Seq(Dialogs)
  <2>1. open' = open \/ (x \in Dialogs /\ open' = Append(open, x))
    BY DEF Registers, Dialogs
  <2>2. CASE open' = open
    BY <1>2, <2>2
  <2>3. CASE x \in Dialogs /\ open' = Append(open, x)
    <3>1. Append(open, x) \in Seq(Dialogs)
      BY <1>2, <2>3
    <3> QED
      BY <2>3, <3>1
  <2> QED
    BY <2>1, <2>2, <2>3
<1>5. BackTypeOK'
  BY <1>1, <1>2, <1>3, <1>4 DEF BackTypeOK
<1>6. Balanced' /\ Owed'
  <2>1. depth + pops = Len(stack) + ownPops /\ ownPops <= backs + pops /\ backs + pops <= ownPops + due
    BY <1>1 DEF Balanced, Owed
  <2>2. /\ depth' = depth + 1 /\ pops' = pops /\ Len(stack') = Len(stack) + 1
        /\ ownPops' = ownPops /\ backs' = backs /\ due' = due
    BY <1>2, <1>3
  <2>3. depth' + pops' = Len(stack') + ownPops' /\ ownPops' <= backs' + pops' /\ backs' + pops' <= ownPops' + due'
    BY <1>0, <2>1, <2>2
  <2> QED
    BY <2>3 DEF Balanced, Owed
<1>7. \A i \in 1..Len(stack') : (i \in 1..Len(stack) /\ stack'[i] = stack[i]) \/ (i = Len(stack) + 1 /\ stack'[i] = x)
  BY <1>2, <1>3
<1>8. \A i \in 1..Len(stack) : stack[i] # x
  BY <1>1, <1>2 DEF EntriesStand
<1>9. Once(stack')
  BY <1>1, <1>7, <1>8 DEF EntriesStand, Once
<1>10. Entries(stack') = Entries(stack) \cup {x}
  <2>1. 1..Len(stack') = (1..Len(stack)) \cup {Len(stack) + 1}
    BY <1>2, <1>3
  <2> QED
    BY <1>3, <2>1 DEF Entries
<1>11. EntriesStand'
  BY <1>1, <1>2, <1>9, <1>10, StandIs, StandNext
<1> QED
  BY <1>5, <1>6, <1>11 DEF BackInv

(* Something is closed, or its screen is left. *)
LEMMA UnregistersKeeps ==
    ASSUME BackInv, NEW x \in Things, Unregisters(x)
    PROVE  BackInv'
<1>1. BackTypeOK /\ Balanced /\ Owed /\ EntriesStand
  BY DEF BackInv
<1>0. /\ ownPops \in Nat /\ depth \in Nat /\ backs \in Nat /\ pops \in Nat /\ due \in Int
      /\ stack \in Seq(Things) /\ Len(stack) \in Nat /\ open \in Seq(Dialogs) /\ Len(open) \in Nat
  BY <1>1 DEF BackTypeOK
<1>2. stack \in Seq(Things) /\ Once(stack) /\ open \in Seq(Dialogs)
  BY <1>1, StandIs DEF BackTypeOK
<1>3. /\ Cleanup(x, stack) /\ open' = Less(open, x) /\ taps' = taps + 1
      /\ UNCHANGED <<depth, pops, spent, due>>
  BY DEF Unregisters, Tap, historyOfWindow
<1>4. /\ stack' \in Seq(Things) /\ Once(stack') /\ Entries(stack') = Entries(stack) \ {x}
      /\ rendered' = rendered \ {x}
      /\ \/ Len(stack') = Len(stack) /\ ownPops' = ownPops /\ backs' = backs
         \/ Len(stack') = Len(stack) - 1 /\ ownPops' = ownPops + 1 /\ backs' = backs + 1
  BY <1>2, <1>3, CleanupKeeps
<1>5. open' \in Seq(Dialogs)
  BY <1>2, <1>3, LessFacts
<1>6. BackTypeOK'
  BY <1>1, <1>3, <1>4, <1>5 DEF BackTypeOK
<1>7. Balanced' /\ Owed'
  <2>1. depth + pops = Len(stack) + ownPops /\ ownPops <= backs + pops /\ backs + pops <= ownPops + due
    BY <1>1 DEF Balanced, Owed
  <2>2. depth' = depth /\ pops' = pops /\ due' = due
    BY <1>3
  <2>3. CASE Len(stack') = Len(stack) /\ ownPops' = ownPops /\ backs' = backs
    BY <2>1, <2>2, <2>3 DEF Balanced, Owed
  <2>4. CASE Len(stack') = Len(stack) - 1 /\ ownPops' = ownPops + 1 /\ backs' = backs + 1
    <3>1. depth + pops = (Len(stack) - 1) + (ownPops + 1)
      BY <1>0, <2>1
    <3>2. ownPops + 1 <= (backs + 1) + pops /\ (backs + 1) + pops <= (ownPops + 1) + due
      BY <1>0, <2>1
    <3> QED
      BY <2>2, <2>4, <3>1, <3>2 DEF Balanced, Owed
  <2> QED
    BY <1>4, <2>3, <2>4
<1>8. EntriesStand'
  BY <1>1, <1>3, <1>4, StandIs, StandNext
<1> QED
  BY <1>6, <1>7, <1>8 DEF BackInv

(* A dialog is shown or hidden without its effect. *)
LEMMA ShowsKeeps ==
    ASSUME BackInv, NEW x \in Standing, Shows(x) \/ Hides(x)
    PROVE  BackInv'
<1>1. BackTypeOK /\ Balanced /\ Owed /\ EntriesStand
  BY DEF BackInv
<1>0. /\ ownPops \in Nat /\ depth \in Nat /\ backs \in Nat /\ pops \in Nat /\ due \in Int
      /\ stack \in Seq(Things) /\ Len(stack) \in Nat /\ open \in Seq(Dialogs) /\ Len(open) \in Nat
  BY <1>1 DEF BackTypeOK
<1>2. /\ UNCHANGED <<rendered, stack, ownPops, depth, pops, backs, spent, due>> /\ taps' = taps + 1
      /\ open' \in {Append(open, x), Less(open, x)}
  BY DEF Shows, Hides, Tap, historyOfWindow
<1>3. open' \in Seq(Dialogs)
  <2>1. x \in Dialogs /\ open \in Seq(Dialogs)
    BY <1>1 DEF Dialogs, BackTypeOK
  <2> QED
    BY <1>2, <2>1, LessFacts
<1>4. BackTypeOK'
  BY <1>1, <1>2, <1>3 DEF BackTypeOK
<1>5. Balanced' /\ Owed' /\ EntriesStand'
  BY <1>1, <1>2 DEF Balanced, Owed, EntriesStand, Holds
<1> QED
  BY <1>4, <1>5 DEF BackInv

(* The history goes back. *)
LEMMA GoesBackKeeps ==
    ASSUME BackInv, UserBack \/ BackRuns
    PROVE  BackInv'
<1>1. BackTypeOK /\ Balanced /\ Owed /\ EntriesStand
  BY DEF BackInv
<1>0. /\ ownPops \in Nat /\ depth \in Nat /\ backs \in Nat /\ pops \in Nat /\ due \in Int
      /\ stack \in Seq(Things) /\ Len(stack) \in Nat /\ open \in Seq(Dialogs) /\ Len(open) \in Nat
  BY <1>1 DEF BackTypeOK
<1>2. UNCHANGED <<open, rendered, stack, ownPops, spent>>
  BY DEF UserBack, BackRuns
<1>3. EntriesStand'
  BY <1>1, <1>2 DEF EntriesStand, Holds
<1>4. CASE UserBack
  <2>1. BackTypeOK'
    BY <1>1, <1>2, <1>4 DEF UserBack, Tap, BackTypeOK
  <2>2. Balanced' /\ Owed'
    BY <1>1, <1>2, <1>4, <1>0 DEF UserBack, Balanced, Owed
  <2> QED
    BY <1>3, <2>1, <2>2 DEF BackInv
<1>5. CASE BackRuns /\ depth > 0
  <2>1. BackTypeOK'
    BY <1>1, <1>2, <1>5 DEF BackRuns, BackTypeOK
  <2>2. Balanced' /\ Owed'
    BY <1>1, <1>2, <1>5, <1>0 DEF BackRuns, Balanced, Owed
  <2> QED
    BY <1>3, <2>1, <2>2 DEF BackInv
<1>6. CASE BackRuns /\ ~(depth > 0)
  <2>1. BackTypeOK' /\ UNCHANGED <<depth, pops, due>> /\ backs' = backs - 1
    BY <1>1, <1>2, <1>6 DEF BackRuns, BackTypeOK, historyOfWindow
  <2>2. Balanced' /\ Owed'
    <3>1. depth + pops = Len(stack) + ownPops /\ ownPops <= backs + pops /\ backs + pops <= ownPops + due
      BY <1>1 DEF Balanced, Owed
    <3>2. depth = 0 /\ depth' = depth /\ pops' = pops /\ due' = due /\ stack' = stack /\ ownPops' = ownPops
      BY <1>0, <1>2, <1>6, <2>1
    <3>3. backs' = backs - 1 /\ ownPops <= pops
      BY <1>0, <2>1, <3>1, <3>2
    <3>4. depth' + pops' = Len(stack') + ownPops' /\ ownPops' <= backs' + pops' /\ backs' + pops' <= ownPops' + due'
      BY <1>0, <1>6, <3>1, <3>2, <3>3 DEF BackRuns
    <3> QED
      BY <3>4 DEF Balanced, Owed
  <2> QED
    BY <1>3, <2>1, <2>2 DEF BackInv
<1> QED
  BY <1>4, <1>5, <1>6

(* A popstate: one the module asked for, or a Back of the user's and the newest
   entry's handler. *)
LEMMA PopStateKeeps ==
    ASSUME BackInv, PopState
    PROVE  BackInv'
<1>1. BackTypeOK /\ Balanced /\ Owed /\ EntriesStand
  BY DEF BackInv
<1>0. /\ ownPops \in Nat /\ depth \in Nat /\ backs \in Nat /\ pops \in Nat /\ due \in Int
      /\ stack \in Seq(Things) /\ Len(stack) \in Nat /\ open \in Seq(Dialogs) /\ Len(open) \in Nat
  BY <1>1 DEF BackTypeOK
<1>2. pops > 0 /\ pops' = pops - 1 /\ UNCHANGED <<depth, taps>>
  BY DEF PopState
<1>3. CASE ownPops > 0
  <2>1. ownPops' = ownPops - 1 /\ UNCHANGED <<open, rendered, stack, backs, spent, due>>
    BY <1>1, <1>3, <1>0 DEF PopState
  <2>2. BackTypeOK'
    BY <1>1, <1>2, <1>3, <2>1 DEF BackTypeOK
  <2>3. Balanced' /\ Owed' /\ EntriesStand'
    BY <1>1, <1>2, <2>1, <1>0 DEF Balanced, Owed, EntriesStand, Holds
  <2> QED
    BY <2>2, <2>3 DEF BackInv
<1>4. CASE ownPops = 0
  <2> DEFINE n == Len(stack)
             x == stack[n]
             rest == Without(stack, n)
  <2>1. n \in 1..Len(stack) /\ stack # <<>>
    BY <1>1, <1>2, <1>4, <1>0 DEF Balanced
  <2>2. Handler(x, rest)
    BY <1>4, <2>1 DEF PopState
  <2>3. stack \in Seq(Things) /\ Once(stack) /\ n \in Nat
    BY <1>1, StandIs, <1>0
  <2>4. /\ rest \in Seq(Things) /\ Len(rest) = n - 1
        /\ Once(rest) /\ Entries(rest) = Entries(stack) \ {x}
    <3>1. \A a, b \in 1..Len(stack) : stack[a] = stack[b] => a = b
      BY <2>3 DEF Once
    <3>2. PICK i \in 1..Len(stack) : i = n
      BY <2>1
    <3>3. Without(stack, i) \in Seq(Things) /\ Len(Without(stack, i)) = Len(stack) - 1
      BY <2>3, <3>1, WithoutFacts
    <3>4. \A a, b \in 1..(Len(stack) - 1) : Without(stack, i)[a] = Without(stack, i)[b] => a = b
      BY <2>3, <3>1, WithoutFacts
    <3>5. {Without(stack, i)[a] : a \in 1..(Len(stack) - 1)} = {stack[a] : a \in 1..Len(stack)} \ {stack[i]}
      BY <2>3, <3>1, WithoutFacts
    <3>6. Without(stack, i) = rest /\ stack[i] = x
      BY <3>2
    <3>7. Len(rest) = n - 1 /\ rest \in Seq(Things)
      BY <3>3, <3>6
    <3>8. \A a, b \in 1..Len(rest) : rest[a] = rest[b] => a = b
      BY <3>4, <3>6, <3>7
    <3>9. {rest[a] : a \in 1..Len(rest)} = {stack[a] : a \in 1..Len(stack)} \ {x}
      BY <3>5, <3>6, <3>7
    <3> HIDE DEF rest, x, n
    <3> QED
      BY <3>7, <3>8, <3>9 DEF Once, Entries
  <2>5. x \in Things /\ spent' = spent \cup {x} /\ due' = due - 1
    BY <2>1, <2>2, <2>3 DEF Handler
  <2>6. Entries(stack) \subseteq rendered /\ rendered \ spent \subseteq Entries(stack)
    BY <1>1, StandIs
  <2> HIDE DEF x, rest
  <2>7. /\ stack' \in Seq(Things) /\ Once(stack') /\ rendered' \subseteq rendered
        /\ Entries(stack') \subseteq rendered' /\ rendered' \ spent' \subseteq Entries(stack')
        /\ \/ Len(stack') = Len(rest) /\ ownPops' = ownPops /\ backs' = backs
           \/ Len(stack') = Len(rest) - 1 /\ ownPops' = ownPops + 1 /\ backs' = backs + 1
    <3>1. CASE stack' = rest /\ UNCHANGED <<rendered, ownPops, backs>>
      BY <2>4, <2>5, <2>6, <3>1
    <3>2. ASSUME NEW y, Cleanup(y, rest)
          PROVE  /\ stack' \in Seq(Things) /\ Once(stack') /\ rendered' \subseteq rendered
                 /\ Entries(stack') \subseteq rendered' /\ rendered' \ spent' \subseteq Entries(stack')
                 /\ \/ Len(stack') = Len(rest) /\ ownPops' = ownPops /\ backs' = backs
                    \/ Len(stack') = Len(rest) - 1 /\ ownPops' = ownPops + 1 /\ backs' = backs + 1
      <4>1. /\ stack' \in Seq(Things) /\ Once(stack') /\ Entries(stack') = Entries(rest) \ {y}
            /\ rendered' = rendered \ {y}
            /\ \/ Len(stack') = Len(rest) /\ ownPops' = ownPops /\ backs' = backs
               \/ Len(stack') = Len(rest) - 1 /\ ownPops' = ownPops + 1 /\ backs' = backs + 1
        BY <2>4, <3>2, CleanupKeeps
      <4> QED
        BY <2>4, <2>5, <2>6, <4>1
    <3> QED
      BY <2>2, <3>1, <3>2 DEF Handler
  <2>8. open' \in Seq(Dialogs)
    <3>1. open \in Seq(Dialogs) /\ Len(open) \in Nat
      BY <1>1, <1>0
    <3>2. CASE open' = open
      BY <3>1, <3>2
    <3>3. CASE open # <<>> /\ open' = Without(open, Len(open))
      <4>1. Len(open) \in 1..Len(open)
        BY <3>1, <3>3
      <4> QED
        BY <3>1, <3>3, <4>1, WithoutList
    <3> QED
      BY <2>2, <3>2, <3>3 DEF Handler
  <2>9. BackTypeOK'
    <3>1. /\ ownPops' \in Nat /\ backs' \in Nat /\ pops' \in Nat /\ due' \in Int
      BY <1>1, <1>2, <2>5, <2>7, <1>0
    <3> QED
      BY <1>1, <1>2, <2>5, <2>7, <2>8, <3>1 DEF BackTypeOK
  <2>10. Balanced' /\ Owed'
    BY <1>1, <1>2, <1>4, <2>3, <2>4, <2>5, <2>7, <1>0 DEF Balanced, Owed
  <2>11. EntriesStand'
    BY <2>7, StandNext
  <2> QED
    BY <2>9, <2>10, <2>11 DEF BackInv
<1> QED
  BY <1>1, <1>3, <1>4, <1>0

(***************************************************************************)
(* The inductive invariant: entries and popstates under way balance the    *)
(* stack and the pops owed, what is on its way beyond those is the user's, *)
(* and the stack is of what is registered, less what Back has taken.       *)
(***************************************************************************)
THEOREM BackInvariance == BackSpec => []BackInv
<1>1. BackInit => BackInv
  <2> SUFFICES ASSUME BackInit PROVE BackInv
    OBVIOUS
  <2>1. stack \in Seq(Things) /\ Len(stack) = 0 /\ open \in Seq(Dialogs)
    BY DEF BackInit
  <2> QED
    BY <2>1 DEF BackInit, BackInv, BackTypeOK, Balanced, Owed, EntriesStand
<1>2. BackInv /\ [BackNext]_backVars => BackInv'
  <2> SUFFICES ASSUME BackInv, [BackNext]_backVars PROVE BackInv'
    OBVIOUS
  <2>1. ASSUME NEW x \in Things, Registers(x) \/ Unregisters(x) PROVE BackInv'
    BY <2>1, RegistersKeeps, UnregistersKeeps
  <2>2. ASSUME NEW x \in Standing, Shows(x) \/ Hides(x) PROVE BackInv'
    BY <2>2, ShowsKeeps
  <2>3. CASE UserBack \/ BackRuns
    BY <2>3, GoesBackKeeps
  <2>4. CASE PopState
    BY <2>4, PopStateKeeps
  <2>5. CASE UNCHANGED backVars
    BY <2>5 DEF backVars, historyOfWindow, BackInv, BackTypeOK, Balanced, Owed, EntriesStand, Holds
  <2> QED
    BY <2>1, <2>2, <2>3, <2>4, <2>5 DEF BackNext
<1> QED
  BY <1>1, <1>2, PTL DEF BackSpec

(***************************************************************************)
(* Once the history has caught up it has one entry for each registered     *)
(* thing whose handler no Back has run, the module owes no pop, and never  *)
(* has a handler run but for a Back of the user (lib/back.ts).             *)
(***************************************************************************)
THEOREM BackMatchesHolds == BackSpec => []BackMatches
<1>1. BackInv => BackMatches
  <2> SUFFICES ASSUME BackInv PROVE BackMatches
    OBVIOUS
  <2>1. BackTypeOK /\ Balanced /\ Owed /\ EntriesStand
    BY DEF BackInv
  <2>0. ownPops \in Nat /\ depth \in Nat /\ backs \in Nat /\ pops \in Nat /\ due \in Int /\ Len(stack) \in Nat
    BY <2>1 DEF BackTypeOK
  <2>2. due >= 0
    BY <2>1, <2>0 DEF Owed
  <2>3. ASSUME backs = 0, pops = 0 PROVE depth = Len(stack) /\ ownPops = 0
    BY <2>1, <2>3, <2>0 DEF Balanced, Owed
  <2>4. \A x \in rendered \ spent : \E i \in 1..Len(stack) : stack[i] = x
    BY <2>1 DEF EntriesStand, Holds
  <2> QED
    BY <2>2, <2>3, <2>4 DEF BackMatches
<1> QED
  BY <1>1, BackInvariance, PTL

=============================================================================
