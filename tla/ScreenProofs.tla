---------------------------- MODULE ScreenProofs ----------------------------
(***************************************************************************)
(* Theorems about the screens: connections and log (Activity), the cards   *)
(* of servers and of sources (Lists), the connection (ConnectionScreen).   *)
(***************************************************************************)
EXTENDS Activity, Lists, ConnectionScreen, SublistProofs

-----------------------------------------------------------------------------
(* ConnectionsView. *)

(* The parts of ActivityInv, by the variables they are about. *)
ConnPart ==
    /\ flow \in [on : BOOLEAN, open : SUBSET Opened]
    /\ watch \in [mounted : BOOLEAN, paused : BOOLEAN, visible : BOOLEAN, rows : SUBSET ConnRows, fresh : BOOLEAN]
    /\ live \in [rows : SUBSET ConnRows, lastOpen : SUBSET Opened, recent : SUBSET Opened, dismissed : SUBSET Opened]
    /\ reads \in Seq([list : SUBSET Opened, cancelled : BOOLEAN])
    /\ closes \in Seq([ids : SUBSET Opened, all : BOOLEAN])
    /\ showSystem \in BOOLEAN
    /\ ReadsInv /\ KeptInv /\ ListHonest /\ OpenAppShown
LogPart == log \in [on : BOOLEAN, limit : Nat, lines : Seq(Nat), all : Seq(Nat)] /\ LogIsTail

(* ActivityInv is these two parts: no step changes the variables of both. *)
LEMMA ActivityParts == (ActivityInv <=> ConnPart /\ LogPart) /\ (ConnPart' /\ LogPart' => ActivityInv')
BY DEF ActivityInv, ActivityTypes, ActivityHolds, ConnPart, LogPart

(* A step of the statistics or of the log leaves the connections alone. *)
LEMMA ConnAlone == ASSUME ConnPart, UNCHANGED connVars PROVE ConnPart'
BY DEF ConnPart, connVars, ReadsInv, Polling, KeptInv, ListHonest, OpenAppShown

(* The effect on what is open: what it leaves has rows to show. *)
LEMMA LandedShown ==
    ASSUME NEW app, NEW kept, NEW system, kept # {}, Landed(app, kept, system) # NoApp
    PROVE  Landed(app, kept, system) \in GroupRows(kept, system)
BY DEF Landed

(* A program inside System is there only with System itself. *)
LEMMA SystemAround ==
    ASSUME NEW kept, NEW system, NEW app \in GroupRows(kept, system), app.in = "system", app.app # ""
    PROVE  SystemApp \in GroupRows(kept, system)
<1> DEFINE folded(r) == ~system /\ IsSystem(r.id)
<1>1. /\ \A g \in GroupRows(kept, system) :
            \/ \E r \in kept : g = [in |-> "", app |-> ProgramOf[r.id]]
            \/ SystemApp \in GroupRows(kept, system)
  BY DEF GroupRows
<1>2. \A p : [in |-> "", app |-> p].in = "" OBVIOUS
<1> QED BY <1>1, <1>2

(* The rows of what is open and of what is just closed. *)
LEMMA FreshRows ==
    ASSUME NEW open \in SUBSET Opened, NEW gone \in SUBSET Opened, gone \cap open = {}
    PROVE  LET made == {[id |-> i, closed |-> FALSE] : i \in open} \cup {[id |-> i, closed |-> TRUE] : i \in gone}
           IN  /\ made \in SUBSET ConnRows
               /\ \A r, q \in made : r.id = q.id => r = q
               /\ \A r \in made : r.closed => r.id \in gone
<1> DEFINE up(i) == [id |-> i, closed |-> FALSE]
           down(i) == [id |-> i, closed |-> TRUE]
           made == {up(i) : i \in open} \cup {down(i) : i \in gone}
<1>1. \A i \in Opened : up(i) \in ConnRows /\ down(i) \in ConnRows BY DEF ConnRows
<1>2. \A i : up(i).id = i /\ down(i).id = i /\ ~up(i).closed OBVIOUS
<1> HIDE DEF up, down
<1>3. \A r \in made : (r.id \in open /\ r = up(r.id)) \/ (r.id \in gone /\ r = down(r.id)) BY <1>2
<1>4. \A r \in made : r \in ConnRows BY <1>1, <1>3
<1>5. \A r, q \in made : r.id = q.id => r = q BY <1>3
<1>6. \A r \in made : r.closed => r.id \in gone BY <1>2, <1>3
<1> QED BY <1>4, <1>5, <1>6 DEF up, down

(* A read that is not cancelled comes back while the screen polls: the rows it
   makes have each connection once, and none the user closed. *)
LEMMA ReadEndsStep == ASSUME ConnPart, NEW k, ReadEnds(k) PROVE ConnPart'
<1> DEFINE R == [list : SUBSET Opened, cancelled : BOOLEAN]
<1>0. k \in DOMAIN reads /\ reads' = RemoveAt(reads, k) /\ UNCHANGED <<flow, closes, showSystem>>
  BY DEF ReadEnds
<1>1. reads \in Seq(R) /\ IsList(reads) /\ Range(reads) \subseteq R BY SeqIsList DEF ConnPart
<1>2. reads' \in Seq(R) /\ Range(reads') \subseteq Range(reads)
  <2>1. IsList(RemoveAt(reads, k)) /\ Range(RemoveAt(reads, k)) \subseteq Range(reads) BY <1>0, <1>1, RemoveAtList
  <2>2. RemoveAt(reads, k) \in Seq(R) BY <1>1, <2>1, SeqMonotonic DEF IsList
  <2> QED BY <1>0, <2>1, <2>2
<1>3. reads[k] \in R BY <1>0, <1>1, ElementOfSeq DEF Range
<1>4. \A i \in DOMAIN reads' : reads'[i].cancelled \/ Polling
  <2>1. \A r \in Range(reads) : r.cancelled \/ Polling BY DEF ConnPart, ReadsInv, Range
  <2> QED BY <1>2, <2>1 DEF Range
<1>5. CASE reads[k].cancelled
  <2>1. UNCHANGED <<watch, live, openApp>> BY <1>5 DEF ReadEnds
  <2> QED BY <1>0, <1>2, <1>4, <2>1 DEF ConnPart, ReadsInv, Polling, KeptInv, ListHonest, OpenAppShown
<1>6. CASE ~reads[k].cancelled
  <2>1. PICK expired \in {{}, live.recent} :
          LET seen == reads[k].list
              recent == (((live.recent \ expired) \cup (live.lastOpen \ live.dismissed)) \ seen)
              fresh == {[id |-> i, closed |-> FALSE] : i \in seen} \cup {[id |-> i, closed |-> TRUE] : i \in recent}
          IN  /\ live' = [live EXCEPT !.lastOpen = seen, !.recent = recent, !.rows = fresh]
              /\ Show(fresh, TRUE, showSystem)
    BY <1>6 DEF ReadEnds
  <2> DEFINE seen == reads[k].list
             recent == (((live.recent \ expired) \cup (live.lastOpen \ live.dismissed)) \ seen)
             fresh == {[id |-> i, closed |-> FALSE] : i \in seen} \cup {[id |-> i, closed |-> TRUE] : i \in recent}
  <2>2. /\ live' = [live EXCEPT !.lastOpen = seen, !.recent = recent, !.rows = fresh]
        /\ watch' = [watch EXCEPT !.rows = fresh, !.fresh = TRUE]
        /\ openApp' = Landed(openApp, fresh, showSystem)
    BY <2>1 DEF Show
  <2>3. seen \subseteq Opened /\ recent \subseteq Opened /\ recent \cap seen = {} /\ recent \cap live.dismissed = {}
    <3>1. live.recent \subseteq Opened /\ live.lastOpen \subseteq Opened /\ seen \subseteq Opened BY <1>3 DEF ConnPart
    <3> HIDE DEF seen
    <3>2. live.recent \cap live.dismissed = {} BY DEF ConnPart, KeptInv
    <3> QED BY <3>1, <3>2
  <2>4. /\ fresh \in SUBSET ConnRows
        /\ \A r, q \in fresh : r.id = q.id => r = q
        /\ \A r \in fresh : r.closed => r.id \in recent
    <3> HIDE DEF seen, recent
    <3> QED BY <2>3, FreshRows
  <2> HIDE DEF seen, recent, fresh
  <2>6. /\ live'.rows = fresh /\ live'.recent = recent /\ live'.dismissed = live.dismissed
        /\ live' \in [rows : SUBSET ConnRows, lastOpen : SUBSET Opened, recent : SUBSET Opened, dismissed : SUBSET Opened]
    BY <2>2, <2>3, <2>4 DEF ConnPart
  <2>7. /\ watch'.rows = fresh /\ watch'.mounted = watch.mounted /\ watch'.visible = watch.visible
        /\ watch'.paused = watch.paused
        /\ watch' \in [mounted : BOOLEAN, paused : BOOLEAN, visible : BOOLEAN, rows : SUBSET ConnRows, fresh : BOOLEAN]
    BY <2>2, <2>4 DEF ConnPart
  <2>8. Polling /\ Polling' BY <1>0, <1>6, <2>7 DEF ConnPart, ReadsInv, Polling
  <2>9. ReadsInv' BY <1>4, <2>8 DEF ReadsInv
  <2>10. KeptInv' BY <2>3, <2>4, <2>6 DEF KeptInv
  <2>11. ListHonest' BY <1>0, <2>3, <2>4, <2>6, <2>7, <2>8 DEF ListHonest, Polling
  <2>12. OpenAppShown' BY <1>0, <2>2, <2>7, LandedShown DEF OpenAppShown
  <2> QED BY <1>0, <1>2, <2>6, <2>7, <2>9, <2>10, <2>11, <2>12 DEF ConnPart
<1> QED BY <1>5, <1>6

(* CancelReads: no read counts any more. *)
LEMMA Cancelled ==
    ASSUME ConnPart, CancelReads
    PROVE  /\ reads' \in Seq([list : SUBSET Opened, cancelled : BOOLEAN])
           /\ \A k \in DOMAIN reads' : reads'[k].cancelled
<1> DEFINE R == [list : SUBSET Opened, cancelled : BOOLEAN]
<1>1. reads \in Seq(R) /\ Len(reads) \in Nat /\ DOMAIN reads = 1 .. Len(reads) /\ \A k \in 1 .. Len(reads) : reads[k] \in R
  BY LenProperties, ElementOfSeq DEF ConnPart
<1>2. reads' = [i \in 1 .. Len(reads) |-> [reads[i] EXCEPT !.cancelled = TRUE]] BY <1>1 DEF CancelReads
<1>3. \A i \in 1 .. Len(reads) : [reads[i] EXCEPT !.cancelled = TRUE] \in R /\ [reads[i] EXCEPT !.cancelled = TRUE].cancelled
  BY <1>1
<1>4. reads' \in [1 .. Len(reads) -> R] BY <1>2, <1>3
<1>5. reads' \in Seq(R) BY <1>1, <1>4, SeqDef
<1> QED BY <1>1, <1>2, <1>3, <1>5

(* Poll: the read counts while the screen polls. *)
LEMMA PollStep == ASSUME ConnPart, Poll PROVE ConnPart'
<1> DEFINE R == [list : SUBSET Opened, cancelled : BOOLEAN]
           new == [list |-> flow.open, cancelled |-> FALSE]
<1>1. new \in R /\ reads \in Seq(R) BY DEF ConnPart
<1>2. Polling /\ reads' = Append(reads, new) /\ UNCHANGED <<flow, watch, live, closes, openApp, showSystem>> BY DEF Poll
<1> HIDE DEF new
<1>3. reads' \in Seq(R) BY <1>1, <1>2, AppendProperties
<1> HIDE DEF R
<1>4. ReadsInv' BY <1>2 DEF ReadsInv, Polling
<1> QED BY <1>2, <1>3, <1>4 DEF R, ConnPart, KeptInv, ListHonest, OpenAppShown

(* A change of the rows to some of them, with the effect on what is open. *)
LEMMA FewerRows ==
    ASSUME ConnPart, NEW kept \in SUBSET watch.rows, NEW system \in BOOLEAN, Show(kept, watch.fresh, system)
    PROVE  /\ watch' \in [mounted : BOOLEAN, paused : BOOLEAN, visible : BOOLEAN, rows : SUBSET ConnRows, fresh : BOOLEAN]
           /\ watch'.rows = kept /\ watch'.mounted = watch.mounted /\ watch'.visible = watch.visible
           /\ watch'.paused = watch.paused /\ watch'.fresh = watch.fresh
           /\ \A r, q \in kept : r.id = q.id => r = q
           /\ showSystem' = system => OpenAppShown'
<1>1. watch' = [watch EXCEPT !.rows = kept, !.fresh = watch.fresh] /\ openApp' = Landed(openApp, kept, system)
  BY DEF Show
<1>2. /\ watch' \in [mounted : BOOLEAN, paused : BOOLEAN, visible : BOOLEAN, rows : SUBSET ConnRows, fresh : BOOLEAN]
      /\ watch'.rows = kept /\ watch'.mounted = watch.mounted /\ watch'.visible = watch.visible
      /\ watch'.paused = watch.paused /\ watch'.fresh = watch.fresh
  BY <1>1 DEF ConnPart
<1>3. showSystem' = system => OpenAppShown' BY <1>1, <1>2, LandedShown DEF OpenAppShown
<1>4. \A r, q \in kept : r.id = q.id => r = q BY DEF ConnPart, ListHonest
<1> QED BY <1>2, <1>3, <1>4

(* The tunnel goes up or down: the rows go with it where the screen is shown. *)
LEMMA TunnelStep == ASSUME ConnPart, NEW on \in BOOLEAN, Tunnel(on) PROVE ConnPart'
<1>1. /\ UNCHANGED <<closes, showSystem>> /\ CancelReads
      /\ flow' = [on |-> on, open |-> {}] /\ flow'.on = on /\ flow' \in [on : BOOLEAN, open : SUBSET Opened]
  BY DEF Tunnel
<1>2. /\ reads' \in Seq([list : SUBSET Opened, cancelled : BOOLEAN]) /\ ReadsInv'
  BY <1>1, Cancelled DEF ReadsInv
<1>3. CASE watch.mounted /\ ~on
  <2>1. live' = [live EXCEPT !.lastOpen = {}, !.recent = {}, !.rows = {}] /\ Show({}, TRUE, showSystem)
    BY <1>3 DEF Tunnel
  <2>2. /\ live' \in [rows : SUBSET ConnRows, lastOpen : SUBSET Opened, recent : SUBSET Opened, dismissed : SUBSET Opened]
        /\ KeptInv'
    BY <2>1 DEF ConnPart, KeptInv
  <2>3. /\ watch' \in [mounted : BOOLEAN, paused : BOOLEAN, visible : BOOLEAN, rows : SUBSET ConnRows, fresh : BOOLEAN]
        /\ watch'.rows = {}
    BY <2>1 DEF ConnPart, Show
  <2> QED BY <1>1, <1>2, <2>2, <2>3 DEF ConnPart, ListHonest, OpenAppShown
<1>4. CASE ~(watch.mounted /\ ~on)
  <2>1. UNCHANGED <<live, watch, openApp>> BY <1>4 DEF Tunnel
  <2>2. ListHonest' BY <1>1, <1>4, <2>1 DEF ConnPart, ListHonest
  <2> QED BY <1>1, <1>2, <2>1, <2>2 DEF ConnPart, KeptInv, OpenAppShown
<1> QED BY <1>3, <1>4

(* Programs open and close connections; the screen hears of it with a read. *)
LEMMA TrafficStep == ASSUME ConnPart, NEW id \in Opened, Traffic(id) PROVE ConnPart'
<1>1. flow' \in [on : BOOLEAN, open : SUBSET Opened] /\ flow'.on = flow.on
  BY DEF Traffic, ConnPart
<1> QED BY <1>1 DEF Traffic, ConnPart, ReadsInv, Polling, KeptInv, ListHonest, OpenAppShown

(* The screen is shown, with the rows kept for it, or empty when disconnected. *)
LEMMA OpenScreenStep == ASSUME ConnPart, OpenScreen PROVE ConnPart'
<1> DEFINE kept == IF flow.on THEN live.rows ELSE {}
<1>1. /\ ~watch.mounted /\ UNCHANGED <<flow, reads, closes, showSystem>>
      /\ watch' = [watch EXCEPT !.mounted = TRUE, !.paused = FALSE, !.rows = kept, !.fresh = kept = {}]
      /\ openApp' = Landed(openApp, kept, showSystem)
      /\ live' = IF flow.on THEN live ELSE [live EXCEPT !.lastOpen = {}, !.recent = {}, !.rows = {}]
  BY DEF OpenScreen
<1>2. kept \in SUBSET ConnRows /\ (\A r, q \in kept : r.id = q.id => r = q) /\ (~flow.on => kept = {})
  BY DEF ConnPart, KeptInv
<1> HIDE DEF kept
<1>3. /\ watch' \in [mounted : BOOLEAN, paused : BOOLEAN, visible : BOOLEAN, rows : SUBSET ConnRows, fresh : BOOLEAN]
      /\ watch'.rows = kept /\ (watch'.fresh => kept = {})
  BY <1>1, <1>2 DEF ConnPart
<1>4. /\ live' \in [rows : SUBSET ConnRows, lastOpen : SUBSET Opened, recent : SUBSET Opened, dismissed : SUBSET Opened]
      /\ KeptInv'
  BY <1>1 DEF ConnPart, KeptInv
<1>5. ReadsInv' BY <1>1 DEF ConnPart, ReadsInv, Polling
<1>6. ListHonest' BY <1>1, <1>2, <1>3 DEF ListHonest
<1>7. OpenAppShown' BY <1>1, <1>3, LandedShown DEF OpenAppShown
<1> QED BY <1>1, <1>3, <1>4, <1>5, <1>6, <1>7 DEF ConnPart

(* Leaving it, pausing it and hiding the window end the polling. *)
LEMMA LeaveSteps == ASSUME ConnPart, LeaveScreen \/ Pause PROVE ConnPart'
<1>1. CancelReads /\ UNCHANGED <<flow, live, closes, openApp, showSystem>> BY DEF LeaveScreen, Pause
<1>2. reads' \in Seq([list : SUBSET Opened, cancelled : BOOLEAN]) /\ ReadsInv' BY <1>1, Cancelled DEF ReadsInv
<1>3. CASE LeaveScreen
  <2>1. watch' = [watch EXCEPT !.mounted = FALSE] BY <1>3 DEF LeaveScreen
  <2>2. /\ watch' \in [mounted : BOOLEAN, paused : BOOLEAN, visible : BOOLEAN, rows : SUBSET ConnRows, fresh : BOOLEAN]
        /\ ~watch'.mounted /\ watch'.rows = watch.rows
    BY <2>1 DEF ConnPart
  <2> QED BY <1>1, <1>2, <2>2 DEF ConnPart, KeptInv, ListHonest, OpenAppShown
<1>4. CASE Pause
  <2>1. \/ watch' = [watch EXCEPT !.paused = ~watch.paused]
        \/ watch' = [watch EXCEPT !.visible = ~watch.visible]
    BY <1>4 DEF Pause
  <2>2. /\ watch' \in [mounted : BOOLEAN, paused : BOOLEAN, visible : BOOLEAN, rows : SUBSET ConnRows, fresh : BOOLEAN]
        /\ watch'.mounted = watch.mounted /\ watch'.rows = watch.rows /\ watch'.fresh = watch.fresh
    BY <2>1 DEF ConnPart
  <2> QED BY <1>1, <1>2, <2>2 DEF ConnPart, KeptInv, ListHonest, OpenAppShown
<1> QED BY <1>3, <1>4

(* A program is opened, or left for what it was in. *)
LEMMA SetOpenAppStep == ASSUME ConnPart, NEW app, SetOpenApp(app) PROVE ConnPart'
<1>1. watch.mounted /\ UNCHANGED <<flow, watch, live, reads, closes, showSystem>> BY DEF SetOpenApp
<1>2. OpenAppShown'
  <2> SUFFICES ASSUME watch.rows # {}, openApp' # NoApp PROVE openApp' \in GroupRows(watch.rows, showSystem)
    BY <1>1 DEF OpenAppShown
  <2>1. CASE app \in GroupRows(watch.rows, showSystem) /\ openApp' = app BY <2>1
  <2>2. CASE openApp # NoApp /\ openApp' = IF openApp.in = "system" /\ openApp.app # "" THEN SystemApp ELSE NoApp
    <3>1. openApp \in GroupRows(watch.rows, showSystem) BY <1>1, <2>2 DEF ConnPart, OpenAppShown
    <3>2. openApp.in = "system" /\ openApp.app # "" /\ openApp' = SystemApp BY <2>2
    <3> QED BY <3>1, <3>2, SystemAround
  <2> QED BY <2>1, <2>2 DEF SetOpenApp
<1> QED BY <1>1, <1>2 DEF ConnPart, ReadsInv, Polling, KeptInv, ListHonest

(* The Show system switch groups the rows anew. *)
LEMMA SetShowSystemStep == ASSUME ConnPart, SetShowSystem PROVE ConnPart'
<1>1. /\ UNCHANGED <<flow, live, reads, closes>> /\ showSystem' = ~showSystem /\ showSystem' \in BOOLEAN
      /\ Show(watch.rows, watch.fresh, showSystem')
  BY DEF SetShowSystem, ConnPart
<1>2. /\ watch' \in [mounted : BOOLEAN, paused : BOOLEAN, visible : BOOLEAN, rows : SUBSET ConnRows, fresh : BOOLEAN]
      /\ watch'.rows = watch.rows /\ watch'.mounted = watch.mounted /\ watch'.visible = watch.visible
      /\ watch'.paused = watch.paused /\ watch'.fresh = watch.fresh
      /\ OpenAppShown'
  BY <1>1, FewerRows
<1> QED BY <1>1, <1>2 DEF ConnPart, ReadsInv, Polling, KeptInv, ListHonest

(* close, to its await. *)
LEMMA CloseStep == ASSUME ConnPart, NEW ids \in SUBSET Opened, NEW all \in BOOLEAN, Close(ids, all) PROVE ConnPart'
<1> DEFINE C == [ids : SUBSET Opened, all : BOOLEAN]
           new == [ids |-> ids, all |-> all]
<1>1. new \in C /\ closes \in Seq(C) BY DEF ConnPart
<1>2. closes' = Append(closes, new) /\ UNCHANGED <<flow, watch, live, reads, openApp, showSystem>> BY DEF Close
<1> HIDE DEF new
<1>3. closes' \in Seq(C) BY <1>1, <1>2, AppendProperties
<1> HIDE DEF C
<1> QED BY <1>2, <1>3 DEF C, ConnPart, ReadsInv, Polling, KeptInv, ListHonest, OpenAppShown

(* close, after it: what was closed goes at once, and stays away; or one of
   them failed, and the list waits for the next read. *)
LEMMA CloseEndSteps == ASSUME ConnPart, NEW k \in DOMAIN closes, CloseEnds(k) \/ CloseFails(k) PROVE ConnPart'
<1> DEFINE C == [ids : SUBSET Opened, all : BOOLEAN]
<1>1. closes \in Seq(C) /\ IsList(closes) /\ Range(closes) \subseteq C BY SeqIsList DEF ConnPart
<1>2. closes' \in Seq(C) /\ UNCHANGED <<reads, showSystem>>
  <2>1. closes' = RemoveAt(closes, k) /\ UNCHANGED <<reads, showSystem>> BY DEF CloseEnds, CloseFails
  <2>2. IsList(RemoveAt(closes, k)) /\ Range(RemoveAt(closes, k)) \subseteq Range(closes) BY <1>1, RemoveAtList
  <2>3. RemoveAt(closes, k) \in Seq(C) BY <1>1, <2>2, SeqMonotonic DEF IsList
  <2> QED BY <2>1, <2>3
<1>3. closes[k] \in C BY <1>1 DEF Range
<1>4. CASE CloseFails(k)
  <2>1. flow' \in [on : BOOLEAN, open : SUBSET Opened] /\ flow'.on = flow.on /\ UNCHANGED <<watch, live, openApp>>
    BY <1>4 DEF CloseFails, ConnPart
  <2> QED BY <1>2, <2>1 DEF ConnPart, ReadsInv, Polling, KeptInv, ListHonest, OpenAppShown
<1>5. CASE CloseEnds(k)
  <2> DEFINE gone == closes[k].ids
             kept == IF closes[k].all THEN {} ELSE {r \in watch.rows : r.id \notin gone}
  <2>1. /\ flow' = [flow EXCEPT !.open = IF closes[k].all THEN {} ELSE flow.open \ gone]
        /\ live' = [live EXCEPT !.dismissed = live.dismissed \cup gone, !.recent = live.recent \ gone]
        /\ Show(kept, watch.fresh, showSystem)
    BY <1>5 DEF CloseEnds
  <2>2. gone \in SUBSET Opened /\ kept \in SUBSET watch.rows /\ \A r \in kept : r.id \notin gone BY <1>3
  <2> HIDE DEF gone, kept
  <2>3. flow' \in [on : BOOLEAN, open : SUBSET Opened] /\ flow'.on = flow.on BY <2>1 DEF ConnPart
  <2>4. /\ live' \in [rows : SUBSET ConnRows, lastOpen : SUBSET Opened, recent : SUBSET Opened, dismissed : SUBSET Opened]
        /\ live'.dismissed = live.dismissed \cup gone /\ live'.recent = live.recent \ gone /\ live'.rows = live.rows
    BY <2>1, <2>2 DEF ConnPart
  <2>5. KeptInv' BY <2>4 DEF ConnPart, KeptInv
  <2>6. /\ watch' \in [mounted : BOOLEAN, paused : BOOLEAN, visible : BOOLEAN, rows : SUBSET ConnRows, fresh : BOOLEAN]
        /\ watch'.rows = kept /\ watch'.mounted = watch.mounted /\ watch'.visible = watch.visible
        /\ watch'.paused = watch.paused /\ watch'.fresh = watch.fresh
        /\ \A r, q \in kept : r.id = q.id => r = q
        /\ OpenAppShown'
    <3>1. showSystem \in BOOLEAN /\ showSystem' = showSystem BY <1>2 DEF ConnPart
    <3> QED BY <2>1, <2>2, <3>1, FewerRows
  <2>7. ReadsInv' BY <1>2, <2>3, <2>6 DEF ConnPart, ReadsInv, Polling
  <2>8. ListHonest'
    <3>1. ~flow.on /\ watch.mounted => kept = {} BY <2>2 DEF ConnPart, ListHonest
    <3>2. watch.mounted /\ watch.fresh => \A r \in kept : r.closed => r.id \notin live.dismissed \cup gone
      BY <2>2 DEF ConnPart, ListHonest
    <3> QED BY <2>3, <2>4, <2>6, <3>1, <3>2 DEF ListHonest
  <2> QED BY <1>2, <2>3, <2>4, <2>5, <2>6, <2>7, <2>8 DEF ConnPart
<1> QED BY <1>4, <1>5

-----------------------------------------------------------------------------
(* useLogs. *)

(* lines ends all: what LogIsTail says with SubSeq, entry by entry. *)
Ends(lines, all) == /\ Len(lines) <= Len(all)
                    /\ \A i \in 1 .. Len(lines) : lines[i] = all[Len(all) - Len(lines) + i]

(* The two forms say the same. *)
LEMMA EndsIsTail ==
    ASSUME NEW lines \in Seq(Nat), NEW all \in Seq(Nat)
    PROVE  (\E i \in 0 .. Len(all) : lines = SubSeq(all, i + 1, Len(all)) \/ lines = <<>>) <=> Ends(lines, all)
<1> DEFINE n == Len(all)
<1>0. n \in Nat /\ Len(lines) \in Nat /\ DOMAIN lines = 1 .. Len(lines) /\ \A j \in 1 .. n : all[j] \in Nat
  BY LenProperties, ElementOfSeq
<1>1. \A i \in 0 .. n : LET s == SubSeq(all, i + 1, n)
                        IN  s \in Seq(Nat) /\ Len(s) = n - i /\ \A j \in 1 .. n - i : s[j] = all[i + j]
  <2> SUFFICES ASSUME NEW i \in 0 .. n
               PROVE  LET s == SubSeq(all, i + 1, n)
                      IN  s \in Seq(Nat) /\ Len(s) = n - i /\ \A j \in 1 .. n - i : s[j] = all[i + j]
    OBVIOUS
  <2> DEFINE s == SubSeq(all, i + 1, n)
  <2>1. i + 1 \in Int /\ n \in Int /\ \A j \in i + 1 .. n : all[j] \in Nat BY <1>0
  <2> HIDE DEF n
  <2>2. /\ s \in Seq(Nat)
        /\ Len(s) = IF i + 1 <= n THEN n - (i + 1) + 1 ELSE 0
        /\ \A j \in 1 .. n - (i + 1) + 1 : s[j] = all[(i + 1) + j - 1]
    BY <2>1, SubSeqProperties
  <2> HIDE DEF s
  <2>3. Len(s) = n - i BY <1>0, <2>2
  <2>4. \A j \in 1 .. n - i : j \in 1 .. n - (i + 1) + 1 /\ (i + 1) + j - 1 = i + j BY <1>0
  <2>5. \A j \in 1 .. n - i : s[j] = all[i + j] BY <2>2, <2>4
  <2> QED BY <2>2, <2>3, <2>5 DEF s
<1>2. ASSUME NEW i \in 0 .. n, lines = SubSeq(all, i + 1, n) PROVE Ends(lines, all)
  <2>1. Len(lines) = n - i /\ \A j \in 1 .. n - i : lines[j] = all[i + j] BY <1>1, <1>2
  <2>2. n - Len(lines) = i /\ Len(lines) <= n BY <1>0, <2>1
  <2> QED BY <2>1, <2>2 DEF Ends
<1>3. ASSUME lines = <<>> PROVE Ends(lines, all)
  <2>1. Len(lines) = 0 BY <1>3
  <2> QED BY <1>0, <2>1 DEF Ends
<1>4. ASSUME Ends(lines, all) PROVE \E i \in 0 .. n : lines = SubSeq(all, i + 1, n)
  <2> DEFINE i == n - Len(lines)
             s == SubSeq(all, i + 1, n)
  <2>1. i \in 0 .. n /\ n - i = Len(lines) BY <1>0, <1>4 DEF Ends
  <2>2. s \in Seq(Nat) /\ Len(s) = Len(lines) /\ \A j \in 1 .. Len(lines) : s[j] = all[i + j] BY <1>1, <2>1
  <2>3. \A j \in 1 .. Len(lines) : s[j] = lines[j] BY <1>4, <2>2 DEF Ends
  <2> HIDE DEF s
  <2>4. s = lines BY <2>2, <2>3, SeqEqual
  <2> QED BY <2>1, <2>4 DEF s
<1> QED BY <1>0, <1>2, <1>3, <1>4

(* LastOf keeps the newest lines, as many as fit. *)
LEMMA LastOfEnds ==
    ASSUME NEW lines \in Seq(Nat), NEW all \in Seq(Nat), NEW limit \in Nat, Ends(lines, all)
    PROVE  /\ LastOf(lines, limit) \in Seq(Nat) /\ Len(LastOf(lines, limit)) <= limit
           /\ Ends(LastOf(lines, limit), all)
<1> DEFINE n == Len(lines)
           s == SubSeq(lines, n - limit + 1, n)
<1>0. n \in Nat /\ Len(all) \in Nat /\ \A j \in 1 .. n : lines[j] \in Nat BY LenProperties, ElementOfSeq
<1>1. CASE n > limit
  <2>1. n - limit + 1 \in Int /\ n \in Int /\ \A j \in n - limit + 1 .. n : lines[j] \in Nat BY <1>0, <1>1
  <2>2. LastOf(lines, limit) = s BY <1>1 DEF LastOf
  <2> HIDE DEF n
  <2>3. /\ s \in Seq(Nat)
        /\ Len(s) = IF n - limit + 1 <= n THEN n - (n - limit + 1) + 1 ELSE 0
        /\ \A j \in 1 .. n - (n - limit + 1) + 1 : s[j] = lines[(n - limit + 1) + j - 1]
    BY <2>1, SubSeqProperties
  <2> HIDE DEF s
  <2>4. Len(s) = limit BY <1>0, <1>1, <2>3
  <2>5. \A j \in 1 .. limit : /\ j \in 1 .. n - (n - limit + 1) + 1 /\ (n - limit + 1) + j - 1 = n - limit + j
                              /\ n - limit + j \in 1 .. n
                              /\ Len(all) - n + (n - limit + j) = Len(all) - limit + j
    BY <1>0, <1>1
  <2>6. \A j \in 1 .. limit : s[j] = lines[n - limit + j] BY <2>3, <2>5
  <2>7. \A j \in 1 .. limit : lines[n - limit + j] = all[Len(all) - limit + j] BY <2>5 DEF Ends, n
  <2>8. limit <= Len(all) BY <1>0, <1>1 DEF Ends, n
  <2>9. Ends(s, all) BY <2>4, <2>6, <2>7, <2>8 DEF Ends
  <2> QED BY <2>2, <2>3, <2>4, <2>9
<1>2. CASE ~(n > limit)
  <2>1. LastOf(lines, limit) = lines BY <1>2 DEF LastOf
  <2>2. n <= limit BY <1>0, <1>2
  <2> QED BY <2>1, <2>2
<1> QED BY <1>1, <1>2

(* A batch goes to the end of both. *)
LEMMA BatchEnds ==
    ASSUME NEW lines \in Seq(Nat), NEW all \in Seq(Nat), NEW batch \in Seq(Nat), Ends(lines, all)
    PROVE  /\ lines \o batch \in Seq(Nat) /\ all \o batch \in Seq(Nat)
           /\ Ends(lines \o batch, all \o batch)
<1> DEFINE s == lines \o batch
           t == all \o batch
           m == Len(lines)
           n == Len(all)
           b == Len(batch)
<1>1. m \in Nat /\ n \in Nat /\ b \in Nat /\ m <= n /\ \A i \in 1 .. m : lines[i] = all[n - m + i]
  BY LenProperties DEF Ends
<1>2. s \in Seq(Nat) /\ Len(s) = m + b /\ \A i \in 1 .. m + b : s[i] = IF i <= m THEN lines[i] ELSE batch[i - m]
  BY ConcatProperties
<1>3. t \in Seq(Nat) /\ Len(t) = n + b /\ \A i \in 1 .. n + b : t[i] = IF i <= n THEN all[i] ELSE batch[i - n]
  BY ConcatProperties
<1> HIDE DEF s, t, m, n, b
<1>4. ASSUME NEW i \in 1 .. m + b PROVE s[i] = t[(n + b) - (m + b) + i]
  <2>1. (n + b) - (m + b) + i = n - m + i /\ n - m + i \in 1 .. n + b BY <1>1
  <2>2. CASE i <= m
    <3>1. n - m + i <= n /\ i \in 1 .. m BY <1>1, <2>2
    <3> QED BY <1>1, <1>2, <1>3, <2>1, <2>2, <3>1
  <2>3. CASE ~(i <= m)
    <3>1. ~(n - m + i <= n) /\ (n - m + i) - n = i - m BY <1>1, <2>3
    <3> QED BY <1>2, <1>3, <2>1, <2>3, <3>1
  <2> QED BY <2>2, <2>3
<1>5. m + b <= n + b BY <1>1
<1>6. Ends(s, t) BY <1>2, <1>3, <1>4, <1>5 DEF Ends
<1> QED BY <1>2, <1>3, <1>6 DEF s, t

(* The log's part of the invariant in these terms, before a step and after. *)
LEMMA LogIs ==
    ASSUME LogPart
    PROVE  /\ log \in [on : BOOLEAN, limit : Nat, lines : Seq(Nat), all : Seq(Nat)]
           /\ Len(log.lines) <= log.limit /\ Ends(log.lines, log.all) /\ (~log.on => log.lines = <<>>)
<1>1. log.lines \in Seq(Nat) /\ log.all \in Seq(Nat) BY DEF LogPart
<1>2. Ends(log.lines, log.all) BY <1>1, EndsIsTail DEF LogPart, LogIsTail
<1> QED BY <1>2 DEF LogPart, LogIsTail

(* The same, the other way round. *)
LEMMA LogNext ==
    ASSUME log' \in [on : BOOLEAN, limit : Nat, lines : Seq(Nat), all : Seq(Nat)],
           Len(log'.lines) <= log'.limit, Ends(log'.lines, log'.all), ~log'.on => log'.lines = <<>>
    PROVE  LogPart'
<1>1. log'.lines \in Seq(Nat) /\ log'.all \in Seq(Nat) OBVIOUS
<1>2. \E i \in 0 .. Len(log'.all) : log'.lines = SubSeq(log'.all, i + 1, Len(log'.all)) \/ log'.lines = <<>>
  BY <1>1, EndsIsTail
<1> QED BY <1>2 DEF LogPart, LogIsTail

(* No line is the end of any log. *)
LEMMA NoneEnds == ASSUME NEW all \in Seq(Nat) PROVE <<>> \in Seq(Nat) /\ Len(<<>>) = 0 /\ Ends(<<>>, all)
<1>1. Len(<<>>) = 0 /\ <<>> \in Seq(Nat) /\ Len(all) \in Nat BY LenProperties
<1> QED BY <1>1 DEF Ends

(* append, the limit, clear and the switch of useLogs. *)
LEMMA LogSteps ==
    ASSUME LogPart,
           \/ \E n \in 1..3 : AppendLog(n)
           \/ \E limit \in 1..3 : ChangeLimit(limit)
           \/ ClearLog
           \/ \E on \in BOOLEAN : EnableLog(on)
    PROVE  LogPart'
<1> DEFINE L == [on : BOOLEAN, limit : Nat, lines : Seq(Nat), all : Seq(Nat)]
<1>1. /\ log \in L /\ Len(log.lines) <= log.limit /\ Ends(log.lines, log.all) /\ (~log.on => log.lines = <<>>)
  BY LogIs
<1>2. log.lines \in Seq(Nat) /\ log.all \in Seq(Nat) /\ log.limit \in Nat /\ Len(log.all) \in Nat BY <1>1, LenProperties
<1>3. ASSUME NEW n \in 1..3, AppendLog(n) PROVE LogPart'
  <2> DEFINE batch == [i \in 1..n |-> Len(log.all) + i]
             lines == LastOf(log.lines \o batch, log.limit)
             all == log.all \o batch
  <2>1. batch \in Seq(Nat)
    <3>1. batch \in [1..n -> Nat] /\ n \in Nat BY <1>2
    <3> QED BY <3>1, SeqDef
  <2>2. log' = [log EXCEPT !.lines = IF log.on THEN lines ELSE log.lines, !.all = IF log.on THEN all ELSE log.all]
    BY <1>3 DEF AppendLog
  <2> HIDE DEF batch
  <2>3. all \in Seq(Nat) /\ log.lines \o batch \in Seq(Nat) /\ Ends(log.lines \o batch, all) BY <1>1, <1>2, <2>1, BatchEnds
  <2> HIDE DEF all
  <2>4. lines \in Seq(Nat) /\ Len(lines) <= log.limit /\ Ends(lines, all) BY <1>2, <2>3, LastOfEnds
  <2> HIDE DEF lines
  <2>5. CASE log.on
    <3>1. log' = [log EXCEPT !.lines = lines, !.all = all] BY <2>2, <2>5
    <3>2. log' \in L /\ log'.lines = lines /\ log'.all = all /\ log'.limit = log.limit /\ log'.on = log.on
      BY <1>1, <2>3, <2>4, <3>1
    <3> QED BY <2>4, <2>5, <3>2, LogNext
  <2>6. CASE ~log.on
    <3>1. log' = log BY <1>1, <2>2, <2>6
    <3> QED BY <1>1, <3>1, LogNext
  <2> QED BY <2>5, <2>6
<1>4. ASSUME NEW limit \in 1..3, ChangeLimit(limit) PROVE LogPart'
  <2> DEFINE lines == LastOf(log.lines, limit)
  <2>1. limit \in Nat /\ log' = [log EXCEPT !.limit = limit, !.lines = lines] BY <1>4 DEF ChangeLimit
  <2>2. lines \in Seq(Nat) /\ Len(lines) <= limit /\ Ends(lines, log.all) BY <1>1, <1>2, <2>1, LastOfEnds
  <2>3. ~log.on => lines = <<>>
    <3>1. Len(<<>>) = 0 /\ ~(0 > limit) BY <2>1
    <3> QED BY <1>1, <3>1 DEF LastOf
  <2> HIDE DEF lines
  <2>4. log' \in L /\ log'.lines = lines /\ log'.all = log.all /\ log'.limit = limit /\ log'.on = log.on
    BY <1>1, <2>1, <2>2
  <2> QED BY <2>2, <2>3, <2>4, LogNext
<1>5. ASSUME ClearLog \/ \E on \in BOOLEAN : EnableLog(on) PROVE LogPart'
  <2>1. /\ log' \in L /\ log'.all = log.all /\ log'.limit = log.limit
        /\ log'.lines \in {log.lines, <<>>} /\ (~log'.on => log'.lines = <<>>)
    <3>1. <<>> \in Seq(Nat) BY NoneEnds
    <3>2. CASE ClearLog BY <1>1, <3>1, <3>2 DEF ClearLog
    <3>3. ASSUME NEW on \in BOOLEAN, EnableLog(on)
          PROVE  /\ log' \in L /\ log'.all = log.all /\ log'.limit = log.limit
                 /\ log'.lines \in {log.lines, <<>>} /\ (~log'.on => log'.lines = <<>>)
      BY <1>1, <3>1, <3>3 DEF EnableLog
    <3> QED BY <1>5, <3>2, <3>3
  <2>2. <<>> \in Seq(Nat) /\ Len(<<>>) <= log.limit /\ Ends(<<>>, log.all) BY <1>2, NoneEnds
  <2> QED BY <1>1, <2>1, <2>2, LogNext
<1> QED BY <1>3, <1>4, <1>5

-----------------------------------------------------------------------------
(* At the start nothing is shown and nothing was read. *)
LEMMA ActivityStart == ActivityInit => ActivityInv
<1> SUFFICES ASSUME ActivityInit PROVE ConnPart /\ LogPart BY ActivityParts
<1>1. /\ flow \in [on : BOOLEAN, open : SUBSET Opened] /\ flow.on
      /\ watch \in [mounted : BOOLEAN, paused : BOOLEAN, visible : BOOLEAN, rows : SUBSET ConnRows, fresh : BOOLEAN]
      /\ watch.rows = {} /\ live.rows = {} /\ live.recent = {}
      /\ live \in [rows : SUBSET ConnRows, lastOpen : SUBSET Opened, recent : SUBSET Opened, dismissed : SUBSET Opened]
      /\ reads = <<>> /\ closes = <<>> /\ showSystem \in BOOLEAN
  BY DEF ActivityInit
<1>2. ConnPart
  <2>1. \A S : <<>> \in Seq(S) BY EmptySeq
  <2>2. DOMAIN reads = {} BY <1>1
  <2> QED BY <1>1, <2>1, <2>2 DEF ConnPart, ReadsInv, KeptInv, ListHonest, OpenAppShown
<1>3. LogPart
  <2>1. log = [on |-> TRUE, limit |-> 2, lines |-> <<>>, all |-> <<>>] BY DEF ActivityInit
  <2>2. <<>> \in Seq(Nat) /\ Len(<<>>) = 0 BY EmptySeq
  <2>3. \E i \in 0 .. Len(<<>>) : <<>> = SubSeq(<<>>, i + 1, Len(<<>>)) \/ <<>> = <<>> BY <2>2
  <2> QED BY <2>1, <2>2, <2>3 DEF LogPart, LogIsTail
<1> QED BY <1>2, <1>3

(* Every step of the Activity screens keeps ActivityInv, handler by handler. *)
LEMMA ActivityStep == ActivityInv /\ [ActivityNext]_activityVars => ActivityInv'
<1> SUFFICES ASSUME ActivityInv, [ActivityNext]_activityVars PROVE ConnPart' /\ LogPart' BY ActivityParts
<1>0. ConnPart /\ LogPart BY ActivityParts
<1>a. UNCHANGED log => LogPart' BY <1>0 DEF LogPart, LogIsTail
<1>1. CASE Poll BY <1>0, <1>1, <1>a, PollStep DEF Poll
<1>2. CASE \E k \in DOMAIN reads : ReadEnds(k) BY <1>0, <1>2, <1>a, ReadEndsStep DEF ReadEnds
<1>3. CASE \E on \in BOOLEAN : Tunnel(on) BY <1>0, <1>3, <1>a, TunnelStep DEF Tunnel
<1>4. CASE \E id \in DOMAIN ProgramOf : Traffic(id) BY <1>0, <1>4, <1>a, TrafficStep DEF Traffic, Opened
<1>5. CASE OpenScreen BY <1>0, <1>5, <1>a, OpenScreenStep DEF OpenScreen
<1>6. CASE LeaveScreen \/ Pause BY <1>0, <1>6, <1>a, LeaveSteps DEF LeaveScreen, Pause
<1>7. CASE SetShowSystem BY <1>0, <1>7, <1>a, SetShowSystemStep DEF SetShowSystem
<1>8. CASE \E app \in GroupRows(watch.rows, showSystem) : SetOpenApp(app)
  BY <1>0, <1>8, <1>a, SetOpenAppStep DEF SetOpenApp
<1>9. CASE CloseApp \/ CloseAll \/ \E r \in watch.rows : openApp # NoApp /\ InOpenApp(r) /\ ~r.closed /\ Close({r.id}, FALSE)
  <2>1. \A r \in watch.rows : r.id \in Opened BY <1>0 DEF ConnPart, ConnRows
  <2>2. \A rs \in SUBSET watch.rows : {r.id : r \in rs} \in SUBSET Opened BY <2>1
  <2>3. PICK ids \in SUBSET Opened, all \in BOOLEAN : Close(ids, all)
    <3>1. CASE CloseApp
      <4>1. {q \in watch.rows : ~q.closed /\ InOpenApp(q)} \in SUBSET watch.rows OBVIOUS
      <4> QED BY <2>2, <3>1, <4>1 DEF CloseApp
    <3>2. CASE CloseAll BY <2>2, <3>2 DEF CloseAll
    <3>3. ASSUME NEW r \in watch.rows, Close({r.id}, FALSE) PROVE \E ids \in SUBSET Opened, all \in BOOLEAN : Close(ids, all)
      <4>1. {r.id} \in SUBSET Opened BY <2>1
      <4> QED BY <3>3, <4>1
    <3> QED BY <1>9, <3>1, <3>2, <3>3
  <2> QED BY <1>0, <1>a, <2>3, CloseStep DEF Close
<1>10. CASE \E k \in DOMAIN closes : CloseEnds(k) \/ CloseFails(k)
  BY <1>0, <1>10, <1>a, CloseEndSteps DEF CloseEnds, CloseFails
<1>11. CASE \/ OpenStatistics \/ LeaveStatistics \/ Load \/ UsageGrows \/ ClearStatistics \/ Cleared \/ ClearFails
            \/ \E days \in Periods : SetDays(days)
            \/ \E k \in DOMAIN stats.calls : UsageRead(k) \/ UsageFails(k)
  <2>1. UNCHANGED connVars /\ UNCHANGED log
    BY <1>11 DEF OpenStatistics, LeaveStatistics, Load, UsageGrows, ClearStatistics, Cleared, ClearFails,
                 SetDays, UsageRead, UsageFails
  <2> QED BY <1>0, <1>a, <2>1, ConnAlone
<1>12. CASE \/ \E n \in 1..3 : AppendLog(n)
            \/ \E limit \in 1..3 : ChangeLimit(limit)
            \/ ClearLog
            \/ \E on \in BOOLEAN : EnableLog(on)
  <2>1. UNCHANGED connVars BY <1>12 DEF AppendLog, ChangeLimit, ClearLog, EnableLog
  <2> QED BY <1>0, <1>12, <2>1, ConnAlone, LogSteps
<1>13. CASE UNCHANGED activityVars BY <1>0, <1>13, <1>a, ConnAlone DEF activityVars
<1> QED BY <1>1, <1>2, <1>3, <1>4, <1>5, <1>6, <1>7, <1>8, <1>9, <1>10, <1>11, <1>12, <1>13 DEF ActivityNext

(* The inductive invariant of the Activity screens, for any programs, any
   number of reads under way at once and any number of steps. *)
THEOREM ActivityInvariance == ActivitySpec => []ActivityInv
BY ActivityStart, ActivityStep, PTL DEF ActivitySpec

(* The list of connections is honest, the program opened has something to show
   and the log is the tail of what it was given, however reads, closes, clears,
   disconnects and visits to other screens interleave (ConnectionsView.tsx,
   use-logs.ts). *)
THEOREM ActivityHoldsAlways == ActivitySpec => []ActivityHolds
<1>1. ActivityInv => ActivityHolds BY DEF ActivityInv
<1> QED BY <1>1, ActivityInvariance, PTL

-----------------------------------------------------------------------------
(* The card lists. *)

(* A list as a set, and what is left of it. *)
LEMMA RemainingList ==
    ASSUME NEW s, IsList(s), NEW keys
    PROVE  IsList(Remaining(s, keys)) /\ ToSet(Remaining(s, keys)) = ToSet(s) \ keys
<1> DEFINE places == {i \in DOMAIN s : s[i] \notin keys}
<1>1. Len(s) \in Nat /\ DOMAIN s = 1 .. Len(s) BY ListFacts
<1>2. IsList(KeepAt(s, places)) /\ Range(KeepAt(s, places)) = {s[i] : i \in places \cap (1 .. Len(s))} BY KeepAtList
<1>3. {s[i] : i \in places \cap (1 .. Len(s))} = ToSet(s) \ keys BY <1>1 DEF ToSet
<1>4. ToSet(KeepAt(s, places)) = Range(KeepAt(s, places)) BY DEF ToSet, Range
<1> QED BY <1>2, <1>3, <1>4 DEF Remaining

(* A step that only picks: it changes neither the mount nor busy. *)
LEMMA PickStep ==
    ASSUME PicksInv, UNCHANGED <<screen, rows, filter, bulk, folds>>,
           DOMAIN pick' = PickFields, pick'.mount = pick.mount, pick'.busy = pick.busy,
           pick'.selecting \in BOOLEAN, pick'.confirm \in BOOLEAN,
           pick'.picked \subseteq Present, ~pick'.selecting => pick'.picked = {}
    PROVE  PicksInv'
<1>1. ListTypes' BY DEF PicksInv, ListTypes
<1>2. BusyInv' BY DEF PicksInv, BusyInv
<1>3. PicksAreCurrent' BY DEF PicksAreCurrent, Present
<1>4. FoldsAreOwn' BY DEF PicksInv, FoldsAreOwn
<1> QED BY <1>1, <1>2, <1>3, <1>4 DEF PicksInv

(* handleCard: the card, or everything from the anchor to it. *)
LEMMA HandleCardSteps ==
    ASSUME PicksInv, NEW key, NEW range \in BOOLEAN, HandleCard(key, range) \/ HandleSourceCard(key, range)
    PROVE  PicksInv'
<1>1. /\ key \in Cards /\ pick' = Picked(pick, key, range) /\ UNCHANGED <<screen, rows, filter, bulk, folds>>
  BY DEF HandleCard, HandleSourceCard, Clickable
<1>2. Cards \subseteq Present BY DEF Cards, Present, ShownServers
<1>3. DOMAIN pick = PickFields /\ pick.confirm \in BOOLEAN /\ pick.picked \subseteq Present
  BY DEF PicksInv, ListTypes, PicksAreCurrent
<1>4. PICK more \in SUBSET Cards :
        \/ pick' = [pick EXCEPT !.selecting = TRUE, !.picked = pick.picked \cup more]
        \/ pick' = [pick EXCEPT !.selecting = TRUE, !.anchor = key,
                                !.picked = IF key \in pick.picked THEN pick.picked \ {key} ELSE pick.picked \cup {key}]
  BY <1>1 DEF Picked
<1>5. /\ DOMAIN pick' = PickFields /\ pick'.mount = pick.mount /\ pick'.busy = pick.busy
      /\ pick'.selecting /\ pick'.selecting \in BOOLEAN /\ pick'.confirm \in BOOLEAN
      /\ pick'.picked \subseteq Present
  <2>1. CASE pick' = [pick EXCEPT !.selecting = TRUE, !.picked = pick.picked \cup more]
    BY <1>2, <1>3, <2>1 DEF PickFields
  <2> DEFINE turned == IF key \in pick.picked THEN pick.picked \ {key} ELSE pick.picked \cup {key}
  <2>2. CASE pick' = [pick EXCEPT !.selecting = TRUE, !.anchor = key, !.picked = turned]
    <3>1. turned \subseteq Present BY <1>1, <1>2, <1>3
    <3> HIDE DEF turned
    <3> QED BY <1>3, <2>2, <3>1 DEF PickFields
  <2> QED BY <1>4, <2>1, <2>2
<1> QED BY <1>1, <1>5, PickStep

(* The toolbar and the delete dialog, as far as they only pick. *)
LEMMA ToolbarSteps ==
    ASSUME PicksInv,
           PickAll \/ PickAllSources \/ StartSelecting \/ CancelSelecting \/ ConfirmDelete \/ CancelDelete
    PROVE  PicksInv'
<1>1. UNCHANGED <<screen, rows, filter, bulk, folds>>
  BY DEF PickAll, PickAllSources, StartSelecting, CancelSelecting, ConfirmDelete, CancelDelete
<1>2. Cards \subseteq Present BY DEF Cards, Present, ShownServers
<1>3. /\ DOMAIN pick = PickFields /\ pick.confirm \in BOOLEAN /\ pick.selecting \in BOOLEAN
      /\ pick.picked \subseteq Present /\ (~pick.selecting => pick.picked = {})
  BY DEF PicksInv, ListTypes, PicksAreCurrent
<1>4. CASE PickAll \/ PickAllSources
  <2>1. pick.selecting /\ \E all \in {{}, Cards} : pick' = [pick EXCEPT !.picked = all]
    BY <1>4 DEF PickAll, PickAllSources
  <2>2. /\ DOMAIN pick' = PickFields /\ pick'.mount = pick.mount /\ pick'.busy = pick.busy
        /\ pick'.selecting = pick.selecting /\ pick'.confirm = pick.confirm /\ pick'.picked \subseteq Present
    BY <1>2, <1>3, <2>1 DEF PickFields
  <2> QED BY <1>1, <1>3, <2>1, <2>2, PickStep
<1>5. CASE StartSelecting \/ ConfirmDelete \/ CancelDelete
  <2>1. /\ \/ pick' = [pick EXCEPT !.selecting = TRUE]
           \/ \E on \in BOOLEAN : pick' = [pick EXCEPT !.confirm = on]
    BY <1>5 DEF StartSelecting, ConfirmDelete, CancelDelete
  <2>2. /\ DOMAIN pick' = PickFields /\ pick'.mount = pick.mount /\ pick'.busy = pick.busy
        /\ pick'.selecting \in BOOLEAN /\ (pick.selecting => pick'.selecting)
        /\ pick'.confirm \in BOOLEAN /\ pick'.picked = pick.picked
    BY <1>3, <2>1 DEF PickFields
  <2> QED BY <1>1, <1>3, <2>2, PickStep
<1>6. CASE CancelSelecting
  <2>1. pick' = [pick EXCEPT !.selecting = FALSE, !.picked = {}, !.anchor = ""]
    BY <1>6 DEF CancelSelecting, StopSelecting
  <2>2. /\ DOMAIN pick' = PickFields /\ pick'.mount = pick.mount /\ pick'.busy = pick.busy
        /\ pick'.selecting \in BOOLEAN /\ pick'.confirm \in BOOLEAN /\ pick'.picked = {}
    BY <1>3, <2>1 DEF PickFields
  <2> QED BY <1>1, <2>2, PickStep
<1> QED BY <1>4, <1>5, <1>6

(* One more operation under way: this mount's, if it was not busy, or one that
   nothing waits for. *)
LEMMA WorkStarts ==
    ASSUME PicksInv, UNCHANGED <<screen, rows, filter, folds>>, NEW task, bulk' = Append(bulk, task),
           \/ ~pick.busy /\ pick' = [pick EXCEPT !.busy = TRUE] /\ task.mount = pick.mount
           \/ task.mount = 0 /\ pick' = pick
    PROVE  PicksInv'
<1>0. ListTypes /\ BusyInv /\ PicksAreCurrent /\ FoldsAreOwn BY DEF PicksInv
<1>1. /\ IsList(bulk) /\ Len(bulk) \in Nat /\ DOMAIN bulk = 1 .. Len(bulk) /\ pick.mount \in Nat /\ pick.mount # 0
  BY <1>0, ListFacts DEF ListTypes
<1>2. /\ IsList(bulk') /\ Len(bulk') = Len(bulk) + 1 /\ bulk'[Len(bulk) + 1] = task
      /\ \A i \in 1 .. Len(bulk) : bulk'[i] = bulk[i]
  BY <1>1, AppendList
<1>3. DOMAIN bulk' = 1 .. Len(bulk) + 1 BY <1>1, <1>2, ListFacts
<1>4. /\ DOMAIN pick' = PickFields /\ pick'.mount = pick.mount /\ pick'.selecting = pick.selecting
      /\ pick'.picked = pick.picked /\ pick'.confirm = pick.confirm /\ pick'.busy \in BOOLEAN
      /\ (pick.busy => pick'.busy) /\ (task.mount = pick.mount => pick'.busy /\ ~pick.busy)
      /\ task.mount \in Nat /\ task.mount <= pick.mount
  <2>1. DOMAIN pick = PickFields /\ pick.busy \in BOOLEAN BY <1>0 DEF ListTypes
  <2>2. CASE ~pick.busy /\ pick' = [pick EXCEPT !.busy = TRUE] /\ task.mount = pick.mount
    <3>1. /\ DOMAIN pick' = PickFields /\ pick'.mount = pick.mount /\ pick'.selecting = pick.selecting
          /\ pick'.picked = pick.picked /\ pick'.confirm = pick.confirm /\ pick'.busy = TRUE
      BY <2>1, <2>2 DEF PickFields
    <3> QED BY <1>1, <2>2, <3>1
  <2>3. CASE task.mount = 0 /\ pick' = pick BY <1>1, <2>1, <2>3
  <2> QED BY <2>2, <2>3
<1>5. \A k \in DOMAIN bulk' : (k \in DOMAIN bulk /\ bulk'[k] = bulk[k]) \/ (k = Len(bulk) + 1 /\ bulk'[k] = task)
  BY <1>1, <1>2, <1>3
<1>6. ListTypes' BY <1>0, <1>2, <1>4, <1>5 DEF ListTypes
<1>7. BusyInv' BY <1>0, <1>4, <1>5 DEF BusyInv
<1>8. PicksAreCurrent' BY <1>0, <1>4 DEF PicksAreCurrent, Present
<1>9. FoldsAreOwn' BY <1>0 DEF FoldsAreOwn
<1> QED BY <1>6, <1>7, <1>8, <1>9 DEF PicksInv

(* run, the dialog's Delete, and the star on a card. *)
LEMMA WorkSteps ==
    ASSUME PicksInv, BulkServers \/ BulkSources \/ BulkDelete \/ \E key \in Cards : ToggleStar(key)
    PROVE  PicksInv'
<1>1. CASE BulkServers \/ BulkSources \/ BulkDelete
  <2>1. UNCHANGED <<screen, rows, filter, folds>> BY <1>1 DEF BulkServers, BulkSources, BulkDelete
  <2>2. /\ ~pick.busy /\ pick' = [pick EXCEPT !.busy = TRUE]
        /\ \E what : bulk' = Append(bulk, [what |-> what, keys |-> pick.picked, mount |-> pick.mount])
    BY <1>1 DEF BulkServers, BulkSources, BulkDelete, Run
  <2>3. PICK task : bulk' = Append(bulk, task) /\ task.mount = pick.mount BY <2>2
  <2> QED BY <2>1, <2>2, <2>3, WorkStarts
<1>2. ASSUME NEW key \in Cards, ToggleStar(key) PROVE PicksInv'
  <2>1. UNCHANGED <<screen, rows, filter, folds, pick>> BY <1>2 DEF ToggleStar
  <2>2. PICK task : bulk' = Append(bulk, task) /\ task.mount = 0 BY <1>2 DEF ToggleStar
  <2> QED BY <2>1, <2>2, WorkStarts
<1> QED BY <1>1, <1>2

(* The lists lose some cards, and the view, if it is there, prunes its picks. *)
LEMMA FewerCards ==
    ASSUME PicksInv, NEW gone, UNCHANGED <<screen, filter, folds>>, DOMAIN rows' = DOMAIN rows,
           \A l \in DOMAIN rows : IsList(rows'[l]),
           Present' = Present \ gone, pick'.picked \subseteq pick.picked \ gone,
           ~pick'.selecting => pick'.picked = {}
    PROVE  PicksAreCurrent' /\ FoldsAreOwn'
<1>1. pick.picked \subseteq Present /\ FoldsAreOwn BY DEF PicksInv, PicksAreCurrent
<1>2. FoldsAreOwn' BY <1>1 DEF FoldsAreOwn
<1> QED BY <1>1, <1>2 DEF PicksAreCurrent

(* The work ends: if it was this mount's, no other of this mount is left. *)
LEMMA WorkEnds ==
    ASSUME PicksInv, NEW k \in DOMAIN bulk, bulk' = RemoveAt(bulk, k), pick'.mount = pick.mount,
           pick'.busy = IF bulk[k].mount # pick.mount THEN pick.busy ELSE FALSE
    PROVE  BusyInv' /\ IsList(bulk') /\ \A i \in DOMAIN bulk' : bulk'[i].mount \in Nat
<1>0. IsList(bulk) /\ BusyInv /\ pick.busy \in BOOLEAN /\ \A i \in DOMAIN bulk : bulk[i].mount \in Nat
  BY DEF PicksInv, ListTypes
<1> DEFINE n == Len(bulk)
<1>1. n \in Nat /\ DOMAIN bulk = 1 .. n BY <1>0, ListFacts
<1>2. /\ IsList(bulk') /\ Len(bulk') = n - 1
      /\ \A i \in 1 .. n - 1 : bulk'[i] = IF i < k THEN bulk[i] ELSE bulk[i + 1]
  BY <1>0, RemoveAtList
<1>3. DOMAIN bulk' = 1 .. n - 1 BY <1>2, ListFacts
<1> DEFINE was(i) == IF i < k THEN i ELSE i + 1
<1>4. /\ \A i \in DOMAIN bulk' : was(i) \in DOMAIN bulk /\ was(i) # k /\ bulk'[i] = bulk[was(i)]
      /\ \A i, j \in DOMAIN bulk' : was(i) = was(j) => i = j
  BY <1>1, <1>2, <1>3
<1> HIDE DEF was
<1>5. \A i \in DOMAIN bulk' : bulk'[i].mount = pick.mount => pick'.busy
  <2> SUFFICES ASSUME NEW i \in DOMAIN bulk', bulk'[i].mount = pick.mount PROVE pick'.busy OBVIOUS
  <2>1. was(i) \in DOMAIN bulk /\ was(i) # k /\ bulk[was(i)].mount = pick.mount BY <1>4
  <2>2. pick.busy /\ bulk[k].mount # pick.mount BY <1>0, <2>1 DEF BusyInv
  <2> QED BY <1>0, <2>2
<1>6. \A i \in DOMAIN bulk' : bulk'[i].mount \in Nat /\ bulk'[i].mount <= pick.mount BY <1>0, <1>4 DEF BusyInv
<1>7. \A i, j \in DOMAIN bulk' : bulk'[i].mount = pick.mount /\ bulk'[j].mount = pick.mount => i = j
  BY <1>0, <1>4 DEF BusyInv
<1> QED BY <1>2, <1>5, <1>6, <1>7 DEF BusyInv

(* run, after its await: the list, the stars and busy. *)
LEMMA BulkEndsStep == ASSUME PicksInv, NEW k \in DOMAIN bulk, BulkEnds(k) PROVE PicksInv'
<1> DEFINE task == bulk[k]
           rest == [l \in DOMAIN rows |-> Remaining(rows[l], task.keys)]
           done == IF task.mount # pick.mount THEN pick ELSE [pick EXCEPT !.busy = FALSE]
           over == IF task.mount # pick.mount THEN pick ELSE [StopSelecting(done) EXCEPT !.confirm = FALSE]
<1>0. ListTypes /\ BusyInv /\ PicksAreCurrent /\ FoldsAreOwn BY DEF PicksInv
<1>1. bulk' = RemoveAt(bulk, k) /\ UNCHANGED <<screen, filter, folds>> BY DEF BulkEnds
<1>2. \/ rows' = rest /\ pick' = Pruned(over, Present \ task.keys)
      \/ rows' = rows /\ pick' = done
  BY DEF BulkEnds
<1>3. DOMAIN pick = PickFields /\ pick.busy \in BOOLEAN /\ pick.selecting \in BOOLEAN /\ pick.confirm \in BOOLEAN
  BY <1>0 DEF ListTypes
<1>4. /\ DOMAIN done = PickFields /\ done.mount = pick.mount /\ done.selecting = pick.selecting
      /\ done.picked = pick.picked /\ done.confirm = pick.confirm
      /\ done.busy = IF task.mount # pick.mount THEN pick.busy ELSE FALSE
  BY <1>3 DEF PickFields
<1>5. /\ DOMAIN over = PickFields /\ over.mount = pick.mount /\ over.selecting \in BOOLEAN /\ over.confirm \in BOOLEAN
      /\ over.picked \subseteq pick.picked /\ (~over.selecting => over.picked \in {pick.picked, {}})
      /\ (~over.selecting => over.picked = {} \/ ~pick.selecting)
      /\ over.busy = done.busy
  <2> HIDE DEF task
  <2>1. CASE task.mount # pick.mount BY <1>3, <2>1
  <2>2. CASE task.mount = pick.mount
    <3>1. over = [StopSelecting(done) EXCEPT !.confirm = FALSE] BY <2>2
    <3> HIDE DEF over, done
    <3>2. over = [[done EXCEPT !.selecting = FALSE, !.picked = {}, !.anchor = ""] EXCEPT !.confirm = FALSE]
      BY <3>1 DEF StopSelecting
    <3> QED BY <1>4, <3>2 DEF PickFields
  <2> QED BY <2>1, <2>2
<1>6. \A l \in DOMAIN rows : IsList(rows[l]) BY <1>0 DEF ListTypes
<1> HIDE DEF done, over
<1>7. CASE rows' = rest /\ pick' = Pruned(over, Present \ task.keys)
  <2>1. pick' = [over EXCEPT !.picked = over.picked \cap (Present \ task.keys)] BY <1>7 DEF Pruned
  <2>2. /\ DOMAIN pick' = PickFields /\ pick'.mount = pick.mount /\ pick'.busy = done.busy
        /\ pick'.selecting = over.selecting /\ pick'.confirm = over.confirm
        /\ pick'.picked = over.picked \cap (Present \ task.keys)
    BY <1>5, <2>1 DEF PickFields
  <2>3. \A l \in DOMAIN rows : IsList(rest[l]) /\ ToSet(rest[l]) = ToSet(rows[l]) \ task.keys
    <3> HIDE DEF task
    <3> QED BY <1>6, RemainingList
  <2>4. DOMAIN rows' = DOMAIN rows /\ \A l \in DOMAIN rows : IsList(rows'[l]) /\ ToSet(rows'[l]) = ToSet(rows[l]) \ task.keys
    BY <1>7, <2>3
  <2> HIDE DEF rest, task
  <2>5. Present' = Present \ task.keys
    <3>1. "sources" \in DOMAIN rows /\ filter.domain \in DOMAIN rows BY <1>0 DEF ListTypes
    <3> QED BY <1>1, <2>4, <3>1 DEF Present
  <2>6. ~pick'.selecting => pick'.picked = {} BY <1>0, <1>5, <2>2 DEF PicksAreCurrent
  <2>7. pick'.picked \subseteq pick.picked \ task.keys BY <1>5, <2>2
  <2>8. PicksAreCurrent' /\ FoldsAreOwn' BY <1>1, <2>4, <2>5, <2>6, <2>7, FewerCards
  <2>9. BusyInv' /\ IsList(bulk') /\ \A i \in DOMAIN bulk' : bulk'[i].mount \in Nat
    BY <1>1, <1>4, <2>2, WorkEnds DEF task
  <2>10. done.busy \in BOOLEAN BY <1>3, <1>4
  <2>11. ListTypes' BY <1>0, <1>1, <1>5, <2>2, <2>4, <2>9, <2>10 DEF ListTypes
  <2> QED BY <2>8, <2>9, <2>11 DEF PicksInv
<1>8. CASE rows' = rows /\ pick' = done
  <2>1. BusyInv' /\ IsList(bulk') /\ \A i \in DOMAIN bulk' : bulk'[i].mount \in Nat BY <1>1, <1>4, <1>8, WorkEnds
  <2>2. done.busy \in BOOLEAN BY <1>3, <1>4
  <2> HIDE DEF task, rest
  <2>3. ListTypes' BY <1>0, <1>1, <1>3, <1>4, <1>8, <2>1, <2>2 DEF ListTypes
  <2>4. PicksAreCurrent' /\ FoldsAreOwn' BY <1>0, <1>1, <1>4, <1>8 DEF PicksAreCurrent, Present, FoldsAreOwn
  <2> QED BY <2>1, <2>3, <2>4 DEF PicksInv
<1> QED BY <1>2, <1>7, <1>8

(* A refresh, or a delete from elsewhere. *)
LEMMA ListChangesStep ==
    ASSUME PicksInv, NEW l \in DOMAIN rows, NEW gone, ListChanges(l, gone) PROVE PicksInv'
<1> DEFINE own == IF screen = "servers" THEN filter.domain ELSE "sources"
           lost == IF l = own THEN {gone} ELSE {}
           rest == Remaining(rows[l], {gone})
<1>0. ListTypes /\ BusyInv /\ PicksAreCurrent /\ FoldsAreOwn BY DEF PicksInv
<1>1. /\ rows' = [rows EXCEPT ![l] = rest] /\ UNCHANGED <<screen, filter, bulk, folds>>
      /\ pick' = [pick EXCEPT !.picked = pick.picked \cap (Present \ lost)]
  BY DEF ListChanges, Pruned
<1>2. IsList(rest) /\ ToSet(rest) = ToSet(rows[l]) \ {gone} BY <1>0, RemainingList DEF ListTypes
<1> HIDE DEF rest
<1>3. /\ DOMAIN rows' = DOMAIN rows /\ \A m \in DOMAIN rows : IsList(rows'[m])
      /\ \A m \in DOMAIN rows : rows'[m] = IF m = l THEN rest ELSE rows[m]
  BY <1>0, <1>1, <1>2 DEF ListTypes
<1>4. own \in DOMAIN rows /\ Present = ToSet(rows[own]) /\ Present' = ToSet(rows'[own])
  BY <1>0, <1>1 DEF ListTypes, Present
<1>5. Present' = Present \ lost BY <1>2, <1>3, <1>4
<1> HIDE DEF own, lost
<1>6. /\ DOMAIN pick' = PickFields /\ pick'.mount = pick.mount /\ pick'.busy = pick.busy
      /\ pick'.selecting = pick.selecting /\ pick'.confirm = pick.confirm
      /\ pick'.picked = pick.picked \cap (Present \ lost)
  BY <1>0, <1>1 DEF ListTypes, PickFields
<1>7. ~pick'.selecting => pick'.picked = {} BY <1>0, <1>6 DEF PicksAreCurrent
<1>8. pick'.picked \subseteq pick.picked \ lost BY <1>6
<1>9. PicksAreCurrent' /\ FoldsAreOwn' BY <1>1, <1>3, <1>5, <1>7, <1>8, FewerCards
<1>10. BusyInv' BY <1>0, <1>1, <1>6 DEF BusyInv
<1>11. ListTypes' BY <1>0, <1>1, <1>3, <1>6 DEF ListTypes
<1> QED BY <1>9, <1>10, <1>11 DEF PicksInv

(* Another subscription: the picks of the list that was shown are dropped, and
   its own folds are loaded. *)
LEMMA DomainChangesStep == ASSUME PicksInv, NEW d, DomainChanges(d) PROVE PicksInv'
<1>0. ListTypes /\ BusyInv /\ PicksAreCurrent /\ FoldsAreOwn BY DEF PicksInv
<1>1. /\ d \in DOMAIN rows \ {"sources"} /\ UNCHANGED <<screen, rows, bulk>>
      /\ filter' = [filter EXCEPT !.domain = d]
      /\ pick' = IF screen = "servers" THEN [pick EXCEPT !.selecting = FALSE, !.picked = {}] ELSE pick
      /\ folds' = [folds EXCEPT !.shown = folds.stored[d]]
  BY DEF DomainChanges, LoadCollapsed
<1>2. DOMAIN filter' = DOMAIN filter /\ filter'.domain = d BY <1>0, <1>1 DEF ListTypes
<1>3. DOMAIN folds' = DOMAIN folds /\ folds'.stored = folds.stored /\ folds'.shown = folds.stored[d]
  BY <1>0, <1>1 DEF ListTypes
<1>4. /\ DOMAIN pick' = PickFields /\ pick'.mount = pick.mount /\ pick'.busy = pick.busy
      /\ pick'.selecting \in BOOLEAN /\ pick'.confirm = pick.confirm
      /\ IF screen = "servers" THEN pick'.picked = {} ELSE pick' = pick
  BY <1>0, <1>1 DEF ListTypes, PickFields
<1>5. ListTypes' BY <1>0, <1>1, <1>2, <1>3, <1>4 DEF ListTypes
<1>6. BusyInv' BY <1>0, <1>1, <1>4 DEF BusyInv
<1>7. PicksAreCurrent' BY <1>0, <1>1, <1>4 DEF PicksAreCurrent, Present
<1>8. FoldsAreOwn' BY <1>2, <1>3 DEF FoldsAreOwn
<1> QED BY <1>5, <1>6, <1>7, <1>8 DEF PicksInv

(* Another tab: the view mounts anew, and waits for no work of an earlier one. *)
LEMMA ShowViewStep == ASSUME PicksInv, NEW s, ShowView(s) PROVE PicksInv'
<1>0. ListTypes /\ BusyInv /\ PicksAreCurrent /\ FoldsAreOwn BY DEF PicksInv
<1>1. /\ UNCHANGED <<rows, filter, bulk>> /\ pick' = Unpicked(pick.mount + 1)
      /\ folds' = [folds EXCEPT !.shown = folds.stored[filter.domain]]
  BY DEF ShowView, LoadCollapsed
<1>2. DOMAIN folds' = DOMAIN folds /\ folds'.stored = folds.stored /\ folds'.shown = folds.stored[filter.domain]
  BY <1>0, <1>1 DEF ListTypes
<1>3. /\ DOMAIN pick' = PickFields /\ pick'.mount = pick.mount + 1 /\ pick'.busy \in BOOLEAN
      /\ pick'.selecting \in BOOLEAN /\ pick'.confirm \in BOOLEAN /\ pick'.picked = {}
  BY <1>1 DEF PickFields, Unpicked
<1>4. ListTypes' BY <1>0, <1>1, <1>2, <1>3 DEF ListTypes
<1>5. BusyInv'
  <2>1. \A k \in DOMAIN bulk : bulk[k].mount \in Nat /\ bulk[k].mount <= pick.mount BY <1>0 DEF ListTypes, BusyInv
  <2>2. pick.mount \in Nat BY <1>0 DEF ListTypes
  <2>3. \A k \in DOMAIN bulk : bulk[k].mount <= pick.mount + 1 /\ bulk[k].mount # pick.mount + 1 BY <2>1, <2>2
  <2> QED BY <1>1, <1>3, <2>3 DEF BusyInv
<1>6. PicksAreCurrent' BY <1>3 DEF PicksAreCurrent
<1>7. FoldsAreOwn' BY <1>1, <1>2 DEF FoldsAreOwn
<1> QED BY <1>4, <1>5, <1>6, <1>7 DEF PicksInv

(* Search, order and Starred leave the list they are about. *)
LEMMA FilterStep ==
    ASSUME PicksInv, NEW field \in {"sort", "query", "starred"}, NEW value, Filter(field, value) PROVE PicksInv'
<1>0. ListTypes /\ BusyInv /\ PicksAreCurrent /\ FoldsAreOwn BY DEF PicksInv
<1>1. filter' = [filter EXCEPT ![field] = value] /\ UNCHANGED <<screen, rows, pick, bulk, folds>> BY DEF Filter
<1>2. DOMAIN filter' = DOMAIN filter /\ filter'.domain = filter.domain BY <1>0, <1>1 DEF ListTypes
<1> QED BY <1>0, <1>1, <1>2 DEF PicksInv, ListTypes, BusyInv, PicksAreCurrent, Present, FoldsAreOwn

(* toggleGroup: on screen and in localStorage at once. *)
LEMMA ToggleGroupStep == ASSUME PicksInv, NEW name, ToggleGroup(name) PROVE PicksInv'
<1>0. ListTypes /\ BusyInv /\ PicksAreCurrent /\ FoldsAreOwn BY DEF PicksInv
<1> DEFINE next == IF name \in folds.shown THEN folds.shown \ {name} ELSE folds.shown \cup {name}
<1>1. /\ UNCHANGED <<screen, rows, filter, pick, bulk>>
      /\ folds' = [shown |-> next, stored |-> [folds.stored EXCEPT ![filter.domain] = next]]
  BY DEF ToggleGroup, SaveCollapsed
<1> HIDE DEF next
<1>2. filter.domain \in DOMAIN folds.stored BY <1>0 DEF ListTypes
<1>3. /\ DOMAIN folds' = {"shown", "stored"} /\ folds'.shown = next /\ DOMAIN folds'.stored = DOMAIN folds.stored
      /\ folds'.stored[filter.domain] = next
  BY <1>1, <1>2
<1> QED BY <1>0, <1>1, <1>3 DEF PicksInv, ListTypes, BusyInv, PicksAreCurrent, Present, FoldsAreOwn

(* A view starts with nothing picked and nothing under way. *)
LEMMA PicksStart == ListInit => PicksInv
<1> SUFFICES ASSUME ListInit PROVE PicksInv OBVIOUS
<1>1. PICK tour \in Tours :
        /\ rows = tour.rows /\ filter = [domain |-> tour.domain, sort |-> "list", starred |-> FALSE, query |-> All]
        /\ folds = [shown |-> {}, stored |-> [d \in DOMAIN tour.rows \ {"sources"} |-> {}]]
  BY DEF ListInit
<1>2. bulk = <<>> /\ pick = Unpicked(1) BY DEF ListInit
<1>3. /\ DOMAIN pick = PickFields /\ pick.mount = 1 /\ pick.selecting \in BOOLEAN /\ pick.busy \in BOOLEAN
      /\ pick.confirm \in BOOLEAN /\ pick.picked = {}
  BY <1>2 DEF Unpicked, PickFields
<1>4. IsList(bulk) /\ DOMAIN bulk = {} BY <1>2, EmptyIsList
<1>5. /\ "sources" \in DOMAIN rows /\ filter.domain \in DOMAIN rows \ {"sources"}
      /\ \A l \in DOMAIN rows : IsList(rows[l])
  BY <1>1, ToursAssumption
<1>6. /\ DOMAIN filter = {"domain", "sort", "starred", "query"} /\ DOMAIN folds = {"shown", "stored"}
      /\ DOMAIN folds.stored = DOMAIN rows \ {"sources"} /\ folds.shown = {}
      /\ \A d \in DOMAIN folds.stored : folds.stored[d] = {}
  BY <1>1
<1>7. ListTypes BY <1>3, <1>4, <1>5, <1>6 DEF ListTypes
<1>8. FoldsAreOwn BY <1>5, <1>6 DEF FoldsAreOwn
<1> QED BY <1>3, <1>4, <1>7, <1>8 DEF PicksInv, BusyInv, PicksAreCurrent

(* Every step of the two views keeps PicksInv, handler by handler. *)
LEMMA PicksStep == PicksInv /\ [ListNext]_selectingVars => PicksInv'
<1> SUFFICES ASSUME PicksInv, [ListNext]_selectingVars PROVE PicksInv' OBVIOUS
<1>1. CASE \E key \in Cards, range \in BOOLEAN : HandleCard(key, range) \/ HandleSourceCard(key, range)
  BY <1>1, HandleCardSteps
<1>2. CASE PickAll \/ PickAllSources \/ StartSelecting \/ CancelSelecting \/ ConfirmDelete \/ CancelDelete
  BY <1>2, ToolbarSteps
<1>3. CASE BulkServers \/ BulkSources \/ BulkDelete \/ \E key \in Cards : ToggleStar(key) BY <1>3, WorkSteps
<1>4. CASE \E k \in DOMAIN bulk : BulkEnds(k) BY <1>4, BulkEndsStep
<1>5. CASE \E l \in DOMAIN rows : \E gone \in ToSet(rows[l]) : ListChanges(l, gone) BY <1>5, ListChangesStep
<1>6. CASE \E d \in DOMAIN rows : DomainChanges(d) BY <1>6, DomainChangesStep
<1>7. CASE \E s \in {"servers", "sources"} : ShowView(s) BY <1>7, ShowViewStep
<1>8. CASE \/ \E s \in {"name", "ping"} : Filter("sort", s)
           \/ \E i \in DOMAIN GroupOf : Filter("query", {i})
           \/ Filter("starred", ~filter.starred)
  BY <1>8, FilterStep
<1>9. CASE \E i \in DOMAIN GroupOf : ToggleGroup(GroupOf[i]) BY <1>9, ToggleGroupStep
<1>10. CASE UNCHANGED selectingVars
  BY <1>10 DEF selectingVars, PicksInv, ListTypes, BusyInv, PicksAreCurrent, Present, FoldsAreOwn
<1> QED BY <1>1, <1>2, <1>3, <1>4, <1>5, <1>6, <1>7, <1>8, <1>9, <1>10 DEF ListNext

(* The inductive invariant of the card lists, for any lists, sections, pings
   and number of steps. *)
THEOREM PicksInvariance == ListSpec => []PicksInv
BY PicksStart, PicksStep, PTL DEF ListSpec

(* What is done to the picked cards reaches the cards picked in the list on
   screen, one operation at a time, and each subscription has its own folds,
   whatever refreshes, deletions, switches and late ends come in between
   (ProxiesView.tsx, ConfigurationView.tsx). *)
THEOREM PicksHoldAlways == ListSpec => []PicksHold
<1>1. PicksInv => PicksHold
  <2> SUFFICES ASSUME PicksInv PROVE BulkAlone BY DEF PicksInv, PicksHold
  <2> DEFINE K == {k \in DOMAIN bulk : bulk[k].mount = pick.mount}
  <2>1. \A j, k \in K : j = k BY DEF PicksInv, BusyInv
  <2> HIDE DEF K
  <2>2. CASE K = {} BY <2>2, FS_EmptySet DEF K, BulkAlone
  <2>3. CASE K # {}
    <3>1. PICK k \in K : TRUE BY <2>3
    <3>2. K = {k} BY <2>1, <3>1
    <3>3. Cardinality(K) = 1 BY <3>2, FS_Singleton
    <3> QED BY <3>3 DEF K, BulkAlone
  <2> QED BY <2>2, <2>3
<1> QED BY <1>1, PicksInvariance, PTL

-----------------------------------------------------------------------------
(* The connection screen. *)

(* The first entry of a list is taken: the others move up. *)
LEMMA HeadTaken ==
    ASSUME NEW s, IsList(s), 1 \in DOMAIN s, NEW t, t = RemoveAt(s, 1)
    PROVE  /\ IsList(t) /\ Len(s) \in Nat /\ DOMAIN s = 1 .. Len(s) /\ DOMAIN t = 1 .. Len(s) - 1
           /\ Len(t) = Len(s) - 1 /\ \A i \in 1 .. Len(s) - 1 : t[i] = s[i + 1]
<1>1. Len(s) \in Nat /\ DOMAIN s = 1 .. Len(s) BY ListFacts
<1>2. IsList(t) /\ Len(t) = Len(s) - 1 /\ \A i \in 1 .. Len(s) - 1 : t[i] = IF i < 1 THEN s[i] ELSE s[i + 1]
  BY RemoveAtList
<1>3. \A i \in 1 .. Len(s) - 1 : ~(i < 1) BY <1>1
<1>4. DOMAIN t = 1 .. Len(t) BY <1>2, ListFacts
<1> QED BY <1>1, <1>2, <1>3, <1>4

(* A list is empty when its length says so. *)
LEMMA EmptyLength == ASSUME NEW s, IsList(s) PROVE Len(s) \in Nat /\ (s = <<>> <=> Len(s) = 0)
BY EmptySeq, ListFacts DEF IsList

(* An entry more. *)
LEMMA EntryMore ==
    ASSUME NEW s, IsList(s), NEW x
    PROVE  /\ IsList(Append(s, x)) /\ Append(s, x) # <<>>
           /\ Len(s) \in Nat /\ Len(Append(s, x)) = Len(s) + 1 /\ Append(s, x)[Len(s) + 1] = x
           /\ DOMAIN s = 1 .. Len(s) /\ DOMAIN Append(s, x) = 1 .. Len(s) + 1
           /\ \A i \in DOMAIN s : Append(s, x)[i] = s[i]
<1> DEFINE t == Append(s, x)
<1>1. IsList(t) /\ Len(t) = Len(s) + 1 /\ t[Len(s) + 1] = x /\ \A i \in 1 .. Len(s) : t[i] = s[i] BY AppendList
<1> HIDE DEF t
<1>2. Len(s) \in Nat /\ DOMAIN s = 1 .. Len(s) /\ DOMAIN t = 1 .. Len(t) BY <1>1, ListFacts
<1>3. Len(t) # 0 BY <1>1, <1>2
<1>4. t # <<>> BY <1>1, <1>3, EmptyLength
<1> QED BY <1>1, <1>2, <1>4 DEF t

(* The news Go sends last is of the state it is in. *)
LEMMA SentTells ==
    ASSUME NEW sent, IsList(sent), NEW m, wire' = Append(sent, m), m.state = tunnel', m.what # "connect" \/ m.ok
    PROVE  LastTells' /\ IsList(wire')
<1>1. /\ IsList(Append(sent, m)) /\ Append(sent, m) # <<>> /\ Len(Append(sent, m)) = Len(sent) + 1
      /\ Append(sent, m)[Len(sent) + 1] = m
  BY EntryMore
<1> QED BY <1>1 DEF LastTells, Tells

(* Two entries more. *)
LEMMA TwoMore ==
    \A s, x, y, t : IsList(s) /\ t = Append(Append(s, x), y)
                     => IsList(t) /\ Len(t) > 1 /\ t[Len(t)] = y /\ t[Len(t) - 1] = x
<1> TAKE s, x, y, t
<1> HAVE IsList(s) /\ t = Append(Append(s, x), y)
<1> DEFINE u == Append(s, x)
<1>1. IsList(u) /\ Len(s) \in Nat /\ Len(u) = Len(s) + 1 /\ u[Len(s) + 1] = x /\ DOMAIN u = 1 .. Len(s) + 1
  BY EntryMore
<1>2. t = Append(u, y) OBVIOUS
<1> HIDE DEF u
<1>3. IsList(t) /\ Len(t) = Len(u) + 1 /\ t[Len(u) + 1] = y /\ \A i \in DOMAIN u : t[i] = u[i]
  BY <1>1, <1>2, EntryMore
<1>4. Len(t) > 1 /\ Len(t) - 1 = Len(s) + 1 /\ Len(s) + 1 \in DOMAIN u BY <1>1, <1>3
<1> QED BY <1>1, <1>3, <1>4

(* The same for the answer of a failed connect, sent after its event. *)
LEMMA SentEchoes ==
    ASSUME NEW sent, IsList(sent), NEW m, wire' = Append(Append(sent, Event(tunnel')), m),
           m.what = "connect", ~m.ok, m.state = Failed(tunnel'.error, ""), tunnel'.status = "error", ~tunnel'.blocked
    PROVE  LastTells' /\ IsList(wire')
<1>1. IsList(wire') /\ Len(wire') > 1 /\ wire'[Len(wire')] = m /\ wire'[Len(wire') - 1] = Event(tunnel')
  <2>1. IsList(sent) /\ wire' = Append(Append(sent, Event(tunnel')), m)
        => IsList(wire') /\ Len(wire') > 1 /\ wire'[Len(wire')] = m /\ wire'[Len(wire') - 1] = Event(tunnel')
    BY ONLY TwoMore
  <2> QED BY <2>1
<1> QED BY <1>1 DEF LastTells, Echoes

(* The first command is taken off the queue: what it overtook went before it. *)
LEMMA QueueTaken ==
    ASSUME ScreenTypes, OvertakenInv, 1 \in DOMAIN queue, queue' = RemoveAt(queue, 1), UNCHANGED gen
    PROVE  /\ IsList(queue') /\ OvertakenInv'
           /\ \A i \in DOMAIN queue' : queue'[i].op \in Commands \cup {"reconnect"} /\ queue'[i].gen \in 0..gen
<1>1. /\ IsList(queue') /\ Len(queue) \in Nat /\ DOMAIN queue = 1 .. Len(queue) /\ DOMAIN queue' = 1 .. Len(queue) - 1
      /\ \A i \in 1 .. Len(queue) - 1 : queue'[i] = queue[i + 1]
  BY HeadTaken DEF ScreenTypes
<1>2. \A i \in DOMAIN queue' : i + 1 \in DOMAIN queue /\ queue'[i] = queue[i + 1] BY <1>1
<1>3. ASSUME NEW i \in DOMAIN queue', queue'[i].gen # gen
      PROVE  \E j \in DOMAIN queue' : i < j /\ queue'[j].gen = gen
  <2>1. PICK j \in DOMAIN queue : i + 1 < j /\ queue[j].gen = gen BY <1>2, <1>3 DEF OvertakenInv
  <2>2. j - 1 \in DOMAIN queue' /\ i < j - 1 /\ (j - 1) + 1 = j BY <1>1, <2>1
  <2>3. queue'[j - 1] = queue[j] BY <1>2, <2>2
  <2> QED BY <2>1, <2>2, <2>3
<1>4. OvertakenInv' BY <1>3 DEF OvertakenInv
<1> QED BY <1>1, <1>2, <1>4 DEF ScreenTypes

(* The window or a drop asks for something: the last command has the newest
   generation, and ends in an event. *)
LEMMA QueueGrows ==
    ASSUME ScreenTypes, OvertakenInv, NEW op \in Commands \cup {"reconnect"}, NEW g \in Nat, g \in {gen, gen + 1},
           queue' = Append(queue, [op |-> op, gen |-> g]), gen' = g
    PROVE  /\ IsList(queue') /\ OvertakenInv' /\ EventComes'
           /\ \A i \in DOMAIN queue' : queue'[i].op \in Commands \cup {"reconnect"} /\ queue'[i].gen \in 0..gen'
<1> DEFINE c == [op |-> op, gen |-> g]
<1>0. c.op = op /\ c.gen = g OBVIOUS
<1> HIDE DEF c
<1>1. /\ IsList(queue') /\ Len(queue) \in Nat /\ Len(queue') = Len(queue) + 1 /\ queue'[Len(queue) + 1] = c
      /\ DOMAIN queue = 1 .. Len(queue) /\ DOMAIN queue' = 1 .. Len(queue) + 1
      /\ \A i \in DOMAIN queue : queue'[i] = queue[i]
  <2>1. IsList(queue) /\ queue' = Append(queue, c) BY DEF ScreenTypes, c
  <2> QED BY <2>1, EntryMore
<1>2. Len(queue') \in DOMAIN queue' /\ \A i \in DOMAIN queue' : i = Len(queue') \/ (i \in DOMAIN queue /\ i < Len(queue'))
  BY <1>1
<1>3. \A i \in DOMAIN queue' : queue'[i].op \in Commands \cup {"reconnect"} /\ queue'[i].gen \in 0..g
  BY <1>0, <1>1, <1>2 DEF ScreenTypes
<1>4. OvertakenInv' BY <1>0, <1>1, <1>2 DEF OvertakenInv
<1>5. EventComes' BY <1>0, <1>1, <1>2 DEF EventComes
<1> QED BY <1>1, <1>3, <1>4, <1>5

(* The sweep and Go's news are apart: the parts of ScreenInv by their variables. *)
NewsPart ==
    /\ gen \in Nat /\ dismissed \in BOOLEAN /\ IsList(queue) /\ IsList(wire)
    /\ \A i \in DOMAIN queue : queue[i].op \in Commands \cup {"reconnect"} /\ queue[i].gen \in 0..gen
    /\ OvertakenInv /\ (~EventComes /\ ~Can("get") => LastTells)
LeftPart == "get" \in DOMAIN left /\ left["get"] \in Nat
SweepPart == IsList(pingCalls) /\ SweepInv

(* ScreenInv is these three. *)
LEMMA ScreenParts ==
    /\ ScreenInv <=> NewsPart /\ LeftPart /\ SweepPart
    /\ NewsPart' /\ LeftPart' /\ SweepPart' => ScreenInv'
BY DEF ScreenInv, ScreenTypes, NewsPart, LeftPart, SweepPart

(* A step that uses a bound other than "get", or none. *)
LEMMA LeftStep ==
    ASSUME LeftPart, UNCHANGED left \/ \E what : Use(what) /\ (what = "get" => Can("get"))
    PROVE  LeftPart' /\ (UNCHANGED left \/ (\E what : Use(what) /\ what # "get") => Can("get")' = Can("get"))
<1>1. CASE UNCHANGED left BY <1>1 DEF LeftPart, Can
<1>2. ASSUME NEW what, Use(what), what = "get" => Can("get")
      PROVE  LeftPart' /\ (what # "get" => Can("get")' = Can("get"))
  <2>1. left' = [left EXCEPT ![what] = left[what] - 1] BY <1>2 DEF Use
  <2>2. DOMAIN left' = DOMAIN left /\ left'["get"] = IF what = "get" THEN left["get"] - 1 ELSE left["get"]
    BY <2>1 DEF LeftPart
  <2>3. what = "get" => left["get"] > 0 BY <1>2 DEF Can
  <2> QED BY <2>2, <2>3 DEF LeftPart, Can
<1> QED BY <1>1, <1>2

(* A step that leaves Go's side, the wire and the panel alone. *)
LEMMA NewsAlone ==
    ASSUME NewsPart, UNCHANGED <<panel, goVars, wire, dismissed>>, Can("get")' = Can("get")
    PROVE  NewsPart'
BY DEF NewsPart, goVars, OvertakenInv, EventComes, LastTells, ShowsTunnel, Tells, Echoes

-----------------------------------------------------------------------------
(* Go's steps. *)

(* An answer, or none, after what was sent. *)
LEMMA ConcatNone == ASSUME NEW s, IsList(s) PROVE s \o <<>> = s
BY ConcatEmptySeq DEF IsList
(* ... and with one. *)
LEMMA ConcatOne == ASSUME NEW s, IsList(s), NEW x PROVE s \o <<x>> = Append(s, x)
<1>1. IsList(Append(s, x)) /\ Range(Append(s, x)) = Range(s) \cup {x} BY AppendList
<1>2. s \in Seq(Range(s) \cup {x}) BY SeqMonotonic DEF IsList
<1> QED BY <1>2, AppendIsConcat

(* Several at once, the last of which is of the state Go is in. *)
LEMMA SentAllTells ==
    ASSUME NEW sent, IsList(sent), NEW more, IsList(more), Len(more) # 0, wire' = sent \o more,
           more[Len(more)].state = tunnel', more[Len(more)].what # "connect"
    PROVE  LastTells' /\ IsList(wire')
<1> DEFINE t == sent \o more
           n == Len(more)
<1>1. Len(sent) \in Nat /\ n \in Nat \ {0} BY ListFacts
<1>2. IsList(t) /\ Len(t) = Len(sent) + n
      /\ \A i \in 1 .. Len(sent) + n : t[i] = IF i <= Len(sent) THEN sent[i] ELSE more[i - Len(sent)]
  BY ConcatList
<1> HIDE DEF t, n
<1>3. /\ Len(sent) + n \in 1 .. Len(sent) + n /\ ~(Len(sent) + n <= Len(sent))
      /\ (Len(sent) + n) - Len(sent) = n /\ Len(sent) + n # 0
  BY <1>1
<1>4. t[Len(t)] = more[n] BY <1>2, <1>3
<1>5. t # <<>> BY <1>2, <1>3, EmptyLength
<1> QED BY <1>2, <1>4, <1>5 DEF LastTells, Tells, t, n

(* A command is under way at the end of the step: nothing is due yet. *)
LEMMA StillComes ==
    ASSUME NewsPart, IsList(wire'), IsList(queue'), OvertakenInv', EventComes', UNCHANGED dismissed, gen' \in Nat,
           \A i \in DOMAIN queue' : queue'[i].op \in Commands \cup {"reconnect"} /\ queue'[i].gen \in 0..gen'
    PROVE  NewsPart'
BY DEF NewsPart

(* Go's last word is of its state at the end of the step. *)
LEMMA NowTold ==
    ASSUME NewsPart, IsList(wire'), LastTells', UNCHANGED dismissed, gen' \in Nat, IsList(queue'), OvertakenInv',
           \A i \in DOMAIN queue' : queue'[i].op \in Commands \cup {"reconnect"} /\ queue'[i].gen \in 0..gen'
    PROVE  NewsPart'
BY DEF NewsPart

(* The command at the head of the queue leaves it. *)
LEMMA HeadDone ==
    ASSUME NewsPart, LeftPart, SweepPart, NEW i \in DOMAIN queue, NextCommand(i), Done(i), UNCHANGED gen
    PROVE  /\ IsList(queue') /\ OvertakenInv' /\ gen' \in Nat
           /\ \A j \in DOMAIN queue' : queue'[j].op \in Commands \cup {"reconnect"} /\ queue'[j].gen \in 0..gen'
<1>1. ScreenTypes /\ OvertakenInv BY DEF NewsPart, LeftPart, SweepPart, ScreenTypes
<1>2. 1 \in DOMAIN queue /\ queue' = RemoveAt(queue, 1) BY DEF NextCommand, Done
<1> QED BY <1>1, <1>2, QueueTaken DEF ScreenTypes

(* A command found overtaken: the one that overtook it is still to come. *)
LEMMA NewsSuperseded ==
    ASSUME NewsPart, LeftPart, SweepPart, NEW i \in DOMAIN queue, Superseded(i) PROVE NewsPart'
<1> DEFINE m == News("connect", Failed("superseded", ""), FALSE)
<1>1. NextCommand(i) /\ Done(i) /\ UNCHANGED gen /\ UNCHANGED dismissed BY DEF Superseded
<1>2. /\ IsList(queue') /\ OvertakenInv' /\ gen' \in Nat
      /\ \A j \in DOMAIN queue' : queue'[j].op \in Commands \cup {"reconnect"} /\ queue'[j].gen \in 0..gen'
  BY <1>1, HeadDone
<1>3. wire' = wire \/ wire' = Append(wire, m) BY DEF Superseded
<1> HIDE DEF m
<1>4. IsList(wire') BY <1>3, EntryMore DEF NewsPart
<1>5. i = 1 /\ queue[1].gen # gen /\ 1 \in DOMAIN queue BY DEF Superseded, NextCommand
<1>6. PICK j \in DOMAIN queue : 1 < j /\ queue[j].gen = gen BY <1>5 DEF NewsPart, OvertakenInv
<1>7. /\ Len(queue) \in Nat /\ DOMAIN queue = 1 .. Len(queue) /\ DOMAIN queue' = 1 .. Len(queue) - 1
      /\ \A k \in 1 .. Len(queue) - 1 : queue'[k] = queue[k + 1]
  <2>1. queue' = RemoveAt(queue, 1) /\ IsList(queue) BY <1>1, <1>5 DEF Done, NewsPart
  <2> QED BY <2>1, <1>5, HeadTaken
<1>8. j - 1 \in DOMAIN queue' /\ queue'[j - 1] = queue[(j - 1) + 1] /\ (j - 1) + 1 = j BY <1>6, <1>7
<1>9. EventComes' BY <1>1, <1>6, <1>8 DEF EventComes
<1> QED BY <1>1, <1>2, <1>4, <1>9, StillComes

(* A connect gets connectMu: it will end in an event. *)
LEMMA NewsConnectBegins ==
    ASSUME NewsPart, LeftPart, SweepPart, NEW i \in DOMAIN queue, ConnectBegins(i) PROVE NewsPart'
<1>1. NextCommand(i) /\ Done(i) /\ UNCHANGED gen /\ UNCHANGED dismissed /\ wire' = Append(wire, Event(Connecting))
  BY DEF ConnectBegins
<1>2. /\ IsList(queue') /\ OvertakenInv' /\ gen' \in Nat
      /\ \A j \in DOMAIN queue' : queue'[j].op \in Commands \cup {"reconnect"} /\ queue'[j].gen \in 0..gen'
  BY <1>1, HeadDone
<1>3. IsList(wire') BY <1>1, EntryMore DEF NewsPart
<1>4. job' # "" BY DEF ConnectBegins, Commands, NewsPart
<1> QED BY <1>1, <1>2, <1>3, <1>4, StillComes DEF EventComes

(* A connect ends in an event, and in the answer if the user asked for it. *)
LEMMA NewsConnectEnds ==
    ASSUME NewsPart, LeftPart, SweepPart, ConnectEnds PROVE NewsPart'
<1>1. PICK next \in {Status("connected", exit, "", "") : exit \in Exits}
                   \cup {Failed("refused", reason) : reason \in {"", "adapter"}} :
        /\ tunnel' = next
        /\ wire' = Append(wire, Event(next)) \o
                   Answered(IF Connected(next) THEN next ELSE Failed(next.error, ""), Connected(next))
  BY DEF ConnectEnds
<1>2. UNCHANGED <<gen, queue, dismissed>> BY DEF ConnectEnds
<1>3. IsList(wire) BY DEF NewsPart
<1> DEFINE e == Event(next)
           ok == Connected(next)
           m == News("connect", IF ok THEN next ELSE Failed(next.error, ""), ok)
           s == Append(wire, e)
<1>4. IsList(s) BY <1>3, EntryMore
<1>5. e.state = next /\ e.what = "event" /\ m.what = "connect" /\ m.ok = ok
      /\ m.state = (IF ok THEN next ELSE Failed(next.error, ""))
  BY DEF Event, News
<1>6. ~ok => next.status = "error" /\ ~next.blocked
  <2>1. \A exit \in Exits : Connected(Status("connected", exit, "", "")) BY DEF Connected, Status
  <2>2. \A reason : Failed("refused", reason).status = "error" /\ ~Failed("refused", reason).blocked
    BY DEF Failed, Status
  <2> QED BY <1>1, <2>1, <2>2
<1>7. LastTells' /\ IsList(wire')
  <2>1. CASE job # "connect"
    <3>1. wire' = s \o <<>> BY <1>1, <2>1 DEF Answered
    <3>2. wire' = s BY <3>1, <1>4, ConcatNone
    <3> HIDE DEF e
    <3> QED BY <3>2, <1>1, <1>3, <1>5, SentTells
  <2>2. CASE job = "connect" /\ ok
    <3>1. wire' = s \o <<m>> BY <1>1, <2>2 DEF Answered
    <3>2. wire' = Append(s, m) BY <3>1, <1>4, ConcatOne
    <3> HIDE DEF s, m, ok
    <3> QED BY <3>2, <2>2, <1>1, <1>4, <1>5, SentTells
  <2>3. CASE job = "connect" /\ ~ok
    <3>1. wire' = s \o <<m>> BY <1>1, <2>3 DEF Answered
    <3>2. wire' = Append(s, m) BY <3>1, <1>4, ConcatOne
    <3>3. wire' = Append(Append(wire, Event(tunnel')), m) BY <3>2, <1>1
    <3> HIDE DEF m, ok, s, e
    <3> QED BY <3>3, <2>3, <1>1, <1>3, <1>5, <1>6, SentEchoes
  <2> QED BY <2>1, <2>2, <2>3
<1>8. OvertakenInv' BY <1>2 DEF NewsPart, OvertakenInv
<1> QED BY <1>2, <1>7, <1>8, NowTold DEF NewsPart

(* A disconnect is served, or fails to stop the core. *)
LEMMA NewsDisconnectServed ==
    ASSUME NewsPart, LeftPart, SweepPart, NEW i \in DOMAIN queue, DisconnectServed(i) PROVE NewsPart'
<1>1. NextCommand(i) /\ Done(i) /\ UNCHANGED gen /\ UNCHANGED dismissed BY DEF DisconnectServed
<1>2. /\ IsList(queue') /\ OvertakenInv' /\ gen' \in Nat
      /\ \A j \in DOMAIN queue' : queue'[j].op \in Commands \cup {"reconnect"} /\ queue'[j].gen \in 0..gen'
  BY <1>1, HeadDone
<1>3. IsList(wire) BY DEF NewsPart
<1>4. LastTells' /\ IsList(wire')
  <2>1. CASE tunnel' = IDLE /\ wire' = wire \o <<Event(IDLE), News("disconnect", IDLE, TRUE)>>
    <3> DEFINE more == <<Event(IDLE), News("disconnect", IDLE, TRUE)>>
    <3>1. IsList(more) /\ Len(more) = 2
      <4>1. more \in Seq({Event(IDLE), News("disconnect", IDLE, TRUE)}) OBVIOUS
      <4>2. IsList(more) BY <4>1, SeqIsList
      <4> QED BY <4>2
    <3>2. more[Len(more)].state = tunnel' /\ more[Len(more)].what # "connect" BY <2>1, <3>1 DEF News
    <3>3. wire' = wire \o more BY <2>1
    <3>4. Len(more) # 0 BY <3>1
    <3> HIDE DEF more
    <3> QED BY <1>3, <3>1, <3>2, <3>3, <3>4, SentAllTells, Zenon
  <2>2. CASE wire' = wire \o <<Event(IDLE), Event(tunnel'), News("disconnect", tunnel', FALSE)>>
    <3> DEFINE more == <<Event(IDLE), Event(tunnel'), News("disconnect", tunnel', FALSE)>>
    <3>1. IsList(more) /\ Len(more) = 3
      <4>1. more \in Seq({Event(IDLE), Event(tunnel'), News("disconnect", tunnel', FALSE)}) OBVIOUS
      <4>2. IsList(more) BY <4>1, SeqIsList
      <4> QED BY <4>2
    <3>2. more[Len(more)].state = tunnel' /\ more[Len(more)].what # "connect" BY <3>1 DEF News
    <3>3. wire' = wire \o more BY <2>2
    <3>4. Len(more) # 0 BY <3>1
    <3> HIDE DEF more
    <3> QED BY <1>3, <3>1, <3>2, <3>3, <3>4, SentAllTells, Zenon
  <2> QED BY <2>1, <2>2 DEF DisconnectServed
<1> QED BY <1>1, <1>2, <1>4, NowTold

(* The tunnel drops: told, and perhaps queued to come back. *)
LEMMA NewsTunnelDrops ==
    ASSUME NewsPart, LeftPart, SweepPart, TunnelDrops PROVE NewsPart'
<1>1. UNCHANGED gen /\ UNCHANGED dismissed /\ wire' = Append(wire, Event(tunnel')) BY DEF TunnelDrops
<1>2. ScreenTypes /\ OvertakenInv BY DEF NewsPart, LeftPart, SweepPart, ScreenTypes
<1>3. Event(tunnel').state = tunnel' /\ Event(tunnel').what # "connect" BY DEF Event, News
<1>4. LastTells' /\ IsList(wire')
  <2> DEFINE m == Event(tunnel')
  <2>1. IsList(wire) /\ wire' = Append(wire, m) BY <1>1 DEF NewsPart
  <2>2. m.state = tunnel' /\ m.what # "connect" BY <1>3
  <2> HIDE DEF m
  <2> QED BY <2>1, <2>2, SentTells
<1>5. CASE UNCHANGED queue
  <2>1. OvertakenInv' BY <1>1, <1>2, <1>5 DEF OvertakenInv
  <2> QED BY <1>1, <1>4, <1>5, <2>1, NowTold DEF NewsPart
<1>6. CASE queue' = Append(queue, [op |-> "reconnect", gen |-> gen])
  <2>1. gen \in Nat /\ gen \in {gen, gen + 1} /\ gen' = gen BY <1>1, <1>2 DEF ScreenTypes
  <2>2. /\ IsList(queue') /\ OvertakenInv' /\ EventComes'
        /\ \A i \in DOMAIN queue' : queue'[i].op \in Commands \cup {"reconnect"} /\ queue'[i].gen \in 0..gen'
    BY <1>2, <1>6, <2>1, QueueGrows
  <2> QED BY <1>1, <1>4, <2>1, <2>2, StillComes
<1> QED BY <1>5, <1>6 DEF TunnelDrops

(* get_state answers with the state of the moment. *)
LEMMA NewsStateAsked ==
    ASSUME NewsPart, LeftPart, SweepPart, StateAsked PROVE NewsPart'
<1>1. UNCHANGED <<tunnel, gen, queue, dismissed>> /\ wire' = Append(wire, News("get", tunnel, TRUE))
  BY DEF StateAsked, goVars
<1>2. IsList(wire) BY DEF NewsPart
<1>3. News("get", tunnel, TRUE).state = tunnel /\ News("get", tunnel, TRUE).what # "connect" BY DEF News
<1>4. LastTells' /\ IsList(wire') BY <1>1, <1>2, <1>3, SentTells
<1>5. OvertakenInv' BY <1>1 DEF NewsPart, OvertakenInv
<1> QED BY <1>1, <1>4, <1>5, NowTold DEF NewsPart

(* The window asks for something. *)
LEMMA NewsAsked ==
    ASSUME NewsPart, LeftPart, SweepPart, NEW op \in Commands, Ask(op), UNCHANGED <<wire, dismissed>> PROVE NewsPart'
<1>1. ScreenTypes /\ OvertakenInv BY DEF NewsPart, LeftPart, SweepPart, ScreenTypes
<1>2. gen \in Nat BY DEF NewsPart
<1> DEFINE g == gen + 1
<1>3. g \in Nat /\ g \in {gen, gen + 1} /\ gen' = g /\ queue' = Append(queue, [op |-> op, gen |-> g])
  BY <1>2 DEF Ask
<1> HIDE DEF g
<1>4. /\ IsList(queue') /\ OvertakenInv' /\ EventComes'
      /\ \A i \in DOMAIN queue' : queue'[i].op \in Commands \cup {"reconnect"} /\ queue'[i].gen \in 0..gen'
  BY <1>1, <1>3, QueueGrows
<1>5. IsList(wire') BY DEF NewsPart
<1> QED BY <1>3, <1>4, <1>5, StillComes

(* The button and the plugins ask the same way. *)
LEMMA NewsButton ==
    ASSUME NewsPart, LeftPart, SweepPart, ToggleConnection \/ PluginConnects PROVE NewsPart'
<1>1. UNCHANGED <<wire, dismissed>> /\ (Ask("connect") \/ Ask("disconnect"))
  BY DEF ToggleConnection, PluginConnects, Connect, Disconnect
<1> QED BY <1>1, NewsAsked DEF Commands

-----------------------------------------------------------------------------
(* The window's steps. *)

(* A dismissed failure is still the failure Go is in. *)
LEMMA NewsDismissError ==
    ASSUME NewsPart, LeftPart, SweepPart, DismissError PROVE NewsPart'
<1>1. /\ UNCHANGED <<tunnel, gen, queue, job, wire, left>> /\ dismissed' = TRUE /\ panel' = IDLE
      /\ panel.status = "error" /\ ~panel.blocked
  BY DEF DismissError, PanelBecomes, goVars
<1>2. OvertakenInv' /\ (EventComes' <=> EventComes) /\ (Can("get")' <=> Can("get"))
  BY <1>1 DEF NewsPart, OvertakenInv, EventComes, Can
<1>3. ShowsTunnel => ShowsTunnel' BY <1>1 DEF ShowsTunnel
<1>4. LastTells => LastTells' BY <1>1, <1>3 DEF LastTells, Tells, Echoes
<1> QED BY <1>1, <1>2, <1>4 DEF NewsPart

(* What the panel becomes when the news that tells Go's state is heard, and
   when its echo is. *)
LEMMA TellHeard ==
    ASSUME UNCHANGED tunnel, NEW m, Tells(m),
           panel' = IF m.what = "connect" /\ ~m.ok /\ panel.status = "error" /\ panel.error = m.state.error
                    THEN panel ELSE m.state
    PROVE  ShowsTunnel'
BY DEF Tells, ShowsTunnel

(* The echo changes nothing the event said. *)
LEMMA EchoHeard ==
    ASSUME UNCHANGED <<tunnel, dismissed>>, NEW m, Echoes(m), ShowsTunnel,
           panel' = IF m.what = "connect" /\ ~m.ok /\ panel.status = "error" /\ panel.error = m.state.error
                    THEN panel ELSE m.state
    PROVE  ShowsTunnel'
<1>1. m.state.error = tunnel.error /\ Failed(tunnel.error, "").error = tunnel.error
      /\ Failed(tunnel.error, "").status = "error" /\ IDLE.status # "error"
  <2>1. \A x : Failed(x, "").error = x /\ Failed(x, "").status = "error" BY DEF Failed, Status
  <2>2. IDLE.status = "idle" BY DEF IDLE, Status
  <2> QED BY <2>1, <2>2 DEF Echoes
<1>2. CASE panel = tunnel BY <1>1, <1>2 DEF ShowsTunnel, Echoes
<1>3. CASE panel = IDLE /\ dismissed BY <1>1, <1>3 DEF ShowsTunnel, Echoes
<1>4. CASE panel = Failed(tunnel.error, "") /\ dismissed BY <1>1, <1>4 DEF ShowsTunnel, Echoes
<1> QED BY <1>2, <1>3, <1>4 DEF ShowsTunnel

(* What is heard was the last word, or the last word is still behind it. *)
LEMMA NewsNewsHeard ==
    ASSUME NewsPart, LeftPart, SweepPart, NEW i \in DOMAIN wire, NewsHeard(i) PROVE NewsPart'
<1> DEFINE m == wire[1]
<1>1. /\ UNCHANGED <<tunnel, gen, queue, job, dismissed, left>> /\ wire' = RemoveAt(wire, 1) /\ 1 \in DOMAIN wire
      /\ panel' = IF m.what = "connect" /\ ~m.ok /\ panel.status = "error" /\ panel.error = m.state.error
                  THEN panel ELSE m.state
  BY DEF NewsHeard, PanelBecomes, goVars
<1> HIDE DEF m
<1>2. OvertakenInv' /\ (EventComes' <=> EventComes) /\ (Can("get")' <=> Can("get"))
  BY <1>1 DEF NewsPart, OvertakenInv, EventComes, Can
<1> DEFINE n == Len(wire)
<1>3. /\ IsList(wire') /\ n \in Nat /\ DOMAIN wire = 1 .. n /\ Len(wire') = n - 1
      /\ \A k \in 1 .. n - 1 : wire'[k] = wire[k + 1]
  BY <1>1, HeadTaken DEF NewsPart
<1>4. n \in Nat /\ n >= 1 BY <1>1, <1>3
<1>5. (wire = <<>> <=> n = 0) /\ (wire' = <<>> <=> n = 1)
  <2>1. wire = <<>> <=> n = 0 BY EmptyLength DEF NewsPart
  <2>2. wire' = <<>> <=> Len(wire') = 0 BY <1>3, EmptyLength
  <2> QED BY <1>3, <1>4, <2>1, <2>2
<1> HIDE DEF n
<1>6. LastTells => LastTells'
  <2> SUFFICES ASSUME LastTells PROVE LastTells' OBVIOUS
  <2>1. CASE n = 1
    <3>1. wire # <<>> /\ wire' = <<>> /\ wire[Len(wire)] = m /\ Len(wire) = 1 BY <1>5, <2>1 DEF n, m
    <3>2. Tells(m) \/ (Echoes(m) /\ ShowsTunnel) BY <3>1 DEF LastTells, m
    <3>3. ShowsTunnel' BY <1>1, <3>2, TellHeard, EchoHeard
    <3> QED BY <3>1, <3>3 DEF LastTells
  <2>2. CASE n > 1
    <3>1. wire # <<>> /\ wire' # <<>> /\ Len(wire) = n /\ Len(wire') = n - 1 BY <1>3, <1>4, <1>5, <2>2 DEF n
    <3>2. wire'[Len(wire')] = wire[n]
      <4>1. n - 1 \in 1 .. n - 1 /\ (n - 1) + 1 = n BY <1>4, <2>2
      <4> QED BY <1>3, <3>1, <4>1
    <3>3. CASE Tells(wire[n])
      <4>1. Tells(wire[Len(wire)])' BY <1>1, <3>2, <3>3 DEF Tells
      <4> QED BY <3>1, <4>1 DEF LastTells
    <3>4. CASE Echoes(wire[n]) /\ wire[n - 1] = Event(tunnel)
      <4>1. Echoes(wire[Len(wire)])' BY <1>1, <3>2, <3>4 DEF Echoes
      <4>2. CASE n = 2
        <5>1. m = Event(tunnel) BY <3>4, <4>2 DEF m
        <5>2. Tells(m) BY <5>1 DEF Tells, Event, News
        <5>3. ShowsTunnel' BY <1>1, <5>2, TellHeard
        <5>4. Len(wire') = 1 /\ Echoes(wire[1])' BY <3>1, <4>1, <4>2
        <5> QED BY <5>3, <5>4 DEF LastTells
      <4>3. CASE n > 2
        <5>1. n - 2 \in 1 .. n - 1 /\ (n - 2) + 1 = n - 1 /\ (n - 1) - 1 = n - 2 /\ n - 1 > 1 BY <1>4, <4>3
        <5>2. Len(wire') > 1 /\ wire'[Len(wire') - 1] = Event(tunnel)' BY <1>1, <1>3, <3>1, <3>4, <5>1
        <5> QED BY <4>1, <5>2 DEF LastTells
      <4> QED BY <1>4, <2>2, <4>2, <4>3
    <3>5. Tells(wire[n]) \/ (Echoes(wire[n]) /\ wire[n - 1] = Event(tunnel)) BY <2>2, <3>1 DEF LastTells
    <3> QED BY <3>3, <3>4, <3>5
  <2> QED BY <1>4, <2>1, <2>2
<1> QED BY <1>1, <1>2, <1>3, <1>6 DEF NewsPart

-----------------------------------------------------------------------------
(* The parts of ScreenInv through each step. *)

(* A step that leaves the sweep alone. *)
LEMMA SweepAlone == ASSUME SweepPart, UNCHANGED pingVars PROVE SweepPart'
BY DEF SweepPart, pingVars, SweepInv

(* Another configuration: its sweep is the last one asked for. *)
LEMMA SweepSelectGroup == ASSUME SweepPart, NEW g, SelectGroup(g) PROVE SweepPart'
<1>1. group' = g /\ pingCalls' = Append(pingCalls, g) /\ IsList(pingCalls) BY DEF SelectGroup, SweepPart
<1>2. /\ IsList(Append(pingCalls, g)) /\ Append(pingCalls, g) # <<>>
      /\ Len(Append(pingCalls, g)) = Len(pingCalls) + 1 /\ Append(pingCalls, g)[Len(pingCalls) + 1] = g
  BY <1>1, EntryMore
<1> QED BY <1>1, <1>2 DEF SweepPart, SweepInv

(* The sweeps answer in the order they were asked for. *)
LEMMA SweepPingsHeard == ASSUME SweepPart, NEW i \in DOMAIN pingCalls, PingsHeard(i) PROVE SweepPart'
<1>1. /\ 1 \in DOMAIN pingCalls /\ pings' = pingCalls[1] /\ pingCalls' = RemoveAt(pingCalls, 1) /\ group' = group
      /\ IsList(pingCalls)
  BY DEF PingsHeard, SweepPart
<1> DEFINE n == Len(pingCalls)
<1>2. /\ IsList(pingCalls') /\ n \in Nat /\ DOMAIN pingCalls = 1 .. n /\ Len(pingCalls') = n - 1
      /\ \A k \in 1 .. n - 1 : pingCalls'[k] = pingCalls[k + 1]
  BY <1>1, HeadTaken
<1>3. pingCalls # <<>> /\ (pingCalls' = <<>> <=> n = 1)
  <2>1. pingCalls = <<>> <=> n = 0 BY <1>1, EmptyLength
  <2>2. pingCalls' = <<>> <=> Len(pingCalls') = 0 BY <1>2, EmptyLength
  <2> QED BY <1>1, <1>2, <2>1, <2>2
<1>4. pingCalls[n] = group BY <1>3 DEF SweepPart, SweepInv
<1> HIDE DEF n
<1>5. CASE n = 1 BY <1>1, <1>2, <1>3, <1>4, <1>5 DEF SweepPart, SweepInv
<1>6. CASE n > 1
  <2>1. n - 1 \in 1 .. n - 1 /\ (n - 1) + 1 = n BY <1>2, <1>6
  <2>2. pingCalls'[Len(pingCalls')] = group BY <1>2, <1>4, <2>1
  <2>3. pingCalls' # <<>> BY <1>2, <1>3, <1>6
  <2> QED BY <1>1, <1>2, <2>2, <2>3 DEF SweepPart, SweepInv
<1>7. n = 1 \/ n > 1 BY <1>1, <1>2
<1> QED BY <1>5, <1>6, <1>7

(* A step of the address or of the sweep leaves Go's news alone. *)
LEMMA AsideStep ==
    ASSUME NewsPart, LeftPart,
           CheckIp \/ (\E i \in DOMAIN ipCalls : IpFound(i) \/ IpHeard(i))
           \/ (\E g \in Groups : SelectGroup(g)) \/ (\E i \in DOMAIN pingCalls : PingsHeard(i))
    PROVE  NewsPart' /\ LeftPart'
<1>1. UNCHANGED <<panel, goVars, wire, dismissed>> /\ (UNCHANGED left \/ Use("group"))
  BY DEF CheckIp, IpFound, IpHeard, SelectGroup, PingsHeard
<1>2. LeftPart' /\ Can("get")' = Can("get") BY <1>1, LeftStep
<1> QED BY <1>1, <1>2, NewsAlone

(* The window opens: Go is idle, or the window still has to ask. *)
LEMMA ScreenStart == ScreenInit => ScreenInv
<1> SUFFICES ASSUME ScreenInit PROVE ScreenInv OBVIOUS
<1>1. /\ gen = 0 /\ queue = <<>> /\ wire = <<>> /\ dismissed = FALSE /\ left \in Trips /\ panel = IDLE
      /\ (tunnel # IDLE => Can("get"))
  BY DEF ScreenInit
<1>2. "get" \in DOMAIN left /\ left["get"] \in Nat BY <1>1, TripsAssumption
<1>3. IsList(<<>>) /\ DOMAIN <<>> = {} BY EmptyIsList
<1>4. ~Can("get") => LastTells BY <1>1 DEF LastTells, ShowsTunnel
<1>5. IsList(pingCalls) /\ SweepInv
  <2>1. CASE pings = "" /\ pingCalls = <<group>>
    <3>1. IsList(<<group>>) /\ <<group>>[1] = group BY OneList
    <3>2. Len(<<group>>) = 1 /\ <<group>> # <<>> OBVIOUS
    <3> QED BY <2>1, <3>1, <3>2 DEF SweepInv
  <2>2. CASE pings = group /\ pingCalls = <<>> BY <2>2, <1>3 DEF SweepInv
  <2> QED BY <2>1, <2>2 DEF ScreenInit
<1>6. ScreenTypes BY <1>1, <1>2, <1>3, <1>5 DEF ScreenTypes
<1>7. OvertakenInv BY <1>1, <1>3 DEF OvertakenInv
<1> QED BY <1>4, <1>5, <1>6, <1>7 DEF ScreenInv

(* Every step keeps the invariant. *)
LEMMA ScreenStep == ScreenInv /\ [ScreenNext]_screenVars => ScreenInv'
<1> SUFFICES ASSUME ScreenInv, [ScreenNext]_screenVars PROVE ScreenInv' OBVIOUS
<1>0. NewsPart /\ LeftPart /\ SweepPart BY ScreenParts
<1>1. ASSUME NEW i \in DOMAIN queue, Superseded(i) \/ ConnectBegins(i) \/ DisconnectServed(i) PROVE ScreenInv'
  <2>1. UNCHANGED left /\ UNCHANGED pingVars BY <1>1 DEF Superseded, ConnectBegins, DisconnectServed
  <2>2. NewsPart' BY <1>0, <1>1, NewsSuperseded, NewsConnectBegins, NewsDisconnectServed
  <2> QED BY <1>0, <2>1, <2>2, LeftStep, SweepAlone, ScreenParts
<1>2. CASE ConnectEnds
  <2>1. UNCHANGED left /\ UNCHANGED pingVars BY <1>2 DEF ConnectEnds
  <2> QED BY <1>0, <1>2, <2>1, NewsConnectEnds, LeftStep, SweepAlone, ScreenParts
<1>3. CASE StateAsked
  <2>1. Can("get") /\ Use("get") /\ UNCHANGED pingVars BY <1>3 DEF StateAsked
  <2> QED BY <1>0, <1>3, <2>1, NewsStateAsked, LeftStep, SweepAlone, ScreenParts
<1>4. CASE TunnelDrops
  <2>1. Use("drop") /\ UNCHANGED pingVars BY <1>4 DEF TunnelDrops
  <2> QED BY <1>0, <1>4, <2>1, NewsTunnelDrops, LeftStep, SweepAlone, ScreenParts
<1>5. CASE ToggleConnection \/ PluginConnects
  <2>1. (Use("toggle") \/ Use("plugin")) /\ UNCHANGED pingVars BY <1>5 DEF ToggleConnection, PluginConnects
  <2>2. LeftPart' BY <1>0, <2>1, LeftStep
  <2> QED BY <1>0, <1>5, <2>1, <2>2, NewsButton, SweepAlone, ScreenParts
<1>6. CASE DismissError
  <2>1. UNCHANGED left /\ UNCHANGED pingVars BY <1>6 DEF DismissError
  <2> QED BY <1>0, <1>6, <2>1, NewsDismissError, LeftStep, SweepAlone, ScreenParts
<1>7. ASSUME NEW i \in DOMAIN wire, NewsHeard(i) PROVE ScreenInv'
  <2>1. UNCHANGED left /\ UNCHANGED pingVars BY <1>7 DEF NewsHeard
  <2> QED BY <1>0, <1>7, <2>1, NewsNewsHeard, LeftStep, SweepAlone, ScreenParts
<1>8. CASE CheckIp \/ \E i \in DOMAIN ipCalls : IpFound(i) \/ IpHeard(i)
  <2>1. UNCHANGED pingVars BY <1>8 DEF CheckIp, IpFound, IpHeard
  <2> QED BY <1>0, <1>8, <2>1, AsideStep, SweepAlone, ScreenParts
<1>9. ASSUME NEW g \in Groups, SelectGroup(g) PROVE ScreenInv'
  BY <1>0, <1>9, AsideStep, SweepSelectGroup, ScreenParts
<1>10. ASSUME NEW i \in DOMAIN pingCalls, PingsHeard(i) PROVE ScreenInv'
  BY <1>0, <1>10, AsideStep, SweepPingsHeard, ScreenParts
<1>11. CASE UNCHANGED screenVars
  <2>1. UNCHANGED <<panel, goVars, wire, dismissed>> /\ UNCHANGED left /\ UNCHANGED pingVars
    BY <1>11 DEF screenVars
  <2>2. LeftPart' /\ Can("get")' = Can("get") BY <1>0, <2>1, LeftStep
  <2> QED BY <1>0, <2>1, <2>2, NewsAlone, SweepAlone, ScreenParts
<1> QED BY <1>1, <1>2, <1>3, <1>4, <1>5, <1>6, <1>7, <1>8, <1>9, <1>10, <1>11 DEF ScreenNext, ScreenServe

(***************************************************************************)
(* In every behaviour of the connection screen a command that was          *)
(* overtaken has its successor behind it, and once no command is under way *)
(* the last news on its way to useConnection tells Go's present state, or  *)
(* echoes the failure that the event before it told.                       *)
(***************************************************************************)
THEOREM ScreenInvariance == ScreenSpec => []ScreenInv
BY ScreenStart, ScreenStep, PTL DEF ScreenSpec

(***************************************************************************)
(* useConnection and refreshPings: once every call is answered and every   *)
(* event has arrived the screen shows Go's state, the server in use and    *)
(* the measurements of the selected configuration, however commands, drops *)
(* and dismissals were interleaved.                                        *)
(***************************************************************************)
THEOREM ScreenHoldsAlways == ScreenSpec => []ScreenHolds
<1>1. ScreenInv => ScreenHolds
  <2> SUFFICES ASSUME ScreenInv PROVE ScreenHolds OBVIOUS
  <2>1. PingsAreCurrent BY DEF ScreenInv, SweepInv, PingsAreCurrent
  <2>2. ASSUME Settled PROVE ShowsTunnel
    <3>1. wire = <<>> /\ queue = <<>> /\ job = "" /\ ~Can("get") BY <2>2 DEF Settled
    <3>2. ~EventComes
      <4>1. DOMAIN <<>> = {} OBVIOUS
      <4> QED BY <3>1, <4>1 DEF EventComes
    <3>3. LastTells BY <3>1, <3>2 DEF ScreenInv
    <3>4. wire = <<>> /\ Len(<<>>) = 0 BY <3>1
    <3>5. ~(Len(wire) = 1) /\ ~(Len(wire) > 1) BY <3>4
    <3> QED BY <3>3, <3>4, <3>5 DEF LastTells
  <2>3. ShowsTunnel /\ Connected(tunnel) => \A best \in Exits : Displayed(panel, best) = tunnel.exit
    BY DEF ShowsTunnel, Connected, Displayed
  <2> QED BY <2>1, <2>2, <2>3 DEF ScreenHolds, PanelIsTunnel
<1> QED BY <1>1, ScreenInvariance, PTL

=============================================================================
