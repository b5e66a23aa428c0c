--------------------------- MODULE SettingsProofs ---------------------------
(***************************************************************************)
(* Theorems about the settings the window shares with Go (SettingsSync) as *)
(* the routing screen, the server list and the settings screen use them,   *)
(* and about the undo of the routing screen, which those calls may not     *)
(* disturb.                                                                *)
(***************************************************************************)
EXTENDS RoutingProofs, ServerList, SettingsPages

-----------------------------------------------------------------------------
(* Stamps. *)

(* A bounded set of numbers has a greatest one. *)
LEMMA MaxIsIn ==
    ASSUME NEW S, S \subseteq Nat, S # {}, NEW k \in Nat, \A x \in S : x <= k
    PROVE  Max(S) \in S /\ \A x \in S : x <= Max(S)
<1> DEFINE B == {m \in Nat : \A x \in S : x <= m}
<1>1. B \subseteq Nat /\ B # {} BY k \in B
<1> DEFINE m == Min(B)
<1>2. m \in B /\ \A j \in B : m <= j BY <1>1, MinIsIn
<1> HIDE DEF m
<1>3. m \in S
  <2>1. SUFFICES ASSUME m \notin S PROVE FALSE OBVIOUS
  <2>2. \A x \in S : x < m BY <1>2, <2>1
  <2>3. m # 0 /\ m \in Nat
    <3>1. PICK x \in S : TRUE OBVIOUS
    <3> QED BY <2>2, <3>1, <1>2
  <2>4. m - 1 \in B BY <1>2, <2>2, <2>3
  <2> QED BY <1>2, <2>4
<1>4. m \in S /\ \A x \in S : m >= x BY <1>2, <1>3
<1>5. \E x \in S : \A y \in S : x >= y BY <1>4
<1>6. Max(S) \in S /\ \A y \in S : Max(S) >= y
  BY <1>5 DEF Max
<1> QED BY <1>6

(* The next stamp is above all there are. *)
LEMMA StampAbove ==
    ASSUME NEW cs, Stamped(cs), \A c \in cs : c.n \in Nat
    PROVE  Stamp(cs) \in Nat /\ \A c \in cs : c.n < Stamp(cs)
<1> DEFINE S == {c.n : c \in cs} \cup {0}
<1>1. PICK k \in Nat : \A c \in cs : c.n <= k BY DEF Stamped
<1>2. S \subseteq Nat /\ S # {} /\ \A x \in S : x <= k BY <1>1
<1>3. Max(S) \in S /\ \A x \in S : x <= Max(S) BY <1>2, MaxIsIn
<1>4. Stamp(cs) = 1 + Max(S) BY DEF Stamp
<1> HIDE DEF S
<1>5. Max(S) \in Nat BY <1>2, <1>3
<1>6. \A c \in cs : c.n \in S BY DEF S
<1> QED BY <1>2, <1>3, <1>4, <1>5, <1>6

(* Fewer calls are stamped as well. *)
LEMMA StampedLess ==
    ASSUME NEW cs, Stamped(cs), NEW ds, ds \subseteq cs
    PROVE  Stamped(ds)
BY DEF Stamped

(* One more, above the others. *)
LEMMA StampedMore ==
    ASSUME NEW cs, Stamped(cs), \A c \in cs : c.n \in Nat, NEW x, x.n \in Nat, \A c \in cs : c.n < x.n
    PROVE  Stamped(cs \cup {x})
<1>1. \A c \in cs \cup {x} : c.n <= x.n OBVIOUS
<1>2. \A c, d \in cs \cup {x} : c.n = d.n => c = d BY DEF Stamped
<1> QED BY <1>1, <1>2 DEF Stamped

(* One replaced by another of its stamp (a call that has read). *)
LEMMA StampedSame ==
    ASSUME NEW cs, Stamped(cs), NEW c \in cs, NEW x, x.n = c.n
    PROVE  Stamped((cs \ {c}) \cup {x})
BY DEF Stamped

-----------------------------------------------------------------------------
(* Calls. *)

(* The calls there are, all of them as they should be. *)
AllFit(cs) == (\A c \in cs : CallFits(c)) /\ Stamped(cs)

(* A request adds one call, which nobody has answered. *)
LEMMA RequestIs ==
    ASSUME NEW cs, NEW kind, NEW value, NEW id, NEW then, NEW data
    PROVE  \E x : /\ Posted(cs, kind, value, id, then, data) = cs \cup {x}
                  /\ DOMAIN x = CallFields /\ x.n = Stamp(cs) /\ x.kind = kind /\ x.value = value
                  /\ x.id = id /\ x.then = then /\ x.data = data
                  /\ ~x.read /\ ~x.done /\ x.ok /\ x.read \in BOOLEAN /\ x.done \in BOOLEAN /\ x.ok \in BOOLEAN
<1> DEFINE n == Stamp(cs)
           x == [n |-> n, kind |-> kind, value |-> value, id |-> id, then |-> then,
                 data |-> data, read |-> FALSE, done |-> FALSE, ok |-> TRUE]
<1>1. Posted(cs, kind, value, id, then, data) = cs \cup {x} BY DEF Posted
<1> HIDE DEF n
<1>2. /\ DOMAIN x = CallFields /\ x.n = n /\ x.kind = kind /\ x.value = value
      /\ x.id = id /\ x.then = then /\ x.data = data
      /\ ~x.read /\ ~x.done /\ x.ok /\ x.read \in BOOLEAN /\ x.done \in BOOLEAN /\ x.ok \in BOOLEAN
  BY DEF CallFields
<1> QED BY <1>1, <1>2 DEF n

(* The await may be of the command. *)
Goes(kind, then) ==
    /\ kind \in {"save", "hwid", "settings"} => then \in Replacing
    /\ kind \in {"geo", "flow", "core", "shortcut", "push"} => then \in Resaving
    /\ kind = "switch" => then \in {"tray", "switcher", "event"}
    /\ then \in Replacing => kind \in {"save", "hwid", "settings", "switch"}
    /\ then = "start:settings" => kind = "settings"

(* What a request keeps: a difference stays accounted for, and a save accounts
   for any. *)
LEMMA RequestKeeps ==
    ASSUME NEW cs, AllFit(cs), NEW kind, NEW value, NEW id, NEW then, NEW data, Goes(kind, then)
    PROVE  LET ds == Posted(cs, kind, value, id, then, data) IN
           /\ AllFit(ds)
           /\ \A st : ReadIsFresh(cs, st) => ReadIsFresh(ds, st)
           /\ \A sh, st : Agrees(cs, sh, st) => Agrees(ds, sh, st)
           /\ kind = "save" => \A sh, st : Agrees(ds, sh, st)
           /\ kind = "switch" /\ then = "switcher" =>
                \A sh, st : id \in SetupIds(st) => Agrees(ds, sh, st)
<1> DEFINE ds == Posted(cs, kind, value, id, then, data)
<1>1. PICK x : /\ Posted(cs, kind, value, id, then, data) = cs \cup {x}
               /\ DOMAIN x = CallFields /\ x.n = Stamp(cs) /\ x.kind = kind /\ x.value = value
               /\ x.id = id /\ x.then = then /\ x.data = data
               /\ ~x.read /\ ~x.done /\ x.ok /\ x.read \in BOOLEAN /\ x.done \in BOOLEAN /\ x.ok \in BOOLEAN
  BY ONLY RequestIs
<1>2. Stamp(cs) \in Nat /\ \A c \in cs : c.n \in Nat /\ c.n < Stamp(cs)
  BY StampAbove DEF AllFit, CallFits
<1>9. ds = cs \cup {x} BY <1>1
<1> HIDE DEF ds
<1>3. AllFit(ds)
  <2>1. CallFits(x) BY <1>1, <1>9, <1>2 DEF CallFits, Goes
  <2>2. Stamped(cs \cup {x}) BY <1>1, <1>9, <1>2, StampedMore DEF AllFit
  <2> QED BY <1>1, <1>9, <2>1, <2>2 DEF AllFit
<1>4. ASSUME NEW st, ReadIsFresh(cs, st) PROVE ReadIsFresh(ds, st)
  <2> SUFFICES ASSUME NEW c \in ds, c.kind = "switch", c.read, ~c.done
               PROVE  c.value = st /\ \A d \in ds : ~d.done => c.n <= d.n
    BY DEF ReadIsFresh
  <2>1. c \in cs BY <1>1, <1>9
  <2>2. c.value = st /\ \A d \in cs : ~d.done => c.n <= d.n BY <2>1, <1>4 DEF ReadIsFresh
  <2>3. c.n <= x.n BY <2>1, <1>1, <1>9, <1>2
  <2> QED BY <2>2, <2>3, <1>1, <1>9
<1>5. ~Brings(x) BY <1>1, <1>9 DEF Brings
<1>6. ASSUME NEW sh, NEW st, Agrees(cs, sh, st) PROVE Agrees(ds, sh, st)
  BY <1>1, <1>9, <1>5, <1>6 DEF Agrees
<1>7. ASSUME kind = "save", NEW sh, NEW st PROVE Agrees(ds, sh, st)
  BY <1>1, <1>9, <1>7 DEF Agrees, Saves
<1>8. ASSUME kind = "switch", then = "switcher", NEW sh, NEW st, id \in SetupIds(st) PROVE Agrees(ds, sh, st)
  BY <1>1, <1>9, <1>8 DEF Agrees, WillSwitch
<1> QED BY <1>3, <1>4, <1>6, <1>7, <1>8 DEF ds

(* What taking an answer off keeps, for the copy it leaves behind. *)
LEMMA HeardKeeps ==
    ASSUME NEW cs, AllFit(cs), NEW c \in cs, c.done,
           \A d \in {e \in cs : e.done} : c.n <= d.n
    PROVE  /\ \A sh, st : Agrees(cs, sh, st) /\ ~Brings(c) /\ ~Saves(c) => Agrees(cs \ {c}, sh, st)
           /\ \A sh, st : Agrees(cs, sh, st) /\ Brings(c) => c.value = st \/ Agrees(cs \ {c}, sh, st)
           /\ \A sh, st : Agrees(cs, sh, st) /\ Brings(c) => Agrees(cs \ {c}, c.value, st)
<1> SUFFICES ASSUME NEW sh, NEW st, Agrees(cs, sh, st)
             PROVE  /\ ~Brings(c) /\ ~Saves(c) => Agrees(cs \ {c}, sh, st)
                    /\ Brings(c) => c.value = st \/ Agrees(cs \ {c}, sh, st)
                    /\ Brings(c) => Agrees(cs \ {c}, c.value, st)
  OBVIOUS
<1>0. ~WillSwitch(c, st) BY DEF WillSwitch
<1>1. CASE \E w \in cs : Saves(w) \/ WillSwitch(w, st)
  <2>1. PICK w \in cs : Saves(w) \/ WillSwitch(w, st) BY <1>1
  <2>2. Brings(c) => ~Saves(c) BY DEF Brings, Saves, Replacing, Resaving
  <2>3. ~Saves(c) => w \in cs \ {c} BY <2>1, <1>0
  <2> QED BY <2>1, <2>2, <2>3 DEF Agrees
<1>2. CASE \E w \in cs : Brings(w) /\ w.value = st /\ \A d \in cs : Brings(d) => d.n <= w.n
  <2>1. PICK w \in cs : Brings(w) /\ w.value = st /\ \A d \in cs : Brings(d) => d.n <= w.n BY <1>2
  <2>2. CASE w # c
    BY <2>1, <2>2 DEF Agrees
  <2>3. CASE w = c
    <3>1. \A d \in cs \ {c} : ~Brings(d)
      <4> SUFFICES ASSUME NEW d \in cs \ {c}, Brings(d) PROVE FALSE OBVIOUS
      <4>1. d.n <= c.n BY <2>1, <2>3
      <4>2. c.n <= d.n BY DEF Brings
      <4>3. c.n \in Nat /\ d.n \in Nat BY DEF AllFit, CallFits
      <4>4. c = d BY <4>1, <4>2, <4>3 DEF AllFit, Stamped
      <4> QED BY <4>4
    <3> QED BY <2>1, <2>3, <3>1 DEF Agrees
  <2> QED BY <2>2, <2>3
<1>3. CASE sh = st /\ \A d \in cs : ~Brings(d)
  BY <1>3 DEF Agrees
<1> QED BY <1>1, <1>2, <1>3 DEF Agrees

(* Taking an answer off leaves the rest as it was. *)
LEMMA LessFits ==
    ASSUME NEW cs, AllFit(cs), NEW ds, ds \subseteq cs
    PROVE  /\ AllFit(ds)
           /\ \A st : ReadIsFresh(cs, st) => ReadIsFresh(ds, st)
BY StampedLess DEF AllFit, ReadIsFresh

(* Go's answer x to c, which stays as it was but for done, ok and what it
   carries: it accounts for what it brings, and a call that is no save and
   finds nothing to switch accounted for nothing. *)
LEMMA AnswerKeeps ==
    ASSUME NEW cs, AllFit(cs), NEW c \in cs, ~c.done, NEW x, CallFits(x), x.done,
           \A d \in cs : d.n < x.n
    PROVE  LET ds == (cs \ {c}) \cup {x} IN
           /\ AllFit(ds)
           /\ \A st : ReadIsFresh(cs, st) => ReadIsFresh(ds, st)
           /\ \A sh, st : Brings(x) /\ x.value = st => Agrees(ds, sh, st)
           /\ \A sh, st : Saves(x) => Agrees(ds, sh, st)
           /\ \A sh, st : Agrees(cs, sh, st) /\ c.kind # "save" /\ ~WillSwitch(c, st) /\ ~Brings(x)
                            => Agrees(ds, sh, st)
<1> DEFINE ds == (cs \ {c}) \cup {x}
<1>1. AllFit(ds)
  <2>1. Stamped(cs \ {c}) /\ \A d \in cs \ {c} : d.n \in Nat /\ d.n < x.n
    BY StampedLess DEF AllFit, CallFits
  <2>2. x.n \in Nat BY DEF CallFits
  <2>3. Stamped(ds) BY <2>1, <2>2, StampedMore
  <2> QED BY <2>3 DEF AllFit
<1>2. ASSUME NEW st, ReadIsFresh(cs, st) PROVE ReadIsFresh(ds, st)
  BY <1>2 DEF ReadIsFresh
<1>3. ASSUME NEW sh, NEW st, Brings(x), x.value = st PROVE Agrees(ds, sh, st)
  <2>1. \A d \in ds : Brings(d) => d.n <= x.n BY DEF AllFit, CallFits
  <2> QED BY <1>3, <2>1 DEF Agrees
<1>4. ASSUME NEW sh, NEW st, Saves(x) PROVE Agrees(ds, sh, st)
  BY <1>4 DEF Agrees
<1>5. ASSUME NEW sh, NEW st, Agrees(cs, sh, st), c.kind # "save", ~WillSwitch(c, st), ~Brings(x)
      PROVE  Agrees(ds, sh, st)
  <2>1. ~Saves(c) /\ ~Brings(c) BY <1>5 DEF Saves, Brings
  <2> QED BY <1>5, <2>1 DEF Agrees
<1> QED BY <1>1, <1>2, <1>3, <1>4, <1>5

(* A further answer, above the others. *)
LEMMA MoreAnswers ==
    ASSUME NEW cs, AllFit(cs), NEW x, CallFits(x), x.done, \A d \in cs : d.n < x.n
    PROVE  /\ AllFit(cs \cup {x})
           /\ \A st : ReadIsFresh(cs, st) => ReadIsFresh(cs \cup {x}, st)
           /\ \A sh, st : Brings(x) /\ x.value = st => Agrees(cs \cup {x}, sh, st)
<1>1. Stamped(cs \cup {x}) BY StampedMore DEF AllFit, CallFits
<1>2. \A d \in cs \cup {x} : Brings(d) => d.n <= x.n BY DEF AllFit, CallFits
<1>3. AllFit(cs \cup {x}) BY <1>1 DEF AllFit
<1>4. \A st : ReadIsFresh(cs, st) => ReadIsFresh(cs \cup {x}, st) BY DEF ReadIsFresh
<1>5. \A sh, st : Brings(x) /\ x.value = st => Agrees(cs \cup {x}, sh, st) BY <1>2 DEF Agrees
<1> QED BY <1>3, <1>4, <1>5

(* A call taken off unanswered. *)
LEMMA DroppedKeeps ==
    ASSUME NEW cs, NEW c \in cs, ~c.done, c.kind # "save"
    PROVE  \A sh, st : Agrees(cs, sh, st) /\ ~WillSwitch(c, st) => Agrees(cs \ {c}, sh, st)
<1> SUFFICES ASSUME NEW sh, NEW st, Agrees(cs, sh, st), ~WillSwitch(c, st) PROVE Agrees(cs \ {c}, sh, st)
  OBVIOUS
<1>1. ~Saves(c) /\ ~Brings(c) BY DEF Saves, Brings
<1> QED BY <1>1 DEF Agrees

(* While the oldest call is served no other has read. *)
LEMMA OldestReads ==
    ASSUME NEW cs, AllFit(cs), NEW st, ReadIsFresh(cs, st), NEW c \in cs, ~c.done,
           \A d \in {e \in cs : ~e.done} : c.n <= d.n
    PROVE  \A st2 : ReadIsFresh(cs \ {c}, st2)
<1> SUFFICES ASSUME NEW w \in cs \ {c}, w.kind = "switch", w.read, ~w.done PROVE FALSE
  BY DEF ReadIsFresh
<1>1. w.n <= c.n BY DEF ReadIsFresh
<1>2. c.n <= w.n OBVIOUS
<1>3. c.n \in Nat /\ w.n \in Nat BY DEF AllFit, CallFits
<1>4. w = c BY <1>1, <1>2, <1>3 DEF AllFit, Stamped
<1> QED BY <1>4

(* A call with other contents. *)
Answered(c, n, value, ok) == [c EXCEPT !.n = n, !.done = TRUE, !.ok = ok, !.value = value]

(* It fits as the call did. *)
LEMMA AnswerIs ==
    ASSUME NEW c, CallFits(c), NEW n \in Nat, NEW value, NEW ok \in BOOLEAN, c.kind = "settings" => ok
    PROVE  LET x == Answered(c, n, value, ok) IN
           /\ CallFits(x) /\ x.done /\ (x.ok <=> ok) /\ x.value = value /\ x.n = n
           /\ x.then = c.then /\ x.kind = c.kind /\ x.id = c.id /\ x.data = c.data
<1> DEFINE x == [c EXCEPT !.n = n, !.done = TRUE, !.ok = ok, !.value = value]
<1>1. DOMAIN c = CallFields BY DEF CallFits
<1>2. /\ DOMAIN x = CallFields /\ x.done = TRUE /\ x.ok = ok /\ x.value = value /\ x.n = n
      /\ x.then = c.then /\ x.kind = c.kind /\ x.id = c.id /\ x.data = c.data /\ x.read = c.read
  BY <1>1 DEF CallFields
<1> HIDE DEF x
<1>3. CallFits(x) BY <1>2 DEF CallFits
<1>4. x.done /\ (x.ok <=> ok) BY <1>2
<1> QED BY <1>2, <1>3, <1>4 DEF x, Answered

(* Go's answer to c in the next state. *)
LEMMA AnswerStep ==
    ASSUME AllFit(calls), NEW c \in calls, NEW value, NEW ok \in BOOLEAN, c.kind = "settings" => ok,
           Answer(c, value, ok)
    PROVE  \E x : /\ calls' = (calls \ {c}) \cup {x} /\ CallFits(x) /\ x.done /\ (x.ok <=> ok)
                  /\ x.value = value /\ x.then = c.then /\ x.kind = c.kind /\ x.id = c.id /\ x.data = c.data
                  /\ \A d \in calls : d.n < x.n
<1> DEFINE n == Stamp(calls)
           x == Answered(c, n, value, ok)
<1>1. n \in Nat /\ \A d \in calls : d.n < n BY StampAbove DEF AllFit, CallFits
<1>2. calls' = (calls \ {c}) \cup {x} BY DEF Answer, Answered
<1>3. CallFits(c) BY DEF AllFit
<1> HIDE DEF n
<1>4. /\ CallFits(x) /\ x.done /\ (x.ok <=> ok) /\ x.value = value /\ x.n = n
      /\ x.then = c.then /\ x.kind = c.kind /\ x.id = c.id /\ x.data = c.data
  BY <1>1, <1>3, AnswerIs
<1> HIDE DEF x
<1> QED BY <1>1, <1>2, <1>4

-----------------------------------------------------------------------------
(* Steps of Go. *)

(* ShownInv, by its parts. *)
LEMMA ShownIs ==
    ShownInv <=> /\ "inOrder" \in DOMAIN budget /\ failed \in BOOLEAN /\ AllFit(calls)
                 /\ budget["inOrder"] = 1 => ReadIsFresh(calls, stored)
                 /\ budget["inOrder"] = 1 /\ ~failed => Agrees(calls, shown, stored)
BY DEF ShownInv, AllFit

(* The same, of the next state. *)
LEMMA ShownNext ==
    ShownInv' <=> /\ "inOrder" \in DOMAIN budget' /\ failed' \in BOOLEAN /\ AllFit(calls')
                  /\ budget'["inOrder"] = 1 => ReadIsFresh(calls', stored')
                  /\ budget'["inOrder"] = 1 /\ ~failed' => Agrees(calls', shown', stored')
BY DEF ShownInv, AllFit

(* Bounds other than the order may be used up. *)
LEMMA SpendKeeps ==
    ASSUME "inOrder" \in DOMAIN budget, NEW what, what # "inOrder", Spend(what)
    PROVE  "inOrder" \in DOMAIN budget' /\ budget'["inOrder"] = budget["inOrder"]
BY DEF Spend

(* Go answers the call it takes next: what it has changed comes back with the
   answer, or is saved again when the answer is heard, unless a save failed. *)
LEMMA AnsweredStep ==
    ASSUME ShownInv, NEW c \in calls, NextServed(c), NEW x,
           calls' = (calls \ {c}) \cup {x}, CallFits(x), x.done, x.kind = c.kind,
           \A d \in calls : d.n < x.n,
           "inOrder" \in DOMAIN budget', budget'["inOrder"] = budget["inOrder"],
           failed' \in BOOLEAN, failed => failed', shown' = shown,
           \/ failed'
           \/ Saves(x)
           \/ Brings(x) /\ x.value = stored'
           \/ stored' = stored /\ c.kind # "save" /\ ~Brings(x) /\ ~WillSwitch(c, stored)
    PROVE  ShownInv'
<1>1. /\ AllFit(calls)
      /\ budget["inOrder"] = 1 => ReadIsFresh(calls, stored)
      /\ budget["inOrder"] = 1 /\ ~failed => Agrees(calls, shown, stored)
  BY ShownIs
<1>2. /\ ~c.done
      /\ budget["inOrder"] = 1 => \A d \in {e \in calls : ~e.done} : c.n <= d.n
  BY DEF NextServed, Oldest
<1>3. AllFit(calls') BY <1>1, <1>2, AnswerKeeps
<1>4. budget["inOrder"] = 1 => ReadIsFresh(calls', stored')
  <2> SUFFICES ASSUME budget["inOrder"] = 1 PROVE ReadIsFresh(calls', stored') OBVIOUS
  <2>1. ReadIsFresh(calls \ {c}, stored') BY <1>1, <1>2, OldestReads
  <2> QED BY <2>1 DEF ReadIsFresh
<1>5. budget["inOrder"] = 1 /\ ~failed' => Agrees(calls', shown', stored')
  <2> SUFFICES ASSUME budget["inOrder"] = 1, ~failed' PROVE Agrees(calls', shown', stored') OBVIOUS
  <2>1. Agrees(calls, shown, stored) BY <1>1
  <2>2. CASE Saves(x) BY <1>1, <1>2, <2>2, AnswerKeeps
  <2>3. CASE Brings(x) /\ x.value = stored' BY <1>1, <1>2, <2>3, AnswerKeeps
  <2>4. CASE stored' = stored /\ c.kind # "save" /\ ~Brings(x) /\ ~WillSwitch(c, stored)
    BY <1>1, <1>2, <2>1, <2>4, AnswerKeeps
  <2> QED BY <2>2, <2>3, <2>4
<1> QED BY <1>3, <1>4, <1>5, ShownNext

(* The same for an answer that carries settings. *)
LEMMA AnsweredWith ==
    ASSUME ShownInv, NEW c \in calls, NextServed(c), NEW value, NEW ok \in BOOLEAN, c.kind = "settings" => ok,
           Answer(c, value, ok), budget' = budget \/ Spend("fail"),
           failed' \in BOOLEAN, failed => failed', shown' = shown,
           \/ failed'
           \/ ok /\ c.then \in Resaving
           \/ ok /\ c.then \in Replacing /\ value = stored'
           \/ stored' = stored /\ c.kind # "save" /\ ~ok /\ ~WillSwitch(c, stored)
    PROVE  ShownInv'
<1>1. "inOrder" \in DOMAIN budget /\ AllFit(calls) BY ShownIs
<1>2. PICK x : /\ calls' = (calls \ {c}) \cup {x} /\ CallFits(x) /\ x.done /\ (x.ok <=> ok)
               /\ x.value = value /\ x.then = c.then /\ x.kind = c.kind /\ x.id = c.id /\ x.data = c.data
               /\ \A d \in calls : d.n < x.n
  BY <1>1, AnswerStep
<1>3. "inOrder" \in DOMAIN budget' /\ budget'["inOrder"] = budget["inOrder"]
  BY <1>1, SpendKeeps
<1>4. \/ failed'
      \/ Saves(x)
      \/ Brings(x) /\ x.value = stored'
      \/ stored' = stored /\ c.kind # "save" /\ ~Brings(x) /\ ~WillSwitch(c, stored)
  BY <1>2 DEF Saves, Brings
<1> QED BY <1>2, <1>3, <1>4, AnsweredStep

(* SaveSettings. *)
LEMMA SaveStep ==
    ASSUME ShownInv, NEW c \in calls, SaveServed(c) \/ SaveRefused(c)
    PROVE  ShownInv'
<1>1. failed \in BOOLEAN /\ CallFits(c) BY ShownIs DEF AllFit
<1>2. CASE SaveServed(c)
  <2>1. NextServed(c) /\ c.kind = "save" /\ Answer(c, stored', TRUE) /\ UNCHANGED <<shown, failed, budget>>
    BY <1>2 DEF SaveServed
  <2>2. c.then \in Replacing BY <1>1, <2>1 DEF CallFits
  <2> QED BY <1>1, <2>1, <2>2, AnsweredWith
<1>3. CASE SaveRefused(c)
  <2>1. NextServed(c) /\ c.kind = "save" /\ Answer(c, c.value, FALSE) /\ failed' = TRUE /\ Spend("fail") /\ UNCHANGED shown
    BY <1>3 DEF SaveRefused
  <2> QED BY <1>1, <2>1, AnsweredWith
<1> QED BY <1>2, <1>3

(* The commands that read and save. *)
LEMMA CommandStep ==
    ASSUME ShownInv, NEW c \in calls, CommandServed(c)
    PROVE  ShownInv'
<1>1. failed \in BOOLEAN /\ CallFits(c) BY ShownIs DEF AllFit
<1>2. NextServed(c) /\ c.kind \in {"hwid", "geo", "flow"} /\ UNCHANGED shown BY DEF CommandServed
<1>3. c.then \in Replacing \cup Resaving /\ ~WillSwitch(c, stored) BY <1>1, <1>2 DEF CallFits, WillSwitch
<1>4. CASE stored' = Commanded(c) /\ Answer(c, stored', TRUE) /\ UNCHANGED <<failed, budget>>
  BY <1>1, <1>2, <1>3, <1>4, AnsweredWith
<1>5. CASE UNCHANGED <<stored, failed, budget>> /\ Answer(c, stored, FALSE)
  BY <1>1, <1>2, <1>3, <1>5, AnsweredWith
<1>6. CASE Spend("fail") /\ failed' = TRUE /\ Answer(c, stored', FALSE)
  BY <1>1, <1>2, <1>3, <1>6, AnsweredWith
<1> QED BY <1>4, <1>5, <1>6 DEF CommandServed

(* What a command works on is Go's settings of this moment. *)
LEMMA ReadStep ==
    ASSUME ShownInv, NEW c \in calls, ReadSettings(c)
    PROVE  ShownInv'
<1> DEFINE x == [c EXCEPT !.read = TRUE, !.value = stored]
<1>1. /\ AllFit(calls) /\ "inOrder" \in DOMAIN budget /\ failed \in BOOLEAN
      /\ budget["inOrder"] = 1 => ReadIsFresh(calls, stored)
      /\ budget["inOrder"] = 1 /\ ~failed => Agrees(calls, shown, stored)
  BY ShownIs
<1>2. /\ ~c.done /\ c.kind # "save" /\ calls' = (calls \ {c}) \cup {x}
      /\ budget["inOrder"] = 1 => \A d \in {e \in calls : ~e.done} : c.n <= d.n
      /\ UNCHANGED <<shown, stored, failed, budget>>
  BY DEF ReadSettings, NextServed, Oldest
<1>3. CallFits(c) BY <1>1 DEF AllFit
<1>4. /\ DOMAIN x = CallFields /\ x.value = stored /\ x.read = TRUE /\ x.n = c.n /\ x.kind = c.kind
      /\ x.id = c.id /\ x.then = c.then /\ x.done = c.done /\ x.ok = c.ok
  BY <1>3 DEF CallFits, CallFields
<1> HIDE DEF x
<1>5. CallFits(x) BY <1>3, <1>4 DEF CallFits
<1>6. AllFit(calls') BY <1>1, <1>2, <1>4, <1>5, StampedSame DEF AllFit
<1>7. budget["inOrder"] = 1 => ReadIsFresh(calls', stored)
  <2> SUFFICES ASSUME budget["inOrder"] = 1 PROVE ReadIsFresh(calls', stored) OBVIOUS
  <2>1. ReadIsFresh(calls \ {c}, stored) BY <1>1, <1>2, OldestReads
  <2> SUFFICES ASSUME NEW w \in calls', w.kind = "switch", w.read, ~w.done
               PROVE  w.value = stored /\ \A d \in calls' : ~d.done => w.n <= d.n
    BY DEF ReadIsFresh
  <2>2. CASE w = x
    <3>1. c.n \in Nat BY <1>3 DEF CallFits
    <3> QED BY <1>2, <1>4, <2>2, <3>1
  <2>3. CASE w \in calls \ {c}
    <3>1. w.n <= c.n /\ c.n <= w.n BY <1>1, <1>2, <2>3 DEF ReadIsFresh
    <3>2. w.n \in Nat /\ c.n \in Nat BY <1>1, <2>3 DEF AllFit, CallFits
    <3>3. w = c BY <1>1, <2>3, <3>1, <3>2 DEF AllFit, Stamped
    <3> QED BY <2>3, <3>3
  <2> QED BY <1>2, <2>2, <2>3
<1>8. ASSUME Agrees(calls, shown, stored) PROVE Agrees(calls', shown, stored)
  <2>1. ~Saves(c) /\ ~Brings(c) /\ ~Brings(x) BY <1>2, <1>4 DEF Saves, Brings
  <2>2. WillSwitch(c, stored) => WillSwitch(x, stored) BY <1>4 DEF WillSwitch
  <2> QED BY <1>2, <1>8, <2>1, <2>2 DEF Agrees
<1> QED BY <1>1, <1>2, <1>6, <1>7, <1>8, ShownNext

(* The event and the answer of a switch. *)
EventOf(c, n, value) == [[c EXCEPT !.n = n, !.then = "event"] EXCEPT !.value = value, !.done = TRUE]
ReplyOf(c, n, value, ok) == [[c EXCEPT !.n = n, !.ok = ok] EXCEPT !.value = value, !.done = TRUE]

(* The event a switch sends fits. *)
LEMMA EventFits ==
    ASSUME NEW c, CallFits(c), c.kind = "switch", ~c.done, NEW n \in Nat, NEW value
    PROVE  /\ CallFits(EventOf(c, n, value)) /\ EventOf(c, n, value).done /\ EventOf(c, n, value).ok
           /\ EventOf(c, n, value).then = "event" /\ EventOf(c, n, value).value = value
           /\ EventOf(c, n, value).n = n /\ EventOf(c, n, value).kind = "switch"
<1> DEFINE ev == EventOf(c, n, value)
<1>1. DOMAIN c = CallFields /\ c.ok /\ c.ok \in BOOLEAN BY DEF CallFits
<1>2. /\ DOMAIN ev = CallFields /\ ev.n = n /\ ev.then = "event" /\ ev.value = value /\ ev.done = TRUE
      /\ ev.ok = c.ok /\ ev.kind = c.kind /\ ev.read = c.read
  BY <1>1 DEF CallFields, EventOf
<1> HIDE DEF ev
<1>4. CallFits(ev) BY <1>2 DEF CallFits, Replacing
<1>6. ev.done /\ ev.ok BY <1>1, <1>2
<1> QED BY <1>2, <1>4, <1>6 DEF ev

(* So does its answer. *)
LEMMA ReplyFits ==
    ASSUME NEW c, CallFits(c), c.kind = "switch", ~c.done, NEW n \in Nat, NEW value, NEW ok \in BOOLEAN
    PROVE  /\ CallFits(ReplyOf(c, n, value, ok)) /\ ReplyOf(c, n, value, ok).done
           /\ (ReplyOf(c, n, value, ok).ok <=> ok) /\ ReplyOf(c, n, value, ok).then = c.then
           /\ ReplyOf(c, n, value, ok).value = value /\ ReplyOf(c, n, value, ok).n = n
           /\ ReplyOf(c, n, value, ok).kind = "switch"
<1> DEFINE an == ReplyOf(c, n, value, ok)
<1>1. DOMAIN c = CallFields BY DEF CallFits
<1>3. /\ DOMAIN an = CallFields /\ an.n = n /\ an.then = c.then /\ an.value = value /\ an.done = TRUE
      /\ an.ok = ok /\ an.kind = c.kind /\ an.read = c.read
  BY <1>1 DEF CallFields, ReplyOf
<1> HIDE DEF an
<1>5. CallFits(an) BY <1>3 DEF CallFits, Replacing
<1>7. an.done /\ (an.ok <=> ok) BY <1>3
<1> QED BY <1>3, <1>5, <1>7 DEF an

ToldSet(c, events, ok, n, m, value) ==
    {[d EXCEPT !.value = value, !.done = TRUE] :
       d \in {[c EXCEPT !.n = n, !.then = "event"] : e \in events} \cup
             (IF c.then = "tray" THEN {} ELSE {[c EXCEPT !.n = m, !.ok = ok]})}

(* They are all that a switch makes of its call. *)
LEMMA ToldAre ==
    ASSUME NEW c, NEW events \in SUBSET {"settings"}, NEW ok, NEW n, NEW m, NEW value
    PROVE  ToldSet(c, events, ok, n, m, value)
           = (IF events = {} THEN {} ELSE {EventOf(c, n, value)})
             \cup (IF c.then = "tray" THEN {} ELSE {ReplyOf(c, m, value, ok)})
<1> DEFINE e0 == [c EXCEPT !.n = n, !.then = "event"]
           a0 == [c EXCEPT !.n = m, !.ok = ok]
           f(d) == [d EXCEPT !.value = value, !.done = TRUE]
<1>1. {e0 : e \in events} = IF events = {} THEN {} ELSE {e0} OBVIOUS
<1>2. f(e0) = EventOf(c, n, value) /\ f(a0) = ReplyOf(c, m, value, ok) BY DEF EventOf, ReplyOf
<1> HIDE DEF f, e0, a0
<1>3. \A A, B : {f(d) : d \in A \cup B} = {f(d) : d \in A} \cup {f(d) : d \in B} OBVIOUS
<1>4. \A y : {f(d) : d \in {y}} = {f(y)} OBVIOUS
<1>5. {f(d) : d \in {}} = {} OBVIOUS
<1>6. {f(d) : d \in {e0 : e \in events} \cup (IF c.then = "tray" THEN {} ELSE {a0})}
      = (IF events = {} THEN {} ELSE {f(e0)}) \cup (IF c.then = "tray" THEN {} ELSE {f(a0)})
  BY <1>1, <1>3, <1>4, <1>5
<1> QED BY <1>2, <1>6 DEF f, e0, a0, ToldSet

(* SwitchRoutingSetup. *)
LEMMA SwitchStep ==
    ASSUME ShownInv, NEW c \in calls, SwitchServed(c)
    PROVE  ShownInv'
<1>1. /\ AllFit(calls) /\ "inOrder" \in DOMAIN budget /\ failed \in BOOLEAN
      /\ budget["inOrder"] = 1 => ReadIsFresh(calls, stored)
      /\ budget["inOrder"] = 1 /\ ~failed => Agrees(calls, shown, stored)
  BY ShownIs
<1>2. /\ NextServed(c) /\ ~c.done /\ c.kind = "switch" /\ c.read /\ UNCHANGED shown
      /\ budget["inOrder"] = 1 => \A d \in {e \in calls : ~e.done} : c.n <= d.n
  BY DEF SwitchServed, NextServed, Oldest
<1>3. CallFits(c) BY <1>1 DEF AllFit
<1>4. budget["inOrder"] = 1 => \A st : ReadIsFresh(calls \ {c}, st) BY <1>1, <1>2, OldestReads
<1>5. AllFit(calls \ {c}) BY <1>1, LessFits
<1>6. CASE c.id \in SetupIds(c.value) \ {c.value.active}
  <2>1. PICK events \in SUBSET {"settings"}, ok \in BOOLEAN :
          /\ Told(c, events, ok)
          /\ (failed' = failed /\ budget' = budget /\ events = {"settings"} /\ ok) \/ (failed' = TRUE /\ Spend("fail"))
    <3>1. \/ Told(c, {"settings"}, TRUE) /\ failed' = failed /\ budget' = budget
          \/ Told(c, {}, FALSE) /\ failed' = TRUE /\ Spend("fail")
          \/ Told(c, {"settings"}, FALSE) /\ failed' = TRUE /\ Spend("fail")
      BY <1>6 DEF SwitchServed
    <3> QED BY <3>1, Zenon
  <2>0. PICK st : st = stored' OBVIOUS
  <2>a. PICK n : n = Stamp(calls) OBVIOUS
  <2>b. n \in Nat /\ n + 1 \in Nat /\ \A d \in calls : d.n \in Nat /\ d.n < n
    BY <1>1, <2>a, StampAbove DEF AllFit, CallFits
  <2> DEFINE e == EventOf(c, n, st)
             a == ReplyOf(c, n + 1, st, ok)
  <2>c. calls' = (calls \ {c}) \cup ((IF events = {} THEN {} ELSE {e}) \cup (IF c.then = "tray" THEN {} ELSE {a}))
    <3>1. calls' = (calls \ {c}) \cup ToldSet(c, events, ok, n, n + 1, st)
      BY <2>1, <2>0, <2>a DEF Told, ToldSet
    <3> QED BY <3>1, ToldAre
  <2>d. CallFits(e) /\ e.done /\ e.ok /\ e.then = "event" /\ e.value = st /\ e.n = n /\ e.kind = "switch"
    BY <1>2, <1>3, <2>b, EventFits
  <2>e. /\ CallFits(a) /\ a.done /\ (a.ok <=> ok) /\ a.then = c.then /\ a.value = st
        /\ a.n = n + 1 /\ a.kind = "switch"
    BY <1>2, <1>3, <2>b, ReplyFits
  <2> HIDE DEF e, a
  <2>2. /\ calls' = (calls \ {c}) \cup (IF events = {} THEN {} ELSE {e}) \cup (IF c.then = "tray" THEN {} ELSE {a})
        /\ CallFits(e) /\ e.done /\ e.ok /\ e.then = "event" /\ e.value = stored' /\ e.kind = "switch"
        /\ CallFits(a) /\ a.done /\ (a.ok <=> ok) /\ a.then = c.then /\ a.value = stored' /\ a.kind = "switch"
        /\ (\A d \in calls : d.n < e.n) /\ (\A d \in calls : d.n < a.n) /\ e.n < a.n
    BY <2>0, <2>b, <2>c, <2>d, <2>e
  <2>3. "inOrder" \in DOMAIN budget' /\ budget'["inOrder"] = budget["inOrder"] BY <1>1, <2>1, SpendKeeps
  <2> DEFINE cs == calls \ {c}
             es == IF events = {} THEN cs ELSE cs \cup {e}
  <2>4. calls' = IF c.then = "tray" THEN es ELSE es \cup {a} BY <2>2
  <2>5. /\ AllFit(cs \cup {e})
        /\ \A x : ReadIsFresh(cs, x) => ReadIsFresh(cs \cup {e}, x)
        /\ \A sh, x : Brings(e) /\ e.value = x => Agrees(cs \cup {e}, sh, x)
    BY <1>5, <2>2, MoreAnswers
  <2>6. /\ AllFit(es) /\ \A x : ReadIsFresh(cs, x) => ReadIsFresh(es, x)
        /\ events # {} => \A sh : Agrees(es, sh, stored')
    <3>1. Brings(e) BY <2>2 DEF Brings, Replacing
    <3> QED BY <1>5, <2>2, <2>5, <3>1
  <2>7. \A d \in es : d.n < a.n BY <2>2
  <2> HIDE DEF cs, es
  <2>8. c.then # "tray" =>
          /\ AllFit(es \cup {a})
          /\ \A x : ReadIsFresh(es, x) => ReadIsFresh(es \cup {a}, x)
          /\ \A sh, x : Brings(a) /\ a.value = x => Agrees(es \cup {a}, sh, x)
    BY <2>2, <2>6, <2>7, MoreAnswers
  <2>9. c.then # "tray" /\ ok => Brings(a) BY <1>2, <1>3, <2>2 DEF Brings, CallFits, Replacing
  <2>10. AllFit(calls') BY <2>4, <2>6, <2>8
  <2>11. budget["inOrder"] = 1 => ReadIsFresh(calls', stored') BY <1>4, <2>4, <2>6, <2>8 DEF cs
  <2>12. ~failed' => Agrees(calls', shown', stored') BY <1>1, <2>1, <2>2, <2>4, <2>6, <2>8, <2>9
  <2>13. failed' \in BOOLEAN BY <1>1, <2>1
  <2> QED BY <2>3, <2>10, <2>11, <2>12, <2>13, ShownNext
<1>7. CASE c.id \notin SetupIds(c.value) \ {c.value.active} /\ c.then = "tray"
  <2>1. calls' = calls \ {c} /\ UNCHANGED <<shown, stored, failed, budget>> BY <1>7 DEF SwitchServed
  <2>2. ~WillSwitch(c, stored) BY <1>7 DEF WillSwitch
  <2>3. Agrees(calls, shown, stored) => Agrees(calls \ {c}, shown, stored) BY <1>2, <2>2, DroppedKeeps
  <2> QED BY <1>1, <1>4, <1>5, <2>1, <2>3, ShownNext
<1>8. CASE c.id \notin SetupIds(c.value) \ {c.value.active} /\ c.then # "tray"
  <2> DEFINE ok == (c.id = c.value.active)
  <2>1. Answer(c, c.value, ok) /\ UNCHANGED <<shown, stored, failed, budget>> BY <1>8 DEF SwitchServed
  <2>2. c.then \in Replacing BY <1>2, <1>3, <1>8 DEF CallFits, Replacing
  <2>3. ok \in BOOLEAN OBVIOUS
  <2>4. CASE budget["inOrder"] = 1
    <3>1. c.value = stored BY <1>1, <1>2, <2>4 DEF ReadIsFresh
    <3>2. ~ok => ~WillSwitch(c, stored) BY <1>8, <3>1 DEF WillSwitch
    <3> HIDE DEF ok
    <3> QED BY <1>1, <1>2, <2>1, <2>2, <2>3, <3>1, <3>2, AnsweredWith
  <2>5. CASE budget["inOrder"] # 1
    <3> HIDE DEF ok
    <3>1. PICK x : /\ calls' = (calls \ {c}) \cup {x} /\ CallFits(x) /\ x.done
                   /\ \A d \in calls : d.n < x.n
      BY <1>1, <1>2, <2>1, <2>3, AnswerStep
    <3>2. AllFit(calls') BY <1>1, <1>2, <3>1, AnswerKeeps
    <3> QED BY <1>1, <2>1, <2>5, <3>2, ShownNext
  <2> QED BY <2>4, <2>5
<1> QED BY <1>6, <1>7, <1>8

(* Go's side keeps the invariant, whichever part of the window has called. *)
LEMMA ServeStep ==
    ASSUME ShownInv, ServeSettings
    PROVE  ShownInv'
BY SaveStep, CommandStep, ReadStep, SwitchStep DEF ServeSettings

-----------------------------------------------------------------------------
(* Steps of the window. *)

(* A request, with or without a change of the copy: the copy changes only with
   a save. *)
LEMMA RequestStep ==
    ASSUME ShownInv, NEW kind, NEW value, NEW id, NEW then, NEW data, Goes(kind, then),
           calls' = Posted(calls, kind, value, id, then, data),
           "inOrder" \in DOMAIN budget', budget'["inOrder"] = budget["inOrder"],
           kind = "save" \/ shown' = shown, UNCHANGED <<stored, failed>>
    PROVE  ShownInv'
<1>1. /\ AllFit(calls) /\ "inOrder" \in DOMAIN budget /\ failed \in BOOLEAN
      /\ budget["inOrder"] = 1 => ReadIsFresh(calls, stored)
      /\ budget["inOrder"] = 1 /\ ~failed => Agrees(calls, shown, stored)
  BY ShownIs
<1>2. /\ AllFit(calls')
      /\ \A st : ReadIsFresh(calls, st) => ReadIsFresh(calls', st)
      /\ \A sh, st : Agrees(calls, sh, st) => Agrees(calls', sh, st)
      /\ kind = "save" => \A sh, st : Agrees(calls', sh, st)
  BY <1>1, RequestKeeps
<1> QED BY <1>1, <1>2, ShownNext

(* Neither copy and no call is touched. *)
LEMMA LocalStep ==
    ASSUME ShownInv, "inOrder" \in DOMAIN budget', budget'["inOrder"] = budget["inOrder"],
           UNCHANGED <<shown, stored, calls, failed>>
    PROVE  ShownInv'
BY ShownIs, ShownNext

(* An answer is heard and taken off, and replaces the copy if it should. *)
LEMMA HeardStep ==
    ASSUME ShownInv, NEW c \in calls, NextHeard(c), calls' = calls \ {c},
           UNCHANGED <<stored, failed, budget>>,
           shown' = IF Brings(c) THEN c.value ELSE shown, ~Saves(c)
    PROVE  ShownInv'
<1>1. /\ AllFit(calls) /\ "inOrder" \in DOMAIN budget /\ failed \in BOOLEAN
      /\ budget["inOrder"] = 1 => ReadIsFresh(calls, stored)
      /\ budget["inOrder"] = 1 /\ ~failed => Agrees(calls, shown, stored)
  BY ShownIs
<1>2. c.done /\ (budget["inOrder"] = 1 => \A d \in {e \in calls : e.done} : c.n <= d.n)
  BY DEF NextHeard, Oldest
<1>3. AllFit(calls') /\ \A st : ReadIsFresh(calls, st) => ReadIsFresh(calls', st) BY <1>1, LessFits
<1>4. budget["inOrder"] = 1 /\ ~failed => Agrees(calls', shown', stored)
  BY <1>1, <1>2, HeardKeeps
<1> QED BY <1>1, <1>3, <1>4, ShownNext

(* An answer is heard and the await posts something next. *)
LEMMA ContinueStep ==
    ASSUME ShownInv, NEW c \in calls, NextHeard(c), UNCHANGED <<stored, failed, budget>>,
           NEW kind, NEW value, NEW id, NEW then, NEW data, Goes(kind, then),
           calls' = Posted(calls \ {c}, kind, value, id, then, data),
           \/ kind = "save"
           \/ shown' = (IF Brings(c) THEN c.value ELSE shown) /\ ~Saves(c)
    PROVE  ShownInv'
<1>1. /\ AllFit(calls) /\ "inOrder" \in DOMAIN budget /\ failed \in BOOLEAN
      /\ budget["inOrder"] = 1 => ReadIsFresh(calls, stored)
      /\ budget["inOrder"] = 1 /\ ~failed => Agrees(calls, shown, stored)
  BY ShownIs
<1>2. c.done /\ (budget["inOrder"] = 1 => \A d \in {e \in calls : e.done} : c.n <= d.n)
  BY DEF NextHeard, Oldest
<1>3. AllFit(calls \ {c}) /\ \A st : ReadIsFresh(calls, st) => ReadIsFresh(calls \ {c}, st) BY <1>1, LessFits
<1>4. /\ AllFit(calls')
      /\ \A st : ReadIsFresh(calls \ {c}, st) => ReadIsFresh(calls', st)
      /\ \A sh, st : Agrees(calls \ {c}, sh, st) => Agrees(calls', sh, st)
      /\ kind = "save" => \A sh, st : Agrees(calls', sh, st)
  BY <1>3, RequestKeeps
<1>5. budget["inOrder"] = 1 /\ ~failed /\ kind # "save" => Agrees(calls \ {c}, shown', stored)
  BY <1>1, <1>2, HeardKeeps
<1> QED BY <1>1, <1>3, <1>4, <1>5, ShownNext

(* saveSettings' answer and the settings event. *)
LEMMA SettingsHeardStep ==
    ASSUME ShownInv, NEW c \in calls, SettingsHeard(c)
    PROVE  ShownInv'
<1>1. NextHeard(c) /\ c.done /\ c.then \in {"patch", "save", "event"} /\ calls' = calls \ {c}
      /\ shown' = (IF c.ok THEN c.value ELSE shown) /\ UNCHANGED <<stored, failed, budget>>
  BY DEF SettingsHeard, NextHeard
<1>2. (Brings(c) <=> c.ok) /\ ~Saves(c) BY <1>1 DEF Brings, Saves, Replacing, Resaving
<1> QED BY <1>1, <1>2, HeardStep

(* patchSettings. *)
LEMMA PatchStep ==
    ASSUME ShownInv, NEW next, PatchSettings(next),
           "inOrder" \in DOMAIN budget', budget'["inOrder"] = budget["inOrder"],
           UNCHANGED <<stored, failed>>
    PROVE  ShownInv'
<1>1. calls' = Posted(calls, "save", next, None, "patch", NoData) BY DEF PatchSettings, SendSave, PostSave
<1>2. Goes("save", "patch") BY DEF Goes, Replacing
<1> QED BY <1>1, <1>2, RequestStep

-----------------------------------------------------------------------------
(* The settings screen. *)

(* What the settings screen does by itself touches no settings. *)
LEMMA PagesLocal ==
    ASSUME ShownInv,
           \/ \E t \in {"connection", "settings"} : ChangeTab(t)
           \/ OpenSettingsSection \/ Search \/ TabRendered \/ SuggestionArrives \/ Later
           \/ \E id \in Sections \cup {None} : Navigate(id)
           \/ \E q \in Hops : PickHop(q)
    PROVE  ShownInv'
<1>1. UNCHANGED <<shown, stored, calls, failed>> /\ (budget' = budget \/ \E what \in {"walk", "hop", "suggest"} : Spend(what))
  BY DEF ChangeTab, OpenSettingsSection, Search, TabRendered, SuggestionArrives, Later, Navigate, PickHop, syncVars
<1>2. "inOrder" \in DOMAIN budget BY ShownIs
<1>3. "inOrder" \in DOMAIN budget' /\ budget'["inOrder"] = budget["inOrder"] BY <1>1, <1>2, SpendKeeps
<1> QED BY <1>1, <1>3, LocalStep

(* Its switches, fields and lists patch the copy. *)
LEMMA PagesPatch ==
    ASSUME ShownInv,
           \/ ChangeSetting \/ SwitchChain \/ HandleAddChainProxy \/ ChangeChain
           \/ \E name \in Networks : TrustNetwork(name) \/ ForgetNetwork(name)
    PROVE  ShownInv'
<1>1. "inOrder" \in DOMAIN budget BY ShownIs
<1>2. \E next : PatchSettings(next)
  BY DEF ChangeSetting, SwitchChain, HandleAddChainProxy, ChangeChain, TrustNetwork, ForgetNetwork
<1>3. UNCHANGED <<stored, failed>> /\ (budget' = budget \/ \E what \in {"toggle", "hop"} : Spend(what))
  BY DEF ChangeSetting, SwitchChain, HandleAddChainProxy, ChangeChain, TrustNetwork, ForgetNetwork
<1>4. "inOrder" \in DOMAIN budget' /\ budget'["inOrder"] = budget["inOrder"] BY <1>1, <1>3, SpendKeeps
<1> QED BY <1>2, <1>3, <1>4, PatchStep

(* Its commands, and the answer to a suggestion. *)
LEMMA PagesSend ==
    ASSUME ShownInv,
           \/ RegenerateHWID \/ DisconnectSync
           \/ \E id \in Cores : Choose(id)
           \/ \E spec \in Shortcuts : SaveShortcut(spec)
           \/ \E taken \in SUBSET {"hours", "apps"} : AnswerSuggestion(taken)
    PROVE  ShownInv'
<1>1. "inOrder" \in DOMAIN budget BY ShownIs
<1>2. UNCHANGED <<shown, stored, failed>> /\ (budget' = budget \/ Spend("command"))
  BY DEF RegenerateHWID, DisconnectSync, Choose, SaveShortcut, AnswerSuggestion
<1>3. "inOrder" \in DOMAIN budget' /\ budget'["inOrder"] = budget["inOrder"] BY <1>1, <1>2, SpendKeeps
<1>4. /\ Goes("hwid", "save") /\ Goes("save", "save") /\ Goes("core", "core")
      /\ Goes("shortcut", "shortcut") /\ Goes("save", "suggest")
  BY DEF Goes, Replacing, Resaving
<1>5. CASE RegenerateHWID
  <2>1. calls' = Posted(calls, "hwid", NoSettings, None, "save", NoData) BY <1>5 DEF RegenerateHWID, Send
  <2> QED BY <1>2, <1>3, <1>4, <2>1, RequestStep
<1>6. CASE DisconnectSync
  <2>1. \E value : calls' = Posted(calls, "save", value, None, "save", NoData)
    BY <1>6 DEF DisconnectSync, SendSave, PostSave
  <2> QED BY <1>2, <1>3, <1>4, <2>1, RequestStep
<1>7. CASE \E id \in Cores : Choose(id)
  <2>1. \E id, data : calls' = Posted(calls, "core", NoSettings, id, "core", data)
    BY <1>7 DEF Choose
  <2> QED BY <1>2, <1>3, <1>4, <2>1, RequestStep
<1>8. CASE \E spec \in Shortcuts : SaveShortcut(spec)
  <2>1. \E spec : calls' = Posted(calls, "shortcut", NoSettings, spec, "shortcut", NoData)
    BY <1>8 DEF SaveShortcut, Send
  <2> QED BY <1>2, <1>3, <1>4, <2>1, RequestStep
<1>9. CASE \E taken \in SUBSET {"hours", "apps"} : AnswerSuggestion(taken)
  <2>1. \E value : calls' = Posted(calls, "save", value, None, "suggest", NoData)
    BY <1>9 DEF AnswerSuggestion, SendSave, PostSave
  <2> QED BY <1>2, <1>3, <1>4, <2>1, RequestStep
<1> QED BY <1>5, <1>6, <1>7, <1>8, <1>9

(* SetCore and SetGlobalShortcut: what Go accepted is saved again once the
   panel hears of it. *)
LEMMA PagesServe ==
    ASSUME ShownInv, NEW c \in calls, CoreServed(c) \/ ShortcutServed(c)
    PROVE  ShownInv'
<1>1. failed \in BOOLEAN /\ CallFits(c) BY ShownIs DEF AllFit
<1>2. NextServed(c) /\ c.kind \in {"core", "shortcut"} /\ UNCHANGED <<shown, budget>>
  BY DEF CoreServed, ShortcutServed
<1>3. c.then \in Resaving /\ ~WillSwitch(c, stored) BY <1>1, <1>2 DEF CallFits, WillSwitch
<1>4. \/ \E value : Answer(c, value, FALSE) /\ UNCHANGED <<stored, failed>>
      \/ \E value : Answer(c, value, TRUE) /\ (failed' = failed \/ failed' = (failed \/ ~TRUE))
      \/ \E value : Answer(c, value, FALSE) /\ (failed' = TRUE \/ failed' = (failed \/ ~FALSE))
  BY DEF CoreServed, ShortcutServed
<1>5. CASE \E value : Answer(c, value, FALSE) /\ UNCHANGED <<stored, failed>>
  <2>1. failed' \in BOOLEAN /\ (failed => failed') /\ stored' = stored /\ c.kind # "save" BY <1>1, <1>2, <1>5
  <2>2. PICK value : Answer(c, value, FALSE) BY <1>5
  <2> QED BY <1>2, <1>3, <2>1, <2>2, AnsweredWith
<1>6. CASE \E value : Answer(c, value, TRUE) /\ (failed' = failed \/ failed' = (failed \/ ~TRUE))
  <2>1. failed' \in BOOLEAN /\ (failed => failed') BY <1>1, <1>6
  <2>2. PICK value : Answer(c, value, TRUE) BY <1>6
  <2> QED BY <1>2, <1>3, <2>1, <2>2, AnsweredWith
<1>7. CASE \E value : Answer(c, value, FALSE) /\ (failed' = TRUE \/ failed' = (failed \/ ~FALSE))
  <2>1. failed' \in BOOLEAN /\ failed' BY <1>1, <1>7
  <2>2. PICK value : Answer(c, value, FALSE) BY <1>7
  <2> QED BY <1>2, <1>3, <2>1, <2>2, AnsweredWith
<1> QED BY <1>4, <1>5, <1>6, <1>7

(* The panels' answers, and the suggestion's. *)
LEMMA PagesHear ==
    ASSUME ShownInv, NEW c \in calls, PanelHeard(c) \/ SuggestionHeard(c)
    PROVE  ShownInv'
<1>1. NextHeard(c) /\ c.done /\ UNCHANGED <<stored, failed, budget>> BY DEF PanelHeard, SuggestionHeard, NextHeard
<1>2. CASE PanelHeard(c) /\ c.ok
  <2>1. \E next : calls' = Posted(calls \ {c}, "save", next, None, "patch", NoData)
    BY <1>2 DEF PanelHeard, PostSave
  <2>2. Goes("save", "patch") BY DEF Goes, Replacing
  <2> QED BY <1>1, <2>1, <2>2, ContinueStep
<1>3. CASE PanelHeard(c) /\ ~c.ok
  <2>1. calls' = calls \ {c} /\ shown' = shown BY <1>3 DEF PanelHeard
  <2>2. ~Brings(c) /\ ~Saves(c) BY <1>1, <1>3 DEF Brings, Saves
  <2> QED BY <1>1, <2>1, <2>2, HeardStep
<1>4. CASE SuggestionHeard(c)
  <2>1. c.then = "suggest" /\ calls' = calls \ {c} /\ shown' = IF c.ok THEN c.value ELSE shown
    BY <1>4 DEF SuggestionHeard
  <2>2. (Brings(c) <=> c.ok) /\ ~Saves(c) BY <1>1, <2>1 DEF Brings, Saves, Replacing, Resaving
  <2> QED BY <1>1, <2>1, <2>2, HeardStep
<1> QED BY <1>2, <1>3, <1>4

(* Nothing is on its way when the window opens. *)
LEMMA ShownStart == ASSUME SyncInit PROVE ShownInv
<1>1. "inOrder" \in DOMAIN budget BY OrderIsGiven DEF SyncInit
<1>2. AllFit(calls) BY DEF SyncInit, AllFit, Stamped
<1> QED BY <1>1, <1>2, ShownIs DEF SyncInit, ReadIsFresh, Agrees

(* The settings screen keeps the copies accounted for. *)
LEMMA PagesShown == ShownInv /\ [SettingsNext]_settingsVars => ShownInv'
<1> SUFFICES ASSUME ShownInv, [SettingsNext]_settingsVars PROVE ShownInv' OBVIOUS
<1>1. CASE PagesUser BY <1>1, PagesLocal, PagesPatch, PagesSend DEF PagesUser
<1>2. CASE TabRendered \/ SuggestionArrives BY <1>2, PagesLocal
<1>3. CASE PagesServed BY <1>3, ServeStep, PagesServe DEF PagesServed
<1>4. CASE PagesHeard BY <1>4, PagesHear, SettingsHeardStep DEF PagesHeard
<1>5. CASE UNCHANGED settingsVars
  <2>1. UNCHANGED <<shown, stored, calls, failed, budget>> BY <1>5 DEF settingsVars, syncVars
  <2> QED BY <2>1, ShownIs, LocalStep
<1> QED BY <1>1, <1>2, <1>3, <1>4, <1>5 DEF SettingsNext

(***************************************************************************)
(* On the settings screen, whatever is switched, chosen, typed or taken    *)
(* from a suggestion, and however many calls are in flight: once all is    *)
(* answered in order the copy on screen is Go's (saveSettings, cores.tsx,  *)
(* shortcut.tsx, SubscriptionSuggestions).                                 *)
(***************************************************************************)
THEOREM SettingsShown == SettingsSpec => []ShownIsStored
<1>1. SettingsInit => ShownInv BY ShownStart DEF SettingsInit
<1>2. ShownInv => ShownIsStored BY ShownIs DEF ShownIsStored, Quiet, Agrees
<1> QED BY <1>1, <1>2, PagesShown, PTL DEF SettingsSpec

-----------------------------------------------------------------------------
(* Where Settings was left. *)

(* Leaving a section, or freeing the core panel, is no new mount. *)
LEMMA SameMount ==
    ASSUME NEW m, DOMAIN m = {"firstHome", "picked", "busy", "panel"}, NEW c
    PROVE  /\ DOMAIN Left(m) = DOMAIN m /\ Left(m).firstHome = m.firstHome
           /\ DOMAIN PanelFreed(m, c) = DOMAIN m /\ PanelFreed(m, c).firstHome = m.firstHome
BY DEF Left, PanelFreed

(* A step that leaves the tab, the section and the requests alone keeps where
   the screen returns to. *)
LEMMA PlacesStay ==
    ASSUME PlacesInv, UNCHANGED <<home, request, memory, went>>,
           DOMAIN mounted' = DOMAIN mounted, mounted'.firstHome = mounted.firstHome
    PROVE  PlacesInv'
BY DEF PlacesInv

(* Every step of the settings screen keeps it. *)
LEMMA PlacesStep == PlacesInv /\ [SettingsNext]_settingsVars => PlacesInv'
<1> SUFFICES ASSUME PlacesInv, [SettingsNext]_settingsVars PROVE PlacesInv' OBVIOUS
<1> USE DEF PlacesInv
<1>1. /\ DOMAIN Left(mounted) = DOMAIN mounted /\ Left(mounted).firstHome = mounted.firstHome
      /\ \A c : DOMAIN PanelFreed(mounted, c) = DOMAIN mounted /\ PanelFreed(mounted, c).firstHome = mounted.firstHome
  BY SameMount
<1>2. ASSUME NEW panel PROVE DOMAIN Mount(home, panel) = DOMAIN mounted /\ Mount(home, panel).firstHome = home
  BY DEF Mount
<1>3. ASSUME NEW t, ChangeTab(t) PROVE PlacesInv'
  <2>1. CASE t = "settings" /\ InSettings
    <3>1. /\ home' = home + 1 /\ memory' = HandledHome(memory, home', mounted.firstHome)
          /\ mounted' = Left(mounted) /\ went' = None /\ UNCHANGED request
      BY <1>3, <2>1 DEF ChangeTab
    <3>2. home' # mounted.firstHome /\ home' \in Nat /\ mounted.firstHome <= home' BY <3>1
    <3>3. memory' = [memory EXCEPT !.open = None] BY <3>1, <3>2 DEF HandledHome
    <3> QED BY <1>1, <3>1, <3>2, <3>3
  <2>2. CASE ~(t = "settings" /\ InSettings)
    BY <1>3, <2>2 DEF ChangeTab
  <2> QED BY <2>1, <2>2
<1>4. ASSUME TabRendered PROVE PlacesInv'
  <2>1. UNCHANGED <<home, request, went>> BY <1>4 DEF TabRendered
  <2>2. memory' = memory BY <1>4 DEF TabRendered, HandledRequest
  <2>3. mounted' = mounted \/ mounted' = Mount(home, Left(mounted).panel) BY <1>4 DEF TabRendered
  <2> QED BY <1>2, <2>1, <2>2, <2>3
<1>5. ASSUME OpenSettingsSection PROVE PlacesInv'
  <2>1. /\ request' = [id |-> Requested, n |-> request.n + 1] /\ went' = Requested /\ home' = home
        /\ memory' = HandledRequest(memory, request')
        /\ mounted' \in {Mount(home, Left(mounted).panel), mounted, Left(mounted)}
    BY <1>5 DEF OpenSettingsSection
  <2>2. request'.n = request.n + 1 /\ request'.id = Requested /\ request'.n # memory.handled BY <2>1
  <2>3. memory' = [memory EXCEPT !.handled = request'.n, !.open = request'.id] BY <2>1, <2>2 DEF HandledRequest
  <2>4. /\ DOMAIN mounted' = DOMAIN mounted
        /\ mounted'.firstHome \in {home, mounted.firstHome}
    BY <1>1, <1>2, <2>1
  <2>5. DOMAIN memory' = DOMAIN memory /\ memory'.handled = request'.n /\ memory'.open = request'.id
    BY <2>3
  <2>6. mounted'.firstHome \in Nat /\ mounted'.firstHome <= home BY <2>4
  <2> HIDE DEF PlacesInv
  <2>7. /\ DOMAIN memory = {"open", "query", "handled"} /\ home \in Nat /\ request.n \in Nat
        /\ DOMAIN mounted = {"firstHome", "picked", "busy", "panel"}
    BY DEF PlacesInv
  <2> QED BY <2>1, <2>2, <2>4, <2>5, <2>6, <2>7 DEF PlacesInv
<1>6. ASSUME NEW id, Navigate(id) PROVE PlacesInv'
  <2>1. memory' = [memory EXCEPT !.open = id] /\ went' = id /\ mounted' = Left(mounted) /\ UNCHANGED <<home, request>>
    BY <1>6 DEF Navigate
  <2> QED BY <1>1, <2>1
<1>7. ASSUME Search PROVE PlacesInv'
  BY <1>7 DEF Search
<1>8. ASSUME UNCHANGED pageVars \/ UNCHANGED settingsVars PROVE PlacesInv'
  BY <1>8 DEF pageVars, settingsVars
<1>9. CASE PagesUser
  <2>1. CASE \/ ChangeSetting \/ RegenerateHWID \/ DisconnectSync \/ SwitchChain \/ ChangeChain
             \/ \E spec \in Shortcuts : SaveShortcut(spec)
             \/ \E name \in Networks : TrustNetwork(name) \/ ForgetNetwork(name)
    <3>1. UNCHANGED pageVars
      BY <2>1 DEF ChangeSetting, RegenerateHWID, DisconnectSync, SwitchChain, ChangeChain, SaveShortcut,
                  TrustNetwork, ForgetNetwork
    <3> QED BY <1>8, <3>1
  <2>2. CASE HandleAddChainProxy \/ (\E q \in Hops : PickHop(q)) \/ (\E id \in Cores : Choose(id))
    <3>1. /\ UNCHANGED <<home, request, memory, went>>
          /\ \/ \E q : mounted' = [mounted EXCEPT !.picked = q]
             \/ mounted' = [mounted EXCEPT !.busy = TRUE]
      BY <2>2 DEF HandleAddChainProxy, PickHop, Choose
    <3> QED BY <3>1, PlacesStay
  <2>3. CASE Later \/ \E taken \in SUBSET {"hours", "apps"} : AnswerSuggestion(taken)
    <3>1. UNCHANGED <<home, request, memory, went, mounted>> BY <2>3 DEF Later, AnswerSuggestion
    <3> QED BY <3>1, PlacesStay
  <2> QED BY <1>3, <1>5, <1>6, <1>7, <1>9, <2>1, <2>2, <2>3 DEF PagesUser
<1>10. CASE SuggestionArrives
  BY <1>10 DEF SuggestionArrives
<1>11. CASE PagesServed
  <2>1. UNCHANGED <<home, request, memory, went, mounted>>
    BY <1>11 DEF PagesServed, CoreServed, ShortcutServed, pageVars
  <2> QED BY <2>1, PlacesStay
<1>12. CASE PagesHeard
  <2>1. PICK c \in calls : PanelHeard(c) \/ SuggestionHeard(c) \/ (SettingsHeard(c) /\ UNCHANGED pageVars)
    BY <1>12 DEF PagesHeard
  <2>2. UNCHANGED <<home, request, memory, went>> /\ mounted' \in {mounted, PanelFreed(mounted, c)}
    BY <2>1 DEF PanelHeard, SuggestionHeard, pageVars
  <2> QED BY <1>1, <2>2, PlacesStay
<1> QED BY <1>4, <1>8, <1>9, <1>10, <1>11, <1>12 DEF SettingsNext

(***************************************************************************)
(* Whatever is visited, clicked and requested between, Settings shows the  *)
(* place the user last asked for (SettingsView.tsx, lib/remember.ts).      *)
(***************************************************************************)
THEOREM SettingsReturn == SettingsSpec => []ReturnsWhereLeft
<1>1. SettingsInit => PlacesInv BY DEF SettingsInit, PlacesInv, Mount
<1>2. PlacesInv => ReturnsWhereLeft BY DEF PlacesInv, ReturnsWhereLeft
<1> QED BY <1>1, <1>2, PlacesStep, PTL DEF SettingsSpec

-----------------------------------------------------------------------------
(* The server list. *)

(* ShownInv for other calls and another copy, with Go's settings, the order and
   the refusals as they are. *)
Good(cs, sh) ==
    /\ AllFit(cs)
    /\ budget["inOrder"] = 1 => ReadIsFresh(cs, stored)
    /\ budget["inOrder"] = 1 /\ ~failed => Agrees(cs, sh, stored)

(* A step of the window's that ends with such calls and such a copy. *)
LEMMA GoodStep ==
    ASSUME ShownInv, NEW cs, NEW sh, Good(cs, sh), calls' = cs, shown' = sh, UNCHANGED <<stored, failed>>,
           "inOrder" \in DOMAIN budget', budget'["inOrder"] = budget["inOrder"]
    PROVE  ShownInv'
BY ShownIs, ShownNext DEF Good

(* One request more. *)
LEMMA GoodPosted ==
    ASSUME NEW cs, NEW sh, Good(cs, sh), NEW kind, NEW value, NEW id, NEW then, NEW data, Goes(kind, then)
    PROVE  /\ Good(Posted(cs, kind, value, id, then, data), sh)
           /\ kind = "save" => \A sh2 : Good(Posted(cs, kind, value, id, then, data), sh2)
<1> DEFINE ds == Posted(cs, kind, value, id, then, data)
<1>1. /\ AllFit(cs)
      /\ budget["inOrder"] = 1 => ReadIsFresh(cs, stored)
      /\ budget["inOrder"] = 1 /\ ~failed => Agrees(cs, sh, stored)
  BY DEF Good
<1>2. /\ AllFit(ds)
      /\ \A st : ReadIsFresh(cs, st) => ReadIsFresh(ds, st)
      /\ \A sh1, st : Agrees(cs, sh1, st) => Agrees(ds, sh1, st)
      /\ kind = "save" => \A sh1, st : Agrees(ds, sh1, st)
  BY <1>1, RequestKeeps
<1> HIDE DEF ds
<1>3. Good(ds, sh) BY <1>1, <1>2 DEF Good
<1>4. kind = "save" => \A sh2 : Good(ds, sh2) BY <1>1, <1>2 DEF Good
<1> QED BY <1>3, <1>4 DEF ds

(* One answer taken off. *)
LEMMA GoodHeard ==
    ASSUME ShownInv, NEW c \in calls, NextHeard(c)
    PROVE  ~Saves(c) => Good(calls \ {c}, IF Brings(c) THEN c.value ELSE shown)
<1>1. /\ AllFit(calls) /\ "inOrder" \in DOMAIN budget /\ failed \in BOOLEAN
      /\ budget["inOrder"] = 1 => ReadIsFresh(calls, stored)
      /\ budget["inOrder"] = 1 /\ ~failed => Agrees(calls, shown, stored)
  BY ShownIs
<1>2. c.done /\ (budget["inOrder"] = 1 => \A d \in {e \in calls : e.done} : c.n <= d.n)
  BY DEF NextHeard, Oldest
<1>3. AllFit(calls \ {c}) /\ \A st : ReadIsFresh(calls, st) => ReadIsFresh(calls \ {c}, st) BY <1>1, LessFits
<1>4. budget["inOrder"] = 1 /\ ~failed /\ ~Saves(c) =>
        Agrees(calls \ {c}, IF Brings(c) THEN c.value ELSE shown, stored)
  BY <1>1, <1>2, HeardKeeps
<1> QED BY <1>1, <1>3, <1>4 DEF Good

(* The effect that remembers the selection changes the copy with a save only. *)
LEMMA RememberStep ==
    ASSUME ShownInv, NEW restored, NEW list, NEW sel, NEW base, NEW cs, Good(cs, base),
           Remember(restored, list, sel, base, cs), UNCHANGED <<stored, failed>>,
           "inOrder" \in DOMAIN budget', budget'["inOrder"] = budget["inOrder"]
    PROVE  ShownInv'
<1>1. CASE shown' = base /\ calls' = cs BY <1>1, GoodStep
<1>2. CASE \E patched : shown' = patched /\ calls' = PostSave(cs, patched, "patch")
  <2>1. PICK patched : shown' = patched /\ calls' = Posted(cs, "save", patched, None, "patch", NoData)
    BY <1>2 DEF PostSave
  <2>2. Goes("save", "patch") BY DEF Goes, Replacing
  <2>3. Good(Posted(cs, "save", patched, None, "patch", NoData), patched) BY <2>2, GoodPosted
  <2> QED BY <2>1, <2>3, GoodStep
<1> QED BY <1>1, <1>2 DEF Remember

(* What the user does to the list: picks, which are remembered, and calls. *)
LEMMA ServerActs ==
    ASSUME ShownInv, NEW what \in {"pick", "edit", "chain", "list", "refresh", "tick"}, Spend(what)
    PROVE  "inOrder" \in DOMAIN budget' /\ budget'["inOrder"] = budget["inOrder"] /\ Good(calls, shown)
BY ShownIs, SpendKeeps DEF Good

(* A pick is remembered by a patch; a hop picked as the exit is saved out of the
   chain first. *)
LEMMA ServerPicks ==
    ASSUME ShownInv,
           \/ \E id : HandleSelectProxy(id)
           \/ HandleSelectAuto
           \/ \E source : SelectSource(source)
    PROVE  ShownInv'
<1>1. Spend("pick") /\ UNCHANGED <<stored, failed>>
  BY DEF HandleSelectProxy, HandleSelectAuto, SelectSource, Acts
<1>2. "inOrder" \in DOMAIN budget' /\ budget'["inOrder"] = budget["inOrder"] /\ Good(calls, shown)
  BY <1>1, ServerActs
<1>3. \E restored, list, sel, value :
         \/ Remember(restored, list, sel, shown, calls)
         \/ Remember(restored, list, sel, shown, Posted(calls, "save", value, None, "save", NoData))
  <2>1. CASE HandleSelectAuto BY <2>1 DEF HandleSelectAuto, Select
  <2>2. CASE \E source : SelectSource(source) BY <2>2 DEF SelectSource, Select
  <2>3. ASSUME NEW id, HandleSelectProxy(id)
        PROVE  \E restored, list, sel, value :
                 \/ Remember(restored, list, sel, shown, calls)
                 \/ Remember(restored, list, sel, shown, Posted(calls, "save", value, None, "save", NoData))
    BY <2>3 DEF HandleSelectProxy, Select, PostSave
  <2> QED BY <2>1, <2>2, <2>3
<1>4. Goes("save", "save") BY DEF Goes, Replacing
<1>5. \A value : Good(Posted(calls, "save", value, None, "save", NoData), shown)
  BY <1>2, <1>4, GoodPosted
<1> QED BY <1>1, <1>2, <1>3, <1>5, RememberStep

(* The calls about the list replace and save no settings. *)
LEMMA ListGoes ==
    ASSUME NEW kind, NEW then, <<kind, then>> \in ListCalls
    PROVE  Goes(kind, then)
BY DEF ListCalls, Goes, Replacing, Resaving

(* What else the user does is one call. *)
LEMMA ServerSends ==
    ASSUME ShownInv,
           \/ UpdateSetting
           \/ \E ids : AddToChain(ids) \/ DeleteProfiles(ids)
           \/ \E q : AddProfile(q)
           \/ \E id, name : UpdateProfile(id, name)
           \/ \E d : ImportSubscription(d)
           \/ \E ds : HandleRefreshSources(ds) \/ Tick(ds)
    PROVE  ShownInv'
<1>1. \E what \in {"edit", "chain", "list", "refresh", "tick"} : Spend(what)
  BY DEF UpdateSetting, AddToChain, DeleteProfiles, AddProfile, UpdateProfile, ImportSubscription,
         HandleRefreshSources, Tick, Acts
<1>2. "inOrder" \in DOMAIN budget' /\ budget'["inOrder"] = budget["inOrder"] /\ Good(calls, shown)
  BY <1>1, ServerActs
<1>3. CASE UpdateSetting
  BY <1>2, <1>3, PatchStep DEF UpdateSetting
<1>4. CASE \E ids : AddToChain(ids)
  <2>1. \E value : calls' = Posted(calls, "save", value, None, "save", NoData) /\ UNCHANGED <<shown, stored, failed>>
    BY <1>4 DEF AddToChain, SendSave, PostSave
  <2>2. Goes("save", "save") BY DEF Goes, Replacing
  <2> QED BY <1>2, <2>1, <2>2, RequestStep
<1>5. CASE \/ \E ids : DeleteProfiles(ids)
           \/ \E q : AddProfile(q)
           \/ \E id, name : UpdateProfile(id, name)
           \/ \E d : ImportSubscription(d)
           \/ \E ds : HandleRefreshSources(ds) \/ Tick(ds)
  <2>1. /\ Goes("delete", "delete") /\ Goes("add", "add") /\ Goes("update", "list") /\ Goes("import", "import")
        /\ Goes("refresh", "hand") /\ Goes("refresh", "tick")
    BY ListGoes DEF ListCalls
  <2>2. UNCHANGED <<shown, stored, failed>>
    BY <1>5 DEF DeleteProfiles, AddProfile, UpdateProfile, ImportSubscription, HandleRefreshSources, Tick
  <2>3. CASE \E ids : DeleteProfiles(ids)
    <3>1. \E data : calls' = Posted(calls, "delete", shown, None, "delete", data) BY <2>3 DEF DeleteProfiles
    <3> QED BY <1>2, <2>1, <2>2, <3>1, RequestStep
  <2>4. CASE \E q : AddProfile(q)
    <3>1. \E data : calls' = Posted(calls, "add", NoSettings, None, "add", data) BY <2>4 DEF AddProfile
    <3> QED BY <1>2, <2>1, <2>2, <3>1, RequestStep
  <2>5. CASE \E id, name : UpdateProfile(id, name)
    <3>1. \E id, data : calls' = Posted(calls, "update", NoSettings, id, "list", data) BY <2>5 DEF UpdateProfile
    <3> QED BY <1>2, <2>1, <2>2, <3>1, RequestStep
  <2>6. CASE \E d : ImportSubscription(d)
    <3>1. \E d, data : calls' = Posted(calls, "import", NoSettings, d, "import", data) BY <2>6 DEF ImportSubscription, Send
    <3> QED BY <1>2, <2>1, <2>2, <3>1, RequestStep
  <2>7. CASE \E ds : HandleRefreshSources(ds)
    <3>1. \E d, data : calls' = Posted(calls, "refresh", NoSettings, d, "hand", data) BY <2>7 DEF HandleRefreshSources
    <3> QED BY <1>2, <2>1, <2>2, <3>1, RequestStep
  <2>8. CASE \E ds : Tick(ds)
    <3>1. \E d, data : calls' = Posted(calls, "refresh", NoSettings, d, "tick", data) BY <2>8 DEF Tick
    <3> QED BY <1>2, <2>1, <2>2, <3>1, RequestStep
  <2> QED BY <1>5, <2>3, <2>4, <2>5, <2>6, <2>7, <2>8
<1> QED BY <1>3, <1>4, <1>5

(* Go's side of the list touches no settings: a call reads the list. *)
LEMMA ReadListStep ==
    ASSUME ShownInv, NEW c \in calls, ReadList(c)
    PROVE  ShownInv'
<1> DEFINE x == [c EXCEPT !.read = TRUE, !.data.list = stock]
<1>1. /\ AllFit(calls) /\ "inOrder" \in DOMAIN budget /\ failed \in BOOLEAN
      /\ budget["inOrder"] = 1 => ReadIsFresh(calls, stored)
      /\ budget["inOrder"] = 1 /\ ~failed => Agrees(calls, shown, stored)
  BY ShownIs
<1>2. /\ ~c.done /\ c.kind \notin {"save", "switch"} /\ calls' = (calls \ {c}) \cup {x}
      /\ UNCHANGED <<shown, stored, failed, budget>>
  BY DEF ReadList, NextServed, Copies, Fetches
<1>3. CallFits(c) BY <1>1 DEF AllFit
<1>4. /\ DOMAIN x = CallFields /\ x.value = c.value /\ x.read = TRUE /\ x.n = c.n /\ x.kind = c.kind
      /\ x.id = c.id /\ x.then = c.then /\ x.done = c.done /\ x.ok = c.ok
  BY <1>3 DEF CallFits, CallFields
<1> HIDE DEF x
<1>5. CallFits(x) BY <1>3, <1>4 DEF CallFits
<1>6. AllFit(calls') BY <1>1, <1>2, <1>4, <1>5, StampedSame DEF AllFit
<1>7. ASSUME ReadIsFresh(calls, stored) PROVE ReadIsFresh(calls', stored)
  BY <1>2, <1>4, <1>7 DEF ReadIsFresh
<1>8. ASSUME Agrees(calls, shown, stored) PROVE Agrees(calls', shown, stored)
  <2>1. ~Saves(c) /\ ~Brings(c) /\ ~Brings(x) /\ ~WillSwitch(c, stored) BY <1>2, <1>4 DEF Saves, Brings, WillSwitch
  <2> QED BY <1>2, <1>8, <2>1 DEF Agrees
<1> QED BY <1>1, <1>2, <1>6, <1>7, <1>8, ShownNext

(* The answer that carries a list. *)
ListAnswered(c, n, list, ok) == [c EXCEPT !.n = n, !.done = TRUE, !.ok = ok, !.data.list = list]

(* It fits as the call did. *)
LEMMA ListAnswerIs ==
    ASSUME NEW c, CallFits(c), NEW n \in Nat, NEW list, NEW ok \in BOOLEAN, c.kind # "settings"
    PROVE  LET x == ListAnswered(c, n, list, ok) IN
           /\ CallFits(x) /\ x.done /\ (x.ok <=> ok) /\ x.value = c.value /\ x.n = n
           /\ x.then = c.then /\ x.kind = c.kind /\ x.id = c.id
<1> DEFINE x == [c EXCEPT !.n = n, !.done = TRUE, !.ok = ok, !.data.list = list]
<1>1. DOMAIN c = CallFields BY DEF CallFits
<1>2. /\ DOMAIN x = CallFields /\ x.done = TRUE /\ x.ok = ok /\ x.value = c.value /\ x.n = n
      /\ x.then = c.then /\ x.kind = c.kind /\ x.id = c.id /\ x.read = c.read
  BY <1>1 DEF CallFields
<1> HIDE DEF x
<1>3. CallFits(x) BY <1>2 DEF CallFits
<1>4. x.done /\ (x.ok <=> ok) BY <1>2
<1> QED BY <1>2, <1>3, <1>4 DEF x, ListAnswered

(* A list is answered, or a call about one fails. *)
LEMMA ListAnswerStep ==
    ASSUME ShownInv, NEW c \in calls, NextServed(c), NEW list, NEW ok \in BOOLEAN, AnswerList(c, list, ok),
           c.kind \in Fetches \cup {"add", "delete", "update", "profiles"} \/ (c.kind = "push" /\ ~ok),
           budget' = budget \/ Spend("fail"), failed' \in BOOLEAN, failed => failed',
           UNCHANGED <<shown, stored>>
    PROVE  ShownInv'
<1> DEFINE n == Stamp(calls)
           x == ListAnswered(c, n, list, ok)
<1>1. AllFit(calls) /\ "inOrder" \in DOMAIN budget BY ShownIs
<1>2. n \in Nat /\ \A d \in calls : d.n < n BY <1>1, StampAbove DEF AllFit, CallFits
<1>3. calls' = (calls \ {c}) \cup {x} BY DEF AnswerList, ListAnswered
<1>4. CallFits(c) /\ c.kind # "settings" BY <1>1 DEF AllFit, Fetches
<1> HIDE DEF n
<1>5. /\ CallFits(x) /\ x.done /\ (x.ok <=> ok) /\ x.value = c.value /\ x.n = n
      /\ x.then = c.then /\ x.kind = c.kind /\ x.id = c.id
  BY <1>2, <1>4, ListAnswerIs
<1> HIDE DEF x
<1>6. "inOrder" \in DOMAIN budget' /\ budget'["inOrder"] = budget["inOrder"] BY <1>1, SpendKeeps
<1>7. c.kind # "save" /\ ~WillSwitch(c, stored) /\ ~Brings(x)
  BY <1>4, <1>5 DEF WillSwitch, Brings, CallFits, Fetches
<1> QED BY <1>2, <1>3, <1>5, <1>6, <1>7, AnsweredStep

(* Go's answers about the list, the upload and the first read. *)
LEMMA ServerServes ==
    ASSUME ShownInv, ServeProfiles
    PROVE  ShownInv'
<1>1. PICK c \in calls : ReadList(c) \/ FetchServed(c) \/ StoreServed(c) \/ SettingsServed(c) \/ CallFails(c)
  BY DEF ServeProfiles
<1>2. failed \in BOOLEAN /\ CallFits(c) BY ShownIs DEF AllFit
<1>3. CASE FetchServed(c)
  <2>1. NextServed(c) /\ c.kind \in Fetches /\ AnswerList(c, stock', TRUE) /\ UNCHANGED <<shown, stored, failed, budget>>
    BY <1>3 DEF FetchServed
  <2> QED BY <1>2, <2>1, ListAnswerStep
<1>4. CASE StoreServed(c)
  <2>1. /\ NextServed(c) /\ c.kind \in {"add", "delete", "update", "profiles"}
        /\ AnswerList(c, stock', TRUE) /\ UNCHANGED <<shown, stored, failed, budget>>
    BY <1>4 DEF StoreServed
  <2> QED BY <1>2, <2>1, ListAnswerStep
<1>5. CASE CallFails(c)
  <2>1. /\ NextServed(c) /\ c.kind \in Fetches \cup {"add", "delete", "update", "profiles", "push"}
        /\ AnswerList(c, <<>>, FALSE) /\ (budget' = budget \/ Spend("fail")) /\ UNCHANGED <<shown, stored>>
    BY <1>5 DEF CallFails, Gone, Copies, Fetches
  <2>2. failed' \in BOOLEAN /\ (failed => failed') BY <1>2, <1>5 DEF CallFails
  <2> QED BY <2>1, <2>2, ListAnswerStep
<1>6. CASE SettingsServed(c)
  <2>1. /\ NextServed(c) /\ c.kind \in {"settings", "push"} /\ Answer(c, stored, TRUE)
        /\ UNCHANGED <<shown, stored, failed, budget>>
    BY <1>6 DEF SettingsServed
  <2>2. c.then \in Replacing \cup Resaving BY <1>2, <2>1 DEF CallFits
  <2> QED BY <1>2, <2>1, <2>2, AnsweredWith
<1> QED BY <1>1, <1>3, <1>4, <1>5, <1>6, ReadListStep

(* An answer about the list accounts for nothing. *)
LEMMA ListHeardGood ==
    ASSUME ShownInv, NEW c \in calls, NextHeard(c), c.then \in ListThens
    PROVE  Good(calls \ {c}, shown)
<1>1. ~Brings(c) /\ ~Saves(c) BY DEF ListThens, Brings, Saves, Replacing, Resaving, NextHeard
<1> QED BY <1>1, GoodHeard

(* start(), as far as the list. *)
LEMMA StartHears ==
    ASSUME ShownInv, NEW c \in calls, StartSettingsHeard(c) \/ StartPushHeard(c) \/ StartPushedHeard(c)
    PROVE  ShownInv'
<1>1. NextHeard(c) /\ c.done /\ UNCHANGED <<stored, failed, budget>>
  BY DEF StartSettingsHeard, StartPushHeard, StartPushedHeard, NextHeard
<1>2. CallFits(c) BY ShownIs DEF AllFit
<1>3. Goes("profiles", "start:profiles") /\ Goes("push", "start:push") /\ Goes("save", "start:pushed")
  BY DEF Goes, Replacing, Resaving
<1>4. CASE StartSettingsHeard(c)
  <2>1. c.ok /\ c.then = "start:settings" BY <1>2, <1>4 DEF StartSettingsHeard, CallFits
  <2>2. Brings(c) /\ ~Saves(c) BY <1>1, <2>1 DEF Brings, Saves, Replacing, Resaving
  <2>3. shown' = c.value BY <1>4 DEF StartSettingsHeard
  <2>4. \/ calls' = Posted(calls \ {c}, "push", NoSettings, None, "start:push", NoData)
        \/ calls' = Posted(calls \ {c}, "profiles", NoSettings, None, "start:profiles", NoData)
    BY <1>4 DEF StartSettingsHeard, Continue
  <2>5. shown' = (IF Brings(c) THEN c.value ELSE shown) BY <2>2, <2>3
  <2> QED BY <1>1, <1>3, <2>2, <2>4, <2>5, ContinueStep
<1>5. CASE StartPushHeard(c) /\ c.ok
  <2>1. \E value : calls' = Posted(calls \ {c}, "save", value, None, "start:pushed", NoData)
    BY <1>5 DEF StartPushHeard, Continue
  <2> QED BY <1>1, <1>3, <2>1, ContinueStep
<1>6. CASE StartPushHeard(c) /\ ~c.ok
  <2>1. calls' = Posted(calls \ {c}, "profiles", NoSettings, None, "start:profiles", NoData) /\ shown' = shown
    BY <1>6 DEF StartPushHeard, Continue
  <2>2. ~Brings(c) /\ ~Saves(c) BY <1>1, <1>6 DEF Brings, Saves
  <2> QED BY <1>1, <1>3, <2>1, <2>2, ContinueStep
<1>7. CASE StartPushedHeard(c)
  <2>1. /\ calls' = Posted(calls \ {c}, "profiles", NoSettings, None, "start:profiles", NoData)
        /\ shown' = (IF c.ok THEN c.value ELSE shown) /\ c.then = "start:pushed"
    BY <1>7 DEF StartPushedHeard, Continue
  <2>2. (Brings(c) <=> c.ok) /\ ~Saves(c) BY <1>1, <2>1 DEF Brings, Saves, Replacing, Resaving
  <2>3. shown' = (IF Brings(c) THEN c.value ELSE shown) BY <2>1, <2>2
  <2> QED BY <1>1, <1>3, <2>1, <2>2, <2>3, ContinueStep
<1> QED BY <1>4, <1>5, <1>6, <1>7

(* The list's answers: the list is applied, the selection remembered, and what
   is left to refresh or to prune is asked for; or nothing but that. *)
LEMMA ListHears ==
    ASSUME ShownInv, NEW c \in calls,
           \/ StartProfilesHeard(c) \/ StartRefreshHeard(c) \/ StartLoadHeard(c)
           \/ AddHeard(c) \/ SubscriptionHeard(c) \/ ListHeard(c) \/ DeleteHeard(c)
           \/ RefreshHeard(c) \/ RefreshedHeard(c)
    PROVE  ShownInv'
<1>1. NextHeard(c) /\ c.then \in ListThens /\ UNCHANGED <<stored, failed, budget>>
  BY DEF StartProfilesHeard, StartRefreshHeard, StartLoadHeard, AddHeard, SubscriptionHeard, ListHeard,
         DeleteHeard, RefreshHeard, RefreshedHeard, ListThens
<1>2. Good(calls \ {c}, shown) /\ "inOrder" \in DOMAIN budget BY <1>1, ListHeardGood, ShownIs
<1>3. /\ Goes("refreshAll", "start:refresh") /\ Goes("profiles", "start:load") /\ Goes("save", "save")
      /\ \A then \in {"hand", "tick"} : Goes("profiles", then) /\ Goes("refresh", then)
  BY DEF Goes, Replacing, Resaving
<1>4. \E cs : Good(cs, shown) /\ \/ shown' = shown /\ calls' = cs
                                 \/ \E restored, list, sel : Remember(restored, list, sel, shown, cs)
  <2> DEFINE Goal == \E cs : Good(cs, shown) /\ \/ shown' = shown /\ calls' = cs
                                                \/ \E restored, list, sel : Remember(restored, list, sel, shown, cs)
  <2>0. ASSUME NEW cs, Good(cs, shown),
               (shown' = shown /\ calls' = cs) \/ \E restored, list, sel : Remember(restored, list, sel, shown, cs)
        PROVE  Goal
    BY <2>0
  <2> HIDE DEF Goal
  <2>1. CASE StartLoadHeard(c) \/ AddHeard(c) \/ SubscriptionHeard(c) \/ ListHeard(c)
    <3>1. (shown' = shown /\ calls' = calls \ {c}) \/ \E restored, list, sel : Remember(restored, list, sel, shown, calls \ {c})
      BY <2>1 DEF StartLoadHeard, AddHeard, SubscriptionHeard, ListHeard, Apply, Select
    <3> QED BY <1>2, <2>0, <3>1
  <2>2. CASE StartProfilesHeard(c)
    <3> DEFINE cs == IF shown.auto_update = 1
                     THEN Posted(calls \ {c}, "refreshAll", NoSettings, None, "start:refresh", NoData)
                     ELSE calls \ {c}
    <3>1. Good(cs, shown) BY <1>2, <1>3, GoodPosted
    <3>2. (shown' = shown /\ calls' = cs) \/ \E restored, list, sel : Remember(restored, list, sel, shown, cs)
      BY <2>2 DEF StartProfilesHeard
    <3> HIDE DEF cs
    <3> QED BY <2>0, <3>1, <3>2
  <2>3. CASE StartRefreshHeard(c)
    <3> DEFINE cs == Posted(calls \ {c}, "profiles", NoSettings, None, "start:load", NoData)
    <3>1. Good(cs, shown) BY <1>2, <1>3, GoodPosted
    <3>2. shown' = shown /\ calls' \in {calls \ {c}, cs}
      BY <2>3 DEF StartRefreshHeard, Continue
    <3> HIDE DEF cs
    <3> QED BY <1>2, <2>0, <3>1, <3>2
  <2>4. CASE DeleteHeard(c)
    <3>1. \A value : Good(Posted(calls \ {c}, "save", value, None, "save", NoData), shown)
      BY <1>2, <1>3, GoodPosted
    <3>2. \/ shown' = shown /\ calls' = calls \ {c}
          \/ \E restored, list, sel : Remember(restored, list, sel, shown, calls \ {c})
          \/ \E value, restored, list, sel :
                Remember(restored, list, sel, shown, Posted(calls \ {c}, "save", value, None, "save", NoData))
      BY <2>4 DEF DeleteHeard, Apply, Select, PostSave
    <3> QED BY <1>2, <2>0, <3>1, <3>2
  <2>5. CASE RefreshHeard(c)
    <3>1. \E data : calls' = Posted(calls \ {c}, "profiles", NoSettings, None, c.then, data) /\ shown' = shown
      BY <2>5 DEF RefreshHeard
    <3>2. c.then \in {"hand", "tick"} BY <2>5 DEF RefreshHeard
    <3>3. \A data : Good(Posted(calls \ {c}, "profiles", NoSettings, None, c.then, data), shown)
      BY <1>2, <1>3, <3>2, GoodPosted
    <3> QED BY <2>0, <3>1, <3>3
  <2>6. CASE RefreshedHeard(c)
    <3> DEFINE cs == IF c.data.rest = <<>> THEN calls \ {c}
                     ELSE Posted(calls \ {c}, "refresh", NoSettings, c.data.rest[1], c.then,
                                 [NoData EXCEPT !.rest = Tail(c.data.rest)])
    <3>1. c.then \in {"hand", "tick"} BY <2>6 DEF RefreshedHeard
    <3>2. \A id, data : Good(Posted(calls \ {c}, "refresh", NoSettings, id, c.then, data), shown)
      BY <1>2, <1>3, <3>1, GoodPosted
    <3>3. Good(cs, shown) BY <1>2, <3>2
    <3>4. (shown' = shown /\ calls' = cs) \/ \E restored, list, sel : Remember(restored, list, sel, shown, cs)
      BY <2>6 DEF RefreshedHeard, Apply, Select
    <3> HIDE DEF cs
    <3> QED BY <2>0, <3>3, <3>4
  <2> QED BY <2>1, <2>2, <2>3, <2>4, <2>5, <2>6 DEF Goal
<1>5. "inOrder" \in DOMAIN budget' /\ budget'["inOrder"] = budget["inOrder"] BY <1>1, <1>2
<1> QED BY <1>1, <1>4, <1>5, RememberStep, GoodStep

(* Every step of the server list keeps the copies accounted for. *)
LEMMA ServersKeep == ShownInv /\ [ServerNext]_serverVars => ShownInv'
<1> SUFFICES ASSUME ShownInv, [ServerNext]_serverVars PROVE ShownInv' OBVIOUS
<1>1. CASE Start
  <2>1. calls' = Posted(calls, "settings", NoSettings, None, "start:settings", NoData) /\ UNCHANGED <<shown, stored, failed, budget>>
    BY <1>1 DEF Start, Send
  <2>2. Goes("settings", "start:settings") BY DEF Goes, Replacing, Resaving
  <2>3. "inOrder" \in DOMAIN budget BY ShownIs
  <2> QED BY <2>1, <2>2, <2>3, RequestStep
<1>2. CASE ServerUser BY <1>2, ServerPicks, ServerSends DEF ServerUser, HandleDeleteSources
<1>3. CASE \E c \in calls : ServerHeard(c) BY <1>3, StartHears, ListHears, SettingsHeardStep DEF ServerHeard
<1>4. CASE ServeProfiles \/ ServeSettings BY <1>4, ServerServes, ServeStep
<1>5. CASE UNCHANGED serverVars
  <2>1. UNCHANGED <<shown, stored, calls, failed, budget>> BY <1>5 DEF serverVars, syncVars
  <2> QED BY <2>1, ShownIs, LocalStep
<1> QED BY <1>1, <1>2, <1>3, <1>4, <1>5 DEF ServerNext

(***************************************************************************)
(* While the window starts, and whatever is picked, added, deleted,        *)
(* refreshed by hand or by the timer and whatever the effect that          *)
(* remembers the selection saves meanwhile: once all is answered in order  *)
(* the settings on screen are Go's (App.tsx, use-profiles.ts).             *)
(***************************************************************************)
THEOREM ServersShown == ServerSpec => []ShownIsStored
<1>1. ServerInit => ShownInv BY ShownStart DEF ServerInit
<1>2. ShownInv => ShownIsStored BY ShownIs DEF ShownIsStored, Quiet, Agrees
<1> QED BY <1>1, <1>2, ServersKeep, PTL DEF ServerSpec

-----------------------------------------------------------------------------
(* The routing screen. *)

(* Calls of others come and go; the menu's own are as they were. *)
LEMMA TargetKept ==
    ASSUME SwitcherTarget, switcher'.pc = switcher.pc, switcher'.target = switcher.target,
           \A c \in calls' : c.then = "switcher" => c \in calls
    PROVE  SwitcherTarget'
BY DEF SwitcherTarget

(* Go works on a call: a save it answers keeps the setups it was sent. *)
LEMMA TargetServed ==
    ASSUME RoutingInv, SwitcherTarget, UNCHANGED switcher, ServeSettings
    PROVE  SwitcherTarget'
<1>1. PICK c \in calls : SaveServed(c) \/ SaveRefused(c) \/ ReadSettings(c) \/ SwitchServed(c) \/ CommandServed(c)
  BY DEF ServeSettings
<1>2. CallOK(c) /\ SettingsOK(stored) BY ShapesAre DEF RoutingInv
<1>3. CASE SaveServed(c) \/ SaveRefused(c)
  <2>1. \E v \in {Normalize(c.value), c.value}, ok \in BOOLEAN : Answer(c, v, ok)
    BY <1>3 DEF SaveServed, SaveRefused
  <2>2. PICK v \in {Normalize(c.value), c.value}, ok \in BOOLEAN : Answer(c, v, ok) BY <2>1
  <2>3. PICK a : /\ calls' = (calls \ {c}) \cup {a}
                 /\ a.value = v /\ a.then = c.then /\ a.kind = c.kind
    BY <1>2, <2>2, AnsweredIs
  <2>4. SetupIds(v) = SetupIds(c.value) BY <1>2, NormalizeOK DEF CallOK
  <2> QED BY <2>3, <2>4 DEF SwitcherTarget
<1>4. ASSUME c.kind # "save", \E a : /\ a.then = c.then
                                     /\ \A d \in calls' : d \in calls \ {c} \/ d = a \/ d.then # "switcher"
      PROVE  SwitcherTarget'
  <2>1. PICK a : a.then = c.then /\ \A d \in calls' : d \in calls \ {c} \/ d = a \/ d.then # "switcher" BY <1>4
  <2>2. switcher.pc = "saving" => a.then # "switcher" BY <1>4, <2>1 DEF SwitcherTarget
  <2> QED BY <2>1, <2>2 DEF SwitcherTarget
<1>5. CASE ReadSettings(c)
  <2> DEFINE a == [c EXCEPT !.read = TRUE, !.value = stored]
  <2>1. calls' = (calls \ {c}) \cup {a} /\ c.kind # "save" BY <1>5 DEF ReadSettings
  <2>2. a.then = c.then BY <1>2 DEF CallOK, CallFields
  <2> HIDE DEF a
  <2> QED BY <1>4, <2>1, <2>2
<1>6. CASE CommandServed(c)
  <2>1. c.kind # "save" /\ \E v, ok : Answer(c, v, ok) BY <1>6 DEF CommandServed
  <2>2. \E a : calls' = (calls \ {c}) \cup {a} /\ a.then = c.then BY <1>2, <2>1, AnsweredIs
  <2> QED BY <1>4, <2>1, <2>2
<1>7. CASE SwitchServed(c)
  <2>0. c.kind # "save" BY <1>7 DEF SwitchServed
  <2>1. CASE \E events, ok : Told(c, events, ok)
    <3>1. PICK events, ok : Told(c, events, ok) BY <2>1
    <3> DEFINE n == Stamp(calls)
               m == Stamp(calls) + 1
               e0 == [c EXCEPT !.n = n, !.then = "event"]
               a0 == [c EXCEPT !.n = m, !.ok = ok]
               e == [e0 EXCEPT !.value = stored', !.done = TRUE]
               a == [a0 EXCEPT !.value = stored', !.done = TRUE]
    <3>2. \A d \in calls' : d \in calls \ {c} \/ d = e \/ d = a BY <3>1 DEF Told
    <3> HIDE DEF n, m
    <3>3. a.then = c.then /\ e.then = "event" BY <1>2 DEF CallOK, CallFields
    <3> HIDE DEF a, e
    <3> QED BY <1>4, <2>0, <3>2, <3>3
  <2>2. CASE \E v, ok : Answer(c, v, ok)
    <3>1. \E a : calls' = (calls \ {c}) \cup {a} /\ a.then = c.then BY <1>2, <2>2, AnsweredIs
    <3> QED BY <1>4, <2>0, <3>1
  <2>3. CASE calls' = calls \ {c} BY <2>0, <2>3 DEF SwitcherTarget
  <2> QED BY <1>7, <2>1, <2>2, <2>3 DEF SwitchServed
<1> QED BY <1>1, <1>3, <1>5, <1>6, <1>7

(* run() in SetupSwitcher begins with a save of the settings on screen, or of
   what a new setup makes of them. *)
LEMMA MenuStep ==
    ASSUME RoutingInv, ShownInv, SwitcherTarget, NEW base, NEW pc, NEW target, NEW delete,
           SwitcherCalls(base, pc, target, delete), pc = "saving" => target \in SetupIds(base)
    PROVE  ShownInv' /\ SwitcherTarget'
<1>1. /\ switcher.pc = "idle" /\ calls' = Posted(calls, "save", base, None, "switcher", NoData)
      /\ switcher' = [switcher EXCEPT !.pc = pc, !.target = target, !.delete = delete]
      /\ Spend("setups") /\ UNCHANGED <<shown, stored, failed>>
  BY DEF SwitcherCalls, SendSave, PostSave
<1>2. "inOrder" \in DOMAIN budget BY ShownIs
<1>3. "inOrder" \in DOMAIN budget' /\ budget'["inOrder"] = budget["inOrder"] BY <1>1, <1>2, SpendKeeps
<1>4. Goes("save", "switcher") BY DEF Goes, Replacing, Resaving
<1>5. ShownInv' BY <1>1, <1>3, <1>4, RequestStep
<1>6. switcher'.pc = pc /\ switcher'.target = target
  <2>1. DOMAIN switcher = {"pc", "target", "delete", "dialog"}
    BY ShapesAre DEF Idle, RoutingInv
  <2> QED BY <1>1, <2>1
<1>7. PICK c : calls' = calls \cup {c} /\ c.value = base /\ c.kind = "save" BY <1>1, PostedIs
<1>8. \A d \in calls : d.then # "switcher" BY <1>1 DEF SwitcherInv, RoutingInv
<1>9. SwitcherTarget' BY <1>6, <1>7, <1>8 DEF SwitcherTarget
<1> QED BY <1>5, <1>9

(* The menu's operations all begin that way. *)
LEMMA MenuShown ==
    ASSUME RoutingInv, ShownInv, SwitcherTarget,
           \/ \E id \in SetupIds(shown) : SwitchTo(id)
           \/ DeleteSetup
           \/ \E id \in NewSetups : CreateSetup(id)
           \/ RenameSetup \/ SaveSchedule
    PROVE  ShownInv' /\ SwitcherTarget'
<1>1. SettingsOK(shown) BY ShapesAre DEF RoutingInv
<1>2. ASSUME NEW id \in SetupIds(shown), SwitchTo(id) PROVE ShownInv' /\ SwitcherTarget'
  BY <1>2, MenuStep DEF SwitchTo
<1>3. CASE DeleteSetup
  <2> DEFINE id == switcher.dialog
             first == SelectInSeq(shown.setups, LAMBDA e : e.id # id)
  <2>1. CASE id = shown.active /\ first # 0 /\ SwitcherCalls(shown, "saving", shown.setups[first].id, id)
    <3>1. shown.setups[first].id \in SetupIds(shown)
      <4> DEFINE I == {i \in 1 .. Len(shown.setups) : shown.setups[i].id # id}
      <4>1. first = IF I # {} THEN Min(I) ELSE 0 BY DEF SelectInSeq
      <4>2. I # {} /\ first = Min(I) BY <2>1, <4>1
      <4>3. I \subseteq Nat /\ I \subseteq DOMAIN shown.setups BY <1>1, SetupFacts
      <4> HIDE DEF I
      <4>4. Min(I) \in I BY <4>2, <4>3, MinIsIn
      <4> QED BY <4>2, <4>3, <4>4 DEF SetupIds
    <3> HIDE DEF first
    <3> QED BY <2>1, <3>1, MenuStep
  <2>2. CASE id # shown.active /\ SwitcherCalls(WithoutSetup(shown, id), "final", None, None)
    BY <2>2, MenuStep
  <2> QED BY <1>3, <2>1, <2>2 DEF DeleteSetup
<1>4. ASSUME NEW id \in NewSetups, CreateSetup(id) PROVE ShownInv' /\ SwitcherTarget'
  <2>1. PICK g \in {EmptyGraph(id), [shown.graph EXCEPT !.of = id]} :
          SwitcherCalls([shown EXCEPT !.setups = Append(shown.setups, [id |-> id, graph |-> g])], "saving", id, None)
    BY <1>4 DEF CreateSetup
  <2> DEFINE e == [id |-> id, graph |-> g]
             base == [shown EXCEPT !.setups = Append(shown.setups, e)]
  <2>2. IsList(shown.setups) /\ "setups" \in DOMAIN shown BY <1>1 DEF SettingsOK, SettingsFields
  <2>3. base.setups = Append(shown.setups, e) BY <2>2
  <2>4. e.id = id OBVIOUS
  <2> HIDE DEF e
  <2>5. \E i \in DOMAIN Append(shown.setups, e) : Append(shown.setups, e)[i] = e
    BY <2>2, AppendList DEF Range
  <2>6. id \in SetupIds(base) BY <2>3, <2>4, <2>5 DEF SetupIds
  <2>7. SwitcherCalls(base, "saving", id, None) BY <2>1 DEF e
  <2> HIDE DEF base
  <2> QED BY <2>6, <2>7, MenuStep
<1>5. CASE RenameSetup \/ SaveSchedule
  <2>1. \E base : SwitcherCalls(base, "final", None, None) BY <1>5 DEF RenameSetup, SaveSchedule
  <2> QED BY <2>1, MenuStep
<1> QED BY <1>2, <1>3, <1>4, <1>5

(* Edits, undo, redo and the toast's Undo patch the copy. *)
LEMMA EditShown ==
    ASSUME ShownInv, SwitcherTarget, Edit \/ Undo \/ Redo \/ ToastUndo
    PROVE  ShownInv' /\ SwitcherTarget'
<1>1. "inOrder" \in DOMAIN budget BY ShownIs
<1>2. \E next : PatchSettings(next) BY DEF Edit, OnChange, Undo, Redo, ToastUndo
<1>3. /\ UNCHANGED <<stored, failed, switcher>>
      /\ budget' = budget \/ \E what \in {"canvas", "layout", "card", "undo"} : Spend(what)
  BY DEF Edit, OnChange, Undo, Redo, ToastUndo
<1>4. "inOrder" \in DOMAIN budget' /\ budget'["inOrder"] = budget["inOrder"] BY <1>1, <1>3, SpendKeeps
<1>5. ShownInv' BY <1>2, <1>3, <1>4, PatchStep
<1>6. \E next : calls' = Posted(calls, "save", next, None, "patch", NoData)
  BY <1>2 DEF PatchSettings, SendSave, PostSave
<1>7. \E c : calls' = calls \cup {c} /\ c.then = "patch" BY <1>6, PostedIs
<1>8. SwitcherTarget' BY <1>3, <1>7, TargetKept
<1> QED BY <1>5, <1>8

(* Hiding, dismissing and opening dialogs asks Go for nothing. *)
LEMMA LocalShown ==
    ASSUME RoutingInv, ShownInv, SwitcherTarget,
           \/ \E a \in HideableActions : HideAction(a) \/ ShowAction(a)
           \/ ToastGone \/ GeoSkip \/ OpenDelete \/ CloseDelete
    PROVE  ShownInv' /\ SwitcherTarget'
<1>1. "inOrder" \in DOMAIN budget BY ShownIs
<1>2. /\ UNCHANGED <<shown, stored, calls, failed>> /\ (budget' = budget \/ Spend("hide"))
      /\ switcher' = switcher \/ \E x : switcher' = [switcher EXCEPT !.dialog = x]
  BY DEF HideAction, ShowAction, ToastGone, GeoSkip, OpenDelete, CloseDelete, syncVars
<1>3. "inOrder" \in DOMAIN budget' /\ budget'["inOrder"] = budget["inOrder"] BY <1>1, <1>2, SpendKeeps
<1>4. ShownInv' BY <1>2, <1>3, LocalStep
<1>5. DOMAIN switcher = {"pc", "target", "delete", "dialog"} BY ShapesAre DEF Idle, RoutingInv
<1>6. switcher'.pc = switcher.pc /\ switcher'.target = switcher.target BY <1>2, <1>5
<1> QED BY <1>2, <1>4, <1>6, TargetKept

(* The import, the geo files' commands, and a switch from the tray. *)
LEMMA AsksShown ==
    ASSUME ShownInv, SwitcherTarget,
           \/ ImportRouting
           \/ \E who \in {"panel", "banner"} : GeoRun(who)
           \/ \E id \in SetupIds(stored) : TraySwitch(id) /\ UNCHANGED editorVars
    PROVE  ShownInv' /\ SwitcherTarget'
<1>1. "inOrder" \in DOMAIN budget BY ShownIs
<1>2. UNCHANGED <<shown, stored, failed, switcher>> /\ \E what \in {"import", "geo", "tray"} : Spend(what)
  BY DEF ImportRouting, GeoRun, TraySwitch, editorVars
<1>3. "inOrder" \in DOMAIN budget' /\ budget'["inOrder"] = budget["inOrder"] BY <1>1, <1>2, SpendKeeps
<1>4. /\ Goes("flow", "flow") /\ Goes("geo", "panel") /\ Goes("geo", "banner") /\ Goes("switch", "tray")
  BY DEF Goes, Replacing, Resaving
<1>5. ASSUME NEW kind, NEW value, NEW id, NEW then, Goes(kind, then), then # "switcher",
             NEW data, calls' = Posted(calls, kind, value, id, then, data)
      PROVE  ShownInv' /\ SwitcherTarget'
  <2>1. ShownInv' BY <1>2, <1>3, <1>5, RequestStep
  <2>2. \E c : calls' = calls \cup {c} /\ c.then = then BY <1>5, PostedIs
  <2>3. SwitcherTarget' BY <1>2, <1>5, <2>2, TargetKept
  <2> QED BY <2>1, <2>3
<1>6. CASE ImportRouting
  <2>1. \E data : calls' = Posted(calls, "flow", shown, None, "flow", data) BY <1>6 DEF ImportRouting
  <2> QED BY <1>4, <1>5, <2>1
<1>7. ASSUME NEW who \in {"panel", "banner"}, GeoRun(who) PROVE ShownInv' /\ SwitcherTarget'
  <2>1. calls' = Posted(calls, "geo", shown, None, who, NoData) BY <1>7 DEF GeoRun, Send
  <2> QED BY <1>4, <1>5, <2>1
<1>8. ASSUME NEW id, TraySwitch(id) PROVE ShownInv' /\ SwitcherTarget'
  <2>1. calls' = Posted(calls, "switch", stored, id, "tray", NoData) BY <1>8 DEF TraySwitch, Send
  <2> QED BY <1>4, <1>5, <2>1
<1> QED BY <1>6, <1>7, <1>8

(* What an import and the geo files' commands bring is merged into the copy and
   saved. *)
LEMMA MergedShown ==
    ASSUME ShownInv, SwitcherTarget, NEW c \in calls, ImportHeard(c) \/ GeoHeard(c)
    PROVE  ShownInv' /\ SwitcherTarget'
<1>1. NextHeard(c) /\ UNCHANGED <<stored, failed, budget, switcher>> BY DEF ImportHeard, GeoHeard
<1>2. CASE c.ok
  <2>1. \E next : calls' = Posted(calls \ {c}, "save", next, None, "patch", NoData)
    BY <1>2 DEF ImportHeard, GeoHeard, Continue
  <2>2. Goes("save", "patch") BY DEF Goes, Replacing
  <2>3. ShownInv' BY <1>1, <2>1, <2>2, ContinueStep
  <2>4. \E d : calls' = (calls \ {c}) \cup {d} /\ d.then = "patch" BY <2>1, PostedIs
  <2>5. SwitcherTarget' BY <1>1, <2>4, TargetKept
  <2> QED BY <2>3, <2>5
<1>3. CASE ~c.ok
  <2>1. calls' = calls \ {c} /\ shown' = shown BY <1>3 DEF ImportHeard, GeoHeard
  <2>2. ~Brings(c) /\ ~Saves(c) BY <1>1, <1>3 DEF Brings, Saves, NextHeard
  <2>3. ShownInv' BY <1>1, <2>1, <2>2, HeardStep
  <2>4. SwitcherTarget' BY <1>1, <2>1, TargetKept
  <2> QED BY <2>3, <2>4
<1> QED BY <1>2, <1>3

(* The answers to run(): a base that was saved is left for the switch to bring,
   and it will, since the setup it switches to was saved with it. *)
LEMMA SwitcherShown ==
    ASSUME RoutingInv, ShownInv, SwitcherTarget, NEW c \in calls, SwitcherHeard(c)
    PROVE  ShownInv' /\ SwitcherTarget'
<1>1. NextHeard(c) /\ c.done /\ c.then = "switcher" /\ UNCHANGED <<stored, failed, budget>>
  BY DEF SwitcherHeard, NextHeard
<1>2. DOMAIN switcher = {"pc", "target", "delete", "dialog"} BY ShapesAre DEF Idle, RoutingInv
<1>3. (Brings(c) <=> c.ok) /\ ~Saves(c) BY <1>1 DEF Brings, Saves, Replacing, Resaving
<1>4. Goes("switch", "switcher") /\ Goes("save", "switcher") BY DEF Goes, Replacing, Resaving
<1>5. ASSUME ~c.ok, switcher' = [Idle EXCEPT !.dialog = switcher.dialog], calls' = calls \ {c}, shown' = shown
      PROVE  ShownInv' /\ SwitcherTarget'
  <2>1. ShownInv' BY <1>1, <1>3, <1>5, HeardStep
  <2>2. switcher'.pc = "idle" BY <1>5 DEF Idle
  <2> QED BY <2>1, <2>2 DEF SwitcherTarget
<1>6. ASSUME c.ok, switcher.pc = "saving", switcher' = [switcher EXCEPT !.pc = "switching"],
             Continue(c, "switch", c.value, switcher.target, "switcher"), shown' = shown
      PROVE  ShownInv' /\ SwitcherTarget'
  <2>1. /\ AllFit(calls) /\ "inOrder" \in DOMAIN budget /\ failed \in BOOLEAN
        /\ budget["inOrder"] = 1 => ReadIsFresh(calls, stored)
        /\ budget["inOrder"] = 1 /\ ~failed => Agrees(calls, shown, stored)
    BY ShownIs
  <2>2. budget["inOrder"] = 1 => \A d \in {e \in calls : e.done} : c.n <= d.n
    BY <1>1 DEF NextHeard, Oldest
  <2> DEFINE cs == calls \ {c}
  <2>3. AllFit(cs) /\ \A st : ReadIsFresh(calls, st) => ReadIsFresh(cs, st) BY <2>1, LessFits
  <2>4. calls' = Posted(cs, "switch", c.value, switcher.target, "switcher", NoData) BY <1>6 DEF Continue
  <2>5. switcher.target \in SetupIds(c.value) BY <1>1, <1>6 DEF SwitcherTarget
  <2>6. budget["inOrder"] = 1 /\ ~failed => c.value = stored \/ Agrees(cs, shown, stored)
    BY <1>1, <1>3, <1>6, <2>1, <2>2, HeardKeeps
  <2> HIDE DEF cs
  <2>7. /\ AllFit(calls')
        /\ \A st : ReadIsFresh(cs, st) => ReadIsFresh(calls', st)
        /\ \A sh, st : Agrees(cs, sh, st) => Agrees(calls', sh, st)
        /\ \A sh, st : switcher.target \in SetupIds(st) => Agrees(calls', sh, st)
    BY <1>4, <2>3, <2>4, RequestKeeps
  <2>8. budget["inOrder"] = 1 /\ ~failed => Agrees(calls', shown, stored) BY <2>5, <2>6, <2>7
  <2>9. ShownInv' BY <1>1, <1>6, <2>1, <2>3, <2>7, <2>8, ShownNext
  <2>10. switcher'.pc = "switching" BY <1>2, <1>6
  <2> QED BY <2>9, <2>10 DEF SwitcherTarget
<1>7. ASSUME switcher' = [switcher EXCEPT !.pc = "final"],
             Continue(c, "save", WithoutSetup(c.value, switcher.delete), None, "switcher")
      PROVE  ShownInv' /\ SwitcherTarget'
  <2>1. \E v : calls' = Posted(calls \ {c}, "save", v, None, "switcher", NoData) BY <1>7 DEF Continue
  <2>2. ShownInv' BY <1>1, <1>4, <2>1, ContinueStep
  <2>3. switcher'.pc = "final" BY <1>2, <1>7
  <2> QED BY <2>2, <2>3 DEF SwitcherTarget
<1>8. ASSUME c.ok, switcher' = Idle, calls' = calls \ {c}, shown' = c.value
      PROVE  ShownInv' /\ SwitcherTarget'
  <2>1. shown' = (IF Brings(c) THEN c.value ELSE shown) BY <1>3, <1>8
  <2>2. ShownInv' BY <1>1, <1>3, <1>8, <2>1, HeardStep
  <2>3. switcher'.pc = "idle" BY <1>8 DEF Idle
  <2> QED BY <2>2, <2>3 DEF SwitcherTarget
<1> QED BY <1>5, <1>6, <1>7, <1>8 DEF SwitcherHeard

RoutingShownInv == RoutingInv /\ ShownInv /\ SwitcherTarget

(* Every step of the routing screen keeps them accounted for. *)
LEMMA RoutingKeeps == RoutingShownInv /\ [RoutingNext]_routingVars => RoutingShownInv'
<1> SUFFICES ASSUME RoutingInv, ShownInv, SwitcherTarget, [RoutingNext]_routingVars
             PROVE  ShownInv' /\ SwitcherTarget'
  BY RoutingStep DEF RoutingShownInv
<1>1. CASE UNCHANGED routingVars
  <2>1. UNCHANGED <<shown, stored, calls, failed, budget, switcher>>
    BY <1>1 DEF routingVars, syncVars, editorVars
  <2> QED BY <2>1, ShownIs, LocalStep, TargetKept
<1>2. CASE Edit \/ Undo \/ Redo \/ ToastUndo BY <1>2, EditShown
<1>3. CASE \/ \E a \in HideableActions : HideAction(a) \/ ShowAction(a)
           \/ ToastGone \/ GeoSkip \/ OpenDelete \/ CloseDelete
  BY <1>3, LocalShown
<1>4. CASE \/ ImportRouting
           \/ \E who \in {"panel", "banner"} : GeoRun(who)
           \/ \E id \in SetupIds(stored) : TraySwitch(id) /\ UNCHANGED editorVars
  BY <1>4, AsksShown
<1>5. CASE \/ \E id \in SetupIds(shown) : SwitchTo(id)
           \/ DeleteSetup
           \/ \E id \in NewSetups : CreateSetup(id)
           \/ RenameSetup \/ SaveSchedule
  BY <1>5, MenuShown
<1>6. ASSUME NEW c \in calls, SettingsReplaced(c) PROVE ShownInv' /\ SwitcherTarget'
  <2>1. SettingsHeard(c) /\ switcher' = switcher BY <1>6 DEF SettingsReplaced
  <2>2. calls' = calls \ {c} BY <2>1 DEF SettingsHeard
  <2> QED BY <2>1, <2>2, SettingsHeardStep, TargetKept
<1>7. CASE ServeSettings /\ UNCHANGED editorVars
  <2>1. switcher' = switcher BY <1>7 DEF editorVars
  <2> QED BY <1>7, <2>1, ServeStep, TargetServed
<1> QED BY <1>1, <1>2, <1>3, <1>4, <1>5, <1>6, <1>7, MergedShown, SwitcherShown DEF RoutingNext

(***************************************************************************)
(* On the routing screen, whatever is edited, undone, imported, switched   *)
(* in the menu or from the tray, created and deleted, and however many of  *)
(* those calls are in flight: once all is answered in order the copy on    *)
(* screen is Go's ("the UI holds exactly what was persisted", App.tsx).    *)
(***************************************************************************)
THEOREM RoutingShown == RoutingSpec => []ShownIsStored
<1>1. RoutingInit => RoutingShownInv
  BY ShownStart, RoutingStart DEF RoutingInit, SwitcherTarget, SyncInit, RoutingShownInv
<1>2. RoutingShownInv => ShownIsStored BY ShownIs DEF ShownIsStored, Quiet, Agrees, RoutingShownInv
<1> QED BY <1>1, <1>2, RoutingKeeps, PTL DEF RoutingSpec

-----------------------------------------------------------------------------
(* Undo.  With one call at a time, what each call carries and brings is known. *)

(* With one call at a time: a call has no company, but for the event of a switch
   beside the call the setup menu makes next. *)
LEMMA LoneCall ==
    ASSUME NEW cs, NEW sh, NEW st, NEW pc, OneFlight(cs, sh, st, pc), NEW c \in cs,
           \/ c.then \notin {"event", "switcher"}
           \/ ~c.done /\ c.kind # "save"
           \/ c.then = "switcher" /\ pc = "saving"
    PROVE  cs = {c}
<1> SUFFICES ASSUME NEW d \in cs, d # c PROVE FALSE OBVIOUS
<1>1. SoleCall(c, pc) /\ SoleCall(d, pc) /\ Beside(c, d) /\ AfterSwitch(c, d, pc) /\ AfterSwitch(d, c, pc)
  BY DEF OneFlight
<1> QED BY <1>1 DEF SoleCall, Beside, AfterSwitch

(* So there are two calls at most. *)
LEMMA FewCalls ==
    ASSUME NEW cs, NEW sh, NEW st, NEW pc, OneFlight(cs, sh, st, pc), Cardinality(cs) < 1
    PROVE  cs = {}
<1> SUFFICES ASSUME cs # {} PROVE FALSE OBVIOUS
<1>1. PICK c \in cs : TRUE OBVIOUS
<1>2. PICK d \in cs : \A e \in cs : e = c \/ e = d
  <2>1. CASE cs = {c} BY <2>1
  <2>2. CASE cs # {c}
    <3>1. PICK d \in cs : d # c BY <1>1, <2>2
    <3>2. ASSUME NEW e \in cs PROVE e = c \/ e = d
      <4>1. Beside(e, c) /\ Beside(e, d) /\ Beside(c, d) BY <3>1 DEF OneFlight
      <4> QED BY <3>1, <4>1 DEF Beside
    <3> QED BY <3>1, <3>2
  <2> QED BY <2>1, <2>2
<1>3. IsFiniteSet({c}) /\ IsFiniteSet({c} \cup {d}) BY FS_Singleton, FS_AddElement
<1>4. cs = {c} \cup {d} BY <1>1, <1>2
<1>5. IsFiniteSet(cs) BY <1>3, <1>4
<1>6. Cardinality(cs) \in Nat BY <1>5, FS_CardinalityType
<1>7. Cardinality(cs) = 0 BY <1>6
<1> QED BY <1>5, <1>7, FS_EmptySet

(* Nothing under way: the screen shows Go's graph. *)
LEMMA NoneFlies ==
    ASSUME NEW sh, NEW st, NEW pc
    PROVE  OneFlight({}, sh, st, pc) <=> Alike(sh, st)
BY DEF OneFlight, ScreenFollows

(* A patch on its own accounts for any difference. *)
LEMMA PatchFlies ==
    ASSUME NEW x, x.kind = "save", x.then = "patch", ~x.done, ~x.read, NEW sh, Alike(x.value, sh),
           NEW st, NEW pc
    PROVE  OneFlight({x}, sh, st, pc)
<1>1. SoleCall(x, pc) /\ SoleBrings(x, sh, st) BY DEF SoleCall, SoleBrings
<1>2. Beside(x, x) /\ AfterSwitch(x, x, pc) BY DEF Beside, AfterSwitch
<1>3. ScreenFollows({x}, sh, st) BY DEF ScreenFollows
<1> QED BY <1>1, <1>2, <1>3 DEF OneFlight

(* Another request, sent while nothing is under way. *)
LEMMA AskFlies ==
    ASSUME NEW sh, NEW st, Alike(sh, st), NEW x, ~x.done, ~x.read, x.then # "event", NEW pc,
           SoleCall(x, pc), x.kind = "save" => Alike(x.value, st) /\ x.then = "switcher"
    PROVE  OneFlight({x}, sh, st, pc)
<1>1. SoleBrings(x, sh, st) BY DEF SoleBrings, SoleCall
<1>2. Beside(x, x) /\ AfterSwitch(x, x, pc) BY DEF Beside, AfterSwitch
<1>3. ScreenFollows({x}, sh, st) BY DEF ScreenFollows
<1> QED BY <1>1, <1>2, <1>3 DEF OneFlight

(* What screen and Go differ by is not the sole call c. *)
LEMMA FollowsAlone ==
    ASSUME NEW c, NEW sh, NEW st, NEW pc, OneFlight({c}, sh, st, pc),
           ~(c.then = "patch" /\ ~c.done), ~(c.then = "flow" /\ c.done /\ c.ok), c.then # "event"
    PROVE  Alike(sh, st)
BY DEF OneFlight, ScreenFollows

(* A save served. *)
LEMMA SaveFlies ==
    ASSUME NEW cs, NEW sh, NEW st, NEW pc, OneFlight(cs, sh, st, pc), NEW c \in cs, ~c.done, c.kind = "save",
           NEW v, Alike(v, c.value), NEW x, x.done, x.value = v, x.then = c.then, x.kind = c.kind
    PROVE  OneFlight((cs \ {c}) \cup {x}, sh, v, pc)
<1>1. SoleCall(c, pc) /\ SoleBrings(c, sh, st) BY DEF OneFlight
<1>2. CASE c.then = "patch"
  <2>1. cs = {c} BY <1>2, LoneCall
  <2>2. Alike(sh, v) BY <1>1, <1>2 DEF SoleBrings, Alike
  <2>3. (cs \ {c}) \cup {x} = {x} BY <2>1
  <2>4. SoleCall(x, pc) BY <1>1, <1>2 DEF SoleCall
  <2>5. SoleBrings(x, sh, v) BY DEF SoleBrings, Alike
  <2>6. Beside(x, x) /\ AfterSwitch(x, x, pc) BY <1>2 DEF Beside, AfterSwitch
  <2> QED BY <2>2, <2>3, <2>4, <2>5, <2>6 DEF OneFlight, ScreenFollows
<1>3. CASE c.then = "switcher"
  <2>1. Alike(v, st) BY <1>1, <1>3 DEF SoleBrings, Alike
  <2>2. ASSUME NEW d \in cs \ {c}
        PROVE  /\ d.then = "event" /\ SoleCall(d, pc) /\ SoleBrings(d, sh, v) /\ pc # "saving"
               /\ \A e \in cs \ {c} : Beside(d, e) /\ AfterSwitch(d, e, pc)
    <3>1. SoleCall(d, pc) /\ SoleBrings(d, sh, st) /\ Beside(d, c) /\ AfterSwitch(d, c, pc) BY DEF OneFlight
    <3>2. d.then = "event" BY <1>3, <3>1 DEF Beside
    <3>3. SoleBrings(d, sh, v) BY <2>1, <3>1, <3>2 DEF SoleBrings, SoleCall, Alike
    <3>4. pc # "saving" BY <1>3, <3>1, <3>2 DEF AfterSwitch
    <3> QED BY <3>1, <3>2, <3>3, <3>4 DEF OneFlight
  <2>3. SoleCall(x, pc) BY <1>1, <1>3 DEF SoleCall
  <2>4. SoleBrings(x, sh, v) BY <1>3 DEF SoleBrings, Alike
  <2>5. \A d \in cs \ {c} : Beside(d, x) /\ Beside(x, d) /\ AfterSwitch(d, x, pc) /\ AfterSwitch(x, d, pc)
    BY <1>3, <2>2 DEF Beside, AfterSwitch
  <2>6. Beside(x, x) /\ AfterSwitch(x, x, pc) BY <1>3 DEF Beside, AfterSwitch
  <2>7. ScreenFollows((cs \ {c}) \cup {x}, sh, v)
    <3>1. ScreenFollows(cs, sh, st) BY DEF OneFlight
    <3>2. \A d \in cs : d.then \in {"event", "switcher"} BY <1>3, <2>2
    <3>3. CASE Alike(sh, st) BY <2>1, <3>3 DEF ScreenFollows, Alike
    <3>4. CASE (\E d \in cs : d.then = "event") /\ sh.active # st.active
      <4>1. sh.active # v.active BY <2>1, <3>4 DEF Alike
      <4>2. \E d \in cs \ {c} : d.then = "event" BY <1>3, <3>4
      <4> QED BY <4>1, <4>2 DEF ScreenFollows
    <3> QED BY <3>1, <3>2, <3>3, <3>4 DEF ScreenFollows
  <2> QED BY <2>2, <2>3, <2>4, <2>5, <2>6, <2>7 DEF OneFlight
<1> QED BY <1>1, <1>2, <1>3 DEF SoleCall

(* A command has read Go's settings. *)
LEMMA ReadFlies ==
    ASSUME NEW c, NEW sh, NEW st, NEW pc, OneFlight({c}, sh, st, pc), ~c.done, c.kind # "save",
           NEW x, ~x.done, x.then = c.then, x.kind = c.kind, x.value = st
    PROVE  OneFlight({x}, sh, st, pc)
<1>1. SoleCall(c, pc) BY DEF OneFlight
<1>2. c.then # "patch" /\ c.then # "event" BY <1>1 DEF SoleCall
<1>3. Alike(sh, st) BY <1>2, FollowsAlone
<1>4. SoleCall(x, pc) /\ SoleBrings(x, sh, st) BY <1>1, <1>2 DEF SoleCall, SoleBrings, Alike
<1>5. Beside(x, x) /\ AfterSwitch(x, x, pc) BY <1>2 DEF Beside, AfterSwitch
<1> QED BY <1>3, <1>4, <1>5 DEF OneFlight, ScreenFollows

(* A command answered. *)
LEMMA AnswerFlies ==
    ASSUME NEW c, NEW sh, NEW st, NEW pc, OneFlight({c}, sh, st, pc), ~c.done, c.kind # "save",
           NEW x, x.done, x.then = c.then, x.kind = c.kind, NEW v, Alike(x.value, v),
           Alike(v, st) \/ (c.then = "flow" /\ x.ok)
    PROVE  OneFlight({x}, sh, v, pc)
<1>1. SoleCall(c, pc) BY DEF OneFlight
<1>2. c.then # "patch" /\ c.then # "event" BY <1>1 DEF SoleCall
<1>3. Alike(sh, st) BY <1>2, FollowsAlone
<1>4. SoleCall(x, pc) /\ SoleBrings(x, sh, v) BY <1>1, <1>2 DEF SoleCall, SoleBrings
<1>5. Beside(x, x) /\ AfterSwitch(x, x, pc) BY <1>2 DEF Beside, AfterSwitch
<1>6. ScreenFollows({x}, sh, v) BY <1>3 DEF ScreenFollows, Alike
<1> QED BY <1>4, <1>5, <1>6 DEF OneFlight

(* A switch told by an event e, and to the menu by its answer a. *)
LEMMA SwitchFlies ==
    ASSUME NEW c, NEW sh, NEW st, NEW pc, OneFlight({c}, sh, st, pc), ~c.done, c.kind = "switch", c.read,
           NEW v, v.active # c.value.active,
           NEW e, e.done, e.ok, e.then = "event", e.kind = "switch", e.value = v,
           NEW a, a.done, a.then = c.then, a.kind = "switch", a.value = v
    PROVE  OneFlight(IF c.then = "tray" THEN {e} ELSE {e, a}, sh, v, pc)
<1>1. SoleCall(c, pc) /\ SoleBrings(c, sh, st) BY DEF OneFlight
<1>2. c.then \in {"tray", "switcher"} BY <1>1 DEF SoleCall
<1>3. Alike(sh, st) BY <1>2, FollowsAlone
<1>4. sh.active # v.active BY <1>1, <1>3 DEF SoleBrings, Alike
<1>5. SoleCall(e, pc) /\ SoleBrings(e, sh, v) BY DEF SoleCall, SoleBrings, Alike
<1>6. c.then = "switcher" => SoleCall(a, pc) /\ SoleBrings(a, sh, v) /\ pc # "saving"
  BY <1>1 DEF SoleCall, SoleBrings, Alike
<1>7. Beside(e, e) /\ AfterSwitch(e, e, pc) BY DEF Beside, AfterSwitch
<1>8. c.then = "switcher" =>
        /\ Beside(e, a) /\ Beside(a, e) /\ Beside(a, a)
        /\ AfterSwitch(e, a, pc) /\ AfterSwitch(a, e, pc) /\ AfterSwitch(a, a, pc)
  BY <1>6 DEF Beside, AfterSwitch
<1>9. CASE c.then = "tray"
  <2>1. ScreenFollows({e}, sh, v) BY <1>4 DEF ScreenFollows
  <2> QED BY <1>5, <1>7, <1>9, <2>1 DEF OneFlight
<1>10. CASE c.then = "switcher"
  <2>1. ScreenFollows({e, a}, sh, v) BY <1>4 DEF ScreenFollows
  <2>2. \A d \in {e, a} : SoleCall(d, pc) /\ SoleBrings(d, sh, v) BY <1>5, <1>6, <1>10
  <2>3. \A d1, d2 \in {e, a} : Beside(d1, d2) /\ AfterSwitch(d1, d2, pc) BY <1>7, <1>8, <1>10
  <2> QED BY <1>10, <2>1, <2>2, <2>3 DEF OneFlight
<1> QED BY <1>2, <1>9, <1>10

(* An answer replaces the copy: by Go's graph, and by another one than before
   only if another setup is active. *)
LEMMA ReplaceFlies ==
    ASSUME NEW cs, NEW sh, NEW st, NEW pc, OneFlight(cs, sh, st, pc), NEW c \in cs, c.done,
           c.then \in {"patch", "event", "switcher"}, NEW pc2, pc2 = pc \/ pc2 = "idle"
    PROVE  /\ OneFlight(cs \ {c}, c.value, st, pc2)
           /\ c.value.active = sh.active => c.value.graph = sh.graph
<1>1. SoleCall(c, pc) /\ SoleBrings(c, sh, st) /\ ScreenFollows(cs, sh, st) BY DEF OneFlight
<1>2. Alike(c.value, st) BY <1>1 DEF SoleBrings
<1>3. \A d \in cs \ {c} : SoleCall(d, pc) /\ SoleBrings(d, sh, st) /\ Beside(d, c) BY DEF OneFlight
<1>4. \A d \in cs \ {c} : d.then # "patch" /\ d.then # "flow" BY <1>3 DEF Beside
<1>5. \A d \in cs \ {c} : SoleCall(d, pc2) /\ SoleBrings(d, c.value, st)
  BY <1>3, <1>4 DEF SoleCall, SoleBrings
<1>6. \A d, e \in cs \ {c} : Beside(d, e) /\ AfterSwitch(d, e, pc2) BY DEF OneFlight, AfterSwitch
<1>7. ScreenFollows(cs \ {c}, c.value, st) BY <1>2 DEF ScreenFollows
<1>8. ASSUME c.value.active = sh.active PROVE c.value.graph = sh.graph
  <2>1. ~\E d \in cs : d.then = "patch" /\ ~d.done BY <1>4
  <2>2. ~\E d \in cs : d.then = "flow" /\ d.done /\ d.ok BY <1>4
  <2>3. sh.active = st.active BY <1>2, <1>8 DEF Alike
  <2>4. Alike(sh, st) BY <1>1, <2>1, <2>2, <2>3 DEF ScreenFollows
  <2> QED BY <1>2, <2>4 DEF Alike
<1> QED BY <1>5, <1>6, <1>7, <1>8 DEF OneFlight

(* The menu's call is over, or goes on with a save. *)
LEMMA MenuFlies ==
    ASSUME NEW cs, NEW sh, NEW st, NEW pc, OneFlight(cs, sh, st, pc), NEW c \in cs, c.done, c.then = "switcher"
    PROVE  /\ OneFlight(cs \ {c}, sh, st, "idle")
           /\ \A x : x.kind = "save" /\ x.then = "switcher" /\ ~x.done /\ ~x.read /\ Alike(x.value, c.value) =>
                       OneFlight((cs \ {c}) \cup {x}, sh, st, "final")
<1>1. SoleCall(c, pc) /\ SoleBrings(c, sh, st) /\ ScreenFollows(cs, sh, st) BY DEF OneFlight
<1>2. Alike(c.value, st) BY <1>1 DEF SoleBrings
<1>3. \A d \in cs \ {c} : SoleCall(d, pc) /\ SoleBrings(d, sh, st) /\ Beside(d, c) BY DEF OneFlight
<1>4. \A d \in cs \ {c} : d.then = "event" BY <1>3 DEF Beside
<1>5. \A d \in cs \ {c} : SoleCall(d, "idle") /\ SoleCall(d, "final") /\ SoleBrings(d, sh, st)
  BY <1>3 DEF SoleCall
<1>6. \A d, e \in cs \ {c} : Beside(d, e) /\ AfterSwitch(d, e, "idle") /\ AfterSwitch(d, e, "final")
  BY <1>4 DEF OneFlight, AfterSwitch
<1>7. ScreenFollows(cs \ {c}, sh, st) BY <1>1 DEF ScreenFollows
<1>8. OneFlight(cs \ {c}, sh, st, "idle") BY <1>5, <1>6, <1>7 DEF OneFlight
<1>9. ASSUME NEW x, x.kind = "save", x.then = "switcher", ~x.done, ~x.read, Alike(x.value, c.value)
      PROVE  OneFlight((cs \ {c}) \cup {x}, sh, st, "final")
  <2>1. SoleCall(x, "final") BY <1>9 DEF SoleCall
  <2>2. SoleBrings(x, sh, st) BY <1>2, <1>9 DEF SoleBrings, Alike
  <2>3. \A d \in cs \ {c} : /\ Beside(d, x) /\ AfterSwitch(d, x, "final")
                            /\ Beside(x, d) /\ AfterSwitch(x, d, "final")
    BY <1>4, <1>9 DEF Beside, AfterSwitch
  <2>4. Beside(x, x) /\ AfterSwitch(x, x, "final") BY <1>9 DEF Beside, AfterSwitch
  <2>5. ScreenFollows((cs \ {c}) \cup {x}, sh, st) BY <1>7 DEF ScreenFollows
  <2> QED BY <1>5, <1>6, <2>1, <2>2, <2>3, <2>4, <2>5 DEF OneFlight
<1> QED BY <1>8, <1>9

-----------------------------------------------------------------------------
(* The history. *)

(* Only the bounds of other things are used up. *)
LEMMA FlightKept ==
    ASSUME "flight" \in DOMAIN budget, budget' = budget \/ \E what : what # "flight" /\ Spend(what)
    PROVE  "flight" \in DOMAIN budget' /\ budget'["flight"] = budget["flight"]
BY DEF Spend

(* UndoInv of the next state, from what a step does with one call at a time. *)
LEMMA UndoNext ==
    ASSUME UndoInv, failed \in BOOLEAN, budget' = budget \/ \E what : what # "flight" /\ Spend(what),
           failed => failed', trimmed' \in BOOLEAN,
           (budget["flight"] = 1 /\ ~failed' /\ OneFlight(calls, shown, stored, switcher.pc)
              /\ (~trimmed => LeadsBack))
             => OneFlight(calls', shown', stored', switcher'.pc) /\ (~trimmed' => LeadsBack')
    PROVE  UndoInv'
<1>1. "flight" \in DOMAIN budget' /\ budget'["flight"] = budget["flight"] BY FlightKept DEF UndoInv
<1>2. "flight" \in DOMAIN budget' /\ trimmed' \in BOOLEAN BY <1>1
<1>3. ASSUME budget'["flight"] = 1, ~failed'
      PROVE  OneFlight(calls', shown', stored', switcher'.pc) /\ (~trimmed' => LeadsBack')
  BY <1>1, <1>3 DEF UndoInv
<1> QED BY <1>2, <1>3 DEF UndoInv

(* Nothing recorded, the same graph on screen. *)
LEMMA LeadsStill ==
    ASSUME UNCHANGED <<past, opened, trimmed>>, shown'.graph = shown.graph, ~trimmed => LeadsBack
    PROVE  ~trimmed' => LeadsBack'
BY DEF LeadsBack

(* The first step of a list made longer. *)
LEMMA FirstStays ==
    ASSUME NEW s, IsList(s), NEW x
    PROVE  /\ Append(s, x) # <<>>
           /\ Append(s, x)[1] = IF s = <<>> THEN x ELSE s[1]
<1>1. /\ IsList(Append(s, x)) /\ Len(Append(s, x)) = Len(s) + 1 /\ Append(s, x)[Len(s) + 1] = x
      /\ \A i \in 1 .. Len(s) : Append(s, x)[i] = s[i]
  BY AppendList
<1>2. Len(s) \in Nat BY ListFacts
<1>3. Len(Append(s, x)) # 0 BY <1>1, <1>2
<1>4. Append(s, x) # <<>> BY <1>3
<1>5. CASE s = <<>>
  <2>1. Len(s) = 0 BY <1>5
  <2> QED BY <1>1, <1>4, <1>5, <2>1
<1>6. CASE s # <<>>
  <2>1. Len(s) # 0 BY <1>6, EmptySeq DEF IsList
  <2>2. 1 \in 1 .. Len(s) BY <1>2, <2>1
  <2> QED BY <1>1, <1>4, <1>6, <2>2
<1> QED BY <1>5, <1>6

(* One more step to undo. *)
LEMMA LeadsRecorded ==
    ASSUME ShapesInv, RecordStep, trimmed \in BOOLEAN, ~trimmed => LeadsBack
    PROVE  trimmed' \in BOOLEAN /\ (~trimmed' => LeadsBack')
<1>1. trimmed' = (trimmed \/ Len(past) = HISTORY_LIMIT) /\ opened' = opened BY DEF RecordStep
<1>2. IsList(past) BY ShapesAre DEF Graphs
<1>3. ASSUME ~trimmed' PROVE LeadsBack'
  <2>1. ~trimmed /\ past' = Append(past, shown.graph) BY <1>1, <1>3 DEF RecordStep
  <2>2. past' # <<>> /\ past'[1] = IF past = <<>> THEN shown.graph ELSE past[1] BY <1>2, <2>1, FirstStays
  <2> QED BY <1>1, <2>1, <2>2 DEF LeadsBack
<1> QED BY <1>1, <1>3

(* One step taken back. *)
LEMMA LeadsUndone ==
    ASSUME IsList(past), past # <<>>, past' = Front(past), shown'.graph = Last(past), opened' = opened, LeadsBack
    PROVE  LeadsBack'
<1>1. Len(past) \in Nat \ {0} /\ past[1] = opened BY EmptySeq DEF IsList, LeadsBack
<1>2. Front(past) = SubSeq(past, 1, Len(past) - 1) BY DEF Front
<1>3. Last(past) = past[Len(past)] BY DEF Last
<1>4. CASE Len(past) = 1
  <2>1. Front(past) = <<>>
    <3>1. SubSeq(past, 1, 0) = <<>> OBVIOUS
    <3> QED BY <1>2, <1>4, <3>1
  <2> QED BY <1>1, <1>3, <1>4, <2>1 DEF LeadsBack
<1>5. CASE Len(past) > 1
  <2>1. \A i \in 1 .. Len(past) - 1 : past[i] \in Range(past) BY <1>1, ListFacts
  <2>2. /\ Len(Front(past)) = Len(past) - 1
        /\ \A i \in 1 .. Len(past) - 1 : Front(past)[i] = past[i]
    <3> DEFINE n == Len(past) - 1
    <3>1. n \in Nat /\ n - 1 + 1 = n /\ \A i \in 1 .. n : 1 + i - 1 = i BY <1>1, <1>5
    <3>2. Front(past) = SubSeq(past, 1, n) /\ \A i \in 1 .. n : past[i] \in Range(past) BY <1>2, <2>1
    <3> HIDE DEF n
    <3>3. Len(SubSeq(past, 1, n)) = n /\ \A i \in 1 .. n : SubSeq(past, 1, n)[i] = past[i]
      BY <3>1, <3>2, SubSeqProperties
    <3> QED BY <3>2, <3>3 DEF n
  <2>3. Len(Front(past)) # 0 /\ 1 \in 1 .. Len(past) - 1 BY <1>1, <1>5, <2>2
  <2>4. Front(past) # <<>> BY <2>3
  <2>5. Front(past)[1] = past[1] BY <2>2, <2>3
  <2> QED BY <1>1, <2>4, <2>5 DEF LeadsBack
<1> QED BY <1>1, <1>4, <1>5

(* One step made again. *)
LEMMA LeadsRedone ==
    ASSUME IsList(past), past' = Append(past, shown.graph), opened' = opened, LeadsBack
    PROVE  LeadsBack'
<1>1. past' # <<>> /\ past'[1] = IF past = <<>> THEN shown.graph ELSE past[1] BY FirstStays
<1> QED BY <1>1 DEF LeadsBack

(* Another setup starts a history of its own; the same one has kept its graph. *)
LEMMA LeadsFollowed ==
    ASSUME HistoryFollows(shown'), trimmed \in BOOLEAN,
           shown'.active = shown.active => shown'.graph = shown.graph,
           ~trimmed => LeadsBack
    PROVE  trimmed' \in BOOLEAN /\ (~trimmed' => LeadsBack')
<1>1. CASE shown'.active # shown.active
  BY <1>1 DEF HistoryFollows, LeadsBack
<1>2. CASE shown'.active = shown.active
  <2>1. UNCHANGED <<past, opened, trimmed>> BY <1>2 DEF HistoryFollows, historyVars
  <2> QED BY <1>2, <2>1, LeadsStill
<1> QED BY <1>1, <1>2

(* Whatever the history did, it is trimmed or not. *)
LEMMA TrimmedIs ==
    ASSUME trimmed \in BOOLEAN, RecordStep \/ HistoryFollows(shown') \/ UNCHANGED trimmed
    PROVE  trimmed' \in BOOLEAN
BY DEF RecordStep, HistoryFollows, historyVars

-----------------------------------------------------------------------------
(* The steps. *)

(* With one call at a time, a call is made only when nothing is under way. *)
LEMMA NothingFlies ==
    ASSUME budget["flight"] = 1, MayCall, NEW sh, NEW st, NEW pc, OneFlight(calls, sh, st, pc)
    PROVE  calls = {} /\ Alike(sh, st)
<1>1. calls = {} BY FewCalls DEF MayCall
<1> QED BY <1>1, NoneFlies

(* patchSettings then has one save under way, of what is on screen. *)
LEMMA PatchReturns ==
    ASSUME MayCall, NEW next, PatchSettings(next), budget["flight"] = 1,
           OneFlight(calls, shown, stored, switcher.pc)
    PROVE  OneFlight(calls', shown', stored', switcher'.pc)
<1>1. calls = {} BY NothingFlies
<1>2. shown' = next /\ calls' = Posted(calls, "save", next, None, "patch", NoData)
  BY DEF PatchSettings, SendSave, PostSave
<1>3. PICK x : calls' = calls \cup {x} /\ x.kind = "save" /\ x.value = next /\ x.then = "patch" /\ ~x.read /\ ~x.done
  BY <1>2, RequestIs
<1>4. calls' = {x} BY <1>1, <1>3
<1>5. Alike(x.value, shown') BY <1>2, <1>3 DEF Alike
<1>6. \A st, pc : OneFlight({x}, shown', st, pc) BY <1>3, <1>5, PatchFlies
<1> QED BY <1>4, <1>6

(* Edits and the toast's Undo are recorded, undo and redo walk along. *)
LEMMA EditReturns ==
    ASSUME RoutingInv, ShownInv, UndoInv, Edit \/ Undo \/ Redo \/ ToastUndo
    PROVE  UndoInv'
<1>1. ShapesInv /\ failed \in BOOLEAN /\ trimmed \in BOOLEAN BY ShownIs DEF RoutingInv, UndoInv
<1>2. MayCall /\ \E next : PatchSettings(next) BY DEF Edit, OnChange, Undo, Redo, ToastUndo
<1>3. failed' = failed /\ (budget' = budget \/ \E what \in {"canvas", "layout", "card", "undo"} : Spend(what))
  BY DEF Edit, OnChange, Undo, Redo, ToastUndo
<1>4. budget' = budget \/ \E what : what # "flight" /\ Spend(what) BY <1>3
<1>5. IsList(past) /\ IsList(future) /\ SettingsOK(shown) BY <1>1, ShapesAre DEF Graphs
<1>6. \A g : [shown EXCEPT !.graph = g].graph = g BY <1>5 DEF SettingsOK, SettingsFields
<1>7. trimmed' \in BOOLEAN /\ ((~trimmed => LeadsBack) => (~trimmed' => LeadsBack'))
  <2>1. CASE Edit \/ ToastUndo
    <3>1. RecordStep BY <2>1 DEF Edit, OnChange, ToastUndo
    <3> QED BY <1>1, <3>1, TrimmedIs, LeadsRecorded
  <2>2. CASE Undo
    <3>1. past # <<>> /\ past' = Front(past) /\ UNCHANGED <<opened, trimmed>> /\ shown'.graph = Last(past)
      BY <1>6, <2>2 DEF Undo, PatchSettings
    <3> QED BY <1>1, <1>5, <3>1, LeadsUndone
  <2>3. CASE Redo
    <3>1. past' = Append(past, shown.graph) /\ UNCHANGED <<opened, trimmed>> BY <2>3 DEF Redo
    <3> QED BY <1>1, <1>5, <3>1, LeadsRedone
  <2> QED BY <2>1, <2>2, <2>3
<1>8. budget["flight"] = 1 /\ OneFlight(calls, shown, stored, switcher.pc) =>
        OneFlight(calls', shown', stored', switcher'.pc)
  BY <1>2, PatchReturns
<1> QED BY <1>1, <1>3, <1>4, <1>7, <1>8, UndoNext

(* Local steps change neither graphs, calls nor the history. *)
LEMMA LocalReturns ==
    ASSUME RoutingInv, ShownInv, UndoInv,
           \/ \E a \in HideableActions : HideAction(a) \/ ShowAction(a)
           \/ ToastGone \/ GeoSkip \/ OpenDelete \/ CloseDelete \/ UNCHANGED routingVars
    PROVE  UndoInv'
<1>1. failed \in BOOLEAN /\ trimmed \in BOOLEAN BY ShownIs DEF UndoInv
<1>2. /\ UNCHANGED <<shown, stored, calls, failed, past, opened, trimmed>> /\ (budget' = budget \/ Spend("hide"))
      /\ switcher' = switcher \/ \E x : switcher' = [switcher EXCEPT !.dialog = x]
  BY DEF HideAction, ShowAction, ToastGone, GeoSkip, OpenDelete, CloseDelete, syncVars, historyVars,
         routingVars, editorVars
<1>3. DOMAIN switcher = {"pc", "target", "delete", "dialog"} BY ShapesAre DEF Idle, RoutingInv
<1>4. switcher'.pc = switcher.pc BY <1>2, <1>3
<1>5. budget' = budget \/ \E what : what # "flight" /\ Spend(what) BY <1>2
<1>6. (~trimmed => LeadsBack) => (~trimmed' => LeadsBack') BY <1>2, LeadsStill
<1>7. OneFlight(calls, shown, stored, switcher.pc) => OneFlight(calls', shown', stored', switcher'.pc)
  BY <1>2, <1>4
<1> QED BY <1>1, <1>2, <1>5, <1>6, <1>7, UndoNext

(* A request other than a patch. *)
LEMMA AskReturns ==
    ASSUME RoutingInv, ShownInv, UndoInv, MayCall, NEW kind, NEW value, NEW id, NEW then, NEW data,
           calls' = Posted(calls, kind, value, id, then, data),
           UNCHANGED <<shown, stored, failed, past, opened, trimmed>>,
           budget' = budget \/ \E what : what # "flight" /\ Spend(what),
           \/ kind = "flow" /\ then = "flow"
           \/ kind = "geo" /\ then \in {"panel", "banner"}
           \/ kind = "switch" /\ then = "tray"
           \/ kind = "save" /\ then = "switcher" /\ Alike(value, shown)
    PROVE  UndoInv'
<1>1. failed \in BOOLEAN /\ trimmed \in BOOLEAN BY ShownIs DEF UndoInv
<1>2. ASSUME budget["flight"] = 1, OneFlight(calls, shown, stored, switcher.pc)
      PROVE  OneFlight(calls', shown', stored', switcher'.pc)
  <2>1. calls = {} /\ Alike(shown, stored) BY <1>2, NothingFlies
  <2>2. PICK x : calls' = calls \cup {x} /\ x.kind = kind /\ x.value = value /\ x.then = then /\ ~x.read /\ ~x.done
    BY RequestIs
  <2>3. calls' = {x} BY <2>1, <2>2
  <2>4. \A pc : SoleCall(x, pc) BY <2>2 DEF SoleCall
  <2>5. x.kind = "save" => Alike(x.value, stored) /\ x.then = "switcher" BY <2>1, <2>2 DEF Alike
  <2>6. x.then # "event" BY <2>2
  <2>7. \A pc : OneFlight({x}, shown, stored, pc) BY <2>1, <2>2, <2>4, <2>5, <2>6, AskFlies
  <2> QED BY <2>3, <2>7
<1>3. (~trimmed => LeadsBack) => (~trimmed' => LeadsBack') BY LeadsStill
<1> QED BY <1>1, <1>2, <1>3, UndoNext

(* Imports, geo files, the tray and the setup menu. *)
LEMMA AsksReturn ==
    ASSUME RoutingInv, ShownInv, UndoInv,
           \/ ImportRouting
           \/ \E who \in {"panel", "banner"} : GeoRun(who)
           \/ \E id \in SetupIds(stored) : TraySwitch(id) /\ UNCHANGED editorVars
    PROVE  UndoInv'
<1>1. /\ UNCHANGED <<shown, stored, failed, past, opened, trimmed>> /\ MayCall
      /\ \E what \in {"import", "geo", "tray"} : Spend(what)
  BY DEF ImportRouting, GeoRun, TraySwitch, editorVars, historyVars
<1>2. budget' = budget \/ \E what : what # "flight" /\ Spend(what) BY <1>1
<1>3. CASE ImportRouting
  <2>1. \E data : calls' = Posted(calls, "flow", shown, None, "flow", data) BY <1>3 DEF ImportRouting
  <2> QED BY <1>1, <1>2, <2>1, AskReturns
<1>4. ASSUME NEW who \in {"panel", "banner"}, GeoRun(who) PROVE UndoInv'
  <2>1. calls' = Posted(calls, "geo", shown, None, who, NoData) BY <1>4 DEF GeoRun, Send
  <2> QED BY <1>1, <1>2, <2>1, AskReturns
<1>5. ASSUME NEW id, TraySwitch(id) PROVE UndoInv'
  <2>1. calls' = Posted(calls, "switch", stored, id, "tray", NoData) BY <1>5 DEF TraySwitch, Send
  <2> QED BY <1>1, <1>2, <2>1, AskReturns
<1> QED BY <1>3, <1>4, <1>5

(* The menu's bases have the graph and the setup on screen. *)
LEMMA MenuReturns ==
    ASSUME RoutingInv, ShownInv, UndoInv,
           \/ \E id \in SetupIds(shown) : SwitchTo(id)
           \/ DeleteSetup
           \/ \E id \in NewSetups : CreateSetup(id)
           \/ RenameSetup \/ SaveSchedule
    PROVE  UndoInv'
<1>1. SettingsOK(shown) BY ShapesAre DEF RoutingInv
<1>2. ASSUME NEW base, Alike(base, shown), \E pc, target, delete : SwitcherCalls(base, pc, target, delete)
      PROVE  UndoInv'
  <2>1. /\ MayCall /\ calls' = Posted(calls, "save", base, None, "switcher", NoData)
        /\ UNCHANGED <<shown, stored, failed, past, opened, trimmed>> /\ Spend("setups")
    BY <1>2 DEF SwitcherCalls, SendSave, PostSave, historyVars
  <2>2. budget' = budget \/ \E what : what # "flight" /\ Spend(what) BY <2>1
  <2> QED BY <1>2, <2>1, <2>2, AskReturns
<1>3. /\ \A x : Alike([shown EXCEPT !.setups = x], shown)
      /\ \A x : Alike([shown EXCEPT !.other = x], shown)
      /\ \A x : Alike([shown EXCEPT !.schedule = x], shown)
      /\ Alike(shown, shown)
  BY <1>1 DEF Alike, SettingsOK, SettingsFields
<1>4. CASE \E id \in SetupIds(shown) : SwitchTo(id)
  BY <1>2, <1>3, <1>4 DEF SwitchTo
<1>5. CASE DeleteSetup
  <2>1. \/ \E pc, target, delete : SwitcherCalls(shown, pc, target, delete)
        \/ \E pc, target, delete : SwitcherCalls(WithoutSetup(shown, switcher.dialog), pc, target, delete)
    BY <1>5 DEF DeleteSetup
  <2>2. Alike(WithoutSetup(shown, switcher.dialog), shown) BY <1>3 DEF WithoutSetup
  <2> QED BY <1>2, <1>3, <2>1, <2>2
<1>6. CASE \E id \in NewSetups : CreateSetup(id)
  <2>1. \E x : \E pc, target, delete : SwitcherCalls([shown EXCEPT !.setups = x], pc, target, delete)
    BY <1>6 DEF CreateSetup
  <2> QED BY <1>2, <1>3, <2>1
<1>7. CASE RenameSetup
  <2>1. \E x : \E pc, target, delete : SwitcherCalls([shown EXCEPT !.other = x], pc, target, delete)
    BY <1>7 DEF RenameSetup
  <2> QED BY <1>2, <1>3, <2>1
<1>8. CASE SaveSchedule
  <2>1. \E x : \E pc, target, delete : SwitcherCalls([shown EXCEPT !.schedule = x], pc, target, delete)
    BY <1>8 DEF SaveSchedule
  <2> QED BY <1>2, <1>3, <2>1
<1> QED BY <1>4, <1>5, <1>6, <1>7, <1>8

(* Go's side leaves the window's copy and the history alone. *)
LEMMA ServedReturns ==
    ASSUME RoutingInv, ShownInv, UndoInv, UNCHANGED <<shown, editorVars>>, failed' \in BOOLEAN, failed => failed',
           budget' = budget \/ Spend("fail"),
           (~failed' /\ OneFlight(calls, shown, stored, switcher.pc)) => OneFlight(calls', shown, stored', switcher.pc)
    PROVE  UndoInv'
<1>1. failed \in BOOLEAN /\ trimmed \in BOOLEAN BY ShownIs DEF UndoInv
<1>2. UNCHANGED <<shown, switcher, past, opened, trimmed>> BY DEF editorVars, historyVars
<1>3. budget' = budget \/ \E what : what # "flight" /\ Spend(what) OBVIOUS
<1>4. (~trimmed => LeadsBack) => (~trimmed' => LeadsBack') BY <1>2, LeadsStill
<1> QED BY <1>1, <1>2, <1>3, <1>4, UndoNext

(* Saves. *)
LEMMA SaveReturns ==
    ASSUME RoutingInv, ShownInv, UndoInv, NEW c \in calls, SaveServed(c) \/ SaveRefused(c), UNCHANGED editorVars
    PROVE  UndoInv'
<1>1. AllFit(calls) /\ failed \in BOOLEAN BY ShownIs
<1>2. SettingsOK(c.value) /\ CallFits(c) BY <1>1, ShapesAre DEF RoutingInv, CallOK, AllFit
<1>3. ~c.done /\ c.kind = "save" /\ UNCHANGED shown BY DEF SaveServed, SaveRefused, NextServed
<1>4. CASE SaveServed(c)
  <2>1. PICK v : v = stored' OBVIOUS
  <2>2. v = Normalize(c.value) BY <1>4, <2>1 DEF SaveServed
  <2>3. Alike(v, c.value) BY <1>2, <2>2, NormalizeOK DEF Alike
  <2>4. PICK ok \in BOOLEAN : ok = TRUE OBVIOUS
  <2>5. Answer(c, v, ok) /\ UNCHANGED <<failed, budget>> BY <1>4, <2>1, <2>4 DEF SaveServed
  <2>6. PICK x : calls' = (calls \ {c}) \cup {x} /\ x.done /\ x.value = v /\ x.then = c.then /\ x.kind = c.kind
    BY <1>1, <1>3, <2>5, AnswerStep
  <2>7. OneFlight(calls, shown, stored, switcher.pc) => OneFlight((calls \ {c}) \cup {x}, shown, v, switcher.pc)
    BY <1>3, <2>3, <2>6, SaveFlies
  <2> QED BY <1>1, <1>3, <2>1, <2>5, <2>6, <2>7, ServedReturns
<1>5. CASE SaveRefused(c)
  <2>1. failed' = TRUE /\ Spend("fail") BY <1>5 DEF SaveRefused
  <2> QED BY <1>3, <2>1, ServedReturns
<1> QED BY <1>4, <1>5

(* Commands that read. *)
LEMMA ReadReturns ==
    ASSUME RoutingInv, ShownInv, UndoInv, NEW c \in calls, ReadSettings(c), UNCHANGED editorVars
    PROVE  UndoInv'
<1> DEFINE x == [c EXCEPT !.read = TRUE, !.value = stored]
<1>1. AllFit(calls) /\ failed \in BOOLEAN BY ShownIs
<1>2. CallFits(c) BY <1>1 DEF AllFit
<1>3. /\ ~c.done /\ c.kind # "save" /\ UNCHANGED <<shown, stored, failed, budget>>
      /\ calls' = (calls \ {c}) \cup {x}
  BY DEF ReadSettings, NextServed
<1>4. x.then = c.then /\ x.kind = c.kind /\ x.value = stored /\ x.done = c.done BY <1>2 DEF CallFits, CallFields
<1> HIDE DEF x
<1>5. ASSUME OneFlight(calls, shown, stored, switcher.pc) PROVE OneFlight(calls', shown, stored, switcher.pc)
  <2>1. calls = {c} BY <1>3, <1>5, LoneCall
  <2>2. calls' = {x} BY <1>3, <2>1
  <2>3. OneFlight({c}, shown, stored, switcher.pc) BY <1>5, <2>1
  <2>4. OneFlight({x}, shown, stored, switcher.pc) BY <1>3, <1>4, <2>3, ReadFlies
  <2> QED BY <2>2, <2>4
<1> QED BY <1>1, <1>3, <1>5, ServedReturns

(* The geo files and the import. *)
LEMMA CommandReturns ==
    ASSUME RoutingInv, ShownInv, UndoInv, NEW c \in calls, CommandServed(c), UNCHANGED editorVars
    PROVE  UndoInv'
<1>1. AllFit(calls) /\ failed \in BOOLEAN BY ShownIs
<1>2. SettingsOK(c.value) /\ CallFits(c) BY <1>1, ShapesAre DEF RoutingInv, CallOK, AllFit
<1>3. ~c.done /\ c.kind \in {"hwid", "geo", "flow"} /\ c.read /\ UNCHANGED shown BY DEF CommandServed, NextServed
<1>4. ASSUME NEW v, NEW ok \in BOOLEAN, stored' = v, Answer(c, v, ok), UNCHANGED <<failed, budget>>,
             v = stored \/ (c.kind = "geo" /\ Alike(v, c.value)) \/ (c.kind # "geo" /\ ok)
      PROVE  UndoInv'
  <2>1. PICK x : /\ calls' = (calls \ {c}) \cup {x} /\ x.done /\ (x.ok <=> ok)
                 /\ x.value = v /\ x.then = c.then /\ x.kind = c.kind
    BY <1>1, <1>3, <1>4, AnswerStep
  <2>2. ASSUME OneFlight(calls, shown, stored, switcher.pc) PROVE OneFlight(calls', shown, v, switcher.pc)
    <3>1. SoleCall(c, switcher.pc) /\ SoleBrings(c, shown, stored) BY <2>2 DEF OneFlight
    <3>2. calls = {c} BY <1>3, <2>2, LoneCall
    <3>3. calls' = {x} BY <2>1, <3>2
    <3>4. OneFlight({c}, shown, stored, switcher.pc) BY <2>2, <3>2
    <3>5. Alike(v, stored) \/ (c.then = "flow" /\ x.ok)
      BY <1>3, <1>4, <2>1, <3>1 DEF SoleCall, SoleBrings, Alike
    <3>6. Alike(x.value, v) BY <2>1 DEF Alike
    <3>7. OneFlight({x}, shown, v, switcher.pc) BY <1>3, <2>1, <3>4, <3>5, <3>6, AnswerFlies
    <3> QED BY <3>3, <3>7
  <2> QED BY <1>1, <1>3, <1>4, <2>2, ServedReturns
<1>5. CASE stored' = Commanded(c) /\ Answer(c, stored', TRUE) /\ UNCHANGED <<failed, budget>>
  <2>1. PICK v : v = stored' OBVIOUS
  <2>2. PICK ok \in BOOLEAN : ok = TRUE OBVIOUS
  <2>3. c.kind = "geo" => Alike(v, c.value)
    BY <1>2, <1>5, <2>1 DEF Commanded, Alike, SettingsOK, SettingsFields
  <2>4. Answer(c, v, ok) BY <1>5, <2>1, <2>2
  <2> QED BY <1>4, <1>5, <2>1, <2>2, <2>3, <2>4
<1>6. CASE UNCHANGED <<stored, failed, budget>> /\ Answer(c, stored, FALSE)
  <2>1. PICK ok \in BOOLEAN : ok = FALSE OBVIOUS
  <2>2. Answer(c, stored, ok) BY <1>6, <2>1
  <2> QED BY <1>4, <1>6, <2>2
<1>7. CASE failed' = TRUE /\ Spend("fail")
  BY <1>3, <1>7, ServedReturns
<1> QED BY <1>5, <1>6, <1>7 DEF CommandServed

(* Switches. *)
LEMMA SwitchReturns ==
    ASSUME RoutingInv, ShownInv, UndoInv, NEW c \in calls, SwitchServed(c), UNCHANGED editorVars
    PROVE  UndoInv'
<1>1. AllFit(calls) /\ failed \in BOOLEAN BY ShownIs
<1>2. SettingsOK(c.value) /\ CallFits(c) BY <1>1, ShapesAre DEF RoutingInv, CallOK, AllFit
<1>3. ~c.done /\ c.kind = "switch" /\ c.read /\ UNCHANGED shown BY DEF SwitchServed, NextServed
<1>4. OneFlight(calls, shown, stored, switcher.pc) =>
        calls = {c} /\ OneFlight({c}, shown, stored, switcher.pc) /\ Alike(c.value, stored)
  <2> SUFFICES ASSUME OneFlight(calls, shown, stored, switcher.pc)
               PROVE  calls = {c} /\ OneFlight({c}, shown, stored, switcher.pc) /\ Alike(c.value, stored)
    OBVIOUS
  <2>1. calls = {c} BY <1>3, LoneCall
  <2>2. SoleBrings(c, shown, stored) BY DEF OneFlight
  <2> QED BY <1>3, <2>1, <2>2 DEF SoleBrings
<1>5. CASE failed' = TRUE /\ Spend("fail")
  BY <1>3, <1>5, ServedReturns
<1>6. CASE /\ c.id \in SetupIds(c.value) \ {c.value.active} /\ stored' = SwitchSetup(c.value, c.id)
           /\ Told(c, {"settings"}, TRUE) /\ UNCHANGED <<failed, budget>>
  <2>1. PICK v : v = stored' OBVIOUS
  <2>2. v.active = c.id /\ v.active # c.value.active BY <1>2, <1>6, <2>1, SwitchSetupOK
  <2>3. PICK n : n = Stamp(calls) OBVIOUS
  <2>4. n \in Nat /\ n + 1 \in Nat BY <1>1, <2>3, StampAbove DEF AllFit, CallFits
  <2>5. PICK ok \in BOOLEAN : ok = TRUE OBVIOUS
  <2> DEFINE e == EventOf(c, n, v)
             a == ReplyOf(c, n + 1, v, ok)
  <2>6. calls' = (calls \ {c}) \cup ({e} \cup (IF c.then = "tray" THEN {} ELSE {a}))
    <3>0. PICK events \in SUBSET {"settings"} : events = {"settings"} OBVIOUS
    <3>1. Told(c, events, ok) BY <1>6, <2>5, <3>0
    <3>2. calls' = (calls \ {c}) \cup ToldSet(c, events, ok, n, n + 1, v)
      BY <2>1, <2>3, <3>1 DEF Told, ToldSet
    <3>3. calls' = (calls \ {c}) \cup ((IF events = {} THEN {} ELSE {e}) \cup (IF c.then = "tray" THEN {} ELSE {a}))
      BY <3>2, ToldAre
    <3>4. events # {} BY <3>0
    <3> HIDE DEF e, a
    <3> QED BY <3>3, <3>4
  <2>7. e.done /\ e.ok /\ e.then = "event" /\ e.value = v /\ e.kind = "switch" BY <1>2, <1>3, <2>4, EventFits
  <2>8. a.done /\ a.then = c.then /\ a.value = v /\ a.kind = "switch" BY <1>2, <1>3, <2>4, ReplyFits
  <2> HIDE DEF e, a
  <2>9. ASSUME OneFlight(calls, shown, stored, switcher.pc) PROVE OneFlight(calls', shown, v, switcher.pc)
    <3>1. calls = {c} /\ OneFlight({c}, shown, stored, switcher.pc) BY <1>4, <2>9
    <3>2. calls' = IF c.then = "tray" THEN {e} ELSE {e, a} BY <2>6, <3>1
    <3> QED BY <1>3, <2>2, <2>7, <2>8, <3>1, <3>2, SwitchFlies
  <2> QED BY <1>1, <1>3, <1>6, <2>1, <2>9, ServedReturns
<1>7. CASE calls' = calls \ {c} /\ c.then = "tray" /\ UNCHANGED <<stored, failed, budget>>
  <2>1. ASSUME OneFlight(calls, shown, stored, switcher.pc) PROVE OneFlight(calls', shown, stored, switcher.pc)
    <3>1. calls = {c} /\ OneFlight({c}, shown, stored, switcher.pc) BY <1>4, <2>1
    <3>2. Alike(shown, stored) BY <1>7, <3>1, FollowsAlone
    <3>3. calls' = {} BY <1>7, <3>1
    <3> QED BY <3>2, <3>3, NoneFlies
  <2> QED BY <1>1, <1>3, <1>7, <2>1, ServedReturns
<1>8. CASE Answer(c, c.value, c.id = c.value.active) /\ UNCHANGED <<stored, failed, budget>>
  <2>1. PICK ok \in BOOLEAN : ok = (c.id = c.value.active) OBVIOUS
  <2>2. Answer(c, c.value, ok) BY <1>8, <2>1
  <2>3. PICK x : calls' = (calls \ {c}) \cup {x} /\ x.done /\ x.value = c.value /\ x.then = c.then /\ x.kind = c.kind
    BY <1>1, <1>3, <2>2, AnswerStep
  <2>4. ASSUME OneFlight(calls, shown, stored, switcher.pc) PROVE OneFlight(calls', shown, stored, switcher.pc)
    <3>1. calls = {c} /\ OneFlight({c}, shown, stored, switcher.pc) /\ Alike(c.value, stored) BY <1>4, <2>4
    <3>2. calls' = {x} BY <2>3, <3>1
    <3>3. Alike(stored, stored) BY DEF Alike
    <3>4. OneFlight({x}, shown, stored, switcher.pc) BY <1>3, <2>3, <3>1, <3>3, AnswerFlies
    <3> QED BY <3>2, <3>4
  <2> QED BY <1>1, <1>3, <1>8, <2>4, ServedReturns
<1> QED BY <1>5, <1>6, <1>7, <1>8 DEF SwitchServed

(* An answer replaces the copy. *)
LEMMA ReplaceReturns ==
    ASSUME RoutingInv, ShownInv, UndoInv, NEW c \in calls, c.done, c.then \in {"patch", "event", "switcher"},
           calls' = calls \ {c}, shown' = c.value, HistoryFollows(shown'), UNCHANGED <<stored, failed, budget>>,
           switcher'.pc = switcher.pc \/ switcher'.pc = "idle"
    PROVE  UndoInv'
<1>1. failed \in BOOLEAN /\ trimmed \in BOOLEAN BY ShownIs DEF UndoInv
<1>2. trimmed' \in BOOLEAN BY <1>1, TrimmedIs
<1>3. ASSUME OneFlight(calls, shown, stored, switcher.pc), ~trimmed => LeadsBack
      PROVE  OneFlight(calls', shown', stored', switcher'.pc) /\ (~trimmed' => LeadsBack')
  <2>1. PICK pc : pc = switcher'.pc OBVIOUS
  <2>2. /\ OneFlight(calls \ {c}, c.value, stored, pc)
        /\ c.value.active = shown.active => c.value.graph = shown.graph
    BY <1>3, <2>1, ReplaceFlies
  <2>3. ~trimmed' => LeadsBack' BY <1>1, <1>3, <2>2, LeadsFollowed
  <2> QED BY <2>1, <2>2, <2>3
<1> QED BY <1>1, <1>2, <1>3, UndoNext

(* Saves answered and switches told. *)
LEMMA HeardReturns ==
    ASSUME RoutingInv, ShownInv, UndoInv, NEW c \in calls, SettingsReplaced(c)
    PROVE  UndoInv'
<1>1. /\ c.done /\ c.then \in {"patch", "save", "event"} /\ shown' = (IF c.ok THEN c.value ELSE shown)
      /\ calls' = calls \ {c} /\ UNCHANGED <<stored, failed, budget, switcher>> /\ HistoryFollows(shown')
  BY DEF SettingsReplaced, SettingsHeard, NextHeard
<1>2. failed \in BOOLEAN /\ trimmed \in BOOLEAN BY ShownIs DEF UndoInv
<1>3. trimmed' \in BOOLEAN BY <1>1, <1>2, TrimmedIs
<1>4. ASSUME OneFlight(calls, shown, stored, switcher.pc), ~trimmed => LeadsBack
      PROVE  OneFlight(calls', shown', stored', switcher'.pc) /\ (~trimmed' => LeadsBack')
  <2>1. SoleCall(c, switcher.pc) BY <1>4 DEF OneFlight
  <2>2. c.then \in {"patch", "event"} BY <1>1, <2>1 DEF SoleCall
  <2>3. CASE c.ok
    <3>1. shown' = c.value BY <1>1, <2>3
    <3>2. /\ OneFlight(calls \ {c}, c.value, stored, switcher.pc)
          /\ c.value.active = shown.active => c.value.graph = shown.graph
      BY <1>1, <1>4, <2>2, ReplaceFlies
    <3>3. ~trimmed' => LeadsBack' BY <1>1, <1>2, <1>4, <3>1, <3>2, LeadsFollowed
    <3> QED BY <1>1, <3>1, <3>2, <3>3
  <2>4. CASE ~c.ok
    <3>1. c.then = "patch" BY <2>1, <2>2, <2>4 DEF SoleCall
    <3>2. calls = {c} BY <1>4, <3>1, LoneCall
    <3>3. Alike(shown, stored) BY <1>1, <1>4, <3>1, <3>2, FollowsAlone
    <3>4. calls' = {} /\ shown' = shown BY <1>1, <2>4, <3>2
    <3>5. OneFlight(calls', shown', stored', switcher'.pc) BY <1>1, <3>3, <3>4, NoneFlies
    <3>6. UNCHANGED <<past, opened, trimmed>> BY <1>1, <3>4 DEF HistoryFollows, historyVars
    <3>7. ~trimmed' => LeadsBack' BY <1>4, <3>4, <3>6, LeadsStill
    <3> QED BY <3>5, <3>7
  <2> QED BY <2>3, <2>4
<1> QED BY <1>1, <1>2, <1>3, <1>4, UndoNext

(* Imports and geo files. *)
LEMMA MergedReturns ==
    ASSUME RoutingInv, ShownInv, UndoInv, NEW c \in calls, ImportHeard(c) \/ GeoHeard(c)
    PROVE  UndoInv'
<1>1. c.done /\ c.then \in {"flow", "panel", "banner"} /\ UNCHANGED <<stored, failed, budget, switcher>>
  BY DEF ImportHeard, GeoHeard, NextHeard
<1>2. failed \in BOOLEAN /\ trimmed \in BOOLEAN /\ ShapesInv BY ShownIs DEF UndoInv, RoutingInv
<1>3. SettingsOK(shown) BY <1>2, ShapesAre
<1>4. OneFlight(calls, shown, stored, switcher.pc) => calls = {c} BY <1>1, LoneCall
<1>5. CASE c.ok
  <2>1. PICK next : shown' = next /\ calls' = Posted(calls \ {c}, "save", next, None, "patch", NoData)
    <3>1. \E next : shown' = next /\ calls' = Posted(calls \ {c}, "save", next, None, "patch", NoData)
      BY <1>5 DEF ImportHeard, GeoHeard, Continue
    <3> QED BY <3>1
  <2>2. PICK x : /\ calls' = (calls \ {c}) \cup {x} /\ x.kind = "save" /\ x.value = next /\ x.then = "patch"
                 /\ ~x.read /\ ~x.done
    BY <2>1, RequestIs
  <2>3. ASSUME OneFlight(calls, shown, stored, switcher.pc) PROVE OneFlight(calls', shown', stored', switcher'.pc)
    <3>1. calls' = {x} BY <1>4, <2>2, <2>3
    <3>2. Alike(x.value, shown') BY <2>1, <2>2 DEF Alike
    <3>3. \A st, pc : OneFlight({x}, shown', st, pc) BY <2>2, <3>2, PatchFlies
    <3> QED BY <3>1, <3>3
  <2>4. trimmed' \in BOOLEAN /\ ((~trimmed => LeadsBack) => (~trimmed' => LeadsBack'))
    <3>1. CASE ImportHeard(c)
      <4>1. RecordStep BY <1>5, <3>1 DEF ImportHeard
      <4> QED BY <1>2, <4>1, TrimmedIs, LeadsRecorded
    <3>2. CASE GeoHeard(c)
      <4>1. shown' = [shown EXCEPT !.geo = c.value.geo] /\ UNCHANGED <<past, opened, trimmed>>
        BY <1>5, <3>2 DEF GeoHeard, historyVars
      <4>2. shown'.graph = shown.graph BY <1>3, <4>1 DEF SettingsOK, SettingsFields
      <4> QED BY <1>2, <4>1, <4>2, LeadsStill
    <3> QED BY <3>1, <3>2
  <2> QED BY <1>1, <1>2, <2>3, <2>4, UndoNext
<1>6. CASE ~c.ok
  <2>1. calls' = calls \ {c} /\ UNCHANGED <<shown, past, opened, trimmed>>
    BY <1>6 DEF ImportHeard, GeoHeard, historyVars
  <2>2. ASSUME OneFlight(calls, shown, stored, switcher.pc) PROVE OneFlight(calls', shown', stored', switcher'.pc)
    <3>1. calls = {c} /\ OneFlight({c}, shown, stored, switcher.pc) BY <1>4, <2>2
    <3>2. Alike(shown, stored) BY <1>1, <1>6, <3>1, FollowsAlone
    <3>3. calls' = {} BY <2>1, <3>1
    <3> QED BY <1>1, <2>1, <3>2, <3>3, NoneFlies
  <2>3. (~trimmed => LeadsBack) => (~trimmed' => LeadsBack') BY <2>1, LeadsStill
  <2> QED BY <1>1, <1>2, <2>1, <2>2, <2>3, UndoNext
<1> QED BY <1>5, <1>6

(* run() in SetupSwitcher goes on. *)
LEMMA SwitcherReturns ==
    ASSUME RoutingInv, ShownInv, UndoInv, NEW c \in calls, SwitcherHeard(c)
    PROVE  UndoInv'
<1>1. c.done /\ c.then = "switcher" /\ UNCHANGED <<stored, failed, budget>> BY DEF SwitcherHeard, NextHeard
<1>2. failed \in BOOLEAN /\ trimmed \in BOOLEAN /\ SettingsOK(c.value)
  BY ShownIs, ShapesAre DEF UndoInv, RoutingInv, CallOK
<1>3. DOMAIN switcher = {"pc", "target", "delete", "dialog"} BY ShapesAre DEF Idle, RoutingInv
<1>4. ASSUME NEW pc, switcher'.pc = pc, UNCHANGED <<shown, past, opened, trimmed>>,
             OneFlight(calls, shown, stored, switcher.pc) => OneFlight(calls', shown, stored, pc)
      PROVE  UndoInv'
  <2>1. (~trimmed => LeadsBack) => (~trimmed' => LeadsBack') BY <1>4, LeadsStill
  <2> QED BY <1>1, <1>2, <1>4, <2>1, UndoNext
<1>5. CASE /\ switcher' = [Idle EXCEPT !.dialog = switcher.dialog] /\ calls' = calls \ {c}
           /\ UNCHANGED <<shown, historyVars>>
  <2>1. switcher'.pc = "idle" /\ UNCHANGED <<past, opened, trimmed>> BY <1>5 DEF Idle, historyVars
  <2>2. OneFlight(calls, shown, stored, switcher.pc) => OneFlight(calls', shown, stored, "idle")
    BY <1>1, <1>5, MenuFlies
  <2> QED BY <1>4, <1>5, <2>1, <2>2
<1>6. CASE /\ switcher.pc = "saving" /\ switcher' = [switcher EXCEPT !.pc = "switching"]
           /\ Continue(c, "switch", c.value, switcher.target, "switcher")
           /\ UNCHANGED <<shown, historyVars>>
  <2>1. switcher'.pc = "switching" /\ UNCHANGED <<past, opened, trimmed>> BY <1>3, <1>6 DEF historyVars
  <2>2. PICK x : calls' = (calls \ {c}) \cup {x} /\ x.kind = "switch" /\ x.then = "switcher" /\ ~x.read /\ ~x.done
    BY <1>6, RequestIs DEF Continue
  <2>3. ASSUME OneFlight(calls, shown, stored, switcher.pc) PROVE OneFlight(calls', shown, stored, "switching")
    <3>1. calls = {c} BY <1>1, <1>6, <2>3, LoneCall
    <3>2. Alike(shown, stored) BY <1>1, <2>3, <3>1, FollowsAlone
    <3>3. calls' = {x} BY <2>2, <3>1
    <3>4. SoleCall(x, "switching") BY <2>2 DEF SoleCall
    <3>5. OneFlight({x}, shown, stored, "switching") BY <2>2, <3>2, <3>4, AskFlies
    <3> QED BY <3>3, <3>5
  <2> QED BY <1>4, <1>6, <2>1, <2>3
<1>7. CASE /\ switcher' = [switcher EXCEPT !.pc = "final"]
           /\ Continue(c, "save", WithoutSetup(c.value, switcher.delete), None, "switcher")
           /\ UNCHANGED <<shown, historyVars>>
  <2> DEFINE s == WithoutSetup(c.value, switcher.delete)
  <2>1. switcher'.pc = "final" /\ UNCHANGED <<past, opened, trimmed>> BY <1>3, <1>7 DEF historyVars
  <2>2. Alike(s, c.value) BY <1>2 DEF WithoutSetup, Alike, SettingsOK, SettingsFields
  <2> HIDE DEF s
  <2>3. calls' = Posted(calls \ {c}, "save", s, None, "switcher", NoData) BY <1>7 DEF Continue, s
  <2>4. PICK x : /\ calls' = (calls \ {c}) \cup {x} /\ x.kind = "save" /\ x.value = s /\ x.then = "switcher"
                 /\ ~x.read /\ ~x.done
    BY <2>3, RequestIs
  <2>5. OneFlight(calls, shown, stored, switcher.pc) => OneFlight(calls', shown, stored, "final")
    BY <1>1, <2>2, <2>4, MenuFlies
  <2> QED BY <1>4, <1>7, <2>1, <2>5
<1>8. CASE switcher' = Idle /\ calls' = calls \ {c} /\ shown' = c.value /\ HistoryFollows(c.value)
  <2>1. switcher'.pc = "idle" /\ HistoryFollows(shown') BY <1>8 DEF Idle
  <2> QED BY <1>1, <1>8, <2>1, ReplaceReturns
<1> QED BY <1>5, <1>6, <1>7, <1>8 DEF SwitcherHeard

RoutingUndoInv == RoutingShownInv /\ UndoInv

(* Every step keeps the way back. *)
LEMMA UndoKeeps == RoutingUndoInv /\ [RoutingNext]_routingVars => RoutingUndoInv'
<1> SUFFICES ASSUME RoutingInv, ShownInv, UndoInv, [RoutingNext]_routingVars PROVE UndoInv'
  BY RoutingKeeps DEF RoutingUndoInv, RoutingShownInv
<1>1. CASE Edit \/ Undo \/ Redo \/ ToastUndo BY <1>1, EditReturns
<1>2. CASE \/ \E a \in HideableActions : HideAction(a) \/ ShowAction(a)
           \/ ToastGone \/ GeoSkip \/ OpenDelete \/ CloseDelete \/ UNCHANGED routingVars
  BY <1>2, LocalReturns
<1>3. CASE \/ ImportRouting
           \/ \E who \in {"panel", "banner"} : GeoRun(who)
           \/ \E id \in SetupIds(stored) : TraySwitch(id) /\ UNCHANGED editorVars
  BY <1>3, AsksReturn
<1>4. CASE \/ \E id \in SetupIds(shown) : SwitchTo(id)
           \/ DeleteSetup
           \/ \E id \in NewSetups : CreateSetup(id)
           \/ RenameSetup \/ SaveSchedule
  BY <1>4, MenuReturns
<1>5. ASSUME NEW c \in calls, ImportHeard(c) \/ GeoHeard(c) \/ SwitcherHeard(c) \/ SettingsReplaced(c)
      PROVE  UndoInv'
  BY <1>5, MergedReturns, SwitcherReturns, HeardReturns
<1>6. CASE ServeSettings /\ UNCHANGED editorVars
  BY <1>6, SaveReturns, ReadReturns, SwitchReturns, CommandReturns DEF ServeSettings
<1> QED BY <1>1, <1>2, <1>3, <1>4, <1>5, <1>6 DEF RoutingNext

(***************************************************************************)
(* Undoing everything gives back the graph the setup was opened with, for  *)
(* any edits, imports, undos, redos, switches of the setup and commands    *)
(* between, as long as each call is answered before the next is made, no   *)
(* save was refused and the history was not cut (undo, redo and onChange   *)
(* in RoutingView.tsx).                                                    *)
(***************************************************************************)
THEOREM UndoHolds == RoutingSpec => []UndoReturns
<1>1. RoutingInit => RoutingUndoInv
  <2> SUFFICES ASSUME RoutingInit PROVE RoutingUndoInv OBVIOUS
  <2>1. RoutingShownInv
    BY ShownStart, RoutingStart DEF RoutingInit, SwitcherTarget, SyncInit, RoutingShownInv
  <2>2. /\ "flight" \in DOMAIN budget /\ calls = {} /\ shown = stored /\ past = <<>>
        /\ shown.graph = opened /\ trimmed = FALSE
    BY FlightIsGiven DEF RoutingInit, SyncInit
  <2>3. OneFlight(calls, shown, stored, switcher.pc) BY <2>2, NoneFlies DEF Alike
  <2>4. UndoInv BY <2>2, <2>3 DEF UndoInv, LeadsBack
  <2> QED BY <2>1, <2>4 DEF RoutingUndoInv
<1>2. RoutingUndoInv => UndoReturns BY DEF RoutingUndoInv, UndoInv, UndoReturns, LeadsBack
<1> QED BY <1>1, <1>2, UndoKeeps, PTL DEF RoutingSpec

-----------------------------------------------------------------------------
(* Lists of profiles. *)

(* Places, entries, ids and domains of a list of profiles. *)
LEMMA ProfileFacts ==
    ASSUME NEW list, ProfilesOK(list)
    PROVE  /\ Len(list) \in Nat /\ DOMAIN list = 1 .. Len(list)
           /\ \A i \in DOMAIN list : list[i] \in Range(list) /\ ProfileOK(list[i])
           /\ Ids(list) = {q.id : q \in Range(list)} /\ DomainsOf(list) = {q.domain : q \in Range(list)}
           /\ list # <<>> => 1 \in DOMAIN list
<1>1. IsList(list) /\ \A q \in Range(list) : ProfileOK(q) BY DEF ProfilesOK
<1>2. /\ Len(list) \in Nat /\ DOMAIN list = 1 .. Len(list)
      /\ \A i \in DOMAIN list : list[i] \in Range(list)
  BY <1>1, ListFacts
<1>3. Ids(list) = {q.id : q \in Range(list)} /\ DomainsOf(list) = {q.domain : q \in Range(list)}
  BY DEF Ids, DomainsOf, Range
<1>4. list # <<>> => Len(list) # 0 BY <1>1, EmptySeq DEF IsList
<1> QED BY <1>1, <1>2, <1>3, <1>4

(* What a filter leaves. *)
LEMMA KeptProfiles ==
    ASSUME NEW list, ProfilesOK(list), NEW places
    PROVE  /\ ProfilesOK(KeepAt(list, places))
           /\ Range(KeepAt(list, places)) = {list[i] : i \in places \cap DOMAIN list}
<1>1. IsList(list) BY DEF ProfilesOK
<1>2. /\ IsList(KeepAt(list, places))
      /\ Range(KeepAt(list, places)) = {list[i] : i \in places \cap (1 .. Len(list))}
  BY <1>1, KeepAtList
<1> QED BY <1>2, ProfileFacts DEF ProfilesOK

(* A domain's servers; a domain of the list has a first one. *)
LEMMA InDomainIs ==
    ASSUME NEW list, ProfilesOK(list), NEW d
    PROVE  /\ Ids(InDomain(list, d)) = {q.id : q \in {r \in Range(list) : r.domain = d}}
           /\ d \in DomainsOf(list) => InDomain(list, d)[1].id \in Ids(InDomain(list, d))
<1> DEFINE places == {i \in DOMAIN list : list[i].domain = d}
           t == InDomain(list, d)
<1>1. ProfilesOK(t) /\ Range(t) = {list[i] : i \in places \cap DOMAIN list}
  BY KeptProfiles DEF InDomain
<1>2. Range(t) = {r \in Range(list) : r.domain = d} BY <1>1 DEF Range
<1>3. Ids(t) = {q.id : q \in {r \in Range(list) : r.domain = d}} BY <1>1, <1>2, ProfileFacts
<1>4. ASSUME d \in DomainsOf(list) PROVE t[1].id \in Ids(t)
  <2>1. Range(t) # {} BY <1>2, <1>4, ProfileFacts
  <2>2. t # <<>> BY <2>1, EmptyIsList
  <2> HIDE DEF t
  <2>3. 1 \in DOMAIN t BY <1>1, <2>2, ProfileFacts
  <2> QED BY <2>3 DEF Ids
<1> QED BY <1>3, <1>4

(* sortedDomains(list)[0]. *)
LEMMA FirstDomainIs ==
    ASSUME NEW list, ProfilesOK(list), list # <<>>
    PROVE  FirstDomain(list) \in DomainsOf(list)
<1> DEFINE I == {i \in DOMAIN DomainOrder : DomainOrder[i] \in DomainsOf(list)}
<1>1. I \subseteq Nat BY ProfilesGiven, ListFacts
<1>2. list[1].domain \in DomainsOf(list) /\ list[1].domain \in Range(DomainOrder)
  BY ProfileFacts DEF ProfileOK
<1>3. I # {} BY <1>2 DEF Range
<1> HIDE DEF I
<1>4. Min(I) \in I BY <1>1, <1>3, MinIsIn
<1> QED BY <1>4 DEF I, FirstDomain

(* reconcileSelection selects from the list. *)
LEMMA ReconcileSelects ==
    ASSUME NEW list, ProfilesOK(list), NEW current, DOMAIN current = DOMAIN EMPTY_SELECTION
    PROVE  /\ Selects(list, Reconcile(list, current))
           /\ DOMAIN Reconcile(list, current) = DOMAIN EMPTY_SELECTION
<1>1. CASE list = <<>>
  <2>1. Reconcile(list, current) = EMPTY_SELECTION BY <1>1 DEF Reconcile
  <2> QED BY <1>1, <2>1 DEF Selects
<1>2. CASE list # <<>>
  <2> DEFINE d == IF current.domain \in DomainsOf(list) THEN current.domain ELSE FirstDomain(list)
             there == current.profileId \in Ids(InDomain(list, d))
             r == Reconcile(list, current)
  <2>1. d \in DomainsOf(list) BY <1>2, FirstDomainIs
  <2>2. r = IF d = Local
            THEN Manual(d, IF there THEN current.profileId ELSE InDomain(list, d)[1].id)
            ELSE IF there THEN [current EXCEPT !.domain = d] ELSE AutoIn(d)
    BY <1>2 DEF Reconcile
  <2> HIDE DEF d
  <2>3. InDomain(list, d)[1].id \in Ids(InDomain(list, d)) BY <2>1, InDomainIs
  <2>4. None \notin Ids(InDomain(list, d))
    BY InDomainIs DEF ProfilesOK, ProfileOK
  <2> HIDE DEF r
  <2>5. CASE d = Local
    <3>1. r = Manual(d, IF there THEN current.profileId ELSE InDomain(list, d)[1].id) BY <2>2, <2>5
    <3>2. /\ DOMAIN r = {"domain", "mode", "profileId"} /\ r.domain = d
          /\ r.profileId = IF there THEN current.profileId ELSE InDomain(list, d)[1].id
      BY <3>1 DEF Manual
    <3> QED BY <2>1, <2>3, <2>4, <3>2 DEF Selects, EMPTY_SELECTION, r
  <2>6. CASE d # Local /\ there
    <3>1. r = [current EXCEPT !.domain = d] BY <2>2, <2>6
    <3>2. DOMAIN current = {"domain", "mode", "profileId"} BY DEF EMPTY_SELECTION
    <3>3. DOMAIN r = DOMAIN current /\ r.domain = d /\ r.profileId = current.profileId BY <3>1, <3>2
    <3> QED BY <2>1, <2>4, <2>6, <3>2, <3>3 DEF Selects, r
  <2>7. CASE d # Local /\ ~there
    <3>1. r = AutoIn(d) BY <2>2, <2>7
    <3>2. DOMAIN r = {"domain", "mode", "profileId"} /\ r.domain = d /\ r.profileId = None /\ r.mode = "auto"
      BY <3>1 DEF AutoIn
    <3> QED BY <2>1, <3>2 DEF Selects, EMPTY_SELECTION, r
  <2> QED BY <2>5, <2>6, <2>7
<1> QED BY <1>1, <1>2

(* What becomes of profiles one by one. *)
LEMMA MappedProfiles ==
    ASSUME NEW list, ProfilesOK(list), NEW t, DOMAIN t = DOMAIN list, t = [i \in DOMAIN t |-> t[i]],
           \A i \in DOMAIN list : ProfileOK(t[i])
    PROVE  ProfilesOK(t)
<1>1. Len(list) \in Nat /\ DOMAIN list = 1 .. Len(list) BY ProfileFacts
<1>2. IsList(t) BY <1>1, MapIsList
<1> QED BY <1>2 DEF ProfilesOK, Range

(* The ids a refresh keeps. *)
LEMMA KeepIdentitiesOK ==
    ASSUME NEW previous, ProfilesOK(previous), NEW fresh, ProfilesOK(fresh)
    PROVE  ProfilesOK(KeepIdentities(previous, fresh))
<1> DEFINE same(i) == {j \in DOMAIN previous : previous[j].name = fresh[i].name}
           t == KeepIdentities(previous, fresh)
<1>1. /\ DOMAIN t = DOMAIN fresh /\ t = [i \in DOMAIN t |-> t[i]]
      /\ \A i \in DOMAIN fresh : t[i] = fresh[i] \/ (same(i) # {} /\ t[i] = [fresh[i] EXCEPT !.id = previous[Max(same(i))].id])
  BY DEF KeepIdentities
<1>2. Len(previous) \in Nat /\ DOMAIN previous = 1 .. Len(previous) BY ProfileFacts
<1>3. \A i : same(i) \subseteq Nat /\ (\A j \in same(i) : j <= Len(previous)) BY <1>2
<1>4. ASSUME NEW i, same(i) # {} PROVE previous[Max(same(i))].id # None
  <2> DEFINE S == same(i)
  <2>1. S \subseteq Nat /\ S # {} /\ (\A j \in S : j <= Len(previous)) /\ S \subseteq DOMAIN previous BY <1>3, <1>4
  <2> HIDE DEF S
  <2>2. Max(S) \in S BY <1>2, <2>1, MaxIsIn
  <2> QED BY <2>1, <2>2, ProfileFacts DEF S, ProfileOK
<1> HIDE DEF same, t
<1>5. ASSUME NEW i \in DOMAIN fresh PROVE ProfileOK(t[i])
  <2>1. ProfileOK(fresh[i]) BY ProfileFacts
  <2>2. CASE t[i] = fresh[i] BY <2>1, <2>2
  <2>3. CASE same(i) # {} /\ t[i] = [fresh[i] EXCEPT !.id = previous[Max(same(i))].id]
    <3>1. PICK id : id = previous[Max(same(i))].id OBVIOUS
    <3>2. id # None /\ t[i] = [fresh[i] EXCEPT !.id = id] BY <1>4, <2>3, <3>1
    <3> QED BY <2>1, <3>2 DEF ProfileOK
  <2> QED BY <1>1, <2>2, <2>3
<1>6. ProfilesOK(t) BY <1>1, <1>5, MappedProfiles
<1> QED BY <1>6 DEF t

(* A refresh of a domain. *)
LEMMA WithDomainOK ==
    ASSUME NEW list, ProfilesOK(list), NEW d, NEW sent, ProfilesOK(sent)
    PROVE  ProfilesOK(WithDomain(list, d, sent))
<1> DEFINE t == KeepAt(list, {i \in DOMAIN list : list[i].domain # d})
           k == KeepIdentities(InDomain(list, d), sent)
<1>1. ProfilesOK(t) BY KeptProfiles
<1>2. ProfilesOK(k) BY KeptProfiles, KeepIdentitiesOK DEF InDomain
<1>3. WithDomain(list, d, sent) = t \o k BY DEF WithDomain
<1> HIDE DEF t, k
<1>4. IsList(t \o k) /\ Range(t \o k) = Range(t) \cup Range(k) BY <1>1, <1>2, ConcatList DEF ProfilesOK
<1> QED BY <1>1, <1>2, <1>3, <1>4 DEF ProfilesOK

(* f is the recursion of WithDomains, up to k. *)
WithUpTo(f, list, domains, sent, k) ==
    f = [n \in 0 .. k |-> IF n = 0 THEN list ELSE WithDomain(f[n - 1], domains[n], sent[domains[n]])]

(* It defines a function, up to any length. *)
LEMMA WithExists ==
    ASSUME NEW list, NEW domains, NEW sent, NEW k \in Nat
    PROVE  \E f : WithUpTo(f, list, domains, sent, k)
<1> DEFINE T == {m \in Nat : \E f : WithUpTo(f, list, domains, sent, m)}
<1>1. 0 \in T
  <2> DEFINE f == [n \in 0 .. 0 |-> list]
  <2>1. WithUpTo(f, list, domains, sent, 0) BY DEF WithUpTo
  <2> QED BY <2>1
<1>2. ASSUME NEW m \in Nat, m \in T PROVE m + 1 \in T
  <2>1. PICK f : WithUpTo(f, list, domains, sent, m) BY <1>2
  <2> DEFINE next == WithDomain(f[m], domains[m + 1], sent[domains[m + 1]])
             g == [n \in 0 .. m + 1 |-> IF n = m + 1 THEN next ELSE f[n]]
  <2>2. \A n \in 0 .. m : f[n] = IF n = 0 THEN list ELSE WithDomain(f[n - 1], domains[n], sent[domains[n]])
    BY <2>1 DEF WithUpTo
  <2> HIDE DEF next
  <2>3. (\A n \in 0 .. m : g[n] = f[n]) /\ g[m + 1] = next OBVIOUS
  <2>4. g = [n \in 0 .. m + 1 |-> g[n]] OBVIOUS
  <2> HIDE DEF g
  <2>5. ASSUME NEW n \in 0 .. m + 1
        PROVE  g[n] = IF n = 0 THEN list ELSE WithDomain(g[n - 1], domains[n], sent[domains[n]])
    <3>1. CASE n = m + 1
      <4>1. n # 0 /\ g[n - 1] = f[m] BY <3>1, <2>3
      <4> QED BY <3>1, <4>1, <2>3 DEF next
    <3>2. CASE n = 0 BY <3>2, <2>2, <2>3
    <3>3. CASE n \in 1 .. m
      <4>1. g[n] = f[n] /\ g[n - 1] = f[n - 1] /\ n # 0 /\ n \in 0 .. m BY <3>3, <2>3
      <4> QED BY <4>1, <2>2
    <3> QED BY <3>1, <3>2, <3>3
  <2> DEFINE h == [n \in 0 .. m + 1 |-> IF n = 0 THEN list ELSE WithDomain(g[n - 1], domains[n], sent[domains[n]])]
  <2>6. [n \in 0 .. m + 1 |-> g[n]] = h BY <2>5
  <2>7. WithUpTo(g, list, domains, sent, m + 1) BY <2>4, <2>6 DEF WithUpTo
  <2> QED BY <2>7
<1> HIDE DEF T
<1>3. k \in T BY <1>1, <1>2, Induction
<1> QED BY <1>3 DEF T

(* A refresh of one subscription after another leaves a list of profiles. *)
LEMMA WithDomainsOK ==
    ASSUME NEW list, ProfilesOK(list), NEW domains, IsList(domains), NEW sent,
           \A d \in Range(domains) : ProfilesOK(sent[d])
    PROVE  ProfilesOK(WithDomains(list, domains, sent))
<1> DEFINE f == CHOOSE f : WithUpTo(f, list, domains, sent, Len(domains))
<1>0. Len(domains) \in Nat /\ \A i \in 1 .. Len(domains) : domains[i] \in Range(domains) BY ListFacts
<1>1. WithUpTo(f, list, domains, sent, Len(domains)) BY <1>0, WithExists
<1>2. WithDomains(list, domains, sent) = f[Len(domains)] BY DEF WithDomains, WithUpTo
<1>3. PICK g : WithUpTo(g, list, domains, sent, Len(domains)) /\ WithDomains(list, domains, sent) = g[Len(domains)]
  BY <1>1, <1>2
<1>4. \A n \in 0 .. Len(domains) :
        g[n] = IF n = 0 THEN list ELSE WithDomain(g[n - 1], domains[n], sent[domains[n]])
  BY <1>3 DEF WithUpTo
<1> DEFINE T == {n \in Nat : n <= Len(domains) => ProfilesOK(g[n])}
<1>5. 0 \in T
  <2>1. g[0] = list BY <1>0, <1>4
  <2> QED BY <2>1
<1>6. ASSUME NEW n \in Nat, n \in T PROVE n + 1 \in T
  <2> SUFFICES ASSUME n + 1 <= Len(domains) PROVE ProfilesOK(g[n + 1]) OBVIOUS
  <2>1. ProfilesOK(g[n]) BY <1>0, <1>6
  <2>2. n + 1 \in 1 .. Len(domains) BY <1>0
  <2>3. ProfilesOK(sent[domains[n + 1]]) BY <1>0, <2>2
  <2>4. g[n + 1] = WithDomain(g[n], domains[n + 1], sent[domains[n + 1]]) BY <1>0, <1>4, <2>2
  <2> QED BY <2>1, <2>3, <2>4, WithDomainOK
<1> HIDE DEF T
<1>7. Len(domains) \in T BY <1>0, <1>5, <1>6, Induction
<1> QED BY <1>0, <1>3, <1>7 DEF T

(* What Go has fetched. *)
LEMMA FetchedOK ==
    ASSUME NEW c, CallCarries(c), c.kind \in Fetches, NEW list \in Fetched(c)
    PROVE  ProfilesOK(list)
<1>0. ProfilesOK(c.data.list) BY DEF CallCarries
<1>1. CASE c.kind = "refreshAll"
  <2> DEFINE F == {f \in [DOMAIN Provided -> UNION {Provided[d] : d \in DOMAIN Provided}] :
                     \A d \in DOMAIN Provided : f[d] \in Provided[d]}
             base == c.data.list
             Some == SUBSET (DomainsOf(base) \ {Local})
  <2>1. list \in {WithDomains(base, InOrder(answering), sent) : answering \in Some, sent \in F} BY <1>1 DEF Fetched
  <2> HIDE DEF base
  <2>2. PICK answering \in Some, sent \in F : list = WithDomains(base, InOrder(answering), sent) BY <2>1
  <2>3. \A d \in DOMAIN Provided : sent[d] \in Provided[d] OBVIOUS
  <2> HIDE DEF F
  <2>4. /\ IsList(InOrder(answering))
        /\ Range(InOrder(answering)) \subseteq Range(DomainOrder) \ {Local}
    <3> DEFINE places == {i \in DOMAIN DomainOrder : DomainOrder[i] \in answering}
    <3>1. IsList(DomainOrder) BY ProfilesGiven
    <3>2. /\ IsList(KeepAt(DomainOrder, places))
          /\ Range(KeepAt(DomainOrder, places)) = {DomainOrder[i] : i \in places \cap (1 .. Len(DomainOrder))}
      BY <3>1, KeepAtList
    <3>3. \A i \in 1 .. Len(DomainOrder) : DomainOrder[i] \in Range(DomainOrder) BY <3>1, ListFacts
    <3>4. Local \notin answering OBVIOUS
    <3> QED BY <3>2, <3>3, <3>4 DEF InOrder
  <2>5. \A d \in Range(InOrder(answering)) : ProfilesOK(sent[d])
    BY <2>3, <2>4, ProfilesGiven
  <2> QED BY <1>0, <2>2, <2>4, <2>5, WithDomainsOK DEF base
<1>2. CASE c.kind = "refresh"
  <2>1. c.id \in DOMAIN Provided BY <1>2 DEF CallCarries
  <2>2. PICK sent \in Provided[c.id] : list = WithDomain(c.data.list, c.id, sent) BY <1>2 DEF Fetched
  <2>3. ProfilesOK(sent) BY <2>1, ProfilesGiven
  <2> QED BY <1>0, <2>2, <2>3, WithDomainOK
<1>3. CASE c.kind = "import"
  <2>1. c.id \in DOMAIN Provided BY <1>3 DEF CallCarries
  <2>2. PICK sent \in Provided[c.id] : list = c.data.list \o Imported(sent) BY <1>3 DEF Fetched
  <2>3. ProfilesOK(sent) /\ \A i \in DOMAIN sent : Minted[sent[i].id] # None BY <2>1, ProfilesGiven
  <2> DEFINE t == Imported(sent)
  <2>4. /\ DOMAIN t = DOMAIN sent /\ t = [i \in DOMAIN t |-> t[i]]
        /\ \A i \in DOMAIN sent : t[i] = [sent[i] EXCEPT !.id = Minted[sent[i].id]]
    BY DEF Imported
  <2> HIDE DEF t
  <2>5. \A i \in DOMAIN sent : ProfileOK(t[i])
    <3> SUFFICES ASSUME NEW i \in DOMAIN sent PROVE ProfileOK(t[i]) OBVIOUS
    <3>1. PICK id : id = Minted[sent[i].id] OBVIOUS
    <3>2. ProfileOK(sent[i]) BY <2>3, ProfileFacts
    <3>3. id # None /\ t[i] = [sent[i] EXCEPT !.id = id] BY <2>3, <2>4, <3>1
    <3> QED BY <3>2, <3>3 DEF ProfileOK
  <2>6. ProfilesOK(t) BY <2>3, <2>4, <2>5, MappedProfiles
  <2> DEFINE base == c.data.list
  <2>7. ProfilesOK(base) /\ list = base \o t BY <1>0, <2>2 DEF t
  <2> HIDE DEF base
  <2>8. IsList(base \o t) /\ Range(base \o t) = Range(base) \cup Range(t) BY <2>6, <2>7, ConcatList DEF ProfilesOK
  <2> QED BY <2>6, <2>7, <2>8 DEF ProfilesOK
<1> QED BY <1>1, <1>2, <1>3 DEF Fetches

-----------------------------------------------------------------------------
(* The calls about the list. *)
CallsOK(cs) == \A c \in cs : ListCallFits(c) /\ CallCarries(c)

(* What a request may be. *)
MayAsk(kind, id, then, data) ==
    /\ kind \in ListKinds \/ then \in ListThens => <<kind, then>> \in ListCalls
    /\ DOMAIN data = DOMAIN NoData /\ ProfilesOK(data.list)
    /\ kind = "add" => ProfileOK(data.name) /\ data.name.domain = Local
    /\ kind \in {"import", "refresh"} => id \in DOMAIN Provided
    /\ IsList(data.rest) /\ Range(data.rest) \subseteq DOMAIN Provided

(* Such a request keeps the calls as they should be. *)
LEMMA AskedOK ==
    ASSUME NEW cs, CallsOK(cs), NEW kind, NEW value, NEW id, NEW then, NEW data, MayAsk(kind, id, then, data)
    PROVE  CallsOK(Posted(cs, kind, value, id, then, data))
<1>1. PICK x : /\ Posted(cs, kind, value, id, then, data) = cs \cup {x}
               /\ DOMAIN x = CallFields /\ x.n = Stamp(cs) /\ x.kind = kind /\ x.value = value
               /\ x.id = id /\ x.then = then /\ x.data = data
               /\ ~x.read /\ ~x.done /\ x.ok /\ x.read \in BOOLEAN /\ x.done \in BOOLEAN /\ x.ok \in BOOLEAN
  BY ONLY RequestIs
<1>2. ListCallFits(x) /\ CallCarries(x) BY <1>1 DEF MayAsk, ListCallFits, CallCarries
<1> QED BY <1>1, <1>2 DEF CallsOK

(* A request that carries nothing of the list. *)
LEMMA NothingAsked ==
    ASSUME NEW kind, NEW then, NEW id, kind # "add", kind \in {"import", "refresh"} => id \in DOMAIN Provided,
           (kind \notin ListKinds /\ then \notin ListThens) \/ <<kind, then>> \in ListCalls
    PROVE  MayAsk(kind, id, then, NoData)
<1>1. DOMAIN NoData = {"list", "ids", "rest", "name"} /\ NoData.list = <<>> /\ NoData.rest = <<>> BY DEF NoData
<1>2. ProfilesOK(<<>>) BY EmptyIsList DEF ProfilesOK
<1> QED BY <1>1, <1>2, EmptyIsList DEF MayAsk

(* The settings' calls stay what they were while Go works on them, and an await
   that had one still has one. *)
Reworked(c, d) ==
    DOMAIN d = CallFields /\ d.kind = c.kind /\ d.id = c.id /\ d.data = c.data /\ d.then \in {c.then, "event"}
OnlyReworks(c) ==
    /\ ~c.done /\ c.kind \notin ListKinds
    /\ calls \ {c} \subseteq calls'
    /\ \A d \in calls' : d \in calls \ {c} \/ Reworked(c, d)
    /\ c.then # "tray" => \E d \in calls' : d.then = c.then

(* An answer to one of the settings' calls is such a step. *)
LEMMA AnswerReworks ==
    ASSUME AllFit(calls), NEW c \in calls, NextServed(c), c.kind \notin ListKinds,
           NEW v, NEW ok \in BOOLEAN, c.kind = "settings" => ok, Answer(c, v, ok)
    PROVE  OnlyReworks(c)
<1>1. ~c.done BY DEF NextServed
<1>2. PICK x : /\ calls' = (calls \ {c}) \cup {x} /\ CallFits(x) /\ x.done /\ (x.ok <=> ok)
               /\ x.value = v /\ x.then = c.then /\ x.kind = c.kind /\ x.id = c.id /\ x.data = c.data
               /\ \A d \in calls : d.n < x.n
  BY <1>1, AnswerStep
<1> QED BY <1>1, <1>2 DEF OnlyReworks, Reworked, CallFits

(* So is all else Go does with them. *)
LEMMA ServeReworks ==
    ASSUME AllFit(calls), ServeSettings
    PROVE  \E c \in calls : OnlyReworks(c)
<1>1. PICK c \in calls : SaveServed(c) \/ SaveRefused(c) \/ ReadSettings(c) \/ SwitchServed(c) \/ CommandServed(c)
  BY DEF ServeSettings
<1>2. NextServed(c) /\ ~c.done /\ c.kind \in {"save", "switch", "hwid", "geo", "flow", "core", "shortcut"}
  BY <1>1 DEF SaveServed, SaveRefused, ReadSettings, SwitchServed, CommandServed, NextServed
<1>3. c.kind \notin ListKinds /\ c.kind # "settings" BY <1>2 DEF ListKinds, Fetches
<1>4. CASE SaveServed(c) \/ SaveRefused(c) \/ CommandServed(c)
  <2>1. \E v, ok : ok \in BOOLEAN /\ Answer(c, v, ok)
    BY <1>4 DEF SaveServed, SaveRefused, CommandServed
  <2> QED BY <1>2, <1>3, <2>1, AnswerReworks
<1>5. DOMAIN c = CallFields BY DEF AllFit, CallFits
<1>6. CASE ReadSettings(c)
  <2> DEFINE x == [c EXCEPT !.read = TRUE, !.value = stored]
  <2>1. calls' = (calls \ {c}) \cup {x} BY <1>6 DEF ReadSettings
  <2>2. DOMAIN x = CallFields /\ x.kind = c.kind /\ x.id = c.id /\ x.data = c.data /\ x.then = c.then
    BY <1>5 DEF CallFields
  <2> HIDE DEF x
  <2> QED BY <1>2, <1>3, <2>1, <2>2 DEF OnlyReworks, Reworked
<1>7. CASE SwitchServed(c)
  <2>1. CASE \E v, ok : ok \in BOOLEAN /\ Answer(c, v, ok) BY <1>2, <1>3, <2>1, AnswerReworks
  <2>2. CASE calls' = calls \ {c} /\ c.then = "tray" BY <1>2, <1>3, <2>2 DEF OnlyReworks
  <2>3. ASSUME NEW events \in SUBSET {"settings"}, NEW ok, Told(c, events, ok)
        PROVE  OnlyReworks(c)
    <3>0. PICK st : st = stored' OBVIOUS
    <3>a. PICK n : n = Stamp(calls) OBVIOUS
    <3>1. calls' = (calls \ {c}) \cup ToldSet(c, events, ok, n, n + 1, st)
      BY <2>3, <3>0, <3>a DEF Told, ToldSet
    <3> DEFINE e == EventOf(c, n, st)
               a == ReplyOf(c, n + 1, st, ok)
    <3>2. calls' = (calls \ {c}) \cup ((IF events = {} THEN {} ELSE {e}) \cup (IF c.then = "tray" THEN {} ELSE {a}))
      BY <3>1, ToldAre
    <3>3. DOMAIN e = CallFields /\ e.kind = c.kind /\ e.id = c.id /\ e.data = c.data /\ e.then = "event"
      BY <1>5 DEF CallFields, EventOf
    <3>4. DOMAIN a = CallFields /\ a.kind = c.kind /\ a.id = c.id /\ a.data = c.data /\ a.then = c.then
      BY <1>5 DEF CallFields, ReplyOf
    <3> HIDE DEF e, a
    <3> QED BY <1>2, <1>3, <3>2, <3>3, <3>4 DEF OnlyReworks, Reworked
  <2>4. \/ \E events \in SUBSET {"settings"} : \E ok : Told(c, events, ok)
        \/ calls' = calls \ {c} /\ c.then = "tray"
        \/ Answer(c, c.value, c.id = c.value.active)
    <3>1. \/ Told(c, {"settings"}, TRUE) \/ Told(c, {}, FALSE) \/ Told(c, {"settings"}, FALSE)
          \/ calls' = calls \ {c} /\ c.then = "tray"
          \/ Answer(c, c.value, c.id = c.value.active)
      BY <1>7 DEF SwitchServed
    <3> QED BY <3>1, Zenon
  <2> QED BY <2>1, <2>2, <2>3, <2>4
<1> QED BY <1>1, <1>4, <1>6, <1>7

(* The list's calls are untouched by that. *)
LEMMA ReworkedOK ==
    ASSUME CallsOK(calls), NEW c \in calls, OnlyReworks(c)
    PROVE  CallsOK(calls')
<1> SUFFICES ASSUME NEW d \in calls', Reworked(c, d) PROVE ListCallFits(d) /\ CallCarries(d)
  BY DEF CallsOK, OnlyReworks
<1>1. c.kind \notin ListKinds /\ d.kind = c.kind /\ d.data = c.data /\ DOMAIN d = CallFields
  BY DEF OnlyReworks, Reworked
<1>2. c.then \notin ListThens
  <2>1. \A pair \in ListCalls : pair[1] \in ListKinds BY DEF ListCalls, ListKinds, Fetches
  <2>2. c.then \in ListThens => <<c.kind, c.then>> \in ListCalls BY DEF CallsOK, ListCallFits
  <2> QED BY <1>1, <2>1, <2>2
<1>3. d.then \notin ListThens BY <1>2 DEF Reworked, ListThens
<1>4. ListCallFits(d) BY <1>1, <1>3 DEF ListCallFits
<1>5. d.kind \notin {"add", "import", "refresh"} BY <1>1 DEF ListKinds, Fetches
<1>6. CallCarries(d) BY <1>1, <1>5 DEF CallsOK, CallCarries
<1> QED BY <1>4, <1>6

-----------------------------------------------------------------------------
(* The selection. *)

(* SelectionInv, by its parts. *)
LEMMA SelectionIs ==
    SelectionInv <=> /\ ProfilesOK(stock) /\ ProfilesOK(profiles)
                     /\ DOMAIN selection = DOMAIN EMPTY_SELECTION /\ Selects(profiles, selection)
                     /\ CallsOK(calls)
BY DEF SelectionInv, CallsOK

(* The same, of the next state. *)
LEMMA SelectionNext ==
    SelectionInv' <=> /\ ProfilesOK(stock') /\ ProfilesOK(profiles')
                      /\ DOMAIN selection' = DOMAIN EMPTY_SELECTION /\ Selects(profiles', selection')
                      /\ CallsOK(calls')
BY DEF SelectionInv, CallsOK

(* Remembering the selection asks nothing of the list. *)
LEMMA RememberAsks ==
    ASSUME NEW restored, NEW list, NEW sel, NEW base, NEW cs, CallsOK(cs), Remember(restored, list, sel, base, cs)
    PROVE  CallsOK(calls')
<1>1. MayAsk("save", None, "patch", NoData) BY NothingAsked DEF ListKinds, ListThens, Fetches
<1>2. calls' = cs \/ \E value : calls' = Posted(cs, "save", value, None, "patch", NoData)
  BY DEF Remember, PostSave
<1> QED BY <1>1, <1>2, AskedOK

(* A list and a selection from it are shown. *)
LEMMA SelectStep ==
    ASSUME SelectionInv, NEW sel, NEW list, NEW base, NEW cs, CallsOK(cs), Select(sel, list, base, cs),
           ProfilesOK(list), DOMAIN sel = DOMAIN EMPTY_SELECTION, Selects(list, sel), stock' = stock
    PROVE  SelectionInv'
<1>1. selection' = sel /\ profiles' = list /\ \E restored : Remember(restored, list, sel, base, cs) BY DEF Select
<1>2. CallsOK(calls') BY <1>1, RememberAsks
<1> QED BY <1>1, <1>2, SelectionIs, SelectionNext

(* apply: the selection is repaired with the list. *)
LEMMA ApplyStep ==
    ASSUME SelectionInv, NEW list, NEW base, NEW cs, CallsOK(cs), Apply(list, base, cs), ProfilesOK(list), stock' = stock
    PROVE  SelectionInv'
BY SelectionIs, ReconcileSelects, SelectStep DEF Apply

(* Neither the lists nor the selection change. *)
LEMMA CallsStep ==
    ASSUME SelectionInv, CallsOK(calls'), UNCHANGED <<profiles, selection, stock>>
    PROVE  SelectionInv'
BY SelectionIs, SelectionNext

(* The ids of a list of profiles, and those of one domain. *)
LEMMA PinnedSelects ==
    ASSUME NEW list, ProfilesOK(list), NEW q \in Range(list)
    PROVE  /\ Selects(list, Manual(q.domain, q.id))
           /\ DOMAIN Manual(q.domain, q.id) = DOMAIN EMPTY_SELECTION
<1> DEFINE sel == Manual(q.domain, q.id)
<1>1. DOMAIN sel = DOMAIN EMPTY_SELECTION /\ sel.domain = q.domain /\ sel.profileId = q.id
  BY DEF Manual, EMPTY_SELECTION
<1> HIDE DEF sel
<1>2. q.id # None BY DEF ProfilesOK, ProfileOK
<1>3. q.domain \in DomainsOf(list) BY ProfileFacts
<1>4. q.id \in Ids(InDomain(list, q.domain)) BY InDomainIs
<1>5. Selects(list, sel) BY <1>1, <1>2, <1>3, <1>4 DEF Selects
<1> QED BY <1>1, <1>5 DEF sel

(* A domain of the list, without a pinned server. *)
LEMMA AutoSelects ==
    ASSUME NEW list, NEW d, list # <<>> => d \in DomainsOf(list)
    PROVE  Selects(list, AutoIn(d)) /\ DOMAIN AutoIn(d) = DOMAIN EMPTY_SELECTION
<1> DEFINE sel == AutoIn(d)
<1>1. DOMAIN sel = DOMAIN EMPTY_SELECTION /\ sel.domain = d /\ sel.profileId = None /\ sel.mode = "auto"
  BY DEF AutoIn, EMPTY_SELECTION
<1> HIDE DEF sel
<1>2. Selects(list, sel) BY <1>1 DEF Selects
<1> QED BY <1>1, <1>2 DEF sel

(* What the user picks is on the list. *)
LEMMA PicksSelect ==
    ASSUME SelectionInv,
           \/ \E id \in Ids(profiles) : HandleSelectProxy(id)
           \/ HandleSelectAuto
           \/ \E source \in Sources(profiles) : SelectSource(source)
    PROVE  SelectionInv'
<1>1. /\ ProfilesOK(profiles) /\ DOMAIN selection = DOMAIN EMPTY_SELECTION
      /\ Selects(profiles, selection) /\ CallsOK(calls)
  BY SelectionIs
<1>2. stock' = stock BY DEF HandleSelectProxy, HandleSelectAuto, SelectSource
<1>3. ASSUME NEW id \in Ids(profiles), HandleSelectProxy(id) PROVE SelectionInv'
  <2> DEFINE at == SelectInSeq(profiles, LAMBDA q : q.id = id)
             I == {i \in 1 .. Len(profiles) : profiles[i].id = id}
  <2>1. PICK cs \in {calls} \cup {Posted(calls, "save", [shown EXCEPT !.chain = SelectSeq(@, LAMBDA h : h # id)], None, "save", NoData)} :
          Select(Manual(profiles[at].domain, id), profiles, shown, cs)
    BY <1>3 DEF HandleSelectProxy, PostSave
  <2>2. MayAsk("save", None, "save", NoData) BY NothingAsked DEF ListKinds, ListThens, Fetches
  <2>3. CallsOK(cs) BY <1>1, <2>1, <2>2, AskedOK
  <2>4. I # {} /\ I \subseteq Nat BY <1>1, ProfileFacts DEF Ids
  <2>5. at = Min(I) BY <2>4 DEF SelectInSeq
  <2> HIDE DEF at
  <2>6. Min(I) \in I
    <3> HIDE DEF I
    <3> QED BY <2>4, MinIsIn
  <2>7. profiles[at] \in Range(profiles) /\ profiles[at].id = id BY <1>1, <2>5, <2>6, ProfileFacts
  <2>8. Selects(profiles, Manual(profiles[at].domain, id)) /\ DOMAIN Manual(profiles[at].domain, id) = DOMAIN EMPTY_SELECTION
    BY <1>1, <2>7, PinnedSelects
  <2> QED BY <1>1, <1>2, <2>1, <2>3, <2>8, SelectStep
<1>4. CASE HandleSelectAuto
  <2>1. Select(AutoIn(selection.domain), profiles, shown, calls) BY <1>4 DEF HandleSelectAuto
  <2>2. Selects(profiles, AutoIn(selection.domain)) /\ DOMAIN AutoIn(selection.domain) = DOMAIN EMPTY_SELECTION
    BY <1>1, AutoSelects DEF Selects
  <2> QED BY <1>1, <1>2, <2>1, <2>2, SelectStep
<1>5. ASSUME NEW source \in Sources(profiles), SelectSource(source) PROVE SelectionInv'
  <2>1. CASE \E id \in Ids(InDomain(profiles, Local)) : source = <<"profile", id>>
    <3>1. PICK id \in Ids(InDomain(profiles, Local)) : source = <<"profile", id>> BY <2>1
    <3>2. Select(Manual(Local, id), profiles, shown, calls) BY <1>5, <3>1 DEF SelectSource
    <3>3. PICK q \in Range(profiles) : q.domain = Local /\ q.id = id BY <1>1, <3>1, InDomainIs
    <3>4. Selects(profiles, Manual(Local, id)) /\ DOMAIN Manual(Local, id) = DOMAIN EMPTY_SELECTION
      BY <1>1, <3>3, PinnedSelects
    <3> QED BY <1>1, <1>2, <3>2, <3>4, SelectStep
  <2>2. CASE \E d \in DomainsOf(profiles) : source = <<"subscription", d>>
    <3>1. PICK d \in DomainsOf(profiles) : source = <<"subscription", d>> BY <2>2
    <3> DEFINE sel == IF selection.profileId \in Ids(InDomain(profiles, d))
                      THEN [selection EXCEPT !.domain = d] ELSE AutoIn(d)
    <3>2. Select(sel, profiles, shown, calls) BY <1>5, <3>1 DEF SelectSource
    <3>3. Selects(profiles, sel) /\ DOMAIN sel = DOMAIN EMPTY_SELECTION
      <4>1. CASE selection.profileId \in Ids(InDomain(profiles, d))
        <5>1. DOMAIN selection = {"domain", "mode", "profileId"} BY <1>1 DEF EMPTY_SELECTION
        <5>2. DOMAIN sel = DOMAIN selection /\ sel.domain = d /\ sel.profileId = selection.profileId BY <4>1, <5>1
        <5>3. None \notin Ids(InDomain(profiles, d)) BY <1>1, InDomainIs DEF ProfilesOK, ProfileOK
        <5> HIDE DEF sel
        <5> QED BY <1>1, <3>1, <4>1, <5>2, <5>3 DEF Selects
      <4>2. CASE selection.profileId \notin Ids(InDomain(profiles, d)) BY <3>1, <4>2, AutoSelects
      <4> QED BY <4>1, <4>2
    <3> HIDE DEF sel
    <3> QED BY <1>1, <1>2, <3>2, <3>3, SelectStep
  <2> QED BY <2>1, <2>2 DEF Sources
<1> QED BY <1>3, <1>4, <1>5


(* The domains a refresh goes through can be fetched. *)
LEMMA ListedDomains ==
    ASSUME ProfilesOK(profiles), NEW ds \in DomainLists, ds # <<>>
    PROVE  IsList(ds) /\ IsList(Tail(ds)) /\ ds[1] \in DOMAIN Provided /\ Range(Tail(ds)) \subseteq DOMAIN Provided
<1> DEFINE places == {i \in DOMAIN DomainOrder : DomainOrder[i] # Local}
           subs == KeepAt(DomainOrder, places)
<1>1. IsList(DomainOrder) BY ProfilesGiven
<1>2. IsList(subs) /\ Range(subs) = {DomainOrder[i] : i \in places \cap (1 .. Len(DomainOrder))}
  BY <1>1, KeepAtList
<1>3. \A i \in 1 .. Len(DomainOrder) : DomainOrder[i] \in Range(DomainOrder) BY <1>1, ListFacts
<1>4. Range(subs) \subseteq DOMAIN Provided BY <1>2, <1>3, ProfilesGiven
<1>5. ds = subs \/ \E d \in ToSet(subs) : ds = <<d>> BY DEF DomainLists
<1> HIDE DEF subs, places
<1>6. ToSet(subs) = Range(subs) BY DEF ToSet, Range
<1>7. IsList(ds) /\ Range(ds) \subseteq DOMAIN Provided BY <1>2, <1>4, <1>5, <1>6, OneList
<1>8. ds[1] \in Range(ds) BY <1>7, ListFacts, EmptySeq DEF IsList
<1>9. IsList(Tail(ds)) /\ Range(Tail(ds)) \subseteq Range(ds) BY <1>7, TailList
<1> QED BY <1>7, <1>8, <1>9

(* What else the user does is asked of Go. *)
LEMMA SendsSelect ==
    ASSUME SelectionInv,
           \/ UpdateSetting
           \/ \E ids : AddToChain(ids) \/ DeleteProfiles(ids)
           \/ \E q \in NewProfiles : AddProfile(q)
           \/ \E id, name : UpdateProfile(id, name)
           \/ \E d \in DOMAIN Provided : ImportSubscription(d)
           \/ \E ds \in DomainLists : HandleRefreshSources(ds) \/ Tick(ds)
           \/ Start
    PROVE  SelectionInv'
<1>1. CallsOK(calls) /\ ProfilesOK(profiles) BY SelectionIs
<1>2. UNCHANGED <<profiles, selection, stock>>
  BY DEF UpdateSetting, AddToChain, DeleteProfiles, AddProfile, UpdateProfile, ImportSubscription,
         HandleRefreshSources, Tick, Start, listVars
<1>3. SUFFICES \E kind, value, id, then, data : MayAsk(kind, id, then, data) /\ calls' = Posted(calls, kind, value, id, then, data)
  BY <1>1, <1>2, AskedOK, CallsStep
<1>4. DOMAIN NoData = {"list", "ids", "rest", "name"} /\ NoData.list = <<>> /\ NoData.rest = <<>> BY DEF NoData
<1>5. ProfilesOK(<<>>) /\ IsList(<<>>) /\ Range(<<>>) = {} BY EmptyIsList DEF ProfilesOK
<1>6. CASE UpdateSetting
  <2>1. \E value : calls' = Posted(calls, "save", value, None, "patch", NoData)
    BY <1>6 DEF UpdateSetting, PatchSettings, SendSave, PostSave
  <2>2. MayAsk("save", None, "patch", NoData) BY NothingAsked DEF ListKinds, ListThens, Fetches
  <2> QED BY <2>1, <2>2
<1>7. CASE \E ids : AddToChain(ids)
  <2>1. \E value : calls' = Posted(calls, "save", value, None, "save", NoData)
    BY <1>7 DEF AddToChain, SendSave, PostSave
  <2>2. MayAsk("save", None, "save", NoData) BY NothingAsked DEF ListKinds, ListThens, Fetches
  <2> QED BY <2>1, <2>2
<1>8. CASE \E ids : DeleteProfiles(ids)
  <2>1. PICK ids : calls' = Posted(calls, "delete", shown, None, "delete", [NoData EXCEPT !.ids = ids])
    BY <1>8 DEF DeleteProfiles
  <2> DEFINE data == [NoData EXCEPT !.ids = ids]
  <2>2. DOMAIN data = DOMAIN NoData /\ data.list = <<>> /\ data.rest = <<>> BY <1>4
  <2> HIDE DEF data
  <2>3. MayAsk("delete", None, "delete", data) BY <1>5, <2>2 DEF MayAsk, ListCalls
  <2> QED BY <2>1, <2>3 DEF data
<1>9. CASE \E q \in NewProfiles : AddProfile(q)
  <2>1. PICK q \in NewProfiles : calls' = Posted(calls, "add", NoSettings, None, "add", [NoData EXCEPT !.name = q])
    BY <1>9 DEF AddProfile
  <2> DEFINE data == [NoData EXCEPT !.name = q]
  <2>2. DOMAIN data = DOMAIN NoData /\ data.list = <<>> /\ data.rest = <<>> /\ data.name = q BY <1>4
  <2>3. ProfileOK(q) /\ q.domain = Local BY ProfilesGiven
  <2> HIDE DEF data
  <2>4. MayAsk("add", None, "add", data) BY <1>5, <2>2, <2>3 DEF MayAsk, ListCalls
  <2> QED BY <2>1, <2>4 DEF data
<1>10. CASE \E id, name : UpdateProfile(id, name)
  <2>1. PICK id, name : calls' = Posted(calls, "update", NoSettings, id, "list", [NoData EXCEPT !.name = name])
    BY <1>10 DEF UpdateProfile
  <2> DEFINE data == [NoData EXCEPT !.name = name]
  <2>2. DOMAIN data = DOMAIN NoData /\ data.list = <<>> /\ data.rest = <<>> BY <1>4
  <2> HIDE DEF data
  <2>3. MayAsk("update", id, "list", data) BY <1>5, <2>2 DEF MayAsk, ListCalls
  <2> QED BY <2>1, <2>3 DEF data
<1>11. CASE \E d \in DOMAIN Provided : ImportSubscription(d)
  <2>1. PICK d \in DOMAIN Provided : calls' = Posted(calls, "import", NoSettings, d, "import", NoData)
    BY <1>11 DEF ImportSubscription, Send
  <2>2. MayAsk("import", d, "import", NoData) BY NothingAsked DEF ListCalls
  <2> QED BY <2>1, <2>2
<1>12. CASE \E ds \in DomainLists : HandleRefreshSources(ds) \/ Tick(ds)
  <2>1. PICK ds \in DomainLists, then \in {"hand", "tick"} :
          ds # <<>> /\ calls' = Posted(calls, "refresh", NoSettings, ds[1], then, [NoData EXCEPT !.rest = Tail(ds)])
    BY <1>12 DEF HandleRefreshSources, Tick
  <2> DEFINE data == [NoData EXCEPT !.rest = Tail(ds)]
  <2>2. DOMAIN data = DOMAIN NoData /\ data.list = <<>> /\ data.rest = Tail(ds) BY <1>4
  <2>3. IsList(Tail(ds)) /\ ds[1] \in DOMAIN Provided /\ Range(Tail(ds)) \subseteq DOMAIN Provided
    BY <1>1, <2>1, ListedDomains
  <2> HIDE DEF data
  <2>4. MayAsk("refresh", ds[1], then, data) BY <1>5, <2>2, <2>3 DEF MayAsk, ListCalls
  <2> QED BY <2>1, <2>4 DEF data
<1>13. CASE Start
  <2>1. calls' = Posted(calls, "settings", NoSettings, None, "start:settings", NoData) BY <1>13 DEF Start, Send
  <2>2. MayAsk("settings", None, "start:settings", NoData) BY NothingAsked DEF ListKinds, ListThens, Fetches
  <2> QED BY <2>1, <2>2
<1> QED BY <1>6, <1>7, <1>8, <1>9, <1>10, <1>11, <1>12, <1>13

(* Go's side: a call reads the list, or fails. *)
LEMMA ListAnswerCarries ==
    ASSUME AllFit(calls), CallsOK(calls), NEW c \in calls, ~c.done, c.kind # "settings",
           NEW list, ProfilesOK(list), NEW ok \in BOOLEAN, AnswerList(c, list, ok),
           c.kind = "add" /\ ok => list # <<>> /\ Last(list).domain = Local
    PROVE  CallsOK(calls')
<1> DEFINE n == Stamp(calls)
           x == ListAnswered(c, n, list, ok)
<1>1. n \in Nat BY StampAbove DEF AllFit, CallFits
<1>2. calls' = (calls \ {c}) \cup {x} BY DEF AnswerList, ListAnswered
<1>3. CallFits(c) /\ ListCallFits(c) /\ CallCarries(c) BY DEF AllFit, CallsOK
<1> HIDE DEF n
<1>4. x.done /\ (x.ok <=> ok) /\ x.then = c.then /\ x.kind = c.kind /\ x.id = c.id /\ DOMAIN x = CallFields
  BY <1>1, <1>3, ListAnswerIs DEF CallFits
<1>5. DOMAIN c = CallFields /\ DOMAIN c.data = {"list", "ids", "rest", "name"} BY <1>3 DEF CallCarries, NoData
<1>6. DOMAIN x.data = DOMAIN c.data /\ x.data.list = list /\ x.data.rest = c.data.rest /\ x.data.name = c.data.name
  BY <1>5 DEF CallFields, ListAnswered
<1> HIDE DEF x
<1>7. ListCallFits(x) BY <1>3, <1>4 DEF ListCallFits
<1>8. CallCarries(x) BY <1>3, <1>4, <1>6 DEF CallCarries
<1> QED BY <1>2, <1>7, <1>8 DEF CallsOK

(* A call that has read Go's list carries it. *)
LEMMA ReadCarries ==
    ASSUME CallsOK(calls), ProfilesOK(stock), NEW c \in calls, ReadList(c)
    PROVE  CallsOK(calls')
<1> DEFINE x == [c EXCEPT !.read = TRUE, !.data.list = stock]
<1>1. calls' = (calls \ {c}) \cup {x} /\ ~c.done BY DEF ReadList, NextServed
<1>2. ListCallFits(c) /\ CallCarries(c) BY DEF CallsOK
<1>3. DOMAIN c = CallFields /\ DOMAIN c.data = {"list", "ids", "rest", "name"} BY <1>2 DEF CallCarries, NoData
<1>4. /\ DOMAIN x = CallFields /\ x.kind = c.kind /\ x.then = c.then /\ x.id = c.id /\ x.done = c.done /\ x.ok = c.ok
      /\ DOMAIN x.data = DOMAIN c.data /\ x.data.list = stock /\ x.data.rest = c.data.rest /\ x.data.name = c.data.name
  BY <1>3 DEF CallFields
<1> HIDE DEF x
<1>5. ListCallFits(x) /\ CallCarries(x) BY <1>1, <1>2, <1>4 DEF ListCallFits, CallCarries
<1> QED BY <1>1, <1>5 DEF CallsOK

(* What the profile store makes of the list a call has read. *)
LEMMA StoreKeeps ==
    ASSUME ProfilesOK(stock), NEW c, CallCarries(c), ~c.done, StoreServed(c)
    PROVE  ProfilesOK(stock') /\ (c.kind = "add" => stock' # <<>> /\ Last(stock').domain = Local)
<1> DEFINE list == c.data.list
<1>0. ProfilesOK(list) BY DEF CallCarries
<1>1. CASE c.kind = "profiles" BY <1>1 DEF StoreServed
<1>2. CASE c.kind = "add"
  <2>1. PICK q : q = c.data.name OBVIOUS
  <2>2. stock' = Append(list, q) BY <1>2, <2>1 DEF StoreServed
  <2>3. q.domain = Local /\ ProfileOK(q) BY <1>2, <2>1 DEF CallCarries
  <2> HIDE DEF list
  <2>4. IsList(Append(list, q)) /\ Range(Append(list, q)) = Range(list) \cup {q} BY <1>0, AppendList DEF ProfilesOK
  <2>5. Last(Append(list, q)) = q /\ Append(list, q) # <<>> BY <1>0, ProfileFacts DEF Last
  <2> QED BY <1>0, <2>2, <2>3, <2>4, <2>5 DEF ProfilesOK
<1>3. CASE c.kind = "delete"
  <2>1. \E places : stock' = KeepAt(list, places) BY <1>3 DEF StoreServed
  <2> HIDE DEF list
  <2> QED BY <1>0, <1>3, <2>1, KeptProfiles
<1>4. CASE c.kind = "update"
  <2> DEFINE f(i) == IF list[i].id = c.id THEN [list[i] EXCEPT !.name = c.data.name] ELSE list[i]
  <2>1. stock' = [i \in DOMAIN list |-> f(i)] BY <1>4 DEF StoreServed
  <2> HIDE DEF list
  <2>2. \A i \in DOMAIN list : ProfileOK(f(i)) BY <1>0, ProfileFacts DEF ProfileOK
  <2>3. DOMAIN list = 1 .. Len(list) /\ Len(list) \in Nat BY <1>0, ProfileFacts
  <2> HIDE DEF f
  <2>4. IsList(stock') /\ DOMAIN stock' = DOMAIN list /\ \A i \in DOMAIN list : stock'[i] = f(i)
    BY <2>1, <2>3, MapIsList
  <2> QED BY <1>4, <2>2, <2>4 DEF ProfilesOK, Range
<1> QED BY <1>1, <1>2, <1>3, <1>4 DEF StoreServed

(* Go's side keeps the lists lists of profiles. *)
LEMMA ServesSelect ==
    ASSUME ShownInv, SelectionInv, ServeProfiles \/ (ServeSettings /\ UNCHANGED listVars)
    PROVE  SelectionInv'
<1>1. AllFit(calls) /\ CallsOK(calls) /\ ProfilesOK(stock) /\ ProfilesOK(profiles) BY ShownIs, SelectionIs
<1>2. CASE ServeSettings /\ UNCHANGED listVars
  <2>1. CallsOK(calls') BY <1>1, <1>2, ServeReworks, ReworkedOK
  <2> QED BY <1>2, <2>1, CallsStep DEF listVars
<1>3. CASE ServeProfiles
  <2>1. PICK c \in calls : ReadList(c) \/ FetchServed(c) \/ StoreServed(c) \/ SettingsServed(c) \/ CallFails(c)
    BY <1>3 DEF ServeProfiles
  <2>2. CallCarries(c) /\ CallFits(c) BY <1>1 DEF CallsOK, AllFit
  <2>3. CASE ReadList(c) BY <1>1, <2>3, ReadCarries, CallsStep DEF ReadList, listVars
  <2>4. CASE SettingsServed(c)
    <3>1. NextServed(c) /\ c.kind \notin ListKinds /\ Answer(c, stored, TRUE) /\ UNCHANGED listVars
      BY <2>4 DEF SettingsServed, ListKinds, Fetches
    <3>2. CallsOK(calls') BY <1>1, <3>1, AnswerReworks, ReworkedOK
    <3> QED BY <3>1, <3>2, CallsStep DEF listVars
  <2>5. CASE CallFails(c)
    <3>1. /\ ~c.done /\ c.kind # "settings" /\ AnswerList(c, <<>>, FALSE) /\ UNCHANGED listVars
      BY <2>5 DEF CallFails, NextServed, Copies, Fetches, Gone
    <3>2. ProfilesOK(<<>>) BY EmptyIsList DEF ProfilesOK
    <3>3. CallsOK(calls') BY <1>1, <3>1, <3>2, ListAnswerCarries
    <3> QED BY <3>1, <3>3, CallsStep DEF listVars
  <2>6. CASE FetchServed(c)
    <3>1. PICK list : list = stock' OBVIOUS
    <3>2. /\ ~c.done /\ c.kind \in Fetches /\ list \in Fetched(c) /\ AnswerList(c, list, TRUE)
          /\ UNCHANGED <<profiles, selection>>
      BY <2>6, <3>1 DEF FetchServed, NextServed
    <3>3. ProfilesOK(list) BY <2>2, <3>2, FetchedOK
    <3>4. c.kind # "settings" /\ c.kind # "add" BY <3>2 DEF Fetches
    <3>5. CallsOK(calls') BY <1>1, <3>2, <3>3, <3>4, ListAnswerCarries
    <3> QED BY <3>1, <3>2, <3>3, <3>5, SelectionIs, SelectionNext
  <2>7. CASE StoreServed(c)
    <3>1. PICK list : list = stock' OBVIOUS
    <3>2. /\ ~c.done /\ c.kind # "settings" /\ AnswerList(c, list, TRUE) /\ UNCHANGED <<profiles, selection>>
      BY <2>7, <3>1 DEF StoreServed, NextServed
    <3>3. ProfilesOK(list) /\ (c.kind = "add" => list # <<>> /\ Last(list).domain = Local)
      BY <1>1, <2>2, <2>7, <3>1, <3>2, StoreKeeps
    <3>4. CallsOK(calls') BY <1>1, <3>2, <3>3, ListAnswerCarries
    <3> QED BY <3>1, <3>2, <3>3, <3>4, SelectionIs, SelectionNext
  <2> QED BY <2>1, <2>3, <2>4, <2>5, <2>6, <2>7
<1> QED BY <1>2, <1>3

(* Fewer calls are as good. *)
LEMMA FewerOK == ASSUME NEW cs, CallsOK(cs), NEW c PROVE CallsOK(cs \ {c})
BY DEF CallsOK

(* The saved selection, by id or by name, is put right for the list. *)
LEMMA SavedSelects ==
    ASSUME NEW list, ProfilesOK(list), NEW last
    PROVE  /\ Selects(list, SavedSelection(list, last))
           /\ DOMAIN SavedSelection(list, last) = DOMAIN EMPTY_SELECTION
<1>1. PICK id : SavedSelection(list, last) = Reconcile(list, [domain |-> last.domain, mode |-> last.mode, profileId |-> id])
  BY DEF SavedSelection
<1> DEFINE cur == [domain |-> last.domain, mode |-> last.mode, profileId |-> id]
<1>2. DOMAIN cur = DOMAIN EMPTY_SELECTION BY DEF EMPTY_SELECTION
<1> HIDE DEF cur
<1>3. Selects(list, Reconcile(list, cur)) /\ DOMAIN Reconcile(list, cur) = DOMAIN EMPTY_SELECTION
  BY <1>2, ReconcileSelects
<1> QED BY <1>1, <1>3 DEF cur

(* start() up to the list. *)
LEMMA StartSelects ==
    ASSUME SelectionInv, NEW c \in calls,
           \/ StartSettingsHeard(c) \/ StartPushHeard(c) \/ StartPushedHeard(c) \/ StartRefreshHeard(c)
           \/ SettingsHeard(c) /\ UNCHANGED listVars
           \/ RefreshHeard(c)
    PROVE  SelectionInv'
<1>1. CallsOK(calls) /\ CallsOK(calls \ {c}) /\ CallCarries(c) BY SelectionIs, FewerOK DEF CallsOK
<1>2. UNCHANGED <<profiles, selection, stock>>
  BY DEF StartSettingsHeard, StartPushHeard, StartPushedHeard, StartRefreshHeard, RefreshHeard, listVars
<1>3. CASE calls' = calls \ {c} BY <1>1, <1>2, <1>3, CallsStep
<1>4. ASSUME NEW kind, NEW value, NEW id, NEW then, NEW data, MayAsk(kind, id, then, data),
             calls' = Posted(calls \ {c}, kind, value, id, then, data)
      PROVE  SelectionInv'
  BY <1>1, <1>2, <1>4, AskedOK, CallsStep
<1>5. /\ MayAsk("push", None, "start:push", NoData) /\ MayAsk("profiles", None, "start:profiles", NoData)
      /\ MayAsk("save", None, "start:pushed", NoData) /\ MayAsk("profiles", None, "start:load", NoData)
  BY NothingAsked DEF ListKinds, ListThens, Fetches, ListCalls
<1>6. CASE StartSettingsHeard(c)
  <2>1. \/ calls' = Posted(calls \ {c}, "push", NoSettings, None, "start:push", NoData)
        \/ calls' = Posted(calls \ {c}, "profiles", NoSettings, None, "start:profiles", NoData)
    BY <1>6 DEF StartSettingsHeard, Continue
  <2> QED BY <1>4, <1>5, <2>1
<1>7. CASE StartPushHeard(c)
  <2>1. \/ \E value : calls' = Posted(calls \ {c}, "save", value, None, "start:pushed", NoData)
        \/ calls' = Posted(calls \ {c}, "profiles", NoSettings, None, "start:profiles", NoData)
    BY <1>7 DEF StartPushHeard, Continue
  <2> QED BY <1>4, <1>5, <2>1
<1>8. CASE StartPushedHeard(c)
  <2>1. calls' = Posted(calls \ {c}, "profiles", NoSettings, None, "start:profiles", NoData)
    BY <1>8 DEF StartPushedHeard, Continue
  <2> QED BY <1>4, <1>5, <2>1
<1>9. CASE StartRefreshHeard(c)
  <2>1. calls' = Posted(calls \ {c}, "profiles", NoSettings, None, "start:load", NoData) \/ calls' = calls \ {c}
    BY <1>9 DEF StartRefreshHeard, Continue
  <2> QED BY <1>3, <1>4, <1>5, <2>1
<1>10. CASE RefreshHeard(c)
  <2> DEFINE data == [NoData EXCEPT !.rest = c.data.rest]
  <2>1. c.then \in {"hand", "tick"} /\ calls' = Posted(calls \ {c}, "profiles", NoSettings, None, c.then, data)
    BY <1>10 DEF RefreshHeard
  <2>2. DOMAIN data = DOMAIN NoData /\ data.list = <<>> /\ data.rest = c.data.rest BY DEF NoData
  <2>3. ProfilesOK(<<>>) BY EmptyIsList DEF ProfilesOK
  <2> HIDE DEF data
  <2>4. MayAsk("profiles", None, c.then, data) BY <1>1, <2>1, <2>2, <2>3 DEF MayAsk, ListCalls, CallCarries
  <2> QED BY <1>4, <2>1, <2>4
<1>11. CASE SettingsHeard(c) BY <1>3, <1>11 DEF SettingsHeard
<1> QED BY <1>6, <1>7, <1>8, <1>9, <1>10, <1>11

(* The answers that bring a list. *)
LEMMA ListSelects ==
    ASSUME SelectionInv, NEW c \in calls,
           \/ StartProfilesHeard(c) \/ StartLoadHeard(c) \/ AddHeard(c) \/ SubscriptionHeard(c)
           \/ ListHeard(c) \/ DeleteHeard(c) \/ RefreshedHeard(c)
    PROVE  SelectionInv'
<1>1. /\ CallsOK(calls) /\ CallsOK(calls \ {c}) /\ ListCallFits(c) /\ CallCarries(c)
      /\ DOMAIN selection = DOMAIN EMPTY_SELECTION /\ ProfilesOK(c.data.list)
  BY SelectionIs, FewerOK DEF CallsOK, CallCarries
<1>2. c.done /\ stock' = stock
  BY DEF StartProfilesHeard, StartLoadHeard, AddHeard, SubscriptionHeard, ListHeard, DeleteHeard, RefreshedHeard, NextHeard
<1> DEFINE list == c.data.list
           cs == calls \ {c}
<1>3. CASE StartLoadHeard(c) \/ ListHeard(c)
  <2>1. Apply(list, shown, cs) \/ (calls' = cs /\ UNCHANGED <<profiles, selection>>)
    BY <1>3 DEF StartLoadHeard, ListHeard
  <2> HIDE DEF list, cs
  <2> QED BY <1>1, <1>2, <2>1, ApplyStep, CallsStep DEF list, cs
<1>4. CASE AddHeard(c)
  <2>1. \/ c.ok /\ Select(Manual(Local, Last(list).id), list, shown, cs)
        \/ calls' = cs /\ UNCHANGED <<profiles, selection>>
    BY <1>4 DEF AddHeard
  <2>2. c.kind = "add" BY <1>1, <1>4 DEF AddHeard, ListCallFits, ListThens, ListCalls
  <2>3. ASSUME c.ok
        PROVE  Selects(list, Manual(Local, Last(list).id)) /\ DOMAIN Manual(Local, Last(list).id) = DOMAIN EMPTY_SELECTION
    <3>1. list # <<>> /\ Last(list).domain = Local BY <1>1, <1>2, <2>2, <2>3 DEF CallCarries
    <3>2. Last(list) \in Range(list) BY <1>1, <3>1, ProfileFacts DEF Last
    <3> QED BY <1>1, <3>1, <3>2, PinnedSelects
  <2> HIDE DEF list, cs
  <2> QED BY <1>1, <1>2, <2>1, <2>3, SelectStep, CallsStep DEF list, cs
<1>5. CASE SubscriptionHeard(c)
  <2>1. \/ Select(Reconcile(list, AutoIn(c.id)), list, shown, cs)
        \/ calls' = cs /\ UNCHANGED <<profiles, selection>>
    BY <1>5 DEF SubscriptionHeard
  <2>2. DOMAIN AutoIn(c.id) = DOMAIN EMPTY_SELECTION BY DEF AutoIn, EMPTY_SELECTION
  <2>3. Selects(list, Reconcile(list, AutoIn(c.id))) /\ DOMAIN Reconcile(list, AutoIn(c.id)) = DOMAIN EMPTY_SELECTION
    BY <1>1, <2>2, ReconcileSelects
  <2> HIDE DEF list, cs
  <2> QED BY <1>1, <1>2, <2>1, <2>3, SelectStep, CallsStep DEF list, cs
<1>6. CASE DeleteHeard(c)
  <2>1. \/ calls' = cs /\ UNCHANGED <<profiles, selection>>
        \/ Apply(list, shown, cs)
        \/ \E value : Apply(list, shown, Posted(cs, "save", value, None, "save", NoData))
    BY <1>6 DEF DeleteHeard, PostSave
  <2>2. MayAsk("save", None, "save", NoData) BY NothingAsked DEF ListKinds, ListThens, Fetches
  <2>3. \A value : CallsOK(Posted(cs, "save", value, None, "save", NoData)) BY <1>1, <2>2, AskedOK
  <2> HIDE DEF list, cs
  <2> QED BY <1>1, <1>2, <2>1, <2>3, ApplyStep, CallsStep DEF list, cs
<1>7. CASE RefreshedHeard(c)
  <2> DEFINE data == [NoData EXCEPT !.rest = Tail(c.data.rest)]
             more == IF c.data.rest = <<>> THEN cs
                     ELSE Posted(cs, "refresh", NoSettings, c.data.rest[1], c.then, data)
  <2>1. /\ Apply(list, shown, more) \/ (calls' = more /\ UNCHANGED <<profiles, selection>>)
        /\ c.then \in {"hand", "tick"}
    BY <1>7 DEF RefreshedHeard
  <2>2. DOMAIN data = DOMAIN NoData /\ data.list = <<>> /\ data.rest = Tail(c.data.rest) BY DEF NoData
  <2>3. ProfilesOK(<<>>) BY EmptyIsList DEF ProfilesOK
  <2>4. IsList(c.data.rest) /\ Range(c.data.rest) \subseteq DOMAIN Provided BY <1>1 DEF CallCarries
  <2> HIDE DEF data
  <2>5. ASSUME c.data.rest # <<>> PROVE MayAsk("refresh", c.data.rest[1], c.then, data)
    <3>1. c.data.rest[1] \in Range(c.data.rest) BY <2>4, <2>5, ListFacts, EmptySeq DEF IsList
    <3>2. IsList(Tail(c.data.rest)) /\ Range(Tail(c.data.rest)) \subseteq Range(c.data.rest) BY <2>4, <2>5, TailList
    <3> QED BY <2>1, <2>2, <2>3, <2>4, <3>1, <3>2 DEF MayAsk, ListCalls
  <2>6. CallsOK(more) BY <1>1, <2>5, AskedOK
  <2> HIDE DEF list, cs, more
  <2> QED BY <1>1, <1>2, <2>1, <2>6, ApplyStep, CallsStep DEF list
<1>8. CASE StartProfilesHeard(c)
  <2> DEFINE more == IF shown.auto_update = 1
                     THEN Posted(cs, "refreshAll", NoSettings, None, "start:refresh", NoData) ELSE cs
  <2>1. MayAsk("refreshAll", None, "start:refresh", NoData) BY NothingAsked DEF ListCalls
  <2>2. CallsOK(more) BY <1>1, <2>1, AskedOK
  <2>3. \/ calls' = more /\ UNCHANGED <<profiles, selection>>
        \/ \E sel \in {Reconcile(list, selection), SavedSelection(list, shown.last)} :
              profiles' = list /\ selection' = sel /\ Remember(TRUE, list, sel, shown, more)
    BY <1>8 DEF StartProfilesHeard
  <2>4. /\ Selects(list, Reconcile(list, selection)) /\ DOMAIN Reconcile(list, selection) = DOMAIN EMPTY_SELECTION
        /\ Selects(list, SavedSelection(list, shown.last))
        /\ DOMAIN SavedSelection(list, shown.last) = DOMAIN EMPTY_SELECTION
    BY <1>1, ReconcileSelects, SavedSelects
  <2>5. CASE calls' = more /\ UNCHANGED <<profiles, selection>> BY <1>2, <2>2, <2>5, CallsStep
  <2> HIDE DEF list, cs, more
  <2>6. ASSUME NEW sel \in {Reconcile(list, selection), SavedSelection(list, shown.last)},
               profiles' = list, selection' = sel, Remember(TRUE, list, sel, shown, more)
        PROVE  SelectionInv'
    <3>1. CallsOK(calls') BY <2>2, <2>6, RememberAsks
    <3>2. Selects(list, sel) /\ DOMAIN sel = DOMAIN EMPTY_SELECTION BY <2>4
    <3> QED BY <1>1, <1>2, <2>6, <3>1, <3>2, SelectionIs, SelectionNext DEF list
  <2> QED BY <2>3, <2>5, <2>6
<1> QED BY <1>3, <1>4, <1>5, <1>6, <1>7, <1>8

ServerInv == ShownInv /\ SelectionInv

(* Every step of the server list keeps the selection a selection from it. *)
LEMMA ServerSelects == ServerInv /\ [ServerNext]_serverVars => ServerInv'
<1> SUFFICES ASSUME ShownInv, SelectionInv, [ServerNext]_serverVars PROVE SelectionInv'
  BY ServersKeep DEF ServerInv
<1>1. CASE UNCHANGED serverVars BY <1>1, SelectionIs, SelectionNext DEF serverVars, listVars, syncVars
<1>2. CASE Start BY <1>2, SendsSelect
<1>3. CASE ServerUser BY <1>3, PicksSelect, SendsSelect DEF ServerUser, HandleDeleteSources
<1>4. CASE \E c \in calls : ServerHeard(c) BY <1>4, StartSelects, ListSelects DEF ServerHeard
<1>5. CASE ServeProfiles \/ (ServeSettings /\ UNCHANGED listVars) BY <1>5, ServesSelect
<1> QED BY <1>1, <1>2, <1>3, <1>4, <1>5 DEF ServerNext

(* It is one at the start. *)
LEMMA SelectionStart == ServerInit => ServerInv
<1> SUFFICES ASSUME ServerInit PROVE ServerInv OBVIOUS
<1>1. ShownInv BY ShownStart DEF ServerInit
<1>2. ProfilesOK(stock) BY ProfilesGiven DEF ServerInit
<1>3. ProfilesOK(<<>>) BY EmptyIsList DEF ProfilesOK
<1>4. calls = {} /\ profiles = <<>> /\ selection = EMPTY_SELECTION BY DEF ServerInit, SyncInit
<1>5. SelectionInv BY <1>2, <1>3, <1>4 DEF SelectionInv, Selects
<1> QED BY <1>1, <1>5 DEF ServerInv

(***************************************************************************)
(* Whatever order lists, deletions, additions, refreshes by hand and by the*)
(* timer and the restored selection arrive in, and whatever the user picks *)
(* meanwhile, the selection is of the list on screen (reconcileSelection,  *)
(* handleSelectProxy, selectSource).                                       *)
(***************************************************************************)
THEOREM SelectionHolds == ServerSpec => []SelectionExists
<1>1. ServerInv => SelectionExists BY SelectionIs DEF ServerInv, SelectionExists
<1> QED BY <1>1, ServerSelects, SelectionStart, PTL DEF ServerSpec

-----------------------------------------------------------------------------
(* The list on screen and Go's. *)
LaterThens == {"start:push", "start:pushed", "start:profiles", "start:refresh", "start:load"}

(* The calls cs account for what differs between this list and Go's. *)
Right(cs, list) ==
    /\ \A c \in cs : c.then \in LaterThens => phase # "settings"
    /\ budget["inOrder"] = 1 /\ ~failed /\ phase # "settings" => ListAgrees(cs, list, stock)

(* ListInv says it of the calls there are and of the list on screen. *)
LEMMA RightIs == ListInv <=> Right(calls, profiles)
BY DEF ListInv, Right, LaterThens

(* ListInv, of the next state. *)
LEMMA RightNext ==
    ASSUME \A c \in calls' : c.then \in LaterThens => phase' # "settings",
           budget'["inOrder"] = 1 /\ ~failed' /\ phase' # "settings" => ListAgrees(calls', profiles', stock')
    PROVE  ListInv'
BY DEF ListInv, LaterThens

(* A step of the window's: Go's list is as it was, and start() does not go back. *)
LEMMA RightStep ==
    ASSUME Right(calls', profiles'), UNCHANGED <<stock, failed>>, budget'["inOrder"] = budget["inOrder"],
           phase' = phase \/ (phase # "settings" /\ phase' # "settings")
    PROVE  ListInv'
<1>1. /\ \A c \in calls' : c.then \in LaterThens => phase # "settings"
      /\ budget["inOrder"] = 1 /\ ~failed /\ phase # "settings" => ListAgrees(calls', profiles', stock)
  BY DEF Right
<1>2. PICK cs, list : cs = calls' /\ list = profiles' OBVIOUS
<1>3. \A c \in cs : c.then \in LaterThens => phase' # "settings" BY <1>1, <1>2
<1>4. budget'["inOrder"] = 1 /\ ~failed' /\ phase' # "settings" => ListAgrees(cs, list, stock')
  BY <1>1, <1>2
<1> QED BY <1>2, <1>3, <1>4, RightNext

(* Another call is sent; one after which the list is loaded makes up for
   anything. *)
LEMMA AgreesPosted ==
    ASSUME NEW cs, NEW list, NEW st, NEW kind, NEW value, NEW id, NEW then, NEW data,
           ListAgrees(cs, list, st) \/ kind = "profiles" \/ then \in {"start:push", "start:pushed"}
    PROVE  ListAgrees(Posted(cs, kind, value, id, then, data), list, st)
<1>1. PICK x : /\ Posted(cs, kind, value, id, then, data) = cs \cup {x}
               /\ DOMAIN x = CallFields /\ x.n = Stamp(cs) /\ x.kind = kind /\ x.value = value
               /\ x.id = id /\ x.then = then /\ x.data = data
               /\ ~x.read /\ ~x.done /\ x.ok /\ x.read \in BOOLEAN /\ x.done \in BOOLEAN /\ x.ok \in BOOLEAN
  BY ONLY RequestIs
<1>2. ~BringsList(x) BY <1>1 DEF BringsList
<1>3. kind = "profiles" \/ then \in {"start:push", "start:pushed"} => WillList(x) BY <1>1 DEF WillList
<1> QED BY <1>1, <1>2, <1>3 DEF ListAgrees

(* The same with what is known of start(). *)
LEMMA RightPosted ==
    ASSUME NEW cs, NEW list, NEW kind, NEW value, NEW id, NEW then, NEW data,
           then \in LaterThens => phase # "settings",
           \/ Right(cs, list)
           \/ /\ \A c \in cs : c.then \in LaterThens => phase # "settings"
              /\ kind = "profiles" \/ then \in {"start:push", "start:pushed"}
    PROVE  Right(Posted(cs, kind, value, id, then, data), list)
<1>1. \A c \in cs : c.then \in LaterThens => phase # "settings" BY DEF Right
<1>2. \E x : Posted(cs, kind, value, id, then, data) = cs \cup {x} /\ x.then = then BY RequestIs
<1>3. budget["inOrder"] = 1 /\ ~failed /\ phase # "settings" => ListAgrees(Posted(cs, kind, value, id, then, data), list, stock)
  BY AgreesPosted DEF Right
<1> QED BY <1>1, <1>2, <1>3 DEF Right

(* What the effect that remembers the selection saves. *)
LEMMA RightRemember ==
    ASSUME NEW restored, NEW list, NEW sel, NEW base, NEW cs, Right(cs, list), Remember(restored, list, sel, base, cs)
    PROVE  Right(calls', list)
<1>1. calls' = cs \/ \E value : calls' = Posted(cs, "save", value, None, "patch", NoData)
  BY DEF Remember, PostSave
<1>2. \A value : Right(Posted(cs, "save", value, None, "patch", NoData), list) BY RightPosted DEF LaterThens
<1> QED BY <1>1, <1>2

(* An answer is taken, oldest first: one that brings a list has it shown. *)
LEMMA RightHeard ==
    ASSUME AllFit(calls), CallsOK(calls), ListInv, NEW c \in calls, NextHeard(c)
    PROVE  /\ BringsList(c) => Right(calls \ {c}, c.data.list)
           /\ ~BringsList(c) /\ ~WillList(c) => Right(calls \ {c}, profiles)
<1>1. Right(calls, profiles) BY RightIs
<1>2. \A d \in calls \ {c} : d.then \in LaterThens => phase # "settings" BY <1>1 DEF Right
<1>3. c.done BY DEF NextHeard
<1>4. ASSUME BringsList(c), budget["inOrder"] = 1, ListAgrees(calls, profiles, stock)
      PROVE  ListAgrees(calls \ {c}, c.data.list, stock)
  <2>1. \A d \in calls : d.done => c.n <= d.n BY <1>4 DEF NextHeard, Oldest
  <2>2. ~WillList(c)
    <3>1. ListCallFits(c) BY DEF CallsOK
    <3> QED BY <1>3, <1>4, <3>1 DEF WillList, BringsList, ListCallFits, ListKinds, ListCalls, Fetches
  <2>3. CASE \E d \in calls : WillList(d) BY <2>2, <2>3 DEF ListAgrees
  <2>4. ASSUME NEW d \in calls, BringsList(d), d.data.list = stock, \A e \in calls : BringsList(e) => e.n <= d.n
        PROVE  ListAgrees(calls \ {c}, c.data.list, stock)
    <3>1. CASE d # c BY <2>4, <3>1 DEF ListAgrees
    <3>2. CASE d = c
      <4>1. ASSUME NEW e \in calls \ {c}, BringsList(e) PROVE FALSE
        <5>1. e.n <= c.n /\ c.n <= e.n BY <2>1, <2>4, <3>2, <4>1 DEF BringsList
        <5>2. e.n \in Nat /\ c.n \in Nat BY DEF AllFit, CallFits
        <5>3. e.n = c.n BY <5>1, <5>2
        <5> QED BY <5>3 DEF AllFit, Stamped
      <4> QED BY <2>4, <3>2, <4>1 DEF ListAgrees
    <3> QED BY <3>1, <3>2
  <2> QED BY <1>4, <2>3, <2>4 DEF ListAgrees
<1>5. ASSUME ~BringsList(c), ~WillList(c), ListAgrees(calls, profiles, stock)
      PROVE  ListAgrees(calls \ {c}, profiles, stock)
  BY <1>5 DEF ListAgrees
<1> QED BY <1>1, <1>2, <1>4, <1>5 DEF Right

(* Go answers with its list, new as it may be: the window will show it, or will
   ask for it. *)
LEMMA RightServed ==
    ASSUME AllFit(calls), CallsOK(calls), ListInv, NEW c \in calls, ~c.done, c.kind \in ListKinds,
           AnswerList(c, stock', TRUE), UNCHANGED <<profiles, phase, failed, budget>>
    PROVE  ListInv'
<1>0. PICK list : list = stock' OBVIOUS
<1> DEFINE n == Stamp(calls)
           x == ListAnswered(c, n, list, TRUE)
<1>1. n \in Nat /\ \A d \in calls : d.n < n BY StampAbove DEF AllFit, CallFits
<1>2. calls' = (calls \ {c}) \cup {x} BY <1>0 DEF AnswerList, ListAnswered
<1>3. CallFits(c) /\ ListCallFits(c) /\ CallCarries(c) BY DEF AllFit, CallsOK
<1>4. c.kind # "settings" BY DEF ListKinds, Fetches
<1> HIDE DEF n
<1>5. x.done /\ x.ok /\ x.then = c.then /\ x.kind = c.kind /\ x.n = n
  <2>1. PICK ok \in BOOLEAN : ok = TRUE OBVIOUS
  <2> DEFINE y == ListAnswered(c, n, list, ok)
  <2>2. y.done /\ (y.ok <=> ok) /\ y.then = c.then /\ y.kind = c.kind /\ y.n = n
    BY <1>1, <1>3, <1>4, ListAnswerIs
  <2>3. x = y BY <2>1
  <2> HIDE DEF x, y
  <2> QED BY <2>1, <2>2, <2>3
<1>6. x.data.list = list
  <2>1. DOMAIN c = CallFields /\ DOMAIN c.data = {"list", "ids", "rest", "name"} BY <1>3 DEF CallCarries, NoData
  <2> QED BY <2>1 DEF CallFields, ListAnswered
<1> HIDE DEF x
<1>7. WillList(x) \/ BringsList(x)
  BY <1>3, <1>5 DEF ListCallFits, ListCalls, WillList, BringsList
<1>8. \A d \in calls : BringsList(d) => d.n <= x.n
  BY <1>1, <1>5 DEF AllFit, CallFits
<1>9. ListAgrees(calls', profiles', list)
  <2>1. CASE WillList(x) BY <1>2, <2>1 DEF ListAgrees
  <2>2. CASE BringsList(x)
    <3>1. x.n <= x.n BY <1>1, <1>5
    <3> QED BY <1>2, <1>6, <1>8, <2>2, <3>1 DEF ListAgrees
  <2> QED BY <1>7, <2>1, <2>2
<1>10. \A d \in calls' : d.then \in LaterThens => phase' # "settings"
  BY <1>2, <1>5, RightIs DEF Right
<1> QED BY <1>0, <1>9, <1>10, RightNext

(* The settings' calls do not touch the list. *)
LEMMA RightReworked ==
    ASSUME CallsOK(calls), ListInv, NEW c \in calls, OnlyReworks(c),
           UNCHANGED <<profiles, stock, phase>>, budget'["inOrder"] = budget["inOrder"],
           failed \in BOOLEAN, failed' \in BOOLEAN, failed => failed'
    PROVE  ListInv'
<1>1. c.then \notin ListThens
  <2>1. \A pair \in ListCalls : pair[1] \in ListKinds BY DEF ListCalls, ListKinds, Fetches
  <2>2. c.then \in ListThens => <<c.kind, c.then>> \in ListCalls BY DEF CallsOK, ListCallFits
  <2> QED BY <2>1, <2>2 DEF OnlyReworks
<1>2. \A d : Reworked(c, d) => ~BringsList(d)
  BY <1>1 DEF Reworked, BringsList, ListThens
<1>3. ~BringsList(c) BY DEF BringsList, OnlyReworks
<1>4. WillList(c) => \E d \in calls' : WillList(d)
  <2>1. WillList(c) => c.then \in {"start:push", "start:pushed"}
    BY DEF WillList, OnlyReworks, ListKinds
  <2> QED BY <2>1 DEF WillList, OnlyReworks
<1>5. Right(calls, profiles) BY RightIs
<1>6. ASSUME ListAgrees(calls, profiles, stock) PROVE ListAgrees(calls', profiles, stock)
  <2>1. CASE \E d \in calls : WillList(d) BY <1>4, <2>1 DEF ListAgrees, OnlyReworks
  <2>2. \A d \in calls' : BringsList(d) => d \in calls BY <1>2 DEF OnlyReworks
  <2>3. \A d \in calls : BringsList(d) => d \in calls' BY <1>3 DEF OnlyReworks
  <2> QED BY <1>6, <2>1, <2>2, <2>3 DEF ListAgrees
<1>7. \A d \in calls' : d.then \in LaterThens => phase # "settings"
  <2> SUFFICES ASSUME NEW d \in calls', d.then \in LaterThens PROVE phase # "settings" OBVIOUS
  <2>1. CASE d \in calls BY <1>5, <2>1 DEF Right
  <2>2. CASE Reworked(c, d)
    <3>1. d.then = c.then BY <2>2 DEF Reworked, LaterThens
    <3> QED BY <1>5, <3>1 DEF Right
  <2> QED BY <2>1, <2>2 DEF OnlyReworks
<1>8. PICK cs : cs = calls' OBVIOUS
<1>9. budget'["inOrder"] = 1 /\ ~failed' /\ phase' # "settings" => ListAgrees(cs, profiles', stock')
  BY <1>5, <1>6, <1>8 DEF Right
<1> QED BY <1>7, <1>8, <1>9, RightNext

(* What the user does: picks, which are remembered, and calls. *)
LEMMA UserRight ==
    ASSUME ShownInv, ListInv, ServerUser \/ Start
    PROVE  ListInv'
<1>1. Right(calls, profiles) /\ "inOrder" \in DOMAIN budget BY RightIs, ShownIs
<1>2. /\ UNCHANGED <<profiles, stock, failed, phase>>
      /\ budget' = budget \/ \E what \in {"pick", "edit", "chain", "list", "refresh", "tick"} : Spend(what)
  BY DEF ServerUser, HandleSelectProxy, HandleSelectAuto, SelectSource, UpdateSetting, AddToChain, DeleteProfiles,
         HandleDeleteSources, AddProfile, UpdateProfile, ImportSubscription, HandleRefreshSources, Tick, Start,
         Acts, Select, listVars
<1>3. budget'["inOrder"] = budget["inOrder"] BY <1>1, <1>2, SpendKeeps
<1>4. SUFFICES Right(calls', profiles) BY <1>2, <1>3, RightStep
<1>5. \A value : Right(Posted(calls, "save", value, None, "save", NoData), profiles)
  BY <1>1, RightPosted DEF LaterThens
<1>6. ASSUME NEW kind, NEW value, NEW id, NEW then, NEW data, then \notin LaterThens,
             calls' = Posted(calls, kind, value, id, then, data)
      PROVE  Right(calls', profiles)
  BY <1>1, <1>6, RightPosted
<1>7. CASE \/ \E id \in Ids(profiles) : HandleSelectProxy(id)
           \/ HandleSelectAuto
           \/ \E source \in Sources(profiles) : SelectSource(source)
  <2>1. \E restored, sel, value :
           \/ Remember(restored, profiles, sel, shown, calls)
           \/ Remember(restored, profiles, sel, shown, Posted(calls, "save", value, None, "save", NoData))
    <3>1. CASE HandleSelectAuto BY <3>1 DEF HandleSelectAuto, Select
    <3>2. CASE \E source \in Sources(profiles) : SelectSource(source) BY <3>2 DEF SelectSource, Select
    <3>3. ASSUME NEW id, HandleSelectProxy(id)
          PROVE  \E restored, sel, value :
                   \/ Remember(restored, profiles, sel, shown, calls)
                   \/ Remember(restored, profiles, sel, shown, Posted(calls, "save", value, None, "save", NoData))
      BY <3>3 DEF HandleSelectProxy, Select, PostSave
    <3> QED BY <1>7, <3>1, <3>2, <3>3
  <2> QED BY <1>1, <1>5, <2>1, RightRemember
<1>8. CASE UpdateSetting
  <2>1. \E value : calls' = Posted(calls, "save", value, None, "patch", NoData)
    BY <1>8 DEF UpdateSetting, PatchSettings, SendSave, PostSave
  <2> QED BY <1>6, <2>1 DEF LaterThens
<1>9. CASE \E ids \in SUBSET Ids(profiles) : AddToChain(ids)
  <2>1. \E value : calls' = Posted(calls, "save", value, None, "save", NoData)
    BY <1>9 DEF AddToChain, SendSave, PostSave
  <2> QED BY <1>6, <2>1 DEF LaterThens
<1>10. CASE \E ids : DeleteProfiles(ids)
  <2>1. \E data : calls' = Posted(calls, "delete", shown, None, "delete", data) BY <1>10 DEF DeleteProfiles
  <2> QED BY <1>6, <2>1 DEF LaterThens
<1>11. CASE \E q \in NewProfiles : AddProfile(q)
  <2>1. \E data : calls' = Posted(calls, "add", NoSettings, None, "add", data) BY <1>11 DEF AddProfile
  <2> QED BY <1>6, <2>1 DEF LaterThens
<1>12. CASE \E id, name : UpdateProfile(id, name)
  <2>1. \E id, data : calls' = Posted(calls, "update", NoSettings, id, "list", data) BY <1>12 DEF UpdateProfile
  <2> QED BY <1>6, <2>1 DEF LaterThens
<1>13. CASE \E d \in DOMAIN Provided : ImportSubscription(d)
  <2>1. \E d, data : calls' = Posted(calls, "import", NoSettings, d, "import", data) BY <1>13 DEF ImportSubscription, Send
  <2> QED BY <1>6, <2>1 DEF LaterThens
<1>14. CASE \E ds \in DomainLists : HandleRefreshSources(ds)
  <2>1. \E d, data : calls' = Posted(calls, "refresh", NoSettings, d, "hand", data) BY <1>14 DEF HandleRefreshSources
  <2> QED BY <1>6, <2>1 DEF LaterThens
<1>15. CASE \E ds \in DomainLists : Tick(ds)
  <2>1. \E d, data : calls' = Posted(calls, "refresh", NoSettings, d, "tick", data) BY <1>15 DEF Tick
  <2> QED BY <1>6, <2>1 DEF LaterThens
<1>16. CASE Start
  <2>1. calls' = Posted(calls, "settings", NoSettings, None, "start:settings", NoData) BY <1>16 DEF Start, Send
  <2> QED BY <1>6, <2>1 DEF LaterThens
<1> QED BY <1>7, <1>8, <1>9, <1>10, <1>11, <1>12, <1>13, <1>14, <1>15, <1>16 DEF ServerUser, HandleDeleteSources

(* Go's side. *)
LEMMA ServesRight ==
    ASSUME ShownInv, SelectionInv, ListInv, ServeProfiles \/ (ServeSettings /\ UNCHANGED listVars)
    PROVE  ListInv'
<1>1. AllFit(calls) /\ CallsOK(calls) /\ failed \in BOOLEAN /\ "inOrder" \in DOMAIN budget /\ Right(calls, profiles)
  BY ShownIs, SelectionIs, RightIs
<1>2. CASE ServeSettings /\ UNCHANGED listVars
  <2>1. PICK c \in calls : OnlyReworks(c) BY <1>1, <1>2, ServeReworks
  <2>2. UNCHANGED <<profiles, stock, phase>> BY <1>2 DEF listVars
  <2>3. failed' \in BOOLEAN /\ (failed => failed') /\ (budget' = budget \/ Spend("fail"))
    <3>1. PICK d \in calls : SaveServed(d) \/ SaveRefused(d) \/ ReadSettings(d) \/ SwitchServed(d) \/ CommandServed(d)
      BY <1>2 DEF ServeSettings
    <3>2. CASE SaveServed(d) \/ SaveRefused(d) \/ ReadSettings(d)
      BY <1>1, <3>2 DEF SaveServed, SaveRefused, ReadSettings
    <3>3. CASE SwitchServed(d) BY <1>1, <3>3 DEF SwitchServed
    <3>4. CASE CommandServed(d)
      <4>1. UNCHANGED <<failed, budget>> \/ (Spend("fail") /\ failed' = TRUE) BY <3>4 DEF CommandServed
      <4> QED BY <1>1, <4>1
    <3> QED BY <3>1, <3>2, <3>3, <3>4
  <2>4. budget'["inOrder"] = budget["inOrder"] BY <1>1, <2>3, SpendKeeps
  <2> QED BY <1>1, <2>1, <2>2, <2>3, <2>4, RightReworked
<1>3. CASE ServeProfiles
  <2>1. PICK c \in calls : ReadList(c) \/ FetchServed(c) \/ StoreServed(c) \/ SettingsServed(c) \/ CallFails(c)
    BY <1>3 DEF ServeProfiles
  <2>2. CallFits(c) /\ ListCallFits(c) /\ CallCarries(c) BY <1>1 DEF CallsOK, AllFit
  <2>3. CASE FetchServed(c) \/ StoreServed(c)
    <3>1. /\ ~c.done /\ c.kind \in ListKinds /\ AnswerList(c, stock', TRUE) /\ UNCHANGED <<profiles, phase, failed, budget>>
      BY <2>3 DEF FetchServed, StoreServed, NextServed, ListKinds
    <3> QED BY <1>1, <3>1, RightServed
  <2>4. CASE SettingsServed(c)
    <3>1. NextServed(c) /\ c.kind \notin ListKinds /\ Answer(c, stored, TRUE) /\ UNCHANGED <<failed, budget, profiles, stock, phase>>
      BY <2>4 DEF SettingsServed, ListKinds, Fetches, listVars
    <3>2. OnlyReworks(c) BY <1>1, <3>1, AnswerReworks
    <3> QED BY <1>1, <3>1, <3>2, RightReworked
  <2>5. ASSUME NEW x, calls' = (calls \ {c}) \cup {x}, x.then = c.then, x.kind = c.kind, ~c.done,
               ~BringsList(x), WillList(c) => WillList(x) \/ failed',
               UNCHANGED <<profiles, stock, phase>>, budget'["inOrder"] = budget["inOrder"], failed => failed'
        PROVE  ListInv'
    <3>1. ~BringsList(c) BY <2>5 DEF BringsList
    <3>2. ASSUME ListAgrees(calls, profiles, stock), ~failed' PROVE ListAgrees(calls', profiles, stock)
      <4>1. CASE \E d \in calls : WillList(d) BY <2>5, <3>2, <4>1 DEF ListAgrees
      <4> QED BY <2>5, <3>1, <3>2, <4>1 DEF ListAgrees
    <3>3. PICK cs : cs = calls' OBVIOUS
    <3>4. \A d \in cs : d.then \in LaterThens => phase' # "settings" BY <1>1, <2>5, <3>3 DEF Right
    <3>5. budget'["inOrder"] = 1 /\ ~failed' /\ phase' # "settings" => ListAgrees(cs, profiles', stock')
      BY <1>1, <2>5, <3>2, <3>3 DEF Right
    <3> QED BY <3>3, <3>4, <3>5, RightNext
  <2>6. CASE ReadList(c)
    <3> DEFINE x == [c EXCEPT !.read = TRUE, !.data.list = stock]
    <3>1. /\ calls' = (calls \ {c}) \cup {x} /\ c.kind \in Copies /\ ~c.done
          /\ UNCHANGED <<profiles, stock, phase, budget, failed>>
      BY <2>6 DEF ReadList, NextServed, listVars
    <3>2. DOMAIN c = CallFields BY <2>2 DEF CallFits
    <3>3. x.then = c.then /\ x.kind = c.kind /\ x.done = c.done BY <3>2 DEF CallFields
    <3> HIDE DEF x
    <3>4. ~BringsList(x) /\ ~WillList(c)
      BY <2>2, <3>1, <3>3 DEF BringsList, WillList, ListCallFits, ListKinds, ListCalls, Copies, Fetches
    <3> QED BY <2>5, <3>1, <3>3, <3>4
  <2>7. CASE CallFails(c)
    <3>1. PICK no \in BOOLEAN : no = FALSE OBVIOUS
    <3>2. /\ AnswerList(c, <<>>, FALSE) /\ ~c.done /\ (budget' = budget \/ Spend("fail"))
          /\ UNCHANGED <<profiles, stock, phase>>
          /\ c.kind \in Fetches \cup {"add", "delete", "update", "profiles", "push"}
      BY <2>7 DEF CallFails, NextServed, listVars, Gone, Copies, Fetches
    <3>3. failed' = (failed \/ c.kind = "profiles") BY <2>7 DEF CallFails
    <3>4. budget'["inOrder"] = budget["inOrder"] BY <1>1, <3>2, SpendKeeps
    <3> DEFINE n == Stamp(calls)
               x == ListAnswered(c, n, <<>>, no)
    <3>5. calls' = (calls \ {c}) \cup {x} BY <3>1, <3>2 DEF AnswerList, ListAnswered
    <3>6. n \in Nat BY <1>1, StampAbove DEF AllFit, CallFits
    <3>7. c.kind # "settings" BY <3>2 DEF Fetches
    <3> HIDE DEF n
    <3>8. x.then = c.then /\ x.kind = c.kind /\ (x.ok <=> no) BY <2>2, <3>6, <3>7, ListAnswerIs
    <3> HIDE DEF x
    <3>9. ~BringsList(x) BY <3>1, <3>8 DEF BringsList
    <3>10. WillList(c) => WillList(x) \/ failed'
      BY <3>2, <3>3, <3>8 DEF WillList
    <3>11. failed => failed' BY <3>3
    <3> QED BY <2>5, <3>2, <3>4, <3>5, <3>8, <3>9, <3>10, <3>11
  <2> QED BY <2>1, <2>3, <2>4, <2>6, <2>7
<1> QED BY <1>2, <1>3

(* The answers to start(), up to the list; the last phase it has not passed. *)
LEMMA StartRight ==
    ASSUME ShownInv, SelectionInv, ListInv, NEW c \in calls,
           \/ StartSettingsHeard(c) \/ StartPushHeard(c) \/ StartPushedHeard(c) \/ StartRefreshHeard(c)
           \/ SettingsHeard(c) /\ UNCHANGED listVars
           \/ RefreshHeard(c)
    PROVE  ListInv'
<1>1. AllFit(calls) /\ CallsOK(calls) /\ Right(calls, profiles) BY ShownIs, SelectionIs, RightIs
<1>2. /\ NextHeard(c) /\ c.done
      /\ UNCHANGED <<profiles, stock, failed, budget>>
  BY DEF StartSettingsHeard, StartPushHeard, StartPushedHeard, StartRefreshHeard, RefreshHeard, SettingsHeard,
         NextHeard, listVars
<1>3. CallFits(c) /\ ListCallFits(c) BY <1>1 DEF AllFit, CallsOK
<1>4. \A d \in calls \ {c} : d.then \in LaterThens => phase # "settings" BY <1>1 DEF Right
<1>5. CASE StartSettingsHeard(c)
  <2>1. \/ calls' = Posted(calls \ {c}, "push", NoSettings, None, "start:push", NoData)
        \/ calls' = Posted(calls \ {c}, "profiles", NoSettings, None, "start:profiles", NoData)
    BY <1>5 DEF StartSettingsHeard, Continue
  <2>2. phase' # "settings" BY <1>5 DEF StartSettingsHeard
  <2>3. PICK cs : cs = calls' OBVIOUS
  <2>4. ListAgrees(cs, profiles', stock') BY <2>1, <2>3, AgreesPosted
  <2> QED BY <2>2, <2>3, <2>4, RightNext
<1>6. CASE StartPushHeard(c) \/ StartPushedHeard(c)
  <2>1. \/ \E value : calls' = Posted(calls \ {c}, "save", value, None, "start:pushed", NoData)
        \/ calls' = Posted(calls \ {c}, "profiles", NoSettings, None, "start:profiles", NoData)
    BY <1>6 DEF StartPushHeard, StartPushedHeard, Continue
  <2>2. c.then \in LaterThens /\ phase' = phase BY <1>6 DEF StartPushHeard, StartPushedHeard, LaterThens, listVars
  <2>3. phase # "settings" BY <1>1, <2>2 DEF Right
  <2>4. Right(calls', profiles) BY <1>4, <2>1, <2>3, RightPosted
  <2> QED BY <1>2, <2>2, <2>4, RightStep
<1>7. CASE StartRefreshHeard(c)
  <2>1. c.then = "start:refresh" /\ c.kind = "refreshAll"
    BY <1>3, <1>7 DEF StartRefreshHeard, ListCallFits, ListThens, ListCalls
  <2>2. phase # "settings" BY <1>1, <2>1 DEF Right, LaterThens
  <2>3. phase' = phase \/ phase' # "settings" BY <1>7 DEF StartRefreshHeard
  <2>4. CASE c.ok
    <3>1. calls' = Posted(calls \ {c}, "profiles", NoSettings, None, "start:load", NoData)
      BY <1>7, <2>4 DEF StartRefreshHeard, Continue
    <3>2. Right(calls', profiles) BY <1>4, <2>2, <3>1, RightPosted
    <3> QED BY <1>2, <2>2, <2>3, <3>2, RightStep
  <2>5. CASE ~c.ok
    <3>1. calls' = calls \ {c} BY <1>7, <2>5 DEF StartRefreshHeard
    <3>2. ~BringsList(c) /\ ~WillList(c) BY <1>2, <2>1, <2>5 DEF BringsList, WillList
    <3>3. Right(calls', profiles) BY <1>1, <1>2, <3>1, <3>2, RightHeard
    <3> QED BY <1>2, <2>2, <2>3, <3>3, RightStep
  <2> QED BY <2>4, <2>5
<1>8. CASE RefreshHeard(c)
  <2>1. PICK data : calls' = Posted(calls \ {c}, "profiles", NoSettings, None, c.then, data) BY <1>8 DEF RefreshHeard
  <2>2. c.then \in {"hand", "tick"} /\ phase' = phase BY <1>8 DEF RefreshHeard, listVars
  <2>3. c.then \notin LaterThens BY <2>2 DEF LaterThens
  <2>4. Right(calls', profiles) BY <1>4, <2>1, <2>3, RightPosted
  <2> QED BY <1>2, <2>2, <2>4, RightStep
<1>9. CASE SettingsHeard(c) /\ UNCHANGED listVars
  <2>1. calls' = calls \ {c} /\ c.then \in {"patch", "save", "event"} /\ phase' = phase
    BY <1>9 DEF SettingsHeard, listVars
  <2>2. ~BringsList(c) /\ ~WillList(c)
    BY <1>2, <1>3, <2>1 DEF BringsList, WillList, CallFits, Replacing
  <2>3. Right(calls', profiles) BY <1>1, <1>2, <2>1, <2>2, RightHeard
  <2> QED BY <1>2, <2>1, <2>3, RightStep
<1> QED BY <1>5, <1>6, <1>7, <1>8, <1>9

(* The answers that bring a list, or fail to. *)
LEMMA ListRight ==
    ASSUME ShownInv, SelectionInv, ListInv, NEW c \in calls,
           \/ StartProfilesHeard(c) \/ StartLoadHeard(c) \/ AddHeard(c) \/ SubscriptionHeard(c)
           \/ ListHeard(c) \/ DeleteHeard(c) \/ RefreshedHeard(c)
    PROVE  ListInv'
<1>1. AllFit(calls) /\ CallsOK(calls) /\ Right(calls, profiles) BY ShownIs, SelectionIs, RightIs
<1>2. /\ NextHeard(c) /\ c.done /\ UNCHANGED <<stock, failed, budget>>
  BY DEF StartProfilesHeard, StartLoadHeard, AddHeard, SubscriptionHeard, ListHeard, DeleteHeard, RefreshedHeard, NextHeard
<1>3. CallFits(c) /\ ListCallFits(c) BY <1>1 DEF AllFit, CallsOK
<1>4. /\ c.then \in {"add", "import", "list", "delete", "start:profiles", "start:load", "hand", "tick"}
      /\ c.then \in {"hand", "tick"} => c.kind = "profiles" \/ ~c.ok
  BY DEF StartProfilesHeard, StartLoadHeard, AddHeard, SubscriptionHeard, ListHeard, DeleteHeard, RefreshedHeard
<1>5. phase' = phase \/ (phase # "settings" /\ phase' # "settings")
  <2>1. CASE StartProfilesHeard(c) \/ StartLoadHeard(c)
    <3>1. c.then \in LaterThens /\ phase' # "settings" BY <2>1 DEF StartProfilesHeard, StartLoadHeard, LaterThens
    <3> QED BY <1>1, <3>1 DEF Right
  <2> QED BY <2>1 DEF AddHeard, SubscriptionHeard, ListHeard, DeleteHeard, RefreshedHeard
<1>6. c.then \in LaterThens => phase # "settings" BY <1>1 DEF Right
<1> DEFINE list == c.data.list
           was == profiles
<1>7. c.ok => BringsList(c) BY <1>2, <1>4 DEF BringsList
<1>8. ~c.ok => ~BringsList(c) /\ ~WillList(c)
  <2>1. c.then \in ListThens BY <1>4 DEF ListThens
  <2>2. <<c.kind, c.then>> \in ListCalls BY <1>3, <2>1 DEF ListCallFits
  <2> QED BY <1>2, <1>4, <2>2 DEF BringsList, WillList
<1>9. \A x : Right(calls \ {c}, x) =>
        /\ \A value : Right(Posted(calls \ {c}, "save", value, None, "save", NoData), x)
        /\ phase # "settings" => Right(Posted(calls \ {c}, "refreshAll", NoSettings, None, "start:refresh", NoData), x)
        /\ c.then \in {"hand", "tick"} => \A id, data : Right(Posted(calls \ {c}, "refresh", NoSettings, id, c.then, data), x)
  BY RightPosted DEF LaterThens
<1>10. \E cs : /\ cs \in {calls \ {c}}
                  \/ \E value : cs = Posted(calls \ {c}, "save", value, None, "save", NoData)
                  \/ /\ phase # "settings"
                     /\ cs = Posted(calls \ {c}, "refreshAll", NoSettings, None, "start:refresh", NoData)
                  \/ /\ c.then \in {"hand", "tick"}
                     /\ \E id, data : cs = Posted(calls \ {c}, "refresh", NoSettings, id, c.then, data)
               /\ \/ c.ok /\ profiles' = list /\ \E restored, sel : Remember(restored, list, sel, shown, cs)
                  \/ ~c.ok /\ profiles' = was /\ calls' = cs
  <2> DEFINE Fine(cs) == \/ cs = calls \ {c}
                         \/ \E value : cs = Posted(calls \ {c}, "save", value, None, "save", NoData)
                         \/ /\ phase # "settings"
                            /\ cs = Posted(calls \ {c}, "refreshAll", NoSettings, None, "start:refresh", NoData)
                         \/ /\ c.then \in {"hand", "tick"}
                            /\ \E id, data : cs = Posted(calls \ {c}, "refresh", NoSettings, id, c.then, data)
             Taken(cs) == \/ c.ok /\ profiles' = list /\ \E restored, sel : Remember(restored, list, sel, shown, cs)
                          \/ ~c.ok /\ profiles' = was /\ calls' = cs
  <2> SUFFICES \E cs : Fine(cs) /\ Taken(cs) OBVIOUS
  <2>1. CASE StartLoadHeard(c) \/ AddHeard(c) \/ SubscriptionHeard(c) \/ ListHeard(c)
    <3>1. Taken(calls \ {c}) BY <2>1 DEF StartLoadHeard, AddHeard, SubscriptionHeard, ListHeard, Apply, Select
    <3> QED BY <3>1
  <2>2. CASE DeleteHeard(c)
    <3>1. \/ Taken(calls \ {c})
          \/ \E value : Taken(Posted(calls \ {c}, "save", value, None, "save", NoData))
      BY <2>2 DEF DeleteHeard, Apply, Select, PostSave
    <3> HIDE DEF Taken
    <3> QED BY <3>1
  <2>3. CASE StartProfilesHeard(c)
    <3> DEFINE cs == IF shown.auto_update = 1
                     THEN Posted(calls \ {c}, "refreshAll", NoSettings, None, "start:refresh", NoData)
                     ELSE calls \ {c}
    <3>1. Taken(cs) BY <2>3 DEF StartProfilesHeard
    <3>2. phase # "settings" BY <1>6, <2>3 DEF StartProfilesHeard, LaterThens
    <3>3. Fine(cs) BY <3>2
    <3> HIDE DEF cs, Taken, Fine
    <3> QED BY <3>1, <3>3
  <2>4. CASE RefreshedHeard(c)
    <3> DEFINE cs == IF c.data.rest = <<>> THEN calls \ {c}
                     ELSE Posted(calls \ {c}, "refresh", NoSettings, c.data.rest[1], c.then,
                                 [NoData EXCEPT !.rest = Tail(c.data.rest)])
    <3>1. Taken(cs) BY <2>4 DEF RefreshedHeard, Apply, Select
    <3>2. c.then \in {"hand", "tick"} BY <2>4 DEF RefreshedHeard
    <3>3. Fine(cs) BY <3>2
    <3> HIDE DEF cs, Taken, Fine
    <3> QED BY <3>1, <3>3
  <2> QED BY <2>1, <2>2, <2>3, <2>4
<1>11. c.ok => Right(calls \ {c}, list) BY <1>1, <1>2, <1>7, RightHeard
<1>12. ~c.ok => Right(calls \ {c}, was) BY <1>1, <1>2, <1>8, RightHeard
<1> HIDE DEF list, was
<1>13. Right(calls', profiles')
  <2>1. PICK cs : /\ cs \in {calls \ {c}}
                     \/ \E value : cs = Posted(calls \ {c}, "save", value, None, "save", NoData)
                     \/ /\ phase # "settings"
                        /\ cs = Posted(calls \ {c}, "refreshAll", NoSettings, None, "start:refresh", NoData)
                     \/ /\ c.then \in {"hand", "tick"}
                        /\ \E id, data : cs = Posted(calls \ {c}, "refresh", NoSettings, id, c.then, data)
                  /\ \/ c.ok /\ profiles' = list /\ \E restored, sel : Remember(restored, list, sel, shown, cs)
                     \/ ~c.ok /\ profiles' = was /\ calls' = cs
    BY <1>10
  <2>2. \A x : Right(calls \ {c}, x) => Right(cs, x) BY <1>9, <2>1
  <2>3. PICK cs1, list1 : cs1 = calls' /\ list1 = profiles' OBVIOUS
  <2>4. CASE c.ok
    <3>1. Right(cs, list) BY <1>11, <2>2, <2>4
    <3>2. Right(calls', list) BY <2>1, <2>4, <3>1, RightRemember
    <3> QED BY <2>1, <2>4, <3>2
  <2>5. CASE ~c.ok
    <3>1. Right(cs, was) BY <1>12, <2>2, <2>5
    <3> QED BY <2>1, <2>5, <3>1
  <2> QED BY <2>4, <2>5
<1> QED BY <1>2, <1>5, <1>13, RightStep

(* Every step of the server list keeps the two lists accounted for. *)
LEMMA ServerLists == ServerInv /\ ListInv /\ [ServerNext]_serverVars => ListInv'
<1> SUFFICES ASSUME ShownInv, SelectionInv, ListInv, [ServerNext]_serverVars PROVE ListInv' BY DEF ServerInv
<1>1. CASE UNCHANGED serverVars
  <2>1. UNCHANGED <<calls, profiles, stock, phase, failed, budget>> BY <1>1 DEF serverVars, listVars, syncVars
  <2> QED BY <2>1 DEF ListInv
<1>2. CASE ServerUser \/ Start BY <1>2, UserRight
<1>3. CASE \E c \in calls : ServerHeard(c) BY <1>3, StartRight, ListRight DEF ServerHeard
<1>4. CASE ServeProfiles \/ (ServeSettings /\ UNCHANGED listVars) BY <1>4, ServesRight
<1> QED BY <1>1, <1>2, <1>3, <1>4 DEF ServerNext

(***************************************************************************)
(* Once start() is through and everything asked for has been answered, in  *)
(* order and without a failed load, the list on screen is Go's, whichever  *)
(* additions, deletions, edits, imports and refreshes overlapped           *)
(* (App.tsx, use-profiles.ts).                                             *)
(***************************************************************************)
THEOREM ListHolds == ServerSpec => []ListIsGos
<1>1. ServerInit => ServerInv /\ ListInv
  BY SelectionStart DEF ServerInit, SyncInit, ListInv
<1>2. ListInv => ListIsGos BY DEF ListInv, ListIsGos, Quiet, ListAgrees
<1> QED BY <1>1, <1>2, ServerSelects, ServerLists, PTL DEF ServerSpec

=============================================================================
