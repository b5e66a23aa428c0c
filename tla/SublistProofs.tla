---------------------------- MODULE SublistProofs ---------------------------
(***************************************************************************)
(* Facts about the lists the window works on: what a filter, a move, an    *)
(* append and the ends of a list contain, and that ids stay distinct.      *)
(* KeepAt is recursive; what it computes is proved by induction on the     *)
(* length, from the library's theorem that < is well founded on Nat.       *)
(***************************************************************************)
EXTENDS Sublists, SequencesExt, SequenceTheorems, FiniteSetTheorems, TLAPS

(* Induction on the naturals, for a set: the least element outside T is impossible. *)
LEMMA Induction ==
    ASSUME NEW T, 0 \in T, \A n \in Nat : n \in T => n + 1 \in T
    PROVE  \A n \in Nat : n \in T
<1> DEFINE M == {n \in Nat : n \notin T}
<1>1. CASE M = {}
  BY <1>1
<1>2. CASE M # {}
  <2>1. \E x \in M : \A y \in M : ~ (<<y, x>> \in OpToRel(<, Nat))
    <3> HIDE DEF M
    <3>1. M \subseteq Nat  BY DEF M
    <3> QED BY <3>1, <1>2, WFMin, NatLessThanWellFounded
  <2>2. PICK x \in M : \A y \in M : ~ (<<y, x>> \in OpToRel(<, Nat))
    BY <2>1
  <2>3. x \in Nat /\ x # 0 /\ x - 1 \in Nat  OBVIOUS
  <2>4. <<x - 1, x>> \in OpToRel(<, Nat)  BY <2>3 DEF OpToRel
  <2>5. x - 1 \notin M  BY <2>2, <2>4
  <2> QED BY <2>3, <2>5
<1> QED BY <1>1, <1>2
(* The least index of a set of them (SelectInSeq). *)
LEMMA MinIsIn ==
    ASSUME NEW I, I \subseteq Nat, I # {}
    PROVE  Min(I) \in I /\ \A j \in I : Min(I) <= j
<1>1. \E x \in I : \A y \in I : ~ (<<y, x>> \in OpToRel(<, Nat))
  BY WFMin, NatLessThanWellFounded
<1>2. PICK x \in I : \A y \in I : ~ (<<y, x>> \in OpToRel(<, Nat)) BY <1>1
<1>3. \A y \in I : x <= y
  <2> SUFFICES ASSUME NEW y \in I PROVE x <= y OBVIOUS
  <2>1. x \in Nat /\ y \in Nat OBVIOUS
  <2>2. ~ (y < x) BY <1>2, <2>1 DEF OpToRel
  <2> QED BY <2>1, <2>2
<1> QED BY <1>3 DEF Min

(* f is KeepAt's recursion, up to k. *)
KeptUpTo(f, s, places, k) ==
    f = [n \in 0 .. k |-> IF n = 0 THEN <<>>
                          ELSE IF n \in places THEN Append(f[n - 1], s[n]) ELSE f[n - 1]]

(* The recursion of KeepAt defines a function, up to any length. *)
LEMMA KeptExists ==
    ASSUME NEW s, NEW places, NEW k \in Nat
    PROVE  \E f : KeptUpTo(f, s, places, k)
<1> DEFINE T == {m \in Nat : \E f : KeptUpTo(f, s, places, m)}
<1>1. 0 \in T
  <2> DEFINE f == [n \in 0 .. 0 |-> <<>>]
  <2>1. KeptUpTo(f, s, places, 0)
    BY DEF KeptUpTo
  <2> QED BY <2>1
<1>2. ASSUME NEW m \in Nat, m \in T  PROVE m + 1 \in T
  <2>1. PICK f : KeptUpTo(f, s, places, m)
    BY <1>2
  <2> DEFINE next == IF m + 1 \in places THEN Append(f[m], s[m + 1]) ELSE f[m]
             g == [n \in 0 .. m + 1 |-> IF n = m + 1 THEN next ELSE f[n]]
  <2>2. \A n \in 0 .. m : f[n] = IF n = 0 THEN <<>>
                          ELSE IF n \in places THEN Append(f[n - 1], s[n]) ELSE f[n - 1]
    BY <2>1 DEF KeptUpTo
  <2>3. \A n \in 0 .. m : g[n] = f[n]
    OBVIOUS
  <2>4. g[m + 1] = next
    OBVIOUS
  <2> HIDE DEF g
  <2>5. \A n \in 0 .. m + 1 : g[n] = IF n = 0 THEN <<>>
                          ELSE IF n \in places THEN Append(g[n - 1], s[n]) ELSE g[n - 1]
    <3> SUFFICES ASSUME NEW n \in 0 .. m + 1
                 PROVE g[n] = IF n = 0 THEN <<>>
                          ELSE IF n \in places THEN Append(g[n - 1], s[n]) ELSE g[n - 1]
      OBVIOUS
    <3>1. CASE n = m + 1
      <4>1. n # 0 /\ g[n - 1] = f[m] /\ n - 1 = m BY <3>1, <2>3
      <4> QED BY <3>1, <4>1, <2>4
    <3>2. CASE n = 0
      BY <3>2, <2>2, <2>3
    <3>3. CASE n \in 1 .. m
      <4>1. g[n] = f[n] /\ g[n - 1] = f[n - 1] /\ n # 0 /\ n \in 0 .. m BY <3>3, <2>3
      <4> QED BY <4>1, <2>2
    <3> QED BY <3>1, <3>2, <3>3
  <2>6. g = [n \in 0 .. m + 1 |-> g[n]]
    BY DEF g
  <2>7. KeptUpTo(g, s, places, m + 1)
    <3> DEFINE h == [n \in 0 .. m + 1 |-> IF n = 0 THEN <<>>
                          ELSE IF n \in places THEN Append(g[n - 1], s[n]) ELSE g[n - 1]]
    <3>1. [n \in 0 .. m + 1 |-> g[n]] = h
      BY <2>5
    <3> QED BY <2>6, <3>1 DEF KeptUpTo
  <2> QED BY <2>7
<1> HIDE DEF T
<1>3. k \in T
  BY <1>1, <1>2, Induction
<1> QED BY <1>3 DEF T

(* What KeepAt computes, step by step. *)
LEMMA KeepAtIs ==
    ASSUME NEW s, NEW places, Len(s) \in Nat
    PROVE  \E f : /\ KeepAt(s, places) = f[Len(s)]
                  /\ f[0] = <<>>
                  /\ \A n \in 1 .. Len(s) :
                       f[n] = IF n \in places THEN Append(f[n - 1], s[n]) ELSE f[n - 1]
<1> DEFINE f == CHOOSE f : KeptUpTo(f, s, places, Len(s))
<1>1. KeptUpTo(f, s, places, Len(s))
  BY KeptExists
<1>2. KeepAt(s, places) = f[Len(s)]
  BY DEF KeepAt, KeptUpTo
<1>3. PICK g : KeptUpTo(g, s, places, Len(s)) /\ KeepAt(s, places) = g[Len(s)]
  BY <1>1, <1>2
<1>4. \A n \in 0 .. Len(s) :
        g[n] = IF n = 0 THEN <<>>
               ELSE IF n \in places THEN Append(g[n - 1], s[n]) ELSE g[n - 1]
  BY <1>3 DEF KeptUpTo
<1>5. /\ g[0] = <<>>
      /\ \A n \in 1 .. Len(s) :
           g[n] = IF n \in places THEN Append(g[n - 1], s[n]) ELSE g[n - 1]
  BY <1>4
<1> QED BY <1>3, <1>5

(* KeepAt is a filter: its entries are those at the places kept, each once, in
   their order. *)
LEMMA KeepAtPlaces ==
    ASSUME NEW S, NEW s \in Seq(S), NEW places
    PROVE  /\ KeepAt(s, places) \in Seq(S)
           /\ \E at \in [1 .. Len(KeepAt(s, places)) -> places \cap (1 .. Len(s))] :
                /\ \A i \in 1 .. Len(KeepAt(s, places)) : KeepAt(s, places)[i] = s[at[i]]
                /\ \A i, j \in 1 .. Len(KeepAt(s, places)) : i < j => at[i] < at[j]
                /\ \A p \in places \cap (1 .. Len(s)) :
                      \E i \in 1 .. Len(KeepAt(s, places)) : at[i] = p
<1>1. Len(s) \in Nat  BY LenProperties
<1>2. PICK f : /\ KeepAt(s, places) = f[Len(s)]
               /\ f[0] = <<>>
               /\ \A n \in 1 .. Len(s) :
                    f[n] = IF n \in places THEN Append(f[n - 1], s[n]) ELSE f[n - 1]
  BY <1>1, KeepAtIs
<1> DEFINE Good(t, at, n) ==
             /\ t \in Seq(S)
             /\ at \in [1 .. Len(t) -> places \cap (1 .. n)]
             /\ \A i \in 1 .. Len(t) : t[i] = s[at[i]]
             /\ \A i, j \in 1 .. Len(t) : i < j => at[i] < at[j]
             /\ \A p \in places \cap (1 .. n) : \E i \in 1 .. Len(t) : at[i] = p
           T == {n \in Nat : n <= Len(s) => \E at : Good(f[n], at, n)}
<1>3. 0 \in T
  <2> DEFINE at == [i \in 1 .. 0 |-> 0]
  <2>1. f[0] \in Seq(S) /\ Len(f[0]) = 0
    BY <1>2, EmptySeq
  <2>2. Good(f[0], at, 0)
    BY <2>1
  <2> QED BY <2>2
<1>4. ASSUME NEW n \in Nat, n \in T  PROVE n + 1 \in T
  <2> SUFFICES ASSUME n + 1 <= Len(s) PROVE \E at : Good(f[n + 1], at, n + 1)
    OBVIOUS
  <2>0. n <= Len(s) BY <1>1
  <2>1. PICK at : Good(f[n], at, n)
    BY <1>4, <2>0
  <2>2. n + 1 \in 1 .. Len(s) /\ (n + 1) - 1 = n
    BY <1>1
  <2>3. CASE n + 1 \notin places
    <3>1. f[n + 1] = f[n]
      BY <2>2, <2>3, <1>2
    <3>2. places \cap (1 .. n + 1) = places \cap (1 .. n)
      BY <2>3
    <3> QED BY <3>1, <3>2, <2>1
  <2>4. CASE n + 1 \in places
    <3>1. f[n + 1] = Append(f[n], s[n + 1])
      BY <2>2, <2>4, <1>2
    <3> DEFINE len == Len(f[n])
               new == [i \in 1 .. len + 1 |-> IF i = len + 1 THEN n + 1 ELSE at[i]]
    <3>2. len \in Nat
      BY <2>1, LenProperties
    <3>3. s[n + 1] \in S
      BY <2>2, ElementOfSeq
    <3>4. /\ f[n + 1] \in Seq(S)
          /\ Len(f[n + 1]) = len + 1
          /\ \A i \in 1 .. len : f[n + 1][i] = f[n][i]
          /\ f[n + 1][len + 1] = s[n + 1]
      BY <3>1, <3>3, <2>1, AppendProperties
    <3>5. \A i \in 1 .. len : at[i] \in places \cap (1 .. n) /\ f[n][i] = s[at[i]]
      BY <2>1
    <3>6. /\ \A i \in 1 .. len : new[i] = at[i]
          /\ new[len + 1] = n + 1
          /\ new \in [1 .. len + 1 -> places \cap (1 .. n + 1)]
      BY <3>2, <3>5, <2>4
    <3> HIDE DEF new
    <3>7. \A i \in 1 .. len + 1 : f[n + 1][i] = s[new[i]]
      <4> SUFFICES ASSUME NEW i \in 1 .. len + 1 PROVE f[n + 1][i] = s[new[i]]
        OBVIOUS
      <4>1. CASE i = len + 1
        BY <4>1, <3>4, <3>6
      <4>2. CASE i \in 1 .. len
        BY <4>2, <3>4, <3>5, <3>6
      <4> HIDE DEF len
      <4> QED BY <3>2, <4>1, <4>2
    <3>8. \A i, j \in 1 .. len + 1 : i < j => new[i] < new[j]
      <4>1. \A i, j \in 1 .. len : i < j => at[i] < at[j]
        BY <2>1
      <4>2. \A i \in 1 .. len : at[i] \in Nat /\ at[i] < n + 1
        BY <3>5
      <4> HIDE DEF len
      <4> SUFFICES ASSUME NEW i \in 1 .. len + 1, NEW j \in 1 .. len + 1, i < j
                   PROVE  new[i] < new[j]
        OBVIOUS
      <4>3. i \in 1 .. len
        BY <3>2
      <4>4. CASE j = len + 1
        BY <4>2, <4>3, <4>4, <3>6
      <4>5. CASE j \in 1 .. len
        BY <4>1, <4>3, <4>5, <3>6
      <4> QED BY <3>2, <4>4, <4>5
    <3>9. \A p \in places \cap (1 .. n + 1) : \E i \in 1 .. len + 1 : new[i] = p
      <4>1. \A p \in places \cap (1 .. n) : \E i \in 1 .. len : at[i] = p
        BY <2>1
      <4> QED BY <3>2, <3>6, <4>1
    <3> QED BY <3>4, <3>6, <3>7, <3>8, <3>9
  <2> QED BY <2>3, <2>4
<1> HIDE DEF T, Good
<1>5. Len(s) \in T
  BY <1>1, <1>3, <1>4, Induction
<1>6. PICK at : Good(f[Len(s)], at, Len(s))
  BY <1>1, <1>5 DEF T
<1> QED BY <1>2, <1>6 DEF Good

(* A sequence over any set is a list. *)
LEMMA SeqIsList ==
    ASSUME NEW S, NEW s \in Seq(S)
    PROVE  IsList(s) /\ Range(s) \subseteq S
BY SeqOfRange, RangeOfSeq DEF IsList

(* Length, domain and entries of a list. *)
LEMMA ListFacts ==
    ASSUME NEW s, IsList(s)
    PROVE  /\ Len(s) \in Nat
           /\ DOMAIN s = 1 .. Len(s)
           /\ Range(s) = {s[i] : i \in 1 .. Len(s)}
           /\ \A i \in 1 .. Len(s) : s[i] \in Range(s)
BY LenProperties, RangeEquality, ElementOfSeq DEF IsList

(* A function on 1 .. n is a list. *)
LEMMA MapIsList ==
    ASSUME NEW f, NEW n \in Nat, f = [i \in 1 .. n |-> f[i]]
    PROVE  IsList(f) /\ Len(f) = n
<1>1. DOMAIN f = 1 .. n  OBVIOUS
<1>2. f \in [1 .. n -> Range(f)]
  BY <1>1 DEF Range
<1>3. f \in Seq(Range(f))
  BY <1>2, SeqDef
<1> QED BY <1>1, <1>3, LenProperties DEF IsList

(* The empty list. *)
LEMMA EmptyIsList == IsList(<<>>) /\ Range(<<>>) = {} /\ Distinct(<<>>)
<1>1. <<>> \in Seq({}) BY EmptySeq
<1>2. DOMAIN <<>> = {} OBVIOUS
<1>3. Range(<<>>) = {} BY <1>2 DEF Range
<1> QED BY <1>1, <1>2, <1>3 DEF IsList, Distinct

(* Append. *)
LEMMA AppendList ==
    ASSUME NEW s, IsList(s), NEW x
    PROVE  /\ IsList(Append(s, x))
           /\ Range(Append(s, x)) = Range(s) \cup {x}
           /\ Len(Append(s, x)) = Len(s) + 1
           /\ \A i \in 1 .. Len(s) : Append(s, x)[i] = s[i]
           /\ Append(s, x)[Len(s) + 1] = x
<1> DEFINE S == Range(s) \cup {x}
<1>1. s \in Seq(S) /\ x \in S
  BY SeqMonotonic DEF IsList
<1> HIDE DEF S
<1> DEFINE t == Append(s, x)
<1>2. /\ t \in Seq(S)
      /\ Len(t) = Len(s) + 1
      /\ \A i \in 1 .. Len(s) : t[i] = s[i]
      /\ t[Len(s) + 1] = x
  BY <1>1, AppendProperties
<1> HIDE DEF t
<1>3. IsList(t)
  BY <1>2, SeqIsList
<1>4. Range(t) = Range(s) \cup {x}
  BY <1>2, <1>3, ListFacts
<1> QED BY <1>2, <1>3, <1>4 DEF t

(* Tail (the history at its limit). *)
LEMMA TailList ==
    ASSUME NEW s, IsList(s), s # <<>>
    PROVE  IsList(Tail(s)) /\ Range(Tail(s)) \subseteq Range(s)
<1>1. Tail(s) \in Seq(Range(s)) BY HeadTailProperties DEF IsList
<1> QED BY <1>1, SeqIsList

(* Front and Last (undo and redo). *)
LEMMA FrontList ==
    ASSUME NEW s, IsList(s), s # <<>>
    PROVE  IsList(Front(s)) /\ Range(Front(s)) \subseteq Range(s) /\ Last(s) \in Range(s)
<1>1. Len(s) \in Nat \ {0} BY EmptySeq DEF IsList
<1>2. \A i \in 1 .. Len(s) - 1 : s[i] \in Range(s) BY <1>1, ListFacts
<1>3. SubSeq(s, 1, Len(s) - 1) \in Seq(Range(s)) BY <1>1, <1>2, SubSeqProperties
<1>4. Last(s) \in Range(s) BY <1>1, ListFacts DEF Last
<1> QED BY <1>3, <1>4, SeqIsList DEF Front

(* A list of one. *)
LEMMA OneList ==
    ASSUME NEW x
    PROVE  IsList(<<x>>) /\ Range(<<x>>) = {x} /\ <<x>>[1] = x
<1>1. <<x>> \in Seq({x}) /\ Len(<<x>>) = 1 OBVIOUS
<1>2. IsList(<<x>>) BY <1>1, SeqIsList
<1>3. Range(<<x>>) = {x} BY <1>1, <1>2, ListFacts
<1> QED BY <1>2, <1>3

(* Concatenation. *)
LEMMA ConcatList ==
    ASSUME NEW s, NEW t, IsList(s), IsList(t)
    PROVE  /\ IsList(s \o t)
           /\ Range(s \o t) = Range(s) \cup Range(t)
           /\ Len(s \o t) = Len(s) + Len(t)
           /\ \A i \in 1 .. Len(s) + Len(t) : (s \o t)[i] = IF i <= Len(s) THEN s[i] ELSE t[i - Len(s)]
<1> DEFINE S == Range(s) \cup Range(t)
<1>1. s \in Seq(S) /\ t \in Seq(S)
  BY SeqMonotonic DEF IsList
<1> HIDE DEF S
<1>2. /\ s \o t \in Seq(S)
      /\ Len(s \o t) = Len(s) + Len(t)
      /\ \A i \in 1 .. Len(s) + Len(t) : (s \o t)[i] = IF i <= Len(s) THEN s[i] ELSE t[i - Len(s)]
  BY <1>1, ConcatProperties
<1>3. Range(s \o t) = Range(s) \cup Range(t)
  BY <1>1, RangeConcatenation
<1> QED BY <1>2, <1>3, SeqIsList

(* What is kept is a list of entries of s, told apart when those of s are. *)
LEMMA KeepAtList ==
    ASSUME NEW s, IsList(s), NEW places
    PROVE  /\ IsList(KeepAt(s, places))
           /\ Range(KeepAt(s, places)) = {s[i] : i \in places \cap (1 .. Len(s))}
           /\ Distinct(s) => Distinct(KeepAt(s, places))
<1> DEFINE t == KeepAt(s, places)
<1>1. /\ t \in Seq(Range(s))
      /\ \E at \in [1 .. Len(t) -> places \cap (1 .. Len(s))] :
            /\ \A i \in 1 .. Len(t) : t[i] = s[at[i]]
            /\ \A i, j \in 1 .. Len(t) : i < j => at[i] < at[j]
            /\ \A p \in places \cap (1 .. Len(s)) : \E i \in 1 .. Len(t) : at[i] = p
  BY KeepAtPlaces DEF IsList
<1> HIDE DEF t
<1>2. IsList(t) BY <1>1, SeqIsList
<1>3. PICK at \in [1 .. Len(t) -> places \cap (1 .. Len(s))] :
            /\ \A i \in 1 .. Len(t) : t[i] = s[at[i]]
            /\ \A i, j \in 1 .. Len(t) : i < j => at[i] < at[j]
            /\ \A p \in places \cap (1 .. Len(s)) : \E i \in 1 .. Len(t) : at[i] = p
  BY <1>1
<1>4. \A i \in 1 .. Len(t) : at[i] \in places \cap (1 .. Len(s))
  OBVIOUS
<1>5. Range(t) = {t[i] : i \in 1 .. Len(t)}
  BY <1>2, ListFacts
<1>6. Range(t) = {s[i] : i \in places \cap (1 .. Len(s))}
  <2>1. ASSUME NEW x \in Range(t) PROVE x \in {s[i] : i \in places \cap (1 .. Len(s))}
    <3>1. PICK i \in 1 .. Len(t) : x = t[i] BY <1>5, <2>1
    <3> QED BY <1>3, <1>4, <3>1
  <2>2. ASSUME NEW x \in {s[i] : i \in places \cap (1 .. Len(s))} PROVE x \in Range(t)
    <3>1. PICK p \in places \cap (1 .. Len(s)) : x = s[p] BY <2>2
    <3>2. PICK i \in 1 .. Len(t) : at[i] = p BY <1>3, <3>1
    <3>3. x = t[i] BY <1>3, <3>1, <3>2
    <3> QED BY <1>5, <3>2, <3>3
  <2> QED BY <2>1, <2>2
<1>7. Distinct(s) => Distinct(t)
  <2> SUFFICES ASSUME Distinct(s), NEW i \in DOMAIN t, NEW j \in DOMAIN t, i # j
               PROVE  t[i].id # t[j].id
    BY DEF Distinct
  <2>1. i \in 1 .. Len(t) /\ j \in 1 .. Len(t) /\ i \in Nat /\ j \in Nat
    BY <1>2, ListFacts
  <2>2. at[i] \in 1 .. Len(s) /\ at[j] \in 1 .. Len(s) /\ at[i] # at[j]
    <3>1. at[i] \in 1 .. Len(s) /\ at[j] \in 1 .. Len(s)
      BY <1>4, <2>1
    <3>2. CASE i < j
      BY <1>3, <2>1, <3>1, <3>2
    <3>3. CASE j < i
      BY <1>3, <2>1, <3>1, <3>3
    <3> QED BY <2>1, <3>1, <3>2, <3>3
  <2>3. at[i] \in DOMAIN s /\ at[j] \in DOMAIN s
    BY <2>2, ListFacts
  <2> QED BY <1>3, <2>1, <2>2, <2>3 DEF Distinct
<1> QED BY <1>2, <1>6, <1>7 DEF t

(* A fresh id at the end. *)
LEMMA DistinctAppend ==
    ASSUME NEW s, IsList(s), Distinct(s), NEW x, \A e \in Range(s) : e.id # x.id
    PROVE  Distinct(Append(s, x))
<1> DEFINE t == Append(s, x)
<1>1. /\ DOMAIN t = 1 .. Len(s) + 1 /\ Len(s) \in Nat
      /\ \A i \in 1 .. Len(s) : t[i] = s[i] /\ s[i] \in Range(s)
      /\ t[Len(s) + 1] = x
  BY AppendList, ListFacts
<1>2. DOMAIN s = 1 .. Len(s) BY ListFacts
<1> HIDE DEF t
<1>3. ASSUME NEW i \in DOMAIN t, NEW j \in DOMAIN t, i # j PROVE t[i].id # t[j].id
  <2>1. CASE i \in 1 .. Len(s) /\ j \in 1 .. Len(s)
    BY <1>1, <1>2, <1>3, <2>1 DEF Distinct
  <2>2. CASE i = Len(s) + 1 /\ j \in 1 .. Len(s)
    BY <1>1, <2>2
  <2>3. CASE j = Len(s) + 1 /\ i \in 1 .. Len(s)
    BY <1>1, <2>3
  <2> QED BY <1>1, <1>3, <2>1, <2>2, <2>3
<1> QED BY <1>3 DEF Distinct, t

(* A fresh id at the front. *)
LEMMA DistinctPrepend ==
    ASSUME NEW s, IsList(s), Distinct(s), NEW x, \A e \in Range(s) : e.id # x.id
    PROVE  Distinct(<<x>> \o s)
<1> DEFINE t == <<x>> \o s
<1>1. IsList(<<x>>) /\ Len(<<x>>) = 1 /\ <<x>>[1] = x BY OneList
<1>2. /\ DOMAIN t = 1 .. 1 + Len(s) /\ Len(s) \in Nat
      /\ \A i \in 1 .. 1 + Len(s) : t[i] = IF i <= 1 THEN <<x>>[i] ELSE s[i - 1]
  <2>1. IsList(t) /\ Len(t) = 1 + Len(s) BY <1>1, ConcatList
  <2>2. Len(s) \in Nat BY ListFacts
  <2> QED BY <1>1, <2>1, <2>2, ListFacts, ConcatList
<1>3. DOMAIN s = 1 .. Len(s) /\ \A i \in 1 .. Len(s) : s[i] \in Range(s) BY ListFacts
<1> HIDE DEF t
<1>4. t[1] = x /\ \A i \in 2 .. 1 + Len(s) : t[i] = s[i - 1] /\ i - 1 \in DOMAIN s /\ s[i - 1] \in Range(s)
  BY <1>1, <1>2, <1>3
<1>5. ASSUME NEW i \in DOMAIN t, NEW j \in DOMAIN t, i # j PROVE t[i].id # t[j].id
  <2>1. CASE i \in 2 .. 1 + Len(s) /\ j \in 2 .. 1 + Len(s)
    <3>1. i - 1 # j - 1 BY <1>5, <2>1
    <3> QED BY <1>4, <2>1, <3>1 DEF Distinct
  <2>2. CASE i = 1 /\ j \in 2 .. 1 + Len(s)
    BY <1>4, <2>2
  <2>3. CASE j = 1 /\ i \in 2 .. 1 + Len(s)
    BY <1>4, <2>3
  <2> QED BY <1>2, <1>5, <2>1, <2>2, <2>3
<1> QED BY <1>5 DEF Distinct, t

(* Entries replaced by entries with the same ids. *)
LEMMA DistinctSame ==
    ASSUME NEW s, NEW t, DOMAIN t = DOMAIN s, \A i \in DOMAIN s : t[i].id = s[i].id, Distinct(s)
    PROVE  Distinct(t)
BY DEF Distinct

(* One entry taken out of a list: the later ones move up. *)
LEMMA RemoveAtList ==
    ASSUME NEW s, IsList(s), NEW at \in DOMAIN s
    PROVE  /\ IsList(RemoveAt(s, at)) /\ RemoveAt(s, at) \in Seq(Range(s))
           /\ Len(RemoveAt(s, at)) = Len(s) - 1
           /\ Range(RemoveAt(s, at)) \subseteq Range(s)
           /\ \A i \in 1 .. Len(s) - 1 : RemoveAt(s, at)[i] = IF i < at THEN s[i] ELSE s[i + 1]
<1> DEFINE n == Len(s)
           S == Range(s)
<1>0. n \in Nat /\ DOMAIN s = 1 .. n /\ \A i \in 1 .. n : s[i] \in S
  BY ListFacts
<1>1. at \in 1 .. n /\ n >= 1 BY <1>0
<1> HIDE DEF S, n
<1> DEFINE a == SubSeq(s, 1, at - 1)
           b == SubSeq(s, at + 1, n)
           r == a \o b
<1>2. a \in Seq(S) /\ Len(a) = at - 1 /\ \A i \in 1 .. at - 1 : a[i] = s[i]
  <2>1. \A i \in 1 .. at - 1 : s[i] \in S BY <1>0, <1>1
  <2>2. at - 1 \in Int /\ 1 \in Int BY <1>1
  <2> QED BY <2>1, <2>2, <1>1, SubSeqProperties
<1>3. b \in Seq(S) /\ Len(b) = n - at /\ \A i \in 1 .. n - at : b[i] = s[at + i]
  <2>1. \A i \in at + 1 .. n : s[i] \in S BY <1>0, <1>1
  <2>2. at + 1 \in Int /\ n \in Int BY <1>0, <1>1
  <2>3. /\ b \in Seq(S)
        /\ Len(b) = IF at + 1 <= n THEN n - (at + 1) + 1 ELSE 0
        /\ \A i \in 1 .. n - (at + 1) + 1 : b[i] = s[(at + 1) + i - 1]
    BY <2>1, <2>2, SubSeqProperties
  <2> HIDE DEF b
  <2>4. n - (at + 1) + 1 = n - at /\ \A i \in 1 .. n - at : (at + 1) + i - 1 = at + i
    BY <1>0, <1>1
  <2>5. Len(b) = n - at BY <2>3, <1>0, <1>1
  <2>6. \A i \in 1 .. n - at : b[i] = s[at + i] BY <2>3, <2>4
  <2> QED BY <2>3, <2>5, <2>6
<1> HIDE DEF a, b
<1>4. /\ r \in Seq(S) /\ Len(r) = n - 1
      /\ \A i \in 1 .. n - 1 : r[i] = IF i < at THEN s[i] ELSE s[i + 1]
  <2>1. /\ r \in Seq(S)
        /\ Len(r) = Len(a) + Len(b)
        /\ \A i \in 1 .. Len(a) + Len(b) : r[i] = IF i <= Len(a) THEN a[i] ELSE b[i - Len(a)]
    BY <1>2, <1>3, ConcatProperties
  <2> HIDE DEF r
  <2>2. Len(r) = n - 1 BY <2>1, <1>0, <1>1, <1>2, <1>3
  <2>3. ASSUME NEW i \in 1 .. n - 1 PROVE r[i] = IF i < at THEN s[i] ELSE s[i + 1]
    <3>1. CASE i < at
      BY <3>1, <2>1, <1>0, <1>1, <1>2, <1>3
    <3>2. CASE i >= at
      <4>1. i - (at - 1) \in 1 .. n - at /\ ~(i <= at - 1) /\ at + (i - (at - 1)) = i + 1
        BY <3>2, <1>0, <1>1
      <4>2. i \in 1 .. Len(a) + Len(b) /\ ~(i <= Len(a))
        BY <4>1, <1>0, <1>1, <1>2, <1>3
      <4>3. r[i] = b[i - Len(a)] BY <2>1, <4>2
      <4>4. b[i - Len(a)] = s[at + (i - (at - 1))] BY <4>1, <1>2, <1>3
      <4>5. ~(i < at) BY <3>2, <1>1
      <4> QED BY <4>1, <4>3, <4>4, <4>5
    <3> QED BY <3>1, <3>2, <1>0, <1>1
  <2> QED BY <2>1, <2>2, <2>3
<1>5. r = RemoveAt(s, at) BY DEF RemoveAt, r, a, b, n
<1> HIDE DEF r
<1>6. IsList(r) /\ Range(r) \subseteq S BY <1>4, SeqIsList
<1> QED BY <1>4, <1>5, <1>6 DEF n, S

(* An entry taken out at one place and put in at another (RuleOrder): a
   permutation of the list. *)
LEMMA MoveList ==
    ASSUME NEW s, IsList(s), Distinct(s), NEW from \in DOMAIN s, NEW to \in DOMAIN s
    PROVE  /\ IsList(InsertAt(RemoveAt(s, from), to, s[from]))
           /\ Range(InsertAt(RemoveAt(s, from), to, s[from])) \subseteq Range(s)
           /\ Distinct(InsertAt(RemoveAt(s, from), to, s[from]))
<1> DEFINE n == Len(s)
           S == Range(s)
<1>0. n \in Nat /\ DOMAIN s = 1 .. n /\ \A i \in 1 .. n : s[i] \in S
  BY ListFacts
<1>1. from \in 1 .. n /\ to \in 1 .. n /\ n >= 1 BY <1>0
<1> HIDE DEF S, n
<1> DEFINE r == RemoveAt(s, from)
<1>4. /\ r \in Seq(S) /\ Len(r) = n - 1
      /\ \A i \in 1 .. n - 1 : r[i] = IF i < from THEN s[i] ELSE s[i + 1]
  BY RemoveAtList DEF n, S
<1> HIDE DEF r
<1> DEFINE x == s[from]
           c == SubSeq(r, 1, to - 1)
           d == SubSeq(r, to, n - 1)
           e == c \o <<x>>
           t == e \o d
<1>6. c \in Seq(S) /\ Len(c) = to - 1 /\ \A i \in 1 .. to - 1 : c[i] = r[i]
  <2>1. \A i \in 1 .. to - 1 : r[i] \in S BY <1>0, <1>1, <1>4, ElementOfSeq
  <2>2. to - 1 \in Int /\ 1 \in Int BY <1>1
  <2>3. /\ c \in Seq(S)
        /\ Len(c) = IF 1 <= to - 1 THEN (to - 1) - 1 + 1 ELSE 0
        /\ \A i \in 1 .. (to - 1) - 1 + 1 : c[i] = r[1 + i - 1]
    BY <2>1, <2>2, SubSeqProperties
  <2> HIDE DEF c
  <2> QED BY <2>3, <1>1
<1>7. d \in Seq(S) /\ Len(d) = n - to /\ \A i \in 1 .. n - to : d[i] = r[to + i - 1]
  <2>1. \A i \in to .. n - 1 : r[i] \in S BY <1>0, <1>1, <1>4, ElementOfSeq
  <2>2. to \in Int /\ n - 1 \in Int BY <1>0, <1>1
  <2>3. /\ d \in Seq(S)
        /\ Len(d) = IF to <= n - 1 THEN (n - 1) - to + 1 ELSE 0
        /\ \A i \in 1 .. (n - 1) - to + 1 : d[i] = r[to + i - 1]
    BY <2>1, <2>2, SubSeqProperties
  <2> HIDE DEF d
  <2> QED BY <2>3, <1>0, <1>1
<1> HIDE DEF c, d
<1>8. x \in S /\ <<x>> \in Seq(S) /\ Len(<<x>>) = 1 /\ <<x>>[1] = x
  BY <1>0, <1>1
<1> HIDE DEF x
<1>9. /\ e \in Seq(S) /\ Len(e) = to
      /\ \A i \in 1 .. to - 1 : e[i] = r[i]
      /\ e[to] = x
  <2>1. /\ e \in Seq(S)
        /\ Len(e) = Len(c) + 1
        /\ \A i \in 1 .. Len(c) + 1 : e[i] = IF i <= Len(c) THEN c[i] ELSE <<x>>[i - Len(c)]
    BY <1>6, <1>8, ConcatProperties
  <2> HIDE DEF e
  <2>2. \A i \in 1 .. to - 1 : e[i] = c[i] BY <2>1, <1>6, <1>1
  <2>3. to \in 1 .. Len(c) + 1 /\ ~(to <= Len(c)) /\ to - Len(c) = 1 BY <1>6, <1>1
  <2>4. e[to] = x BY <2>1, <2>3, <1>8
  <2>5. Len(e) = to BY <2>1, <1>6, <1>1
  <2> QED BY <2>1, <2>2, <2>4, <2>5, <1>6
<1> HIDE DEF e
<1>10. /\ t \in Seq(S) /\ Len(t) = n
       /\ \A i \in 1 .. to - 1 : t[i] = r[i]
       /\ t[to] = x
       /\ \A i \in to + 1 .. n : t[i] = r[i - 1]
  <2>1. /\ t \in Seq(S)
        /\ Len(t) = Len(e) + Len(d)
        /\ \A i \in 1 .. Len(e) + Len(d) : t[i] = IF i <= Len(e) THEN e[i] ELSE d[i - Len(e)]
    BY <1>7, <1>9, ConcatProperties
  <2> HIDE DEF t
  <2>2. Len(t) = n BY <2>1, <1>0, <1>1, <1>7, <1>9
  <2>3. \A i \in 1 .. to : t[i] = e[i] BY <2>1, <1>0, <1>1, <1>7, <1>9
  <2>4. ASSUME NEW i \in to + 1 .. n PROVE t[i] = r[i - 1]
    <3>1. i - to \in 1 .. n - to /\ to + (i - to) - 1 = i - 1 /\ ~(i <= to) /\ i \in 1 .. n
      BY <1>0, <1>1
    <3>2. i \in 1 .. Len(e) + Len(d) /\ ~(i <= Len(e)) /\ i - Len(e) = i - to
      BY <3>1, <1>0, <1>1, <1>7, <1>9
    <3>3. t[i] = d[i - to] BY <2>1, <3>2
    <3> QED BY <3>1, <3>3, <1>7
  <2>5. \A i \in 1 .. to - 1 : t[i] = r[i] BY <2>3, <1>9, <1>1
  <2>6. t[to] = x BY <2>3, <1>9, <1>1
  <2> QED BY <2>1, <2>2, <2>4, <2>5, <2>6
<1>11. t = InsertAt(RemoveAt(s, from), to, s[from])
  BY <1>4 DEF InsertAt, r, t, e, c, d, x
<1> HIDE DEF t
<1> DEFINE back(k) == IF k < from THEN k ELSE k + 1
           was == [i \in 1 .. n |-> IF i = to THEN from ELSE IF i < to THEN back(i) ELSE back(i - 1)]
<1>12. \A i \in 1 .. n : was[i] \in 1 .. n
  BY <1>0, <1>1
<1>13. \A i, j \in 1 .. n : i # j => was[i] # was[j]
  BY <1>0, <1>1
<1>14. \A i \in 1 .. n : t[i] = s[was[i]]
  <2> SUFFICES ASSUME NEW i \in 1 .. n PROVE t[i] = s[was[i]]
    OBVIOUS
  <2>1. CASE i = to
    BY <2>1, <1>10, <1>1 DEF x
  <2>2. CASE i < to
    <3>1. i \in 1 .. to - 1 /\ i \in 1 .. n - 1 BY <2>2, <1>0, <1>1
    <3>2. t[i] = IF i < from THEN s[i] ELSE s[i + 1] BY <3>1, <1>10, <1>4
    <3>3. was[i] = IF i < from THEN i ELSE i + 1 BY <2>2, <1>0, <1>1
    <3> QED BY <3>2, <3>3
  <2>3. CASE i > to
    <3>1. i \in to + 1 .. n /\ i - 1 \in 1 .. n - 1 BY <2>3, <1>0, <1>1
    <3>2. t[i] = IF i - 1 < from THEN s[i - 1] ELSE s[(i - 1) + 1] BY <3>1, <1>10, <1>4
    <3>3. was[i] = IF i - 1 < from THEN i - 1 ELSE (i - 1) + 1 BY <2>3, <1>0, <1>1
    <3> QED BY <3>2, <3>3
  <2> QED BY <2>1, <2>2, <2>3, <1>1
<1> HIDE DEF was
<1>15. IsList(t) /\ Range(t) \subseteq S BY <1>10, SeqIsList
<1>16. DOMAIN t = 1 .. n BY <1>15, <1>10, ListFacts
<1>17. Distinct(t)
  <2> SUFFICES ASSUME NEW i \in DOMAIN t, NEW j \in DOMAIN t, i # j PROVE t[i].id # t[j].id
    BY DEF Distinct
  <2>1. was[i] \in DOMAIN s /\ was[j] \in DOMAIN s /\ was[i] # was[j]
    BY <1>0, <1>12, <1>13, <1>16
  <2>2. t[i] = s[was[i]] /\ t[j] = s[was[j]] BY <1>14, <1>16
  <2> QED BY <2>1, <2>2 DEF Distinct
<1> QED BY <1>11, <1>15, <1>17 DEF S

(* As many ids as entries. *)
LEMMA DistinctCount ==
    ASSUME NEW s, IsList(s), Distinct(s)
    PROVE  Cardinality({s[i].id : i \in DOMAIN s}) = Len(s)
<1> DEFINE D == 1 .. Len(s)
           T == {s[i].id : i \in D}
           f == [i \in D |-> s[i].id]
<1>1. Len(s) \in Nat /\ DOMAIN s = D BY ListFacts
<1>2. IsFiniteSet(D) /\ Cardinality(D) = Len(s)
  <2> HIDE DEF D
  <2>1. 1 \in Int /\ Len(s) \in Int BY <1>1
  <2>2. IsFiniteSet(1 .. Len(s)) /\ Cardinality(1 .. Len(s)) = IF 1 > Len(s) THEN 0 ELSE Len(s) - 1 + 1
    BY <2>1, FS_Interval
  <2> QED BY <1>1, <2>2 DEF D
<1>3. \A i \in D : f[i] = s[i].id OBVIOUS
<1>4. f \in [D -> T] OBVIOUS
<1>5. \A i, j \in D : i # j => f[i] # f[j]
  BY <1>1, <1>3 DEF Distinct
<1>6. \A x \in T : \E i \in D : f[i] = x
  OBVIOUS
<1> HIDE DEF D, T, f
<1>7. f \in Bijection(D, T)
  BY <1>4, <1>5, <1>6 DEF Bijection, Injection, Surjection, IsInjective
<1>8. Cardinality(T) = Cardinality(D)
  BY <1>2, <1>7, FS_Bijection DEF ExistsBijection
<1> QED BY <1>1, <1>2, <1>8 DEF T

=============================================================================
