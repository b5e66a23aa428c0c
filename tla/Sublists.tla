------------------------------ MODULE Sublists ------------------------------
(***************************************************************************)
(* JavaScript's filter on a list, by the places it keeps.  It is SelectSeq *)
(* written as a recursive function of the length, the form the proofs of   *)
(* SublistProofs can unfold.                                               *)
(***************************************************************************)
EXTENDS Naturals, Sequences, Functions

(* The entries of s at the given places, in their order. *)
KeepAt(s, places) ==
    LET kept[n \in 0 .. Len(s)] ==
          IF n = 0 THEN <<>>
          ELSE IF n \in places THEN Append(kept[n - 1], s[n]) ELSE kept[n - 1]
    IN  kept[Len(s)]

(* s is a list, of whatever entries, and no two of them share an id. *)
IsList(s) == s \in Seq(Range(s))
Distinct(s) == \A i, j \in DOMAIN s : i # j => s[i].id # s[j].id

=============================================================================
