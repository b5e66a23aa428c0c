------------------------------ MODULE CoreSlot ------------------------------
(***************************************************************************)
(* What the privileged service promises about cores, and all that its      *)
(* callers rely on: there is one slot, a core enters it only when it is    *)
(* empty, and leaving it always makes it empty first.  A caller can        *)
(* therefore switch profiles or cores with a start alone ("Any previously  *)
(* running instance is stopped first").                                    *)
(***************************************************************************)
CONSTANTS Core, NoCore

VARIABLE slot

Init == slot = NoCore

Enter(c) == slot = NoCore /\ slot' = c
Leave == slot # NoCore /\ slot' = NoCore

Next == Leave \/ \E c \in Core : Enter(c)

Spec == Init /\ [][Next]_slot
=============================================================================
