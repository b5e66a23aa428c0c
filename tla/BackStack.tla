----------------------------- MODULE BackStack -----------------------------
(***************************************************************************)
(* Android's Back gesture (lib/back.ts): what Back should close pushes an  *)
(* entry of the WebView's history, and Back popping that entry calls its   *)
(* handler.  Going back in the history is asynchronous: history.back()     *)
(* only asks for it, and the popstate event comes later, with nothing to   *)
(* tell the user's Back from the one the code asked for.  ownPops counts   *)
(* the latter.                                                             *)
(*                                                                         *)
(* A tab or a settings page holds its entry while it is open.  A dialog or *)
(* a sheet holds one while the component around its content is rendered    *)
(* (ui/dialog.tsx, ui/sheet.tsx), and its handler sends Escape: that goes  *)
(* to whichever dialog is topmost, and it may not close.                   *)
(***************************************************************************)
EXTENDS Integers, Sequences, FiniteSets

CONSTANTS
    Pages,      \* what calls useBack itself: a tab, a settings page
    Passing,    \* dialogs rendered only while they are open
    Standing,   \* dialogs and sheets rendered with their screen, open or not
    MaxTaps     \* bound: openings, closings and Backs by the user

ASSUME MaxTapsAssumption == MaxTaps \in Nat

VARIABLES
    open,       \* the dialogs that are open, the topmost last
    rendered,   \* what is rendered, with useBack's effect in force
    stack,      \* the module's stack, oldest first
    ownPops,    \* its count of pops that are no Back
    depth,      \* entries of the history above the page itself
    backs,      \* history.back() calls that have not run
    pops,       \* popstate events that have not been handled
    spent,      \* ghost: what a Back has run the handler of since it registered
    due,        \* ghost: the user's Backs less the handlers run
    taps        \* user steps so far, against MaxTaps

historyOfWindow == <<depth, pops>>
backVars == <<open, rendered, stack, ownPops, historyOfWindow, backs, spent, due, taps>>

Dialogs == Passing \cup Standing
Things == Pages \cup Dialogs

Holds(s, x) == \E i \in 1..Len(s) : s[i] = x
Without(s, i) == [j \in 1..(Len(s) - 1) |-> IF j < i THEN s[j] ELSE s[j + 1]]
Less(s, x) == IF Holds(s, x) THEN Without(s, CHOOSE i \in 1..Len(s) : s[i] = x) ELSE s

Tap == taps < MaxTaps /\ taps' = taps + 1

-----------------------------------------------------------------------------
(* useBack's effect: rendered, or active by now. *)
Registers(x) ==
    /\ Tap /\ x \in Things \ rendered
    /\ rendered' = rendered \cup {x} /\ stack' = Append(stack, x)
    /\ depth' = depth + 1
    /\ open' = IF x \in Passing THEN Append(open, x) ELSE open
    /\ spent' = spent \ {x}
    /\ UNCHANGED <<ownPops, backs, pops, due>>

(* Mutant: the pop of its own is not counted. *)
CleanupUncounted(x, rest) ==
    /\ rendered' = rendered \ {x}
    /\ stack' = Less(rest, x)
    /\ backs' = IF Holds(rest, x) THEN backs + 1 ELSE backs
    /\ UNCHANGED ownPops

(* Its cleanup, with "rest" on the stack: an entry that is still there is taken
   back; Back took the others. *)
Cleanup(x, rest) ==
    /\ rendered' = rendered \ {x}
    /\ stack' = Less(rest, x)
    /\ IF Holds(rest, x) THEN ownPops' = ownPops + 1 /\ backs' = backs + 1
       ELSE UNCHANGED <<ownPops, backs>>

(* Closed in some other way, or its screen is left. *)
Unregisters(x) ==
    /\ Tap /\ x \in rendered
    /\ Cleanup(x, stack)
    /\ open' = Less(open, x)
    /\ UNCHANGED <<historyOfWindow, spent, due>>

(* A dialog that is rendered all the time is opened and closed without the
   effect running. *)
Shows(x) ==
    /\ Tap /\ x \in Standing \cap rendered /\ ~Holds(open, x)
    /\ open' = Append(open, x)
    /\ UNCHANGED <<rendered, stack, ownPops, historyOfWindow, backs, spent, due>>

Hides(x) ==
    /\ Tap /\ x \in Standing /\ Holds(open, x)
    /\ open' = Less(open, x)
    /\ UNCHANGED <<rendered, stack, ownPops, historyOfWindow, backs, spent, due>>

-----------------------------------------------------------------------------
(* The history goes back one entry, for the user or for a pending call; at the
   page itself a call does nothing, and the user's Back leaves the app. *)
UserBack ==
    /\ Tap /\ depth > 0
    /\ depth' = depth - 1 /\ pops' = pops + 1 /\ due' = due + 1
    /\ UNCHANGED <<open, rendered, stack, ownPops, backs, spent>>

BackRuns ==
    /\ backs > 0 /\ backs' = backs - 1
    /\ IF depth > 0 THEN depth' = depth - 1 /\ pops' = pops + 1
                    ELSE UNCHANGED historyOfWindow
    /\ UNCHANGED <<open, rendered, stack, ownPops, spent, due, taps>>

(* x's handler.  A page's closes it, whose cleanup then finds the entry gone,
   unless another choice of the user overtakes the transition.  A dialog's is
   Escape, which closes the topmost dialog, x or not; nothing is closed when
   none is open, a busy one ignores it, or a menu in it takes it. *)
Handler(x, rest) ==
    /\ spent' = spent \cup {x} /\ due' = due - 1
    /\ \/ stack' = rest /\ UNCHANGED <<open, rendered, ownPops, backs>>
       \/ x \in Pages /\ Cleanup(x, rest) /\ UNCHANGED open
       \/ /\ x \in Dialogs /\ open # <<>>
          /\ open' = Without(open, Len(open))
          /\ IF open[Len(open)] \in Passing THEN Cleanup(open[Len(open)], rest)
             ELSE stack' = rest /\ UNCHANGED <<rendered, ownPops, backs>>

(* The popstate listener. *)
PopState ==
    /\ pops > 0 /\ pops' = pops - 1
    /\ \/ /\ ownPops > 0 \/ stack = <<>>
          /\ ownPops' = IF ownPops > 0 THEN ownPops - 1 ELSE 0
          /\ UNCHANGED <<open, rendered, stack, backs, spent, due>>
       \/ /\ ownPops = 0 /\ stack # <<>>
          /\ Handler(stack[Len(stack)], Without(stack, Len(stack)))
    /\ UNCHANGED <<depth, taps>>

BackInit ==
    /\ open = <<>> /\ rendered = {} /\ stack = <<>> /\ ownPops = 0
    /\ depth = 0 /\ backs = 0 /\ pops = 0 /\ spent = {} /\ due = 0 /\ taps = 0

BackNext ==
    \/ \E x \in Things : Registers(x) \/ Unregisters(x)
    \/ \E x \in Standing : Shows(x) \/ Hides(x)
    \/ UserBack \/ BackRuns \/ PopState

BackSpec == BackInit /\ [][BackNext]_backVars

-----------------------------------------------------------------------------
BackTypeOK ==
    /\ open \in Seq(Dialogs) /\ rendered \subseteq Things /\ stack \in Seq(Things)
    /\ ownPops \in Nat /\ depth \in Nat /\ backs \in Nat /\ pops \in Nat
    /\ spent \subseteq Things /\ due \in Int /\ taps \in Nat

(* The entries above the page and the popstates on their way pay for the stack
   and for the pops the code owes; it owes no more than are on their way, and
   the others on their way are the user's. *)
Balanced == depth + pops = Len(stack) + ownPops
Owed == ownPops <= backs + pops /\ backs + pops <= ownPops + due

(* The entries are of what is rendered, each thing once, and only a Back has
   taken one away. *)
EntriesStand ==
    /\ \A i \in 1..Len(stack) : stack[i] \in rendered
    /\ \A i, j \in 1..Len(stack) : stack[i] = stack[j] => i = j
    /\ \A x \in rendered \ spent : Holds(stack, x)

BackInv == BackTypeOK /\ Balanced /\ Owed /\ EntriesStand

(***************************************************************************)
(* Whatever registers, closes and goes back in whatever order, once the    *)
(* history has caught up it has exactly one entry for each thing that is   *)
(* registered and whose handler no Back has run yet, and the module owes   *)
(* no pop; and no handler ever runs but for a Back of the user, one for    *)
(* each at most, however the pops the code asks for mix with them.         *)
(***************************************************************************)
BackMatches ==
    /\ backs = 0 /\ pops = 0 =>
          /\ depth = Len(stack) /\ ownPops = 0
          /\ \A x \in rendered \ spent : \E i \in 1..depth : stack[i] = x
    /\ due >= 0

=============================================================================
