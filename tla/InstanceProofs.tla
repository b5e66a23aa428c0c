--------------------------- MODULE InstanceProofs ---------------------------
(***************************************************************************)
(* Proofs about Instance for any set of goroutines and any platform: the   *)
(* inductive invariant, the safety properties that follow from it, and the *)
(* refinement of CoreSlot.                                                 *)
(***************************************************************************)
EXTENDS Instance, TLAPS

LEMMA InitIInv == Init => IInv
<1> SUFFICES ASSUME Init PROVE IInv
  OBVIOUS
<1>1. TypeOK
  BY DEF Init, TypeOK, Labels, Cores, AltCores
<1>2. MutexInv
  BY NoProcAssumption DEF Init, MutexInv, Holder
<1>3. ShapeInv /\ NothingLeaks
  BY DEF Init, ShapeInv, NothingLeaks
<1>4. \A p \in Procs : AtLabel(p)
  BY DEF Init, AtLabel
<1> QED
  BY <1>1, <1>2, <1>3, <1>4 DEF IInv

\* Every action but Lock is taken by the holder of the mutex.
LEMMA StepHolds ==
  ASSUME IInv, NEW p \in Procs, Step(p)
  PROVE  /\ mu = p
         /\ \A q \in Procs \ {p} : pc[q] = "idle"
  BY DEF IInv, TypeOK, MutexInv, Holder, Step, StopLockedAlt, CloseAlt,
         StopLockedBuiltin, CloseBox, CloseEngine, LaunchFails, CanLaunch,
         LaunchBuiltin, LaunchAlt, LaunchXray, BuiltinOverXray,
         BuiltinOverXrayFails, UndoXray, RecordEngine, Unlock

\* The part of the inductive invariant about the goroutine that moves.
LEMMA HolderFacts ==
  ASSUME IInv, NEW p \in Procs
  PROVE  TypeOK /\ ShapeInv /\ AtLabel(p)
  BY DEF IInv

LEMMA StepType ==
  ASSUME IInv, NEW p \in Procs, Step(p)
  PROVE  TypeOK'
<1>1. TypeOK /\ AtLabel(p)
  BY HolderFacts
<1>2. pc \in [Procs -> Labels] /\ failed \in [Procs -> BOOLEAN]
  BY <1>1 DEF TypeOK
<1>3. pc' \in [Procs -> Labels]
  <2>1. \E l \in Labels : Goto(p, l)
    BY DEF Step, StopLockedAlt, CloseAlt, StopLockedBuiltin, CloseBox,
           CloseEngine, LaunchFails, LaunchBuiltin, LaunchAlt, LaunchXray,
           BuiltinOverXray, BuiltinOverXrayFails, UndoXray, RecordEngine,
           Unlock, Labels
  <2> QED
    BY <1>2, <2>1 DEF Goto
<1>4. failed' \in [Procs -> BOOLEAN]
  <2>1. UNCHANGED failed \/ Fail(p)
    BY DEF Step, StopLockedAlt, CloseAlt, StopLockedBuiltin, CloseBox,
           CloseEngine, LaunchFails, LaunchBuiltin, LaunchAlt, LaunchXray,
           BuiltinOverXray, BuiltinOverXrayFails, UndoXray, RecordEngine,
           Unlock
  <2> QED
    BY <1>2, <2>1 DEF Fail
<1>5. mu' \in Procs \cup {NoProc} /\ op' = op
  BY <1>1 DEF TypeOK, Step, StopLockedAlt, CloseAlt, StopLockedBuiltin,
     CloseBox, CloseEngine, LaunchFails, LaunchBuiltin, LaunchAlt, LaunchXray,
     BuiltinOverXray, BuiltinOverXrayFails, UndoXray, RecordEngine, Unlock
<1>6. /\ instance' \in BOOLEAN /\ alt' \in AltCores \cup {"none"}
      /\ engine' \in BOOLEAN /\ viaEngine' \in BOOLEAN
  BY <1>1 DEF TypeOK, Step, StopLockedAlt, CloseAlt, StopLockedBuiltin,
     CloseBox, CloseEngine, LaunchFails, CanLaunch, LaunchBuiltin, LaunchAlt,
     LaunchXray, BuiltinOverXray, BuiltinOverXrayFails, UndoXray,
     RecordEngine, Unlock, refs, alive
<1>7. boxes' \in Nat /\ alts' \in Nat /\ engines' \in Nat
  BY <1>1 DEF TypeOK, AtLabel, Alive, One, Step, StopLockedAlt, CloseAlt,
     StopLockedBuiltin, CloseBox, CloseEngine, LaunchFails, LaunchBuiltin,
     LaunchAlt, LaunchXray, BuiltinOverXray, BuiltinOverXrayFails, UndoXray,
     RecordEngine, Unlock, refs, alive
<1> QED
  BY <1>1, <1>3, <1>4, <1>5, <1>6, <1>7 DEF TypeOK

\* Where the mover goes, and that it is the only one away from "idle".
LEMMA StepMutex ==
  ASSUME IInv, NEW p \in Procs, Step(p)
  PROVE  MutexInv'
<1>1. mu = p /\ \A q \in Procs \ {p} : pc[q] = "idle"
  BY StepHolds
<1>2. pc \in [Procs -> Labels]
  BY DEF IInv, TypeOK
<1>3. CASE Unlock(p)
  BY <1>1, <1>2, <1>3, NoProcAssumption DEF Unlock, Goto, MutexInv, Holder
<1>4. CASE ~Unlock(p)
  <2>1. mu' = mu /\ \E l \in Labels \ {"idle"} : Goto(p, l)
    BY <1>4 DEF Step, StopLockedAlt, CloseAlt, StopLockedBuiltin, CloseBox,
           CloseEngine, LaunchFails, LaunchBuiltin, LaunchAlt, LaunchXray,
           BuiltinOverXray, BuiltinOverXrayFails, UndoXray, RecordEngine,
           Labels
  <2> QED
    BY <1>1, <1>2, <2>1 DEF Goto, MutexInv, Holder
<1> QED
  BY <1>3, <1>4

\* The accounting of the mover: one case per action.
LEMMA StepLabel ==
  ASSUME IInv, NEW p \in Procs, Step(p)
  PROVE  AtLabel(p)' /\ ShapeInv' /\ NothingLeaks'
<1>1. TypeOK /\ ShapeInv /\ AtLabel(p)
  BY HolderFacts
<1>2. mu = p /\ p # NoProc
  BY StepHolds, NoProcAssumption
<1> USE <1>1, <1>2 DEF TypeOK, ShapeInv, NothingLeaks, AtLabel, Goto, Fail,
      Alive, One, AllReferred, NoCoreReferred, NothingReferred, refs, alive
<1>3. CASE StopLockedAlt(p)
  BY <1>3 DEF StopLockedAlt
<1>4. CASE CloseAlt(p)
  <2>1. NothingReferred' /\ Alive(0, 0, 0)' /\ ~viaEngine'
    BY <1>4 DEF CloseAlt
  <2>2. pc'[p] \in {"unlock", "launch"} /\ mu' = mu
    BY <1>4 DEF CloseAlt
  <2>3. pc'[p] = "launch" => op'[p] # "stop" /\ ~failed'[p]
    BY <1>4 DEF CloseAlt
  <2> QED
    BY <2>1, <2>2, <2>3
<1>5. CASE StopLockedBuiltin(p)
  BY <1>5 DEF StopLockedBuiltin
<1>6. CASE CloseBox(p)
  BY <1>6 DEF CloseBox
<1>7. CASE CloseEngine(p)
  BY <1>7 DEF CloseEngine
<1>8. CASE LaunchFails(p)
  BY <1>8 DEF LaunchFails
<1>9. CASE LaunchBuiltin(p)
  BY <1>9 DEF LaunchBuiltin, CanLaunch, AltCores
<1>10. CASE LaunchAlt(p)
  BY <1>10 DEF LaunchAlt, CanLaunch, AltCores
<1>11. CASE LaunchXray(p)
  BY <1>11 DEF LaunchXray, CanLaunch, AltCores
<1>12. CASE BuiltinOverXray(p)
  BY <1>12 DEF BuiltinOverXray
<1>13. CASE BuiltinOverXrayFails(p)
  BY <1>13 DEF BuiltinOverXrayFails
<1>14. CASE UndoXray(p)
  BY <1>14 DEF UndoXray
<1>15. CASE RecordEngine(p)
  BY <1>15 DEF RecordEngine
<1>16. CASE Unlock(p)
  BY <1>16 DEF Unlock
<1> QED
  BY <1>3, <1>4, <1>5, <1>6, <1>7, <1>8, <1>9, <1>10, <1>11, <1>12, <1>13, <1>14, <1>15, <1>16 DEF Step

LEMMA StepIInv ==
  ASSUME IInv, NEW p \in Procs, Step(p)
  PROVE  IInv'
<1>1. \A q \in Procs \ {p} : pc'[q] = "idle"
  <2>1. \E l \in Labels : Goto(p, l)
    BY DEF Step, StopLockedAlt, CloseAlt, StopLockedBuiltin, CloseBox,
           CloseEngine, LaunchFails, LaunchBuiltin, LaunchAlt, LaunchXray,
           BuiltinOverXray, BuiltinOverXrayFails, UndoXray, RecordEngine,
           Unlock, Labels
  <2>2. pc \in [Procs -> Labels]
    BY DEF IInv, TypeOK
  <2> QED
    BY StepHolds, <2>1, <2>2 DEF Goto
<1>2. \A q \in Procs \ {p} : AtLabel(q)'
  BY <1>1 DEF AtLabel
<1> QED
  BY <1>2, StepType, StepMutex, StepLabel DEF IInv

LEMMA LockIInv ==
  ASSUME IInv, NEW p \in Procs, NEW o \in Cores \cup {"stop"}, Lock(p, o)
  PROVE  IInv'
  BY NoProcAssumption
  DEF IInv, TypeOK, MutexInv, Holder, ShapeInv, NothingLeaks, AtLabel, Labels,
      Cores, AltCores, Goto, Lock, Alive, One, AllReferred, NoCoreReferred,
      NothingReferred, refs, alive

LEMMA StutterIInv ==
  ASSUME IInv, UNCHANGED vars
  PROVE  IInv'
  BY DEF IInv, TypeOK, MutexInv, Holder, ShapeInv, NothingLeaks, AtLabel,
         Alive, One, AllReferred, NoCoreReferred, NothingReferred, vars, refs,
         alive

\* The inductive invariant holds in every behaviour: the mutex admits one
\* operation, and at each of its steps the cores alive are exactly the ones
\* the struct and the operation's local variables account for.
THEOREM Invariance == Spec => []IInv
<1>1. ASSUME IInv, [Next]_vars PROVE IInv'
  BY <1>1, StepIInv, LockIInv, StutterIInv DEF Next
<1> QED
  BY <1>1, InitIInv, PTL DEF Spec

LEMMA IInvOneTunnel == IInv => OneTunnel
<1> SUFFICES ASSUME IInv PROVE boxes + alts <= 1
  BY DEF OneTunnel
<1> USE DEF IInv, TypeOK, MutexInv, Holder, ShapeInv, NothingLeaks, AtLabel,
      Labels, Alive, One, AllReferred, NoCoreReferred, NothingReferred
<1>1. CASE mu = NoProc
  BY <1>1
<1>2. CASE mu \in Procs
  BY <1>2
<1> QED
  BY <1>1, <1>2

LEMMA IInvFailure == IInv => FailureLeavesNothing
  BY DEF IInv, TypeOK, AtLabel, Alive, One, AllReferred, NoCoreReferred,
         NothingReferred, FailureLeavesNothing, Running

\* "Instance owns at most one running sing-box", for every interleaving of
\* starts and stops of any number of goroutines.
THEOREM OneTunnelHolds == Spec => []OneTunnel
  BY Invariance, IInvOneTunnel, PTL

\* A built-in core that sends through Xray always has an engine below it.
THEOREM EngineUnderBoxHolds == Spec => []EngineUnderBox
<1>1. IInv => EngineUnderBox
  BY DEF IInv, TypeOK, ShapeInv, EngineUnderBox
<1> QED
  BY <1>1, Invariance, PTL

\* Between operations no core is alive that the struct has lost.
THEOREM NothingLeaksHolds == Spec => []NothingLeaks
<1>1. IInv => NothingLeaks
  BY DEF IInv
<1> QED
  BY <1>1, Invariance, PTL

\* A failed start, and any stop, leaves nothing running.
THEOREM FailureLeavesNothingHolds == Spec => []FailureLeavesNothing
  BY Invariance, IInvFailure, PTL

\* Every step of StartCore and Stop is a step of the one-slot abstraction or
\* leaves the slot alone.
LEMMA StepRefines ==
  ASSUME IInv, NEW p \in Procs, Step(p)
  PROVE  [Abstract!Next]_Slot
<1>1. TypeOK /\ ShapeInv /\ AtLabel(p)
  BY HolderFacts
<1> USE <1>1 DEF TypeOK, ShapeInv, AtLabel, Slot, Alive, One, AllReferred,
      NoCoreReferred, NothingReferred, refs, alive, Abstract!Next,
      Abstract!Leave, Abstract!Enter, Cores, AltCores
<1>2. CASE StopLockedAlt(p)
  BY <1>2 DEF StopLockedAlt
<1>3. CASE CloseAlt(p)
  BY <1>3 DEF CloseAlt
<1>4. CASE StopLockedBuiltin(p)
  BY <1>4 DEF StopLockedBuiltin
<1>5. CASE CloseBox(p)
  BY <1>5 DEF CloseBox
<1>6. CASE CloseEngine(p)
  BY <1>6 DEF CloseEngine
<1>7. CASE LaunchFails(p)
  BY <1>7 DEF LaunchFails
<1>8. CASE LaunchBuiltin(p)
  BY <1>8 DEF LaunchBuiltin, CanLaunch
<1>9. CASE LaunchAlt(p)
  BY <1>9 DEF LaunchAlt, CanLaunch
<1>10. CASE LaunchXray(p)
  BY <1>10 DEF LaunchXray, CanLaunch
<1>11. CASE BuiltinOverXray(p)
  BY <1>11 DEF BuiltinOverXray
<1>12. CASE BuiltinOverXrayFails(p)
  BY <1>12 DEF BuiltinOverXrayFails
<1>13. CASE UndoXray(p)
  BY <1>13 DEF UndoXray
<1>14. CASE RecordEngine(p)
  BY <1>14 DEF RecordEngine
<1>15. CASE Unlock(p)
  BY <1>15 DEF Unlock
<1> QED
  BY <1>2, <1>3, <1>4, <1>5, <1>6, <1>7, <1>8, <1>9, <1>10,
     <1>11, <1>12, <1>13, <1>14, <1>15 DEF Step

\* The Instance implements CoreSlot: a core is replaced only through the
\* empty slot, whatever fails on the way.
THEOREM RefinesCoreSlot == Spec => ImplementsCoreSlot
<1>1. Init => Abstract!Init
  BY DEF Init, Abstract!Init, Slot
<1>2. ASSUME IInv, [Next]_vars PROVE [Abstract!Next]_Slot
  <2>1. ASSUME NEW p \in Procs, NEW o \in Cores \cup {"stop"}, Lock(p, o)
        PROVE  UNCHANGED Slot
    BY <2>1 DEF Lock, Slot, refs, alive
  <2>2. CASE UNCHANGED vars
    BY <2>2 DEF vars, refs, alive, Slot
  <2> QED
    BY <1>2, <2>1, <2>2, StepRefines DEF Next
<1> QED
  BY <1>1, <1>2, Invariance, PTL DEF Spec, ImplementsCoreSlot, Abstract!Spec
=============================================================================
