------------------------------ MODULE Instance ------------------------------
(***************************************************************************)
(* The Instance of internal/core/instance.go: the one place in the         *)
(* privileged service that owns a running core.  It is called by the serve *)
(* goroutine of every control connection, by watchParent and by run, so    *)
(* every operation takes its mutex.  The steps between two calls into a    *)
(* core are separate actions here: the order in which the built-in core    *)
(* and the Xray engine below it are started, closed and recorded is what   *)
(* the comments of the code promise.                                       *)
(*                                                                         *)
(* Two kinds of state are kept apart: what the struct refers to (instance, *)
(* alt, engine) and what is really alive in the process (boxes, alts,      *)
(* engines, counted so that a leaked core shows).                          *)
(***************************************************************************)
EXTENDS Naturals

CONSTANTS
    Procs,      \* goroutines that call into the Instance
    NoProc,     \* "nobody holds the mutex"
    Available   \* the cores coreAvailable accepts on this platform

ASSUME NoProcAssumption == NoProc \notin Procs

Cores == {"builtin", "xray", "sing-box", "mihomo", "unknown"}
AltCores == {"sing-box", "mihomo"}

ASSUME AvailableAssumption == Available \subseteq Cores

VARIABLES
    mu,         \* holder of Instance.mu
    pc,         \* where each goroutine is
    op,         \* the request each goroutine carries: a core, or "stop"
    failed,     \* whether the operation of the goroutine has met an error
    instance,   \* Instance.instance # nil (and with it cancel and traffic)
    alt,        \* Instance.alt: "none" or the alternative core
    engine,     \* Instance.engine # nil
    boxes,      \* built-in cores alive in the process
    viaEngine,  \* whether the live built-in core sends through Xray
    alts,       \* alternative cores alive in the process
    engines     \* Xray engines alive in the process

refs == <<instance, alt, engine>>
alive == <<boxes, viaEngine, alts, engines>>
vars == <<mu, pc, op, failed, refs, alive>>

Labels == {"idle", "stop", "closealt", "closebox", "closeengine", "launch",
           "xraybox", "record", "undo", "unlock"}

\* Instance.Running: what Status answers and what is broadcast.
Running == instance \/ alt # "none"

Init ==
    /\ mu = NoProc
    /\ pc = [p \in Procs |-> "idle"]
    /\ op = [p \in Procs |-> "stop"]
    /\ failed = [p \in Procs |-> FALSE]
    /\ instance = FALSE
    /\ alt = "none"
    /\ engine = FALSE
    /\ boxes = 0
    /\ viaEngine = FALSE
    /\ alts = 0
    /\ engines = 0

Goto(p, l) == pc' = [pc EXCEPT ![p] = l]
Fail(p) == failed' = [failed EXCEPT ![p] = TRUE]

\* Mutant: a start that does not stop the previous core.
LockSkipsStop(p, o) ==
    /\ pc[p] = "idle"
    /\ mu = NoProc
    /\ mu' = p
    /\ op' = [op EXCEPT ![p] = o]
    /\ failed' = [failed EXCEPT ![p] = FALSE]
    /\ Goto(p, IF o = "stop" THEN "stop" ELSE "launch")
    /\ UNCHANGED <<refs, alive>>

\* StartCore(core) and Stop() begin alike: lock, then stopLocked.
Lock(p, o) ==
    /\ pc[p] = "idle"
    /\ mu = NoProc
    /\ mu' = p
    /\ op' = [op EXCEPT ![p] = o]
    /\ failed' = [failed EXCEPT ![p] = FALSE]
    /\ Goto(p, "stop")
    /\ UNCHANGED <<refs, alive>>

-----------------------------------------------------------------------------
(* stopLocked *)

\* Mutant: the alternative core is closed but the field is not cleared.
StopLockedAltKeepsRef(p) ==
    /\ pc[p] = "stop"
    /\ alt # "none"
    /\ UNCHANGED alt
    /\ Goto(p, "closealt")
    /\ UNCHANGED <<mu, op, failed, instance, engine, alive>>

\* Mutant: the alternative core is forgotten without being closed.
StopLockedAltForgets(p) ==
    /\ pc[p] = "stop"
    /\ alt # "none"
    /\ alt' = "none"
    /\ Goto(p, IF op[p] = "stop" THEN "unlock" ELSE "launch")
    /\ UNCHANGED <<mu, op, failed, instance, engine, alive>>

\* An alternative core is forgotten first and closed next; that branch
\* returns before the deferred close of the engine is even registered.
StopLockedAlt(p) ==
    /\ pc[p] = "stop"
    /\ alt # "none"
    /\ alt' = "none"
    /\ Goto(p, "closealt")
    /\ UNCHANGED <<mu, op, failed, instance, engine, alive>>

CloseAlt(p) ==
    /\ pc[p] = "closealt"
    /\ alts' = alts - 1
    /\ \/ /\ UNCHANGED failed
          /\ Goto(p, IF op[p] = "stop" THEN "unlock" ELSE "launch")
       \/ /\ Fail(p)
          /\ Goto(p, "unlock")
    /\ UNCHANGED <<mu, op, refs, boxes, viaEngine, engines>>

\* Mutant: Xray is closed before the built-in core that sends through it.
StopLockedBuiltinEngineFirst(p) ==
    /\ pc[p] = "stop"
    /\ alt = "none"
    /\ instance' = FALSE
    /\ engine' = FALSE
    /\ engines' = IF engine THEN engines - 1 ELSE engines
    /\ Goto(p, IF instance THEN "closebox" ELSE "closeengine")
    /\ UNCHANGED <<mu, op, failed, alt, boxes, viaEngine, alts>>

\* Mutant: returns on a nil instance without releasing the mutex.
StopLockedBuiltinHangs(p) ==
    /\ pc[p] = "stop"
    /\ alt = "none"
    /\ instance' = FALSE
    /\ Goto(p, IF instance THEN "closebox" ELSE "stop")
    /\ UNCHANGED <<mu, op, failed, alt, engine, alive>>

StopLockedBuiltin(p) ==
    /\ pc[p] = "stop"
    /\ alt = "none"
    /\ instance' = FALSE
    /\ Goto(p, IF instance THEN "closebox" ELSE "closeengine")
    /\ UNCHANGED <<mu, op, failed, alt, engine, alive>>

\* cancel(), instance.Close(), platformStopped().  Close may report an error;
\* the box is gone either way.
CloseBox(p) ==
    /\ pc[p] = "closebox"
    /\ boxes' = boxes - 1
    /\ viaEngine' = FALSE
    /\ \/ UNCHANGED failed
       \/ Fail(p)
    /\ Goto(p, "closeengine")
    /\ UNCHANGED <<mu, op, refs, alts, engines>>

\* The deferred function of stopLocked: Xray goes after the built-in core.
CloseEngine(p) ==
    /\ pc[p] = "closeengine"
    /\ engine' = FALSE
    /\ engines' = IF engine THEN engines - 1 ELSE engines
    /\ Goto(p, IF op[p] = "stop" \/ failed[p] THEN "unlock" ELSE "launch")
    /\ UNCHANGED <<mu, op, failed, instance, alt, boxes, viaEngine, alts>>

-----------------------------------------------------------------------------
(* StartCore after the previous core is stopped *)

\* coreAvailable refuses, the switch does not know the core, or the core
\* named does not come up.
LaunchFails(p) ==
    /\ pc[p] = "launch"
    /\ Fail(p)
    /\ Goto(p, "unlock")
    /\ UNCHANGED <<mu, op, refs, alive>>

CanLaunch(p, cores) ==
    /\ pc[p] = "launch"
    /\ op[p] \in cores \cap Available

\* startBuiltinLocked for the built-in core alone.
LaunchBuiltin(p) ==
    /\ CanLaunch(p, {"builtin"})
    /\ boxes' = boxes + 1
    /\ instance' = TRUE
    /\ Goto(p, "unlock")
    /\ UNCHANGED <<mu, op, failed, alt, engine, viaEngine, alts, engines>>

LaunchAlt(p) ==
    /\ CanLaunch(p, AltCores)
    /\ alts' = alts + 1
    /\ alt' = op[p]
    /\ Goto(p, "unlock")
    /\ UNCHANGED <<mu, op, failed, instance, engine, boxes, viaEngine, engines>>

\* Xray first: the built-in core's proxy outbounds point at it.
LaunchXray(p) ==
    /\ CanLaunch(p, {"xray"})
    /\ engines' = engines + 1
    /\ Goto(p, "xraybox")
    /\ UNCHANGED <<mu, op, failed, refs, boxes, viaEngine, alts>>

BuiltinOverXray(p) ==
    /\ pc[p] = "xraybox"
    /\ boxes' = boxes + 1
    /\ viaEngine' = TRUE
    /\ instance' = TRUE
    /\ Goto(p, "record")
    /\ UNCHANGED <<mu, op, failed, alt, engine, alts, engines>>

\* Mutant: a failed built-in core returns without closing the engine.
BuiltinOverXrayFailsLeaks(p) ==
    /\ pc[p] = "xraybox"
    /\ Fail(p)
    /\ Goto(p, "unlock")
    /\ UNCHANGED <<mu, op, refs, alive>>

BuiltinOverXrayFails(p) ==
    /\ pc[p] = "xraybox"
    /\ Fail(p)
    /\ Goto(p, "undo")
    /\ UNCHANGED <<mu, op, refs, alive>>

UndoXray(p) ==
    /\ pc[p] = "undo"
    /\ engines' = engines - 1
    /\ Goto(p, "unlock")
    /\ UNCHANGED <<mu, op, failed, refs, boxes, viaEngine, alts>>

RecordEngine(p) ==
    /\ pc[p] = "record"
    /\ engine' = TRUE
    /\ Goto(p, "unlock")
    /\ UNCHANGED <<mu, op, failed, instance, alt, alive>>

Unlock(p) ==
    /\ pc[p] = "unlock"
    /\ mu' = NoProc
    /\ Goto(p, "idle")
    /\ UNCHANGED <<op, failed, refs, alive>>

Step(p) ==
    \/ StopLockedAlt(p) \/ CloseAlt(p)
    \/ StopLockedBuiltin(p) \/ CloseBox(p) \/ CloseEngine(p)
    \/ LaunchFails(p) \/ LaunchBuiltin(p) \/ LaunchAlt(p)
    \/ LaunchXray(p) \/ BuiltinOverXray(p) \/ BuiltinOverXrayFails(p)
    \/ UndoXray(p) \/ RecordEngine(p)
    \/ Unlock(p)

Next == \E p \in Procs : Step(p) \/ \E o \in Cores \cup {"stop"} : Lock(p, o)

\* A core's start and close calls return; the goroutine that holds the mutex
\* then runs on to its Unlock.
Fairness == \A p \in Procs : WF_vars(Step(p))

Spec == Init /\ [][Next]_vars /\ Fairness

-----------------------------------------------------------------------------
(* Properties *)

TypeOK ==
    /\ mu \in Procs \cup {NoProc}
    /\ pc \in [Procs -> Labels]
    /\ op \in [Procs -> Cores \cup {"stop"}]
    /\ failed \in [Procs -> BOOLEAN]
    /\ instance \in BOOLEAN
    /\ alt \in AltCores \cup {"none"}
    /\ engine \in BOOLEAN
    /\ boxes \in Nat
    /\ viaEngine \in BOOLEAN
    /\ alts \in Nat
    /\ engines \in Nat

\* "Instance owns at most one running sing-box": at no moment, not even
\* between the stop of the previous core and the start of the next, are two
\* cores alive that would both own the tunnel.
OneTunnel == boxes + alts <= 1

\* "Xray first ...", "Xray goes after the built-in core, which sends through
\* it": a built-in core configured to send through Xray never runs without an
\* engine alive below it, whatever fails on the way up or down.
EngineUnderBox == viaEngine => engines >= 1

\* Between operations the struct knows every core that is alive, so that the
\* next Stop reaches it: nothing leaks from a failed or repeated start.
NothingLeaks ==
    mu = NoProc =>
        /\ boxes = (IF instance THEN 1 ELSE 0)
        /\ alts = (IF alt # "none" THEN 1 ELSE 0)
        /\ engines = (IF engine THEN 1 ELSE 0)

\* A start that returns an error leaves nothing running, and so does a stop,
\* with or without one: the caller's "Running" is then false.
FailureLeavesNothing ==
    \A p \in Procs :
        pc[p] = "unlock" /\ (failed[p] \/ op[p] = "stop") =>
            boxes = 0 /\ alts = 0 /\ engines = 0 /\ ~Running

\* Every operation that got the mutex reaches its Unlock, on every path
\* through stopLocked and StartCore, and a Stop arrives there with no core up.
\* A branch of stopLocked that went nowhere would hold the mutex for ever, and
\* with it every later Start, Stop and Status.
OperationsEnd == \A p \in Procs :
    pc[p] = "stop" ~> /\ pc[p] = "unlock"
                      /\ op[p] = "stop" => ~Running

\* The slot of CoreSlot: the core that owns the tunnel as the struct records
\* it.  An Xray start counts once its engine is recorded.
Slot ==
    CASE alt # "none"                       -> alt
      [] instance /\ ~viaEngine             -> "builtin"
      [] instance /\ viaEngine /\ engine    -> "xray"
      [] OTHER                              -> "none"

Abstract == INSTANCE CoreSlot
    WITH Core <- Cores, NoCore <- "none", slot <- Slot

\* The fine-grained Instance implements the one-slot abstraction: no step of
\* StartCore or Stop replaces a core without passing through the empty slot.
ImplementsCoreSlot == Abstract!Spec

-----------------------------------------------------------------------------
(* The inductive invariant behind the properties above. *)

Holder(p) == pc[p] # "idle"

MutexInv == \A p \in Procs : Holder(p) <=> mu = p

\* The counts of what is alive, and the emptiness of the struct.
Alive(b, a, e) == boxes = b /\ alts = a /\ engines = e
One(ref) == IF ref THEN 1 ELSE 0
AllReferred == Alive(One(instance), One(alt # "none"), One(engine))
NoCoreReferred == ~instance /\ alt = "none"
NothingReferred == NoCoreReferred /\ ~engine

\* What is alive and what is referred to at each point of the operation in
\* progress.
AtLabel(p) ==
    /\ pc[p] \in {"stop", "unlock"} => AllReferred
    /\ pc[p] = "unlock" /\ (failed[p] \/ op[p] = "stop") => NothingReferred
    /\ pc[p] = "closealt" => NothingReferred /\ Alive(0, 1, 0)
    /\ pc[p] = "closebox" => NoCoreReferred /\ Alive(1, 0, One(engine))
    /\ pc[p] = "closeengine" => NoCoreReferred /\ Alive(0, 0, One(engine))
    /\ pc[p] = "launch" => NothingReferred /\ Alive(0, 0, 0)
    /\ pc[p] \in {"xraybox", "undo"} => NothingReferred /\ Alive(0, 0, 1)
    /\ pc[p] = "record" => instance /\ alt = "none" /\ ~engine /\ Alive(1, 0, 1)
    /\ pc[p] \in {"launch", "xraybox", "record"} => op[p] # "stop" /\ ~failed[p]
    /\ pc[p] \in {"stop", "closealt", "closebox"} => ~failed[p]
    /\ pc[p] = "undo" => failed[p]

\* At most one core is referred to, an engine only below a built-in core, and
\* a core that sends through Xray is alive together with the engine.
ShapeInv ==
    /\ ~(instance /\ alt # "none")
    /\ alt # "none" => ~engine
    /\ viaEngine => boxes = 1 /\ engines = 1

IInv ==
    /\ TypeOK
    /\ MutexInv
    /\ ShapeInv
    /\ NothingLeaks
    /\ \A p \in Procs : AtLabel(p)
=============================================================================
