-------------------------- MODULE ConnectionProofs --------------------------
(***************************************************************************)
(* Proofs about Connection for any number of callers, reconnect goroutines *)
(* and control connections, with every operation, crash, timeout and       *)
(* setting allowed: connectMu admits one call, a superseded connect never  *)
(* starts a tunnel behind the call that overtook it, every answer on the   *)
(* control connection is for a call that still waits for it or for none,   *)
(* and the commands that change the tunnel reach the service one at a      *)
(* time, but for those their callers gave up.                              *)
(***************************************************************************)
EXTENDS Connection, SequenceTheorems, TLAPS

LEMMA WorkersNotConns ==
  /\ \A c \in Conns : c \notin Workers
  /\ None \notin Workers
  /\ Workers \subseteq Procs
  /\ Conns \subseteq Procs
  BY ProcsAssumption, BoundsAssumption DEF Conns, Workers, Procs

LEMMA InitConn == Init => ConnInv
<1> SUFFICES ASSUME Init PROVE ConnInv
  OBVIOUS
<1>1. \A p \in Workers : pc[p] = "idle"
  BY WorkersNotConns DEF Init
<1>2. ConnTypes
  BY DEF Init, ConnTypes, Labels
<1>3. GenerationInv
  BY DEF Init, GenerationInv
<1> QED
  BY <1>1, <1>2, <1>3
  DEF ConnInv, MutexInv, SupersededNeverStarts, Critical, Starting

\* One goroutine moves and no generation changes: the mutex may only pass
\* through the hands of the mover.
LEMMA Move ==
  ASSUME ConnInv, NEW x \in Procs, NEW l \in Labels,
         pc' = [pc EXCEPT ![x] = l],
         connectMu' \in Workers \cup {None},
         connectMu' = connectMu \/ connectMu \in {x, None},
         UNCHANGED <<connectGen, generation, served>>,
         x \in Workers => /\ l \in Critical => connectMu' = x
                          /\ l \in Starting => served <= generation[x]
  PROVE  ConnInv'
<1>1. ConnTypes' /\ GenerationInv'
  BY DEF ConnInv, ConnTypes, GenerationInv
<1>2. ASSUME NEW q \in Workers PROVE
         /\ pc'[q] \in Critical => connectMu' = q
         /\ pc'[q] \in Starting => served' <= generation'[q]
  <2>1. CASE q = x
    BY <2>1 DEF ConnInv, ConnTypes
  <2>2. CASE q # x
    BY <2>2, WorkersNotConns
    DEF ConnInv, ConnTypes, MutexInv, SupersededNeverStarts
  <2> QED
    BY <2>1, <2>2
<1> QED
  BY <1>1, <1>2 DEF ConnInv, MutexInv, SupersededNeverStarts

\* Nothing the invariant speaks of changes.
LEMMA Still ==
  ASSUME ConnInv, UNCHANGED <<pc, connectMu, connectGen, generation, served>>
  PROVE  ConnInv'
  BY DEF ConnInv, ConnTypes, MutexInv, GenerationInv, SupersededNeverStarts

\* Connect and Disconnect take a new generation before they wait.
LEMMA CallConn ==
  ASSUME ConnInv, NEW u \in Callers, Connect(u) \/ Disconnect(u)
  PROVE  ConnInv'
<1>1. u \in Workers /\ u \in Procs
  BY DEF Workers, Procs
<1>2. PICK l \in {"lock", "dlock"} : pc' = [pc EXCEPT ![u] = l]
  BY DEF Connect, Disconnect, Call, Goto
<1>3. /\ pc[u] = "idle"
      /\ connectGen' = connectGen + 1
      /\ generation' = [generation EXCEPT ![u] = connectGen + 1]
      /\ UNCHANGED <<connectMu, served>>
  BY DEF Connect, Disconnect, Call, history
<1>4. ConnTypes'
  BY <1>1, <1>2, <1>3 DEF ConnInv, ConnTypes, Labels
<1>5. GenerationInv'
  BY <1>1, <1>3 DEF ConnInv, ConnTypes, GenerationInv
<1>6. MutexInv'
  BY <1>1, <1>2, <1>3 DEF ConnInv, ConnTypes, MutexInv, Critical
<1>7. SupersededNeverStarts'
  BY <1>1, <1>2, <1>3
  DEF ConnInv, ConnTypes, SupersededNeverStarts, Starting
<1> QED
  BY <1>4, <1>5, <1>6, <1>7 DEF ConnInv

\* Taking connectMu: nobody else is past its lock, so the newest generation
\* to be served may change.
LEMMA Take ==
  ASSUME ConnInv, NEW x \in Workers, NEW l \in Labels, connectMu = None,
         connectMu' = x, pc' = [pc EXCEPT ![x] = l],
         UNCHANGED <<connectGen, generation>>,
         served' \in Nat, served' <= connectGen,
         l \in Starting => served' <= generation[x]
  PROVE  ConnInv'
<1>1. x \in Procs
  BY WorkersNotConns
<1>2. \A q \in Workers : pc[q] \notin Critical
  BY WorkersNotConns DEF ConnInv, MutexInv
<1>3. Starting \subseteq Critical
  BY DEF Starting, Critical
<1>4. ConnTypes' /\ GenerationInv'
  BY <1>1 DEF ConnInv, ConnTypes, GenerationInv
<1>5. ASSUME NEW q \in Workers PROVE
         /\ pc'[q] \in Critical => connectMu' = q
         /\ pc'[q] \in Starting => served' <= generation'[q]
  <2>1. CASE q = x
    BY <1>1, <2>1 DEF ConnInv, ConnTypes
  <2>2. CASE q # x
    BY <1>1, <1>2, <1>3, <2>2, WorkersNotConns DEF ConnInv, ConnTypes
  <2> QED
    BY <2>1, <2>2
<1> QED
  BY <1>4, <1>5 DEF ConnInv, MutexInv, SupersededNeverStarts

\* The steps of connect and of GetConnectionState.
LEMMA ConnectStepsConn ==
  ASSUME ConnInv, NEW p \in Workers, ConnectSteps(p)
  PROVE  ConnInv'
<1> USE WorkersNotConns
<1>0. p \in Procs /\ connectMu \in Workers \cup {None} /\ p # None
  BY DEF ConnInv, ConnTypes
<1>a. pc[p] \in Critical => connectMu = p
  BY DEF ConnInv, MutexInv
<1>b. pc[p] \in Starting => served <= generation[p]
  BY DEF ConnInv, SupersededNeverStarts
<1>1. CASE ConnectLock(p)
  <2>1. CASE connectGen = generation[p]
    <3>1. /\ connectMu = None /\ connectMu' = p /\ Goto(p, "plan")
          /\ served' = generation[p] /\ UNCHANGED <<connectGen, generation>>
      BY <1>1, <2>1 DEF ConnectLock, locals
    <3>2. generation[p] \in Nat
      BY DEF ConnInv, ConnTypes
    <3>3. /\ pc' = [pc EXCEPT ![p] = "plan"] /\ "plan" \in Labels
          /\ served' \in Nat /\ served' <= connectGen
          /\ served' <= generation[p]
      BY <2>1, <3>1, <3>2 DEF Goto, Labels
    <3> QED
      BY <3>1, <3>3, Take
  <2>2. CASE connectGen # generation[p]
    <3>1. /\ connectMu = None /\ connectMu' = p /\ Goto(p, "superseded")
          /\ UNCHANGED <<connectGen, generation, served>>
      BY <1>1, <2>2 DEF ConnectLock, locals, history
    <3>2. served \in Nat /\ served <= connectGen
      BY DEF ConnInv, ConnTypes, GenerationInv
    <3> QED
      BY <3>1, <3>2, Take DEF Goto, Labels, Starting
  <2> QED
    BY <2>1, <2>2
<1>2. CASE PlanFails(p)
  <2>1. PICK l \in {"idle", "attempt"} : pc' = [pc EXCEPT ![p] = l]
    BY <1>2 DEF PlanFails, Return, Goto
  <2>2. /\ connectMu = p /\ connectMu' = None
        /\ UNCHANGED <<connectGen, generation, served>>
    BY <1>2, <1>a DEF PlanFails, Critical, locals, history
  <2> QED
    BY <1>0, <2>1, <2>2, Move DEF Labels, Critical, Starting
<1>3. CASE Plan(p)
  <2>1. PICK l \in {"try"} : pc' = [pc EXCEPT ![p] = l]
    BY <1>3 DEF Plan, Goto
  <2>2. UNCHANGED <<connectMu, connectGen, generation, served>>
    BY <1>3 DEF Plan, app, locals, history
  <2>3. connectMu = p /\ served <= generation[p]
    BY <1>3, <1>a, <1>b DEF Plan, Critical, Starting
  <2> QED
    BY <1>0, <2>1, <2>2, <2>3, Move DEF Labels, Critical, Starting
<1>4. CASE Try(p)
  <2>1. PICK l \in {"await"} : pc' = [pc EXCEPT ![p] = l]
    BY <1>4 DEF Try, Goto
  <2>2. UNCHANGED <<connectMu, connectGen, generation, served>>
    BY <1>4 DEF Try, app, locals, history
  <2>3. connectMu = p /\ served <= generation[p]
    BY <1>4, <1>a, <1>b DEF Try, Critical, Starting
  <2> QED
    BY <1>0, <2>1, <2>2, <2>3, Move DEF Labels, Critical, Starting
<1>5. CASE TryNext(p)
  <2>1. PICK l \in {"try"} : pc' = [pc EXCEPT ![p] = l]
    BY <1>5 DEF TryNext, Goto
  <2>2. UNCHANGED <<connectMu, connectGen, generation, served>>
    BY <1>5 DEF TryNext, app, locals, history
  <2>3. connectMu = p /\ served <= generation[p]
    BY <1>5, <1>a, <1>b DEF TryNext, Critical, Starting
  <2> QED
    BY <1>0, <2>1, <2>2, <2>3, Move DEF Labels, Critical, Starting
<1>6. CASE ConnectFails(p)
  <2>1. PICK l \in {"idle", "attempt"} : pc' = [pc EXCEPT ![p] = l]
    BY <1>6 DEF ConnectFails, Return, Goto
  <2>2. /\ connectMu = p /\ connectMu' = None
        /\ UNCHANGED <<connectGen, generation, served>>
    BY <1>6, <1>a DEF ConnectFails, Critical, locals, history
  <2> QED
    BY <1>0, <2>1, <2>2, Move DEF Labels, Critical, Starting
<1>7. CASE ConnectStarted(p)
  <2>1. PICK l \in {"up"} : pc' = [pc EXCEPT ![p] = l]
    BY <1>7 DEF ConnectStarted, Goto
  <2>2. UNCHANGED <<connectMu, connectGen, generation, served>>
    BY <1>7 DEF ConnectStarted, app, locals, history
  <2>3. connectMu = p /\ served <= generation[p]
    BY <1>7, <1>a, <1>b DEF ConnectStarted, Critical, Starting
  <2> QED
    BY <1>0, <2>1, <2>2, <2>3, Move DEF Labels, Critical, Starting
<1>8. CASE ConnectDone(p)
  <2>1. PICK l \in {"idle", "attempt"} : pc' = [pc EXCEPT ![p] = l]
    BY <1>8 DEF ConnectDone, Return, Goto
  <2>2. /\ connectMu = p /\ connectMu' = None
        /\ UNCHANGED <<connectGen, generation, served>>
    BY <1>8, <1>a DEF ConnectDone, Critical, locals, history
  <2> QED
    BY <1>0, <2>1, <2>2, Move DEF Labels, Critical, Starting
<1>9. CASE GetRead(p)
  <2>1. PICK l \in {"gwait"} : pc' = [pc EXCEPT ![p] = l]
    BY <1>9 DEF GetRead, Goto
  <2>2. UNCHANGED <<connectMu, connectGen, generation, served>>
    BY <1>9 DEF GetRead, app, locals, history
  <2> QED
    BY <1>0, <2>1, <2>2, Move DEF Labels, Critical, Starting
<1>10. CASE GetAgrees(p)
  <2>1. PICK l \in {"idle", "attempt"} : pc' = [pc EXCEPT ![p] = l]
    BY <1>10 DEF GetAgrees, GetReturn, Return, Goto
  <2>2. /\ connectMu' = IF connectMu = p THEN None ELSE connectMu
        /\ UNCHANGED <<connectGen, generation, served>>
    BY <1>10 DEF GetAgrees, GetReturn, locals, history
  <2> QED
    BY <1>0, <2>1, <2>2, Move DEF Labels, Critical, Starting
<1>11. CASE GetDiffers(p)
  <2>1. PICK l \in {"gset"} : pc' = [pc EXCEPT ![p] = l]
    BY <1>11 DEF GetDiffers, Goto
  <2>2. UNCHANGED <<connectMu, connectGen, generation, served>>
    BY <1>11 DEF GetDiffers, app, locals, history
  <2> QED
    BY <1>0, <2>1, <2>2, Move DEF Labels, Critical, Starting
<1>12. CASE GetReconcile(p)
  <2>1. PICK l \in {"idle", "attempt"} : pc' = [pc EXCEPT ![p] = l]
    BY <1>12 DEF GetReconcile, GetReturn, Return, Goto
  <2>2. /\ connectMu' = IF connectMu = p THEN None ELSE connectMu
        /\ UNCHANGED <<connectGen, generation, served>>
    BY <1>12 DEF GetReconcile, GetReturn, locals, history
  <2> QED
    BY <1>0, <2>1, <2>2, Move DEF Labels, Critical, Starting
<1> QED
  BY <1>1, <1>2, <1>3, <1>4, <1>5, <1>6, <1>7, <1>8, <1>9, <1>10,
     <1>11, <1>12 DEF ConnectSteps

\* The steps of Disconnect and of reapplyRouting.
LEMMA CallerStepsConn ==
  ASSUME ConnInv, NEW u \in Callers, CallerSteps(u)
  PROVE  ConnInv'
<1> USE WorkersNotConns
<1>0. /\ u \in Workers /\ u \in Procs /\ u # None
      /\ connectMu \in Workers \cup {None}
  BY DEF Workers, ConnInv, ConnTypes
<1>a. pc[u] \in Critical => connectMu = u
  BY <1>0 DEF ConnInv, MutexInv
<1>b. pc[u] \in Starting => served <= generation[u]
  BY <1>0 DEF ConnInv, SupersededNeverStarts
<1>1. CASE ConnectSteps(u)
  BY <1>0, <1>1, ConnectStepsConn
<1>2. CASE DisconnectLock(u)
  <2>1. /\ connectMu = None /\ connectMu' = u /\ Goto(u, "didle")
        /\ served' = IF generation[u] > served THEN generation[u] ELSE served
        /\ UNCHANGED <<connectGen, generation>>
    BY <1>2 DEF DisconnectLock, locals
  <2>2. /\ served \in Nat /\ served <= connectGen
        /\ generation[u] \in Nat /\ generation[u] <= connectGen
    BY <1>0 DEF ConnInv, ConnTypes, GenerationInv
  <2> QED
    BY <1>0, <2>1, <2>2, Take DEF Goto, Labels, Starting
<1>3. CASE DisconnectIdle(u)
  <2>1. PICK l \in {"dwait"} : pc' = [pc EXCEPT ![u] = l]
    BY <1>3 DEF DisconnectIdle, Goto
  <2>2. UNCHANGED <<connectMu, connectGen, generation, served>>
    BY <1>3 DEF DisconnectIdle, app, locals, history
  <2>3. connectMu = u
    BY <1>3, <1>a, <1>b DEF DisconnectIdle, Critical, Starting
  <2> QED
    BY <1>0, <2>1, <2>2, <2>3, Move DEF Labels, Critical, Starting
<1>4. CASE DisconnectDone(u)
  <2>1. PICK l \in {"idle"} : pc' = [pc EXCEPT ![u] = l]
    BY <1>4 DEF DisconnectDone, Return, Goto
  <2>2. /\ connectMu = u /\ connectMu' = None
        /\ UNCHANGED <<connectGen, generation, served>>
    BY <1>4, <1>a DEF DisconnectDone, Critical, locals, history
  <2> QED
    BY <1>0, <2>1, <2>2, Move DEF Labels, Critical, Starting
<1>5. CASE ReapplyLock(u)
  <2>1. /\ connectMu = None /\ UNCHANGED <<connectGen, generation, served>>
        /\ \/ connectMu' = u /\ Goto(u, "rstart")
           \/ connectMu' = connectMu /\ Goto(u, "idle")
    BY <1>5 DEF ReapplyLock, locals, history
  <2> QED
    BY <1>0, <2>1, Move DEF Goto, Labels, Critical, Starting
<1>6. CASE ReapplyStart(u)
  <2>1. PICK l \in {"rwait"} : pc' = [pc EXCEPT ![u] = l]
    BY <1>6 DEF ReapplyStart, Goto
  <2>2. UNCHANGED <<connectMu, connectGen, generation, served>>
    BY <1>6 DEF ReapplyStart, app, locals, history
  <2>3. connectMu = u
    BY <1>6, <1>a, <1>b DEF ReapplyStart, Critical, Starting
  <2> QED
    BY <1>0, <2>1, <2>2, <2>3, Move DEF Labels, Critical, Starting
<1>7. CASE ReapplyDone(u)
  <2>1. PICK l \in {"idle"} : pc' = [pc EXCEPT ![u] = l]
    BY <1>7 DEF ReapplyDone, Return, Goto
  <2>2. /\ connectMu = u /\ connectMu' = None
        /\ UNCHANGED <<connectGen, generation, served>>
    BY <1>7, <1>a DEF ReapplyDone, Critical, locals, history
  <2> QED
    BY <1>0, <2>1, <2>2, Move DEF Labels, Critical, Starting
<1> QED
  BY <1>1, <1>2, <1>3, <1>4, <1>5, <1>6, <1>7 DEF CallerSteps

\* engageLockdown never touches connectMu, wherever it runs.
LEMMA LockdownStepsConn ==
  ASSUME ConnInv, NEW p \in Procs, LockdownSteps(p)
  PROVE  ConnInv'
<1>0. connectMu \in Workers \cup {None} /\ p \in Procs
  BY DEF ConnInv, ConnTypes
<1>1. CASE LockdownStore(p)
  <2>1. PICK l \in {"lsend", "attempt", "herr"} : pc' = [pc EXCEPT ![p] = l]
    BY <1>1 DEF LockdownStore, Goto, AfterLockdown
  <2>2. UNCHANGED <<connectMu, connectGen, generation, served>>
    BY <1>1 DEF LockdownStore, app, locals, history, AfterLockdown
  <2> QED
    BY <1>0, <2>1, <2>2, Move DEF Labels, Critical, Starting
<1>2. CASE LockdownSend(p)
  <2>1. PICK l \in {"lwait"} : pc' = [pc EXCEPT ![p] = l]
    BY <1>2 DEF LockdownSend, Goto
  <2>2. UNCHANGED <<connectMu, connectGen, generation, served>>
    BY <1>2 DEF LockdownSend, app, locals, history
  <2> QED
    BY <1>0, <2>1, <2>2, Move DEF Labels, Critical, Starting
<1>3. CASE LockdownDone(p)
  <2>1. PICK l \in {"attempt", "herr"} : pc' = [pc EXCEPT ![p] = l]
    BY <1>3 DEF LockdownDone, Goto, AfterLockdown
  <2>2. UNCHANGED <<connectMu, connectGen, generation, served>>
    BY <1>3 DEF LockdownDone, app, locals, history, AfterLockdown
  <2> QED
    BY <1>0, <2>1, <2>2, Move DEF Labels, Critical, Starting
<1> QED
  BY <1>1, <1>2, <1>3 DEF LockdownSteps

\* The reconnect loop.
LEMMA ReconStepsConn ==
  ASSUME ConnInv, NEW r \in Recons, ReconSteps(r)
  PROVE  ConnInv'
<1>0. r \in Workers /\ r \in Procs /\ connectMu \in Workers \cup {None}
  BY DEF Workers, Procs, ConnInv, ConnTypes
<1>1. CASE ReconBegin(r)
  <2>1. PICK l \in {"lstore", "attempt"} : pc' = [pc EXCEPT ![r] = l]
    BY <1>1 DEF ReconBegin, Goto
  <2>2. UNCHANGED <<connectMu, connectGen, generation, served>>
    BY <1>1 DEF ReconBegin, app, locals, history
  <2> QED
    BY <1>0, <2>1, <2>2, Move DEF Labels, Critical, Starting
<1>2. CASE ReconAttempt(r)
  <2>1. PICK l \in {"idle", "announce", "giveup"} : pc' = [pc EXCEPT ![r] = l]
    BY <1>2 DEF ReconAttempt, Goto
  <2>2. UNCHANGED <<connectMu, connectGen, generation, served>>
    BY <1>2 DEF ReconAttempt, app, locals, history
  <2> QED
    BY <1>0, <2>1, <2>2, Move DEF Labels, Critical, Starting
<1>3. CASE ReconAnnounce(r)
  <2>1. PICK l \in {"sleep"} : pc' = [pc EXCEPT ![r] = l]
    BY <1>3 DEF ReconAnnounce, Goto
  <2>2. UNCHANGED <<connectMu, connectGen, generation, served>>
    BY <1>3 DEF ReconAnnounce, app, locals, history
  <2> QED
    BY <1>0, <2>1, <2>2, Move DEF Labels, Critical, Starting
<1>4. CASE ReconWake(r)
  <2>1. PICK l \in {"idle", "lock"} : pc' = [pc EXCEPT ![r] = l]
    BY <1>4 DEF ReconWake, Goto
  <2>2. UNCHANGED <<connectMu, connectGen, generation, served>>
    BY <1>4 DEF ReconWake, app, locals, history
  <2> QED
    BY <1>0, <2>1, <2>2, Move DEF Labels, Critical, Starting
<1>5. CASE ReconGiveUp(r)
  <2>1. PICK l \in {"idle"} : pc' = [pc EXCEPT ![r] = l]
    BY <1>5 DEF ReconGiveUp, Goto
  <2>2. UNCHANGED <<connectMu, connectGen, generation, served>>
    BY <1>5 DEF ReconGiveUp, app, locals, history
  <2> QED
    BY <1>0, <2>1, <2>2, Move DEF Labels, Critical, Starting
<1>6. CASE LockdownSteps(r)
  BY <1>0, <1>6, LockdownStepsConn
<1>7. CASE ConnectSteps(r)
  BY <1>0, <1>7, ConnectStepsConn
<1> QED
  BY <1>1, <1>2, <1>3, <1>4, <1>5, <1>6, <1>7 DEF ReconSteps

\* readLoop and handleCoreState: they spawn reconnects but hold no mutex.
LEMMA ReaderStepsConn ==
  ASSUME ConnInv, NEW c \in Conns, ReaderSteps(c)
  PROVE  ConnInv'
<1>0. c \in Procs /\ c \notin Workers /\ connectMu \in Workers \cup {None}
  BY WorkersNotConns DEF ConnInv, ConnTypes
<1>1. CASE ReadResponse(c)
  BY <1>1, Still DEF ReadResponse, app, locals, history
<1>2. CASE ReadEvent(c)
  <2>1. PICK l \in {"htrue", "read", "hfalse"} : pc' = [pc EXCEPT ![c] = l]
    BY <1>2 DEF ReadEvent, Goto
  <2>2. UNCHANGED <<connectMu, connectGen, generation, served>>
    BY <1>2 DEF ReadEvent, app, locals, history
  <2> QED
    BY <1>0, <2>1, <2>2, Move DEF Labels, Critical, Starting
<1>3. CASE HandleUp(c)
  <2>1. PICK l \in {"read"} : pc' = [pc EXCEPT ![c] = l]
    BY <1>3 DEF HandleUp, Goto
  <2>2. UNCHANGED <<connectMu, connectGen, generation, served>>
    BY <1>3 DEF HandleUp, app, locals, history
  <2> QED
    BY <1>0, <2>1, <2>2, Move DEF Labels, Critical, Starting
<1>4. CASE HandleDown(c)
  <2>1. PICK l \in {"hlost", "hdrop"} : pc' = [pc EXCEPT ![c] = l]
    BY <1>4 DEF HandleDown, Goto
  <2>2. UNCHANGED <<connectMu, connectGen, generation, served>>
    BY <1>4 DEF HandleDown, app, locals, history
  <2> QED
    BY <1>0, <2>1, <2>2, Move DEF Labels, Critical, Starting
<1>5. CASE HandleLost(c)
  <2>1. PICK l \in {"read"} : pc' = [pc EXCEPT ![c] = l]
    BY <1>5 DEF HandleLost, Goto
  <2>2. UNCHANGED <<connectMu, connectGen, generation, served>>
    BY <1>5 DEF HandleLost, app, locals, history
  <2> QED
    BY <1>0, <2>1, <2>2, Move DEF Labels, Critical, Starting
<1>6. CASE HandleDrop(c)
  <2>1. PICK l \in {"hspawn", "lstore", "herr"} : pc' = [pc EXCEPT ![c] = l]
    BY <1>6 DEF HandleDrop, Goto
  <2>2. UNCHANGED <<connectMu, connectGen, generation, served>>
    BY <1>6 DEF HandleDrop, app, locals, history
  <2> QED
    BY <1>0, <2>1, <2>2, Move DEF Labels, Critical, Starting
<1>7. CASE HandleError(c)
  <2>1. PICK l \in {"read"} : pc' = [pc EXCEPT ![c] = l]
    BY <1>7 DEF HandleError, Goto
  <2>2. UNCHANGED <<connectMu, connectGen, generation, served>>
    BY <1>7 DEF HandleError, app, locals, history
  <2> QED
    BY <1>0, <2>1, <2>2, Move DEF Labels, Critical, Starting
<1>8. CASE Reattach(c)
  <2>1. PICK l \in {"read", "hfalse"} : pc' = [pc EXCEPT ![c] = l]
    BY <1>8 DEF Reattach, Goto
  <2>2. UNCHANGED <<connectMu, connectGen, generation, served>>
    BY <1>8 DEF Reattach, app, locals, history
  <2> QED
    BY <1>0, <2>1, <2>2, Move DEF Labels, Critical, Starting
<1>9. CASE ReadEnd(c)
  <2>1. UNCHANGED pc \/ pc' = [pc EXCEPT ![c] = "reattach"]
    BY <1>9 DEF ReadEnd, Goto
  <2>2. UNCHANGED <<connectMu, connectGen, generation, served>>
    BY <1>9 DEF ReadEnd, app, locals, history
  <2> QED
    BY <1>0, <2>1, <2>2, Move, Still DEF Labels
<1>10. CASE HandleSpawn(c)
  <2>1. PICK r \in Recons :
           /\ pc[r] = "idle"
           /\ pc' = [pc EXCEPT ![c] = "read", ![r] = "begin"]
           /\ generation' = [generation EXCEPT ![r] = connectGen]
    BY <1>10 DEF HandleSpawn
  <2>2. UNCHANGED <<connectMu, connectGen, served>>
    BY <1>10 DEF HandleSpawn, app, history
  <2>3. r \in Workers /\ r \in Procs
    BY DEF Workers, Procs
  <2>4. ConnTypes' /\ GenerationInv'
    BY <1>0, <2>1, <2>2, <2>3 DEF ConnInv, ConnTypes, GenerationInv, Labels
  <2>5. ASSUME NEW q \in Workers PROVE
           /\ pc'[q] \in Critical => connectMu' = q
           /\ pc'[q] \in Starting => served' <= generation'[q]
    <3>1. q \in Procs /\ q # c
      BY <1>0, WorkersNotConns
    <3>2. CASE q = r
      BY <2>1, <2>3, <3>1, <3>2 DEF ConnInv, ConnTypes, Critical, Starting
    <3>3. CASE q # r
      BY <2>1, <2>2, <2>3, <3>1, <3>3
      DEF ConnInv, ConnTypes, MutexInv, SupersededNeverStarts
    <3> QED
      BY <3>2, <3>3
  <2> QED
    BY <2>4, <2>5 DEF ConnInv, MutexInv, SupersededNeverStarts
<1>11. CASE LockdownSteps(c)
  BY <1>0, <1>11, LockdownStepsConn
<1> QED
  BY <1>1, <1>2, <1>3, <1>4, <1>5, <1>6, <1>7, <1>8, <1>9, <1>10,
     <1>11 DEF ReaderSteps

LEMMA NextConn ==
  ASSUME ConnInv, [Next]_vars
  PROVE  ConnInv'
<1>1. ASSUME NEW u \in Callers, Get(u) \/ Reapply(u) PROVE ConnInv'
  <2>1. PICK l \in {"gread", "rlock"} : pc' = [pc EXCEPT ![u] = l]
    BY <1>1 DEF Get, Reapply, Call, Goto
  <2>2. UNCHANGED <<connectMu, connectGen, generation, served>>
    BY <1>1 DEF Get, Reapply, app, locals, history
  <2>3. u \in Procs /\ connectMu \in Workers \cup {None}
    BY DEF Procs, ConnInv, ConnTypes
  <2> QED
    BY <2>1, <2>2, <2>3, Move DEF Labels, Critical, Starting
<1>2. ASSUME NEW p \in Procs, Timeout(p) PROVE ConnInv'
  BY <1>2, Still DEF Timeout, app, locals, history
<1>3. CASE Serve
  BY <1>3, Still DEF Serve, app, locals, history
<1>4. CASE Crash
  BY <1>4, Still DEF Crash, app, locals, history
<1>5. CASE UNCHANGED vars
  BY <1>5, Still DEF vars, app, locals, history
<1> QED
  BY <1>1, <1>2, <1>3, <1>4, <1>5, CallConn, CallerStepsConn, ReconStepsConn,
     ReaderStepsConn DEF Next

\* The inductive invariant: the mutex, the generations and their order.
THEOREM ConnInvariance == Spec => []ConnInv
  BY InitConn, NextConn, PTL DEF Spec

\* A connect or a reconnect that was overtaken never starts a tunnel behind
\* the Connect or Disconnect that overtook it, for any number of callers,
\* reconnects, drops and crashes, and with or without the kill switch.
THEOREM SupersededNeverStartsHolds == Spec => []SupersededNeverStarts
<1>1. ConnInv => SupersededNeverStarts
  BY DEF ConnInv
<1> QED
  BY <1>1, ConnInvariance, PTL

\* connectMu admits one call at a time to the steps that talk to the core.
THEOREM OneCallAtATime ==
  Spec => [](\A p, q \in Workers :
                pc[p] \in Critical /\ pc[q] \in Critical => p = q)
<1>1. ConnInv => \A p, q \in Workers :
                    pc[p] \in Critical /\ pc[q] \in Critical => p = q
  BY DEF ConnInv, MutexInv
<1> QED
  BY <1>1, ConnInvariance, PTL

-----------------------------------------------------------------------------
(* Types, and the control connection *)

\* The part of TypeOK about the App and the local variables of its goroutines.
AppTypes ==
    /\ state \in States
    /\ lockedDown \in BOOLEAN
    /\ lastValid \in BOOLEAN
    /\ settings \in [auto : BOOLEAN, kill : BOOLEAN]
    /\ timeouts \in Nat
    /\ tries \in [Workers -> Nat]
    /\ attempt \in [Recons -> Nat]
    /\ snap \in [Procs -> States]
    /\ calls \in Nat
    /\ crashes \in Nat
    /\ wanted \in {"connect", "disconnect"}

\* The values App.state is given.
LEMMA StatesBuilt ==
  /\ \A s \in Statuses : St(s) \in States
  /\ \A s \in States : [s EXCEPT !.status = "connected"] \in States
  /\ \A b \in BOOLEAN : [St("error") EXCEPT !.blocked = b] \in States
  /\ \A b \in BOOLEAN : [status |-> "connecting", reconnecting |-> TRUE,
                         blocked |-> b] \in States
  BY DEF States, Statuses, St

\* The steps of connect and of GetConnectionState.
LEMMA ConnectAppTypes ==
  ASSUME AppTypes, NEW p \in Workers,
         \/ ConnectLock(p) \/ PlanFails(p) \/ Plan(p) \/ Try(p)
         \/ TryNext(p) \/ ConnectFails(p) \/ ConnectStarted(p)
         \/ ConnectDone(p) \/ GetRead(p) \/ GetAgrees(p) \/ GetDiffers(p)
         \/ GetReconcile(p)
  PROVE  AppTypes'
<1> USE StatesBuilt DEF AppTypes
<1>0. p \in Procs
  BY WorkersNotConns
<1>1. CASE ConnectLock(p)
  BY <1>0, <1>1
  DEF ConnectLock, locals, wire, history, bounds
<1>2. CASE PlanFails(p)
  BY <1>0, <1>2
  DEF PlanFails, SetState, locals, wire, history, bounds, Statuses
<1>3. CASE Plan(p)
  BY <1>0, <1>3, BoundsAssumption
  DEF Plan, SetState, wire, history, bounds, Statuses
<1>4. CASE Try(p)
  BY <1>0, <1>4
  DEF Try, SetState, locals, wire, history, bounds, Statuses
<1>5. CASE TryNext(p)
  BY <1>0, <1>5
  DEF TryNext, app, wire, history, bounds
<1>6. CASE ConnectFails(p)
  BY <1>0, <1>6
  DEF ConnectFails, SetState, locals, wire, history, bounds, Statuses
<1>7. CASE ConnectStarted(p)
  BY <1>0, <1>7
  DEF ConnectStarted, locals, wire, history, bounds
<1>8. CASE ConnectDone(p)
  BY <1>0, <1>8
  DEF ConnectDone, SetState, locals, wire, history, bounds, Statuses
<1>9. CASE GetRead(p)
  BY <1>0, <1>9
  DEF GetRead, app, history, bounds
<1>10. CASE GetAgrees(p)
  BY <1>0, <1>10
  DEF GetAgrees, locals, wire, history, bounds
<1>11. CASE GetDiffers(p)
  BY <1>0, <1>11
  DEF GetDiffers, app, locals, wire, history, bounds
<1>12. CASE GetReconcile(p)
  BY <1>0, <1>12
  DEF GetReconcile, SetState, locals, wire, history, bounds, Statuses
<1> QED
  BY <1>1, <1>2, <1>3, <1>4, <1>5, <1>6, <1>7, <1>8, <1>9, <1>10, <1>11,
    <1>12

\* Calls, and the steps of Disconnect and of reapplyRouting.
LEMMA CallerAppTypes ==
  ASSUME AppTypes, NEW u \in Callers,
         \/ Connect(u) \/ Disconnect(u) \/ Get(u) \/ Reapply(u)
         \/ DisconnectLock(u) \/ DisconnectIdle(u) \/ DisconnectDone(u)
         \/ ReapplyLock(u) \/ ReapplyStart(u) \/ ReapplyDone(u)
  PROVE  AppTypes'
<1> USE StatesBuilt DEF AppTypes
<1>0. u \in Procs /\ u \in Workers
  BY DEF Procs, Workers
<1>1. CASE Connect(u)
  BY <1>0, <1>1
  DEF Connect, Call, wire, history
<1>2. CASE Disconnect(u)
  BY <1>0, <1>2
  DEF Disconnect, Call, wire, history
<1>3. CASE Get(u)
  BY <1>0, <1>3
  DEF Get, Call, app, locals, wire, history
<1>4. CASE Reapply(u)
  BY <1>0, <1>4
  DEF Reapply, Call, app, locals, wire, history
<1>5. CASE DisconnectLock(u)
  BY <1>0, <1>5
  DEF DisconnectLock, locals, wire, bounds
<1>6. CASE DisconnectIdle(u)
  BY <1>0, <1>6
  DEF DisconnectIdle, SetState, locals, history, bounds, Statuses
<1>7. CASE DisconnectDone(u)
  BY <1>0, <1>7
  DEF DisconnectDone, SetState, locals, wire, history, bounds, Statuses
<1>8. CASE ReapplyLock(u)
  BY <1>0, <1>8
  DEF ReapplyLock, locals, wire, history, bounds
<1>9. CASE ReapplyStart(u)
  BY <1>0, <1>9
  DEF ReapplyStart, app, locals, wire, history, bounds
<1>10. CASE ReapplyDone(u)
  BY <1>0, <1>10
  DEF ReapplyDone, SetState, locals, wire, history, bounds, Statuses
<1> QED
  BY <1>1, <1>2, <1>3, <1>4, <1>5, <1>6, <1>7, <1>8, <1>9, <1>10

\* engageLockdown.
LEMMA LockdownAppTypes ==
  ASSUME AppTypes, NEW p \in Procs,
         \/ LockdownStore(p) \/ LockdownSend(p) \/ LockdownDone(p)
  PROVE  AppTypes'
<1> USE StatesBuilt DEF AppTypes
<1>1. CASE LockdownStore(p)
  BY <1>1
  DEF LockdownStore, locals, wire, history, bounds
<1>2. CASE LockdownSend(p)
  BY <1>2
  DEF LockdownSend, app, locals, history, bounds
<1>3. CASE LockdownDone(p)
  BY <1>3
  DEF LockdownDone, locals, wire, history, bounds
<1> QED
  BY <1>1, <1>2, <1>3

\* The reconnect loop.
LEMMA ReconAppTypes ==
  ASSUME AppTypes, NEW r \in Recons,
         \/ ReconBegin(r) \/ ReconAttempt(r) \/ ReconAnnounce(r)
         \/ ReconWake(r) \/ ReconGiveUp(r)
  PROVE  AppTypes'
<1> USE StatesBuilt DEF AppTypes
<1>0. r \in Procs /\ r \in Workers
  BY DEF Procs, Workers
<1>1. CASE ReconBegin(r)
  BY <1>0, <1>1
  DEF ReconBegin, app, locals, wire, history, bounds
<1>2. CASE ReconAttempt(r)
  BY <1>0, <1>2
  DEF ReconAttempt, app, wire, history, bounds
<1>3. CASE ReconAnnounce(r)
  BY <1>0, <1>3
  DEF ReconAnnounce, SetState, locals, wire, history, bounds
<1>4. CASE ReconWake(r)
  BY <1>0, <1>4
  DEF ReconWake, app, locals, wire, history, bounds
<1>5. CASE ReconGiveUp(r)
  BY <1>0, <1>5
  DEF ReconGiveUp, SetState, locals, wire, history, bounds, Statuses
<1> QED
  BY <1>1, <1>2, <1>3, <1>4, <1>5

\* readLoop and handleCoreState.
LEMMA ReaderAppTypes ==
  ASSUME AppTypes, NEW c \in Conns,
         \/ ReadResponse(c) \/ ReadEvent(c) \/ HandleUp(c) \/ HandleDown(c)
         \/ HandleLost(c) \/ HandleDrop(c) \/ HandleSpawn(c)
         \/ HandleError(c) \/ ReadEnd(c) \/ Reattach(c)
  PROVE  AppTypes'
<1> USE StatesBuilt DEF AppTypes
<1>0. c \in Procs
  BY WorkersNotConns
<1>1. CASE ReadResponse(c)
  BY <1>0, <1>1
  DEF ReadResponse, app, locals, history, bounds
<1>2. CASE ReadEvent(c)
  BY <1>0, <1>2
  DEF ReadEvent, app, history, bounds
<1>3. CASE HandleUp(c)
  BY <1>0, <1>3
  DEF HandleUp, SetState, locals, wire, history, bounds
<1>4. CASE HandleDown(c)
  BY <1>0, <1>4
  DEF HandleDown, locals, wire, history, bounds
<1>5. CASE HandleLost(c)
  BY <1>0, <1>5
  DEF HandleLost, SetState, locals, wire, history, bounds, Statuses
<1>6. CASE HandleDrop(c)
  BY <1>0, <1>6
  DEF HandleDrop, app, locals, wire, history, bounds
<1>7. CASE HandleSpawn(c)
  BY <1>0, <1>7
  DEF HandleSpawn, app, wire, history, bounds
<1>8. CASE HandleError(c)
  BY <1>0, <1>8
  DEF HandleError, SetState, locals, wire, history, bounds, Statuses
<1>9. CASE ReadEnd(c)
  BY <1>0, <1>9
  DEF ReadEnd, app, locals, history, bounds
<1>10. CASE Reattach(c)
  BY <1>0, <1>10
  DEF Reattach, app, wire, history, bounds
<1> QED
  BY <1>1, <1>2, <1>3, <1>4, <1>5, <1>6, <1>7, <1>8, <1>9, <1>10

-----------------------------------------------------------------------------

\* The part of TypeOK about the control connection.
WireTypes ==
    /\ answer \in [Procs -> Answers]
    /\ cur \in Conns \cup {0}
    /\ epoch \in Conns \cup {0}
    /\ reqs \in Seq(Requests)
    /\ inbox \in [Conns -> Seq(Messages)]
    /\ alive \in BOOLEAN
    /\ tunnel \in Tunnels

\* Commands of the control protocol.
Cmds == {"tunnel", "lockdown", "stop", "status"}

\* A step that sends nothing and touches no goroutine that waits.
LocalStep ==
    /\ UNCHANGED wire
    /\ answer' \in [Procs -> Answers]
    /\ \A p \in Procs : answer[p] = "wait" =>
          answer'[p] = "wait" /\ pc'[p] = pc[p]
    /\ \A p \in Procs : answer'[p] = "wait" => answer[p] = "wait"

LEMMA NoneNoProc == None \notin Procs
  BY ProcsAssumption, BoundsAssumption DEF Procs, Workers, Conns

\* Who is on the wire.
LEMMA WireElements ==
  ASSUME WireTypes
  PROVE  /\ Len(reqs) \in Nat
         /\ \A i \in 1..Len(reqs) :
               reqs[i] \in Requests /\ reqs[i].from \in Procs \cup {None}
         /\ \A c \in Conns : Len(inbox[c]) \in Nat
         /\ \A c \in Conns : \A i \in 1..Len(inbox[c]) :
               inbox[c][i] \in Messages /\ inbox[c][i].from \in Procs \cup {None}
<1>1. ASSUME NEW i \in 1..Len(reqs)
      PROVE  reqs[i] \in Requests /\ reqs[i].from \in Procs \cup {None}
  <2>1. reqs[i] \in Requests
    BY DEF WireTypes
  <2> QED
    BY <2>1 DEF Requests
<1>2. ASSUME NEW c \in Conns, NEW i \in 1..Len(inbox[c])
      PROVE  inbox[c][i] \in Messages /\ inbox[c][i].from \in Procs \cup {None}
  <2>1. inbox[c] \in Seq(Messages)
    BY DEF WireTypes
  <2>2. inbox[c][i] \in Messages
    BY <2>1
  <2> QED
    BY <2>2 DEF Messages
<1>3. Len(reqs) \in Nat /\ \A c \in Conns : Len(inbox[c]) \in Nat
  BY DEF WireTypes
<1> QED
  BY <1>1, <1>2, <1>3

LEMMA LocalStepWire ==
  ASSUME WireTypes, WireInv, LocalStep
  PROVE  WireTypes' /\ WireInv'
<1>1. WireTypes'
  BY DEF WireTypes, LocalStep, wire
<1>2. WaitersInv'
  BY DEF WireInv, WaitersInv, LocalStep
<1>3. LinkInv'
  BY DEF WireInv, LinkInv, LocalStep, wire
<1>4. RequestsInv'
  BY WireElements DEF WireInv, RequestsInv, LocalStep, wire
<1>5. NoStaleAnswer'
  BY WireElements DEF WireInv, NoStaleAnswer, LocalStep, wire
<1>6. OneCommandAtATime'
  BY DEF WireInv, OneCommandAtATime, LocalStep, wire
<1> QED
  BY <1>1, <1>2, <1>3, <1>4, <1>5, <1>6 DEF WireInv

\* A goroutine about to send a command holds connectMu, so no one who holds it
\* waits for an earlier one.
Commanding == {"try", "didle", "rstart"}
LEMMA NoneAwaited ==
  ASSUME WireTypes, WireInv, MutexInv, NEW x \in Workers, pc[x] \in Commanding
  PROVE  \A i \in 1..Len(reqs) : reqs[i].cmd \in Commands => reqs[i].from = None
<1> SUFFICES ASSUME NEW i \in 1..Len(reqs), reqs[i].cmd \in Commands,
                    reqs[i].from # None
             PROVE  FALSE
  OBVIOUS
<1>1. /\ reqs[i].from \in Workers
      /\ pc[reqs[i].from] \in {"await", "dwait", "rwait"}
  BY DEF WireInv, RequestsInv
<1>2. connectMu = x /\ connectMu = reqs[i].from
  BY <1>1 DEF MutexInv, Critical, Commanding
<1> QED
  BY <1>1, <1>2 DEF Commanding

\* A request written to a live service.
Sent(x, l, cmd) ==
    /\ alive
    /\ reqs' = Append(reqs, [from |-> x, cmd |-> cmd])
    /\ UNCHANGED <<cur, epoch, inbox, alive, tunnel>>
    /\ answer' = [answer EXCEPT ![x] = "wait"]
    /\ pc' = [pc EXCEPT ![x] = l]

LEMMA SentWire ==
  ASSUME WireTypes, ConnTypes, WireInv, MutexInv, NEW x \in Procs, NEW l \in Waiting,
         NEW cmd \in Cmds, pc[x] \notin Waiting, Sent(x, l, cmd),
         cmd \in Commands =>
            /\ x \in Workers /\ pc[x] \in Commanding
            /\ l \in {"await", "dwait", "rwait"}
  PROVE  WireTypes' /\ WireInv'
<1> DEFINE r == [from |-> x, cmd |-> cmd]
<1>0. answer[x] # "wait"
  BY DEF WireInv, WaitersInv
<1>1. r \in Requests /\ r.from = x /\ r.cmd = cmd
  BY DEF Requests, Cmds
<1>2. /\ reqs' \in Seq(Requests) /\ Len(reqs') = Len(reqs) + 1
      /\ \A i \in 1..Len(reqs) : reqs'[i] = reqs[i]
      /\ reqs'[Len(reqs) + 1] = r
  BY <1>1 DEF Sent, WireTypes
<1>3. WireTypes'
  BY <1>2 DEF WireTypes, Sent, Answers
<1>4. WaitersInv'
  BY DEF WireInv, WaitersInv, WireTypes, ConnTypes, Sent
<1>5. LinkInv'
  BY <1>2 DEF WireInv, LinkInv, WireTypes, Sent
<1>6. \A i \in 1..Len(reqs) :
         reqs[i].from \in Procs \cup {None} /\ reqs[i].from # x
  BY <1>0, WireElements, NoneNoProc DEF WireInv, RequestsInv
<1>7. RequestsInv'
  <2> SUFFICES ASSUME NEW i \in 1..Len(reqs'), reqs'[i].from # None
      PROVE /\ answer'[reqs'[i].from] = "wait"
            /\ \A j \in 1..Len(reqs') : reqs'[j].from = reqs'[i].from => j = i
            /\ reqs'[i].cmd \in Commands =>
                  /\ reqs'[i].from \in Workers
                  /\ pc'[reqs'[i].from] \in {"await", "dwait", "rwait"}
    BY DEF RequestsInv
  <2>0. Len(reqs) \in Nat
    BY DEF WireTypes
  <2>1. CASE i \in 1..Len(reqs)
    <3>1. /\ reqs'[i] = reqs[i] /\ reqs[i].from \in Procs
          /\ reqs[i].from # x /\ reqs[i].from # None
      BY <1>2, <1>6, <2>1
    <3>2. answer'[reqs[i].from] = "wait" /\ pc'[reqs[i].from] = pc[reqs[i].from]
      BY <2>1, <3>1 DEF WireInv, RequestsInv, Sent, WireTypes, ConnTypes
    <3>3. \A j \in 1..Len(reqs') : reqs'[j].from = reqs'[i].from => j = i
      BY <1>1, <1>2, <2>0, <2>1, <3>1 DEF WireInv, RequestsInv
    <3> QED
      BY <2>1, <3>1, <3>2, <3>3 DEF WireInv, RequestsInv
  <2>2. CASE i = Len(reqs) + 1
    <3>1. reqs'[i].from = x /\ reqs'[i].cmd = cmd
      BY <1>1, <1>2, <2>2
    <3>2. answer'[x] = "wait" /\ pc'[x] = l
      BY DEF Sent, WireTypes, ConnTypes
    <3>3. \A j \in 1..Len(reqs') : reqs'[j].from = x => j = i
      BY <1>2, <1>6, <2>0, <2>2
    <3> QED
      BY <3>1, <3>2, <3>3
  <2> QED
    BY <1>2, <2>0, <2>1, <2>2
<1>8. NoStaleAnswer'
  <2> SUFFICES ASSUME NEW c \in Conns, NEW i \in 1..Len(inbox[c]),
                      inbox[c][i].from # None
      PROVE /\ answer'[inbox[c][i].from] = "wait"
            /\ \A j \in 1..Len(reqs') : reqs'[j].from # inbox[c][i].from
            /\ \A j \in 1..Len(inbox[c]) :
                  inbox[c][j].from = inbox[c][i].from => j = i
    BY DEF NoStaleAnswer, Sent
  <2>1. inbox[c][i].from \in Procs
    BY WireElements
  <2>2. /\ answer[inbox[c][i].from] = "wait"
        /\ \A j \in 1..Len(reqs) : reqs[j].from # inbox[c][i].from
        /\ \A j \in 1..Len(inbox[c]) :
              inbox[c][j].from = inbox[c][i].from => j = i
    BY DEF WireInv, NoStaleAnswer
  <2>3. Len(reqs) \in Nat
    BY DEF WireTypes
  <2> QED
    BY <1>0, <1>1, <1>2, <2>1, <2>2, <2>3 DEF Sent, WireTypes
<1>9. OneCommandAtATime'
  <2> SUFFICES ASSUME NEW i \in 1..Len(reqs'), NEW j \in 1..Len(reqs'), i < j,
                      reqs'[i].cmd \in Commands, reqs'[j].cmd \in Commands
      PROVE reqs'[i].from = None
    BY DEF OneCommandAtATime
  <2>0. Len(reqs) \in Nat /\ i \in 1..Len(reqs) /\ reqs'[i] = reqs[i]
    BY <1>2 DEF WireTypes
  <2>1. CASE j \in 1..Len(reqs)
    BY <1>2, <2>0, <2>1 DEF WireInv, OneCommandAtATime
  <2>2. CASE j = Len(reqs) + 1
    <3>1. cmd \in Commands
      BY <1>1, <1>2, <2>2
    <3> QED
      BY <2>0, <3>1, NoneAwaited
  <2> QED
    BY <1>2, <2>0, <2>1, <2>2
<1> QED
  BY <1>3, <1>4, <1>5, <1>7, <1>8, <1>9 DEF WireInv

\* Ensure launches a service: no connection was left, so nothing was on the
\* wire, and the request is the first thing on the new connection.
LEMMA LaunchWire ==
  ASSUME WireTypes, ConnTypes, WireInv, MutexInv, NEW x \in Procs, NEW l \in Waiting,
         NEW cmd \in Cmds, pc[x] \notin Waiting,
         cur = 0, epoch < MaxConns, epoch' = epoch + 1, cur' = epoch + 1,
         alive' = TRUE, reqs' = <<[from |-> x, cmd |-> cmd]>>,
         answer' = [answer EXCEPT ![x] = "wait"], UNCHANGED <<inbox, tunnel>>,
         pc' = [pc EXCEPT ![x] = l],
         cmd \in Commands =>
            /\ x \in Workers /\ pc[x] \in Commanding
            /\ l \in {"await", "dwait", "rwait"}
  PROVE  WireTypes' /\ WireInv'
<1> DEFINE r == [from |-> x, cmd |-> cmd]
<1>1. r \in Requests /\ r.from = x /\ r.cmd = cmd
  BY DEF Requests, Cmds
<1>2. /\ reqs' \in Seq(Requests) /\ Len(reqs') = 1 /\ reqs'[1] = r
  BY <1>1
<1>3. epoch + 1 \in Conns
  BY BoundsAssumption DEF WireTypes, Conns
<1>4. \A c \in Conns : inbox[c] = <<>> /\ Len(inbox[c]) = 0
  BY BoundsAssumption DEF WireInv, LinkInv, Conns
<1>5. WireTypes'
  BY <1>2, <1>3 DEF WireTypes, Answers
<1>6. WaitersInv'
  BY DEF WireInv, WaitersInv, WireTypes, ConnTypes
<1>7. LinkInv'
  BY <1>3, <1>4, BoundsAssumption DEF LinkInv, Conns
<1>8. RequestsInv'
  <2>1. answer'[x] = "wait" /\ pc'[x] = l
    BY DEF WireTypes, ConnTypes
  <2>2. \A i \in 1..Len(reqs') : i = 1
    BY <1>2
  <2> HIDE DEF r
  <2> QED
    BY <1>1, <1>2, <2>1, <2>2 DEF RequestsInv
<1>9. NoStaleAnswer' /\ OneCommandAtATime'
  BY <1>2, <1>4 DEF NoStaleAnswer, OneCommandAtATime
<1> QED
  BY <1>5, <1>6, <1>7, <1>8, <1>9 DEF WireInv

\* A write on a dead connection, or an answer found without asking.
LEMMA RefusedLocal ==
  ASSUME WireTypes, ConnTypes, WireInv, NEW x \in Procs, NEW l \in Labels,
         NEW a \in Answers \ {"wait"}, pc[x] \notin Waiting, UNCHANGED wire,
         answer' = [answer EXCEPT ![x] = a], pc' = [pc EXCEPT ![x] = l]
  PROVE  LocalStep
<1>1. answer[x] # "wait"
  BY DEF WireInv, WaitersInv
<1> QED
  BY <1>1 DEF LocalStep, WireTypes, ConnTypes

\* Client.Start, and Client.Stop and Client.Running, from a goroutine that is
\* not waiting yet.
LEMMA AskWire ==
  ASSUME WireTypes, ConnTypes, WireInv, MutexInv, NEW x \in Procs, NEW l \in Waiting,
         NEW cmd \in Cmds, NEW a \in Answers \ {"wait"}, pc[x] \notin Waiting,
         \/ Start(x, cmd)
         \/ IfConnected(x, cmd, a)
         \/ answer' = [answer EXCEPT ![x] = a] /\ UNCHANGED wire,
         pc' = [pc EXCEPT ![x] = l],
         cmd \in Commands =>
            /\ x \in Workers /\ pc[x] \in Commanding
            /\ l \in {"await", "dwait", "rwait"}
  PROVE  WireTypes' /\ WireInv'
<1>0. l \in Labels /\ "err" \in Answers \ {"wait"}
  BY DEF Waiting, Labels, Answers
<1>1. CASE Request(x, cmd)
  <2>1. CASE alive
    BY <1>1, <2>1, SentWire DEF Request, Sent
  <2>2. CASE ~alive
    <3>1. UNCHANGED wire /\ answer' = [answer EXCEPT ![x] = "err"]
      BY <1>1, <2>2 DEF Request, wire
    <3> QED
      BY <1>0, <3>1, RefusedLocal, LocalStepWire
  <2> QED
    BY <2>1, <2>2
<1>2. CASE /\ cur = 0 /\ epoch < MaxConns /\ epoch' = epoch + 1
           /\ cur' = epoch + 1 /\ alive' = TRUE
           /\ reqs' = <<[from |-> x, cmd |-> cmd]>>
           /\ answer' = [answer EXCEPT ![x] = "wait"]
           /\ UNCHANGED <<inbox, tunnel>>
  BY <1>2, LaunchWire
<1>3. ASSUME NEW b \in Answers \ {"wait"}, UNCHANGED wire,
             answer' = [answer EXCEPT ![x] = b]
      PROVE  WireTypes' /\ WireInv'
  BY <1>0, <1>3, RefusedLocal, LocalStepWire
<1> QED
  BY <1>0, <1>1, <1>2, <1>3 DEF Start, IfConnected

\* A readLoop takes the head of its inbox.
LEMMA ReadHead ==
  ASSUME WireTypes, NEW c \in Conns, inbox[c] # <<>>, Read(c)
  PROVE  /\ inbox' \in [Conns -> Seq(Messages)]
         /\ Len(inbox'[c]) = Len(inbox[c]) - 1
         /\ \A i \in 1..Len(inbox'[c]) :
               i + 1 \in 1..Len(inbox[c]) /\ inbox'[c][i] = inbox[c][i + 1]
         /\ \A d \in Conns : d # c => inbox'[d] = inbox[d]
         /\ 1 \in 1..Len(inbox[c]) /\ Head(inbox[c]) = inbox[c][1]
<1> DEFINE s == inbox[c]
<1>1. s \in Seq(Messages) /\ s # <<>>
  BY DEF WireTypes
<1>2. inbox' \in [Conns -> Seq(Messages)] /\ inbox'[c] = Tail(s)
      /\ \A d \in Conns : d # c => inbox'[d] = inbox[d]
  BY <1>1 DEF Read, WireTypes
<1> HIDE DEF s
<1>3. /\ Len(Tail(s)) = Len(s) - 1 /\ Len(s) \in Nat /\ Len(s) > 0
      /\ \A i \in 1..Len(Tail(s)) : Tail(s)[i] = s[i + 1]
      /\ Head(s) = s[1]
  BY <1>1
<1> QED
  BY <1>2, <1>3 DEF s

\* What is left of the inbox keeps its order, and the goroutines it is for go
\* on waiting.
LEMMA ReadRest ==
  ASSUME WireTypes, WireInv, NEW c \in Conns, inbox[c] # <<>>, Read(c),
         UNCHANGED <<cur, epoch, reqs, alive>>,
         \A q \in Procs : q # Head(inbox[c]).from => answer'[q] = answer[q]
  PROVE  LinkInv' /\ NoStaleAnswer'
<1>1. c = cur
  BY DEF WireInv, LinkInv
<1>2. \A d \in Conns : d # c => inbox'[d] = <<>> /\ Len(inbox'[d]) = 0
  BY <1>1, ReadHead DEF WireInv, LinkInv
<1>3. LinkInv'
  <2>1. ASSUME NEW d \in Conns, NEW i \in 1..Len(inbox'[d]),
               inbox'[d][i].kind = "end"
        PROVE  ~alive /\ i = Len(inbox'[d])
    <3>1. d = c
      BY <1>2
    <3>2. i + 1 \in 1..Len(inbox[c]) /\ inbox[c][i + 1].kind = "end"
      BY <2>1, <3>1, ReadHead
    <3>3. ~alive /\ i + 1 = Len(inbox[c])
      BY <3>2 DEF WireInv, LinkInv
    <3> QED
      BY <3>1, <3>3, ReadHead, WireElements
  <2>2. \A d \in Conns : d # cur' => inbox'[d] = <<>>
    BY <1>1, <1>2
  <2>3. (cur \in {0, epoch} /\ (alive => cur # 0) /\ (~alive => reqs = <<>>))'
    BY DEF WireInv, LinkInv
  <2> QED
    BY <2>1, <2>2, <2>3 DEF LinkInv
<1>4. NoStaleAnswer'
  <2> SUFFICES ASSUME NEW d \in Conns, NEW i \in 1..Len(inbox'[d]),
                      inbox'[d][i].from # None
      PROVE  /\ answer'[inbox'[d][i].from] = "wait"
             /\ \A j \in 1..Len(reqs) : reqs[j].from # inbox'[d][i].from
             /\ \A j \in 1..Len(inbox'[d]) :
                   inbox'[d][j].from = inbox'[d][i].from => j = i
    BY DEF NoStaleAnswer
  <2>1. d = c
    BY <1>2
  <2>2. /\ i + 1 \in 1..Len(inbox[c]) /\ 1 \in 1..Len(inbox[c])
        /\ Head(inbox[c]) = inbox[c][1] /\ i + 1 # 1
        /\ inbox'[d][i] = inbox[c][i + 1]
        /\ \A j \in 1..Len(inbox'[c]) :
              j + 1 \in 1..Len(inbox[c]) /\ inbox'[c][j] = inbox[c][j + 1]
    BY <2>1, ReadHead
  <2>3. inbox[c][i + 1].from \in Procs /\ inbox[c][i + 1].from # None
    BY <2>2, WireElements
  <2>4. /\ answer[inbox[c][i + 1].from] = "wait"
        /\ \A j \in 1..Len(reqs) : reqs[j].from # inbox[c][i + 1].from
        /\ \A j \in 1..Len(inbox[c]) :
              inbox[c][j].from = inbox[c][i + 1].from => j = i + 1
    BY <2>2, <2>3 DEF WireInv, NoStaleAnswer
  <2>5. inbox[c][i + 1].from # Head(inbox[c]).from
    BY <2>2, <2>4
  <2>6. answer'[inbox[c][i + 1].from] = "wait"
    BY <2>3, <2>4, <2>5
  <2>7. \A j \in 1..Len(inbox'[c]) :
           inbox'[c][j].from = inbox[c][i + 1].from => j = i
    <3> SUFFICES ASSUME NEW j \in 1..Len(inbox'[c]),
                        inbox'[c][j].from = inbox[c][i + 1].from
                 PROVE  j = i
      OBVIOUS
    <3>1. j + 1 \in 1..Len(inbox[c]) /\ inbox[c][j + 1].from = inbox[c][i + 1].from
      BY <2>2
    <3>2. j + 1 = i + 1
      BY <2>4, <3>1
    <3> QED
      BY <3>2
  <2> QED
    BY <2>1, <2>2, <2>4, <2>6, <2>7
<1> QED
  BY <1>3, <1>4

\* An event is read: only the readLoop itself moves.
LEMMA ReadEventWire ==
  ASSUME WireTypes, ConnTypes, WireInv, NEW c \in Conns, ReadEvent(c)
  PROVE  WireTypes' /\ WireInv'
<1>1. /\ pc[c] = "read" /\ inbox[c] # <<>> /\ Read(c)
      /\ UNCHANGED <<answer, cur, epoch, reqs, alive, tunnel>>
  BY DEF ReadEvent, Incoming
<1>2. \A q \in Procs : q # c => pc'[q] = pc[q]
  BY DEF ReadEvent, Goto, ConnTypes
<1>3. answer[c] # "wait" /\ c \in Procs
  BY <1>1, WorkersNotConns DEF WireInv, WaitersInv, Waiting
<1>4. WireTypes'
  BY <1>1, ReadHead DEF WireTypes
<1>5. WaitersInv'
  BY <1>1, <1>2, <1>3 DEF WireInv, WaitersInv
<1>6. LinkInv' /\ NoStaleAnswer'
  BY <1>1, ReadRest
<1>7. RequestsInv'
  <2>1. \A i \in 1..Len(reqs) : reqs[i].from # None =>
           pc'[reqs[i].from] = pc[reqs[i].from]
    BY <1>2, <1>3, WireElements DEF WireInv, RequestsInv
  <2> QED
    BY <1>1, <2>1 DEF WireInv, RequestsInv
<1>8. OneCommandAtATime'
  BY <1>1 DEF WireInv, OneCommandAtATime
<1> QED
  BY <1>4, <1>5, <1>6, <1>7, <1>8 DEF WireInv

\* An answer is read: it was the only thing on the wire for that goroutine.
LEMMA ReadResponseWire ==
  ASSUME WireTypes, ConnTypes, WireInv, NEW c \in Conns, ReadResponse(c)
  PROVE  WireTypes' /\ WireInv'
<1> DEFINE m == Head(inbox[c])
<1>1. /\ inbox[c] # <<>> /\ Read(c)
      /\ UNCHANGED <<pc, cur, epoch, reqs, alive, tunnel>>
      /\ answer' = IF m.from = None THEN answer
                   ELSE [answer EXCEPT ![m.from] = m.value]
  BY DEF ReadResponse, Incoming
<1>2. m = inbox[c][1] /\ 1 \in 1..Len(inbox[c])
  BY <1>1, ReadHead
<1> HIDE DEF m
<1>3. m \in Messages /\ m.from \in Procs \cup {None} /\ m.value \in Answers
  BY <1>2, WireElements DEF Messages
<1>4. /\ answer' \in [Procs -> Answers]
      /\ \A q \in Procs : q # m.from => answer'[q] = answer[q]
  BY <1>1, <1>3 DEF WireTypes
<1>5. m.from # None =>
         /\ answer[m.from] = "wait"
         /\ \A j \in 1..Len(reqs) : reqs[j].from # m.from
         /\ \A j \in 1..Len(inbox[c]) : inbox[c][j].from = m.from => j = 1
  BY <1>2 DEF WireInv, NoStaleAnswer
<1>6. WireTypes'
  BY <1>1, <1>4, ReadHead DEF WireTypes
<1>7. WaitersInv'
  BY <1>1, <1>3, <1>4, <1>5 DEF WireInv, WaitersInv
<1>8. LinkInv' /\ NoStaleAnswer'
  BY <1>1, <1>4, ReadRest DEF m
<1>9. RequestsInv'
  <2>1. \A i \in 1..Len(reqs) : reqs[i].from # None =>
           answer'[reqs[i].from] = answer[reqs[i].from]
    BY <1>1, <1>4, <1>5, WireElements
  <2> QED
    BY <1>1, <2>1 DEF WireInv, RequestsInv
<1>10. OneCommandAtATime'
  BY <1>1 DEF WireInv, OneCommandAtATime
<1> QED
  BY <1>6, <1>7, <1>8, <1>9, <1>10 DEF WireInv

\* The end of a connection is the last thing on it: every waiter is let go,
\* and nothing of theirs is left on the wire.
LEMMA ReadEndWire ==
  ASSUME WireTypes, ConnTypes, WireInv, NEW c \in Conns, ReadEnd(c)
  PROVE  WireTypes' /\ WireInv'
<1>1. /\ pc[c] = "read" /\ inbox[c] # <<>> /\ Head(inbox[c]).kind = "end"
      /\ Read(c) /\ UNCHANGED <<epoch, reqs, alive, tunnel>>
  BY DEF ReadEnd, Incoming
<1>2. c = cur
  BY <1>1 DEF WireInv, LinkInv
<1>3. /\ cur' = 0
      /\ answer' = [p \in Procs |->
                      IF answer[p] = "wait" THEN "err" ELSE answer[p]]
  BY <1>2 DEF ReadEnd
<1>4. ~alive /\ reqs = <<>> /\ Len(inbox[c]) = 1
  BY <1>1, ReadHead DEF WireInv, LinkInv
<1>5. \A d \in Conns : inbox'[d] = <<>> /\ Len(inbox'[d]) = 0
  <2>1. inbox'[c] \in Seq(Messages) /\ Len(inbox'[c]) = 0
    BY <1>1, <1>4, ReadHead
  <2>2. inbox'[c] = <<>>
    BY <2>1, EmptySeq
  <2> QED
    BY <1>1, <1>2, <2>1, <2>2, ReadHead DEF WireInv, LinkInv
<1>6. WireTypes'
  BY <1>1, <1>3, ReadHead DEF WireTypes, Answers
<1>7. WaitersInv'
  BY <1>3 DEF WaitersInv
<1>8. LinkInv'
  BY <1>1, <1>3, <1>4, <1>5 DEF LinkInv
<1>9. RequestsInv' /\ NoStaleAnswer' /\ OneCommandAtATime'
  BY <1>1, <1>4, <1>5 DEF RequestsInv, NoStaleAnswer, OneCommandAtATime
<1> QED
  BY <1>6, <1>7, <1>8, <1>9 DEF WireInv

\* Forget keeps the messages and their order, and unlinks those for p.
LEMMA ForgetMessages ==
  ASSUME NEW s \in Seq(Messages), NEW p \in Procs
  PROVE  /\ Forget(s, p) \in Seq(Messages)
         /\ Len(Forget(s, p)) = Len(s)
         /\ \A i \in 1..Len(s) :
               /\ Forget(s, p)[i].kind = s[i].kind
               /\ Forget(s, p)[i].from =
                     IF s[i].from = p THEN None ELSE s[i].from
<1> DEFINE g == [i \in 1..Len(s) |->
                   IF s[i].from = p THEN [s[i] EXCEPT !.from = None] ELSE s[i]]
<1>0. Forget(s, p) = g /\ Len(s) \in Nat
  BY DEF Forget
<1>1. ASSUME NEW i \in 1..Len(s)
      PROVE  /\ g[i] \in Messages /\ g[i].kind = s[i].kind
             /\ g[i].from = IF s[i].from = p THEN None ELSE s[i].from
  <2>1. s[i] \in Messages
    OBVIOUS
  <2>2. CASE s[i].from = p
    <3>1. g[i] = [s[i] EXCEPT !.from = None]
      BY <2>2
    <3> HIDE DEF g
    <3> QED
      BY <2>1, <2>2, <3>1 DEF Messages
  <2>3. CASE s[i].from # p
    BY <2>1, <2>3
  <2> QED
    BY <2>2, <2>3
<1>2. g \in [1..Len(s) -> Messages]
  BY <1>1
<1>3. DOMAIN g = 1..Len(s)
  OBVIOUS
<1> HIDE DEF g
<1>4. g \in Seq(Messages) /\ Len(g) = Len(s)
  BY <1>0, <1>2, <1>3
<1> QED
  BY <1>0, <1>1, <1>4

\* Forget does the same to the requests.
LEMMA ForgetRequests ==
  ASSUME NEW s \in Seq(Requests), NEW p \in Procs
  PROVE  /\ Forget(s, p) \in Seq(Requests)
         /\ Len(Forget(s, p)) = Len(s)
         /\ \A i \in 1..Len(s) :
               /\ Forget(s, p)[i].cmd = s[i].cmd
               /\ Forget(s, p)[i].from =
                     IF s[i].from = p THEN None ELSE s[i].from
<1> DEFINE g == [i \in 1..Len(s) |->
                   IF s[i].from = p THEN [s[i] EXCEPT !.from = None] ELSE s[i]]
<1>0. Forget(s, p) = g /\ Len(s) \in Nat
  BY DEF Forget
<1>1. ASSUME NEW i \in 1..Len(s)
      PROVE  /\ g[i] \in Requests /\ g[i].cmd = s[i].cmd
             /\ g[i].from = IF s[i].from = p THEN None ELSE s[i].from
  <2>1. s[i] \in Requests
    OBVIOUS
  <2>2. CASE s[i].from = p
    <3>1. g[i] = [s[i] EXCEPT !.from = None]
      BY <2>2
    <3> HIDE DEF g
    <3> QED
      BY <2>1, <2>2, <3>1 DEF Requests
  <2>3. CASE s[i].from # p
    BY <2>1, <2>3
  <2> QED
    BY <2>2, <2>3
<1>2. g \in [1..Len(s) -> Requests]
  BY <1>1
<1>3. DOMAIN g = 1..Len(s)
  OBVIOUS
<1> HIDE DEF g
<1>4. g \in Seq(Requests) /\ Len(g) = Len(s)
  BY <1>0, <1>2, <1>3
<1> QED
  BY <1>0, <1>1, <1>4

\* A request that times out: nothing on the wire is for its goroutine
\* any more.
LEMMA TimeoutWire ==
  ASSUME WireTypes, WireInv, NEW p \in Procs, Timeout(p)
  PROVE  WireTypes' /\ WireInv'
<1>1. /\ answer' = [answer EXCEPT ![p] = "err"]
      /\ reqs' = Forget(reqs, p)
      /\ inbox' = [c \in Conns |-> Forget(inbox[c], p)]
      /\ UNCHANGED <<pc, cur, epoch, alive, tunnel>>
  BY DEF Timeout
<1>r. /\ reqs' \in Seq(Requests) /\ Len(reqs') = Len(reqs)
      /\ \A i \in 1..Len(reqs) :
            /\ reqs'[i].cmd = reqs[i].cmd
            /\ reqs'[i].from = IF reqs[i].from = p THEN None ELSE reqs[i].from
  BY <1>1, ForgetRequests DEF WireTypes
<1>2. \A c \in Conns : inbox[c] \in Seq(Messages) /\ inbox'[c] = Forget(inbox[c], p)
  BY <1>1 DEF WireTypes
<1>3. \A c \in Conns :
         /\ inbox'[c] \in Seq(Messages) /\ Len(inbox'[c]) = Len(inbox[c])
         /\ \A i \in 1..Len(inbox[c]) :
               /\ inbox'[c][i].kind = inbox[c][i].kind
               /\ inbox'[c][i].from =
                     IF inbox[c][i].from = p THEN None ELSE inbox[c][i].from
  BY <1>2, ForgetMessages
<1>4. WireTypes'
  BY <1>1, <1>3, <1>r DEF WireTypes, Answers
<1>5. WaitersInv'
  BY <1>1 DEF WireInv, WaitersInv, WireTypes
<1>6. LinkInv'
  <2>1. \A c \in Conns : c # cur' => inbox'[c] = <<>>
    <3> SUFFICES ASSUME NEW c \in Conns, c # cur PROVE inbox'[c] = <<>>
      BY <1>1
    <3>1. inbox[c] = <<>> /\ Len(inbox[c]) = 0
      BY DEF WireInv, LinkInv
    <3> QED
      BY <1>3, <3>1, EmptySeq
  <2>2. \A c \in Conns : \A i \in 1..Len(inbox'[c]) :
           inbox'[c][i].kind = "end" => ~alive' /\ i = Len(inbox'[c])
    BY <1>1, <1>3 DEF WireInv, LinkInv
  <2>3. ~alive => reqs' = <<>>
    <3> SUFFICES ASSUME ~alive PROVE reqs' = <<>>
      OBVIOUS
    <3>1. reqs = <<>> /\ Len(reqs) = 0
      BY DEF WireInv, LinkInv
    <3> QED
      BY <1>r, <3>1, EmptySeq
  <2> QED
    BY <1>1, <2>1, <2>2, <2>3 DEF WireInv, LinkInv
<1>7. RequestsInv'
  <2> SUFFICES ASSUME NEW i \in 1..Len(reqs'), reqs'[i].from # None
      PROVE /\ answer'[reqs'[i].from] = "wait"
            /\ \A j \in 1..Len(reqs') : reqs'[j].from = reqs'[i].from => j = i
            /\ reqs'[i].cmd \in Commands =>
                  /\ reqs'[i].from \in Workers
                  /\ pc'[reqs'[i].from] \in {"await", "dwait", "rwait"}
    BY DEF RequestsInv
  <2>1. /\ i \in 1..Len(reqs) /\ reqs[i].from # p /\ reqs[i].from # None
        /\ reqs'[i].from = reqs[i].from /\ reqs[i].from \in Procs
    BY <1>r, WireElements
  <2>2. /\ answer'[reqs[i].from] = answer[reqs[i].from]
        /\ pc'[reqs[i].from] = pc[reqs[i].from]
    BY <1>1, <2>1 DEF WireTypes
  <2>3. \A j \in 1..Len(reqs') : reqs'[j].from = reqs[i].from => j = i
    BY <1>r, <2>1 DEF WireInv, RequestsInv
  <2> QED
    BY <1>r, <2>1, <2>2, <2>3 DEF WireInv, RequestsInv
<1>9. OneCommandAtATime'
  <2> SUFFICES ASSUME NEW i \in 1..Len(reqs), NEW j \in 1..Len(reqs), i < j,
                      reqs'[i].cmd \in Commands, reqs'[j].cmd \in Commands
      PROVE reqs'[i].from = None
    BY <1>r DEF OneCommandAtATime
  <2>1. reqs[i].from = None
    BY <1>r DEF WireInv, OneCommandAtATime
  <2> QED
    BY <1>r, <2>1
<1>8. NoStaleAnswer'
  <2> SUFFICES ASSUME NEW c \in Conns, NEW i \in 1..Len(inbox'[c]),
                      inbox'[c][i].from # None
      PROVE  /\ answer'[inbox'[c][i].from] = "wait"
             /\ \A j \in 1..Len(reqs') : reqs'[j].from # inbox'[c][i].from
             /\ \A j \in 1..Len(inbox'[c]) :
                   inbox'[c][j].from = inbox'[c][i].from => j = i
    BY DEF NoStaleAnswer
  <2>1. /\ i \in 1..Len(inbox[c]) /\ inbox[c][i].from # p
        /\ inbox'[c][i].from = inbox[c][i].from /\ inbox[c][i].from \in Procs
    BY <1>3, WireElements
  <2>2. /\ answer[inbox[c][i].from] = "wait"
        /\ \A j \in 1..Len(inbox[c]) :
              inbox[c][j].from = inbox[c][i].from => j = i
    BY <2>1, NoneNoProc DEF WireInv, NoStaleAnswer
  <2>3. answer'[inbox[c][i].from] = "wait"
    BY <1>1, <2>1, <2>2 DEF WireTypes
  <2>4. \A j \in 1..Len(inbox'[c]) :
           inbox'[c][j].from = inbox[c][i].from => j = i
    BY <1>3, <2>1, <2>2, NoneNoProc
  <2>5. \A j \in 1..Len(reqs') : reqs'[j].from # inbox[c][i].from
    BY <1>r, <2>1, NoneNoProc DEF WireInv, NoStaleAnswer
  <2> QED
    BY <2>1, <2>3, <2>4, <2>5
<1> QED
  BY <1>4, <1>5, <1>6, <1>7, <1>8, <1>9 DEF WireInv

\* The service dies: what it had not read is gone, and the end of the
\* connection is the last thing on it.
LEMMA CrashWire ==
  ASSUME WireTypes, WireInv, Crash
  PROVE  WireTypes' /\ WireInv'
<1> DEFINE e == [kind |-> "end", from |-> None, value |-> "down"]
<1>1. /\ alive /\ alive' = FALSE /\ tunnel' = "none" /\ reqs' = <<>>
      /\ inbox' = [inbox EXCEPT ![epoch] = Append(@, e)]
      /\ UNCHANGED <<pc, answer, cur, epoch>>
  BY DEF Crash
<1>2. epoch \in Conns /\ cur = epoch
  BY <1>1 DEF WireInv, LinkInv, WireTypes
<1>3. e \in Messages /\ e.from = None /\ e.kind = "end"
  BY DEF Messages, Answers
<1> HIDE DEF e
<1>4. inbox[epoch] \in Seq(Messages)
  BY <1>2 DEF WireTypes
<1>5. /\ inbox'[epoch] \in Seq(Messages)
      /\ Len(inbox'[epoch]) = Len(inbox[epoch]) + 1 /\ Len(inbox[epoch]) \in Nat
      /\ \A i \in 1..Len(inbox[epoch]) : inbox'[epoch][i] = inbox[epoch][i]
      /\ inbox'[epoch][Len(inbox[epoch]) + 1] = e
      /\ \A c \in Conns : c # epoch => inbox'[c] = inbox[c]
  <2>1. inbox'[epoch] = Append(inbox[epoch], e)
    BY <1>1, <1>2 DEF WireTypes
  <2>2. \A c \in Conns : c # epoch => inbox'[c] = inbox[c]
    BY <1>1 DEF WireTypes
  <2> QED
    BY <1>3, <1>4, <2>1, <2>2
<1>6. WireTypes'
  <2>1. inbox' \in [Conns -> Seq(Messages)]
    <3>1. Append(inbox[epoch], e) \in Seq(Messages)
      BY <1>3, <1>4
    <3>2. inbox \in [Conns -> Seq(Messages)]
      BY DEF WireTypes
    <3> QED
      BY <1>1, <3>1, <3>2
  <2>2. alive' \in BOOLEAN
    BY <1>1
  <2>3. reqs' \in Seq(Requests) /\ tunnel' \in Tunnels
    BY <1>1 DEF Tunnels
  <2>4. answer' = answer /\ cur' = cur /\ epoch' = epoch
    BY <1>1
  <2> QED
    BY <2>1, <2>2, <2>3, <2>4 DEF WireTypes
<1>7. WaitersInv' /\ RequestsInv' /\ OneCommandAtATime'
  BY <1>1 DEF WireInv, WaitersInv, RequestsInv, OneCommandAtATime
<1>8. LinkInv'
  <2>1. ASSUME NEW c \in Conns, NEW i \in 1..Len(inbox'[c]),
               inbox'[c][i].kind = "end"
        PROVE  i = Len(inbox'[c])
    <3>1. i \notin 1..Len(inbox[c])
      BY <1>1, <1>5, <2>1 DEF WireInv, LinkInv
    <3> QED
      BY <1>5, <3>1
  <2>2. \A c \in Conns : c # cur => inbox'[c] = <<>>
    BY <1>2, <1>5 DEF WireInv, LinkInv
  <2> QED
    BY <1>1, <1>2, <2>1, <2>2 DEF WireInv, LinkInv
<1>9. NoStaleAnswer'
  <2> SUFFICES ASSUME NEW c \in Conns, NEW i \in 1..Len(inbox'[c]),
                      inbox'[c][i].from # None
      PROVE  /\ answer[inbox'[c][i].from] = "wait"
             /\ \A j \in 1..Len(inbox'[c]) :
                   inbox'[c][j].from = inbox'[c][i].from => j = i
    BY <1>1 DEF NoStaleAnswer
  <2>1. i \in 1..Len(inbox[c]) /\ inbox'[c][i] = inbox[c][i]
    BY <1>3, <1>5
  <2>2. /\ answer[inbox[c][i].from] = "wait"
        /\ \A j \in 1..Len(inbox[c]) :
              inbox[c][j].from = inbox[c][i].from => j = i
    BY <2>1 DEF WireInv, NoStaleAnswer
  <2> QED
    BY <1>3, <1>5, <2>1, <2>2
<1> QED
  BY <1>6, <1>7, <1>8, <1>9 DEF WireInv

\* The service answers: the request leaves the wire as its answer enters it.
LEMMA ServeWire ==
  ASSUME WireTypes, WireInv, Serve
  PROVE  WireTypes' /\ WireInv'
<1> DEFINE q == Head(reqs)
           s == inbox[epoch]
<1>1. PICK o \in Outcomes(q.cmd) :
         /\ tunnel' = o[1]
         /\ inbox' = [inbox EXCEPT ![epoch] = @ \o
               (IF q.cmd = "status" THEN <<>> ELSE <<Event(o[1])>>)
               \o <<Response(q.from, o[2])>>]
  BY DEF Serve
<1>2. /\ alive /\ reqs # <<>> /\ reqs' = Tail(reqs)
      /\ UNCHANGED <<pc, answer, cur, epoch, alive>>
  BY DEF Serve
<1>3. /\ q = reqs[1] /\ 1 \in 1..Len(reqs)
      /\ reqs' \in Seq(Requests) /\ Len(reqs') = Len(reqs) - 1
      /\ \A i \in 1..Len(reqs') :
            i + 1 \in 1..Len(reqs) /\ reqs'[i] = reqs[i + 1] /\ i + 1 # 1
  <2>1. reqs \in Seq(Requests)
    BY DEF WireTypes
  <2> QED
    BY <1>2, <2>1
<1> HIDE DEF q
<1>4. q.from \in Procs \cup {None} /\ q.cmd \in Cmds
  <2>1. q \in Requests
    BY <1>3, WireElements
  <2> QED
    BY <2>1 DEF Requests, Cmds
<1>5. o[1] \in Tunnels /\ o[2] \in Answers
  BY <1>4 DEF Outcomes, Cmds, Tunnels, Answers, Up, WireTypes
<1> DEFINE ev == Event(o[1])
           re == Response(q.from, o[2])
<1>6. /\ ev \in Messages /\ ev.from = None /\ ev.kind # "end"
      /\ re \in Messages /\ re.from = q.from /\ re.kind # "end"
  BY <1>4, <1>5 DEF Event, Response, Messages, Answers, Up
<1>7. epoch \in Conns /\ cur = epoch
  BY <1>2 DEF WireInv, LinkInv, WireTypes
<1>8. s \in Seq(Messages) /\ Len(s) \in Nat
  BY <1>7 DEF WireTypes
<1>9. \A c \in Conns : c # epoch => inbox'[c] = inbox[c]
  BY <1>1 DEF WireTypes
<1>10. inbox'[epoch] =
         (s \o (IF q.cmd = "status" THEN <<>> ELSE <<ev>>)) \o <<re>>
  BY <1>1, <1>7 DEF WireTypes
<1> HIDE DEF s, ev, re
\* The answer is last, after the event if there is one.
<1>11. PICK n \in Nat :
          /\ n >= Len(s)
          /\ inbox'[epoch] \in Seq(Messages) /\ Len(inbox'[epoch]) = n + 1
          /\ inbox'[epoch][n + 1] = re
          /\ \A i \in 1..n : i \in 1..Len(s) => inbox'[epoch][i] = s[i]
          /\ \A i \in 1..n : i \notin 1..Len(s) => inbox'[epoch][i] = ev
  <2>1. CASE q.cmd = "status"
    <3>1. inbox'[epoch] = s \o <<re>>
      BY <1>8, <1>10, <2>1
    <3>2. <<re>> \in Seq(Messages) /\ Len(<<re>>) = 1 /\ <<re>>[1] = re
      BY <1>6
    <3> QED
      BY <1>8, <3>1, <3>2, ConcatProperties
  <2>2. CASE q.cmd # "status"
    <3>1. inbox'[epoch] = (s \o <<ev>>) \o <<re>>
      BY <1>10, <2>2
    <3>2. /\ <<re>> \in Seq(Messages) /\ Len(<<re>>) = 1 /\ <<re>>[1] = re
          /\ <<ev>> \in Seq(Messages) /\ Len(<<ev>>) = 1 /\ <<ev>>[1] = ev
      BY <1>6
    <3> DEFINE t == s \o <<ev>>
    <3>3. /\ t \in Seq(Messages) /\ Len(t) = Len(s) + 1
          /\ \A i \in 1..Len(s) : t[i] = s[i]
          /\ t[Len(s) + 1] = ev
      BY <1>8, <3>2, ConcatProperties
    <3> HIDE DEF t
    <3>4. /\ inbox'[epoch] \in Seq(Messages)
          /\ Len(inbox'[epoch]) = Len(s) + 2
          /\ inbox'[epoch][Len(s) + 2] = re
          /\ \A i \in 1..(Len(s) + 1) : inbox'[epoch][i] = t[i]
      <4>1. inbox'[epoch] = t \o <<re>>
        BY <3>1 DEF t
      <4> QED
        BY <1>8, <3>2, <3>3, <4>1, ConcatProperties
    <3>5. \A i \in 1..(Len(s) + 1) : i \notin 1..Len(s) => i = Len(s) + 1
      BY <1>8
    <3> WITNESS Len(s) + 1 \in Nat
    <3> QED
      BY <1>8, <3>3, <3>4, <3>5
  <2> QED
    BY <2>1, <2>2
<1>12. /\ \A i \in 1..n : i \in 1..Len(s) => inbox'[epoch][i].from = s[i].from
       /\ \A i \in 1..n : i \notin 1..Len(s) => inbox'[epoch][i].from = None
       /\ inbox'[epoch][n + 1].from = q.from
  BY <1>6, <1>11
<1>13. q.from # None =>
         /\ answer[q.from] = "wait"
         /\ \A i \in 1..Len(reqs') : reqs'[i].from # q.from
  BY <1>2, <1>3 DEF WireInv, RequestsInv
<1>14. q.from # None => \A i \in 1..Len(s) : s[i].from # q.from
  <2> SUFFICES ASSUME q.from # None, NEW i \in 1..Len(s), s[i].from = q.from
               PROVE  FALSE
    OBVIOUS
  <2> QED
    BY <1>3, <1>7 DEF WireInv, NoStaleAnswer, s
<1>15. WireTypes'
  BY <1>1, <1>2, <1>3, <1>5, <1>7, <1>9, <1>11 DEF WireTypes
<1>16. WaitersInv'
  BY <1>2 DEF WireInv, WaitersInv
<1>17. LinkInv'
  <2>1. ASSUME NEW c \in Conns, NEW i \in 1..Len(inbox'[c])
        PROVE  inbox'[c][i].kind # "end"
    <3>1. CASE c # epoch
      BY <1>2, <1>9, <3>1 DEF WireInv, LinkInv
    <3>2. CASE c = epoch /\ i \in 1..Len(s)
      <4>1. inbox'[c][i] = s[i]
        BY <1>8, <1>11, <3>2
      <4> QED
        BY <1>2, <1>7, <3>2, <4>1 DEF WireInv, LinkInv, s
    <3>3. CASE c = epoch /\ i \notin 1..Len(s)
      BY <1>6, <1>11, <3>3
    <3> QED
      BY <3>1, <3>2, <3>3
  <2>2. \A c \in Conns : c # cur => inbox'[c] = <<>>
    BY <1>7, <1>9 DEF WireInv, LinkInv
  <2> QED
    BY <1>2, <1>7, <2>1, <2>2 DEF WireInv, LinkInv
<1>18. RequestsInv'
  BY <1>2, <1>3 DEF WireInv, RequestsInv
<1>19. NoStaleAnswer'
  <2> SUFFICES ASSUME NEW c \in Conns, NEW i \in 1..Len(inbox'[c]),
                      inbox'[c][i].from # None
      PROVE  /\ answer[inbox'[c][i].from] = "wait"
             /\ \A j \in 1..Len(reqs') : reqs'[j].from # inbox'[c][i].from
             /\ \A j \in 1..Len(inbox'[c]) :
                   inbox'[c][j].from = inbox'[c][i].from => j = i
    BY <1>2 DEF NoStaleAnswer
  <2>0. c = epoch
    <3>1. CASE c # epoch
      <4>1. inbox'[c] = <<>>
        BY <1>7, <1>9, <3>1 DEF WireInv, LinkInv
      <4> QED
        BY <4>1
    <3> QED
      BY <3>1
  <2>1. CASE i = n + 1
    BY <1>8, <1>11, <1>12, <1>13, <1>14, <2>0, <2>1
  <2>2. CASE i \in 1..n
    <3>1. i \in 1..Len(s) /\ inbox'[epoch][i].from = s[i].from
      BY <1>12, <2>0, <2>2
    <3>2. /\ answer[s[i].from] = "wait"
          /\ \A j \in 1..Len(reqs) : reqs[j].from # s[i].from
          /\ \A j \in 1..Len(s) : s[j].from = s[i].from => j = i
      BY <1>7, <2>0, <3>1 DEF WireInv, NoStaleAnswer, s
    <3>3. \A j \in 1..Len(reqs') : reqs'[j].from # s[i].from
      BY <1>3, <3>2
    <3>4. \A j \in 1..Len(inbox'[epoch]) :
             inbox'[epoch][j].from = s[i].from => j = i
      <4>1. \A j \in 1..n : inbox'[epoch][j].from = s[i].from => j = i
        BY <1>8, <1>11, <1>12, <2>0, <3>1, <3>2
      <4>2. inbox'[epoch][n + 1].from # s[i].from
        BY <1>12, <1>14, <2>0, <3>1
      <4>3. Len(inbox'[epoch]) = n + 1
        BY <1>11
      <4>4. \A j \in 1..(n + 1) : j \in 1..n \/ j = n + 1
        OBVIOUS
      <4> QED
        BY <4>1, <4>2, <4>3, <4>4
    <3> QED
      BY <2>0, <3>1, <3>2, <3>3, <3>4
  <2> QED
    BY <1>11, <2>0, <2>1, <2>2
<1>20. OneCommandAtATime'
  <2> SUFFICES ASSUME NEW i \in 1..Len(reqs'), NEW j \in 1..Len(reqs'), i < j,
                      reqs'[i].cmd \in Commands, reqs'[j].cmd \in Commands
      PROVE reqs'[i].from = None
    BY DEF OneCommandAtATime
  <2>1. /\ i + 1 \in 1..Len(reqs) /\ reqs'[i] = reqs[i + 1]
        /\ j + 1 \in 1..Len(reqs) /\ reqs'[j] = reqs[j + 1] /\ i + 1 < j + 1
    BY <1>3
  <2>2. reqs[i + 1].from = None
    BY <2>1 DEF WireInv, OneCommandAtATime
  <2> QED
    BY <2>1, <2>2
<1> QED
  BY <1>15, <1>16, <1>17, <1>18, <1>19, <1>20 DEF WireInv

\* The steps of connect and of GetConnectionState.
LEMMA ConnectWire ==
  ASSUME WireTypes, ConnTypes, WireInv, MutexInv, NEW p \in Workers,
         \/ ConnectLock(p) \/ PlanFails(p) \/ Plan(p) \/ Try(p)
         \/ TryNext(p) \/ ConnectFails(p) \/ ConnectStarted(p)
         \/ ConnectDone(p) \/ GetRead(p) \/ GetAgrees(p) \/ GetDiffers(p)
         \/ GetReconcile(p)
  PROVE  WireTypes' /\ WireInv'
<1>0. p \in Procs
  BY WorkersNotConns
<1>w. pc[p] \notin Waiting => answer[p] # "wait"
  BY <1>0 DEF WireInv, WaitersInv
<1>1. CASE ConnectLock(p)
  <2>1. LocalStep
    BY <1>0, <1>1, <1>w
    DEF ConnectLock, LocalStep, WireTypes, ConnTypes, Waiting, Answers, Goto,
      locals, wire, history, bounds
  <2> QED
    BY <2>1, LocalStepWire
<1>2. CASE PlanFails(p)
  <2>1. LocalStep
    BY <1>0, <1>2, <1>w
    DEF PlanFails, LocalStep, WireTypes, ConnTypes, Waiting, Answers, Goto,
      Return, locals, wire, history, bounds
  <2> QED
    BY <2>1, LocalStepWire
<1>3. CASE Plan(p)
  <2>1. LocalStep
    BY <1>0, <1>3, <1>w
    DEF Plan, LocalStep, WireTypes, ConnTypes, Waiting, Answers, Goto, wire,
      history, bounds
  <2> QED
    BY <2>1, LocalStepWire
<1>4. CASE Try(p)
  <2>1. /\ pc[p] \notin Waiting /\ pc[p] \in Commanding
        /\ "await" \in Waiting /\ "tunnel" \in Cmds
    BY <1>4 DEF Try, Waiting, Commanding, Cmds
  <2>2. pc' = [pc EXCEPT ![p] = "await"]
    BY <1>4 DEF Try, Goto
  <2>3. \/ Start(p, "tunnel")
        \/ answer' = [answer EXCEPT ![p] = "err"] /\ UNCHANGED wire
    BY <1>4 DEF Try
  <2>4. "err" \in Answers \ {"wait"}
    BY DEF Answers
  <2> QED
    BY <1>0, <2>1, <2>2, <2>3, <2>4, AskWire
<1>5. CASE TryNext(p)
  <2>1. LocalStep
    BY <1>0, <1>5, <1>w
    DEF TryNext, LocalStep, WireTypes, ConnTypes, Waiting, Answers, Goto, app,
      wire, history, bounds
  <2> QED
    BY <2>1, LocalStepWire
<1>6. CASE ConnectFails(p)
  <2>1. LocalStep
    BY <1>0, <1>6, <1>w
    DEF ConnectFails, LocalStep, WireTypes, ConnTypes, Waiting, Answers, Goto,
      Return, locals, wire, history, bounds
  <2> QED
    BY <2>1, LocalStepWire
<1>7. CASE ConnectStarted(p)
  <2>1. LocalStep
    BY <1>0, <1>7, <1>w
    DEF ConnectStarted, LocalStep, WireTypes, ConnTypes, Waiting, Answers,
      Goto, locals, wire, history, bounds
  <2> QED
    BY <2>1, LocalStepWire
<1>8. CASE ConnectDone(p)
  <2>1. LocalStep
    BY <1>0, <1>8, <1>w
    DEF ConnectDone, LocalStep, WireTypes, ConnTypes, Waiting, Answers, Goto,
      Return, locals, wire, history, bounds
  <2> QED
    BY <2>1, LocalStepWire
<1>9. CASE GetRead(p)
  <2>1. /\ pc[p] \notin Waiting /\ "gwait" \in Waiting
        /\ "status" \in Cmds \ Commands
    BY <1>9 DEF GetRead, Waiting, Commands, Cmds
  <2>2. pc' = [pc EXCEPT ![p] = "gwait"]
    BY <1>9 DEF GetRead, Goto
  <2>3. IfConnected(p, "status", "down")
    BY <1>9 DEF GetRead
  <2>4. "down" \in Answers \ {"wait"}
    BY DEF Answers
  <2> QED
    BY <1>0, <2>1, <2>2, <2>3, <2>4, AskWire
<1>10. CASE GetAgrees(p)
  <2>1. LocalStep
    BY <1>0, <1>10, <1>w
    DEF GetAgrees, LocalStep, WireTypes, ConnTypes, Waiting, Answers, Goto,
      Return, GetReturn, Answered, locals, wire, history, bounds
  <2> QED
    BY <2>1, LocalStepWire
<1>11. CASE GetDiffers(p)
  <2>1. LocalStep
    BY <1>0, <1>11, <1>w
    DEF GetDiffers, LocalStep, WireTypes, ConnTypes, Waiting, Answers, Goto,
      Answered, app, locals, wire, history, bounds
  <2> QED
    BY <2>1, LocalStepWire
<1>12. CASE GetReconcile(p)
  <2>1. LocalStep
    BY <1>0, <1>12, <1>w
    DEF GetReconcile, LocalStep, WireTypes, ConnTypes, Waiting, Answers, Goto,
      Return, GetReturn, locals, wire, history, bounds
  <2> QED
    BY <2>1, LocalStepWire
<1> QED
  BY <1>1, <1>2, <1>3, <1>4, <1>5, <1>6, <1>7, <1>8, <1>9, <1>10, <1>11,
    <1>12

\* Calls, and the steps of Disconnect and of reapplyRouting.
LEMMA CallerWire ==
  ASSUME WireTypes, ConnTypes, WireInv, MutexInv, NEW u \in Callers,
         \/ Connect(u) \/ Disconnect(u) \/ Get(u) \/ Reapply(u)
         \/ DisconnectLock(u) \/ DisconnectIdle(u) \/ DisconnectDone(u)
         \/ ReapplyLock(u) \/ ReapplyStart(u) \/ ReapplyDone(u)
  PROVE  WireTypes' /\ WireInv'
<1>0. u \in Procs /\ u \in Workers
  BY DEF Procs, Workers
<1>w. pc[u] \notin Waiting => answer[u] # "wait"
  BY <1>0 DEF WireInv, WaitersInv
<1>1. CASE Connect(u)
  <2>1. LocalStep
    BY <1>0, <1>1, <1>w
    DEF Connect, LocalStep, WireTypes, ConnTypes, Waiting, Answers, Goto, Call,
      wire, history
  <2> QED
    BY <2>1, LocalStepWire
<1>2. CASE Disconnect(u)
  <2>1. LocalStep
    BY <1>0, <1>2, <1>w
    DEF Disconnect, LocalStep, WireTypes, ConnTypes, Waiting, Answers, Goto,
      Call, wire, history
  <2> QED
    BY <2>1, LocalStepWire
<1>3. CASE Get(u)
  <2>1. LocalStep
    BY <1>0, <1>3, <1>w
    DEF Get, LocalStep, WireTypes, ConnTypes, Waiting, Answers, Goto, Call,
      app, locals, wire, history
  <2> QED
    BY <2>1, LocalStepWire
<1>4. CASE Reapply(u)
  <2>1. LocalStep
    BY <1>0, <1>4, <1>w
    DEF Reapply, LocalStep, WireTypes, ConnTypes, Waiting, Answers, Goto, Call,
      app, locals, wire, history
  <2> QED
    BY <2>1, LocalStepWire
<1>5. CASE DisconnectLock(u)
  <2>1. LocalStep
    BY <1>0, <1>5, <1>w
    DEF DisconnectLock, LocalStep, WireTypes, ConnTypes, Waiting, Answers,
      Goto, locals, wire, bounds
  <2> QED
    BY <2>1, LocalStepWire
<1>6. CASE DisconnectIdle(u)
  <2>1. /\ pc[u] \notin Waiting /\ pc[u] \in Commanding
        /\ "dwait" \in Waiting /\ "stop" \in Cmds
    BY <1>6 DEF DisconnectIdle, Waiting, Commanding, Cmds
  <2>2. pc' = [pc EXCEPT ![u] = "dwait"]
    BY <1>6 DEF DisconnectIdle, Goto
  <2>3. IfConnected(u, "stop", "ok")
    BY <1>6 DEF DisconnectIdle
  <2>4. "ok" \in Answers \ {"wait"}
    BY DEF Answers
  <2> QED
    BY <1>0, <2>1, <2>2, <2>3, <2>4, AskWire
<1>7. CASE DisconnectDone(u)
  <2>1. LocalStep
    BY <1>0, <1>7, <1>w
    DEF DisconnectDone, LocalStep, WireTypes, ConnTypes, Waiting, Answers,
      Goto, Answered, locals, wire, history, bounds
  <2> QED
    BY <2>1, LocalStepWire
<1>8. CASE ReapplyLock(u)
  <2>1. LocalStep
    BY <1>0, <1>8, <1>w
    DEF ReapplyLock, LocalStep, WireTypes, ConnTypes, Waiting, Answers, Goto,
      locals, wire, history, bounds
  <2> QED
    BY <2>1, LocalStepWire
<1>9. CASE ReapplyStart(u)
  <2>1. /\ pc[u] \notin Waiting /\ pc[u] \in Commanding
        /\ "rwait" \in Waiting /\ "tunnel" \in Cmds
    BY <1>9 DEF ReapplyStart, Waiting, Commanding, Cmds
  <2>2. pc' = [pc EXCEPT ![u] = "rwait"]
    BY <1>9 DEF ReapplyStart, Goto
  <2>3. \/ Start(u, "tunnel")
        \/ answer' = [answer EXCEPT ![u] = "err"] /\ UNCHANGED wire
    BY <1>9 DEF ReapplyStart
  <2>4. "err" \in Answers \ {"wait"}
    BY DEF Answers
  <2> QED
    BY <1>0, <2>1, <2>2, <2>3, <2>4, AskWire
<1>10. CASE ReapplyDone(u)
  <2>1. LocalStep
    BY <1>0, <1>10, <1>w
    DEF ReapplyDone, LocalStep, WireTypes, ConnTypes, Waiting, Answers, Goto,
      Answered, locals, wire, history, bounds
  <2> QED
    BY <2>1, LocalStepWire
<1> QED
  BY <1>1, <1>2, <1>3, <1>4, <1>5, <1>6, <1>7, <1>8, <1>9, <1>10

\* engageLockdown.
LEMMA LockdownWire ==
  ASSUME WireTypes, ConnTypes, WireInv, MutexInv, NEW p \in Procs,
         \/ LockdownStore(p) \/ LockdownSend(p) \/ LockdownDone(p)
  PROVE  WireTypes' /\ WireInv'
<1>w. pc[p] \notin Waiting => answer[p] # "wait"
  BY DEF WireInv, WaitersInv
<1>1. CASE LockdownStore(p)
  <2>1. LocalStep
    BY <1>1, <1>w
    DEF LockdownStore, LocalStep, WireTypes, ConnTypes, Waiting, Answers, Goto,
      locals, wire, history, bounds, AfterLockdown
  <2> QED
    BY <2>1, LocalStepWire
<1>2. CASE LockdownSend(p)
  <2>1. /\ pc[p] \notin Waiting /\ "lwait" \in Waiting
        /\ "lockdown" \in Cmds \ Commands
    BY <1>2 DEF LockdownSend, Waiting, Commands, Cmds
  <2>2. pc' = [pc EXCEPT ![p] = "lwait"]
    BY <1>2 DEF LockdownSend, Goto
  <2>3. Start(p, "lockdown")
    BY <1>2 DEF LockdownSend
  <2>4. "err" \in Answers \ {"wait"}
    BY DEF Answers
  <2> QED
    BY <2>1, <2>2, <2>3, <2>4, AskWire
<1>3. CASE LockdownDone(p)
  <2>1. LocalStep
    BY <1>3, <1>w
    DEF LockdownDone, LocalStep, WireTypes, ConnTypes, Waiting, Answers, Goto,
      Answered, locals, wire, history, bounds, AfterLockdown
  <2> QED
    BY <2>1, LocalStepWire
<1> QED
  BY <1>1, <1>2, <1>3

\* The reconnect loop.
LEMMA ReconWire ==
  ASSUME WireTypes, ConnTypes, WireInv, NEW r \in Recons,
         \/ ReconBegin(r) \/ ReconAttempt(r) \/ ReconAnnounce(r)
         \/ ReconWake(r) \/ ReconGiveUp(r)
  PROVE  WireTypes' /\ WireInv'
<1>0. r \in Procs
  BY DEF Procs
<1>w. pc[r] \notin Waiting => answer[r] # "wait"
  BY <1>0 DEF WireInv, WaitersInv
<1>1. CASE ReconBegin(r)
  <2>1. LocalStep
    BY <1>0, <1>1, <1>w
    DEF ReconBegin, LocalStep, WireTypes, ConnTypes, Waiting, Answers, Goto,
      app, locals, wire, history, bounds
  <2> QED
    BY <2>1, LocalStepWire
<1>2. CASE ReconAttempt(r)
  <2>1. LocalStep
    BY <1>0, <1>2, <1>w
    DEF ReconAttempt, LocalStep, WireTypes, ConnTypes, Waiting, Answers, Goto,
      app, wire, history, bounds
  <2> QED
    BY <2>1, LocalStepWire
<1>3. CASE ReconAnnounce(r)
  <2>1. LocalStep
    BY <1>0, <1>3, <1>w
    DEF ReconAnnounce, LocalStep, WireTypes, ConnTypes, Waiting, Answers, Goto,
      locals, wire, history, bounds
  <2> QED
    BY <2>1, LocalStepWire
<1>4. CASE ReconWake(r)
  <2>1. LocalStep
    BY <1>0, <1>4, <1>w
    DEF ReconWake, LocalStep, WireTypes, ConnTypes, Waiting, Answers, Goto,
      app, locals, wire, history, bounds
  <2> QED
    BY <2>1, LocalStepWire
<1>5. CASE ReconGiveUp(r)
  <2>1. LocalStep
    BY <1>0, <1>5, <1>w
    DEF ReconGiveUp, LocalStep, WireTypes, ConnTypes, Waiting, Answers, Goto,
      locals, wire, history, bounds
  <2> QED
    BY <2>1, LocalStepWire
<1> QED
  BY <1>1, <1>2, <1>3, <1>4, <1>5

\* handleCoreState and reattach.
LEMMA ReaderWire ==
  ASSUME WireTypes, ConnTypes, WireInv, NEW c \in Conns,
         \/ HandleUp(c) \/ HandleDown(c) \/ HandleLost(c) \/ HandleDrop(c)
         \/ HandleSpawn(c) \/ HandleError(c) \/ Reattach(c)
  PROVE  WireTypes' /\ WireInv'
<1>0. c \in Procs
  BY WorkersNotConns
<1>w. pc[c] \notin Waiting => answer[c] # "wait"
  BY <1>0 DEF WireInv, WaitersInv
<1>1. CASE HandleUp(c)
  <2>1. LocalStep
    BY <1>0, <1>1, <1>w
    DEF HandleUp, LocalStep, WireTypes, ConnTypes, Waiting, Answers, Goto,
      locals, wire, history, bounds
  <2> QED
    BY <2>1, LocalStepWire
<1>2. CASE HandleDown(c)
  <2>1. LocalStep
    BY <1>0, <1>2, <1>w
    DEF HandleDown, LocalStep, WireTypes, ConnTypes, Waiting, Answers, Goto,
      locals, wire, history, bounds
  <2> QED
    BY <2>1, LocalStepWire
<1>3. CASE HandleLost(c)
  <2>1. LocalStep
    BY <1>0, <1>3, <1>w
    DEF HandleLost, LocalStep, WireTypes, ConnTypes, Waiting, Answers, Goto,
      locals, wire, history, bounds
  <2> QED
    BY <2>1, LocalStepWire
<1>4. CASE HandleDrop(c)
  <2>1. LocalStep
    BY <1>0, <1>4, <1>w
    DEF HandleDrop, LocalStep, WireTypes, ConnTypes, Waiting, Answers, Goto,
      app, locals, wire, history, bounds
  <2> QED
    BY <2>1, LocalStepWire
<1>5. CASE HandleSpawn(c)
  <2>1. PICK r \in Recons :
           pc[r] = "idle" /\ pc' = [pc EXCEPT ![c] = "read", ![r] = "begin"]
    BY <1>5 DEF HandleSpawn
  <2>2. r \in Procs /\ answer[r] # "wait" /\ answer[c] # "wait"
    BY <1>0, <1>5, <1>w, <2>1
    DEF HandleSpawn, Procs, Waiting, WireInv, WaitersInv
  <2>3. UNCHANGED <<answer, wire>>
    BY <1>5 DEF HandleSpawn
  <2>4. LocalStep
    BY <1>0, <2>1, <2>2, <2>3 DEF LocalStep, WireTypes, ConnTypes
  <2> QED
    BY <2>4, LocalStepWire
<1>6. CASE HandleError(c)
  <2>1. LocalStep
    BY <1>0, <1>6, <1>w
    DEF HandleError, LocalStep, WireTypes, ConnTypes, Waiting, Answers, Goto,
      locals, wire, history, bounds
  <2> QED
    BY <2>1, LocalStepWire
<1>7. CASE Reattach(c)
  <2>1. LocalStep
    BY <1>0, <1>7, <1>w
    DEF Reattach, LocalStep, WireTypes, ConnTypes, Waiting, Answers, Goto, app,
      wire, history, bounds
  <2> QED
    BY <2>1, LocalStepWire
<1> QED
  BY <1>1, <1>2, <1>3, <1>4, <1>5, <1>6, <1>7

-----------------------------------------------------------------------------

LEMMA InitWire == Init => AppTypes /\ WireTypes /\ WireInv
<1> SUFFICES ASSUME Init PROVE AppTypes /\ WireTypes /\ WireInv
  OBVIOUS
<1>1. AppTypes
  BY StatesBuilt, BoundsAssumption DEF Init, AppTypes, Statuses
<1>2. WireTypes
  <2>1. answer \in [Procs -> Answers] /\ tunnel \in Tunnels
    BY DEF Init, Answers, Tunnels
  <2>2. inbox \in [Conns -> Seq(Messages)] /\ reqs \in Seq(Requests)
    BY DEF Init
  <2>3. alive \in BOOLEAN /\ cur = 0 /\ epoch = 0
    BY DEF Init
  <2> QED
    BY <2>1, <2>2, <2>3 DEF WireTypes
<1>3. Len(reqs) = 0 /\ \A c \in Conns : inbox[c] = <<>> /\ Len(inbox[c]) = 0
  BY DEF Init
<1>4. WaitersInv
  BY DEF Init, WaitersInv
<1>5. LinkInv
  BY <1>3 DEF Init, LinkInv
<1>6. RequestsInv /\ NoStaleAnswer /\ OneCommandAtATime
  BY <1>3 DEF RequestsInv, NoStaleAnswer, OneCommandAtATime
<1> QED
  BY <1>1, <1>2, <1>4, <1>5, <1>6 DEF WireInv

LEMMA NextAppTypes ==
  ASSUME AppTypes, [Next]_vars
  PROVE  AppTypes'
<1>1. ASSUME NEW u \in Callers,
             Connect(u) \/ Disconnect(u) \/ Get(u) \/ Reapply(u) \/ CallerSteps(u)
      PROVE  AppTypes'
  <2>1. u \in Workers
    BY DEF Workers
  <2> QED
    BY <1>1, <2>1, ConnectAppTypes, CallerAppTypes DEF CallerSteps, ConnectSteps
<1>2. ASSUME NEW r \in Recons, ReconSteps(r) PROVE AppTypes'
  <2>1. r \in Workers /\ r \in Procs
    BY DEF Workers, Procs
  <2> QED
    BY <1>2, <2>1, ConnectAppTypes, LockdownAppTypes, ReconAppTypes
    DEF ReconSteps, ConnectSteps, LockdownSteps
<1>3. ASSUME NEW c \in Conns, ReaderSteps(c) PROVE AppTypes'
  <2>1. c \in Procs
    BY DEF Procs
  <2> QED
    BY <1>3, <2>1, LockdownAppTypes, ReaderAppTypes
    DEF ReaderSteps, LockdownSteps
<1>4. ASSUME NEW p \in Procs, Timeout(p) PROVE AppTypes'
  BY <1>4 DEF Timeout, AppTypes, app, locals, history, bounds
<1>5. CASE Serve
  BY <1>5 DEF Serve, AppTypes, app, locals, history, bounds
<1>6. CASE Crash
  BY <1>6 DEF Crash, AppTypes, app, locals, history
<1>7. CASE UNCHANGED vars
  BY <1>7 DEF vars, AppTypes, app, locals, history, bounds
<1> QED
  BY <1>1, <1>2, <1>3, <1>4, <1>5, <1>6, <1>7 DEF Next

LEMMA NextWire ==
  ASSUME ConnTypes, MutexInv, WireTypes, WireInv, [Next]_vars
  PROVE  WireTypes' /\ WireInv'
<1>1. ASSUME NEW u \in Callers,
             Connect(u) \/ Disconnect(u) \/ Get(u) \/ Reapply(u) \/ CallerSteps(u)
      PROVE  WireTypes' /\ WireInv'
  <2>1. u \in Workers
    BY DEF Workers
  <2> QED
    BY <1>1, <2>1, ConnectWire, CallerWire DEF CallerSteps, ConnectSteps
<1>2. ASSUME NEW r \in Recons, ReconSteps(r) PROVE WireTypes' /\ WireInv'
  <2>1. r \in Workers /\ r \in Procs
    BY DEF Workers, Procs
  <2> QED
    BY <1>2, <2>1, ConnectWire, LockdownWire, ReconWire
    DEF ReconSteps, ConnectSteps, LockdownSteps
<1>3. ASSUME NEW c \in Conns, ReaderSteps(c) PROVE WireTypes' /\ WireInv'
  <2>1. c \in Procs
    BY DEF Procs
  <2> QED
    BY <1>3, <2>1, LockdownWire, ReaderWire, ReadResponseWire, ReadEventWire,
       ReadEndWire
    DEF ReaderSteps, LockdownSteps
<1>4. CASE UNCHANGED vars
  <2>1. LocalStep
    BY <1>4 DEF vars, LocalStep, WireTypes
  <2> QED
    BY <2>1, LocalStepWire
<1> QED
  BY <1>1, <1>2, <1>3, <1>4, TimeoutWire, ServeWire, CrashWire DEF Next

\* The inductive invariant of the control connection: who waits, what is on
\* the wire and what that says of the service.
THEOREM WireInvariance == Spec => [](AppTypes /\ WireTypes /\ WireInv)
<1>1. ConnInv => ConnTypes /\ MutexInv
  BY DEF ConnInv
<1>2. ConnTypes /\ MutexInv /\ AppTypes /\ WireTypes /\ WireInv /\ [Next]_vars
      => (AppTypes /\ WireTypes /\ WireInv)'
  BY NextAppTypes, NextWire
<1> QED
  BY <1>1, <1>2, InitWire, ConnInvariance, PTL DEF Spec

\* Every variable keeps its type: in particular a readLoop only ever delivers
\* answers to goroutines that exist, and no connection gets past MaxConns.
THEOREM TypesHold == Spec => []TypeOK
<1>1. ConnInv /\ AppTypes /\ WireTypes => TypeOK
  BY DEF ConnInv, ConnTypes, AppTypes, WireTypes, TypeOK
<1> QED
  BY <1>1, ConnInvariance, WireInvariance, PTL

\* Client.request: an answer the readLoop still has to deliver belongs to a
\* goroutine that waits for exactly that answer, whatever timeouts, crashes and
\* relaunches of the service came between.
THEOREM NoStaleAnswerHolds == Spec => []NoStaleAnswer
<1>1. WireInv => NoStaleAnswer
  BY DEF WireInv
<1> QED
  BY <1>1, WireInvariance, PTL

\* "serialises Connect and Disconnect so two clicks cannot race", for any
\* number of callers, reconnects and timeouts: of the commands that wait at the
\* service, all but the last have been given up by their callers.
THEOREM OneCommandAtATimeHolds == Spec => []OneCommandAtATime
<1>1. WireInv => OneCommandAtATime
  BY DEF WireInv
<1> QED
  BY <1>1, WireInvariance, PTL
=============================================================================
