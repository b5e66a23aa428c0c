---------------------------- MODULE ClientProofs ----------------------------
(***************************************************************************)
(* Proofs about ControlClient: whatever the numbers of callers,            *)
(* connections and services, a waiter of the control client is resolved at *)
(* most once.                                                              *)
(***************************************************************************)
EXTENDS ControlClient, TLAPS

\* What PendingInv speaks of has its type.
PendingTypes ==
    /\ nextID \in Nat
    /\ nextID <= MaxIDs
    /\ pending \subseteq IDs
    /\ waiter = [i \in IDs |-> waiter[i]]

\* The inductive invariant.
ClientInv == PendingTypes /\ PendingInv

\* The number of ids is a natural number.
LEMMA MaxIDsType == MaxIDs \in Nat
BY BoundsAssumption DEF MaxIDs

\* The initial state has no waiter.
LEMMA InitClientInv == Init => ClientInv
<1> SUFFICES ASSUME Init PROVE ClientInv
    OBVIOUS
<1>1. PendingTypes
    BY MaxIDsType DEF Init, PendingTypes
<1>2. PendingInv
    BY DEF Init, PendingInv
<1> QED BY <1>1, <1>2 DEF ClientInv

\* Client.request adds a fresh waiter.
LEMMA RegisterClientInv ==
    ASSUME ClientInv, NEW p, Register(p)
    PROVE  ClientInv'
<1>0. /\ nextID \in Nat /\ pending \subseteq 1..MaxIDs
      /\ waiter = [i \in IDs |-> waiter[i]]
    BY DEF ClientInv, PendingTypes, IDs
<1>1. CASE conn = 0
    BY <1>1 DEF Register, ClientInv, PendingTypes, PendingInv
<1>2. CASE conn # 0
  <2>1. /\ nextID < MaxIDs
        /\ nextID' = nextID + 1
        /\ pending' = pending \cup {nextID + 1}
        /\ waiter' = [waiter EXCEPT ![nextID + 1] = "open"]
      BY <1>2 DEF Register
  <2>2. nextID + 1 \in 1..MaxIDs
      BY <1>0, <2>1, MaxIDsType
  <2>3. waiter' = [i \in IDs |-> waiter'[i]]
      BY <1>0, <2>1
  <2>4. nextID' \in Nat /\ nextID' <= MaxIDs
      BY <1>0, <2>1, MaxIDsType
  <2>5. pending' \subseteq 1..MaxIDs
      BY <1>0, <2>1, <2>2
  <2>6. PendingInv'
    <3>1. ASSUME NEW i \in pending'
          PROVE  waiter'[i] = "open" /\ i <= nextID'
      <4>1. CASE i = nextID + 1
          BY <4>1, <1>0, <2>1, <2>2 DEF IDs
      <4>2. CASE i \in pending /\ i # nextID + 1
          BY <4>2, <1>0, <2>1, MaxIDsType DEF ClientInv, PendingInv, IDs
      <4> QED BY <3>1, <4>1, <4>2, <2>1
    <3>2. ASSUME NEW i \in IDs, i > nextID'
          PROVE  waiter'[i] = "unused"
        BY <3>2, <1>0, <2>1, MaxIDsType DEF ClientInv, PendingInv, IDs
    <3> QED BY <3>1, <3>2 DEF PendingInv
  <2> QED BY <2>3, <2>4, <2>5, <2>6 DEF ClientInv, PendingTypes, IDs
<1> QED BY <1>1, <1>2

\* disconnect closes every waiter of the map and empties it.
LEMMA DisconnectClientInv ==
    ASSUME ClientInv, NEW p, Disconnect(p)
    PROVE  ClientInv'
BY DEF Disconnect, ClientInv, PendingTypes, PendingInv

\* readLoop delivers a response to the waiter it takes from the map.
LEMMA ReadResponseClientInv ==
    ASSUME ClientInv, NEW n, ReadResponse(n)
    PROVE  ClientInv'
<1> DEFINE id == Head(received[n]).id
<1>1. /\ nextID' = nextID
      /\ pending' = pending \ {id}
      /\ waiter' = IF id \in pending
                   THEN [waiter EXCEPT ![id] = Head(received[n]).value]
                   ELSE waiter
    BY DEF ReadResponse
<1> HIDE DEF id
<1>2. PendingTypes'
    BY <1>1 DEF ClientInv, PendingTypes
<1>3. PendingInv'
    BY <1>1, MaxIDsType DEF ClientInv, PendingTypes, PendingInv, IDs
<1> QED BY <1>2, <1>3 DEF ClientInv

\* A request that cannot be sent, or has timed out, takes its waiter from the
\* map and leaves it unresolved.
LEMMA ForgetClientInv ==
    ASSUME ClientInv, NEW p, Send(p) \/ Timeout(p)
    PROVE  ClientInv'
<1>1. /\ UNCHANGED <<nextID, waiter>>
      /\ pending' \subseteq pending
    BY DEF Send, Timeout
<1> QED BY <1>1 DEF ClientInv, PendingTypes, PendingInv

\* Nobody else touches the map.
LEMMA OthersLeaveMap ==
    ASSUME \/ \E p \in Procs : \/ Connect(p) \/ ConnectFails(p) \/ Handshake(p)
                               \/ HelloAccepted(p) \/ RequestFails(p)
           \/ \E u \in Callers :
                 \/ Calls(u) \/ EnsureConnected(u) \/ CallReturns(u)
                 \/ WaitForStaleService(u) \/ RemoveSocket(u) \/ NewToken(u)
                 \/ SetToken(u) \/ Elevate(u)
           \/ \E n \in Conns : \/ Reattached(n) \/ ReadEvent(n) \/ ReadEnd(n)
                               \/ LinkDrops(n)
           \/ \E s \in Services :
                 \/ ServiceSteps(s) \/ PromptAnswered(s) \/ ServiceDies(s)
           \/ Quit
    PROVE  UNCHANGED <<nextID, pending, waiter>>
<1>1. ASSUME NEW p \in Procs,
             \/ Connect(p) \/ ConnectFails(p) \/ Handshake(p)
             \/ HelloAccepted(p) \/ RequestFails(p)
      PROVE  UNCHANGED <<nextID, pending, waiter>>
    BY <1>1 DEF Connect, ConnectFails, Handshake, HelloAccepted, RequestFails,
                client
<1>2. ASSUME NEW u \in Callers,
             \/ Calls(u) \/ EnsureConnected(u) \/ CallReturns(u)
             \/ WaitForStaleService(u) \/ RemoveSocket(u) \/ NewToken(u)
             \/ SetToken(u) \/ Elevate(u)
      PROVE  UNCHANGED <<nextID, pending, waiter>>
    BY <1>2 DEF Calls, CallStart, CallIfConnected, EnsureConnected, CallReturns,
                WaitForStaleService, RemoveSocket, NewToken, SetToken, Elevate,
                client
<1>3. ASSUME NEW n \in Conns,
             Reattached(n) \/ ReadEvent(n) \/ ReadEnd(n) \/ LinkDrops(n)
      PROVE  UNCHANGED <<nextID, pending, waiter>>
    BY <1>3 DEF Reattached, ReadEvent, ReadEnd, LinkDrops, client
<1>4. ASSUME NEW s \in Services,
             ServiceSteps(s) \/ PromptAnswered(s) \/ ServiceDies(s)
      PROVE  UNCHANGED <<nextID, pending, waiter>>
    BY <1>4 DEF ServiceSteps, PromptAnswered, ServiceDies, ReadTokenFile,
                Declined, Listen, WatchParent, ServiceExits, ServeUnauthorized,
                ServeQuery, ServeCommand, client
<1>5. CASE Quit
    BY <1>5 DEF Quit, client
<1> QED BY <1>1, <1>2, <1>3, <1>4, <1>5

\* The steps that do touch it, and all the others.
MapStep ==
    \/ \E p \in Procs : Register(p) \/ Disconnect(p) \/ Send(p) \/ Timeout(p)
    \/ \E n \in Conns : ReadResponse(n)

LEMMA MapSteps ==
    ASSUME [Next]_vars
    PROVE  MapStep \/ UNCHANGED <<nextID, pending, waiter>>
<1>1. CASE UNCHANGED vars
    BY <1>1 DEF vars, client
<1>2. ASSUME NEW u \in Callers, Calls(u) \/ CallerSteps(u)
      PROVE  MapStep \/ UNCHANGED <<nextID, pending, waiter>>
  <2>1. u \in Procs
      BY DEF Procs
  <2> QED BY <1>2, <2>1, OthersLeaveMap DEF CallerSteps, RequestSteps, MapStep
<1>3. ASSUME NEW n \in Conns, ReaderSteps(n)
      PROVE  MapStep \/ UNCHANGED <<nextID, pending, waiter>>
  <2>1. n \in Procs
      BY DEF Procs
  <2> QED BY <1>3, <2>1, OthersLeaveMap DEF ReaderSteps, RequestSteps, MapStep
<1>4. CASE \/ \E s \in Services :
                 ServiceSteps(s) \/ PromptAnswered(s) \/ ServiceDies(s)
           \/ \E n \in Conns : LinkDrops(n)
           \/ Quit
    BY <1>4, OthersLeaveMap
<1> QED BY <1>1, <1>2, <1>3, <1>4 DEF Next

\* ClientInv is inductive.
LEMMA NextClientInv ==
    ASSUME ClientInv, [Next]_vars
    PROVE  ClientInv'
<1>1. CASE MapStep
    BY <1>1, RegisterClientInv, DisconnectClientInv, ReadResponseClientInv,
       ForgetClientInv DEF MapStep
<1>2. CASE UNCHANGED <<nextID, pending, waiter>>
    BY <1>2 DEF ClientInv, PendingTypes, PendingInv
<1> QED BY <1>1, <1>2, MapSteps

\* A step resolves only waiters that are open.
LEMMA NextResolvesOpen ==
    ASSUME ClientInv, [Next]_vars, NEW i \in IDs,
           waiter[i] \notin {"unused", "open"}
    PROVE  waiter'[i] = waiter[i]
<1> USE DEF ClientInv, PendingTypes, PendingInv
<1>1. i \notin pending /\ ~(i > nextID)
    OBVIOUS
<1>2. ASSUME NEW p \in Procs, Register(p)
      PROVE  waiter'[i] = waiter[i]
  <2>1. \/ waiter' = waiter
        \/ waiter' = [waiter EXCEPT ![nextID + 1] = "open"]
      BY <1>2 DEF Register
  <2>2. i # nextID + 1
      BY <1>1, MaxIDsType DEF IDs
  <2> QED BY <2>1, <2>2
<1>3. ASSUME NEW p \in Procs, Disconnect(p)
      PROVE  waiter'[i] = waiter[i]
    BY <1>1, <1>3 DEF Disconnect
<1>4. ASSUME NEW p \in Procs, Send(p) \/ Timeout(p)
      PROVE  waiter'[i] = waiter[i]
    BY <1>4 DEF Send, Timeout
<1>5. ASSUME NEW n \in Conns, ReadResponse(n)
      PROVE  waiter'[i] = waiter[i]
  <2> DEFINE id == Head(received[n]).id
  <2>1. \/ waiter' = waiter
        \/ id \in pending
           /\ waiter' = [waiter EXCEPT ![id] = Head(received[n]).value]
      BY <1>5 DEF ReadResponse
  <2> HIDE DEF id
  <2> QED BY <1>1, <2>1
<1> QED BY <1>2, <1>3, <1>4, <1>5, MapSteps DEF MapStep

\* Client.request, disconnect and readLoop keep the pending map and its waiters
\* in step, for every number of goroutines, connections and services.
THEOREM PendingSafe == Spec => []PendingInv
<1>1. ClientInv => PendingInv
    BY DEF ClientInv
<1> QED BY <1>1, InitClientInv, NextClientInv, PTL DEF Spec

\* No waiter is resolved twice: the GUI never sends on, or closes, a channel
\* that an answer or another disconnect already resolved.
THEOREM WaitersResolvedOnce == Spec => ResolvedOnce
<1>1. ASSUME ClientInv, [Next]_vars
      PROVE  [\A i \in IDs : waiter[i] \notin {"unused", "open"}
                                => waiter'[i] = waiter[i]]_vars
    BY <1>1, NextResolvesOpen
<1> QED BY <1>1, InitClientInv, NextClientInv, PTL DEF Spec, ResolvedOnce
=============================================================================
