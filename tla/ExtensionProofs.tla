--------------------------- MODULE ExtensionProofs ---------------------------
(***************************************************************************)
(* The safety of Extension for any number of engine threads, workers and   *)
(* clients.  No single property is inductive: that a worker finds the      *)
(* router depends on who holds the lock, on which thread Impl can join,    *)
(* and on what a load or an unload has done so far, so these are proved    *)
(* together (IInv) and each property is then read off.                     *)
(***************************************************************************)
EXTENDS ExtensionProperties, TLAPS, SequenceTheorems

Busy == {"recv", "lock", "exec", "send"}

\* Who holds the lock is told by the program counters.
HolderInv ==
  /\ \A k \in Callers : InSection(k) <=> stateMutex = k
  /\ \A w \in Workers : workerPc[w] = "exec" <=> stateMutex = w

\* The only thread there can be is the one Impl::worker can join.
ThreadInv == \A w \in Workers : workerPc[w] # "none" <=> implWorker = w

ConnInv == \A w \in Workers : conn[w] # None <=> workerPc[w] \in Busy

Up ==
  /\ objects = Owned /\ running /\ ~stopRequested
  /\ listenSocket = "open"
  /\ implWorker # None /\ workerPc[implWorker] # "exited"

Down(owned) ==
  /\ objects = owned /\ ~running
  /\ listenSocket = "invalid" /\ backlog = <<>>
  /\ implWorker = None

Stopping(socket) ==
  /\ objects = Owned /\ stopRequested
  /\ listenSocket = socket
  /\ implWorker # None

\* The state of the server at each point of a load or an unload.
PhaseInv ==
  /\ stateMutex \notin Callers => Up \/ Down({})
  /\ \A k \in Callers :
       /\ callerPc[k] = "start" => Down(Owned)
       /\ callerPc[k] \in {"announce", "stop"} => Up
       /\ callerPc[k] = "close" => Stopping("open")
       /\ callerPc[k] = "join" => Stopping("invalid") /\ backlog = <<>>

Coherence == HolderInv /\ ThreadInv /\ ConnInv /\ PhaseInv

IInv == TypeOK /\ Coherence /\ RouterNeverMissing

-----------------------------------------------------------------------------

\* Before the engine calls anything every variable has its type.
LEMMA TypeInit == Init => TypeOK
<1> SUFFICES ASSUME Init PROVE TypeOK
  OBVIOUS
<1>1. callerPc \in [Callers -> CallerPcs] /\ workerPc \in [Workers -> WorkerPcs]
  BY DEF Init, CallerPcs, WorkerPcs
<1>2. conn \in [Workers -> Clients \cup {None}]
  BY DEF Init
<1>3. backlog \in Seq(Clients)
  <2>1. backlog = <<>>
    BY DEF Init
  <2>2. QED
    BY <2>1
<1>4. peer \in [Clients -> PeerStates] /\ sent \in [Clients -> Payloads]
  BY DEF Init, PeerStates, Payloads
<1>5. reply \in [Clients -> Statuses] /\ stage \in [Clients -> Stages]
  BY DEF Init, Statuses, Stages
<1>6. QED
  BY <1>1, <1>2, <1>3, <1>4, <1>5 DEF Init, TypeOK

\* No step of an engine thread, a worker or a client takes a variable out of
\* its type.
LEMMA TypeStep == TypeOK /\ [Next]_vars => TypeOK'
<1> SUFFICES ASSUME TypeOK, [Next]_vars PROVE TypeOK'
  OBVIOUS
<1>a. \A c, status :
        status \in Statuses => [reply EXCEPT ![c] = status] \in [Clients -> Statuses]
  <2>1. reply \in [Clients -> Statuses]
    BY DEF TypeOK
  <2>2. QED
    BY <2>1
<1>b. 400 \in Statuses /\ 404 \in Statuses /\ 403 \in Statuses
  BY DEF Statuses
<1>c. 200 \in Statuses /\ 500 \in Statuses
  BY DEF Statuses
<1>d. \A c, echoed :
        echoed \in Stages => [stage EXCEPT ![c] = echoed] \in [Clients -> Stages]
  <2>1. stage \in [Clients -> Stages]
    BY DEF TypeOK
  <2>2. QED
    BY <2>1
<1> USE DEF TypeOK, lifecycle, server, serving, network, answers, CallerMoves, WorkerMoves, LockFree,
            CloseConnection, Owned, CallerPcs, WorkerPcs
<1>1. ASSUME NEW k \in Callers, CallInitialize(k) PROVE TypeOK'
  BY <1>1 DEF CallInitialize
<1>2. ASSUME NEW k \in Callers, CallCleanup(k) PROVE TypeOK'
  BY <1>2 DEF CallCleanup
<1>3. ASSUME NEW k \in Callers, InitializeAgain(k) PROVE TypeOK'
  BY <1>3 DEF InitializeAgain
<1>4. ASSUME NEW k \in Callers, InitializeCreate(k) PROVE TypeOK'
  BY <1>4 DEF InitializeCreate
<1>5. ASSUME NEW k \in Callers, NEW w \in Workers, StartSucceeds(k, w) PROVE TypeOK'
  BY <1>5 DEF StartSucceeds
<1>6. ASSUME NEW k \in Callers, StartFails(k) PROVE TypeOK'
  BY <1>6 DEF StartFails
<1>7. ASSUME NEW k \in Callers, InitializeReturn(k) PROVE TypeOK'
  BY <1>7 DEF InitializeReturn
<1>8. ASSUME NEW k \in Callers, CleanupLock(k) PROVE TypeOK'
  BY <1>8 DEF CleanupLock
<1>9. ASSUME NEW k \in Callers, CleanupNothing(k) PROVE TypeOK'
  BY <1>9 DEF CleanupNothing
<1>10. ASSUME NEW k \in Callers, StopRequest(k) PROVE TypeOK'
  BY <1>10 DEF StopRequest
<1>11. ASSUME NEW k \in Callers, StopClose(k) PROVE TypeOK'
  BY <1>11 DEF StopClose, PeerStates, Payloads
<1>12. ASSUME NEW k \in Callers, StopJoined(k) PROVE TypeOK'
  BY <1>12 DEF StopJoined
<1>13. ASSUME NEW w \in Workers, CheckStop(w) PROVE TypeOK'
  BY <1>13 DEF CheckStop
<1>14. ASSUME NEW w \in Workers, Select(w) PROVE TypeOK'
  BY <1>14 DEF Select
<1>15. ASSUME NEW w \in Workers, AcceptConnection(w) PROVE TypeOK'
  BY <1>15 DEF AcceptConnection
<1>16. ASSUME NEW w \in Workers, AcceptFails(w) PROVE TypeOK'
  <2>1. CASE listenSocket = "invalid" /\ UNCHANGED network
    BY <1>16, <2>1 DEF AcceptFails
  <2>2. CASE backlog # <<>> /\ UNCHANGED listenSocket /\ ~UNCHANGED network
    <3>1. Head(backlog) \in Clients /\ Tail(backlog) \in Seq(Clients)
      BY <2>2
    <3>2. peer' \in [Clients -> PeerStates]
      BY <1>16, <2>2, <3>1 DEF AcceptFails, PeerStates
    <3>3. sent' \in [Clients -> Payloads]
      BY <1>16, <2>2, <3>1 DEF AcceptFails, Payloads
    <3>4. backlog' \in Seq(Clients)
      BY <1>16, <2>2, <3>1 DEF AcceptFails
    <3>5. QED
      BY <1>16, <3>2, <3>3, <3>4 DEF AcceptFails
  <2>3. QED
    BY <1>16, <2>1, <2>2 DEF AcceptFails
<1>17. ASSUME NEW w \in Workers, ReceiveFails(w) PROVE TypeOK'
  <2>1. reply' \in [Clients -> Statuses]
    BY <1>17, <1>a, <1>b DEF ReceiveFails
  <2>2. QED
    BY <1>17, <2>1 DEF ReceiveFails
<1>18. ASSUME NEW w \in Workers, RefuseRequest(w) PROVE TypeOK'
  <2>1. reply' \in [Clients -> Statuses]
    BY <1>18, <1>a, <1>b DEF RefuseRequest, RefusalStatus
  <2>2. stage' \in [Clients -> Stages]
    <3>1. CASE sent[conn[w]] = "notfound"
      BY <1>18, <3>1 DEF RefuseRequest
    <3>2. CASE sent[conn[w]] # "notfound"
      BY <1>18, <1>d, <3>2 DEF RefuseRequest, Stages
    <3>3. QED
      BY <3>1, <3>2
  <2>3. QED
    BY <1>18, <2>1, <2>2 DEF RefuseRequest
<1>19. ASSUME NEW w \in Workers, RouteRequest(w) PROVE TypeOK'
  BY <1>19 DEF RouteRequest, Stages
<1>20. ASSUME NEW w \in Workers, Dispatch(w) PROVE TypeOK'
  <2>1. reply' \in [Clients -> Statuses]
    BY <1>20, <1>a, <1>c DEF Dispatch
  <2>2. stage' \in [Clients -> Stages]
    BY <1>20 DEF Dispatch, Stages
  <2>3. QED
    BY <1>20, <2>1, <2>2 DEF Dispatch
<1>21. ASSUME NEW w \in Workers, BeginCommand(w) PROVE TypeOK'
  BY <1>21 DEF BeginCommand
<1>22. ASSUME NEW w \in Workers, FinishCommand(w) PROVE TypeOK'
  <2>1. reply' \in [Clients -> Statuses]
    BY <1>22, <1>a, <1>c DEF FinishCommand
  <2>2. stage' \in [Clients -> Stages]
    BY <1>22, <1>d DEF FinishCommand, Stages
  <2>3. QED
    BY <1>22, <2>1, <2>2 DEF FinishCommand
<1>23. ASSUME NEW w \in Workers, SendReply(w) PROVE TypeOK'
  <2>1. workerPc' \in [Workers -> WorkerPcs] /\ conn' \in [Workers -> Clients \cup {None}]
    BY <1>23 DEF SendReply
  <2>2. peer' \in [Clients -> PeerStates] /\ sent' \in [Clients -> Payloads]
    BY <1>23 DEF SendReply, PeerStates, Payloads
  <2>3. reply' \in [Clients -> Statuses]
    <3>1. 0 \in Statuses
      BY DEF Statuses
    <3>2. QED
      BY <1>23, <3>1, <1>a DEF SendReply
  <2>4. stage' \in [Clients -> Stages]
    <3>1. "" \in Stages
      BY DEF Stages
    <3>2. QED
      BY <1>23, <3>1, <1>d DEF SendReply
  <2>5. QED
    BY <1>23, <2>1, <2>2, <2>3, <2>4 DEF SendReply
<1>24. ASSUME NEW c \in Clients, Connect(c) PROVE TypeOK'
  BY <1>24 DEF Connect, PeerStates
<1>25. ASSUME NEW c \in Clients, SendRequest(c) PROVE TypeOK'
  BY <1>25 DEF SendRequest, Payloads
<1>26. ASSUME NEW c \in Clients, Stall(c) PROVE TypeOK'
  BY <1>26 DEF Stall, PeerStates
<1>27. ASSUME NEW c \in Clients, Leave(c) PROVE TypeOK'
  BY <1>27 DEF Leave, PeerStates
<1>28. ASSUME NEW c \in Clients, Abort(c) PROVE TypeOK'
  BY <1>28 DEF Abort, PeerStates, Payloads
<1>29. CASE UNCHANGED vars
  BY <1>29 DEF vars
<1>30. QED
  BY <1>1, <1>2, <1>3, <1>4, <1>5, <1>6, <1>7, <1>8, <1>9, <1>10, <1>11, <1>12,
     <1>13, <1>14, <1>15, <1>16, <1>17, <1>18, <1>19, <1>20, <1>21, <1>22, <1>23,
     <1>24, <1>25, <1>26, <1>27, <1>28, <1>29
     DEF Next, InitializeStep, CleanupStep, LoopStep, ClientStep

\* Every step keeps lock, threads, connections and phase in agreement.  A step
\* that takes the lock finds Up or everything released, which is why the flags
\* the worker reads without the lock can be trusted by those that hold it.
LEMMA CoherenceStep == IInv /\ [Next]_vars => Coherence'
<1> SUFFICES ASSUME IInv, [Next]_vars PROVE Coherence'
  OBVIOUS
<1>a. stateMutex = None => Up \/ Down({})
  BY ThreadsDistinct DEF IInv, Coherence, PhaseInv
<1>b. stateMutex = None /\ ("server" \notin objects \/ ~running) => Down({})
  BY <1>a DEF Up, Owned
<1> USE ThreadsDistinct
    DEF IInv, Coherence, HolderInv, ThreadInv, ConnInv, PhaseInv,
        Up, Down, Stopping, InSection, InCleanup, Busy, TypeOK,
        lifecycle, server, serving, network, answers, CallerMoves, WorkerMoves, LockFree,
        CloseConnection, JoinReturns
<1>1. ASSUME NEW k \in Callers, CallInitialize(k) PROVE Coherence'
  BY <1>1 DEF CallInitialize
<1>2. ASSUME NEW k \in Callers, CallCleanup(k) PROVE Coherence'
  BY <1>2 DEF CallCleanup
<1>3. ASSUME NEW k \in Callers, InitializeAgain(k) PROVE Coherence'
  BY <1>3 DEF InitializeAgain
<1>4. ASSUME NEW k \in Callers, InitializeCreate(k) PROVE Coherence'
  BY <1>4, <1>b DEF InitializeCreate, AlreadyServing
<1>5. ASSUME NEW k \in Callers, NEW w \in Workers, StartSucceeds(k, w) PROVE Coherence'
  BY <1>5 DEF StartSucceeds
<1>6. ASSUME NEW k \in Callers, StartFails(k) PROVE Coherence'
  BY <1>6 DEF StartFails
<1>7. ASSUME NEW k \in Callers, InitializeReturn(k) PROVE Coherence'
  BY <1>7 DEF InitializeReturn
<1>8. ASSUME NEW k \in Callers, CleanupLock(k) PROVE Coherence'
  BY <1>8 DEF CleanupLock
<1>9. ASSUME NEW k \in Callers, CleanupNothing(k) PROVE Coherence'
  BY <1>9, <1>b DEF CleanupNothing
<1>10. ASSUME NEW k \in Callers, StopRequest(k) PROVE Coherence'
  BY <1>10 DEF StopRequest
<1>11. ASSUME NEW k \in Callers, StopClose(k) PROVE Coherence'
  BY <1>11 DEF StopClose
<1>12. ASSUME NEW k \in Callers, StopJoined(k) PROVE Coherence'
  BY <1>12 DEF StopJoined
<1>13. ASSUME NEW w \in Workers, CheckStop(w) PROVE Coherence'
  BY <1>13 DEF CheckStop
<1>14. ASSUME NEW w \in Workers, Select(w) PROVE Coherence'
  BY <1>14 DEF Select
<1>15. ASSUME NEW w \in Workers, AcceptConnection(w) PROVE Coherence'
  BY <1>15 DEF AcceptConnection
<1>16. ASSUME NEW w \in Workers, AcceptFails(w) PROVE Coherence'
  BY <1>16 DEF AcceptFails
<1>17. ASSUME NEW w \in Workers, ReceiveFails(w) PROVE Coherence'
  BY <1>17 DEF ReceiveFails
<1>18. ASSUME NEW w \in Workers, RefuseRequest(w) PROVE Coherence'
  BY <1>18 DEF RefuseRequest
<1>19. ASSUME NEW w \in Workers, RouteRequest(w) PROVE Coherence'
  BY <1>19 DEF RouteRequest
<1>20. ASSUME NEW w \in Workers, Dispatch(w) PROVE Coherence'
  BY <1>20 DEF Dispatch
<1>21. ASSUME NEW w \in Workers, BeginCommand(w) PROVE Coherence'
  BY <1>21 DEF BeginCommand
<1>22. ASSUME NEW w \in Workers, FinishCommand(w) PROVE Coherence'
  BY <1>22 DEF FinishCommand
<1>23. ASSUME NEW w \in Workers, SendReply(w) PROVE Coherence'
  <2>1. workerPc[w] = "send" /\ workerPc' = [workerPc EXCEPT ![w] = "check"]
    BY <1>23 DEF SendReply
  <2>2. /\ conn' = [conn EXCEPT ![w] = None]
        /\ UNCHANGED <<lifecycle, callerPc, backlog>>
    BY <1>23 DEF SendReply
  <2>3. QED
    BY <2>1, <2>2
<1>24. ASSUME NEW c \in Clients, Connect(c) PROVE Coherence'
  BY <1>24 DEF Connect
<1>25. ASSUME NEW c \in Clients, SendRequest(c) PROVE Coherence'
  BY <1>25 DEF SendRequest
<1>26. ASSUME NEW c \in Clients, Stall(c) PROVE Coherence'
  BY <1>26 DEF Stall
<1>27. ASSUME NEW c \in Clients, Leave(c) PROVE Coherence'
  BY <1>27 DEF Leave
<1>28. ASSUME NEW c \in Clients, Abort(c) PROVE Coherence'
  BY <1>28 DEF Abort
<1>29. CASE UNCHANGED vars
  BY <1>29 DEF vars
<1>30. QED
  BY <1>1, <1>2, <1>3, <1>4, <1>5, <1>6, <1>7, <1>8, <1>9, <1>10, <1>11, <1>12, <1>13, <1>14, <1>15, <1>16, <1>17, <1>18, <1>19, <1>20, <1>21, <1>22, <1>23, <1>24, <1>25, <1>26, <1>27, <1>28, <1>29
     DEF Next, InitializeStep, CleanupStep, LoopStep, ClientStep

\* A worker that gets the lock finds the router: the phase is Up.
LEMMA RouterStep == IInv /\ [Next]_vars => RouterNeverMissing'
<1> SUFFICES ASSUME IInv, [Next]_vars PROVE RouterNeverMissing'
  OBVIOUS
<1>a. stateMutex = None => Up \/ Down({})
  BY ThreadsDistinct DEF IInv, Coherence, PhaseInv
<1>b. \A w \in Workers : stateMutex = None /\ Alive(w) => "router" \in objects
  BY <1>a, ThreadsDistinct DEF IInv, Coherence, ThreadInv, Down, Alive, Up, Owned
<1>c. reply \in [Clients -> Statuses] /\ \A c \in Clients : reply[c] # 500
  BY DEF IInv, TypeOK, RouterNeverMissing
<1> DEFINE Answer(w, v) == reply' = [reply EXCEPT ![conn[w]] = v]
<1>d. ASSUME NEW w \in Workers, NEW v, v # 500, Answer(w, v)
      PROVE RouterNeverMissing'
  BY <1>c, <1>d DEF RouterNeverMissing
<1> HIDE DEF Answer
<1>e. ASSUME UNCHANGED reply PROVE RouterNeverMissing'
  BY <1>c, <1>e DEF RouterNeverMissing
<1>1. ASSUME NEW w \in Workers, ReceiveFails(w) PROVE RouterNeverMissing'
  <2>1. Answer(w, 400)
    BY <1>1 DEF ReceiveFails, Answer
  <2>2. QED
    BY <2>1, <1>d
<1>2. ASSUME NEW w \in Workers, RefuseRequest(w) PROVE RouterNeverMissing'
  <2>1. Answer(w, 403) \/ Answer(w, 404)
    BY <1>2 DEF RefuseRequest, RefusalStatus, Answer
  <2>2. QED
    BY <2>1, <1>d
<1>3. ASSUME NEW w \in Workers, Dispatch(w) PROVE RouterNeverMissing'
  <2>1. "router" \in objects
    BY <1>3, <1>b DEF Dispatch, WorkerMoves, LockFree, Alive
  <2>2. Answer(w, 200)
    BY <1>3, <2>1 DEF Dispatch, Answer
  <2>3. QED
    BY <2>2, <1>d
<1>4. ASSUME NEW w \in Workers, FinishCommand(w) PROVE RouterNeverMissing'
  <2>1. Answer(w, 200)
    BY <1>4 DEF FinishCommand, Answer
  <2>2. QED
    BY <2>1, <1>d
<1>5. ASSUME NEW w \in Workers, SendReply(w) PROVE RouterNeverMissing'
  <2>1. Answer(w, 0)
    BY <1>5 DEF SendReply, Answer
  <2>2. QED
    BY <2>1, <1>d
<1> USE DEF answers, serving
<1>6. ASSUME NEW k \in Callers,
             CallInitialize(k) \/ CallCleanup(k) \/ InitializeStep(k) \/ CleanupStep(k)
      PROVE RouterNeverMissing'
  BY <1>6, <1>e
     DEF CallInitialize, CallCleanup, InitializeStep, InitializeAgain, InitializeCreate,
         StartSucceeds, StartFails, InitializeReturn, CleanupStep, CleanupLock,
         CleanupNothing, StopRequest, StopClose, StopJoined
<1>7. ASSUME NEW w \in Workers,
             \/ CheckStop(w) \/ Select(w) \/ AcceptConnection(w)
             \/ AcceptFails(w) \/ RouteRequest(w) \/ BeginCommand(w)
      PROVE RouterNeverMissing'
  BY <1>7, <1>e
     DEF CheckStop, Select, AcceptConnection, AcceptFails, RouteRequest, BeginCommand
<1>8. ASSUME NEW c \in Clients, ClientStep(c) PROVE RouterNeverMissing'
  BY <1>8, <1>e DEF ClientStep, Connect, SendRequest, Stall, Leave, Abort
<1>9. CASE UNCHANGED vars
  BY <1>9, <1>e DEF vars
<1>10. QED
  BY <1>1, <1>2, <1>3, <1>4, <1>5, <1>6, <1>7, <1>8, <1>9 DEF Next, LoopStep

-----------------------------------------------------------------------------

\* The extension is loaded with nothing acquired, where the invariant holds.
LEMMA InvInit == Init => IInv
<1> SUFFICES ASSUME Init PROVE IInv
  OBVIOUS
<1>1. HolderInv /\ ThreadInv /\ ConnInv
  BY ThreadsDistinct
     DEF Init, HolderInv, ThreadInv, ConnInv, InSection, InCleanup, Busy
<1>2. PhaseInv
  BY DEF Init, PhaseInv, Down
<1>3. RouterNeverMissing
  <2>1. reply = [c \in Clients |-> 0]
    BY DEF Init
  <2>2. QED
    BY <2>1 DEF RouterNeverMissing
<1>4. QED
  BY <1>1, <1>2, <1>3, TypeInit DEF IInv, Coherence

\* The inductive invariant holds in every state.
THEOREM Invariance == Spec => []IInv
<1>1. IInv /\ [Next]_vars => IInv'
  BY TypeStep, CoherenceStep, RouterStep DEF IInv
<1>2. QED
  BY <1>1, InvInit, PTL DEF Spec

\* Every variable keeps its type, for any number of threads and clients.
THEOREM TypeCorrect == Spec => []TypeOK
<1>1. IInv => TypeOK
  BY DEF IInv
<1>2. QED
  BY <1>1, Invariance, PTL

\* DebugExtensionInitialize, Cleanup and the execution of a command exclude one
\* another.
THEOREM ExclusionHolds == Spec => []LifecycleExclusion
<1>1. IInv => LifecycleExclusion
  BY ThreadsDistinct DEF IInv, Coherence, HolderInv, LifecycleExclusion
<1>2. QED
  BY <1>1, Invariance, PTL

\* No worker outlives the Impl it captured, the router or the executor.
THEOREM NoOrphan == Spec => []NoOrphanThread
<1>1. IInv => NoOrphanThread
  BY ThreadsDistinct
     DEF IInv, Coherence, ThreadInv, PhaseInv, HolderInv, InSection, InCleanup, Up, Down,
         Stopping, NoOrphanThread, Alive, TypeOK, CallerPcs
<1>2. QED
  BY <1>1, Invariance, PTL

\* Outside loading and unloading the extension either serves or has given back
\* all that it acquired.
THEOREM ServesOrReleased == Spec => []ServingOrReleased
<1>1. IInv => ServingOrReleased
  BY ThreadsDistinct
     DEF IInv, Coherence, ThreadInv, ConnInv, Busy, PhaseInv, HolderInv, InSection, InCleanup,
         Up, Down, ServingOrReleased, Serving, Released, Alive, TypeOK
<1>2. QED
  BY <1>1, Invariance, PTL

\* HandleRequest never finds the router missing.
THEOREM RouterIsThere == Spec => []RouterNeverMissing
<1>1. IInv => RouterNeverMissing
  BY DEF IInv
<1>2. QED
  BY <1>1, Invariance, PTL

\* The command starts under the lock, in phase Up, where no stop is requested.
THEOREM NoCommandOnceStopping == Spec => NoCommandAfterStopRequest
<1> DEFINE Starts(w) == workerPc[w] # "exec" /\ workerPc'[w] = "exec"
<1>1. ASSUME IInv, [Next]_vars, NEW w \in Workers, Starts(w) PROVE ~stopRequested
  <2>1. BeginCommand(w)
    <3>1. ASSUME NEW v \in Workers, LoopStep(v) \/ FinishCommand(v), ~BeginCommand(w)
          PROVE FALSE
      BY <1>1, <3>1
         DEF LoopStep, CheckStop, Select, AcceptConnection, AcceptFails, ReceiveFails,
             RefuseRequest, RouteRequest, Dispatch, BeginCommand, SendReply,
             FinishCommand, WorkerMoves, IInv, TypeOK
    <3>2. ASSUME NEW k \in Callers,
                 CallInitialize(k) \/ CallCleanup(k) \/ InitializeStep(k) \/ CleanupStep(k)
          PROVE FALSE
      BY <1>1, <3>2
         DEF CallInitialize, CallCleanup, InitializeStep, InitializeAgain,
             InitializeCreate, StartSucceeds, StartFails, InitializeReturn, CleanupStep,
             CleanupLock, CleanupNothing, StopRequest, StopClose, StopJoined,
             WorkerMoves, serving, IInv, TypeOK
    <3>3. ASSUME NEW c \in Clients, ClientStep(c) PROVE FALSE
      BY <1>1, <3>3 DEF ClientStep, Connect, SendRequest, Stall, Leave, Abort
    <3>4. CASE UNCHANGED vars
      BY <1>1, <3>4 DEF vars
    <3>5. QED
      BY <1>1, <3>1, <3>2, <3>3, <3>4 DEF Next
  <2>2. stateMutex = None /\ workerPc[w] = "lock"
    BY <2>1 DEF BeginCommand, WorkerMoves, LockFree
  <2>3. Up \/ Down({})
    BY <1>1, <2>2, ThreadsDistinct DEF IInv, Coherence, PhaseInv
  <2>4. QED
    BY <1>1, <2>2, <2>3, ThreadsDistinct DEF IInv, Coherence, ThreadInv, Up, Down
<1>2. IInv /\ [Next]_vars => [\A w \in Workers : Starts(w) => ~stopRequested]_vars
  BY <1>1
<1>3. QED
  BY <1>2, Invariance, PTL DEF Spec, NoCommandAfterStopRequest

-----------------------------------------------------------------------------
(***************************************************************************)
(* Extension implements EvalService, for any number of engine threads,     *)
(* workers and clients.  What a client's call becomes depends on the       *)
(* connection it came in on, so it is first shown that connections are     *)
(* neither shared nor forgotten.                                           *)
(***************************************************************************)

\* p and q are what is left and right of place i in s.
Splits(s, i, p, q) ==
  /\ p \in Seq(Clients) /\ Len(p) = i - 1 /\ \A j \in 1..Len(p) : p[j] = s[j]
  /\ q \in Seq(Clients) /\ Len(q) = Len(s) - i /\ \A j \in 1..Len(q) : q[j] = s[j + i]

Joins(p, q, r) ==
  /\ r \in Seq(Clients) /\ Len(r) = Len(p) + Len(q)
  /\ \A j \in 1..Len(p) + Len(q) : r[j] = IF j <= Len(p) THEN p[j] ELSE q[j - Len(p)]

\* r is s without its place i.
Without(s, i, r) ==
  /\ r \in Seq(Clients) /\ Len(r) = Len(s) - 1
  /\ \A j \in 1..Len(r) : r[j] = IF j < i THEN s[j] ELSE s[j + 1]

\* What is left and right of a place, put together, lacks that place alone.
LEMMA AroundPlace ==
  ASSUME NEW s \in Seq(Clients), NEW i \in 1..Len(s), NEW p, NEW q, NEW r,
         Splits(s, i, p, q), Joins(p, q, r)
  PROVE  Without(s, i, r)
<1> USE DEF Splits, Joins
<1>1. Len(s) \in Nat /\ Len(r) = Len(s) - 1
  OBVIOUS
<1>2. ASSUME NEW j \in 1..Len(r) PROVE r[j] = IF j < i THEN s[j] ELSE s[j + 1]
  <2>1. CASE j < i
    BY <1>1, <2>1
  <2>2. CASE ~(j < i)
    <3>1. j - Len(p) \in 1..Len(q) /\ (j - Len(p)) + i = j + 1
      BY <1>1, <2>2
    <3>2. q[j - Len(p)] = s[j + 1]
      BY <3>1
    <3>3. r[j] = q[j - Len(p)]
      BY <1>1, <2>2, <3>1
    <3>4. QED
      BY <2>2, <3>2, <3>3
  <2>3. QED
    BY <2>1, <2>2
<1>3. QED
  BY <1>1, <1>2 DEF Without

\* Taking one connection out of the queue leaves the others in their order.
LEMMA RemoveAt ==
  ASSUME NEW s \in Seq(Clients), NEW i \in 1..Len(s)
  PROVE  Without(s, i, SubSeq(s, 1, i - 1) \o SubSeq(s, i + 1, Len(s)))
<1> DEFINE p == SubSeq(s, 1, i - 1)
           q == SubSeq(s, i + 1, Len(s))
<1>1. Splits(s, i, p, q)
  <2>1. p \in Seq(Clients) /\ Len(p) = i - 1 /\ \A j \in 1..Len(p) : p[j] = s[j]
    OBVIOUS
  <2>2. q \in Seq(Clients) /\ Len(q) = Len(s) - i /\ \A j \in 1..Len(q) : q[j] = s[j + i]
    OBVIOUS
  <2>3. QED
    BY <2>1, <2>2 DEF Splits
<1>2. p \in Seq(Clients) /\ q \in Seq(Clients)
  BY <1>1 DEF Splits
<1> HIDE DEF p, q
<1>3. Joins(p, q, p \o q)
  BY <1>2, ConcatProperties DEF Joins
<1>4. Without(s, i, p \o q)
  BY <1>1, <1>3, AroundPlace
<1>5. QED
  BY <1>4 DEF p, q

\* The connections in s are different ones.
Distinct(s) == \A i, j \in 1..Len(s) : s[i] = s[j] => i = j
\* c is one of them.
Holds(s, c) == \E i \in 1..Len(s) : s[i] = c

\* In a queue of different connections the one taken out is then not in it, and
\* all others are.
LEMMA TakenOut ==
  ASSUME NEW s \in Seq(Clients), NEW i \in 1..Len(s), NEW r, Without(s, i, r), Distinct(s)
  PROVE  Distinct(r) /\ \A c : Holds(r, c) <=> Holds(s, c) /\ c # s[i]
<1>1. /\ Len(s) \in Nat /\ Len(r) = Len(s) - 1
      /\ \A j \in 1..Len(r) : r[j] = IF j < i THEN s[j] ELSE s[j + 1]
  BY DEF Without
<1> DEFINE At(j) == IF j < i THEN j ELSE j + 1
<1>2. \A j \in 1..Len(r) : At(j) \in 1..Len(s) /\ At(j) # i /\ r[j] = s[At(j)]
  BY <1>1
<1>3. \A j, k \in 1..Len(r) : At(j) = At(k) => j = k
  BY <1>1
<1>4. \A k \in 1..Len(s) : k # i => \E j \in 1..Len(r) : At(j) = k
  <2>1. ASSUME NEW k \in 1..Len(s), k # i PROVE \E j \in 1..Len(r) : At(j) = k
    <3>1. CASE k < i
      <4>1. k \in 1..Len(r) /\ At(k) = k
        BY <1>1, <3>1
      <4>2. QED
        BY <4>1
    <3>2. CASE k > i
      <4>1. k - 1 \in 1..Len(r) /\ At(k - 1) = k
        BY <1>1, <3>2
      <4>2. QED
        BY <4>1
    <3>3. QED
      BY <2>1, <3>1, <3>2
  <2>2. QED
    BY <2>1
<1> HIDE DEF At
<1>5. Distinct(r)
  BY <1>2, <1>3 DEF Distinct
<1>6. ASSUME NEW c PROVE Holds(r, c) <=> Holds(s, c) /\ c # s[i]
  <2>1. ASSUME Holds(r, c) PROVE Holds(s, c) /\ c # s[i]
    BY <1>2, <2>1 DEF Holds, Distinct
  <2>2. ASSUME Holds(s, c), c # s[i] PROVE Holds(r, c)
    <3>1. PICK k \in 1..Len(s) : s[k] = c
      BY <2>2 DEF Holds
    <3>2. k # i
      BY <2>2, <3>1
    <3>3. PICK j \in 1..Len(r) : At(j) = k
      BY <1>4, <3>2
    <3>4. QED
      BY <1>2, <3>1, <3>3 DEF Holds
  <2>3. QED
    BY <2>1, <2>2
<1>7. QED
  BY <1>5, <1>6

\* accept takes the first connection out.
LEMMA FirstOut ==
  ASSUME NEW s \in Seq(Clients), s # <<>>, Distinct(s)
  PROVE  /\ Head(s) \in Clients /\ Holds(s, Head(s))
         /\ Distinct(Tail(s))
         /\ \A c : Holds(Tail(s), c) <=> Holds(s, c) /\ c # Head(s)
<1>1. Len(s) \in Nat /\ Len(s) # 0
  OBVIOUS
<1>2. 1 \in 1..Len(s) /\ Head(s) = s[1] /\ Head(s) \in Clients
  BY <1>1
<1>3. Tail(s) \in Seq(Clients) /\ Len(Tail(s)) = Len(s) - 1
  BY <1>1
<1>4. \A j \in 1..Len(Tail(s)) : Tail(s)[j] = s[j + 1]
  BY <1>1
<1>5. Without(s, 1, Tail(s))
  BY <1>1, <1>3, <1>4 DEF Without
<1>6. Distinct(Tail(s)) /\ \A c : Holds(Tail(s), c) <=> Holds(s, c) /\ c # s[1]
  BY <1>2, <1>5, TakenOut, Zenon
<1>7. QED
  BY <1>2, <1>6, Zenon DEF Holds

\* connect adds one at the end.
LEMMA LastIn ==
  ASSUME NEW s \in Seq(Clients), NEW c \in Clients, ~Holds(s, c), Distinct(s)
  PROVE  /\ Distinct(Append(s, c))
         /\ \A d : Holds(Append(s, c), d) <=> Holds(s, d) \/ d = c
<1>1. /\ Len(s) \in Nat /\ Len(Append(s, c)) = Len(s) + 1
      /\ Append(s, c)[Len(s) + 1] = c
      /\ \A j \in 1..Len(s) : Append(s, c)[j] = s[j]
  OBVIOUS
<1> DEFINE a == Append(s, c)
<1> HIDE DEF a
<1>2. /\ Len(a) = Len(s) + 1 /\ a[Len(s) + 1] = c
      /\ \A j \in 1..Len(s) : a[j] = s[j]
  BY <1>1 DEF a
<1>3. Distinct(a)
  BY <1>1, <1>2 DEF Distinct, Holds
<1>4. \A d : Holds(a, d) <=> Holds(s, d) \/ d = c
  <2>1. \A j \in 1..Len(a) : j \in 1..Len(s) \/ j = Len(s) + 1
    BY <1>1, <1>2
  <2>2. Len(s) + 1 \in 1..Len(a) /\ \A j \in 1..Len(s) : j \in 1..Len(a)
    BY <1>1, <1>2
  <2>3. QED
    BY <2>1, <2>2, <1>2 DEF Holds
<1>5. QED
  BY <1>3, <1>4 DEF a

\* Some worker serves c, when cn is the connection of each.
Held(cn, c) == \E w \in Workers : cn[w] = c

\* ConnectionsAccounted of a queue, of what clients do and of what workers hold.
Accounted(q, p, cn) ==
  /\ Distinct(q)
  /\ \A c \in Clients :
       /\ (p[c] # "away") <=> (Holds(q, c) \/ Held(cn, c))
       /\ ~(Holds(q, c) /\ Held(cn, c))

\* Accounted is ConnectionsAccounted of the variables ...
LEMMA AccountedNow == ConnectionsAccounted <=> Accounted(backlog, peer, conn)
  BY DEF ConnectionsAccounted, Pending, Accounted, Distinct, Holds, Held

\* ... and of their values after a step.
LEMMA AccountedNext == ConnectionsAccounted' <=> Accounted(backlog', peer', conn')
  BY DEF ConnectionsAccounted, Pending, Accounted, Distinct, Holds, Held

\* Only the one worker there can be holds a connection.
LEMMA OneHolder ==
  IInv => \A v, w \in Workers : conn[v] # None /\ conn[w] # None => v = w
  BY ThreadsDistinct DEF IInv, Coherence, ConnInv, ThreadInv, Busy

\* accept and closesocket, connect, abort and the reset by StopClose take a
\* connection from one holder to the next, and no other step touches one.
LEMMA AccountedStep ==
  IInv /\ ConnectionsAccounted /\ [Next]_vars => ConnectionsAccounted'
<1> SUFFICES ASSUME IInv, ConnectionsAccounted, [Next]_vars
             PROVE  Accounted(backlog', peer', conn')
  BY AccountedNext
<1>t. /\ backlog \in Seq(Clients)
      /\ peer \in [Clients -> PeerStates]
      /\ conn \in [Workers -> Clients \cup {None}]
      /\ None \notin Clients
  BY ThreadsDistinct DEF IInv, TypeOK
<1>a. Accounted(backlog, peer, conn)
  BY AccountedNow
<1>s. ASSUME UNCHANGED <<backlog, peer, conn>> PROVE Accounted(backlog', peer', conn')
  BY <1>a, <1>s
<1>o. \A v, w \in Workers : conn[v] # None /\ conn[w] # None => v = w
  BY OneHolder
<1>n. ASSUME NEW w \in Workers, workerPc[w] = "accept" PROVE conn[w] = None
  BY <1>n DEF IInv, Coherence, ConnInv, Busy
<1>b. ASSUME NEW w \in Workers, workerPc[w] \in Busy PROVE conn[w] \in Clients
  BY <1>b, <1>t DEF IInv, Coherence, ConnInv
<1>1. ASSUME NEW k \in Callers, StopClose(k) PROVE Accounted(backlog', peer', conn')
  <2>1. backlog' = <<>> /\ UNCHANGED conn
        /\ peer' = [c \in Clients |-> IF Holds(backlog, c) THEN "away" ELSE peer[c]]
    BY <1>1 DEF StopClose, Pending, Holds
  <2>2. Distinct(backlog') /\ \A c : ~Holds(backlog', c)
    BY <2>1 DEF Distinct, Holds
  <2>3. QED
    BY <1>a, <2>1, <2>2 DEF Accounted
<1>2. ASSUME NEW w \in Workers, AcceptConnection(w) PROVE Accounted(backlog', peer', conn')
  <2>1. /\ backlog # <<>> /\ backlog' = Tail(backlog) /\ UNCHANGED peer
        /\ workerPc[w] = "accept"
        /\ conn' = [conn EXCEPT ![w] = Head(backlog)]
    BY <1>2 DEF AcceptConnection, WorkerMoves
  <2>2. /\ Head(backlog) \in Clients /\ Holds(backlog, Head(backlog))
        /\ Distinct(backlog')
        /\ \A c : Holds(backlog', c) <=> Holds(backlog, c) /\ c # Head(backlog)
    BY <1>a, <1>t, <2>1, FirstOut DEF Accounted
  <2>3. \A c \in Clients : Held(conn', c) <=> Held(conn, c) \/ c = Head(backlog)
    BY <1>t, <1>n, <2>1, <2>2 DEF Held
  <2>4. QED
    BY <1>a, <2>1, <2>2, <2>3 DEF Accounted
<1>3. ASSUME NEW w \in Workers, AcceptFails(w) PROVE Accounted(backlog', peer', conn')
  <2>1. CASE UNCHANGED network
    BY <1>3, <2>1, <1>s DEF AcceptFails, network
  <2>2. CASE ~UNCHANGED network
    <3>1. /\ backlog # <<>> /\ backlog' = Tail(backlog) /\ UNCHANGED conn
          /\ peer' = [peer EXCEPT ![Head(backlog)] = "away"]
      BY <1>3, <2>2 DEF AcceptFails, CloseConnection
    <3>2. /\ Head(backlog) \in Clients /\ Holds(backlog, Head(backlog))
          /\ Distinct(backlog')
          /\ \A c : Holds(backlog', c) <=> Holds(backlog, c) /\ c # Head(backlog)
      BY <1>a, <1>t, <3>1, FirstOut DEF Accounted
    <3>3. QED
      BY <1>a, <1>t, <3>1, <3>2 DEF Accounted
  <2>3. QED
    BY <2>1, <2>2
<1>4. ASSUME NEW w \in Workers, SendReply(w) PROVE Accounted(backlog', peer', conn')
  <2>1. /\ UNCHANGED backlog /\ workerPc[w] = "send"
        /\ conn' = [conn EXCEPT ![w] = None]
        /\ peer' = [peer EXCEPT ![conn[w]] = "away"]
    BY <1>4 DEF SendReply, WorkerMoves, CloseConnection
  <2>2. conn[w] \in Clients
    BY <1>b, <2>1 DEF Busy
  <2>3. \A c \in Clients : Held(conn', c) <=> Held(conn, c) /\ c # conn[w]
    BY <1>o, <1>t, <2>1, <2>2 DEF Held
  <2>4. Held(conn, conn[w])
    BY DEF Held
  <2>5. QED
    BY <1>a, <1>t, <2>1, <2>2, <2>3, <2>4 DEF Accounted
<1>5. ASSUME NEW c \in Clients, Connect(c) PROVE Accounted(backlog', peer', conn')
  <2>1. /\ peer[c] = "away" /\ backlog' = Append(backlog, c) /\ UNCHANGED conn
        /\ peer' = [peer EXCEPT ![c] = "connected"]
    BY <1>5 DEF Connect
  <2>2. ~Holds(backlog, c) /\ ~Held(conn, c)
    BY <1>a, <2>1 DEF Accounted
  <2>3. Distinct(backlog') /\ \A d : Holds(backlog', d) <=> Holds(backlog, d) \/ d = c
    BY <1>a, <1>t, <2>1, <2>2, LastIn DEF Accounted
  <2>4. QED
    BY <1>a, <1>t, <2>1, <2>2, <2>3 DEF Accounted
<1>6. ASSUME NEW c \in Clients, Abort(c) PROVE Accounted(backlog', peer', conn')
  <2>1. PICK i \in 1..Len(backlog) :
          /\ backlog[i] = c
          /\ backlog' = SubSeq(backlog, 1, i - 1) \o SubSeq(backlog, i + 1, Len(backlog))
    BY <1>6 DEF Abort
  <2>2. UNCHANGED conn /\ peer' = [peer EXCEPT ![c] = "away"]
    BY <1>6 DEF Abort, CloseConnection
  <2>3. Without(backlog, i, backlog')
    <3>1. Without(backlog, i,
                  SubSeq(backlog, 1, i - 1) \o SubSeq(backlog, i + 1, Len(backlog)))
      BY <1>t, RemoveAt
    <3>2. QED
      BY <2>1, <3>1, Zenon
  <2>4. Distinct(backlog') /\ \A d : Holds(backlog', d) <=> Holds(backlog, d) /\ d # backlog[i]
    BY <1>a, <1>t, <2>3, TakenOut DEF Accounted
  <2>5. backlog[i] = c /\ Holds(backlog, c)
    BY <2>1, Zenon DEF Holds
  <2>6. QED
    BY <1>a, <1>t, <2>2, <2>4, <2>5 DEF Accounted
<1>7. ASSUME NEW c \in Clients, Stall(c) \/ Leave(c) PROVE Accounted(backlog', peer', conn')
  <2>1. /\ UNCHANGED <<backlog, conn>> /\ peer[c] # "away"
        /\ \A d \in Clients : peer'[d] # "away" <=> peer[d] # "away"
    BY <1>7, <1>t DEF Stall, Leave
  <2>2. QED
    BY <1>a, <2>1 DEF Accounted
<1>8. ASSUME NEW c \in Clients, SendRequest(c) PROVE Accounted(backlog', peer', conn')
  BY <1>8, <1>s DEF SendRequest
<1>9. ASSUME NEW k \in Callers,
             \/ CallInitialize(k) \/ CallCleanup(k) \/ InitializeStep(k)
             \/ CleanupLock(k) \/ CleanupNothing(k) \/ StopRequest(k) \/ StopJoined(k)
      PROVE  Accounted(backlog', peer', conn')
  BY <1>9, <1>s
     DEF CallInitialize, CallCleanup, InitializeStep, InitializeAgain, InitializeCreate,
         StartSucceeds, StartFails, InitializeReturn, CleanupLock, CleanupNothing,
         StopRequest, StopJoined, serving, network
<1>10. ASSUME NEW w \in Workers,
              \/ CheckStop(w) \/ Select(w) \/ ReceiveFails(w) \/ RefuseRequest(w)
              \/ RouteRequest(w) \/ Dispatch(w) \/ BeginCommand(w) \/ FinishCommand(w)
       PROVE  Accounted(backlog', peer', conn')
  BY <1>10, <1>s
     DEF CheckStop, Select, ReceiveFails, RefuseRequest, RouteRequest, Dispatch,
         BeginCommand, FinishCommand, network
<1>11. CASE UNCHANGED vars
  BY <1>11, <1>s DEF vars
<1>12. QED
  BY <1>1, <1>2, <1>3, <1>4, <1>5, <1>6, <1>7, <1>8, <1>9, <1>10, <1>11
     DEF Next, CleanupStep, LoopStep, ClientStep

\* Nothing is connected when the extension is loaded.
LEMMA AccountedInit == Init => ConnectionsAccounted
<1> SUFFICES ASSUME Init PROVE Accounted(backlog, peer, conn)
  BY AccountedNow
<1>1. backlog = <<>> /\ \A c \in Clients : peer[c] = "away" /\ ~Held(conn, c)
  BY ThreadsDistinct DEF Init, Held
<1>2. QED
  BY <1>1 DEF Accounted, Distinct, Holds

\* Every connection has one holder, the kernel's queue or a worker, until it is
\* closed, for any number of clients, workers and engine threads.
THEOREM ConnectionsKept == Spec => []ConnectionsAccounted
<1>1. IInv /\ ConnectionsAccounted /\ [Next]_vars => ConnectionsAccounted'
  BY AccountedStep
<1>2. QED
  BY <1>1, AccountedInit, Invariance, PTL DEF Spec
-----------------------------------------------------------------------------
(* Requests *)

\* What the worker is doing tells what was asked of it.
RequestInv ==
  \A w \in Workers :
    /\ workerPc[w] = "lock" => sent[conn[w]] \in {"rpc", "eval"}
    /\ workerPc[w] = "exec" => sent[conn[w]] = "eval"
    /\ workerPc[w] = "send" /\ reply[conn[w]] = 200 => sent[conn[w]] \in {"rpc", "eval"}

\* SendRequest gives a worker a request, RouteRequest and RefuseRequest let it
\* act on it, and its reply is decided by Dispatch and FinishCommand.
LEMMA RequestStep ==
  IInv /\ ConnectionsAccounted /\ RequestInv /\ [Next]_vars => RequestInv'
<1> SUFFICES ASSUME IInv, ConnectionsAccounted, RequestInv, [Next]_vars, NEW v \in Workers
             PROVE  /\ workerPc'[v] = "lock" => sent'[conn'[v]] \in {"rpc", "eval"}
                    /\ workerPc'[v] = "exec" => sent'[conn'[v]] = "eval"
                    /\ workerPc'[v] = "send" /\ reply'[conn'[v]] = 200 =>
                         sent'[conn'[v]] \in {"rpc", "eval"}
  BY DEF RequestInv
<1> DEFINE Goal == /\ workerPc'[v] = "lock" => sent'[conn'[v]] \in {"rpc", "eval"}
                   /\ workerPc'[v] = "exec" => sent'[conn'[v]] = "eval"
                   /\ workerPc'[v] = "send" /\ reply'[conn'[v]] = 200 =>
                        sent'[conn'[v]] \in {"rpc", "eval"}
<1>t. /\ conn \in [Workers -> Clients \cup {None}]
      /\ workerPc \in [Workers -> WorkerPcs]
      /\ sent \in [Clients -> Payloads] /\ reply \in [Clients -> Statuses]
      /\ backlog \in Seq(Clients) /\ None \notin Clients
  BY ThreadsDistinct DEF IInv, TypeOK
<1>r. /\ workerPc[v] = "lock" => sent[conn[v]] \in {"rpc", "eval"}
      /\ workerPc[v] = "exec" => sent[conn[v]] = "eval"
      /\ workerPc[v] = "send" /\ reply[conn[v]] = 200 => sent[conn[v]] \in {"rpc", "eval"}
  BY DEF RequestInv
<1>b. ASSUME NEW w \in Workers, workerPc[w] \in Busy PROVE conn[w] \in Clients
  BY <1>b, <1>t DEF IInv, Coherence, ConnInv
<1>o. ASSUME NEW w \in Workers, workerPc[w] \in Busy, workerPc[v] \in Busy PROVE w = v
  BY <1>b, <1>o, <1>t, OneHolder
<1>p. ASSUME workerPc[v] \in Busy PROVE ~Holds(backlog, conn[v])
  BY <1>b, <1>p, AccountedNow DEF Accounted, Held
<1>s. ASSUME workerPc'[v] = workerPc[v], UNCHANGED <<conn, reply>>,
             workerPc[v] \in Busy => sent'[conn[v]] = sent[conn[v]]
      PROVE  Goal
  BY <1>r, <1>s DEF Busy
<1>1. ASSUME NEW k \in Callers, StopClose(k) PROVE Goal
  <2>1. UNCHANGED <<workerPc, conn, reply>>
        /\ sent' = [c \in Clients |-> IF Holds(backlog, c) THEN "nothing" ELSE sent[c]]
    BY <1>1 DEF StopClose, Pending, Holds, answers
  <2>2. QED
    BY <2>1, <1>b, <1>p, <1>s
<1>2. ASSUME NEW w \in Workers, AcceptFails(w) PROVE Goal
  <2>1. workerPc[w] = "accept" /\ workerPc' = [workerPc EXCEPT ![w] = "check"]
        /\ UNCHANGED <<conn, reply>>
    BY <1>2 DEF AcceptFails, WorkerMoves, answers
  <2>2. CASE v = w
    BY <1>t, <2>1, <2>2
  <2>3. CASE v # w
    <3>1. CASE UNCHANGED sent
      BY <1>t, <2>1, <2>3, <3>1, <1>s
    <3>2. CASE ~UNCHANGED sent
      <4>1. backlog # <<>> /\ sent' = [sent EXCEPT ![Head(backlog)] = "nothing"]
        BY <1>2, <3>2 DEF AcceptFails, CloseConnection, network
      <4>2. Holds(backlog, Head(backlog))
        BY <4>1, <1>t, FirstOut, AccountedNow DEF Accounted
      <4>3. workerPc[v] \in Busy => sent'[conn[v]] = sent[conn[v]]
        BY <1>b, <1>p, <1>t, <4>1, <4>2
      <4>4. QED
        BY <1>t, <2>1, <2>3, <4>3, <1>s
    <3>3. QED
      BY <3>1, <3>2
  <2>4. QED
    BY <2>2, <2>3
<1>3. ASSUME NEW c \in Clients, Abort(c) PROVE Goal
  <2>1. Holds(backlog, c) /\ UNCHANGED <<workerPc, conn, reply>>
        /\ sent' = [sent EXCEPT ![c] = "nothing"]
    BY <1>3, Zenon DEF Abort, Holds, CloseConnection, answers
  <2>2. QED
    BY <2>1, <1>b, <1>p, <1>s, <1>t
<1>4. ASSUME NEW c \in Clients, SendRequest(c) PROVE Goal
  <2>1. sent[c] = "nothing" /\ UNCHANGED <<workerPc, conn, reply>>
        /\ \A d \in Clients \ {c} : sent'[d] = sent[d]
    BY <1>4, <1>t DEF SendRequest, answers
  <2>2. QED
    BY <2>1, <1>r, <1>b, <1>t DEF Busy
<1>5. ASSUME NEW w \in Workers, SendReply(w) PROVE Goal
  <2>1. workerPc[w] = "send" /\ workerPc' = [workerPc EXCEPT ![w] = "check"]
    BY <1>5 DEF SendReply, WorkerMoves
  <2>2. CASE v = w
    BY <1>t, <2>1, <2>2
  <2>3. CASE v # w
    <3>1. workerPc'[v] \notin Busy
      BY <1>o, <1>t, <2>1, <2>3 DEF Busy
    <3>2. QED
      BY <3>1 DEF Busy
  <2>4. QED
    BY <2>2, <2>3
<1>6. ASSUME NEW w \in Workers,
             \/ ReceiveFails(w) \/ RefuseRequest(w) \/ RouteRequest(w)
             \/ Dispatch(w) \/ BeginCommand(w) \/ FinishCommand(w)
      PROVE  Goal
  <2>1. workerPc[w] \in Busy /\ UNCHANGED <<conn, sent>>
        /\ \A u \in Workers \ {w} : workerPc'[u] = workerPc[u]
    BY <1>6, <1>t
       DEF ReceiveFails, RefuseRequest, RouteRequest, Dispatch, BeginCommand, FinishCommand,
           WorkerMoves, Busy, network
  <2>2. CASE v # w
    <3>1. workerPc'[v] \notin Busy
      BY <1>o, <2>1, <2>2
    <3>2. QED
      BY <3>1 DEF Busy
  <2>3. CASE v = w
    <3>1. conn[v] \in Clients
      BY <1>b, <2>1, <2>3
    <3>2. CASE ReceiveFails(w)
      <4>1. workerPc'[v] = "send" /\ reply'[conn[v]] = 400
        BY <1>t, <2>3, <3>1, <3>2 DEF ReceiveFails, WorkerMoves
      <4>2. QED
        BY <2>1, <4>1
    <3>3. CASE RefuseRequest(w)
      <4>1. workerPc'[v] = "send" /\ reply'[conn[v]] \in {403, 404}
        BY <1>t, <2>3, <3>1, <3>3 DEF RefuseRequest, RefusalStatus, WorkerMoves
      <4>2. QED
        BY <2>1, <4>1
    <3>4. CASE RouteRequest(w)
      BY <1>t, <2>1, <2>3, <3>4 DEF RouteRequest, WorkerMoves
    <3>5. CASE Dispatch(w)
      BY <1>r, <1>t, <2>1, <2>3, <3>5 DEF Dispatch, WorkerMoves
    <3>6. CASE BeginCommand(w)
      BY <1>t, <2>1, <2>3, <3>6 DEF BeginCommand, ReachesExecutor, WorkerMoves
    <3>7. CASE FinishCommand(w)
      BY <1>r, <1>t, <2>1, <2>3, <3>7 DEF FinishCommand, WorkerMoves
    <3>8. QED
      BY <1>6, <3>2, <3>3, <3>4, <3>5, <3>6, <3>7
  <2>4. QED
    BY <2>2, <2>3
<1>7. ASSUME NEW w \in Workers, CheckStop(w) \/ Select(w) \/ AcceptConnection(w)
      PROVE  Goal
  <2>1. UNCHANGED <<reply, sent>> /\ workerPc'[w] \in {"exited", "select", "check", "accept", "recv"}
        /\ \A u \in Workers \ {w} : workerPc'[u] = workerPc[u] /\ conn'[u] = conn[u]
    BY <1>7, <1>t DEF CheckStop, Select, AcceptConnection, WorkerMoves, network, answers
  <2>2. QED
    BY <2>1, <1>r
<1>8. ASSUME NEW k \in Callers,
             \/ CallInitialize(k) \/ CallCleanup(k) \/ InitializeAgain(k)
             \/ InitializeCreate(k) \/ StartFails(k) \/ InitializeReturn(k)
             \/ CleanupLock(k) \/ CleanupNothing(k) \/ StopRequest(k)
      PROVE  Goal
  BY <1>8, <1>s
     DEF CallInitialize, CallCleanup, InitializeAgain, InitializeCreate, StartFails,
         InitializeReturn, CleanupLock, CleanupNothing, StopRequest, serving, network, answers
<1>9. ASSUME NEW k \in Callers, StopJoined(k) \/ \E w \in Workers : StartSucceeds(k, w)
      PROVE  Goal
  <2>1. /\ UNCHANGED <<conn, sent, reply>>
        /\ workerPc'[v] = workerPc[v] \/ workerPc'[v] \in {"none", "check"}
    BY <1>9, <1>t DEF StopJoined, StartSucceeds, WorkerMoves, network, answers
  <2>2. QED
    BY <2>1, <1>r
<1>10. ASSUME NEW c \in Clients, Connect(c) \/ Stall(c) \/ Leave(c) PROVE Goal
  BY <1>10, <1>s DEF Connect, Stall, Leave, answers
<1>11. CASE UNCHANGED vars
  BY <1>11, <1>s DEF vars
<1>12. QED
  BY <1>1, <1>2, <1>3, <1>4, <1>5, <1>6, <1>7, <1>8, <1>9, <1>10, <1>11
     DEF Next, InitializeStep, CleanupStep, LoopStep, ClientStep
-----------------------------------------------------------------------------
(* The refinement *)

\* The place of an eval call whose worker is at pc and that is answered with r.
JobOf(pc, r) ==
  CASE pc = "lock" -> "accepted"
    [] pc = "exec" -> "executing"
    [] pc = "send" /\ r = 200 -> "executed"
    [] OTHER -> "none"

\* A client's call is where the worker that holds its connection is, and there
\* is none of a client that no worker serves.
JobTable ==
  /\ \A c \in Clients : ~Held(conn, c) \/ sent[c] # "eval" => Job(c) = "none"
  /\ \A w \in Workers : conn[w] \in Clients =>
       /\ sent[conn[w]] = "eval" => Job(conn[w]) = JobOf(workerPc[w], reply[conn[w]])
       /\ \A c \in Clients \ {conn[w]} : Job(c) = "none"

\* The one worker there can be is where its own client's call is.
LEMMA JobFacts == IInv => JobTable
<1> SUFFICES ASSUME IInv PROVE JobTable
  OBVIOUS
<1>o. \A v, w \in Workers : conn[v] \in Clients /\ conn[w] \in Clients => v = w
  BY OneHolder, ThreadsDistinct
<1>1. ASSUME NEW c \in Clients, ~Held(conn, c) \/ sent[c] # "eval" PROVE Job(c) = "none"
  BY <1>1 DEF Job, Held
<1>2. ASSUME NEW w \in Workers, conn[w] \in Clients, sent[conn[w]] = "eval"
      PROVE  Job(conn[w]) = JobOf(workerPc[w], reply[conn[w]])
  <2>1. \A pc : (\E v \in Workers : conn[v] = conn[w] /\ workerPc[v] = pc) <=> workerPc[w] = pc
    BY <1>2, <1>o
  <2>2. QED
    BY <1>2, <2>1 DEF Job, JobOf
<1>3. ASSUME NEW w \in Workers, conn[w] \in Clients, NEW c \in Clients \ {conn[w]}
      PROVE  Job(c) = "none"
  <2>1. ~Held(conn, c)
    BY <1>3, <1>o DEF Held
  <2>2. QED
    BY <1>1, <2>1
<1>4. QED
  BY <1>1, <1>2, <1>3 DEF JobTable

\* The same after a step.
LEMMA JobFactsNext == IInv' => JobTable'
  BY JobFacts, PTL

\* A thread that serves a request has all it uses (NoOrphanThread).
LEMMA ServingIsUp ==
  IInv => /\ \A w \in Workers : workerPc[w] \notin {"none", "exited"} => objects = Owned
          /\ \A w \in Workers : conn[w] # None <=> workerPc[w] \in Busy
          /\ implWorker = None => \A w \in Workers : workerPc[w] = "none"
  BY ThreadsDistinct
     DEF IInv, Coherence, ConnInv, ThreadInv, PhaseInv, HolderInv, InSection, InCleanup,
         Up, Down, Stopping, TypeOK, CallerPcs

\* The calls EvalService sees.
Jobs == [c \in Clients |-> Job(c)]

\* Every step of the extension is one of the service, or none.
LEMMA Simulation ==
  IInv /\ IInv' /\ ConnectionsAccounted /\ RequestInv /\ [Next]_vars
    => [Service!ServiceNext]_(Service!serviceVars)
<1> SUFFICES ASSUME IInv, IInv', ConnectionsAccounted, RequestInv, [Next]_vars
             PROVE  Service!ServiceNext \/ UNCHANGED Service!serviceVars
  OBVIOUS
<1> DEFINE Goal == Service!ServiceNext \/ UNCHANGED Service!serviceVars
<1>t. /\ conn \in [Workers -> Clients \cup {None}]
      /\ workerPc \in [Workers -> WorkerPcs]
      /\ sent \in [Clients -> Payloads] /\ reply \in [Clients -> Statuses]
      /\ backlog \in Seq(Clients) /\ None \notin Clients
  BY ThreadsDistinct DEF IInv, TypeOK
<1>j. JobTable /\ JobTable'
  BY JobFacts, JobFactsNext
<1>u. /\ \A w \in Workers : workerPc[w] \notin {"none", "exited"} => objects = Owned
      /\ \A w \in Workers : conn[w] # None <=> workerPc[w] \in Busy
      /\ implWorker = None => \A w \in Workers : workerPc[w] = "none"
  BY ServingIsUp
<1>f. stateMutex = None => Up \/ Down({})
  BY ThreadsDistinct DEF IInv, Coherence, PhaseInv
<1>b. ASSUME NEW w \in Workers, workerPc[w] \in Busy PROVE conn[w] \in Clients
  BY <1>b, <1>t, <1>u
<1>q. ASSUME UNCHANGED objects, \A c \in Clients : Job(c)' = Job(c) PROVE Goal
  BY <1>q DEF Service!serviceVars
\* Nobody is served before a step that takes the objects away, nor after it.
<1>n. ASSUME \A w \in Workers : workerPc[w] \in {"none", "exited"}, UNCHANGED conn
      PROVE  \A c \in Clients : Job(c) = "none" /\ Job(c)' = "none"
  <2>1. \A c \in Clients : ~Held(conn, c)
    BY <1>n, <1>t, <1>u DEF Held, Busy
  <2>2. QED
    BY <1>j, <1>n, <2>1 DEF JobTable
\* A step of the worker that serves c moves the call of c alone.
<1>m. ASSUME NEW w \in Workers, workerPc[w] \in Busy, UNCHANGED <<conn, sent, objects>>,
             sent[conn[w]] = "eval",
             NEW from, from = JobOf(workerPc[w], reply[conn[w]]),
             NEW to, to = JobOf(workerPc'[w], reply'[conn[w]])
      PROVE  Service!Advance(conn[w], from, to)
  <2>1. conn[w] \in Clients /\ conn'[w] = conn[w] /\ sent'[conn[w]] = "eval"
    BY <1>b, <1>m
  <2>2. Job(conn[w]) = from /\ \A c \in Clients \ {conn[w]} : Job(c) = "none"
    BY <1>j, <1>m, <2>1 DEF JobTable
  <2>3. Job(conn[w])' = to /\ \A c \in Clients \ {conn[w]} : Job(c)' = "none"
    <3>1. \A d \in Clients : d = conn'[w] => Job(d)' = to
      BY <1>j, <1>m, <2>1 DEF JobTable
    <3>2. QED
      BY <1>j, <2>1, <3>1 DEF JobTable
  <2>4. "router" \in objects /\ "router" \in objects'
    BY <1>m, <1>u DEF Busy, Owned
  <2>5. Jobs' = [Jobs EXCEPT ![conn[w]] = to]
    BY <2>1, <2>2, <2>3 DEF Jobs
  <2>6. QED
    BY <2>1, <2>2, <2>4, <2>5 DEF Service!Advance, Jobs
\* A step that serves a request that is not an eval call moves none.
<1>v. ASSUME NEW w \in Workers, workerPc[w] \in Busy, UNCHANGED <<conn, sent, objects>>,
             \/ sent[conn[w]] # "eval"
             \/ JobOf(workerPc[w], reply[conn[w]]) = "none"
                /\ JobOf(workerPc'[w], reply'[conn[w]]) = "none"
      PROVE  Goal
  <2>1. conn[w] \in Clients /\ conn'[w] = conn[w] /\ sent'[conn[w]] = sent[conn[w]]
    BY <1>b, <1>v
  <2>2. \A c \in Clients : Job(c) = "none"
    BY <1>j, <1>v, <2>1 DEF JobTable
  <2>3. \A c \in Clients : Job(c)' = "none"
    BY <1>j, <1>v, <2>1 DEF JobTable
  <2>4. QED
    BY <1>q, <1>v, <2>2, <2>3
<1>1. ASSUME NEW k \in Callers,
             \/ CallInitialize(k) \/ CallCleanup(k) \/ InitializeAgain(k)
             \/ InitializeReturn(k) \/ CleanupLock(k) \/ StopRequest(k)
      PROVE  Goal
  <2>1. UNCHANGED <<objects, workerPc, conn, sent, reply>>
    BY <1>1 DEF CallInitialize, CallCleanup, InitializeAgain, InitializeReturn, CleanupLock,
                StopRequest, lifecycle, serving, network, answers
  <2>2. QED
    BY <1>q, <2>1 DEF Job
<1>2. ASSUME NEW k \in Callers, InitializeCreate(k) \/ CleanupNothing(k) PROVE Goal
  <2>1. UNCHANGED <<workerPc, conn, sent, reply>> /\ stateMutex = None
        /\ ("server" \notin objects \/ ~running)
    BY <1>2 DEF InitializeCreate, AlreadyServing, CleanupNothing, LockFree, serving, network, answers
  <2>2. objects = {} /\ \A c \in Clients : Job(c)' = Job(c)
    BY <1>f, <2>1 DEF Up, Down, Owned, Job
  <2>3. CASE CleanupNothing(k)
    BY <1>q, <2>2, <2>3 DEF CleanupNothing
  <2>4. CASE InitializeCreate(k)
    <3>1. "router" \notin objects /\ "router" \in objects'
      BY <2>2, <2>4 DEF InitializeCreate, Owned
    <3>2. Service!Load
      BY <2>2, <3>1 DEF Service!Load
    <3>3. QED
      BY <3>2 DEF Service!ServiceNext
  <2>5. QED
    BY <1>2, <2>3, <2>4
<1>3. ASSUME NEW k \in Callers, NEW w \in Workers, StartSucceeds(k, w) PROVE Goal
  <2>1. /\ UNCHANGED <<objects, conn, sent, reply>> /\ workerPc[w] = "none"
        /\ callerPc[k] = "start"
    BY <1>3 DEF StartSucceeds, CallerMoves, WorkerMoves, network, answers
  <2>2. \A v \in Workers : workerPc[v] \in {"none", "exited"}
    BY <1>u, <2>1 DEF IInv, Coherence, PhaseInv, Down
  <2>3. QED
    BY <1>n, <1>q, <2>1, <2>2
<1>4. ASSUME NEW k \in Callers, StartFails(k) \/ StopJoined(k) PROVE Goal
  <2>1. UNCHANGED conn /\ objects' = {}
        /\ (callerPc[k] = "start" \/ (callerPc[k] = "join" /\ JoinReturns))
    BY <1>4 DEF StartFails, StopJoined, CallerMoves, serving
  <2>2. objects = Owned /\ \A v \in Workers : workerPc[v] \in {"none", "exited"}
    <3>1. CASE callerPc[k] = "start"
      BY <1>u, <3>1 DEF IInv, Coherence, PhaseInv, Down
    <3>2. CASE callerPc[k] = "join" /\ JoinReturns
      BY <3>2, ThreadsDistinct
         DEF IInv, Coherence, PhaseInv, Stopping, ThreadInv, JoinReturns
    <3>3. QED
      BY <2>1, <3>1, <3>2
  <2>3. \A c \in Clients : Job(c) = "none" /\ Job(c)' = "none"
    BY <1>n, <2>1, <2>2
  <2>4. Service!Unload
    BY <2>1, <2>2, <2>3 DEF Service!Unload, Owned
  <2>5. QED
    BY <2>4 DEF Service!ServiceNext
<1>5. ASSUME NEW k \in Callers, StopClose(k) PROVE Goal
  <2>1. /\ UNCHANGED <<objects, workerPc, conn, reply>>
        /\ \A c \in Clients : ~Holds(backlog, c) => sent'[c] = sent[c]
    BY <1>5 DEF StopClose, Pending, Holds, answers
  <2>2. \A c \in Clients : Held(conn, c) => sent'[c] = sent[c]
    BY <2>1, AccountedNow DEF Accounted
  <2>3. \A c \in Clients : Job(c)' = Job(c)
    BY <2>1, <2>2 DEF Job, Held
  <2>4. QED
    BY <1>q, <2>1, <2>3
<1>6. ASSUME NEW w \in Workers, CheckStop(w) \/ Select(w) \/ AcceptFails(w) PROVE Goal
  <2>1. /\ UNCHANGED <<objects, conn, reply>>
        /\ workerPc[w] \in {"check", "select", "accept"}
        /\ \A v \in Workers \ {w} : workerPc'[v] = workerPc[v]
        /\ UNCHANGED sent \/ /\ backlog # <<>>
                             /\ sent' = [sent EXCEPT ![Head(backlog)] = "nothing"]
    BY <1>6, <1>t
       DEF CheckStop, Select, AcceptFails, WorkerMoves, CloseConnection, lifecycle, network, answers
  <2>2. conn[w] = None
    BY <1>u, <2>1 DEF Busy
  <2>3. \A c \in Clients : Held(conn, c) => sent'[c] = sent[c]
    BY <1>t, <2>1, FirstOut, AccountedNow DEF Accounted
  <2>4. \A c \in Clients : Job(c)' = Job(c)
    <3>1. ASSUME NEW c \in Clients, NEW pc
          PROVE  (\E v \in Workers : conn'[v] = c /\ workerPc'[v] = pc)
                   <=> (\E v \in Workers : conn[v] = c /\ workerPc[v] = pc)
      BY <1>t, <2>1, <2>2
    <3>2. ASSUME NEW c \in Clients, Held(conn, c) PROVE Job(c)' = Job(c)
      <4>1. UNCHANGED reply /\ sent'[c] = sent[c]
        BY <2>1, <2>3, <3>2
      <4>2. QED
        BY <3>1, <4>1 DEF Job
    <3>3. ASSUME NEW c \in Clients, ~Held(conn, c) PROVE Job(c)' = Job(c)
      <4>1. ~Held(conn', c)
        BY <2>1, <3>3 DEF Held
      <4>2. QED
        BY <1>j, <3>3, <4>1 DEF JobTable
    <3>4. QED
      BY <3>2, <3>3
  <2>5. QED
    BY <1>q, <2>1, <2>4
<1>7. ASSUME NEW w \in Workers, AcceptConnection(w) PROVE Goal
  <2>1. /\ UNCHANGED <<objects, sent, reply>> /\ backlog # <<>>
        /\ workerPc[w] = "accept" /\ workerPc'[w] = "recv"
        /\ conn'[w] = Head(backlog)
        /\ \A v \in Workers \ {w} : workerPc'[v] = workerPc[v] /\ conn'[v] = conn[v]
    BY <1>7, <1>t DEF AcceptConnection, WorkerMoves, lifecycle, network, answers
  <2>2. Head(backlog) \in Clients /\ ~Held(conn, Head(backlog)) /\ conn[w] = None
    <3>1. Head(backlog) \in Clients /\ Holds(backlog, Head(backlog))
      BY <1>t, <2>1, FirstOut, AccountedNow DEF Accounted
    <3>2. QED
      BY <1>u, <2>1, <3>1, AccountedNow DEF Accounted, Busy
  <2>3. \A c \in Clients : Job(c)' = "none"
    BY <1>j, <2>1, <2>2 DEF JobTable, JobOf
  <2>4. \A v \in Workers : conn[v] = None
    <3>1. \A v \in Workers : workerPc[v] # "none" => v = w
      BY <2>1, ThreadsDistinct DEF IInv, Coherence, ThreadInv
    <3>2. QED
      BY <1>u, <2>1, <3>1 DEF Busy
  <2>5. \A c \in Clients : Job(c) = "none"
    BY <1>j, <1>t, <2>4 DEF JobTable, Held
  <2>6. QED
    BY <1>q, <2>1, <2>3, <2>5
<1>8. ASSUME NEW w \in Workers, ReceiveFails(w) \/ RefuseRequest(w) PROVE Goal
  <2>1. workerPc[w] = "recv" /\ workerPc'[w] = "send" /\ UNCHANGED <<conn, sent, objects>>
    BY <1>8, <1>t DEF ReceiveFails, RefuseRequest, WorkerMoves, lifecycle, network
  <2>2. reply'[conn[w]] \in {400, 403, 404}
    <3>1. conn[w] \in Clients
      BY <1>b, <2>1 DEF Busy
    <3>2. QED
      BY <1>8, <1>t, <3>1 DEF ReceiveFails, RefuseRequest, RefusalStatus
  <2>3. JobOf(workerPc[w], reply[conn[w]]) = "none" /\ JobOf(workerPc'[w], reply'[conn[w]]) = "none"
    BY <2>1, <2>2 DEF JobOf
  <2>4. QED
    BY <1>v, <2>1, <2>3 DEF Busy
<1>9. ASSUME NEW w \in Workers, RouteRequest(w) PROVE Goal
  <2>1. workerPc[w] = "recv" /\ workerPc'[w] = "lock" /\ UNCHANGED <<conn, sent, objects>>
    BY <1>9, <1>t DEF RouteRequest, WorkerMoves, lifecycle, network
  <2>2. CASE sent[conn[w]] = "eval"
    <3>1. "none" = JobOf(workerPc[w], reply[conn[w]])
          /\ "accepted" = JobOf(workerPc'[w], reply'[conn[w]])
      BY <2>1 DEF JobOf
    <3>2. Service!Accept(conn[w])
      BY <1>m, <2>1, <2>2, <3>1 DEF Service!Accept, Busy
    <3>3. QED
      BY <1>b, <2>1, <3>2 DEF Service!ServiceNext, Busy
  <2>3. QED
    BY <1>v, <2>1, <2>2 DEF Busy
<1>10. ASSUME NEW w \in Workers, Dispatch(w) PROVE Goal
  <2>1. workerPc[w] = "lock" /\ UNCHANGED <<conn, sent, objects>> /\ ~ReachesExecutor(conn[w])
    BY <1>10 DEF Dispatch, WorkerMoves, lifecycle, network
  <2>2. sent[conn[w]] # "eval"
    BY <1>u, <2>1 DEF ReachesExecutor, Owned
  <2>3. QED
    BY <1>v, <2>1, <2>2 DEF Busy
<1>11. ASSUME NEW w \in Workers, BeginCommand(w) PROVE Goal
  <2>1. /\ workerPc[w] = "lock" /\ workerPc'[w] = "exec" /\ sent[conn[w]] = "eval"
        /\ UNCHANGED <<conn, sent, objects>>
    BY <1>11, <1>t DEF BeginCommand, ReachesExecutor, WorkerMoves, network
  <2>2. "accepted" = JobOf(workerPc[w], reply[conn[w]])
        /\ "executing" = JobOf(workerPc'[w], reply'[conn[w]])
    BY <2>1 DEF JobOf
  <2>3. Service!Execute(conn[w])
    BY <1>m, <2>1, <2>2 DEF Service!Execute, Busy
  <2>4. QED
    BY <1>b, <2>1, <2>3 DEF Service!ServiceNext, Busy
<1>12. ASSUME NEW w \in Workers, FinishCommand(w) PROVE Goal
  <2>1. /\ workerPc[w] = "exec" /\ workerPc'[w] = "send"
        /\ UNCHANGED <<conn, sent, objects>>
    BY <1>12, <1>t DEF FinishCommand, WorkerMoves, network
  <2>2. sent[conn[w]] = "eval" /\ conn[w] \in Clients
    BY <1>b, <2>1 DEF RequestInv, Busy
  <2>3. reply'[conn[w]] = 200
    BY <1>12, <1>t, <2>2 DEF FinishCommand
  <2>4. "executing" = JobOf(workerPc[w], reply[conn[w]])
        /\ "executed" = JobOf(workerPc'[w], reply'[conn[w]])
    BY <2>1, <2>3 DEF JobOf
  <2>5. Service!Complete(conn[w])
    BY <1>m, <2>1, <2>2, <2>4 DEF Service!Complete, Busy
  <2>6. QED
    BY <2>2, <2>5 DEF Service!ServiceNext
<1>13. ASSUME NEW w \in Workers, SendReply(w) PROVE Goal
  <2>1. /\ workerPc[w] = "send" /\ UNCHANGED objects
        /\ conn' = [conn EXCEPT ![w] = None]
    BY <1>13 DEF SendReply, WorkerMoves, lifecycle
  <2>2. conn[w] \in Clients /\ \A v \in Workers : conn[v] # None => v = w
    BY <1>b, <1>t, <2>1, OneHolder DEF Busy
  <2>3. \A c \in Clients : ~Held(conn', c)
    BY <1>t, <2>1, <2>2 DEF Held
  <2>4. \A c \in Clients : Job(c)' = "none"
    BY <1>j, <2>3 DEF JobTable
  <2>5. \A c \in Clients \ {conn[w]} : Job(c) = "none"
    BY <1>j, <2>2 DEF JobTable
  <2>6. CASE Job(conn[w]) = "none"
    BY <1>q, <2>1, <2>4, <2>5, <2>6
  <2>7. CASE Job(conn[w]) # "none"
    <3>1. sent[conn[w]] = "eval"
      BY <1>j, <2>2, <2>7 DEF JobTable
    <3>2. Job(conn[w]) = JobOf(workerPc[w], reply[conn[w]])
      BY <1>j, <2>2, <3>1 DEF JobTable
    <3>3. Job(conn[w]) = "executed"
      BY <2>1, <2>7, <3>2 DEF JobOf
    <3>4. Jobs' = [Jobs EXCEPT ![conn[w]] = "none"]
      BY <2>2, <2>4, <2>5 DEF Jobs
    <3>5. "router" \in objects /\ "router" \in objects'
      BY <1>u, <2>1 DEF Owned
    <3>6. Service!Answer(conn[w])
      BY <2>2, <2>5, <3>3, <3>4, <3>5 DEF Service!Answer, Service!Advance, Jobs
    <3>7. QED
      BY <2>2, <3>6 DEF Service!ServiceNext
  <2>8. QED
    BY <2>6, <2>7
<1>14. ASSUME NEW c \in Clients, Connect(c) \/ Stall(c) \/ Leave(c) PROVE Goal
  <2>1. UNCHANGED <<objects, workerPc, conn, sent, reply>>
    BY <1>14 DEF Connect, Stall, Leave, lifecycle, answers
  <2>2. QED
    BY <1>q, <2>1 DEF Job
<1>15. ASSUME NEW c \in Clients, SendRequest(c) PROVE Goal
  <2>1. /\ UNCHANGED <<objects, workerPc, conn, reply>> /\ sent[c] = "nothing"
        /\ \A d \in Clients \ {c} : sent'[d] = sent[d]
    BY <1>15, <1>t DEF SendRequest, lifecycle, answers
  <2>2. \A d \in Clients \ {c} : Job(d)' = Job(d)
    BY <2>1 DEF Job
  <2>3. Job(c) = "none"
    BY <1>j, <2>1 DEF JobTable
  <2>4. Job(c)' = "none"
    <3>1. \A w \in Workers : conn[w] = c => JobOf(workerPc[w], reply[c]) = "none"
      BY <2>1 DEF RequestInv, JobOf
    <3>2. QED
      BY <1>j, <2>1, <3>1 DEF JobTable, Held
  <2>5. QED
    BY <1>q, <2>1, <2>2, <2>3, <2>4
<1>16. ASSUME NEW c \in Clients, Abort(c) PROVE Goal
  <2>1. /\ UNCHANGED <<objects, workerPc, conn, reply>> /\ Holds(backlog, c)
        /\ sent' = [sent EXCEPT ![c] = "nothing"]
    BY <1>16, Zenon DEF Abort, Holds, CloseConnection, lifecycle, answers
  <2>2. \A d \in Clients \ {c} : Job(d)' = Job(d)
    BY <1>t, <2>1 DEF Job
  <2>3. Job(c) = "none"
    BY <1>j, <2>1, AccountedNow DEF JobTable, Accounted
  <2>4. Job(c)' = "none"
    BY <1>j, <1>t, <2>1 DEF JobTable
  <2>5. QED
    BY <1>q, <2>1, <2>2, <2>3, <2>4
<1>17. CASE UNCHANGED vars
  BY <1>q, <1>17 DEF vars, Job
<1>18. QED
  BY <1>1, <1>2, <1>3, <1>4, <1>5, <1>6, <1>7, <1>8, <1>9, <1>10, <1>11, <1>12, <1>13,
     <1>14, <1>15, <1>16, <1>17
     DEF Next, InitializeStep, CleanupStep, LoopStep, ClientStep

\* Before anything is loaded the service is down and nobody is served.
LEMMA ServiceStart == Init => RequestInv /\ Service!ServiceInit
<1> SUFFICES ASSUME Init PROVE RequestInv /\ Service!ServiceInit
  OBVIOUS
<1>1. \A w \in Workers : workerPc[w] = "none"
  BY DEF Init
<1>2. RequestInv
  BY <1>1 DEF RequestInv
<1>3. \A c \in Clients : Job(c) = "none"
  BY <1>1 DEF Job
<1>4. "router" \notin objects
  BY DEF Init
<1>5. QED
  BY <1>2, <1>3, <1>4 DEF Service!ServiceInit

\* A windbg.eval call that was read is executed at most once, alone, under a
\* loaded extension, and unloading waits for it, for any number of threads and clients.
THEOREM EvalServiceImplemented == Spec => ImplementsEvalService
<1>1. /\ IInv /\ ConnectionsAccounted /\ RequestInv /\ [Next]_vars => RequestInv'
      /\ Init => RequestInv /\ Service!ServiceInit
  BY RequestStep, ServiceStart
<1>2. IInv /\ IInv' /\ ConnectionsAccounted /\ RequestInv /\ [Next]_vars
        => [Service!ServiceNext]_(Service!serviceVars)
  BY Simulation
<1>3. QED
  BY <1>1, <1>2, Invariance, ConnectionsKept, PTL
     DEF Spec, ImplementsEvalService, Service!ServiceSpec
=============================================================================
