------------------------------ MODULE Extension ------------------------------
(***************************************************************************)
(* The loaded extension: engine threads calling DebugExtensionInitialize   *)
(* and Uninitialize/Unload, the one worker thread of HttpServer, and the   *)
(* HTTP clients at the other end of its sockets.                           *)
(*                                                                         *)
(* ExtensionState::mutex is the only lock that matters: HttpServer's own   *)
(* mutex is taken by Start and Stop alone, which run under it.  A step is  *)
(* what one thread does between two accesses to shared state, or between   *)
(* two calls that may block (lock, select, accept, recv, send, join).      *)
(***************************************************************************)
EXTENDS Naturals, Sequences

CONSTANTS
  Callers,   \* engine threads that call the exported functions
  Workers,   \* identities for the std::threads that Start creates
  Clients,   \* peers, each with at most one TCP connection at a time
  None       \* no thread, no connection

ASSUME ThreadsDistinct ==
  /\ Callers \cap Workers = {}
  /\ None \notin Callers \cup Workers \cup Clients

VARIABLES
  stateMutex,     \* ExtensionState::mutex: its holder, or None
  objects,        \* the unique_ptrs of ExtensionState that are not null
  running,        \* Impl::running
  stopRequested,  \* Impl::stop_requested
  listenSocket,   \* Impl::listen_socket: "open" or "invalid"
  implWorker,     \* Impl::worker: the joinable thread, or None
  callerPc,       \* [Callers -> where the call is]
  workerPc,       \* [Workers -> where the thread is]
  conn,           \* [Workers -> client_socket's peer, or None]
  backlog,        \* connections the kernel holds for accept, oldest first
  peer,           \* [Clients -> what the client does with its connection]
  sent,           \* [Clients -> what the client has sent on it]
  reply,          \* [Clients -> status of the response built, 0 before]
  stage           \* [Clients -> last stage echoed for its request]

server == <<running, stopRequested, listenSocket, implWorker>>
lifecycle == <<stateMutex, objects, server>>
network == <<backlog, peer, sent>>
answers == <<reply, stage>>
serving == <<workerPc, conn, network, answers>>
vars == <<stateMutex, objects, running, stopRequested, listenSocket, implWorker,
          callerPc, workerPc, conn, backlog, peer, sent, reply, stage>>

Owned == {"executor", "router", "server"}

CallerPcs == {"idle", "initialize", "start", "announce",
              "cleanup", "stop", "close", "join"}
WorkerPcs == {"none", "check", "select", "accept", "recv",
              "lock", "exec", "send", "exited"}

\* Requests by what HandleRequest does with them: 404 before any echo; 403,
\* 400 or 405 before the lock; a JSON-RPC message the router answers itself;
\* a windbg.eval call it hands to the executor.
Kinds == {"notfound", "refused", "rpc", "eval"}
\* "nothing" is also an incomplete request, "junk" one ReceiveRequest rejects.
Payloads == Kinds \cup {"nothing", "junk"}
PeerStates == {"away", "connected", "stuck", "gone"}
Statuses == {0, 200, 400, 403, 404, 500}
Stages == {"", "route_dispatch", "tool_execute_start", "response_sent"}

TypeOK ==
  /\ stateMutex \in Callers \cup Workers \cup {None}
  /\ objects \subseteq Owned
  /\ running \in BOOLEAN
  /\ stopRequested \in BOOLEAN
  /\ listenSocket \in {"open", "invalid"}
  /\ implWorker \in Workers \cup {None}
  /\ callerPc \in [Callers -> CallerPcs]
  /\ workerPc \in [Workers -> WorkerPcs]
  /\ conn \in [Workers -> Clients \cup {None}]
  /\ backlog \in Seq(Clients)
  /\ peer \in [Clients -> PeerStates]
  /\ sent \in [Clients -> Payloads]
  /\ reply \in [Clients -> Statuses]
  /\ stage \in [Clients -> Stages]

Init ==
  /\ stateMutex = None
  /\ objects = {}
  /\ running = FALSE
  /\ stopRequested = FALSE
  /\ listenSocket = "invalid"
  /\ implWorker = None
  /\ callerPc = [k \in Callers |-> "idle"]
  /\ workerPc = [w \in Workers |-> "none"]
  /\ conn = [w \in Workers |-> None]
  /\ backlog = <<>>
  /\ peer = [c \in Clients |-> "away"]
  /\ sent = [c \in Clients |-> "nothing"]
  /\ reply = [c \in Clients |-> 0]
  /\ stage = [c \in Clients |-> ""]

CallerMoves(k, from, to) ==
  /\ callerPc[k] = from
  /\ callerPc' = [callerPc EXCEPT ![k] = to]

WorkerMoves(w, from, to) ==
  /\ workerPc[w] = from
  /\ workerPc' = [workerPc EXCEPT ![w] = to]

\* Mutant of LockFree: the lock_guards are missing.
NoLockGuard == TRUE

\* lock_guard<mutex> lock(state.mutex) gets past.
LockFree == stateMutex = None

-----------------------------------------------------------------------------
(* DebugExtensionInitialize *)

\* The engine calls an exported function, which blocks on its lock_guard.
CallInitialize(k) ==
  /\ CallerMoves(k, "idle", "initialize")
  /\ UNCHANGED <<lifecycle, serving>>

CallCleanup(k) ==
  /\ CallerMoves(k, "idle", "cleanup")
  /\ UNCHANGED <<lifecycle, serving>>

\* Mutant of AlreadyServing: a second initialization starts a second server.
NeverServing == FALSE

AlreadyServing == "server" \in objects /\ running

\* server->IsRunning(): S_OK without touching anything.
InitializeAgain(k) ==
  /\ LockFree
  /\ AlreadyServing
  /\ CallerMoves(k, "initialize", "idle")
  /\ UNCHANGED <<lifecycle, serving>>

\* New executor, router and server, the last with a new Impl.
InitializeCreate(k) ==
  /\ LockFree
  /\ ~AlreadyServing
  /\ CallerMoves(k, "initialize", "start")
  /\ stateMutex' = k
  /\ objects' = Owned
  /\ running' = FALSE
  /\ stopRequested' = FALSE
  /\ listenSocket' = "invalid"
  /\ implWorker' = None
  /\ UNCHANGED serving

\* HttpServer::Start with a listening socket found (PortFallback models the
\* search): the flags are set, then the thread is created.
StartSucceeds(k, w) ==
  /\ CallerMoves(k, "start", "announce")
  /\ WorkerMoves(w, "none", "check")
  /\ listenSocket' = "open"
  /\ stopRequested' = FALSE
  /\ running' = TRUE
  /\ implWorker' = w
  /\ UNCHANGED <<stateMutex, objects, conn, network, answers>>

\* HttpServer::Start failed: nothing of the server is left, E_FAIL.
StartFails(k) ==
  /\ CallerMoves(k, "start", "idle")
  /\ listenSocket' = "invalid"
  /\ objects' = {}
  /\ stateMutex' = None
  /\ UNCHANGED <<running, stopRequested, implWorker, serving>>

\* The endpoint is logged and the lock_guard released.
InitializeReturn(k) ==
  /\ CallerMoves(k, "announce", "idle")
  /\ stateMutex' = None
  /\ UNCHANGED <<objects, server, serving>>

-----------------------------------------------------------------------------
(* Cleanup, called by DebugExtensionUninitialize and DebugExtensionUnload *)

\* Mutant of CleanupLock: the server is stopped after the lock was released.
CleanupLockBriefly(k) ==
  /\ LockFree
  /\ "server" \in objects
  /\ CallerMoves(k, "cleanup", "stop")
  /\ UNCHANGED <<lifecycle, serving>>

CleanupLock(k) ==
  /\ LockFree
  /\ "server" \in objects
  /\ CallerMoves(k, "cleanup", "stop")
  /\ stateMutex' = k
  /\ UNCHANGED <<objects, server, serving>>

CleanupNothing(k) ==
  /\ LockFree
  /\ "server" \notin objects
  /\ CallerMoves(k, "cleanup", "idle")
  /\ objects' = {}
  /\ UNCHANGED <<stateMutex, server, serving>>

\* HttpServer::Stop.  A server that is neither running nor listening is only
\* joined; otherwise the worker is told to stop first.
StopRequest(k) ==
  LET stopped == ~running /\ listenSocket = "invalid" IN
  /\ CallerMoves(k, "stop", IF stopped THEN "join" ELSE "close")
  /\ stopRequested' = IF stopped THEN stopRequested ELSE TRUE
  /\ UNCHANGED <<stateMutex, objects, running, listenSocket, implWorker, serving>>

Pending(c) == \E i \in 1..Len(backlog) : backlog[i] = c

\* shutdown, closesocket: the kernel resets every connection not yet accepted.
StopClose(k) ==
  /\ CallerMoves(k, "close", "join")
  /\ listenSocket' = "invalid"
  /\ backlog' = <<>>
  /\ peer' = [c \in Clients |-> IF Pending(c) THEN "away" ELSE peer[c]]
  /\ sent' = [c \in Clients |-> IF Pending(c) THEN "nothing" ELSE sent[c]]
  /\ UNCHANGED <<stateMutex, objects, running, stopRequested, implWorker,
                 workerPc, conn, answers>>

\* Mutant of JoinReturns: the thread is detached instead of joined.
DetachReturns == TRUE

JoinReturns == implWorker # None => workerPc[implWorker] = "exited"

\* worker.join() returns once the thread has exited.  Nothing else runs
\* between that and the release of the lock_guard that could see the order
\* of the resets in Stop and Cleanup.
StopJoined(k) ==
  /\ JoinReturns
  /\ CallerMoves(k, "join", "idle")
  /\ workerPc' = [w \in Workers |-> IF workerPc[w] = "exited" THEN "none" ELSE workerPc[w]]
  /\ implWorker' = None
  /\ running' = FALSE
  /\ objects' = {}
  /\ stateMutex' = None
  /\ UNCHANGED <<stopRequested, listenSocket, conn, network, answers>>

-----------------------------------------------------------------------------
(* The worker thread of HttpServer::Start *)

\* Mutant of CheckStop: the loop watches the flag only it clears.
CheckRunning(w) ==
  /\ WorkerMoves(w, "check", IF running THEN "select" ELSE "exited")
  /\ UNCHANGED <<lifecycle, callerPc, conn, network, answers>>

\* while (!stop_requested), and running = false on the way out.
CheckStop(w) ==
  /\ WorkerMoves(w, "check", IF stopRequested THEN "exited" ELSE "select")
  /\ running' = (running /\ ~stopRequested)
  /\ UNCHANGED <<stateMutex, objects, stopRequested, listenSocket, implWorker,
                 callerPc, conn, network, answers>>

\* select with a 200 ms timeout: ready, or timed out, or failed on a closed
\* socket, which the loop does not tell apart.
Select(w) ==
  LET ready == listenSocket = "open" /\ backlog # <<>> IN
  /\ WorkerMoves(w, "select", IF ready THEN "accept" ELSE "check")
  /\ UNCHANGED <<lifecycle, callerPc, conn, network, answers>>

\* accept takes the oldest connection; with none and the socket open it blocks.
AcceptConnection(w) ==
  /\ backlog # <<>>
  /\ WorkerMoves(w, "accept", "recv")
  /\ conn' = [conn EXCEPT ![w] = Head(backlog)]
  /\ backlog' = Tail(backlog)
  /\ UNCHANGED <<lifecycle, callerPc, peer, sent, answers>>

\* Mutant of CloseConnection: closesocket(client_socket) is missing.
LeakConnection(c) == UNCHANGED <<peer, sent>>

CloseConnection(c) ==
  /\ peer' = [peer EXCEPT ![c] = "away"]
  /\ sent' = [sent EXCEPT ![c] = "nothing"]

\* accept fails on the closed socket, or because the oldest connection was
\* reset by its client while it waited.
AcceptFails(w) ==
  /\ WorkerMoves(w, "accept", "check")
  /\ \/ /\ listenSocket = "invalid"
        /\ UNCHANGED network
     \/ /\ backlog # <<>>
        /\ peer[Head(backlog)] = "gone"
        /\ CloseConnection(Head(backlog))
        /\ backlog' = Tail(backlog)
  /\ UNCHANGED <<lifecycle, callerPc, conn, answers>>

\* ReceiveRequest fails on bytes it cannot parse or a closed connection
\* (data sent before the close may be lost with it): 400 from the worker.
ReceiveFails(w) ==
  LET c == conn[w] IN
  /\ WorkerMoves(w, "recv", "send")
  /\ sent[c] = "junk" \/ peer[c] = "gone"
  /\ reply' = [reply EXCEPT ![c] = 400]
  /\ UNCHANGED <<lifecycle, callerPc, conn, network, stage>>

\* Mutant of RefusalStatus: status_code is left as it was.
RefusalStatusUnset(kind) == 202

RefusalStatus(kind) == IF kind = "notfound" THEN 404 ELSE 403

\* ReceiveRequest returns a request that HandleRequest answers without the
\* lock: an unknown path (404, no echo), or a refused origin, protocol
\* version or method (one status stands for 403, 400 and 405).
RefuseRequest(w) ==
  LET c == conn[w] IN
  /\ WorkerMoves(w, "recv", "send")
  /\ sent[c] \in {"notfound", "refused"}
  /\ reply' = [reply EXCEPT ![c] = RefusalStatus(sent[c])]
  /\ stage' = [stage EXCEPT ![c] = IF sent[c] = "notfound" THEN @ ELSE "response_sent"]
  /\ UNCHANGED <<lifecycle, callerPc, conn, network>>

\* A request for the router: echoed, then the worker waits for the lock.
RouteRequest(w) ==
  LET c == conn[w] IN
  /\ WorkerMoves(w, "recv", "lock")
  /\ sent[c] \in {"rpc", "eval"}
  /\ stage' = [stage EXCEPT ![c] =
                 IF sent[c] = "eval" THEN "tool_execute_start" ELSE "route_dispatch"]
  /\ UNCHANGED <<lifecycle, callerPc, conn, network, reply>>

ReachesExecutor(c) == "router" \in objects /\ sent[c] = "eval"

\* Lock, answer, unlock: 500 without a router, else the router's own answer.
Dispatch(w) ==
  LET c == conn[w] IN
  /\ WorkerMoves(w, "lock", "send")
  /\ LockFree
  /\ ~ReachesExecutor(c)
  /\ reply' = [reply EXCEPT ![c] = IF "router" \in objects THEN 200 ELSE 500]
  /\ stage' = [stage EXCEPT ![c] = "response_sent"]
  /\ UNCHANGED <<lifecycle, callerPc, conn, network>>

\* windbg.eval: the lock is held while the debugger runs the command.
BeginCommand(w) ==
  /\ WorkerMoves(w, "lock", "exec")
  /\ LockFree
  /\ ReachesExecutor(conn[w])
  /\ stateMutex' = w
  /\ UNCHANGED <<objects, server, callerPc, conn, network, answers>>

FinishCommand(w) ==
  LET c == conn[w] IN
  /\ WorkerMoves(w, "exec", "send")
  /\ stateMutex' = None
  /\ reply' = [reply EXCEPT ![c] = 200]
  /\ stage' = [stage EXCEPT ![c] = "response_sent"]
  /\ UNCHANGED <<objects, server, callerPc, conn, network>>

\* SendAll ends when the client has read it all or is gone, and blocks on a
\* client that does not read.
SendAllReturns(c) == peer[c] # "stuck"

\* Whatever SendAll returned, the connection is closed.
SendReply(w) ==
  LET c == conn[w] IN
  /\ WorkerMoves(w, "send", "check")
  /\ SendAllReturns(c)
  /\ conn' = [conn EXCEPT ![w] = None]
  /\ CloseConnection(c)
  /\ reply' = [reply EXCEPT ![c] = 0]
  /\ stage' = [stage EXCEPT ![c] = ""]
  /\ UNCHANGED <<lifecycle, callerPc, backlog>>

-----------------------------------------------------------------------------
(* Clients: the far end of the sockets, outside the repository *)

Connect(c) ==
  /\ peer[c] = "away"
  /\ listenSocket = "open"
  /\ peer' = [peer EXCEPT ![c] = "connected"]
  /\ backlog' = Append(backlog, c)
  /\ UNCHANGED <<lifecycle, callerPc, workerPc, conn, sent, answers>>

SendRequest(c) ==
  /\ peer[c] = "connected"
  /\ sent[c] = "nothing"
  /\ \E p \in Payloads \ {"nothing"} : sent' = [sent EXCEPT ![c] = p]
  /\ UNCHANGED <<lifecycle, callerPc, workerPc, conn, backlog, peer, answers>>

\* The client stops reading (its receive window is full).
Stall(c) ==
  /\ peer[c] = "connected"
  /\ peer' = [peer EXCEPT ![c] = "stuck"]
  /\ UNCHANGED <<lifecycle, callerPc, workerPc, conn, backlog, sent, answers>>

Leave(c) ==
  /\ peer[c] \in {"connected", "stuck"}
  /\ peer' = [peer EXCEPT ![c] = "gone"]
  /\ UNCHANGED <<lifecycle, callerPc, workerPc, conn, backlog, sent, answers>>

\* A waiting connection is aborted and the kernel drops it from the queue,
\* which may leave the worker in accept with nothing to take.
Abort(c) ==
  \E i \in 1..Len(backlog) :
    /\ backlog[i] = c
    /\ backlog' = SubSeq(backlog, 1, i - 1) \o SubSeq(backlog, i + 1, Len(backlog))
    /\ CloseConnection(c)
    /\ UNCHANGED <<lifecycle, callerPc, workerPc, conn, answers>>

-----------------------------------------------------------------------------

InitializeStep(k) ==
  \/ InitializeAgain(k) \/ InitializeCreate(k)
  \/ \E w \in Workers : StartSucceeds(k, w)
  \/ StartFails(k) \/ InitializeReturn(k)

CleanupStep(k) ==
  \/ CleanupLock(k) \/ CleanupNothing(k)
  \/ StopRequest(k) \/ StopClose(k) \/ StopJoined(k)

LoopStep(w) ==
  \/ CheckStop(w) \/ Select(w) \/ AcceptConnection(w) \/ AcceptFails(w)
  \/ ReceiveFails(w) \/ RefuseRequest(w) \/ RouteRequest(w)
  \/ Dispatch(w) \/ BeginCommand(w) \/ SendReply(w)

ClientStep(c) ==
  Connect(c) \/ SendRequest(c) \/ Stall(c) \/ Leave(c) \/ Abort(c)

Next ==
  \/ \E k \in Callers :
       CallInitialize(k) \/ CallCleanup(k) \/ InitializeStep(k) \/ CleanupStep(k)
  \/ \E w \in Workers : LoopStep(w) \/ FinishCommand(w)
  \/ \E c \in Clients : ClientStep(c)

Spec == Init /\ [][Next]_vars

\* Every thread that can take a step takes it; nothing is assumed of clients,
\* of debugger commands, or of how often the engine calls.
FairThreads ==
  /\ \A k \in Callers : WF_vars(InitializeStep(k)) /\ WF_vars(CleanupStep(k))
  /\ \A w \in Workers : WF_vars(LoopStep(w))

\* Well-behaved surroundings: commands end, clients send their request, and a
\* client that stopped reading gives up.
FairSurroundings ==
  /\ \A w \in Workers : WF_vars(FinishCommand(w))
  /\ \A c \in Clients :
       /\ WF_vars(SendRequest(c))
       /\ WF_vars(peer[c] = "stuck" /\ Leave(c))

ThreadSpec == Spec /\ FairThreads
FairSpec == ThreadSpec /\ FairSurroundings
=============================================================================
