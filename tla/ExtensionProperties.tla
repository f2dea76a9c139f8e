------------------------- MODULE ExtensionProperties -------------------------
(***************************************************************************)
(* What must hold of Extension: safety, the service it implements, and     *)
(* liveness under the fairness Extension states.                           *)
(***************************************************************************)
EXTENDS Extension

-----------------------------------------------------------------------------
(* Safety *)

InCleanup(k) == callerPc[k] \in {"stop", "close", "join"}
InSection(k) == callerPc[k] \in {"start", "announce"} \/ InCleanup(k)
Alive(w) == workerPc[w] \notin {"none", "exited"}

\* Loading, unloading and the execution of a command exclude one another:
\* the lock_guards of DebugExtensionInitialize, Cleanup and HandleRequest.
LifecycleExclusion ==
  /\ \A j, k \in Callers : InSection(j) /\ InSection(k) => j = k
  /\ \A k \in Callers, w \in Workers : ~(InSection(k) /\ workerPc[w] = "exec")
  /\ \A v, w \in Workers : workerPc[v] = "exec" /\ workerPc[w] = "exec" => v = w

\* A worker thread never outlives what it uses: the Impl its lambda captured
\* (and whose std::thread it is), the router and the executor, even when the
\* engine unloads and loads the extension while a request is in progress.
NoOrphanThread ==
  \A w \in Workers : Alive(w) => implWorker = w /\ objects = Owned

Serving ==
  /\ objects = Owned /\ running /\ ~stopRequested
  /\ listenSocket = "open"
  /\ \E w \in Workers : implWorker = w /\ Alive(w)

Released ==
  /\ objects = {} /\ ~running
  /\ listenSocket = "invalid" /\ backlog = <<>>
  /\ \A w \in Workers : workerPc[w] = "none" /\ conn[w] = None

\* Whenever no load or unload is under way, the extension either serves or
\* has given back everything Start and DebugExtensionInitialize acquired.
ServingOrReleased ==
  (\A k \in Callers : ~InSection(k)) => Serving \/ Released

\* The router null check of HandleRequest never answers 500: a worker that
\* gets the lock finds the router, whatever unload was queued before it.
RouterNeverMissing == \A c \in Clients : reply[c] # 500

\* Every connection belongs to the kernel's queue or to one worker, never to
\* both, and none is forgotten when the server stops.
ConnectionsAccounted ==
  /\ \A i, j \in 1..Len(backlog) : backlog[i] = backlog[j] => i = j
  /\ \A c \in Clients :
       /\ (peer[c] # "away") <=> (Pending(c) \/ \E w \in Workers : conn[w] = c)
       /\ \A w \in Workers : conn[w] = c => ~Pending(c)

\* Once Stop has been requested no command is started, not even for a request
\* received earlier: Cleanup keeps the lock until the worker has exited.
NoCommandAfterStopRequest ==
  [][\A w \in Workers :
       workerPc[w] # "exec" /\ workerPc'[w] = "exec" => ~stopRequested]_vars

-----------------------------------------------------------------------------
(* What the extension implements *)

Job(c) ==
  LET at(pc) == sent[c] = "eval" /\ \E w \in Workers : conn[w] = c /\ workerPc[w] = pc
  IN CASE at("lock") -> "accepted"
       [] at("exec") -> "executing"
       [] at("send") /\ reply[c] = 200 -> "executed"
       [] OTHER -> "none"

Service == INSTANCE EvalService
             WITH up <- "router" \in objects, job <- [c \in Clients |-> Job(c)]

\* Every windbg.eval call read from a socket is executed at most once under a
\* loaded extension, alone, and unloading waits for it to be answered.
ImplementsEvalService == Service!ServiceSpec

-----------------------------------------------------------------------------
(* Liveness *)

\* Where a worker may wait for something other than the extension itself.
Stalled(w) ==
  \/ workerPc[w] = "recv" /\ sent[conn[w]] = "nothing"
  \/ workerPc[w] = "send" /\ peer[conn[w]] = "stuck"
  \/ workerPc[w] = "exec"
  \/ workerPc[w] = "lock"

\* Stop gets the worker out of the loop, of select and of accept: an unload
\* that never returns has left the worker waiting for a silent client, a
\* client that does not read, or the lock the unload itself holds.  Nothing
\* is assumed of clients and commands.
UnloadHangsOnlyAtStalls ==
  \A k \in Callers :
    <>[](callerPc[k] = "join") =>
      <>[](\E w \in Workers : implWorker = w /\ Stalled(w) /\ workerPc[w] # "exec")

\* With well-behaved clients and commands a connection is done with, unless
\* an unload is waiting for the worker.
ConnectionsEnd ==
  FairSurroundings =>
    \A c \in Clients :
      (peer[c] # "away") ~> (peer[c] = "away" \/ \E k \in Callers : callerPc[k] = "join")

\* openspec/specs/windbg-http-mcp-eval/spec.md:62-64: unloading must release
\* what the extension created.  Stated of well-behaved clients and commands.
UnloadCompletes == \A k \in Callers : callerPc[k] = "join" ~> callerPc[k] = "idle"

\* README.md:192: a request whose tool_execute_start is never followed by
\* tool_execute_end or response_sent is stalled inside command execution.
SilentCallIsExecuting ==
  \A c \in Clients :
    <>[](stage[c] = "tool_execute_start") =>
      []<>(\E w \in Workers : conn[w] = c /\ workerPc[w] = "exec")
=============================================================================
