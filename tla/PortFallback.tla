----------------------------- MODULE PortFallback -----------------------------
(***************************************************************************)
(* HttpServer::Start's search for a port to listen on, with other servers  *)
(* and foreign processes taking and releasing ports between any two of its *)
(* socket calls, and HttpServer::Stop.  Start and Stop of one server       *)
(* exclude one another (Impl::mutex); those of different servers do not.   *)
(***************************************************************************)
EXTENDS Integers

CONSTANTS
  Servers,          \* HttpServer objects, of one or several processes
  MaxPort,          \* 65535 in the code
  InitialPorts,     \* [Servers -> ports Start is called with]; 0 asks for any
                    \*   free port
  AttemptLimits,    \* [Servers -> values of max_port_attempts]
  DefaultAttempts,  \* kDefaultMaxPortAttempts, used for a limit of 0
  Restarted,        \* servers Start is called on while they run
  MaxOpen,          \*   and the sockets they may still hold when it is
  Free, Foreign,    \* owners of a port other than a server
  INVALID_SOCKET

ASSUME PortAssumption ==
  /\ MaxPort \in Nat \ {0}
  /\ InitialPorts \in [Servers -> SUBSET (0..MaxPort)]
  /\ AttemptLimits \in [Servers -> SUBSET Nat]
  /\ DefaultAttempts \in Nat \ {0}
  /\ Restarted \subseteq Servers /\ MaxOpen \in Nat
  /\ Free # Foreign /\ {Free, Foreign} \cap Servers = {}
  /\ INVALID_SOCKET \notin 0..MaxPort

Ports == 1..MaxPort
AnyPort == 0..MaxPort
Sockets == AnyPort \cup {INVALID_SOCKET}
Owners == Servers \cup {Free, Foreign}
StartPcs == {"idle", "try", "bind", "listen"}

VARIABLES
  startPc,       \* [Servers -> where Start is; "idle" outside]
  call,          \* [Servers -> the locals of Start]
  sock,          \* [Servers -> Start's local socket: its port, 0 if unbound]
  listenSocket,  \* [Servers -> Impl::listen_socket, as the port it listens on]
  boundPort,     \* [Servers -> Impl::bound_port]
  wsa,           \* [Servers -> Impl::wsa_initialized]
  running,       \* [Servers -> Impl::running]
  open,          \* [Servers -> how many sockets of the server are not closed]
  report,        \* [Servers -> HttpServerStartReport and result of the last Start]
  owner          \* [Ports -> who is bound to the port]

impl == <<listenSocket, boundPort, wsa, running>>
vars == <<startPc, call, sock, listenSocket, boundPort, wsa, running, open, report, owner>>

\* limit: max_port_attempts, attempts: attempt_count, which is also the loop's
\* offset whenever a new iteration begins.
Calls == [port : AnyPort, limit : Nat, attempts : Nat, conflicts : Nat, last : AnyPort]
Reports == [result : {"none", "started", "failed"}, initial : AnyPort,
            last : AnyPort, bound : AnyPort, attempts : Nat, conflicts : Nat,
            fallback : BOOLEAN, exhausted : BOOLEAN]

TypeOK ==
  /\ startPc \in [Servers -> StartPcs]
  /\ call \in [Servers -> Calls]
  /\ sock \in [Servers -> Sockets]
  /\ listenSocket \in [Servers -> Sockets]
  /\ boundPort \in [Servers -> AnyPort]
  /\ wsa \in [Servers -> BOOLEAN]
  /\ running \in [Servers -> BOOLEAN]
  /\ open \in [Servers -> Nat]
  /\ report \in [Servers -> Reports]
  /\ owner \in [Ports -> Owners]

NoReport == [result |-> "none", initial |-> 0, last |-> 0, bound |-> 0,
             attempts |-> 0, conflicts |-> 0, fallback |-> FALSE, exhausted |-> FALSE]
NewCall(port, limit) ==
  [port |-> port, limit |-> limit, attempts |-> 0, conflicts |-> 0, last |-> 0]

Init ==
  /\ startPc = [s \in Servers |-> "idle"]
  /\ call = [s \in Servers |-> NewCall(0, 0)]
  /\ sock = [s \in Servers |-> INVALID_SOCKET]
  /\ listenSocket = [s \in Servers |-> INVALID_SOCKET]
  /\ boundPort = [s \in Servers |-> 0]
  /\ wsa = [s \in Servers |-> FALSE]
  /\ running = [s \in Servers |-> FALSE]
  /\ open = [s \in Servers |-> 0]
  /\ report = [s \in Servers |-> NoReport]
  /\ owner \in [Ports -> {Free, Foreign}]

ResolveMaxPortAttempts(limit) == IF limit = 0 THEN DefaultAttempts ELSE limit

Moves(s, from, to) ==
  /\ startPc[s] = from
  /\ startPc' = [startPc EXCEPT ![s] = to]

\* update_start_report of a failed Start.
Failure(c, exhausted) ==
  [result |-> "failed", initial |-> c.port, last |-> c.last, bound |-> 0,
   attempts |-> c.attempts, conflicts |-> c.conflicts,
   fallback |-> FALSE, exhausted |-> exhausted]

\* Mutant of Released: fail_start forgets WSACleanup.
ReleasedButWsa(s) ==
  /\ listenSocket' = [listenSocket EXCEPT ![s] = INVALID_SOCKET]
  /\ boundPort' = [boundPort EXCEPT ![s] = 0]
  /\ UNCHANGED wsa

\* What fail_start gives back; no socket is listening when it is called.
Released(s) ==
  /\ listenSocket' = [listenSocket EXCEPT ![s] = INVALID_SOCKET]
  /\ boundPort' = [boundPort EXCEPT ![s] = 0]
  /\ wsa' = [wsa EXCEPT ![s] = FALSE]

-----------------------------------------------------------------------------
(* HttpServer::Start *)

\* The running check comes after listen_socket and bound_port are cleared.
StartRefused(s, port) ==
  /\ s \in Restarted /\ running[s]
  /\ open[s] <= MaxOpen
  /\ Moves(s, "idle", "idle")
  /\ listenSocket' = [listenSocket EXCEPT ![s] = INVALID_SOCKET]
  /\ boundPort' = [boundPort EXCEPT ![s] = 0]
  /\ report' = [report EXCEPT ![s] = Failure(NewCall(port, 0), FALSE)]
  /\ UNCHANGED <<call, sock, wsa, running, open, owner>>

\* WSAStartup or inet_pton failed.
StartRejected(s, port) ==
  /\ ~running[s]
  /\ Moves(s, "idle", "idle")
  /\ Released(s)
  /\ report' = [report EXCEPT ![s] = Failure(NewCall(port, 0), FALSE)]
  /\ UNCHANGED <<call, sock, running, open, owner>>

StartSearch(s, port, limit) ==
  /\ ~running[s]
  /\ Moves(s, "idle", "try")
  /\ call' = [call EXCEPT ![s] = NewCall(port, ResolveMaxPortAttempts(limit))]
  /\ listenSocket' = [listenSocket EXCEPT ![s] = INVALID_SOCKET]
  /\ boundPort' = [boundPort EXCEPT ![s] = 0]
  /\ wsa' = [wsa EXCEPT ![s] = TRUE]
  /\ UNCHANGED <<sock, running, open, report, owner>>

\* Mutant of Candidate: the port of the previous attempt is tried again.
SameCandidate(c) == IF c.attempts = 0 THEN c.port ELSE c.port + c.attempts - 1

Candidate(c) == c.port + c.attempts

\* Mutants of HasCandidate: the port is not compared with its largest value;
\* the last attempt allowed is not made.
HasAnyCandidate(c) == c.attempts < c.limit
HasEarlierCandidate(c) == c.attempts + 1 < c.limit /\ Candidate(c) <= MaxPort

HasCandidate(c) == c.attempts < c.limit /\ Candidate(c) <= MaxPort

Attempted(c) == [c EXCEPT !.last = Candidate(c), !.attempts = @ + 1]

TryPort(s) ==
  /\ HasCandidate(call[s])
  /\ Moves(s, "try", "bind")
  /\ call' = [call EXCEPT ![s] = Attempted(@)]
  /\ sock' = [sock EXCEPT ![s] = 0]
  /\ open' = [open EXCEPT ![s] = @ + 1]
  /\ UNCHANGED <<impl, report, owner>>

SocketFails(s) ==
  /\ HasCandidate(call[s])
  /\ Moves(s, "try", "idle")
  /\ call' = [call EXCEPT ![s] = Attempted(@)]
  /\ report' = [report EXCEPT ![s] = Failure(call'[s], FALSE)]
  /\ Released(s)
  /\ UNCHANGED <<sock, running, open, owner>>

Exhausted(c) == c.conflicts > 0 /\ c.conflicts = c.attempts

\* The loop ended without a socket; exhausted_conflicts is computed anew.
GiveUp(s) ==
  /\ ~HasCandidate(call[s])
  /\ Moves(s, "try", "idle")
  /\ report' = [report EXCEPT ![s] = Failure(call[s], Exhausted(call[s]))]
  /\ Released(s)
  /\ UNCHANGED <<call, sock, running, open, owner>>

\* Ports bind accepts for the candidate: any free one for 0.
Bindable(p) == {q \in Ports : owner[q] = Free /\ (p = 0 \/ q = p)}

\* Mutant of CloseLocal: closesocket(listen_socket) is missing.
ForgetLocal(s) ==
  /\ sock' = [sock EXCEPT ![s] = INVALID_SOCKET]
  /\ UNCHANGED open

CloseLocal(s) ==
  /\ sock' = [sock EXCEPT ![s] = INVALID_SOCKET]
  /\ open' = [open EXCEPT ![s] = @ - 1]

Bind(s) ==
  /\ Moves(s, "bind", "listen")
  /\ \E p \in Bindable(call[s].last) :
       /\ sock' = [sock EXCEPT ![s] = p]
       /\ owner' = [owner EXCEPT ![p] = s]
  /\ UNCHANGED <<call, impl, open, report>>

\* Mutant of Conflicted: the busy port is tried again.
RetryConflicted(c) == [c EXCEPT !.attempts = @ - 1]

Conflicted(c) == [c EXCEPT !.conflicts = @ + 1]

\* WSAEADDRINUSE: on to the next candidate.
BindConflicts(s) ==
  /\ Bindable(call[s].last) = {}
  /\ Moves(s, "bind", "try")
  /\ call' = [call EXCEPT ![s] = Conflicted(@)]
  /\ CloseLocal(s)
  /\ UNCHANGED <<impl, report, owner>>

\* Any other error of bind, and every error of listen, ends the search.
BindFails(s) ==
  /\ Moves(s, "bind", "idle")
  /\ CloseLocal(s)
  /\ report' = [report EXCEPT ![s] = Failure(call[s], FALSE)]
  /\ Released(s)
  /\ UNCHANGED <<call, running, owner>>

ListenFails(s) ==
  /\ Moves(s, "listen", "idle")
  /\ CloseLocal(s)
  /\ owner' = [owner EXCEPT ![sock[s]] = Free]
  /\ report' = [report EXCEPT ![s] = Failure(call[s], FALSE)]
  /\ Released(s)
  /\ UNCHANGED <<call, running>>

\* listen succeeded; without getsockname the attempted port is reported.
Listen(s) ==
  LET c == call[s] IN
  /\ Moves(s, "listen", "idle")
  /\ listenSocket' = [listenSocket EXCEPT ![s] = sock[s]]
  /\ sock' = [sock EXCEPT ![s] = INVALID_SOCKET]
  /\ \E bound \in {sock[s], c.last} :
       /\ boundPort' = [boundPort EXCEPT ![s] = bound]
       /\ report' = [report EXCEPT ![s] =
            [result |-> "started", initial |-> c.port, last |-> c.last,
             bound |-> bound, attempts |-> c.attempts, conflicts |-> c.conflicts,
             fallback |-> c.port # 0 /\ bound # c.port, exhausted |-> FALSE]]
  /\ running' = [running EXCEPT ![s] = TRUE]
  /\ UNCHANGED <<call, wsa, open, owner>>

-----------------------------------------------------------------------------
(* HttpServer::Stop and the rest of the machine *)

\* The worker has been joined; bound_port keeps its value.
Stop(s) ==
  LET p == listenSocket[s] IN
  /\ running[s]
  /\ Moves(s, "idle", "idle")
  /\ listenSocket' = [listenSocket EXCEPT ![s] = INVALID_SOCKET]
  /\ IF p = INVALID_SOCKET
     THEN UNCHANGED <<open, owner>>
     ELSE /\ open' = [open EXCEPT ![s] = @ - 1]
          /\ owner' = [owner EXCEPT ![p] = Free]
  /\ running' = [running EXCEPT ![s] = FALSE]
  /\ wsa' = [wsa EXCEPT ![s] = FALSE]
  /\ UNCHANGED <<call, sock, boundPort, report>>

ForeignBind(p) ==
  /\ owner[p] = Free
  /\ owner' = [owner EXCEPT ![p] = Foreign]
  /\ UNCHANGED <<startPc, call, sock, impl, open, report>>

ForeignClose(p) ==
  /\ owner[p] = Foreign
  /\ owner' = [owner EXCEPT ![p] = Free]
  /\ UNCHANGED <<startPc, call, sock, impl, open, report>>

SearchStep(s) ==
  \/ TryPort(s) \/ SocketFails(s) \/ GiveUp(s)
  \/ Bind(s) \/ BindConflicts(s) \/ BindFails(s)
  \/ ListenFails(s) \/ Listen(s)

Next ==
  \/ \E s \in Servers :
       \/ \E port \in InitialPorts[s] : StartRefused(s, port) \/ StartRejected(s, port)
       \/ \E port \in InitialPorts[s], limit \in AttemptLimits[s] :
            StartSearch(s, port, limit)
       \/ SearchStep(s) \/ Stop(s)
  \/ \E p \in Ports : ForeignBind(p) \/ ForeignClose(p)

Spec == Init /\ [][Next]_vars

\* The thread in Start runs on; nothing is assumed of the other processes.
FairSpec == Spec /\ \A s \in Servers : WF_vars(SearchStep(s))

-----------------------------------------------------------------------------
(* Properties *)

TrueReport(r) ==
  /\ r.result = "started" =>
       /\ r.attempts = r.conflicts + 1
       /\ r.last = r.initial + r.conflicts
       /\ r.initial # 0 => r.bound = r.last /\ (r.fallback <=> r.conflicts > 0)
  /\ r.result = "failed" =>
       /\ r.bound = 0
       /\ r.exhausted <=> r.conflicts > 0 /\ r.conflicts = r.attempts
       /\ ~r.exhausted => r.attempts \in {0, r.conflicts + 1}

\* The report of Start tells the truth about the search (http_server.hpp, and
\* the log lines DebugExtensionInitialize builds from it): every attempt but
\* a successful or fatal last one was a conflict, attempts are consecutive
\* ports, and a fallback is reported exactly when the asked port was taken.
ReportTrue == \A s \in Servers : TrueReport(report[s])

\* Giving up for conflicts means the whole window was tried: as many ports as
\* allowed, or all of them up to the last port there is.
ExhaustedAfterAll ==
  \A s \in Servers : LET r == report[s] IN
    startPc[s] = "idle" /\ r.exhausted =>
      r.attempts = call[s].limit \/ r.last = MaxPort

\* No attempt leaves the range of ports or exceeds the limit the caller set.
AttemptsBounded ==
  \A s \in Servers : LET c == call[s] IN
    c.attempts > 0 =>
      /\ c.attempts <= c.limit
      /\ c.last = c.port + c.attempts - 1
      /\ c.last <= MaxPort

\* Every socket a server opened is the one it listens on or the one Start is
\* trying, whichever call of the search failed.  It is said of the servers
\* whose owner asks before starting them, as dbgx-mcp.cpp does: StartRefused
\* loses the listening socket of the others.
NoSocketLeak ==
  \A s \in Servers \ Restarted :
    /\ open[s] = (IF sock[s] # INVALID_SOCKET THEN 1 ELSE 0)
                 + (IF listenSocket[s] # INVALID_SOCKET THEN 1 ELSE 0)
    /\ \A p \in Ports : owner[p] = s <=> p \in {sock[s], listenSocket[s]}

\* A server that is not running and not starting holds nothing, whether it
\* was stopped or failed to start, however its neighbours behave.
IdleHoldsNothing ==
  \A s \in Servers \ Restarted :
    startPc[s] = "idle" /\ ~running[s] =>
      /\ ~wsa[s] /\ open[s] = 0
      /\ listenSocket[s] = INVALID_SOCKET

\* Start returns, whatever the other processes do to the ports.
StartReturns == \A s \in Servers : startPc[s] # "idle" ~> startPc[s] = "idle"
=============================================================================
